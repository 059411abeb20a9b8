\* Two MFA logins with one backup code.
SPECIFICATION Spec
CONSTANTS
    SessionIds = {s1, s2, s3}
    Emails = {home}
    NoEmail = NoEmail
    Providers = {google}
    BackupCodes = {1}
    MaxLoginAttempts = 2
    LockoutDuration = 1
    SessionTtl = 2
    TokenTtl = 1
    GracePeriod = 1
    Requests = {r1, r2}
    NoId = NoId
    UseCases <- BackupCodeUseCases
    AccessTtl = 1
    ChallengeTtl = 1
    MaxTime = 1
    MaxDraws = 2
    MaxRefreshTokens = 2
    MaxPasswords = 2
    MaxTorn = 1
INVARIANTS OneTime
CHECK_DEADLOCK FALSE
