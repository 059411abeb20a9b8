\* Two wrong passwords that overlap.
SPECIFICATION Spec
CONSTANTS
    SessionIds = {s1}
    Emails = {home}
    NoEmail = NoEmail
    Providers = {}
    BackupCodes = {1}
    MaxLoginAttempts = 3
    LockoutDuration = 1
    SessionTtl = 2
    TokenTtl = 1
    GracePeriod = 1
    Requests = {r1, r2}
    NoId = NoId
    UseCases <- FailureUseCases
    AccessTtl = 1
    ChallengeTtl = 1
    MaxTime = 1
    MaxDraws = 2
    MaxRefreshTokens = 2
    MaxPasswords = 2
    MaxTorn = 1
PROPERTIES FailureCounted
CHECK_DEADLOCK FALSE
