\* Overlapping changes of password, providers and MFA, and a deletion; the clock stands.
SPECIFICATION Spec
CONSTANTS
    SessionIds = {s1}
    Emails = {home}
    NoEmail = NoEmail
    Providers = {google, github}
    BackupCodes = {1}
    MaxLoginAttempts = 2
    LockoutDuration = 1
    SessionTtl = 2
    TokenTtl = 1
    GracePeriod = 1
    Requests = {r1, r2}
    NoId = NoId
    UseCases <- CredentialUseCases
    AccessTtl = 1
    ChallengeTtl = 1
    MaxTime = 0
    MaxDraws = 3
    MaxRefreshTokens = 2
    MaxPasswords = 2
    MaxTorn = 1
INVARIANTS SignInMethod MfaUsable
PROPERTIES GoneBeyondReach
CHECK_DEADLOCK FALSE
SYMMETRY Symmetry
