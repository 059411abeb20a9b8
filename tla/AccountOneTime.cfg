\* One request at a time: tokens, codes and the address a token confirms.
SPECIFICATION Spec
CONSTANTS
    SessionIds = {s1, s2, s3}
    Emails = {home, work}
    NoEmail = NoEmail
    Providers = {google}
    BackupCodes = {1}
    MaxLoginAttempts = 2
    LockoutDuration = 1
    SessionTtl = 2
    TokenTtl = 1
    GracePeriod = 1
    Requests = {r1}
    NoId = NoId
    UseCases <- OneTimeUseCases
    AccessTtl = 1
    ChallengeTtl = 1
    MaxTime = 1
    MaxDraws = 3
    MaxRefreshTokens = 2
    MaxPasswords = 3
    MaxTorn = 1
INVARIANTS OneTime ConfirmTokenAddress
CHECK_DEADLOCK FALSE
SYMMETRY Symmetry
