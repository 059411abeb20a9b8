\* One request at a time, sessions and deletion.
SPECIFICATION Spec
CONSTANTS
    SessionIds = {s1, s2}
    Emails = {home}
    NoEmail = NoEmail
    Providers = {google}
    BackupCodes = {1}
    MaxLoginAttempts = 2
    LockoutDuration = 1
    SessionTtl = 2
    TokenTtl = 1
    GracePeriod = 1
    Requests = {r1}
    NoId = NoId
    UseCases <- SerialUseCases
    AccessTtl = 1
    ChallengeTtl = 1
    MaxTime = 2
    MaxDraws = 2
    MaxRefreshTokens = 2
    MaxPasswords = 2
    MaxTorn = 1
INVARIANTS TypeOK NoChallengeOnceScheduled
PROPERTIES SessionsCloseForGood DeletedWhenDue
CHECK_DEADLOCK FALSE
SYMMETRY Symmetry
