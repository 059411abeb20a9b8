\* Overlapping logins, verifications, password changes and resets.
SPECIFICATION Spec
CONSTANTS
    SessionIds = {s1, s2}
    Emails = {home}
    NoEmail = NoEmail
    Providers = {}
    BackupCodes = {1}
    MaxLoginAttempts = 2
    LockoutDuration = 1
    SessionTtl = 1
    TokenTtl = 1
    GracePeriod = 1
    Requests = {r1, r2}
    NoId = NoId
    UseCases <- SessionUseCases
    AccessTtl = 1
    ChallengeTtl = 1
    MaxTime = 1
    MaxDraws = 2
    MaxRefreshTokens = 2
    MaxPasswords = 2
    MaxTorn = 1
INVARIANTS LockMatchesCount AtMostOneOldSession SessionsNeedVerifiedEmail
PROPERTIES ClosedBeyondReach SpentBeyondReach LockedBeyondReach PasswordBeyondReach
CHECK_DEADLOCK FALSE
SYMMETRY Symmetry
