----------------------------- MODULE UserAggregate -----------------------------
(***************************************************************************)
(* The User aggregate of the IAM context: one row of User with its Account *)
(* row, its Session rows and its OAuthAccount rows, as the record every use *)
(* case loads and PrismaUserRepository.save writes back.  The operators are *)
(* the methods of the entities and value objects; they return the aggregate *)
(* after the call and take the clock reading the code takes with Date.now().*)
(*                                                                          *)
(* Abstracted: a password is the number of passwords the account has had    *)
(* (pw), a secret or a token is the number of the draw that generated it, a *)
(* bcrypt hash is the value it is a hash of, and names, images and device   *)
(* metadata are left out.  At most one account per OAuth provider is linked.*)
(*                                                                          *)
(* A definition marked "Mutation" is a slip the next definition could have  *)
(* had.  No specification uses it; each shows that some property notices.   *)
(***************************************************************************)
EXTENDS Integers

CONSTANTS
    SessionIds,        \* ids IdGeneratorPort.generateId may draw for sessions
    Emails,            \* addresses the account may use
    NoEmail,           \* null in User.pendingEmail
    Providers,         \* OAuth providers
    BackupCodes,       \* positions of the backup codes of one enrolment
    MaxLoginAttempts,  \* MAX_LOGIN_ATTEMPTS
    LockoutDuration,   \* ACCOUNT_LOCKOUT_DURATION
    SessionTtl,        \* JWT_REFRESH_EXPIRES_IN
    TokenTtl,          \* VERIFICATION_TOKEN_EXPIRES_IN, PASSWORD_RESET_...
    GracePeriod        \* GRACE_PERIOD_ACCOUNT_DELETION

ASSUME NoEmailAssumption == NoEmail \notin Emails

ASSUME DurationAssumption ==
    /\ MaxLoginAttempts \in Nat \ {0}
    /\ LockoutDuration \in Nat \ {0}
    /\ SessionTtl \in Nat \ {0}
    /\ TokenTtl \in Nat \ {0}
    /\ GracePeriod \in Nat \ {0}

-----------------------------------------------------------------------------
(* The record.  Zero is null in every column that holds a draw or a date.   *)

\* under, to and torn are history: the password a session was opened under, the
\* address a token was mailed to, and whether the rows were put together from
\* SELECTs between which somebody else saved.
Session == [state: {"absent", "active", "revoked"}, expiresAt: Nat,
            refreshToken: Nat, under: Nat]
Token == [id: Nat, expiresAt: Nat, to: Emails \cup {NoEmail}]
FailedLogin == [count: Nat, lockedUntil: Nat]
MfaConfiguration == [isEnabled: BOOLEAN, secret: Nat, pendingSecret: Nat,
                     backupCodes: SUBSET BackupCodes]

User == [present: BOOLEAN, email: Emails \cup {NoEmail}, pendingEmail: Emails \cup {NoEmail},
         isVerified: BOOLEAN, hasPassword: BOOLEAN, pw: Nat,
         verification: Token, reset: Token, scheduledForDeletionAt: Nat,
         failed: FailedLogin, mfa: MfaConfiguration,
         sessions: [SessionIds -> Session], oauth: SUBSET Providers, torn: BOOLEAN]

NoSession == [state |-> "absent", expiresAt |-> 0, refreshToken |-> 0, under |-> 0]
NoToken == [id |-> 0, expiresAt |-> 0, to |-> NoEmail]
NoFailedLogin == [count |-> 0, lockedUntil |-> 0]
NoMfa == [isEnabled |-> FALSE, secret |-> 0, pendingSecret |-> 0, backupCodes |-> {}]

\* What the database holds of an account that was deleted.
NoUser == [present |-> FALSE, email |-> NoEmail, pendingEmail |-> NoEmail,
           isVerified |-> FALSE, hasPassword |-> FALSE, pw |-> 0,
           verification |-> NoToken, reset |-> NoToken, scheduledForDeletionAt |-> 0,
           failed |-> NoFailedLogin, mfa |-> NoMfa,
           sessions |-> [s \in SessionIds |-> NoSession], oauth |-> {}, torn |-> FALSE]

NewToken(id, to, now) == [id |-> id, expiresAt |-> now + TokenTtl, to |-> to]
TokenExpired(t, now) == t.expiresAt < now

-----------------------------------------------------------------------------
(* Factories.                                                               *)

createForRegistration(email, id, now) ==
    [NoUser EXCEPT !.present = TRUE, !.email = email, !.hasPassword = TRUE, !.pw = 1,
                   !.verification = NewToken(id, email, now)]

createForOAuthRegistration(email, provider) ==
    [NoUser EXCEPT !.present = TRUE, !.email = email, !.isVerified = TRUE, !.pw = 1,
                   !.oauth = {provider}]

-----------------------------------------------------------------------------
(* Failed logins.                                                           *)

IsLocked(f, now) == f.lockedUntil > now

\* Account.isLocked also clears, in memory, a lock whose time has passed.
clearExpiredLock(u, now) ==
    IF u.failed.lockedUntil # 0 /\ ~IsLocked(u.failed, now)
      THEN [u EXCEPT !.failed = NoFailedLogin]
      ELSE u

\* Mutation: > for >= in the test against the limit.
recordFailureLate(f, now) ==
    [count |-> f.count + 1,
     lockedUntil |-> IF f.count + 1 > MaxLoginAttempts
                       THEN now + LockoutDuration ELSE f.lockedUntil]
recordFailure(f, now) ==
    [count |-> f.count + 1,
     lockedUntil |-> IF f.count + 1 >= MaxLoginAttempts
                       THEN now + LockoutDuration ELSE f.lockedUntil]

handleFailedLogin(u, now) == [u EXCEPT !.failed = recordFailure(u.failed, now)]
resetFailedLogins(u) == [u EXCEPT !.failed = NoFailedLogin]

-----------------------------------------------------------------------------
(* Sessions.                                                                *)

IsExpired(s, now) == now > s.expiresAt
IsValid(s, now) == s.state = "active" /\ ~IsExpired(s, now)

addSession(u, sid, now) ==
    [u EXCEPT !.sessions[sid] = [state |-> "active", expiresAt |-> now + SessionTtl,
                                 refreshToken |-> 1, under |-> u.pw]]

\* revokeSession, revokeAllSessions and revokeAllOtherSessions all revoke the
\* sessions of some set that are valid at the moment of the call.
RevokeIn(u, S, now) ==
    [u EXCEPT !.sessions =
        [s \in SessionIds |-> IF s \in S /\ IsValid(u.sessions[s], now)
                                THEN [u.sessions[s] EXCEPT !.state = "revoked"]
                                ELSE u.sessions[s]]]
revokeSession(u, sid, now) == RevokeIn(u, {sid}, now)
revokeAllSessions(u, now) == RevokeIn(u, SessionIds, now)
revokeAllOtherSessions(u, sid, now) == RevokeIn(u, SessionIds \ {sid}, now)

rotateToken(u, sid, n) == [u EXCEPT !.sessions[sid].refreshToken = n]

-----------------------------------------------------------------------------
(* Passwords, tokens and the email address.                                 *)

\* The first password of an OAuth account opens no new password number: the
\* sessions it already has were not opened under an older password.
updatePassword(u) == [u EXCEPT !.hasPassword = TRUE,
                               !.pw = IF u.hasPassword THEN u.pw + 1 ELSE u.pw]

\* Mutation: the password is dropped as soon as a reset is asked for.
setResetTokenDrops(u, id, now) ==
    [u EXCEPT !.reset = NewToken(id, u.email, now), !.hasPassword = FALSE, !.pw = 0]
setResetToken(u, id, now) == [u EXCEPT !.reset = NewToken(id, u.email, now)]
\* Mutation: a reset lifts the lock as well.
changePasswordUnlocks(u) ==
    [u EXCEPT !.hasPassword = TRUE, !.pw = u.pw + 1, !.reset = NoToken,
              !.failed = NoFailedLogin]
changePassword(u) == [u EXCEPT !.hasPassword = TRUE, !.pw = u.pw + 1, !.reset = NoToken]

\* Mutation: the token is consumed, the flag is not set.
verifyEmailTokenOnly(u) == [u EXCEPT !.verification = NoToken]
verifyEmail(u) == [u EXCEPT !.isVerified = TRUE, !.verification = NoToken]
refreshVerificationToken(u, id, now) ==
    [u EXCEPT !.verification = NewToken(id, u.email, now)]
requestEmailChange(u, email, id, now) ==
    [u EXCEPT !.pendingEmail = email, !.verification = NewToken(id, email, now)]
confirmEmailChange(u) ==
    [u EXCEPT !.email = u.pendingEmail, !.pendingEmail = NoEmail, !.verification = NoToken]

-----------------------------------------------------------------------------
(* Deletion, multi-factor authentication and OAuth accounts.                *)

\* Mutation: the grace period is taken off the date.
scheduleDeletionBefore(u, now) == [u EXCEPT !.scheduledForDeletionAt = now - GracePeriod]
scheduleDeletion(u, now) == [u EXCEPT !.scheduledForDeletionAt = now + GracePeriod]
cancelDeletion(u) == [u EXCEPT !.scheduledForDeletionAt = 0]

initiateMfaSetup(u, secret) == [u EXCEPT !.mfa.pendingSecret = secret]
\* Mutation: the pending secret is cleared and not promoted.
enableMfaNoPromotion(u) ==
    [u EXCEPT !.mfa = [isEnabled |-> TRUE, secret |-> u.mfa.secret,
                       pendingSecret |-> 0, backupCodes |-> BackupCodes]]
enableMfa(u) ==
    [u EXCEPT !.mfa = [isEnabled |-> TRUE, secret |-> u.mfa.pendingSecret,
                       pendingSecret |-> 0, backupCodes |-> BackupCodes]]
disableMfa(u) == [u EXCEPT !.mfa = NoMfa]
\* Mutation: the code that was used is the one that is kept.
consumeMfaBackupCodeOthers(u, c) == [u EXCEPT !.mfa.backupCodes = @ \cap {c}]
consumeMfaBackupCode(u, c) == [u EXCEPT !.mfa.backupCodes = @ \ {c}]

\* An account that is linked already is left as it is.
linkOAuthAccount(u, p) == [u EXCEPT !.oauth = @ \cup {p}]
\* Mutation: the providers are counted before the removal.
CanUnlinkBefore(u, p) == u.hasPassword \/ u.oauth # {}
CanUnlink(u, p) == u.hasPassword \/ u.oauth \ {p} # {}
unlinkOAuthProvider(u, p) == [u EXCEPT !.oauth = @ \ {p}]

=============================================================================
