---------------------------- MODULE AccountRequests ----------------------------
(***************************************************************************)
(* The IAM use cases at work on one account.  Every use case loads the      *)
(* whole User aggregate, awaits other services (bcrypt, JWT signing, OAuth  *)
(* providers), changes the loaded copy and saves it back as a whole.  There *)
(* is no transaction around the two and no version check, so requests that  *)
(* overlap in the event loop work on copies of different ages.              *)
(*                                                                          *)
(* Each request is a slot r of Requests.  Its Load action makes the checks  *)
(* that come before the load and reads the rows; its Save action makes the  *)
(* checks on the copy and does the rest of the handler.  A load is several  *)
(* SELECTs, the User row first and then its Account, Session and            *)
(* OAuthAccount rows, outside any transaction: until a request saves, any   *)
(* of the last three may turn out to have been read later (ReadLater).  A   *)
(* save is one SQL transaction that first locks the User row, so it is one  *)
(* step.                                                                    *)
(***************************************************************************)
EXTENDS UserAggregate, Routes, FiniteSets

CONSTANTS
    Requests,      \* slots for requests and scheduled tasks in flight
    NoId,          \* no session id
    UseCases,      \* the use cases that may be called
    AccessTtl,     \* JWT_ACCESS_EXPIRES_IN
    ChallengeTtl,  \* MFA_CHALLENGE_TOKEN_EXPIRES_IN
    MaxTime, MaxDraws, MaxRefreshTokens, MaxPasswords, MaxTorn  \* bounds of the model

ASSUME NoIdAssumption == NoId \notin SessionIds

\* A slot runs the use case of a route or a scheduled task.
ASSUME UseCaseAssumption ==
    UseCases \subseteq UseCasesOf(IamRoutes) \cup {"hardDeletion", "cleanExpired"}

ASSUME TtlAssumption ==
    /\ AccessTtl \in Nat \ {0}
    /\ ChallengeTtl \in Nat \ {0}
    /\ BackupCodes \subseteq Nat \ {0}

VARIABLES
    db,         \* the account's rows
    req,        \* for each slot: the use case it runs and the copy it loaded
    now,        \* the clock
    draws,      \* how many tokens and MFA secrets have been generated
    handed,     \* for each session: refresh tokens handed to the client
    access,     \* for each session: when its last access token expires
    challenge,  \* when the last MFA challenge token expires
    accepted    \* one-time tokens and codes accepted, once (1) or again (2)

vars == <<db, req, now, draws, handed, access, challenge, accepted>>

-----------------------------------------------------------------------------
Idle == [op |-> "idle", user |-> NoUser, sid |-> NoId, arg |-> 0]

\* JwtAuthGuard: the signature and the expiry of the access token, no database.
Authenticated(sid) == access[sid] > now
SignedInUseCases == UseCasesFor("signedIn")
Admitted(op) ==
    op \in SignedInUseCases => \E caller \in SessionIds : Authenticated(caller)

\* Bound of the model: how many of the row and the copies may be torn at a time.
Room ==
    Cardinality({r \in Requests : req[r].user.torn}) + (IF db.torn THEN 1 ELSE 0) < MaxTorn

\* Mutation: a user that is missing is taken for a new one.
BeginUnchecked(r, op, u, sid, n) ==
    /\ op \in UseCases
    /\ req[r].op = "idle"
    /\ Admitted(op)
    /\ req' = [req EXCEPT ![r] = [op |-> op, user |-> [u EXCEPT !.present = TRUE],
                                 sid |-> sid, arg |-> n]]
    /\ UNCHANGED <<db, now, draws, handed, access, challenge, accepted>>

Begin(r, op, u, sid, n) ==
    /\ op \in UseCases
    /\ req[r].op = "idle"
    /\ db.present
    /\ Room
    /\ Admitted(op)
    /\ req' = [req EXCEPT ![r] = [op |-> op, user |-> u, sid |-> sid, arg |-> n]]
    /\ UNCHANGED <<db, now, draws, handed, access, challenge, accepted>>

\* The copy u with its Account row, its sessions or its providers as they are now.
\* A user without an Account row is never saved.
WithAccount(u) ==
    [u EXCEPT !.hasPassword = db.hasPassword, !.pw = db.pw, !.verification = db.verification,
              !.reset = db.reset, !.scheduledForDeletionAt = db.scheduledForDeletionAt,
              !.failed = db.failed, !.mfa = db.mfa]
ReadAgain(u) == (IF db.present THEN {WithAccount(u)} ELSE {})
                \cup {[u EXCEPT !.sessions = db.sessions], [u EXCEPT !.oauth = db.oauth]}

\* Rows that are not those of this moment may never have stood together.
Assembled(v) == IF [v EXCEPT !.torn = db.torn] = db THEN db ELSE [v EXCEPT !.torn = TRUE]

\* What a use case asks of the clock as soon as it has loaded the copy v, and what
\* no later moment would grant.
InTime(q, v) ==
    /\ q.op = "refresh" => ~IsExpired(v.sessions[q.sid], now)
    /\ q.op \in {"verifyEmail", "confirmEmailChange"} => ~TokenExpired(v.verification, now)

\* The use cases that save the copy they load.
Savers == UseCases \ {"deleteAccount", "hardDeletion", "cleanExpired"}

\* One of the SELECTs after the first comes only now.
ReadLater(r) ==
    /\ req[r].op \in Savers
    /\ \E v \in ReadAgain(req[r].user) :
          /\ v # req[r].user
          /\ InTime(req[r], v)
          /\ req[r].user.torn \/ Room
          /\ req' = [req EXCEPT ![r].user = Assembled(v)]
    /\ UNCHANGED <<db, now, draws, handed, access, challenge, accepted>>

\* What the create branch of the upsert leaves out.
CreateBranch(u) ==
    [u EXCEPT !.pendingEmail = NoEmail, !.reset = NoToken, !.scheduledForDeletionAt = 0]

\* save: an upsert of every column and every child row.
Save(r, u) ==
    /\ db' = IF db.present THEN u ELSE CreateBranch(u)
    /\ req' = [req EXCEPT ![r] = Idle]
    /\ UNCHANGED now

SaveOnly(r, u) ==
    Save(r, u) /\ UNCHANGED <<draws, handed, access, challenge, accepted>>

\* Mutation: the generator returns the same value again.
SaveWithDrawAgain(r, u) ==
    /\ draws < MaxDraws
    /\ Save(r, u)
    /\ UNCHANGED <<draws, handed, access, challenge, accepted>>

\* A save of a token or secret that was generated for it: no two draws are equal.
SaveWithDraw(r, u) ==
    /\ draws < MaxDraws
    /\ draws' = draws + 1
    /\ Save(r, u)
    /\ UNCHANGED <<handed, access, challenge, accepted>>

\* generateTokens for session sid, whose n-th refresh token this is.
HandOut(sid, n) ==
    /\ handed' = [handed EXCEPT ![sid] = n]
    /\ access' = [access EXCEPT ![sid] = now + AccessTtl]

\* Mutation: a session id may be drawn again.
OpenSessionReused(r, u) ==
    /\ \E sid \in SessionIds :
          /\ Save(r, addSession(u, sid, now))
          /\ HandOut(sid, 1)
    /\ UNCHANGED <<draws, challenge>>

OpenSession(r, u) ==
    /\ \E sid \in SessionIds :
          /\ handed[sid] = 0
          /\ Save(r, addSession(u, sid, now))
          /\ HandOut(sid, 1)
    /\ UNCHANGED <<draws, challenge>>

Accept(draw, position) ==
    accepted' = accepted \cup
        {<<draw, position, IF <<draw, position, 1>> \in accepted THEN 2 ELSE 1>>}

\* A request in flight ends without a save: a check failed, a service threw, or
\* the process went down.
Fail(r) ==
    /\ req[r].op # "idle"
    /\ req' = [req EXCEPT ![r] = Idle]
    /\ UNCHANGED <<db, now, draws, handed, access, challenge, accepted>>

-----------------------------------------------------------------------------
(* Signing in.                                                              *)

LoginLoad(r) == Begin(r, "login", db, NoId, 0)

\* The copy has a password to compare with, and its lock, if any, has run out by now.
Compares(r) ==
    /\ req[r].op = "login"
    /\ ~IsLocked(req[r].user.failed, now)
    /\ req[r].user.hasPassword

\* A wrong password is recorded.
WrongPassword(r) ==
    /\ Compares(r)
    /\ SaveOnly(r, handleFailedLogin(clearExpiredLock(req[r].user, now), now))

\* Mutation: a pending deletion is not looked at.
RightPasswordPending(r) ==
    /\ Compares(r)
    /\ LET v == resetFailedLogins(req[r].user)
           blocked == ~v.isVerified
       IN  \/ /\ blocked
              /\ SaveOnly(r, v)
           \/ /\ ~blocked /\ v.mfa.isEnabled
              /\ Save(r, v)
              /\ challenge' = now + ChallengeTtl
              /\ UNCHANGED <<draws, handed, access, accepted>>
           \/ /\ ~blocked /\ ~v.mfa.isEnabled
              /\ OpenSession(r, v)
              /\ UNCHANGED accepted

\* A right one clears the count and then meets the checks for a pending deletion, a
\* verified email and MFA, in that order.
RightPassword(r) ==
    /\ Compares(r)
    /\ LET v == resetFailedLogins(req[r].user)
           blocked == v.scheduledForDeletionAt # 0 \/ ~v.isVerified
       IN  \/ /\ blocked
              /\ SaveOnly(r, v)
           \/ /\ ~blocked /\ v.mfa.isEnabled
              /\ Save(r, v)
              /\ challenge' = now + ChallengeTtl
              /\ UNCHANGED <<draws, handed, access, accepted>>
           \/ /\ ~blocked /\ ~v.mfa.isEnabled
              /\ OpenSession(r, v)
              /\ UNCHANGED accepted

MfaLoginLoad(r) ==
    /\ challenge > now
    /\ Begin(r, "mfaLogin", db, NoId, 0)

MfaLoginSave(r) ==
    /\ req[r].op = "mfaLogin"
    /\ LET u == req[r].user
       IN  /\ u.mfa.isEnabled /\ u.mfa.secret # 0
           /\ \/ OpenSession(r, u) /\ UNCHANGED accepted
              \/ \E c \in u.mfa.backupCodes :
                    /\ OpenSession(r, consumeMfaBackupCode(u, c))
                    /\ Accept(u.mfa.secret, c)

\* findByOAuth found the account: nothing is saved before the session is.
OAuthLoginLoad(r) == db.oauth # {} /\ Begin(r, "oauthLogin", db, NoId, 0)

OAuthLoginSave(r) ==
    /\ req[r].op = "oauthLogin"
    /\ req[r].user.scheduledForDeletionAt = 0
    /\ ~req[r].user.mfa.isEnabled
    /\ OpenSession(r, req[r].user)
    /\ UNCHANGED accepted

OAuthLoginChallenge(r) ==
    /\ req[r].op = "oauthLogin"
    /\ req[r].user.scheduledForDeletionAt = 0
    /\ req[r].user.mfa.isEnabled
    /\ req' = [req EXCEPT ![r] = Idle]
    /\ challenge' = now + ChallengeTtl
    /\ UNCHANGED <<db, now, draws, handed, access, accepted>>

\* findByEmail found the account: the provider is linked and saved first, and
\* the request then goes on with the same copy to the checks and the session.
OAuthAutoLinkLoad(r) ==
    /\ db.oauth # Providers
    /\ Begin(r, "oauthAutoLink", db, NoId, 0)

OAuthAutoLinkSave(r) ==
    /\ req[r].op = "oauthAutoLink"
    /\ \E p \in Providers :
          LET u == linkOAuthAccount(req[r].user, p)
              stops == u.scheduledForDeletionAt # 0 \/ u.mfa.isEnabled
          IN  /\ db' = IF db.present THEN u ELSE CreateBranch(u)
              /\ req' = [req EXCEPT ![r] =
                            IF stops THEN Idle
                            ELSE [op |-> "oauthLinked", user |-> u, sid |-> NoId, arg |-> 0]]
              /\ challenge' = IF u.scheduledForDeletionAt = 0 /\ u.mfa.isEnabled
                                THEN now + ChallengeTtl ELSE challenge
    /\ UNCHANGED <<now, draws, handed, access, accepted>>

OAuthLinkedSave(r) ==
    /\ req[r].op = "oauthLinked"
    /\ OpenSession(r, req[r].user)
    /\ UNCHANGED accepted

-----------------------------------------------------------------------------
(* Sessions.                                                                *)

\* bcrypt reads 72 bytes of a refresh token: the JWT header and the first 26
\* bytes of the payload, which hold only part of "sub".  The digest is thus the
\* same for every refresh token of the account.
TokenDigest(n) == 0

\* Any token of the session will do: none expires before the session does.
RefreshLoad(r) ==
    \E sid \in SessionIds : \E n \in 1 .. handed[sid] :
        /\ ~IsExpired(db.sessions[sid], now)
        /\ Begin(r, "refresh", db, sid, n)

RefreshSave(r) ==
    /\ req[r].op = "refresh"
    /\ LET u == req[r].user
           sid == req[r].sid
       IN  /\ u.sessions[sid].state = "active"
           /\ IF TokenDigest(req[r].arg) = TokenDigest(u.sessions[sid].refreshToken)
                THEN /\ handed[sid] < MaxRefreshTokens
                     /\ Save(r, rotateToken(u, sid, handed[sid] + 1))
                     /\ HandOut(sid, handed[sid] + 1)
                     /\ UNCHANGED <<draws, challenge, accepted>>
                ELSE SaveOnly(r, revokeAllSessions(u, now))

LogoutLoad(r) ==
    \E sid \in SessionIds : Authenticated(sid) /\ Begin(r, "logout", db, sid, 0)

LogoutSave(r) ==
    /\ req[r].op = "logout"
    /\ SaveOnly(r, revokeSession(req[r].user, req[r].sid, now))

RevokeSessionLoad(r) ==
    /\ \E sid \in SessionIds : handed[sid] > 0 /\ Begin(r, "revokeSession", db, sid, 0)

RevokeSessionSave(r) ==
    /\ req[r].op = "revokeSession"
    /\ SaveOnly(r, revokeSession(req[r].user, req[r].sid, now))

RevokeOthersLoad(r) ==
    \E sid \in SessionIds : Authenticated(sid) /\ Begin(r, "revokeOthers", db, sid, 0)

RevokeOthersSave(r) ==
    /\ req[r].op = "revokeOthers"
    /\ SaveOnly(r, revokeAllOtherSessions(req[r].user, req[r].sid, now))

\* The 2 a.m. task: one DELETE on the session table, no aggregate.
CleanExpiredSessions ==
    LET expired == {s \in SessionIds : /\ db.sessions[s].state # "absent"
                                       /\ db.sessions[s].expiresAt <= now}
    IN  /\ "cleanExpired" \in UseCases
        /\ expired # {}
        /\ db' = [db EXCEPT !.sessions = [s \in SessionIds |->
                     IF s \in expired THEN NoSession ELSE db.sessions[s]]]
        /\ UNCHANGED <<req, now, draws, handed, access, challenge, accepted>>

-----------------------------------------------------------------------------
(* Passwords.  A wrong current password ends in Fail.                       *)

ChangePasswordLoad(r) ==
    \E sid \in SessionIds : Authenticated(sid) /\ Begin(r, "changePassword", db, sid, 0)

\* Mutation: the other sessions are left open.
ChangePasswordSaveOnly(r) ==
    /\ req[r].op = "changePassword"
    /\ req[r].user.hasPassword
    /\ req[r].user.pw < MaxPasswords
    /\ SaveOnly(r, updatePassword(req[r].user))

ChangePasswordSave(r) ==
    /\ req[r].op = "changePassword"
    /\ req[r].user.hasPassword
    /\ req[r].user.pw < MaxPasswords
    /\ SaveOnly(r, revokeAllOtherSessions(updatePassword(req[r].user), req[r].sid, now))

SetInitialPasswordLoad(r) ==
    \E sid \in SessionIds : Authenticated(sid) /\ Begin(r, "setInitialPassword", db, sid, 0)

SetInitialPasswordSave(r) ==
    /\ req[r].op = "setInitialPassword"
    /\ ~req[r].user.hasPassword
    /\ SaveOnly(r, updatePassword(req[r].user))

ForgotPasswordLoad(r) == Begin(r, "forgotPassword", db, NoId, 0)

ForgotPasswordSave(r) ==
    /\ req[r].op = "forgotPassword"
    /\ SaveWithDraw(r, setResetToken(req[r].user, draws + 1, now))

ResetPasswordLoad(r) ==
    /\ db.reset.id # 0
    /\ Begin(r, "resetPassword", db, NoId, db.reset.id)

ResetPasswordSave(r) ==
    /\ req[r].op = "resetPassword"
    /\ LET u == req[r].user
       IN  /\ u.reset.id = req[r].arg
           /\ ~TokenExpired(u.reset, now)
           /\ u.pw < MaxPasswords
           /\ Save(r, revokeAllSessions(changePassword(u), now))
    /\ Accept(req[r].arg, 0)
    /\ UNCHANGED <<draws, handed, access, challenge>>

-----------------------------------------------------------------------------
(* The email address.                                                       *)

\* verify and confirm check the token's age right after they load the row.
VerifyEmailLoad(r) ==
    /\ db.verification.id # 0
    /\ ~TokenExpired(db.verification, now)
    /\ Begin(r, "verifyEmail", db, NoId, db.verification.id)

VerifyEmailSave(r) ==
    /\ req[r].op = "verifyEmail"
    /\ req[r].user.verification.id = req[r].arg
    /\ OpenSession(r, verifyEmail(req[r].user))
    /\ Accept(req[r].arg, 0)

\* Mutation: verified accounts are not turned away.
ResendVerificationLoadAny(r) == Begin(r, "resendVerification", db, NoId, 0)

ResendVerificationLoad(r) ==
    ~db.isVerified /\ Begin(r, "resendVerification", db, NoId, 0)

ResendVerificationSave(r) ==
    /\ req[r].op = "resendVerification"
    /\ SaveWithDraw(r, refreshVerificationToken(req[r].user, draws + 1, now))

RequestEmailChangeLoad(r) == Begin(r, "requestEmailChange", db, NoId, 0)

\* An address some account has, this one included, is refused.
RequestEmailChangeSave(r) ==
    /\ req[r].op = "requestEmailChange"
    /\ \E email \in Emails \ {db.email} :
          SaveWithDraw(r, requestEmailChange(req[r].user, email, draws + 1, now))

ConfirmEmailChangeLoad(r) ==
    /\ db.verification.id # 0
    /\ db.pendingEmail # NoEmail
    /\ ~TokenExpired(db.verification, now)
    /\ Begin(r, "confirmEmailChange", db, NoId, db.verification.id)

ConfirmEmailChangeSave(r) ==
    /\ req[r].op = "confirmEmailChange"
    /\ req[r].user.verification.id = req[r].arg
    /\ Save(r, confirmEmailChange(req[r].user))
    /\ Accept(req[r].arg, 0)
    /\ UNCHANGED <<draws, handed, access, challenge>>

\* Name and image are not modelled; the save writes every other column too.  Those of
\* the avatar wait for the image store between load and save.
UpdateAccountLoad(r) == Begin(r, "updateAccount", db, NoId, 0)

UpdateAccountSave(r) ==
    /\ req[r].op = "updateAccount"
    /\ SaveOnly(r, req[r].user)

UploadAvatarLoad(r) == Begin(r, "uploadAvatar", db, NoId, 0)

UploadAvatarSave(r) ==
    /\ req[r].op = "uploadAvatar"
    /\ SaveOnly(r, req[r].user)

RemoveAvatarLoad(r) == Begin(r, "removeAvatar", db, NoId, 0)

RemoveAvatarSave(r) ==
    /\ req[r].op = "removeAvatar"
    /\ SaveOnly(r, req[r].user)

-----------------------------------------------------------------------------
(* Deletion.                                                                *)

ScheduleDeletionLoad(r) == Begin(r, "scheduleDeletion", db, NoId, 0)

ScheduleDeletionSave(r) ==
    /\ req[r].op = "scheduleDeletion"
    /\ SaveOnly(r, scheduleDeletion(req[r].user, now))

RestoreLoad(r) == Begin(r, "restore", db, NoId, 0)

RestoreSave(r) ==
    /\ req[r].op = "restore"
    /\ req[r].user.hasPassword
    /\ OpenSession(r, cancelDeletion(req[r].user))
    /\ UNCHANGED accepted

\* delete: the User row, and by cascade its account, sessions and providers.
\* It throws on a row that is gone.
DeleteRow(r) ==
    /\ db.present
    /\ db' = NoUser
    /\ req' = [req EXCEPT ![r] = Idle]
    /\ UNCHANGED <<now, draws, handed, access, challenge, accepted>>

\* An administrator deletes the account.  Of what is loaded nothing is written back.
DeleteAccountLoad(r) == Begin(r, "deleteAccount", NoUser, NoId, 0)

DeleteAccountDelete(r) == req[r].op = "deleteAccount" /\ DeleteRow(r)

\* The midnight task: the accounts that are due, then one delete for each.
\* Mutation: every scheduled account is taken, due or not.
HardDeletionLoadEarly(r) ==
    /\ db.scheduledForDeletionAt # 0
    /\ Begin(r, "hardDeletion", NoUser, NoId, 0)

HardDeletionLoad(r) ==
    /\ db.scheduledForDeletionAt # 0
    /\ db.scheduledForDeletionAt <= now
    /\ Begin(r, "hardDeletion", NoUser, NoId, 0)

HardDeletionDelete(r) == req[r].op = "hardDeletion" /\ DeleteRow(r)

-----------------------------------------------------------------------------
(* Multi-factor authentication and OAuth accounts.                          *)

InitiateMfaLoad(r) == Begin(r, "initiateMfa", db, NoId, 0)

InitiateMfaSave(r) ==
    /\ req[r].op = "initiateMfa"
    /\ SaveWithDraw(r, initiateMfaSetup(req[r].user, draws + 1))

EnableMfaLoad(r) == Begin(r, "enableMfa", db, NoId, 0)

EnableMfaSave(r) ==
    /\ req[r].op = "enableMfa"
    /\ req[r].user.mfa.pendingSecret # 0
    /\ SaveOnly(r, enableMfa(req[r].user))

DisableMfaLoad(r) == Begin(r, "disableMfa", db, NoId, 0)

DisableMfaSave(r) ==
    /\ req[r].op = "disableMfa"
    /\ req[r].user.hasPassword
    /\ req[r].user.mfa.isEnabled
    /\ SaveOnly(r, disableMfa(req[r].user))

\* The callback is public: the cookie of link-url names the user, no token is looked at.
LinkOAuthLoad(r) == Begin(r, "linkOAuth", db, NoId, 0)

LinkOAuthSave(r) ==
    /\ req[r].op = "linkOAuth"
    /\ \E p \in Providers : SaveOnly(r, linkOAuthAccount(req[r].user, p))

UnlinkOAuthLoad(r) == Begin(r, "unlinkOAuth", db, NoId, 0)

UnlinkOAuthSave(r) ==
    /\ req[r].op = "unlinkOAuth"
    /\ \E p \in Providers :
          /\ CanUnlink(req[r].user, p)
          /\ SaveOnly(r, unlinkOAuthProvider(req[r].user, p))

-----------------------------------------------------------------------------
(* The specification.                                                       *)

Init ==
    /\ \/ \E e \in Emails : db = createForRegistration(e, 1, 0)
       \/ \E e \in Emails, p \in Providers : db = createForOAuthRegistration(e, p)
    /\ req = [r \in Requests |-> Idle]
    /\ now = 0
    /\ draws = 1
    /\ handed = [s \in SessionIds |-> 0]
    /\ access = [s \in SessionIds |-> 0]
    /\ challenge = 0
    /\ accepted = {}

Tick ==
    /\ now < MaxTime
    /\ now' = now + 1
    /\ UNCHANGED <<db, req, draws, handed, access, challenge, accepted>>

SignIn(r) ==
    \/ LoginLoad(r) \/ WrongPassword(r) \/ RightPassword(r)
    \/ MfaLoginLoad(r) \/ MfaLoginSave(r)
    \/ OAuthLoginLoad(r) \/ OAuthLoginSave(r) \/ OAuthLoginChallenge(r)
    \/ OAuthAutoLinkLoad(r) \/ OAuthAutoLinkSave(r) \/ OAuthLinkedSave(r)

ManageSessions(r) ==
    \/ RefreshLoad(r) \/ RefreshSave(r)
    \/ LogoutLoad(r) \/ LogoutSave(r)
    \/ RevokeSessionLoad(r) \/ RevokeSessionSave(r)
    \/ RevokeOthersLoad(r) \/ RevokeOthersSave(r)

ManageCredentials(r) ==
    \/ ChangePasswordLoad(r) \/ ChangePasswordSave(r)
    \/ SetInitialPasswordLoad(r) \/ SetInitialPasswordSave(r)
    \/ ForgotPasswordLoad(r) \/ ForgotPasswordSave(r)
    \/ ResetPasswordLoad(r) \/ ResetPasswordSave(r)
    \/ InitiateMfaLoad(r) \/ InitiateMfaSave(r)
    \/ EnableMfaLoad(r) \/ EnableMfaSave(r)
    \/ DisableMfaLoad(r) \/ DisableMfaSave(r)
    \/ LinkOAuthLoad(r) \/ LinkOAuthSave(r)
    \/ UnlinkOAuthLoad(r) \/ UnlinkOAuthSave(r)

ManageAccount(r) ==
    \/ VerifyEmailLoad(r) \/ VerifyEmailSave(r)
    \/ ResendVerificationLoad(r) \/ ResendVerificationSave(r)
    \/ RequestEmailChangeLoad(r) \/ RequestEmailChangeSave(r)
    \/ ConfirmEmailChangeLoad(r) \/ ConfirmEmailChangeSave(r)
    \/ UpdateAccountLoad(r) \/ UpdateAccountSave(r)
    \/ UploadAvatarLoad(r) \/ UploadAvatarSave(r)
    \/ RemoveAvatarLoad(r) \/ RemoveAvatarSave(r)
    \/ ScheduleDeletionLoad(r) \/ ScheduleDeletionSave(r)
    \/ RestoreLoad(r) \/ RestoreSave(r)
    \/ DeleteAccountLoad(r) \/ DeleteAccountDelete(r)
    \/ HardDeletionLoad(r) \/ HardDeletionDelete(r)

Next ==
    \/ \E r \in Requests :
          \/ SignIn(r) \/ ManageSessions(r) \/ ManageCredentials(r) \/ ManageAccount(r)
          \/ ReadLater(r) \/ Fail(r)
    \/ CleanExpiredSessions
    \/ Tick

Spec == Init /\ [][Next]_vars

-----------------------------------------------------------------------------
(* Properties of the row, whatever the requests in flight.                  *)

Request == [op: UseCases \cup {"idle", "oauthLinked"}, user: User, sid: SessionIds \cup {NoId}, arg: Nat]

\* Every variable, and every loaded copy, has its type.
TypeOK ==
    /\ db \in User
    /\ req \in [Requests -> Request]
    /\ now \in Nat
    /\ draws \in Nat
    /\ handed \in [SessionIds -> Nat]
    /\ access \in [SessionIds -> Nat]
    /\ challenge \in Nat
    /\ accepted \subseteq Nat \X Nat \X {1, 2}

LockAt(u) ==
    /\ u.failed.count <= MaxLoginAttempts
    /\ u.failed.lockedUntil # 0 <=> u.failed.count = MaxLoginAttempts

\* The failure count stops at the limit, and the account carries a lock exactly
\* when it is there (FailedLoginState.recordFailure, Account.isLocked), however
\* many logins are under way.
LockMatchesCount == LockAt(db)

OldSessions(u, t) == {s \in SessionIds : IsValid(u.sessions[s], t) /\ u.sessions[s].under # u.pw}
AtMostOne(S) == \A s, t \in S : s = t

\* A new password closes the sessions opened under an older one, except the one
\* session that asked for the change (ChangePassword, ResetPassword): in no row
\* are two valid sessions older than its password, unless it was saved from a copy
\* whose rows were read on both sides of another save.
AtMostOneOldSession == ~db.torn => AtMostOne(OldSessions(db, now))

SignInAt(u) == u.present => u.hasPassword \/ u.oauth # {}

\* An account keeps a way to sign in: a password or an OAuth provider, even when
\* two providers are unlinked at the same time (unlinkOAuthProvider), unless the
\* Account row and the providers that were saved were read on both sides of another save.
SignInMethod == ~db.torn => SignInAt(db)

MfaAt(u) ==
    /\ u.mfa.isEnabled => u.mfa.secret # 0
    /\ u.mfa.backupCodes # {} => u.mfa.isEnabled

\* MFA is never on without a secret to check codes against, and backup codes
\* exist only while it is on (MfaConfiguration).
MfaUsable == MfaAt(db)

\* Where only password logins and verifications open sessions, a session exists
\* only on an account whose email is verified (LoginUseCase, VerifyEmailUseCase),
\* unless the sessions that were saved were read later than an unverified User row.
SessionsNeedVerifiedEmail ==
    ~db.torn => \A s \in SessionIds : db.sessions[s].state # "absent" => db.isVerified

ConfirmAt(u) ==
    u.isVerified /\ u.pendingEmail # NoEmail /\ u.verification.id # 0
        => u.verification.to = u.pendingEmail

\* On a verified account the outstanding token of an email change is one that was
\* mailed to the address it confirms (RequestEmailChange, ResendVerification), unless
\* the token that was saved was read later than the address.
ConfirmTokenAddress == ~db.torn => ConfirmAt(db)

-----------------------------------------------------------------------------
(* What overlapping requests cannot do: a save brings back only what its    *)
(* copy holds, so a change is final once no copy is left from before it.    *)

Copies == {db} \cup {req[r].user : r \in Requests}

\* The session was opened, and nobody holds it open any more.
OutOfReach(s) == handed[s] > 0 /\ \A u \in Copies : u.sessions[s].state # "active"

\* A session that is closed in the row and in every copy in flight is closed for good:
\* refresh, logout and all other saves can only bring back a session that was open
\* when they loaded the account (PrismaUserRepository.save).
ClosedBeyondReach == [][\A s \in SessionIds : OutOfReach(s) => OutOfReach(s)']_vars

\* Nobody holds the account any more.
Gone == \A u \in Copies : ~u.present

\* An account that is deleted, and that no request in flight had loaded, does not come
\* back (PrismaUserRepository.save, whose upsert would create it again).
GoneBeyondReach == [][Gone => Gone']_vars

\* The password is newer than the n-th, wherever the account is held.
Forgotten(n) == \A u \in Copies : u.present => u.pw > n

\* A password that was replaced in the row and in every copy in flight does not come
\* back: only a save of a copy from before the change restores it (ChangePasswordUseCase,
\* ResetPasswordUseCase, PrismaUserRepository.save).
PasswordBeyondReach == [][\A n \in 0..MaxPasswords : Forgotten(n) => Forgotten(n)']_vars

\* The row or the copy u accepts code c of the MFA secret that draw d made, or, with
\* c = 0, the token of draw d.  Enabling MFA makes the codes of the pending secret.
Offers(u, d, c) ==
    IF c = 0 THEN d \in {u.verification.id, u.reset.id}
    ELSE d = u.mfa.pendingSecret \/ (d = u.mfa.secret /\ c \in u.mfa.backupCodes)

Unoffered(d, c) == \A u \in Copies : ~Offers(u, d, c)

\* A token or code that was accepted, and that neither the row nor a copy in flight
\* offers any more, is never offered or accepted again (ResetPasswordUseCase,
\* VerifyEmailUseCase, MfaLoginUseCase): a second use needs a request that
\* overlapped with the first.
SpentBeyondReach ==
    [][\A x \in accepted : Unoffered(x[1], x[2]) =>
          /\ Unoffered(x[1], x[2])'
          /\ <<x[1], x[2], 2>> \in accepted' => <<x[1], x[2], 2>> \in accepted]_vars

\* The account is locked past the moment t, wherever it is held.
LockedPast(t) == \A u \in Copies : u.present => u.failed.lockedUntil > t

\* A lock that is in the row and in every copy in flight holds until it runs out: no use
\* case lifts it, whatever it saves and however long ago it loaded (Account.isLocked,
\* LoginUseCase).
LockedBeyondReach == [][\A t \in now .. MaxTime : LockedPast(t) => LockedPast(t)']_vars

-----------------------------------------------------------------------------
(* Promises that span several rows.  They hold when requests do not overlap. *)

\* The promise of SessionLedger, read off the row.  A session counts as open
\* strictly before expiresAt: at that instant it still passes isValid, and the
\* purge already takes it.
IsOpen(s) == db.sessions[s].state = "active" /\ now < db.sessions[s].expiresAt
ledger == [s \in SessionIds |-> IF handed[s] = 0 THEN "unused"
                                ELSE IF IsOpen(s) THEN "open" ELSE "closed"]
Ledger == INSTANCE SessionLedger

\* Sessions open once and close for good.
SessionsCloseForGood == Ledger!Spec

\* A revoked session is never valid again (SessionRepository row isRevoked,
\* checked by RefreshTokenUseCase).
RevokedForGood ==
    [][\A s \in SessionIds :
          db.sessions[s].state = "revoked" => db'.sessions[s].state # "active"]_vars

\* A reset token, a verification token and a backup code are accepted once.
OneTime == \A x \in accepted : x[3] = 1

\* The task deletes an account only while a deletion is scheduled and due.
DeletedWhenDue ==
    [][db.present /\ ~db'.present =>
          \/ \E r \in Requests : req[r].op = "deleteAccount" /\ req'[r].op = "idle"
          \/ db.scheduledForDeletionAt # 0 /\ db.scheduledForDeletionAt <= now]_vars

\* MfaLoginUseCase does not look at a pending deletion: it relies on the challenge, which
\* the password step refuses to an account that is scheduled.  So no challenge outlives
\* the scheduling by more than its own time, and then nobody signs in any more.
NoChallengeOnceScheduled ==
    db.scheduledForDeletionAt # 0 =>
        challenge <= db.scheduledForDeletionAt - GracePeriod + ChallengeTtl

\* Every wrong password counts: it leaves the row with one failure more, or with the
\* first one after a lock that has run out.
FailureCounted ==
    [][\A r \in Requests :
          WrongPassword(r) =>
              db'.failed.count = clearExpiredLock(db, now).failed.count + 1]_vars

=============================================================================
