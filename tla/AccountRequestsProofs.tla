------------------------- MODULE AccountRequestsProofs -------------------------
(***************************************************************************)
(* Theorems about AccountRequests: its type invariant, and four invariants  *)
(* of the stored row that hold however many requests overlap.               *)
(***************************************************************************)
EXTENDS AccountRequests, TLAPS

USE NoEmailAssumption, DurationAssumption, NoIdAssumption, TtlAssumption

-----------------------------------------------------------------------------
(* The methods of the aggregate return an aggregate.                        *)

\* A generated token is a token.
LEMMA TokenType ==
    ASSUME NEW id \in Nat, NEW to \in Emails \cup {NoEmail}, NEW t \in Nat
    PROVE  NewToken(id, to, t) \in Token
BY DEF NewToken, Token

\* The row of a deleted account has the type of a row.
LEMMA NoUserType == NoUser \in User
BY DEF NoUser, User, Token, NoToken, FailedLogin, NoFailedLogin, MfaConfiguration,
       NoMfa, Session, NoSession

\* What the create branch stores is a row.
LEMMA CreateBranchType ==
    ASSUME NEW u \in User PROVE CreateBranch(u) \in User
BY DEF CreateBranch, User, Token, NoToken

\* The factories make rows.
LEMMA FactoryType ==
    ASSUME NEW e \in Emails
    PROVE  /\ createForRegistration(e, 1, 0) \in User
           /\ \A p \in Providers : createForOAuthRegistration(e, p) \in User
<1>1. NewToken(1, e, 0) \in Token
    BY TokenType
<1> QED
    BY <1>1, NoUserType DEF createForRegistration, createForOAuthRegistration, User, NoUser

\* Failed logins keep the row a row.
LEMMA FailedLoginType ==
    ASSUME NEW u \in User, NEW t \in Nat
    PROVE  /\ clearExpiredLock(u, t) \in User
           /\ handleFailedLogin(u, t) \in User
           /\ resetFailedLogins(u) \in User
<1>1. NoFailedLogin \in FailedLogin /\ u.failed \in FailedLogin
    BY DEF NoFailedLogin, FailedLogin, User
<1>2. recordFailure(u.failed, t) \in FailedLogin
    BY <1>1 DEF recordFailure, FailedLogin
<1> QED
    BY <1>1, <1>2 DEF clearExpiredLock, handleFailedLogin, resetFailedLogins, User

\* Opening, revoking and rotating sessions keeps the row a row.
LEMMA SessionType ==
    ASSUME NEW u \in User, NEW t \in Nat, NEW sid \in SessionIds, NEW n \in Nat
    PROVE  /\ addSession(u, sid, t) \in User
           /\ rotateToken(u, sid, n) \in User
<1>1. [state |-> "active", expiresAt |-> t + SessionTtl, refreshToken |-> 1,
       under |-> u.pw] \in Session
    BY DEF Session, User
<1>2. u.sessions \in [SessionIds -> Session]
    BY DEF User
<1>3. [u.sessions[sid] EXCEPT !.refreshToken = n] \in Session
    BY <1>2 DEF Session
<1> QED
    BY <1>1, <1>2, <1>3 DEF addSession, rotateToken, User

LEMMA RevokeType ==
    ASSUME NEW u \in User, NEW t \in Nat, NEW S
    PROVE  RevokeIn(u, S, t) \in User
<1>1. u.sessions \in [SessionIds -> Session]
    BY DEF User
<1>2. \A s \in SessionIds : [u.sessions[s] EXCEPT !.state = "revoked"] \in Session
    BY <1>1 DEF Session
<1> QED
    BY <1>1, <1>2 DEF RevokeIn, User

\* So do a new password and a reset token.
LEMMA PasswordType ==
    ASSUME NEW u \in User, NEW t \in Nat, NEW id \in Nat
    PROVE  /\ updatePassword(u) \in User
           /\ changePassword(u) \in User
           /\ setResetToken(u, id, t) \in User
<1> DEFINE n == u.pw + 1
<1>1. NoToken \in Token /\ NewToken(id, u.email, t) \in Token
    BY TokenType DEF NoToken, Token, User
<1>2. n \in Nat
    BY DEF User
<1> HIDE DEF n
<1>3. [u EXCEPT !.hasPassword = TRUE, !.pw = n] \in User
    BY <1>2 DEF User
<1>4. [u EXCEPT !.hasPassword = TRUE, !.pw = n, !.reset = NoToken] \in User
    BY <1>1, <1>2 DEF User
<1>5. [u EXCEPT !.hasPassword = TRUE, !.pw = u.pw] \in User
    BY DEF User
<1>6. setResetToken(u, id, t) \in User
    BY <1>1 DEF setResetToken, User
<1> QED
    BY <1>3, <1>4, <1>5, <1>6 DEF n, updatePassword, changePassword

\* So do verification and changes of the address.
LEMMA EmailType ==
    ASSUME NEW u \in User, NEW t \in Nat, NEW id \in Nat
    PROVE  /\ verifyEmail(u) \in User
           /\ refreshVerificationToken(u, id, t) \in User
           /\ confirmEmailChange(u) \in User
<1>1. NoToken \in Token /\ NewToken(id, u.email, t) \in Token
    BY TokenType DEF NoToken, Token, User
<1> QED
    BY <1>1 DEF verifyEmail, refreshVerificationToken, confirmEmailChange, User

LEMMA EmailChangeType ==
    ASSUME NEW u \in User, NEW t \in Nat, NEW id \in Nat, NEW e \in Emails
    PROVE  requestEmailChange(u, e, id, t) \in User
BY TokenType DEF requestEmailChange, User

\* So do scheduling and cancelling a deletion.
LEMMA DeletionType ==
    ASSUME NEW u \in User, NEW t \in Nat
    PROVE  scheduleDeletion(u, t) \in User /\ cancelDeletion(u) \in User
BY DEF scheduleDeletion, cancelDeletion, User

\* So does MFA.
LEMMA MfaType ==
    ASSUME NEW u \in User, NEW n \in Nat, NEW c
    PROVE  /\ initiateMfaSetup(u, n) \in User
           /\ enableMfa(u) \in User
           /\ disableMfa(u) \in User
           /\ consumeMfaBackupCode(u, c) \in User
<1>1. u.mfa \in MfaConfiguration /\ NoMfa \in MfaConfiguration
    BY DEF User, NoMfa, MfaConfiguration
<1>2. /\ [u.mfa EXCEPT !.pendingSecret = n] \in MfaConfiguration
      /\ [u.mfa EXCEPT !.backupCodes = @ \ {c}] \in MfaConfiguration
      /\ [isEnabled |-> TRUE, secret |-> u.mfa.pendingSecret, pendingSecret |-> 0,
          backupCodes |-> BackupCodes] \in MfaConfiguration
    BY <1>1 DEF MfaConfiguration
<1> QED
    BY <1>1, <1>2 DEF initiateMfaSetup, enableMfa, disableMfa, consumeMfaBackupCode, User

\* So do OAuth accounts.
LEMMA OAuthType ==
    ASSUME NEW u \in User, NEW p \in Providers
    PROVE  linkOAuthAccount(u, p) \in User /\ unlinkOAuthProvider(u, p) \in User
BY DEF linkOAuthAccount, unlinkOAuthProvider, User

-----------------------------------------------------------------------------
(* The parts the actions are built from keep every variable in its type.    *)

\* A request that loads a row takes up its slot.
LEMMA BeginType ==
    ASSUME TypeOK, NEW r \in Requests, NEW op, NEW u \in User,
           NEW sid \in SessionIds \cup {NoId}, NEW n \in Nat, Begin(r, op, u, sid, n)
    PROVE  TypeOK'
<1>1. [op |-> op, user |-> u, sid |-> sid, arg |-> n] \in Request
    BY DEF Begin, Request
<1> QED
    BY <1>1 DEF Begin, TypeOK

\* What a SELECT that came late leaves of the copy u: its User columns; its Account
\* columns, its sessions and its providers are those of u or of the row.
SameAccount(v, u) ==
    /\ v.hasPassword = u.hasPassword /\ v.pw = u.pw /\ v.verification = u.verification
    /\ v.reset = u.reset /\ v.scheduledForDeletionAt = u.scheduledForDeletionAt
    /\ v.failed = u.failed /\ v.mfa = u.mfa

Mixed(v, u) ==
    /\ v.present = u.present /\ v.email = u.email /\ v.pendingEmail = u.pendingEmail
    /\ v.isVerified = u.isVerified
    /\ SameAccount(v, u) \/ (db.present /\ SameAccount(v, db))
    /\ v.sessions \in {u.sessions, db.sessions}
    /\ v.oauth \in {u.oauth, db.oauth}

LEMMA ReadAgainMixes ==
    ASSUME TypeOK, NEW u \in User, NEW v \in ReadAgain(u)
    PROVE  /\ Assembled(v) \in User /\ Mixed(Assembled(v), u)
           /\ Assembled(v) = db \/ Assembled(v).torn
<1>1. db \in User
    BY DEF TypeOK
<1>2. v \in User
  <2>1. WithAccount(u) \in User
      BY <1>1 DEF WithAccount, User
  <2>2. [u EXCEPT !.sessions = db.sessions] \in User
      BY <1>1 DEF User
  <2>3. [u EXCEPT !.oauth = db.oauth] \in User
      BY <1>1 DEF User
  <2> QED
      BY <2>1, <2>2, <2>3 DEF ReadAgain
<1> DEFINE w == [v EXCEPT !.torn = TRUE]
<1>3. w \in User /\ w.torn
    BY <1>2 DEF User
<1>4. Mixed(v, u)
    BY <1>1 DEF ReadAgain, WithAccount, Mixed, SameAccount, User
<1>5. Assembled(v) = w \/ (Assembled(v) = db /\ [v EXCEPT !.torn = db.torn] = db)
    BY DEF Assembled
<1>6. \A b : Mixed([v EXCEPT !.torn = b], u)
    BY <1>2, <1>4 DEF Mixed, SameAccount, User
<1> HIDE DEF w
<1>7. Mixed(Assembled(v), u)
    BY <1>5, <1>6 DEF w
<1> QED
    BY <1>1, <1>3, <1>5, <1>7

\* A late SELECT changes the copy of one slot.
LEMMA ReadLaterStep ==
    ASSUME TypeOK, NEW r \in Requests, ReadLater(r)
    PROVE  /\ UNCHANGED <<db, now, draws, handed, access, challenge, accepted>>
           /\ req[r].op \in Savers
           /\ \E q \in Request :
                 /\ req' = [req EXCEPT ![r] = q]
                 /\ q.op = req[r].op /\ q.sid = req[r].sid /\ q.arg = req[r].arg
                 /\ Mixed(q.user, req[r].user)
                 /\ q.user = db \/ q.user.torn
<1>1. req[r] \in Request /\ req[r].user \in User
    BY DEF TypeOK, Request
<1>2. PICK v \in ReadAgain(req[r].user) : req' = [req EXCEPT ![r].user = Assembled(v)]
    BY DEF ReadLater
<1>3. PICK w \in User : /\ req' = [req EXCEPT ![r].user = w]
                        /\ Mixed(w, req[r].user) /\ (w = db \/ w.torn)
    BY <1>1, <1>2, ReadAgainMixes
<1> DEFINE q == [req[r] EXCEPT !.user = w]
<1>4. /\ q \in Request /\ q.op = req[r].op /\ q.sid = req[r].sid /\ q.arg = req[r].arg
      /\ q.user = w
    BY <1>1 DEF Request
<1>5. req' = [req EXCEPT ![r] = q]
    BY <1>3
<1> HIDE DEF q
<1> QED
    BY <1>3, <1>4, <1>5 DEF ReadLater

\* A slot that is given up is idle.
LEMMA IdleType == Idle \in Request
BY NoUserType DEF Idle, Request

\* What save leaves behind.
LEMMA SaveType ==
    ASSUME TypeOK, NEW r \in Requests, NEW u \in User, Save(r, u)
    PROVE  db' \in User /\ req' \in [Requests -> Request] /\ now' \in Nat
BY CreateBranchType, IdleType DEF Save, TypeOK

LEMMA SaveOnlyType ==
    ASSUME TypeOK, NEW r \in Requests, NEW u \in User, SaveOnly(r, u)
    PROVE  TypeOK'
BY SaveType DEF SaveOnly, TypeOK

LEMMA SaveWithDrawType ==
    ASSUME TypeOK, NEW r \in Requests, NEW u \in User, SaveWithDraw(r, u)
    PROVE  TypeOK'
BY SaveType DEF SaveWithDraw, TypeOK

\* Tokens for a session are counted, and the access token has an expiry.
LEMMA HandOutType ==
    ASSUME TypeOK, NEW sid \in SessionIds, NEW n \in Nat, HandOut(sid, n)
    PROVE  handed' \in [SessionIds -> Nat] /\ access' \in [SessionIds -> Nat]
<1>1. now + AccessTtl \in Nat
    BY DEF TypeOK
<1> QED
    BY <1>1 DEF HandOut, TypeOK

LEMMA OpenSessionType ==
    ASSUME TypeOK, NEW r \in Requests, NEW u \in User, OpenSession(r, u),
           accepted' \subseteq Nat \X Nat \X {1, 2}
    PROVE  TypeOK'
<1>1. PICK sid \in SessionIds : Save(r, addSession(u, sid, now)) /\ HandOut(sid, 1)
    BY DEF OpenSession
<1>2. addSession(u, sid, now) \in User
    BY SessionType DEF TypeOK
<1>3. db' \in User /\ req' \in [Requests -> Request] /\ now' \in Nat
    BY <1>1, <1>2, SaveType
<1>4. handed' \in [SessionIds -> Nat] /\ access' \in [SessionIds -> Nat]
    BY <1>1, HandOutType
<1> QED
    BY <1>3, <1>4 DEF OpenSession, TypeOK

LEMMA AcceptType ==
    ASSUME TypeOK, NEW n \in Nat, NEW c \in Nat, Accept(n, c)
    PROVE  accepted' \subseteq Nat \X Nat \X {1, 2}
<1>1. <<n, c, IF <<n, c, 1>> \in accepted THEN 2 ELSE 1>> \in Nat \X Nat \X {1, 2}
    OBVIOUS
<1> QED
    BY <1>1 DEF Accept, TypeOK

\* The copy a request works on is a row.
LEMMA CopyType ==
    ASSUME TypeOK, NEW r \in Requests
    PROVE  /\ req[r].user \in User
           /\ req[r].sid \in SessionIds \cup {NoId}
           /\ req[r].arg \in Nat
           /\ req[r].user.mfa \in MfaConfiguration
           /\ req[r].user.email \in Emails \cup {NoEmail}
BY DEF TypeOK, Request, User

-----------------------------------------------------------------------------
(* One step of each kind of request.                                        *)

LEMMA SignInType ==
    ASSUME TypeOK, NEW r \in Requests, SignIn(r) PROVE TypeOK'
<1> DEFINE u == req[r].user
<1>u. u \in User /\ db \in User /\ now \in Nat
    BY CopyType DEF TypeOK
<1>n. NoId \in SessionIds \cup {NoId} /\ 0 \in Nat
    OBVIOUS
<1>1. CASE LoginLoad(r)
    BY <1>1, <1>u, <1>n, BeginType DEF LoginLoad
<1>2. CASE WrongPassword(r)
    BY <1>2, <1>u, FailedLoginType, SaveOnlyType DEF WrongPassword
<1>9. CASE RightPassword(r)
  <2> DEFINE v == resetFailedLogins(u)
  <2>1. v \in User
      BY <1>u, FailedLoginType
  <2>2. CASE SaveOnly(r, v)
      BY <2>1, <2>2, SaveOnlyType
  <2>3. CASE Save(r, v) /\ challenge' = now + ChallengeTtl
                        /\ UNCHANGED <<draws, handed, access, accepted>>
    <3>1. challenge' \in Nat
        BY <1>u, <2>3
    <3> QED
        BY <2>1, <2>3, <3>1, SaveType DEF TypeOK
  <2>4. CASE OpenSession(r, v) /\ UNCHANGED accepted
      BY <2>1, <2>4, OpenSessionType DEF TypeOK
  <2> QED
      BY <1>9, <2>2, <2>3, <2>4 DEF RightPassword
<1>3. CASE MfaLoginLoad(r)
    BY <1>3, <1>u, <1>n, BeginType DEF MfaLoginLoad
<1>4. CASE MfaLoginSave(r)
  <2>1. CASE OpenSession(r, u) /\ UNCHANGED accepted
      BY <1>u, <2>1, OpenSessionType DEF TypeOK
  <2>2. CASE \E c \in u.mfa.backupCodes :
                 OpenSession(r, consumeMfaBackupCode(u, c)) /\ Accept(u.mfa.secret, c)
    <3>1. PICK c \in u.mfa.backupCodes :
                   OpenSession(r, consumeMfaBackupCode(u, c)) /\ Accept(u.mfa.secret, c)
        BY <2>2
    <3>2. c \in Nat /\ u.mfa.secret \in Nat
        BY CopyType DEF MfaConfiguration
    <3>3. consumeMfaBackupCode(u, c) \in User
        BY <1>u, <3>2, MfaType
    <3> QED
        BY <3>1, <3>2, <3>3, AcceptType, OpenSessionType
  <2> QED
      BY <1>4, <2>1, <2>2 DEF MfaLoginSave
<1>5. CASE OAuthLoginLoad(r)
    BY <1>5, <1>u, <1>n, BeginType DEF OAuthLoginLoad
<1>6. CASE OAuthLoginSave(r)
    BY <1>6, <1>u, OpenSessionType DEF OAuthLoginSave, TypeOK
<1>10. CASE OAuthLoginChallenge(r)
  <2>1. now + ChallengeTtl \in Nat
      BY <1>u
  <2> QED
      BY <1>10, <2>1, IdleType DEF OAuthLoginChallenge, TypeOK
<1>11. CASE OAuthLinkedSave(r)
    BY <1>11, <1>u, OpenSessionType DEF OAuthLinkedSave, TypeOK
<1>7. CASE OAuthAutoLinkLoad(r)
    BY <1>7, <1>u, <1>n, BeginType DEF OAuthAutoLinkLoad
<1>8. CASE OAuthAutoLinkSave(r)
  <2> DEFINE goesOn(v) == [op |-> "oauthLinked", user |-> v, sid |-> NoId, arg |-> 0]
             stops(v) == v.scheduledForDeletionAt # 0 \/ v.mfa.isEnabled
             asks(v) == v.scheduledForDeletionAt = 0 /\ v.mfa.isEnabled
  <2>1. PICK p \in Providers :
            LET v == linkOAuthAccount(u, p)
            IN  /\ db' = IF db.present THEN v ELSE CreateBranch(v)
                /\ req' = [req EXCEPT ![r] = IF stops(v) THEN Idle ELSE goesOn(v)]
                /\ challenge' = IF asks(v) THEN now + ChallengeTtl ELSE challenge
      BY <1>8 DEF OAuthAutoLinkSave
  <2> DEFINE v == linkOAuthAccount(u, p)
  <2>2. v \in User
      BY <1>u, OAuthType
  <2>3. goesOn(v) \in Request /\ Idle \in Request
      BY <2>2, IdleType DEF Request
  <2>4. db' \in User
      BY <2>1, <2>2, CreateBranchType
  <2>5. req' \in [Requests -> Request]
      BY <2>1, <2>3 DEF TypeOK
  <2>6. challenge' \in Nat
      BY <1>u, <2>1 DEF TypeOK
  <2> QED
      BY <1>8, <2>4, <2>5, <2>6 DEF OAuthAutoLinkSave, TypeOK
<1> QED
    BY <1>1, <1>2, <1>3, <1>4, <1>5, <1>6, <1>7, <1>8, <1>9, <1>10, <1>11 DEF SignIn

LEMMA ManageSessionsType ==
    ASSUME TypeOK, NEW r \in Requests, ManageSessions(r) PROVE TypeOK'
<1> DEFINE u == req[r].user
           sid == req[r].sid
<1>u. u \in User /\ db \in User /\ now \in Nat /\ handed \in [SessionIds -> Nat]
    BY CopyType DEF TypeOK
<1>1. CASE RefreshLoad(r)
  <2>1. PICK s \in SessionIds : \E n \in 1 .. handed[s] : Begin(r, "refresh", db, s, n)
      BY <1>1 DEF RefreshLoad
  <2> QED
      BY <1>u, <2>1, BeginType
<1>2. CASE RefreshSave(r)
  <2>1. CASE SaveOnly(r, revokeAllSessions(u, now))
      BY <1>u, <2>1, RevokeType, SaveOnlyType DEF revokeAllSessions
  <2>2. CASE /\ Save(r, rotateToken(u, sid, handed[sid] + 1))
             /\ HandOut(sid, handed[sid] + 1)
             /\ UNCHANGED <<draws, challenge, accepted>>
    <3>1. CASE sid \in SessionIds
      <4>1. handed[sid] + 1 \in Nat
          BY <1>u, <3>1
      <4>2. rotateToken(u, sid, handed[sid] + 1) \in User
          BY <1>u, <3>1, <4>1, SessionType
      <4> QED
          BY <2>2, <3>1, <4>1, <4>2, SaveType, HandOutType DEF TypeOK
    <3>2. CASE sid \notin SessionIds
      <4>1. handed' = handed /\ access' = access
          BY <2>2, <3>2 DEF HandOut, TypeOK
      <4>2. rotateToken(u, sid, handed[sid] + 1) = u
          BY <1>u, <3>2 DEF rotateToken, User
      <4> QED
          BY <1>u, <2>2, <4>1, <4>2, SaveType DEF TypeOK
    <3> QED
        BY <3>1, <3>2
  <2> QED
      BY <1>2, <2>1, <2>2 DEF RefreshSave
<1>3. CASE LogoutLoad(r) \/ RevokeSessionLoad(r) \/ RevokeOthersLoad(r)
    BY <1>3, <1>u, BeginType DEF LogoutLoad, RevokeSessionLoad, RevokeOthersLoad
<1>4. CASE LogoutSave(r) \/ RevokeSessionSave(r) \/ RevokeOthersSave(r)
    BY <1>4, <1>u, RevokeType, SaveOnlyType
       DEF LogoutSave, RevokeSessionSave, RevokeOthersSave, revokeSession,
           revokeAllOtherSessions
<1> QED
    BY <1>1, <1>2, <1>3, <1>4 DEF ManageSessions

LEMMA ManageCredentialsType ==
    ASSUME TypeOK, NEW r \in Requests, ManageCredentials(r) PROVE TypeOK'
<1> DEFINE u == req[r].user
<1>u. /\ u \in User /\ db \in User /\ now \in Nat
      /\ draws + 1 \in Nat /\ db.reset.id \in Nat /\ req[r].arg \in Nat
      /\ 0 \in Nat /\ NoId \in SessionIds \cup {NoId}
    BY CopyType DEF TypeOK, User, Token
<1>1. CASE ChangePasswordLoad(r) \/ SetInitialPasswordLoad(r) \/ ForgotPasswordLoad(r)
           \/ ResetPasswordLoad(r)
    BY <1>1, <1>u, BeginType
       DEF ChangePasswordLoad, SetInitialPasswordLoad, ForgotPasswordLoad, ResetPasswordLoad
<1>2. CASE InitiateMfaLoad(r) \/ EnableMfaLoad(r) \/ DisableMfaLoad(r)
           \/ LinkOAuthLoad(r) \/ UnlinkOAuthLoad(r)
    BY <1>2, <1>u, BeginType
       DEF InitiateMfaLoad, EnableMfaLoad, DisableMfaLoad, LinkOAuthLoad, UnlinkOAuthLoad
<1>4. CASE ChangePasswordSave(r)
  <2>1. updatePassword(u) \in User
      BY <1>u, PasswordType
  <2> QED
      BY <1>4, <1>u, <2>1, RevokeType, SaveOnlyType
         DEF ChangePasswordSave, revokeAllOtherSessions
<1>5. CASE SetInitialPasswordSave(r)
    BY <1>5, <1>u, PasswordType, SaveOnlyType DEF SetInitialPasswordSave
<1>6. CASE ForgotPasswordSave(r)
    BY <1>6, <1>u, PasswordType, SaveWithDrawType DEF ForgotPasswordSave
<1>7. CASE ResetPasswordSave(r)
  <2>1. revokeAllSessions(changePassword(u), now) \in User
      BY <1>u, PasswordType, RevokeType DEF revokeAllSessions
  <2>2. db' \in User /\ req' \in [Requests -> Request] /\ now' \in Nat
      BY <1>7, <2>1, SaveType DEF ResetPasswordSave
  <2>3. accepted' \subseteq Nat \X Nat \X {1, 2}
      BY <1>7, <1>u, AcceptType DEF ResetPasswordSave
  <2> QED
      BY <1>7, <2>2, <2>3 DEF ResetPasswordSave, TypeOK
<1>8. CASE InitiateMfaSave(r)
    BY <1>8, <1>u, MfaType, SaveWithDrawType DEF InitiateMfaSave
<1>9. CASE EnableMfaSave(r) \/ DisableMfaSave(r)
    BY <1>9, <1>u, MfaType, SaveOnlyType DEF EnableMfaSave, DisableMfaSave
<1>10. CASE LinkOAuthSave(r) \/ UnlinkOAuthSave(r)
    BY <1>10, <1>u, OAuthType, SaveOnlyType DEF LinkOAuthSave, UnlinkOAuthSave
<1> QED
    BY <1>1, <1>2, <1>4, <1>5, <1>6, <1>7, <1>8, <1>9, <1>10 DEF ManageCredentials

LEMMA ManageAccountType ==
    ASSUME TypeOK, NEW r \in Requests, ManageAccount(r) PROVE TypeOK'
<1> DEFINE u == req[r].user
<1>u. /\ u \in User /\ db \in User /\ now \in Nat
      /\ draws + 1 \in Nat /\ db.verification.id \in Nat /\ req[r].arg \in Nat
      /\ 0 \in Nat /\ NoId \in SessionIds \cup {NoId}
    BY CopyType DEF TypeOK, User, Token
<1>1. CASE VerifyEmailLoad(r) \/ ResendVerificationLoad(r) \/ RequestEmailChangeLoad(r)
           \/ ConfirmEmailChangeLoad(r) \/ UpdateAccountLoad(r)
           \/ UploadAvatarLoad(r) \/ RemoveAvatarLoad(r)
    BY <1>1, <1>u, BeginType
       DEF VerifyEmailLoad, ResendVerificationLoad, RequestEmailChangeLoad,
           ConfirmEmailChangeLoad, UpdateAccountLoad,
           UploadAvatarLoad, RemoveAvatarLoad
<1>2. CASE ScheduleDeletionLoad(r) \/ RestoreLoad(r) \/ DeleteAccountLoad(r)
           \/ HardDeletionLoad(r)
    BY <1>2, <1>u, BeginType, NoUserType
       DEF ScheduleDeletionLoad, RestoreLoad, DeleteAccountLoad, HardDeletionLoad
<1>3. CASE VerifyEmailSave(r)
    BY <1>3, <1>u, EmailType, AcceptType, OpenSessionType DEF VerifyEmailSave
<1>4. CASE ResendVerificationSave(r)
    BY <1>4, <1>u, EmailType, SaveWithDrawType DEF ResendVerificationSave
<1>5. CASE RequestEmailChangeSave(r)
    BY <1>5, <1>u, EmailChangeType, SaveWithDrawType DEF RequestEmailChangeSave
<1>6. CASE ConfirmEmailChangeSave(r)
  <2>1. confirmEmailChange(u) \in User
      BY <1>u, EmailType
  <2>2. db' \in User /\ req' \in [Requests -> Request] /\ now' \in Nat
      BY <1>6, <2>1, SaveType DEF ConfirmEmailChangeSave
  <2>3. accepted' \subseteq Nat \X Nat \X {1, 2}
      BY <1>6, <1>u, AcceptType DEF ConfirmEmailChangeSave
  <2> QED
      BY <1>6, <2>2, <2>3 DEF ConfirmEmailChangeSave, TypeOK
<1>7. CASE UpdateAccountSave(r) \/ UploadAvatarSave(r) \/ RemoveAvatarSave(r)
    BY <1>7, <1>u, SaveOnlyType DEF UpdateAccountSave, UploadAvatarSave, RemoveAvatarSave
<1>8. CASE ScheduleDeletionSave(r)
    BY <1>8, <1>u, DeletionType, SaveOnlyType DEF ScheduleDeletionSave
<1>9. CASE RestoreSave(r)
    BY <1>9, <1>u, DeletionType, OpenSessionType DEF RestoreSave, TypeOK
<1>10. CASE DeleteAccountDelete(r) \/ HardDeletionDelete(r)
    BY <1>10, NoUserType, IdleType DEF DeleteAccountDelete, HardDeletionDelete, DeleteRow, TypeOK
<1> QED
    BY <1>1, <1>2, <1>3, <1>4, <1>5, <1>6, <1>7, <1>8, <1>9, <1>10 DEF ManageAccount

-----------------------------------------------------------------------------
\* Every variable keeps its type, and so does every copy a request works on,
\* whatever the number of requests, sessions, addresses and providers.
THEOREM TypeInvariant == Spec => []TypeOK
<1>1. Init => TypeOK
  <2> SUFFICES ASSUME Init PROVE TypeOK
      OBVIOUS
  <2>1. db \in User
      BY FactoryType DEF Init
  <2>2. req \in [Requests -> Request]
      BY IdleType DEF Init
  <2> QED
      BY <2>1, <2>2 DEF Init, TypeOK
<1>2. TypeOK /\ [Next]_vars => TypeOK'
  <2> SUFFICES ASSUME TypeOK, [Next]_vars PROVE TypeOK'
      OBVIOUS
  <2>1. ASSUME NEW r \in Requests, SignIn(r) \/ ManageSessions(r) PROVE TypeOK'
      BY <2>1, SignInType, ManageSessionsType
  <2>2. ASSUME NEW r \in Requests, ManageCredentials(r) \/ ManageAccount(r) PROVE TypeOK'
      BY <2>2, ManageCredentialsType, ManageAccountType
  <2>3. ASSUME NEW r \in Requests, Fail(r) PROVE TypeOK'
      BY <2>3, IdleType DEF Fail, TypeOK
  <2>4. ASSUME NEW r \in Requests, ReadLater(r) PROVE TypeOK'
      BY <2>4, ReadLaterStep DEF TypeOK
  <2>5. CASE CleanExpiredSessions
    <3> DEFINE kept(S) == [s \in SessionIds |-> IF s \in S THEN NoSession ELSE db.sessions[s]]
    <3>1. PICK S : db' = [db EXCEPT !.sessions = kept(S)]
        BY <2>5 DEF CleanExpiredSessions
    <3>2. db.sessions \in [SessionIds -> Session] /\ NoSession \in Session
        BY DEF TypeOK, User, NoSession, Session
    <3>3. kept(S) \in [SessionIds -> Session]
        BY <3>2
    <3> HIDE DEF kept
    <3>4. db' \in User
        BY <3>1, <3>3 DEF TypeOK, User
    <3> QED
        BY <2>5, <3>4 DEF CleanExpiredSessions, TypeOK
  <2>6. CASE Tick
      BY <2>6 DEF Tick, TypeOK
  <2>7. CASE UNCHANGED vars
      BY <2>7 DEF vars, TypeOK
  <2> QED
      BY <2>1, <2>2, <2>3, <2>4, <2>5, <2>6, <2>7 DEF Next
<1> QED
    BY <1>1, <1>2, PTL DEF Spec

-----------------------------------------------------------------------------
(* The row invariants.  A save stores a copy that may be older than what it *)
(* overwrites, so they can be kept only if every copy in flight satisfies   *)
(* them too: that is the strengthening.  The lock and the MFA configuration *)
(* are columns of the Account row, which is read whole; the other two       *)
(* relate rows that are read one after the other, and a copy that was put   *)
(* together on both sides of a save may break them.                         *)

RowOK(u, t) == /\ LockAt(u)
               /\ MfaAt(u)
               /\ u.torn \/ SignInAt(u)
               /\ u.torn \/ AtMostOne(OldSessions(u, t))

Rows == RowOK(db, now) /\ \A r \in Requests : RowOK(req[r].user, now)

\* A row that differs elsewhere only is as good.
LEMMA RowFrame ==
    ASSUME NEW u \in User, NEW v \in User, NEW t \in Nat, RowOK(u, t),
           v.failed = u.failed, v.mfa = u.mfa, v.sessions = u.sessions, v.pw = u.pw,
           u.hasPassword => v.hasPassword, u.oauth \subseteq v.oauth,
           v.present = u.present, v.torn = u.torn
    PROVE  RowOK(v, t)
BY DEF RowOK, LockAt, SignInAt, MfaAt, AtMostOne, OldSessions

\* Time closes sessions and opens none.
LEMMA RowTime ==
    ASSUME NEW u \in User, NEW t \in Nat, RowOK(u, t)
    PROVE  RowOK(u, t + 1)
<1>1. \A s \in SessionIds : IsValid(u.sessions[s], t + 1) => IsValid(u.sessions[s], t)
    BY DEF User, Session, IsValid, IsExpired
<1> QED
    BY <1>1 DEF RowOK, AtMostOne, OldSessions

LEMMA NoUserRow ==
    ASSUME NEW t \in Nat PROVE RowOK(NoUser, t) /\ RowOK(Idle.user, t)
BY DEF RowOK, Idle, NoUser, NoFailedLogin, NoMfa, NoSession, LockAt, SignInAt,
       MfaAt, AtMostOne, OldSessions, IsValid

LEMMA FactoryRow ==
    ASSUME NEW e \in Emails
    PROVE  /\ RowOK(createForRegistration(e, 1, 0), 0)
           /\ \A p \in Providers : RowOK(createForOAuthRegistration(e, p), 0)
BY DEF createForRegistration, createForOAuthRegistration, RowOK, NoUser, NoFailedLogin,
       NoMfa, NoSession, LockAt, SignInAt, MfaAt, AtMostOne, OldSessions, IsValid

LEMMA CreateBranchRow ==
    ASSUME NEW u \in User, NEW t \in Nat, RowOK(u, t)
    PROVE  RowOK(CreateBranch(u), t)
<1> DEFINE v == CreateBranch(u)
<1>1. /\ v \in User
      /\ v.failed = u.failed /\ v.mfa = u.mfa /\ v.sessions = u.sessions /\ v.pw = u.pw
      /\ v.hasPassword = u.hasPassword /\ v.oauth = u.oauth /\ v.present = u.present
      /\ v.torn = u.torn
    BY CreateBranchType DEF CreateBranch, User
<1> QED
    BY <1>1, RowFrame

\* A copy loaded when no lock holds carries none, and a failure recorded on such
\* a copy locks it exactly at the limit.
LEMMA FailedLoginRow ==
    ASSUME NEW u \in User, NEW t \in Nat, RowOK(u, t)
    PROVE  /\ RowOK(clearExpiredLock(u, t), t)
           /\ ~IsLocked(u.failed, t) => clearExpiredLock(u, t).failed.lockedUntil = 0
           /\ u.failed.lockedUntil = 0 => RowOK(handleFailedLogin(u, t), t)
           /\ RowOK(resetFailedLogins(u), t)
<1>1. u.failed \in FailedLogin
    BY DEF User
<1>2. RowOK(resetFailedLogins(u), t)
    BY DEF resetFailedLogins, NoFailedLogin, User, RowOK, LockAt, SignInAt, MfaAt,
           AtMostOne, OldSessions
<1>3. /\ RowOK(clearExpiredLock(u, t), t)
      /\ ~IsLocked(u.failed, t) => clearExpiredLock(u, t).failed.lockedUntil = 0
    BY <1>1, <1>2 DEF clearExpiredLock, resetFailedLogins, NoFailedLogin, User
<1>4. ASSUME u.failed.lockedUntil = 0 PROVE RowOK(handleFailedLogin(u, t), t)
  <2> DEFINE f == recordFailure(u.failed, t)
             v == handleFailedLogin(u, t)
  <2>1. /\ f.count <= MaxLoginAttempts
        /\ f.lockedUntil # 0 <=> f.count = MaxLoginAttempts
      BY <1>1, <1>4 DEF recordFailure, FailedLogin, RowOK, LockAt
  <2>2. /\ v.failed = f /\ v.mfa = u.mfa /\ v.sessions = u.sessions /\ v.pw = u.pw
        /\ v.hasPassword = u.hasPassword /\ v.oauth = u.oauth /\ v.present = u.present
        /\ v.torn = u.torn
      BY DEF handleFailedLogin, User
  <2> HIDE DEF f, v
  <2> QED
      BY <2>1, <2>2 DEF RowOK, LockAt, SignInAt, MfaAt, AtMostOne, OldSessions, v
<1> QED
    BY <1>2, <1>3, <1>4

\* A session opened now is not older than the password, and a rotated token
\* changes nothing that matters.
LEMMA SessionRow ==
    ASSUME NEW u \in User, NEW t \in Nat, NEW sid \in SessionIds, RowOK(u, t)
    PROVE  /\ RowOK(addSession(u, sid, t), t)
           /\ \A n \in Nat : RowOK(rotateToken(u, sid, n), t)
<1>1. RowOK(addSession(u, sid, t), t)
  <2> DEFINE v == addSession(u, sid, t)
  <2>1. OldSessions(v, t) \subseteq OldSessions(u, t)
      BY DEF OldSessions, addSession, User, Session
  <2>2. /\ v.failed = u.failed /\ v.mfa = u.mfa /\ v.hasPassword = u.hasPassword
        /\ v.oauth = u.oauth /\ v.present = u.present /\ v.torn = u.torn
      BY DEF addSession, User
  <2> HIDE DEF v
  <2> QED
      BY <2>1, <2>2 DEF v, RowOK, LockAt, SignInAt, MfaAt, AtMostOne
<1>2. ASSUME NEW n \in Nat PROVE RowOK(rotateToken(u, sid, n), t)
  <2> DEFINE v == rotateToken(u, sid, n)
  <2>1. OldSessions(v, t) \subseteq OldSessions(u, t)
      BY DEF OldSessions, rotateToken, IsValid, IsExpired, User, Session
  <2>2. /\ v.failed = u.failed /\ v.mfa = u.mfa /\ v.hasPassword = u.hasPassword
        /\ v.oauth = u.oauth /\ v.present = u.present /\ v.torn = u.torn
      BY DEF rotateToken, User
  <2> HIDE DEF v
  <2> QED
      BY <2>1, <2>2 DEF v, RowOK, LockAt, SignInAt, MfaAt, AtMostOne
<1> QED
    BY <1>1, <1>2

\* Revoking leaves no valid session in the set, and adds none outside it.
LEMMA RevokeValid ==
    ASSUME NEW u \in User, NEW t \in Nat, NEW S, NEW s \in SessionIds,
           IsValid(RevokeIn(u, S, t).sessions[s], t)
    PROVE  /\ s \notin S
           /\ RevokeIn(u, S, t).sessions[s] = u.sessions[s]
BY DEF RevokeIn, IsValid, User, Session

LEMMA RevokeFrame ==
    ASSUME NEW u \in User, NEW t \in Nat, NEW S
    PROVE  LET v == RevokeIn(u, S, t)
           IN  /\ v.failed = u.failed /\ v.mfa = u.mfa /\ v.hasPassword = u.hasPassword
               /\ v.oauth = u.oauth /\ v.present = u.present /\ v.pw = u.pw
               /\ v.torn = u.torn
BY DEF RevokeIn, User

LEMMA RevokeRow ==
    ASSUME NEW u \in User, NEW t \in Nat, NEW S, RowOK(u, t)
    PROVE  RowOK(RevokeIn(u, S, t), t)
<1> DEFINE v == RevokeIn(u, S, t)
<1>1. OldSessions(v, t) \subseteq OldSessions(u, t)
    BY RevokeValid, RevokeFrame DEF OldSessions
<1> HIDE DEF v
<1> QED
    BY <1>1, RevokeFrame DEF v, RowOK, LockAt, SignInAt, MfaAt, AtMostOne

\* Whatever the copy's sessions were, a row whose sessions were all revoked but
\* one has at most that one that is older than its password.
LEMMA RevokeOthersRow ==
    ASSUME NEW u \in User, NEW t \in Nat, NEW sid, LockAt(u), MfaAt(u),
           u.torn \/ SignInAt(u)
    PROVE  /\ RowOK(revokeAllOtherSessions(u, sid, t), t)
           /\ RowOK(revokeAllSessions(u, t), t)
<1>1. ASSUME NEW S, \A x, y \in SessionIds \ S : x = y PROVE RowOK(RevokeIn(u, S, t), t)
  <2> DEFINE v == RevokeIn(u, S, t)
  <2>1. OldSessions(v, t) \subseteq SessionIds \ S
      BY RevokeValid DEF OldSessions
  <2> HIDE DEF v
  <2> QED
      BY <1>1, <2>1, RevokeFrame DEF v, RowOK, LockAt, SignInAt, MfaAt, AtMostOne
<1> QED
    BY <1>1 DEF revokeAllOtherSessions, revokeAllSessions

\* A new password, with the revocations that come with it.
LEMMA PasswordRow ==
    ASSUME NEW u \in User, NEW t \in Nat, NEW sid, RowOK(u, t)
    PROVE  /\ RowOK(revokeAllOtherSessions(updatePassword(u), sid, t), t)
           /\ RowOK(revokeAllSessions(changePassword(u), t), t)
           /\ ~u.hasPassword => RowOK(updatePassword(u), t)
<1>1. \A v \in {updatePassword(u), changePassword(u)} :
         /\ v.failed = u.failed /\ v.mfa = u.mfa /\ v.sessions = u.sessions
         /\ v.oauth = u.oauth /\ v.present = u.present /\ v.hasPassword /\ v.torn = u.torn
    BY DEF updatePassword, changePassword, User
<1>2. \A v \in {updatePassword(u), changePassword(u)} : LockAt(v) /\ SignInAt(v) /\ MfaAt(v)
    BY <1>1 DEF RowOK, LockAt, SignInAt, MfaAt
<1>3. updatePassword(u) \in User /\ changePassword(u) \in User
    BY PasswordType
<1>4. ASSUME ~u.hasPassword PROVE RowOK(updatePassword(u), t)
  <2>1. updatePassword(u).pw = u.pw
      BY <1>4 DEF updatePassword, User
  <2> QED
      BY <1>1, <1>3, <1>4, <2>1, RowFrame
<1> QED
    BY <1>2, <1>3, <1>4, RevokeOthersRow

\* Tokens, the address and the deletion date play no part.
LEMMA TokenRow ==
    ASSUME NEW u \in User, NEW t \in Nat, NEW id \in Nat, RowOK(u, t)
    PROVE  /\ RowOK(setResetToken(u, id, t), t)
           /\ RowOK(verifyEmail(u), t)
           /\ RowOK(refreshVerificationToken(u, id, t), t)
           /\ \A e \in Emails : RowOK(requestEmailChange(u, e, id, t), t)
           /\ RowOK(confirmEmailChange(u), t)
           /\ RowOK(scheduleDeletion(u, t), t)
           /\ RowOK(cancelDeletion(u), t)
<1> DEFINE same(v) ==
        /\ v.failed = u.failed /\ v.mfa = u.mfa /\ v.sessions = u.sessions /\ v.pw = u.pw
        /\ v.hasPassword = u.hasPassword /\ v.oauth = u.oauth /\ v.present = u.present
        /\ v.torn = u.torn
<1>1. \A v \in User : same(v) => RowOK(v, t)
    BY RowFrame
<1>2. same(setResetToken(u, id, t)) /\ same(refreshVerificationToken(u, id, t))
    BY DEF setResetToken, refreshVerificationToken, User
<1>3. same(verifyEmail(u)) /\ same(confirmEmailChange(u))
    BY DEF verifyEmail, confirmEmailChange, User
<1>4. \A e \in Emails : same(requestEmailChange(u, e, id, t))
    BY DEF requestEmailChange, User
<1>5. same(scheduleDeletion(u, t)) /\ same(cancelDeletion(u))
    BY DEF scheduleDeletion, cancelDeletion, User
<1> HIDE DEF same
<1> QED
    BY <1>1, <1>2, <1>3, <1>4, <1>5, PasswordType, EmailType, EmailChangeType, DeletionType

\* MFA is enabled with the pending secret, so the copy must hold one.
LEMMA MfaRow ==
    ASSUME NEW u \in User, NEW t \in Nat, NEW n \in Nat, NEW c, RowOK(u, t)
    PROVE  /\ RowOK(initiateMfaSetup(u, n), t)
           /\ u.mfa.pendingSecret # 0 => RowOK(enableMfa(u), t)
           /\ RowOK(disableMfa(u), t)
           /\ RowOK(consumeMfaBackupCode(u, c), t)
<1> DEFINE same(v) ==
        /\ v.failed = u.failed /\ v.sessions = u.sessions /\ v.pw = u.pw
        /\ v.hasPassword = u.hasPassword /\ v.oauth = u.oauth /\ v.present = u.present
        /\ v.torn = u.torn
<1>1. \A v : same(v) /\ MfaAt(v) => RowOK(v, t)
    BY DEF RowOK, LockAt, SignInAt, AtMostOne, OldSessions
<1>2. u.mfa \in MfaConfiguration /\ MfaAt(u)
    BY DEF User, RowOK
<1>3. same(initiateMfaSetup(u, n)) /\ MfaAt(initiateMfaSetup(u, n))
    BY <1>2 DEF initiateMfaSetup, MfaAt, User, MfaConfiguration
<1>4. same(enableMfa(u)) /\ (u.mfa.pendingSecret # 0 => MfaAt(enableMfa(u)))
    BY <1>2 DEF enableMfa, MfaAt, User, MfaConfiguration
<1>5. same(disableMfa(u)) /\ MfaAt(disableMfa(u))
    BY DEF disableMfa, MfaAt, User, NoMfa
<1>6. same(consumeMfaBackupCode(u, c)) /\ MfaAt(consumeMfaBackupCode(u, c))
    BY <1>2 DEF consumeMfaBackupCode, MfaAt, User, MfaConfiguration
<1> HIDE DEF same
<1> QED
    BY <1>1, <1>3, <1>4, <1>5, <1>6

\* A provider goes only if a way to sign in is left.
LEMMA OAuthRow ==
    ASSUME NEW u \in User, NEW t \in Nat, NEW p \in Providers, RowOK(u, t)
    PROVE  /\ RowOK(linkOAuthAccount(u, p), t)
           /\ CanUnlink(u, p) => RowOK(unlinkOAuthProvider(u, p), t)
BY DEF linkOAuthAccount, unlinkOAuthProvider, CanUnlink, User, RowOK, LockAt, SignInAt,
       MfaAt, AtMostOne, OldSessions

-----------------------------------------------------------------------------
(* The parts of the actions keep the rows.                                  *)

LEMMA RowBegin ==
    ASSUME TypeOK, Rows, NEW r \in Requests, NEW op, NEW u, NEW sid, NEW n,
           Begin(r, op, u, sid, n), u \in {db, NoUser}
    PROVE  Rows'
<1>1. RowOK(u, now)
    BY NoUserRow DEF Rows, TypeOK
<1> DEFINE q == [op |-> op, user |-> u, sid |-> sid, arg |-> n]
<1>2. q.user = u /\ req' = [req EXCEPT ![r] = q] /\ UNCHANGED <<db, now>>
    BY DEF Begin
<1> HIDE DEF q
<1> QED
    BY <1>1, <1>2 DEF Rows, TypeOK

\* A torn copy keeps what one row says by itself.
LEMMA RowReadLater ==
    ASSUME TypeOK, Rows, NEW r \in Requests, ReadLater(r) PROVE Rows'
<1>1. PICK q \in Request : /\ req' = [req EXCEPT ![r] = q]
                           /\ Mixed(q.user, req[r].user)
                           /\ q.user = db \/ q.user.torn
    BY ReadLaterStep
<1>2. RowOK(db, now) /\ RowOK(req[r].user, now) /\ UNCHANGED <<db, now>>
    BY ReadLaterStep DEF Rows
<1>3. RowOK(q.user, now)
    BY <1>1, <1>2 DEF RowOK, Mixed, SameAccount, LockAt, MfaAt
<1> QED
    BY <1>1, <1>2, <1>3 DEF Rows, TypeOK

LEMMA RowSave ==
    ASSUME TypeOK, Rows, NEW r \in Requests, NEW u \in User, RowOK(u, now), Save(r, u)
    PROVE  Rows'
<1>1. RowOK(CreateBranch(u), now)
    BY CreateBranchRow DEF TypeOK
<1>2. RowOK(Idle.user, now)
    BY NoUserRow DEF TypeOK
<1> QED
    BY <1>1, <1>2 DEF Save, Rows, TypeOK

LEMMA RowOpenSession ==
    ASSUME TypeOK, Rows, NEW r \in Requests, NEW u \in User, RowOK(u, now), OpenSession(r, u)
    PROVE  Rows'
<1>1. PICK sid \in SessionIds : Save(r, addSession(u, sid, now))
    BY DEF OpenSession
<1>2. addSession(u, sid, now) \in User /\ RowOK(addSession(u, sid, now), now)
    BY SessionType, SessionRow DEF TypeOK
<1> QED
    BY <1>1, <1>2, RowSave

\* A copy is as good as the invariant says it is.
LEMMA CopyRow ==
    ASSUME TypeOK, Rows, NEW r \in Requests
    PROVE  /\ req[r].user \in User
           /\ RowOK(req[r].user, now)
           /\ RowOK(db, now)
           /\ db \in User
           /\ now \in Nat
           /\ draws + 1 \in Nat
BY CopyType DEF Rows, TypeOK

LEMMA SignInRows ==
    ASSUME TypeOK, Rows, NEW r \in Requests, SignIn(r) PROVE Rows'
<1> DEFINE u == req[r].user
<1>u. u \in User /\ RowOK(u, now) /\ RowOK(db, now) /\ db \in User /\ now \in Nat
    BY CopyRow
<1>1. CASE LoginLoad(r) \/ MfaLoginLoad(r) \/ OAuthLoginLoad(r) \/ OAuthAutoLinkLoad(r)
    BY <1>1, RowBegin DEF LoginLoad, MfaLoginLoad, OAuthLoginLoad, OAuthAutoLinkLoad
<1>2. CASE WrongPassword(r)
  <2> DEFINE v == clearExpiredLock(u, now)
             w == handleFailedLogin(v, now)
  <2>1. v \in User /\ RowOK(v, now) /\ v.failed.lockedUntil = 0
      BY <1>2, <1>u, FailedLoginType, FailedLoginRow DEF WrongPassword, Compares
  <2>2. w \in User /\ RowOK(w, now)
      BY <1>u, <2>1, FailedLoginType, FailedLoginRow
  <2> QED
      BY <1>2, <2>2, RowSave DEF WrongPassword, SaveOnly
<1>3. CASE RightPassword(r)
  <2> DEFINE v == resetFailedLogins(u)
  <2>1. v \in User /\ RowOK(v, now)
      BY <1>u, FailedLoginType, FailedLoginRow
  <2>2. Save(r, v) \/ OpenSession(r, v)
      BY <1>3 DEF RightPassword, SaveOnly
  <2> QED
      BY <2>1, <2>2, RowSave, RowOpenSession
<1>4. CASE MfaLoginSave(r)
  <2>1. \A c : consumeMfaBackupCode(u, c) \in User /\ RowOK(consumeMfaBackupCode(u, c), now)
      BY <1>u, MfaType, MfaRow
  <2>2. OpenSession(r, u) \/ \E c : OpenSession(r, consumeMfaBackupCode(u, c))
      BY <1>4 DEF MfaLoginSave
  <2> QED
      BY <1>u, <2>1, <2>2, RowOpenSession
<1>5. CASE OAuthLoginSave(r) \/ OAuthLinkedSave(r)
    BY <1>5, <1>u, RowOpenSession DEF OAuthLoginSave, OAuthLinkedSave
<1>7. CASE OAuthLoginChallenge(r)
    BY <1>7, <1>u, NoUserRow DEF OAuthLoginChallenge, Rows, TypeOK
<1>6. CASE OAuthAutoLinkSave(r)
  <2> DEFINE goesOn(v) == [op |-> "oauthLinked", user |-> v, sid |-> NoId, arg |-> 0]
  <2>1. PICK p \in Providers :
            LET v == linkOAuthAccount(u, p)
            IN  /\ db' = IF db.present THEN v ELSE CreateBranch(v)
                /\ req' = [req EXCEPT ![r] = Idle] \/ req' = [req EXCEPT ![r] = goesOn(v)]
      BY <1>6 DEF OAuthAutoLinkSave
  <2> DEFINE v == linkOAuthAccount(u, p)
  <2>2. v \in User /\ RowOK(v, now)
      BY <1>u, OAuthType, OAuthRow
  <2>3. RowOK(db', now) /\ now' = now
      BY <1>6, <1>u, <2>1, <2>2, CreateBranchRow DEF OAuthAutoLinkSave
  <2>4. RowOK(goesOn(v).user, now) /\ RowOK(Idle.user, now)
      BY <1>u, <2>2, NoUserRow
  <2> QED
      BY <2>1, <2>3, <2>4 DEF Rows, TypeOK
<1> QED
    BY <1>1, <1>2, <1>3, <1>4, <1>5, <1>6, <1>7 DEF SignIn

LEMMA ManageSessionsRows ==
    ASSUME TypeOK, Rows, NEW r \in Requests, ManageSessions(r) PROVE Rows'
<1> DEFINE u == req[r].user
           sid == req[r].sid
<1>u. u \in User /\ RowOK(u, now) /\ now \in Nat
    BY CopyRow
<1>1. CASE RefreshLoad(r) \/ LogoutLoad(r) \/ RevokeSessionLoad(r) \/ RevokeOthersLoad(r)
    BY <1>1, RowBegin
       DEF RefreshLoad, LogoutLoad, RevokeSessionLoad, RevokeOthersLoad
<1>2. \A S : RevokeIn(u, S, now) \in User /\ RowOK(RevokeIn(u, S, now), now)
    BY <1>u, RevokeType, RevokeRow
<1>3. CASE LogoutSave(r) \/ RevokeSessionSave(r) \/ RevokeOthersSave(r)
    BY <1>2, <1>3, RowSave
       DEF LogoutSave, RevokeSessionSave, RevokeOthersSave, SaveOnly, revokeSession,
           revokeAllOtherSessions
<1>4. CASE RefreshSave(r)
  <2>1. CASE Save(r, revokeAllSessions(u, now))
      BY <1>2, <2>1, RowSave DEF revokeAllSessions
  <2>2. CASE Save(r, rotateToken(u, sid, handed[sid] + 1))
    <3>1. CASE sid \in SessionIds
      <4>1. handed[sid] + 1 \in Nat
          BY <3>1 DEF TypeOK
      <4> QED
          BY <1>u, <2>2, <3>1, <4>1, SessionType, SessionRow, RowSave
    <3>2. CASE sid \notin SessionIds
      <4>1. rotateToken(u, sid, handed[sid] + 1) = u
          BY <1>u, <3>2 DEF rotateToken, User
      <4> QED
          BY <1>u, <2>2, <4>1, RowSave
    <3> QED
        BY <3>1, <3>2
  <2> QED
      BY <1>4, <2>1, <2>2 DEF RefreshSave, SaveOnly
<1> QED
    BY <1>1, <1>3, <1>4 DEF ManageSessions

LEMMA ManageCredentialsRows ==
    ASSUME TypeOK, Rows, NEW r \in Requests, ManageCredentials(r) PROVE Rows'
<1> DEFINE u == req[r].user
<1>u. /\ u \in User /\ RowOK(u, now) /\ RowOK(db, now) /\ db \in User /\ now \in Nat
      /\ draws + 1 \in Nat
    BY CopyRow
<1>1. CASE ChangePasswordLoad(r) \/ SetInitialPasswordLoad(r) \/ ForgotPasswordLoad(r)
           \/ ResetPasswordLoad(r)
    BY <1>1, RowBegin
       DEF ChangePasswordLoad, SetInitialPasswordLoad, ForgotPasswordLoad, ResetPasswordLoad
<1>2. CASE InitiateMfaLoad(r) \/ EnableMfaLoad(r) \/ DisableMfaLoad(r)
           \/ LinkOAuthLoad(r) \/ UnlinkOAuthLoad(r)
    BY <1>2, RowBegin
       DEF InitiateMfaLoad, EnableMfaLoad, DisableMfaLoad, LinkOAuthLoad, UnlinkOAuthLoad
<1>3. CASE ChangePasswordSave(r)
  <2> DEFINE v == revokeAllOtherSessions(updatePassword(u), req[r].sid, now)
  <2>1. v \in User
      BY <1>u, PasswordType, RevokeType DEF revokeAllOtherSessions
  <2>2. RowOK(v, now)
      BY <1>u, PasswordRow
  <2> QED
      BY <1>3, <2>1, <2>2, RowSave DEF ChangePasswordSave, SaveOnly
<1>4. CASE SetInitialPasswordSave(r)
  <2>1. ~u.hasPassword
      BY <1>4 DEF SetInitialPasswordSave
  <2>2. updatePassword(u) \in User /\ RowOK(updatePassword(u), now)
      BY <1>u, <2>1, PasswordType, PasswordRow
  <2> QED
      BY <1>4, <2>2, RowSave DEF SetInitialPasswordSave, SaveOnly
<1>5. CASE ForgotPasswordSave(r)
    BY <1>5, <1>u, PasswordType, TokenRow, RowSave DEF ForgotPasswordSave, SaveWithDraw
<1>6. CASE ResetPasswordSave(r)
  <2> DEFINE v == revokeAllSessions(changePassword(u), now)
  <2>1. v \in User
      BY <1>u, PasswordType, RevokeType DEF revokeAllSessions
  <2>2. RowOK(v, now)
      BY <1>u, PasswordRow
  <2> QED
      BY <1>6, <2>1, <2>2, RowSave DEF ResetPasswordSave
<1>7. CASE InitiateMfaSave(r)
    BY <1>7, <1>u, MfaType, MfaRow, RowSave DEF InitiateMfaSave, SaveWithDraw
<1>8. CASE EnableMfaSave(r)
    BY <1>8, <1>u, MfaType, MfaRow, RowSave DEF EnableMfaSave, SaveOnly
<1>9. CASE DisableMfaSave(r)
    BY <1>9, <1>u, MfaType, MfaRow, RowSave DEF DisableMfaSave, SaveOnly
<1>10. CASE LinkOAuthSave(r) \/ UnlinkOAuthSave(r)
    BY <1>10, <1>u, OAuthType, OAuthRow, RowSave DEF LinkOAuthSave, UnlinkOAuthSave, SaveOnly
<1> QED
    BY <1>1, <1>2, <1>3, <1>4, <1>5, <1>6, <1>7, <1>8, <1>9, <1>10 DEF ManageCredentials

LEMMA ManageAccountRows ==
    ASSUME TypeOK, Rows, NEW r \in Requests, ManageAccount(r) PROVE Rows'
<1> DEFINE u == req[r].user
<1>u. u \in User /\ RowOK(u, now) /\ now \in Nat /\ draws + 1 \in Nat
    BY CopyRow
<1>1. CASE VerifyEmailLoad(r) \/ ResendVerificationLoad(r) \/ RequestEmailChangeLoad(r)
           \/ ConfirmEmailChangeLoad(r) \/ UpdateAccountLoad(r)
           \/ UploadAvatarLoad(r) \/ RemoveAvatarLoad(r)
    BY <1>1, RowBegin
       DEF VerifyEmailLoad, ResendVerificationLoad, RequestEmailChangeLoad,
           ConfirmEmailChangeLoad, UpdateAccountLoad,
           UploadAvatarLoad, RemoveAvatarLoad
<1>2. CASE ScheduleDeletionLoad(r) \/ RestoreLoad(r) \/ DeleteAccountLoad(r)
           \/ HardDeletionLoad(r)
    BY <1>2, RowBegin
       DEF ScheduleDeletionLoad, RestoreLoad, DeleteAccountLoad, HardDeletionLoad
<1>3. CASE VerifyEmailSave(r)
    BY <1>3, <1>u, EmailType, TokenRow, RowOpenSession DEF VerifyEmailSave
<1>4. CASE ResendVerificationSave(r) \/ RequestEmailChangeSave(r)
    BY <1>4, <1>u, EmailType, EmailChangeType, TokenRow, RowSave
       DEF ResendVerificationSave, RequestEmailChangeSave, SaveWithDraw
<1>5. CASE ConfirmEmailChangeSave(r)
    BY <1>5, <1>u, EmailType, TokenRow, RowSave DEF ConfirmEmailChangeSave
<1>6. CASE UpdateAccountSave(r) \/ UploadAvatarSave(r) \/ RemoveAvatarSave(r)
    BY <1>6, <1>u, RowSave DEF UpdateAccountSave, UploadAvatarSave, RemoveAvatarSave, SaveOnly
<1>7. CASE ScheduleDeletionSave(r)
    BY <1>7, <1>u, DeletionType, TokenRow, RowSave DEF ScheduleDeletionSave, SaveOnly
<1>8. CASE RestoreSave(r)
    BY <1>8, <1>u, DeletionType, TokenRow, RowOpenSession DEF RestoreSave
<1>9. CASE DeleteAccountDelete(r) \/ HardDeletionDelete(r)
    BY <1>9, <1>u, NoUserRow DEF DeleteAccountDelete, HardDeletionDelete, DeleteRow, Rows, TypeOK
<1> QED
    BY <1>1, <1>2, <1>3, <1>4, <1>5, <1>6, <1>7, <1>8, <1>9 DEF ManageAccount

-----------------------------------------------------------------------------
\* The strengthened invariant: the stored row and every copy in flight are good.
THEOREM RowInvariant == Spec => []Rows
<1>1. Init => Rows
    BY FactoryRow, NoUserRow DEF Init, Rows
<1>2. TypeOK /\ Rows /\ [Next]_vars => Rows'
  <2> SUFFICES ASSUME TypeOK, Rows, [Next]_vars PROVE Rows'
      OBVIOUS
  <2>1. ASSUME NEW r \in Requests, SignIn(r) \/ ManageSessions(r) PROVE Rows'
      BY <2>1, SignInRows, ManageSessionsRows
  <2>2. ASSUME NEW r \in Requests, ManageCredentials(r) \/ ManageAccount(r) PROVE Rows'
      BY <2>2, ManageCredentialsRows, ManageAccountRows
  <2>3. ASSUME NEW r \in Requests, Fail(r) PROVE Rows'
    <3>1. RowOK(Idle.user, now)
        BY NoUserRow DEF TypeOK
    <3> QED
        BY <2>3, <3>1 DEF Fail, Rows, TypeOK
  <2>4. ASSUME NEW r \in Requests, ReadLater(r) PROVE Rows'
      BY <2>4, RowReadLater
  <2>5. CASE CleanExpiredSessions
    <3>1. PICK S : db' = [db EXCEPT !.sessions = [s \in SessionIds |->
                             IF s \in S THEN NoSession ELSE db.sessions[s]]]
        BY <2>5 DEF CleanExpiredSessions
    <3>2. OldSessions(db', now) \subseteq OldSessions(db, now)
        BY <3>1 DEF OldSessions, IsValid, NoSession, TypeOK, User
    <3>3. /\ db'.failed = db.failed /\ db'.mfa = db.mfa /\ db'.oauth = db.oauth
          /\ db'.hasPassword = db.hasPassword /\ db'.present = db.present
          /\ db'.torn = db.torn
        BY <3>1 DEF TypeOK, User
    <3>4. RowOK(db', now)
        BY <3>2, <3>3 DEF Rows, RowOK, LockAt, SignInAt, MfaAt, AtMostOne
    <3> QED
        BY <2>5, <3>4 DEF CleanExpiredSessions, Rows
  <2>6. CASE Tick
    <3>1. now' = now + 1 /\ db' = db /\ req' = req /\ now \in Nat
        BY <2>6 DEF Tick, TypeOK
    <3>2. RowOK(db, now + 1)
        BY <3>1, RowTime DEF Rows, TypeOK
    <3>3. \A r \in Requests : RowOK(req[r].user, now + 1)
        BY <3>1, CopyType, RowTime DEF Rows
    <3> QED
        BY <3>1, <3>2, <3>3 DEF Rows
  <2>7. CASE UNCHANGED vars
      BY <2>7 DEF vars, Rows
  <2> QED
      BY <2>1, <2>2, <2>3, <2>4, <2>5, <2>6, <2>7 DEF Next
<1> QED
    BY <1>1, <1>2, TypeInvariant, PTL DEF Spec

\* The failure count never passes the limit, and the lock is set exactly there.
THEOREM LockInvariant == Spec => []LockMatchesCount
<1>1. Rows => LockMatchesCount
    BY DEF Rows, RowOK, LockMatchesCount
<1> QED
    BY <1>1, RowInvariant, PTL

\* Overlapping requests never leave an account without a way to sign in, unless the row
\* was saved from a copy whose rows were read on both sides of another save.
THEOREM SignInInvariant == Spec => []SignInMethod
<1>1. Rows => SignInMethod
    BY DEF Rows, RowOK, SignInMethod
<1> QED
    BY <1>1, RowInvariant, PTL

\* MFA is never on without a secret, nor backup codes left when it is off.
THEOREM MfaInvariant == Spec => []MfaUsable
<1>1. Rows => MfaUsable
    BY DEF Rows, RowOK, MfaUsable
<1> QED
    BY <1>1, RowInvariant, PTL

\* No row holds two valid sessions that are older than its password, unless it was saved
\* from a copy whose rows were read on both sides of another save.
THEOREM OldSessionInvariant == Spec => []AtMostOneOldSession
<1>1. Rows => AtMostOneOldSession
    BY DEF Rows, RowOK, AtMostOneOldSession
<1> QED
    BY <1>1, RowInvariant, PTL

=============================================================================
