-------------------------- MODULE AccountEmailProofs --------------------------
(***************************************************************************)
(* The column verificationToken serves two flows, the verification of an    *)
(* account and the confirmation of a new address.  The first theorem of     *)
(* this module: on a verified account it never holds a token that was       *)
(* mailed to another address than the one it would confirm.  The second: an *)
(* account has no session before its address is verified, as long as the    *)
(* use cases that open one without looking at it are not called.  Both      *)
(* except a row that was saved from a copy put together on both sides of    *)
(* another save, and TLC shows that neither holds without the exception.    *)
(***************************************************************************)
EXTENDS AccountRequestsProofs

\* A copy that was put together on both sides of a save may have the token of one moment
\* and the address of another.
MailAt(u) == u.torn \/ ConfirmAt(u)

\* Every copy in flight may become the row.  A token is resent to the current
\* address, which is safe as long as the copy it goes into is not verified.
Mail ==
    /\ MailAt(db)
    /\ \A r \in Requests :
          /\ MailAt(req[r].user)
          /\ req[r].op = "resendVerification" => ~req[r].user.isVerified

-----------------------------------------------------------------------------
(* The methods of the aggregate.                                            *)

SameMail(u, v) ==
    /\ v.torn = u.torn
    /\ v.isVerified = u.isVerified
    /\ v.pendingEmail = u.pendingEmail
    /\ v.verification = u.verification

LEMMA MailFrame ==
    ASSUME NEW u, NEW v, MailAt(u), SameMail(u, v) PROVE MailAt(v)
BY DEF MailAt, ConfirmAt, SameMail

LEMMA NoUserMail == MailAt(NoUser) /\ MailAt(Idle.user) /\ Idle.op = "idle"
BY DEF MailAt, ConfirmAt, NoUser, Idle

\* The create branch stores no pending address.
LEMMA CreateBranchMail ==
    ASSUME NEW u \in User PROVE MailAt(CreateBranch(u))
BY DEF MailAt, ConfirmAt, CreateBranch, User

LEMMA FactoryMail ==
    ASSUME NEW e \in Emails
    PROVE  /\ MailAt(createForRegistration(e, 1, 0))
           /\ \A p \in Providers : MailAt(createForOAuthRegistration(e, p))
BY DEF createForRegistration, createForOAuthRegistration, MailAt, ConfirmAt, NoUser

\* A token is consumed, or replaced by one for the address it will confirm.
LEMMA TokenMail ==
    ASSUME NEW u \in User, NEW t \in Nat, NEW id \in Nat
    PROVE  /\ MailAt(verifyEmail(u))
           /\ ~u.isVerified => MailAt(refreshVerificationToken(u, id, t))
           /\ \A e \in Emails : MailAt(requestEmailChange(u, e, id, t))
           /\ MailAt(confirmEmailChange(u))
BY DEF MailAt, ConfirmAt, verifyEmail, refreshVerificationToken, requestEmailChange,
       confirmEmailChange, NewToken, NoToken, User

\* No other method touches the token or the addresses.
LEMMA SignInMail ==
    ASSUME NEW u \in User, NEW t \in Nat
    PROVE  /\ SameMail(u, clearExpiredLock(u, t))
           /\ SameMail(u, handleFailedLogin(u, t))
           /\ SameMail(u, resetFailedLogins(u))
           /\ \A sid : SameMail(u, addSession(u, sid, t))
           /\ \A sid, n : SameMail(u, rotateToken(u, sid, n))
           /\ \A S : SameMail(u, RevokeIn(u, S, t))
BY DEF SameMail, clearExpiredLock, handleFailedLogin, resetFailedLogins, addSession,
       rotateToken, RevokeIn, User

LEMMA CredentialMail ==
    ASSUME NEW u \in User, NEW t \in Nat
    PROVE  /\ SameMail(u, updatePassword(u))
           /\ SameMail(u, changePassword(u))
           /\ \A id : SameMail(u, setResetToken(u, id, t))
           /\ \A n : SameMail(u, initiateMfaSetup(u, n))
           /\ SameMail(u, enableMfa(u))
           /\ SameMail(u, disableMfa(u))
           /\ \A c : SameMail(u, consumeMfaBackupCode(u, c))
           /\ \A p : SameMail(u, linkOAuthAccount(u, p))
           /\ \A p : SameMail(u, unlinkOAuthProvider(u, p))
           /\ SameMail(u, scheduleDeletion(u, t))
           /\ SameMail(u, cancelDeletion(u))
BY DEF SameMail, updatePassword, changePassword, setResetToken, initiateMfaSetup,
       enableMfa, disableMfa, consumeMfaBackupCode, linkOAuthAccount, unlinkOAuthProvider,
       scheduleDeletion, cancelDeletion, User

-----------------------------------------------------------------------------
(* The parts of the actions.                                                *)

LEMMA MailBegin ==
    ASSUME TypeOK, Mail, NEW r \in Requests, NEW op, NEW u, NEW sid, NEW n,
           Begin(r, op, u, sid, n), u \in {db, NoUser},
           op = "resendVerification" => ~u.isVerified
    PROVE  Mail'
<1> DEFINE q == [op |-> op, user |-> u, sid |-> sid, arg |-> n]
<1>1. MailAt(q.user) /\ (q.op = "resendVerification" => ~q.user.isVerified)
    BY NoUserMail DEF Mail
<1>2. req' = [req EXCEPT ![r] = q] /\ db' = db
    BY DEF Begin
<1> HIDE DEF q
<1> QED
    BY <1>1, <1>2 DEF Mail, TypeOK

\* A late SELECT leaves the User row of the copy as it is.
LEMMA MailReadLater ==
    ASSUME TypeOK, Mail, NEW r \in Requests, ReadLater(r) PROVE Mail'
<1>1. PICK q \in Request : /\ req' = [req EXCEPT ![r] = q] /\ q.op = req[r].op
                           /\ Mixed(q.user, req[r].user)
                           /\ q.user = db \/ q.user.torn
    BY ReadLaterStep
<1>2. db' = db /\ MailAt(db)
    BY ReadLaterStep DEF Mail
<1>3. MailAt(q.user) /\ (q.op = "resendVerification" => ~q.user.isVerified)
    BY <1>1, <1>2 DEF Mail, MailAt, Mixed
<1> QED
    BY <1>1, <1>2, <1>3 DEF Mail, TypeOK

LEMMA MailSave ==
    ASSUME TypeOK, Mail, NEW r \in Requests, NEW u \in User, MailAt(u), Save(r, u)
    PROVE  Mail'
<1>1. MailAt(db')
    BY CreateBranchMail DEF Save
<1>2. req' = [req EXCEPT ![r] = Idle]
    BY DEF Save
<1> QED
    BY <1>1, <1>2, NoUserMail DEF Mail, TypeOK

LEMMA MailOpenSession ==
    ASSUME TypeOK, Mail, NEW r \in Requests, NEW u \in User, MailAt(u), OpenSession(r, u)
    PROVE  Mail'
<1>1. PICK sid \in SessionIds : Save(r, addSession(u, sid, now))
    BY DEF OpenSession
<1>2. addSession(u, sid, now) \in User /\ MailAt(addSession(u, sid, now))
    BY SessionType, SignInMail, MailFrame DEF TypeOK
<1> QED
    BY <1>1, <1>2, MailSave

LEMMA CopyMail ==
    ASSUME TypeOK, Mail, NEW r \in Requests
    PROVE  /\ req[r].user \in User
           /\ MailAt(req[r].user)
           /\ req[r].op = "resendVerification" => ~req[r].user.isVerified
           /\ db \in User
           /\ now \in Nat
           /\ draws + 1 \in Nat
BY CopyType DEF Mail, TypeOK

-----------------------------------------------------------------------------
(* One lemma for each group of actions.                                     *)

LEMMA SignInKeepsMail ==
    ASSUME TypeOK, Mail, NEW r \in Requests, SignIn(r) PROVE Mail'
<1> DEFINE u == req[r].user
<1>u. u \in User /\ MailAt(u) /\ db \in User /\ now \in Nat
    BY CopyMail
<1>1. CASE LoginLoad(r) \/ MfaLoginLoad(r) \/ OAuthLoginLoad(r) \/ OAuthAutoLinkLoad(r)
    BY <1>1, MailBegin DEF LoginLoad, MfaLoginLoad, OAuthLoginLoad, OAuthAutoLinkLoad
<1>2. CASE WrongPassword(r) \/ RightPassword(r)
  <2> DEFINE v == resetFailedLogins(u)
             c == clearExpiredLock(u, now)
             w == handleFailedLogin(c, now)
  <2>1. v \in User /\ c \in User /\ w \in User
      BY <1>u, FailedLoginType
  <2>2. MailAt(v) /\ MailAt(w)
      BY <1>u, <2>1, SignInMail, MailFrame
  <2>3. Save(r, v) \/ Save(r, w) \/ OpenSession(r, v)
      BY <1>2 DEF WrongPassword, RightPassword, SaveOnly
  <2> QED
      BY <2>1, <2>2, <2>3, MailSave, MailOpenSession
<1>4. CASE MfaLoginSave(r)
  <2>1. \A c : consumeMfaBackupCode(u, c) \in User
      BY <1>u, MfaType
  <2>2. \A c : MailAt(consumeMfaBackupCode(u, c))
      BY <1>u, CredentialMail, MailFrame
  <2>3. OpenSession(r, u) \/ \E c : OpenSession(r, consumeMfaBackupCode(u, c))
      BY <1>4 DEF MfaLoginSave
  <2> QED
      BY <1>u, <2>1, <2>2, <2>3, MailOpenSession
<1>5. CASE OAuthLoginSave(r) \/ OAuthLinkedSave(r)
    BY <1>5, <1>u, MailOpenSession DEF OAuthLoginSave, OAuthLinkedSave
<1>7. CASE OAuthLoginChallenge(r)
    BY <1>7, NoUserMail DEF OAuthLoginChallenge, Mail, TypeOK
<1>6. CASE OAuthAutoLinkSave(r)
  <2> DEFINE goesOn(v) == [op |-> "oauthLinked", user |-> v, sid |-> NoId, arg |-> 0]
  <2>1. PICK p \in Providers :
            LET v == linkOAuthAccount(u, p)
            IN  /\ db' = IF db.present THEN v ELSE CreateBranch(v)
                /\ req' = [req EXCEPT ![r] = Idle] \/ req' = [req EXCEPT ![r] = goesOn(v)]
      BY <1>6 DEF OAuthAutoLinkSave
  <2> DEFINE v == linkOAuthAccount(u, p)
  <2>2. v \in User /\ MailAt(v)
      BY <1>u, OAuthType, CredentialMail, MailFrame
  <2>3. MailAt(db')
      BY <2>1, <2>2, CreateBranchMail
  <2>4. MailAt(goesOn(v).user) /\ goesOn(v).op # "resendVerification"
      BY <2>2
  <2> HIDE DEF goesOn, v
  <2>5. req' = [req EXCEPT ![r] = Idle] \/ req' = [req EXCEPT ![r] = goesOn(v)]
      BY <2>1 DEF v
  <2> QED
      BY <2>3, <2>4, <2>5, NoUserMail DEF Mail, TypeOK
<1> QED
    BY <1>1, <1>2, <1>4, <1>5, <1>6, <1>7 DEF SignIn

LEMMA ManageSessionsKeepsMail ==
    ASSUME TypeOK, Mail, NEW r \in Requests, ManageSessions(r) PROVE Mail'
<1> DEFINE u == req[r].user
           sid == req[r].sid
<1>u. u \in User /\ MailAt(u) /\ now \in Nat
    BY CopyMail
<1>1. CASE RefreshLoad(r) \/ LogoutLoad(r) \/ RevokeSessionLoad(r) \/ RevokeOthersLoad(r)
    BY <1>1, MailBegin
       DEF RefreshLoad, LogoutLoad, RevokeSessionLoad, RevokeOthersLoad
<1>2. \A S : RevokeIn(u, S, now) \in User /\ MailAt(RevokeIn(u, S, now))
    BY <1>u, RevokeType, SignInMail, MailFrame
<1>3. CASE LogoutSave(r) \/ RevokeSessionSave(r) \/ RevokeOthersSave(r)
    BY <1>2, <1>3, MailSave
       DEF LogoutSave, RevokeSessionSave, RevokeOthersSave, SaveOnly, revokeSession,
           revokeAllOtherSessions
<1>4. CASE RefreshSave(r)
  <2> DEFINE v == rotateToken(u, sid, handed[sid] + 1)
  <2>1. CASE Save(r, revokeAllSessions(u, now))
      BY <1>2, <2>1, MailSave DEF revokeAllSessions
  <2>2. CASE Save(r, v)
    <3>1. v \in User
      <4>1. CASE sid \in SessionIds
          BY <1>u, <4>1, SessionType DEF TypeOK
      <4>2. CASE sid \notin SessionIds
          BY <1>u, <4>2 DEF rotateToken, User
      <4> QED
          BY <4>1, <4>2
    <3>2. MailAt(v)
        BY <1>u, SignInMail, MailFrame
    <3> QED
        BY <2>2, <3>1, <3>2, MailSave
  <2> QED
      BY <1>4, <2>1, <2>2 DEF RefreshSave, SaveOnly
<1> QED
    BY <1>1, <1>3, <1>4 DEF ManageSessions

LEMMA ManageCredentialsKeepsMail ==
    ASSUME TypeOK, Mail, NEW r \in Requests, ManageCredentials(r) PROVE Mail'
<1> DEFINE u == req[r].user
<1>u. u \in User /\ MailAt(u) /\ db \in User /\ now \in Nat /\ draws + 1 \in Nat
    BY CopyMail
<1>1. CASE ChangePasswordLoad(r) \/ ForgotPasswordLoad(r) \/ ResetPasswordLoad(r)
           \/ InitiateMfaLoad(r) \/ DisableMfaLoad(r) \/ LinkOAuthLoad(r) \/ UnlinkOAuthLoad(r)
           \/ SetInitialPasswordLoad(r) \/ EnableMfaLoad(r)
    BY <1>1, MailBegin
       DEF ChangePasswordLoad, ForgotPasswordLoad, ResetPasswordLoad, InitiateMfaLoad,
           DisableMfaLoad, LinkOAuthLoad, UnlinkOAuthLoad, SetInitialPasswordLoad,
           EnableMfaLoad
<1>2. CASE ChangePasswordSave(r) \/ SetInitialPasswordSave(r)
  <2> DEFINE v == updatePassword(u)
             w == revokeAllOtherSessions(v, req[r].sid, now)
  <2>1. v \in User /\ MailAt(v)
      BY <1>u, PasswordType, CredentialMail, MailFrame
  <2>2. w \in User /\ MailAt(w)
      BY <1>u, <2>1, RevokeType, SignInMail, MailFrame DEF revokeAllOtherSessions
  <2>3. Save(r, v) \/ Save(r, w)
      BY <1>2 DEF ChangePasswordSave, SetInitialPasswordSave, SaveOnly
  <2> QED
      BY <2>1, <2>2, <2>3, MailSave
<1>3. CASE ForgotPasswordSave(r)
  <2> DEFINE v == setResetToken(u, draws + 1, now)
  <2>1. v \in User /\ MailAt(v)
      BY <1>u, PasswordType, CredentialMail, MailFrame
  <2> QED
      BY <1>3, <2>1, MailSave DEF ForgotPasswordSave, SaveWithDraw
<1>4. CASE ResetPasswordSave(r)
  <2> DEFINE v == changePassword(u)
             w == revokeAllSessions(v, now)
  <2>1. v \in User /\ MailAt(v)
      BY <1>u, PasswordType, CredentialMail, MailFrame
  <2>2. w \in User /\ MailAt(w)
      BY <1>u, <2>1, RevokeType, SignInMail, MailFrame DEF revokeAllSessions
  <2> QED
      BY <1>4, <2>2, MailSave DEF ResetPasswordSave
<1>5. CASE InitiateMfaSave(r)
  <2> DEFINE v == initiateMfaSetup(u, draws + 1)
  <2>1. v \in User /\ MailAt(v)
      BY <1>u, MfaType, CredentialMail, MailFrame
  <2> QED
      BY <1>5, <2>1, MailSave DEF InitiateMfaSave, SaveWithDraw
<1>6. CASE EnableMfaSave(r) \/ DisableMfaSave(r)
  <2>1. /\ enableMfa(u) \in User /\ MailAt(enableMfa(u))
        /\ disableMfa(u) \in User /\ MailAt(disableMfa(u))
      BY <1>u, MfaType, CredentialMail, MailFrame
  <2> QED
      BY <1>6, <2>1, MailSave DEF EnableMfaSave, DisableMfaSave, SaveOnly
<1>7. CASE LinkOAuthSave(r) \/ UnlinkOAuthSave(r)
  <2>1. \A p \in Providers :
            /\ linkOAuthAccount(u, p) \in User /\ MailAt(linkOAuthAccount(u, p))
            /\ unlinkOAuthProvider(u, p) \in User /\ MailAt(unlinkOAuthProvider(u, p))
      BY <1>u, OAuthType, CredentialMail, MailFrame
  <2> QED
      BY <1>7, <2>1, MailSave DEF LinkOAuthSave, UnlinkOAuthSave, SaveOnly
<1> QED
    BY <1>1, <1>2, <1>3, <1>4, <1>5, <1>6, <1>7 DEF ManageCredentials

LEMMA ManageAccountKeepsMail ==
    ASSUME TypeOK, Mail, NEW r \in Requests, ManageAccount(r) PROVE Mail'
<1> DEFINE u == req[r].user
<1>u. u \in User /\ MailAt(u) /\ now \in Nat /\ draws + 1 \in Nat
    BY CopyMail
<1>1. CASE VerifyEmailLoad(r) \/ RequestEmailChangeLoad(r) \/ ConfirmEmailChangeLoad(r)
           \/ UpdateAccountLoad(r)
           \/ UploadAvatarLoad(r) \/ RemoveAvatarLoad(r) \/ ScheduleDeletionLoad(r) \/ RestoreLoad(r)
           \/ DeleteAccountLoad(r) \/ HardDeletionLoad(r)
    BY <1>1, MailBegin
       DEF VerifyEmailLoad, RequestEmailChangeLoad, ConfirmEmailChangeLoad, UpdateAccountLoad,
           UploadAvatarLoad, RemoveAvatarLoad,
           ScheduleDeletionLoad, RestoreLoad, DeleteAccountLoad, HardDeletionLoad
<1>2. CASE ResendVerificationLoad(r)
    BY <1>2, MailBegin DEF ResendVerificationLoad
<1>3. CASE VerifyEmailSave(r)
    BY <1>3, <1>u, EmailType, TokenMail, MailOpenSession DEF VerifyEmailSave
<1>4. CASE ResendVerificationSave(r)
  <2> DEFINE v == refreshVerificationToken(u, draws + 1, now)
  <2>1. ~u.isVerified
      BY <1>4, CopyMail DEF ResendVerificationSave
  <2>2. v \in User /\ MailAt(v)
      BY <1>u, <2>1, EmailType, TokenMail
  <2> QED
      BY <1>4, <2>2, MailSave DEF ResendVerificationSave, SaveWithDraw
<1>5. CASE RequestEmailChangeSave(r)
    BY <1>5, <1>u, EmailChangeType, TokenMail, MailSave
       DEF RequestEmailChangeSave, SaveWithDraw
<1>6. CASE ConfirmEmailChangeSave(r)
    BY <1>6, <1>u, EmailType, TokenMail, MailSave DEF ConfirmEmailChangeSave
<1>7. CASE UpdateAccountSave(r) \/ UploadAvatarSave(r) \/ RemoveAvatarSave(r)
    BY <1>7, <1>u, MailSave DEF UpdateAccountSave, UploadAvatarSave, RemoveAvatarSave, SaveOnly
<1>8. CASE ScheduleDeletionSave(r) \/ RestoreSave(r)
  <2>1. /\ scheduleDeletion(u, now) \in User /\ MailAt(scheduleDeletion(u, now))
        /\ cancelDeletion(u) \in User /\ MailAt(cancelDeletion(u))
      BY <1>u, DeletionType, CredentialMail, MailFrame
  <2> QED
      BY <1>8, <2>1, MailSave, MailOpenSession DEF ScheduleDeletionSave, RestoreSave, SaveOnly
<1>9. CASE DeleteAccountDelete(r) \/ HardDeletionDelete(r)
    BY <1>9, NoUserMail DEF DeleteAccountDelete, HardDeletionDelete, DeleteRow, Mail, TypeOK
<1> QED
    BY <1>1, <1>2, <1>3, <1>4, <1>5, <1>6, <1>7, <1>8, <1>9 DEF ManageAccount

-----------------------------------------------------------------------------
\* The strengthened invariant: no token, stored or about to be stored on a
\* verified account, confirms an address it was not mailed to.
THEOREM MailInvariant == Spec => []Mail
<1>1. Init => Mail
    BY FactoryMail, NoUserMail DEF Init, Mail
<1>2. TypeOK /\ Mail /\ [Next]_vars => Mail'
  <2> SUFFICES ASSUME TypeOK, Mail, [Next]_vars PROVE Mail'
      OBVIOUS
  <2>1. ASSUME NEW r \in Requests, SignIn(r) \/ ManageSessions(r) PROVE Mail'
      BY <2>1, SignInKeepsMail, ManageSessionsKeepsMail
  <2>2. ASSUME NEW r \in Requests, ManageCredentials(r) \/ ManageAccount(r) PROVE Mail'
      BY <2>2, ManageCredentialsKeepsMail, ManageAccountKeepsMail
  <2>3. ASSUME NEW r \in Requests, Fail(r) PROVE Mail'
      BY <2>3, NoUserMail DEF Fail, Mail, TypeOK
  <2>4. ASSUME NEW r \in Requests, ReadLater(r) PROVE Mail'
      BY <2>4, MailReadLater
  <2>5. CASE CleanExpiredSessions
    <3>1. SameMail(db, db')
        BY <2>5 DEF CleanExpiredSessions, SameMail, TypeOK, User
    <3>2. MailAt(db')
        BY <3>1, MailFrame DEF Mail
    <3> QED
        BY <2>5, <3>2 DEF CleanExpiredSessions, Mail
  <2>6. CASE Tick
      BY <2>6 DEF Tick, Mail
  <2>7. CASE UNCHANGED vars
      BY <2>7 DEF vars, Mail
  <2> QED
      BY <2>1, <2>2, <2>3, <2>4, <2>5, <2>6, <2>7 DEF Next
<1> QED
    BY <1>1, <1>2, TypeInvariant, PTL DEF Spec

\* On a verified account a token confirms only the address it was mailed to, however
\* many requests overlap, unless the row was saved from a copy that had its User row from
\* before another save and its token from after it.
THEOREM ConfirmInvariant == Spec => []ConfirmTokenAddress
<1>1. Mail => ConfirmTokenAddress
    BY DEF Mail, MailAt, ConfirmTokenAddress
<1> QED
    BY <1>1, MailInvariant, PTL

-----------------------------------------------------------------------------
(* Sessions and the verification of the address.                            *)

\* These use cases open a session for an account that is not verified: they rely on
\* what came before them.
OnlyCheckedLogins ==
    /\ "mfaLogin" \notin UseCases /\ "oauthLogin" \notin UseCases
    /\ "oauthAutoLink" \notin UseCases /\ "restore" \notin UseCases

VerifiedAt(u) ==
    u.torn \/ \A s \in SessionIds : u.sessions[s].state # "absent" => u.isVerified

\* Every copy in flight may become the row.
Verified ==
    /\ VerifiedAt(db)
    /\ \A r \in Requests : VerifiedAt(req[r].user) /\ req[r].op # "oauthLinked"

\* v has no session that u has not, and is verified when u is.
NoMoreSessions(u, v) ==
    /\ v.torn = u.torn
    /\ u.isVerified => v.isVerified
    /\ \A s \in SessionIds : v.sessions[s].state # "absent" => u.sessions[s].state # "absent"

LEMMA VerifiedFrame ==
    ASSUME NEW u, NEW v, VerifiedAt(u), NoMoreSessions(u, v) PROVE VerifiedAt(v)
BY DEF VerifiedAt, NoMoreSessions

LEMMA NoUserVerified == VerifiedAt(NoUser) /\ VerifiedAt(Idle.user) /\ Idle.op = "idle"
BY DEF VerifiedAt, NoUser, NoSession, Idle

LEMMA FactoryVerified ==
    ASSUME NEW e \in Emails
    PROVE  /\ VerifiedAt(createForRegistration(e, 1, 0))
           /\ \A p \in Providers : VerifiedAt(createForOAuthRegistration(e, p))
BY DEF createForRegistration, createForOAuthRegistration, VerifiedAt, NoUser, NoSession

\* No method opens a session but addSession, and none takes the verification back.
LEMMA MethodSessions ==
    ASSUME NEW u \in User, NEW t \in Nat
    PROVE  /\ NoMoreSessions(u, CreateBranch(u))
           /\ NoMoreSessions(u, clearExpiredLock(u, t))
           /\ NoMoreSessions(u, handleFailedLogin(u, t))
           /\ NoMoreSessions(u, resetFailedLogins(u))
           /\ NoMoreSessions(u, verifyEmail(u))
           /\ NoMoreSessions(u, confirmEmailChange(u))
           /\ NoMoreSessions(u, updatePassword(u))
           /\ NoMoreSessions(u, changePassword(u))
           /\ NoMoreSessions(u, enableMfa(u))
           /\ NoMoreSessions(u, disableMfa(u))
           /\ NoMoreSessions(u, scheduleDeletion(u, t))
BY DEF NoMoreSessions, CreateBranch, clearExpiredLock, handleFailedLogin, resetFailedLogins,
       verifyEmail, confirmEmailChange, updatePassword, changePassword, enableMfa, disableMfa,
       scheduleDeletion, User

LEMMA MethodSessionsOf ==
    ASSUME NEW u \in User, NEW t \in Nat, NEW n
    PROVE  /\ NoMoreSessions(u, refreshVerificationToken(u, n, t))
           /\ \A e : NoMoreSessions(u, requestEmailChange(u, e, n, t))
           /\ NoMoreSessions(u, setResetToken(u, n, t))
           /\ NoMoreSessions(u, initiateMfaSetup(u, n))
           /\ \A p : NoMoreSessions(u, linkOAuthAccount(u, p))
           /\ \A p : NoMoreSessions(u, unlinkOAuthProvider(u, p))
BY DEF NoMoreSessions, refreshVerificationToken, requestEmailChange, setResetToken,
       initiateMfaSetup, linkOAuthAccount, unlinkOAuthProvider, User

LEMMA RevokeSessions ==
    ASSUME NEW u \in User, NEW t \in Nat, NEW S
    PROVE  NoMoreSessions(u, RevokeIn(u, S, t))
BY DEF NoMoreSessions, RevokeIn, IsValid, User

LEMMA RotateSessions ==
    ASSUME NEW u \in User, NEW sid, NEW n
    PROVE  NoMoreSessions(u, rotateToken(u, sid, n))
<1>1. /\ rotateToken(u, sid, n).isVerified = u.isVerified
      /\ rotateToken(u, sid, n).torn = u.torn
    BY DEF rotateToken, User
<1>2. ASSUME NEW s \in SessionIds
      PROVE  rotateToken(u, sid, n).sessions[s].state = u.sessions[s].state
    BY DEF rotateToken, User, Session
<1> QED
    BY <1>1, <1>2 DEF NoMoreSessions

LEMMA VerifiedBegin ==
    ASSUME TypeOK, Verified, NEW r \in Requests, NEW op, NEW u, NEW sid, NEW n,
           Begin(r, op, u, sid, n), u \in {db, NoUser}, op # "oauthLinked"
    PROVE  Verified'
<1> DEFINE q == [op |-> op, user |-> u, sid |-> sid, arg |-> n]
<1>1. VerifiedAt(q.user) /\ q.op # "oauthLinked"
    BY NoUserVerified DEF Verified
<1>2. req' = [req EXCEPT ![r] = q] /\ db' = db
    BY DEF Begin
<1> HIDE DEF q
<1> QED
    BY <1>1, <1>2 DEF Verified, TypeOK

LEMMA VerifiedReadLater ==
    ASSUME TypeOK, Verified, NEW r \in Requests, ReadLater(r) PROVE Verified'
<1>1. PICK q \in Request : /\ req' = [req EXCEPT ![r] = q] /\ q.op = req[r].op
                           /\ q.user = db \/ q.user.torn
    BY ReadLaterStep
<1>2. db' = db /\ VerifiedAt(db)
    BY ReadLaterStep DEF Verified
<1>3. VerifiedAt(q.user) /\ q.op # "oauthLinked"
    BY <1>1, <1>2 DEF Verified, VerifiedAt
<1> QED
    BY <1>1, <1>2, <1>3 DEF Verified, TypeOK

LEMMA VerifiedSave ==
    ASSUME TypeOK, Verified, NEW r \in Requests, NEW u \in User, VerifiedAt(u), Save(r, u)
    PROVE  Verified'
<1>1. VerifiedAt(db')
    BY MethodSessions, VerifiedFrame DEF Save, TypeOK
<1>2. req' = [req EXCEPT ![r] = Idle]
    BY DEF Save
<1> QED
    BY <1>1, <1>2, NoUserVerified DEF Verified, TypeOK

\* A session is opened on a verified account only.
LEMMA VerifiedOpenSession ==
    ASSUME TypeOK, Verified, NEW r \in Requests, NEW u \in User, u.isVerified, OpenSession(r, u)
    PROVE  Verified'
<1>1. PICK sid \in SessionIds : Save(r, addSession(u, sid, now))
    BY DEF OpenSession
<1>2. addSession(u, sid, now) \in User
    BY SessionType DEF TypeOK
<1>3. VerifiedAt(addSession(u, sid, now))
    BY DEF VerifiedAt, addSession, User
<1> QED
    BY <1>1, <1>2, <1>3, VerifiedSave

LEMMA CopyVerified ==
    ASSUME TypeOK, Verified, NEW r \in Requests
    PROVE  /\ req[r].user \in User /\ VerifiedAt(req[r].user)
           /\ db \in User /\ now \in Nat /\ draws + 1 \in Nat
BY CopyType DEF Verified, TypeOK

\* What a request saves is its copy, changed by methods that open no session.
LEMMA VerifiedSaveOf ==
    ASSUME TypeOK, Verified, NEW r \in Requests, NEW v \in User,
           NoMoreSessions(req[r].user, v), Save(r, v)
    PROVE  Verified'
BY CopyVerified, VerifiedFrame, VerifiedSave

LEMMA SignInKeepsVerified ==
    ASSUME TypeOK, Verified, OnlyCheckedLogins, NEW r \in Requests, SignIn(r) PROVE Verified'
<1> DEFINE u == req[r].user
<1>u. u \in User /\ db \in User /\ now \in Nat
    BY CopyVerified
<1>1. CASE LoginLoad(r)
    BY <1>1, VerifiedBegin DEF LoginLoad
<1>2. CASE WrongPassword(r)
  <2> DEFINE v == clearExpiredLock(u, now)
             w == handleFailedLogin(v, now)
  <2>1. v \in User /\ w \in User
      BY <1>u, FailedLoginType
  <2>2. NoMoreSessions(u, v) /\ NoMoreSessions(v, w)
      BY <1>u, <2>1, MethodSessions
  <2>3. NoMoreSessions(u, w)
      BY <2>2 DEF NoMoreSessions
  <2> QED
      BY <1>2, <2>1, <2>3, VerifiedSaveOf DEF WrongPassword, SaveOnly
<1>3. CASE RightPassword(r)
  <2> DEFINE v == resetFailedLogins(u)
  <2>1. v \in User /\ NoMoreSessions(u, v)
      BY <1>u, FailedLoginType, MethodSessions
  <2>2. Save(r, v) \/ (v.isVerified /\ OpenSession(r, v))
      BY <1>3 DEF RightPassword, SaveOnly
  <2> QED
      BY <2>1, <2>2, VerifiedSaveOf, VerifiedOpenSession
<1>4. req[r].op \in UseCases \cup {"idle"}
    BY DEF TypeOK, Request, Verified
<1>5. CASE \/ MfaLoginSave(r) \/ OAuthLoginSave(r) \/ OAuthLoginChallenge(r)
           \/ OAuthAutoLinkSave(r) \/ OAuthLinkedSave(r)
    BY <1>4, <1>5 DEF MfaLoginSave, OAuthLoginSave, OAuthLoginChallenge, OAuthAutoLinkSave,
                      OAuthLinkedSave, OnlyCheckedLogins, Verified
<1>6. CASE MfaLoginLoad(r) \/ OAuthLoginLoad(r) \/ OAuthAutoLinkLoad(r)
    BY <1>6 DEF MfaLoginLoad, OAuthLoginLoad, OAuthAutoLinkLoad, Begin, OnlyCheckedLogins
<1> QED
    BY <1>1, <1>2, <1>3, <1>5, <1>6 DEF SignIn

LEMMA ManageSessionsKeepsVerified ==
    ASSUME TypeOK, Verified, NEW r \in Requests, ManageSessions(r) PROVE Verified'
<1> DEFINE u == req[r].user
           sid == req[r].sid
           v == rotateToken(u, sid, handed[sid] + 1)
<1>u. u \in User /\ now \in Nat
    BY CopyVerified
<1>1. CASE RefreshLoad(r) \/ LogoutLoad(r) \/ RevokeSessionLoad(r) \/ RevokeOthersLoad(r)
    BY <1>1, VerifiedBegin
       DEF RefreshLoad, LogoutLoad, RevokeSessionLoad, RevokeOthersLoad
<1>2. \A S : RevokeIn(u, S, now) \in User /\ NoMoreSessions(u, RevokeIn(u, S, now))
    BY <1>u, RevokeType, RevokeSessions
<1>3. CASE LogoutSave(r) \/ RevokeSessionSave(r) \/ RevokeOthersSave(r)
    BY <1>2, <1>3, VerifiedSaveOf
       DEF LogoutSave, RevokeSessionSave, RevokeOthersSave, SaveOnly, revokeSession,
           revokeAllOtherSessions
<1>4. NoMoreSessions(u, v)
    BY <1>u, RotateSessions
<1>5. v \in User
  <2>1. CASE sid \in SessionIds
      BY <1>u, <2>1, SessionType DEF TypeOK
  <2>2. CASE sid \notin SessionIds
      BY <1>u, <2>2 DEF rotateToken, User
  <2> QED
      BY <2>1, <2>2
<1>6. CASE RefreshSave(r)
  <2>1. CASE Save(r, revokeAllSessions(u, now))
      BY <1>2, <2>1, VerifiedSaveOf DEF revokeAllSessions
  <2>2. CASE Save(r, v)
      BY <1>4, <1>5, <2>2, VerifiedSaveOf
  <2> QED
      BY <1>6, <2>1, <2>2 DEF RefreshSave, SaveOnly
<1> QED
    BY <1>1, <1>3, <1>6 DEF ManageSessions

LEMMA ManageCredentialsKeepsVerified ==
    ASSUME TypeOK, Verified, NEW r \in Requests, ManageCredentials(r) PROVE Verified'
<1> DEFINE u == req[r].user
<1>u. u \in User /\ db \in User /\ now \in Nat /\ draws + 1 \in Nat
    BY CopyVerified
<1>1. CASE ChangePasswordLoad(r) \/ ForgotPasswordLoad(r) \/ ResetPasswordLoad(r)
           \/ InitiateMfaLoad(r) \/ DisableMfaLoad(r) \/ LinkOAuthLoad(r) \/ UnlinkOAuthLoad(r)
           \/ SetInitialPasswordLoad(r) \/ EnableMfaLoad(r)
    BY <1>1, VerifiedBegin
       DEF ChangePasswordLoad, ForgotPasswordLoad, ResetPasswordLoad, InitiateMfaLoad,
           DisableMfaLoad, LinkOAuthLoad, UnlinkOAuthLoad, SetInitialPasswordLoad,
           EnableMfaLoad
<1>2. CASE ChangePasswordSave(r) \/ SetInitialPasswordSave(r) \/ ResetPasswordSave(r)
  <2> DEFINE v == updatePassword(u)
             w == changePassword(u)
  <2>1. v \in User /\ w \in User /\ NoMoreSessions(u, v) /\ NoMoreSessions(u, w)
      BY <1>u, PasswordType, MethodSessions
  <2>2. VerifiedAt(v) /\ VerifiedAt(w)
      BY <2>1, CopyVerified, VerifiedFrame
  <2>3. \A S : /\ RevokeIn(v, S, now) \in User /\ VerifiedAt(RevokeIn(v, S, now))
               /\ RevokeIn(w, S, now) \in User /\ VerifiedAt(RevokeIn(w, S, now))
      BY <1>u, <2>1, <2>2, RevokeType, RevokeSessions, VerifiedFrame
  <2>4. Save(r, v) \/ \E S : Save(r, RevokeIn(v, S, now)) \/ Save(r, RevokeIn(w, S, now))
      BY <1>2 DEF ChangePasswordSave, SetInitialPasswordSave, ResetPasswordSave, SaveOnly,
                  revokeAllSessions, revokeAllOtherSessions
  <2> QED
      BY <2>1, <2>2, <2>3, <2>4, VerifiedSave
<1>3. CASE ForgotPasswordSave(r) \/ InitiateMfaSave(r)
    BY <1>3, <1>u, PasswordType, MfaType, MethodSessionsOf, VerifiedSaveOf
       DEF ForgotPasswordSave, InitiateMfaSave, SaveWithDraw
<1>4. CASE EnableMfaSave(r) \/ DisableMfaSave(r)
    BY <1>4, <1>u, MfaType, MethodSessions, VerifiedSaveOf
       DEF EnableMfaSave, DisableMfaSave, SaveOnly
<1>5. CASE LinkOAuthSave(r) \/ UnlinkOAuthSave(r)
    BY <1>5, <1>u, OAuthType, MethodSessionsOf, VerifiedSaveOf
       DEF LinkOAuthSave, UnlinkOAuthSave, SaveOnly
<1> QED
    BY <1>1, <1>2, <1>3, <1>4, <1>5 DEF ManageCredentials

LEMMA ManageAccountKeepsVerified ==
    ASSUME TypeOK, Verified, OnlyCheckedLogins, NEW r \in Requests, ManageAccount(r)
    PROVE  Verified'
<1> DEFINE u == req[r].user
<1>u. u \in User /\ now \in Nat /\ draws + 1 \in Nat
    BY CopyVerified
<1>1. CASE VerifyEmailLoad(r) \/ RequestEmailChangeLoad(r) \/ ConfirmEmailChangeLoad(r)
           \/ UpdateAccountLoad(r) \/ ResendVerificationLoad(r)
           \/ UploadAvatarLoad(r) \/ RemoveAvatarLoad(r) \/ ScheduleDeletionLoad(r)
           \/ RestoreLoad(r) \/ DeleteAccountLoad(r) \/ HardDeletionLoad(r)
    BY <1>1, VerifiedBegin
       DEF VerifyEmailLoad, RequestEmailChangeLoad, ConfirmEmailChangeLoad, UpdateAccountLoad,
           ResendVerificationLoad, UploadAvatarLoad, RemoveAvatarLoad,
           ScheduleDeletionLoad, RestoreLoad, DeleteAccountLoad, HardDeletionLoad
<1>2. CASE VerifyEmailSave(r)
  <2>1. verifyEmail(u) \in User /\ verifyEmail(u).isVerified
      BY <1>u, EmailType DEF verifyEmail, User
  <2> QED
      BY <1>2, <2>1, VerifiedOpenSession DEF VerifyEmailSave
<1>3. CASE ResendVerificationSave(r)
    BY <1>3, <1>u, EmailType, MethodSessionsOf, VerifiedSaveOf
       DEF ResendVerificationSave, SaveWithDraw
<1>4. CASE RequestEmailChangeSave(r)
    BY <1>4, <1>u, EmailChangeType, MethodSessionsOf, VerifiedSaveOf
       DEF RequestEmailChangeSave, SaveWithDraw
<1>5. CASE ConfirmEmailChangeSave(r)
    BY <1>5, <1>u, EmailType, MethodSessions, VerifiedSaveOf DEF ConfirmEmailChangeSave
<1>6. CASE UpdateAccountSave(r) \/ UploadAvatarSave(r) \/ RemoveAvatarSave(r)
    BY <1>6, CopyVerified, VerifiedSave
       DEF UpdateAccountSave, UploadAvatarSave, RemoveAvatarSave, SaveOnly
<1>7. CASE ScheduleDeletionSave(r)
    BY <1>7, <1>u, DeletionType, MethodSessions, VerifiedSaveOf
       DEF ScheduleDeletionSave, SaveOnly
<1>8. CASE RestoreSave(r)
    BY <1>8 DEF RestoreSave, OnlyCheckedLogins, TypeOK, Request
<1>9. CASE DeleteAccountDelete(r) \/ HardDeletionDelete(r)
    BY <1>9, NoUserVerified
       DEF DeleteAccountDelete, HardDeletionDelete, DeleteRow, Verified, TypeOK
<1> QED
    BY <1>1, <1>2, <1>3, <1>4, <1>5, <1>6, <1>7, <1>8, <1>9 DEF ManageAccount

\* Where only password logins and verifications open sessions, no account has a session
\* before its address is verified, unless the row was saved from a copy that had its User
\* row from before a verification and its sessions from after it.
THEOREM VerifiedInvariant ==
    ASSUME OnlyCheckedLogins PROVE Spec => []SessionsNeedVerifiedEmail
<1>1. Init => Verified
    BY FactoryVerified, NoUserVerified DEF Init, Verified
<1>2. TypeOK /\ Verified /\ [Next]_vars => Verified'
  <2> SUFFICES ASSUME TypeOK, Verified, [Next]_vars PROVE Verified'
      OBVIOUS
  <2>1. ASSUME NEW r \in Requests, SignIn(r) \/ ManageSessions(r) PROVE Verified'
      BY <2>1, SignInKeepsVerified, ManageSessionsKeepsVerified
  <2>2. ASSUME NEW r \in Requests, ManageCredentials(r) \/ ManageAccount(r) PROVE Verified'
      BY <2>2, ManageCredentialsKeepsVerified, ManageAccountKeepsVerified
  <2>3. ASSUME NEW r \in Requests, Fail(r) PROVE Verified'
      BY <2>3, NoUserVerified DEF Fail, Verified, TypeOK
  <2>4. ASSUME NEW r \in Requests, ReadLater(r) PROVE Verified'
      BY <2>4, VerifiedReadLater
  <2>5. CASE CleanExpiredSessions
    <3>1. NoMoreSessions(db, db')
        BY <2>5 DEF CleanExpiredSessions, NoMoreSessions, NoSession, TypeOK, User
    <3>2. VerifiedAt(db')
        BY <3>1, VerifiedFrame DEF Verified
    <3> QED
        BY <2>5, <3>2 DEF CleanExpiredSessions, Verified
  <2>6. CASE Tick
      BY <2>6 DEF Tick, Verified
  <2>7. CASE UNCHANGED vars
      BY <2>7 DEF vars, Verified
  <2> QED
      BY <2>1, <2>2, <2>3, <2>4, <2>5, <2>6, <2>7 DEF Next
<1>3. Verified => SessionsNeedVerifiedEmail
    BY DEF Verified, VerifiedAt, SessionsNeedVerifiedEmail
<1> QED
    BY <1>1, <1>2, <1>3, TypeInvariant, PTL DEF Spec

=============================================================================
