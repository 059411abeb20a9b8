--------------------------- MODULE AccountSerialProofs ---------------------------
(***************************************************************************)
(* What the use cases promise as long as requests for one account do not    *)
(* overlap: one-time tokens and codes are accepted once, sessions close for *)
(* good, an account is deleted only when it is due, and every wrong password *)
(* counts.  A copy in flight is then the row: nobody saves between its       *)
(* SELECTs or after them, and only the purge of sessions comes in between.   *)
(* The runs RevokedRevived, FailureLost and BackupCodeTwice show that the    *)
(* assumption is needed.                                                     *)
(***************************************************************************)
EXTENDS AccountRequestsProofs

\* There is one slot.  The clock and the purge of sessions go on while it is taken.
OneAtATime == \A r1, r2 \in Requests : r1 = r2

-----------------------------------------------------------------------------
(* The invariant.                                                           *)

OpenIn(u, s, t) == u.sessions[s].state = "active" /\ t < u.sessions[s].expiresAt

SameFields(u, v) ==
    /\ v.present = u.present
    /\ v.scheduledForDeletionAt = u.scheduledForDeletionAt
    /\ v.verification = u.verification
    /\ v.reset = u.reset
    /\ v.mfa = u.mfa

\* A request that accepts a token was asked with one, and one that refreshes was handed
\* a token of its session.
FoundAt(q, h) ==
    /\ q.op \in {"resetPassword", "verifyEmail", "confirmEmailChange"} => q.arg # 0
    /\ q.op = "refresh" => q.sid \in SessionIds /\ h[q.sid] # 0

DueAt(d, t) == d.scheduledForDeletionAt # 0 /\ d.scheduledForDeletionAt <= t

\* The sessions of a copy are those of the row, apart from the ones purged since.
SameSessions(d, u, t, h) ==
    \A s \in SessionIds :
        \/ u.sessions[s] = d.sessions[s]
        \/ /\ d.sessions[s].state = "absent"
           /\ u.sessions[s].expiresAt <= t
           /\ h[s] # 0

\* The requests that hold a copy.  A deletion holds none.
Holds(q) == q.op \notin {"idle", "deleteAccount", "hardDeletion"}

\* A copy in flight is the row.
CopyAt(q, d, t, h) ==
    /\ q.op # "idle" => d.present
    /\ q.op = "hardDeletion" => DueAt(d, t)
    /\ Holds(q) =>
          /\ SameFields(d, q.user)
          /\ SameSessions(d, q.user, t, h)
          /\ q.user.failed = d.failed
          /\ FoundAt(q, h)

\* The tokens and codes that the row offers have not been accepted.
Outstanding(u, acc, n) ==
    /\ u.verification.id <= n /\ u.reset.id <= n
    /\ u.mfa.secret <= n /\ u.mfa.pendingSecret <= n
    /\ u.verification.id # 0 =>
          <<u.verification.id, 0, 1>> \notin acc /\ u.verification.id # u.reset.id
    /\ u.reset.id # 0 => <<u.reset.id, 0, 1>> \notin acc
    /\ \A c \in u.mfa.backupCodes : <<u.mfa.secret, c, 1>> \notin acc
    /\ u.mfa.pendingSecret # 0 =>
          /\ u.mfa.pendingSecret # u.mfa.secret
          /\ \A c \in BackupCodes : <<u.mfa.pendingSecret, c, 1>> \notin acc

Once(acc, n) == \A x \in acc : x[1] <= n /\ x[3] = 1

Unopened(u, h) == \A s \in SessionIds : h[s] = 0 => u.sessions[s].state = "absent"

ChallengedAt(u, t, c) ==
    /\ c <= t + ChallengeTtl
    /\ u.scheduledForDeletionAt # 0 =>
          c <= u.scheduledForDeletionAt - GracePeriod + ChallengeTtl

SerialInv ==
    /\ \A r \in Requests : CopyAt(req[r], db, now, handed)
    /\ Outstanding(db, accepted, draws)
    /\ Once(accepted, draws)
    /\ Unopened(db, handed)
    /\ ChallengedAt(db, now, challenge)

\* A step closes sessions, or opens one that was never used.
SameUse(s) == handed'[s] = 0 <=> handed[s] = 0
OpensOne(sid) ==
    /\ handed[sid] = 0 /\ handed'[sid] # 0 /\ IsOpen(sid)'
    /\ \A s \in SessionIds \ {sid} : SameUse(s) /\ (IsOpen(s)' <=> IsOpen(s))
SessionStep ==
    \/ \A s \in SessionIds : SameUse(s) /\ (IsOpen(s)' => IsOpen(s))
    \/ \E sid \in SessionIds : OpensOne(sid)

DueDeletion ==
    db.present /\ ~db'.present =>
        \/ \E r \in Requests : req[r].op = "deleteAccount" /\ req'[r].op = "idle"
        \/ db.scheduledForDeletionAt # 0 /\ db.scheduledForDeletionAt <= now

SerialStep == SerialInv' /\ SessionStep /\ DueDeletion

-----------------------------------------------------------------------------
(* Copies.                                                                  *)

USE DEF Holds

LEMMA TypeFacts ==
    ASSUME TypeOK
    PROVE  /\ db \in User /\ now \in Nat /\ draws \in Nat /\ challenge \in Nat
           /\ handed \in [SessionIds -> Nat] /\ req \in [Requests -> Request]
           /\ accepted \subseteq Nat \X Nat \X {1, 2}
BY DEF TypeOK

LEMMA UserFacts ==
    ASSUME NEW u \in User
    PROVE  /\ u.verification \in Token /\ u.reset \in Token
           /\ u.verification.id \in Nat /\ u.reset.id \in Nat
           /\ u.mfa.secret \in Nat /\ u.mfa.pendingSecret \in Nat
           /\ u.mfa.backupCodes \in SUBSET BackupCodes
           /\ u.scheduledForDeletionAt \in Nat
           /\ u.sessions \in [SessionIds -> Session]
           /\ \A s \in SessionIds : u.sessions[s].expiresAt \in Nat
BY DEF User, Token, MfaConfiguration, Session

LEMMA OutstandingFrame ==
    ASSUME NEW u, NEW v, NEW acc, NEW n, Outstanding(u, acc, n), SameFields(u, v)
    PROVE  Outstanding(v, acc, n)
BY DEF Outstanding, SameFields

\* What a request in flight knows of its copy.
LEMMA CopyFacts ==
    ASSUME TypeOK, SerialInv, NEW r \in Requests, Holds(req[r])
    PROVE  /\ req[r].user \in User /\ db.present /\ req[r].user.present
           /\ SameFields(db, req[r].user)
           /\ Outstanding(req[r].user, accepted, draws)
           /\ Unopened(req[r].user, handed)
           /\ \A s \in SessionIds : OpenIn(req[r].user, s, now) <=> OpenIn(db, s, now)
           /\ FoundAt(req[r], handed)
<1> DEFINE u == req[r].user
<1>1. /\ db.present /\ SameFields(db, u) /\ SameSessions(db, u, now, handed)
      /\ FoundAt(req[r], handed)
    BY DEF SerialInv, CopyAt
<1>2. u \in User /\ db \in User /\ now \in Nat
    BY CopyType, TypeFacts
<1>3. u.present /\ Outstanding(u, accepted, draws)
    BY <1>1, OutstandingFrame DEF SameFields, SerialInv
<1>4. Unopened(u, handed)
    BY <1>1 DEF SameSessions, Unopened, SerialInv
<1>5. ASSUME NEW s \in SessionIds PROVE OpenIn(u, s, now) <=> OpenIn(db, s, now)
  <2>1. u.sessions[s].expiresAt \in Nat
      BY <1>2, UserFacts
  <2> QED
      BY <1>1, <1>2, <2>1 DEF SameSessions, OpenIn
<1> QED
    BY <1>1, <1>2, <1>3, <1>4, <1>5

\* While nothing is in flight, nobody holds a copy.
LEMMA IdleCopy == \A d, t, h : CopyAt(Idle, d, t, h)
BY DEF CopyAt, Idle

-----------------------------------------------------------------------------
(* The parts of the actions.                                                *)

\* Nothing is closed or opened, and the account is what it was.
LEMMA StillStep ==
    ASSUME TypeOK, UNCHANGED <<db, now, handed>>
    PROVE  SessionStep /\ DueDeletion
BY DEF SessionStep, SameUse, IsOpen, DueDeletion

LEMMA SerialBeginCopy ==
    ASSUME TypeOK, SerialInv, NEW r \in Requests, NEW op, NEW u, NEW sid, NEW n,
           Begin(r, op, u, sid, n),
           CopyAt([op |-> op, user |-> u, sid |-> sid, arg |-> n], db, now, handed)
    PROVE  SerialStep
<1> DEFINE q == [op |-> op, user |-> u, sid |-> sid, arg |-> n]
<1>1. CopyAt(q, db, now, handed)
    OBVIOUS
<1>2. req' = [req EXCEPT ![r] = q]
      /\ UNCHANGED <<db, now, draws, handed, access, challenge, accepted>>
    BY DEF Begin
<1> HIDE DEF q
<1>3. SerialInv'
    BY <1>1, <1>2 DEF SerialInv, TypeOK
<1> QED
    BY <1>2, <1>3, StillStep DEF SerialStep

\* A request that loads the row as it is.
LEMMA SerialBegin ==
    ASSUME TypeOK, SerialInv, NEW r \in Requests, NEW op, NEW sid, NEW n,
           op \notin {"deleteAccount", "hardDeletion"}, Begin(r, op, db, sid, n),
           FoundAt([op |-> op, user |-> db, sid |-> sid, arg |-> n], handed)
    PROVE  SerialStep
<1>1. CopyAt([op |-> op, user |-> db, sid |-> sid, arg |-> n], db, now, handed)
    BY DEF CopyAt, SameFields, SameSessions, Begin
<1> QED
    BY <1>1, SerialBeginCopy

\* A deletion, which holds no copy.
LEMMA SerialBeginDeletion ==
    ASSUME TypeOK, SerialInv, NEW r \in Requests, NEW op,
           op \in {"deleteAccount", "hardDeletion"}, Begin(r, op, NoUser, NoId, 0),
           op = "hardDeletion" => DueAt(db, now)
    PROVE  SerialStep
<1>1. CopyAt([op |-> op, user |-> NoUser, sid |-> NoId, arg |-> 0], db, now, handed)
    BY DEF CopyAt, Holds, Begin
<1> QED
    BY <1>1, SerialBeginCopy

\* When the only request saves, none is in flight.
LEMMA SaveEnds ==
    ASSUME TypeOK, OneAtATime, SerialInv, NEW r \in Requests, NEW v, Save(r, v),
           Holds(req[r])
    PROVE  /\ db' = v /\ now' = now /\ db.present
           /\ \A k \in Requests : CopyAt(req'[k], db', now', handed')
<1>1. db.present
    BY CopyFacts
<1>2. \A k \in Requests : req'[k] = Idle
    BY DEF Save, TypeOK, OneAtATime
<1> QED
    BY <1>1, <1>2, IdleCopy DEF Save

\* What a save may do to the date of the deletion and to the challenges handed out.
DateKept(v) ==
    \/ v.scheduledForDeletionAt = db.scheduledForDeletionAt
    \/ v.scheduledForDeletionAt = 0
    \/ v.scheduledForDeletionAt = now + GracePeriod
ChallengeKept(v) ==
    \/ challenge' = challenge
    \/ challenge' = now + ChallengeTtl /\ v.scheduledForDeletionAt = 0

LEMMA ChallengeStep ==
    ASSUME TypeOK, SerialInv, NEW v, DateKept(v), ChallengeKept(v)
    PROVE  ChallengedAt(v, now, challenge')
<1>1. ChallengedAt(db, now, challenge)
    BY DEF SerialInv
<1>2. /\ now \in Nat /\ challenge \in Nat /\ db.scheduledForDeletionAt \in Nat
      /\ GracePeriod \in Nat /\ ChallengeTtl \in Nat
    BY TypeFacts, UserFacts, TtlAssumption, DurationAssumption
<1>3. challenge' <= now + ChallengeTtl
    BY <1>1, <1>2 DEF ChallengedAt, ChallengeKept
<1>4. ASSUME v.scheduledForDeletionAt # 0
      PROVE  challenge' <= v.scheduledForDeletionAt - GracePeriod + ChallengeTtl
  <2>1. challenge' = challenge
      BY <1>4 DEF ChallengeKept
  <2>2. CASE v.scheduledForDeletionAt = db.scheduledForDeletionAt
      BY <1>1, <1>4, <2>1, <2>2 DEF ChallengedAt
  <2>3. CASE v.scheduledForDeletionAt = now + GracePeriod
      BY <1>2, <1>3, <2>3
  <2> QED
      BY <1>4, <2>2, <2>3 DEF DateKept
<1> QED
    BY <1>3, <1>4 DEF ChallengedAt

\* v has no open session that u has not, and no session that u has not.
Closing(u, v) ==
    \A s \in SessionIds :
        /\ OpenIn(v, s, now) => OpenIn(u, s, now)
        /\ u.sessions[s].state = "absent" => v.sessions[s].state = "absent"

\* A save that opens no session.
LEMMA QuietSave ==
    ASSUME TypeOK, OneAtATime, SerialInv, NEW r \in Requests, NEW v, Save(r, v),
           Holds(req[r]), v.present, Closing(req[r].user, v),
           \A s \in SessionIds : SameUse(s),
           DateKept(v), ChallengeKept(v),
           Outstanding(v, accepted', draws'), Once(accepted', draws')
    PROVE  SerialStep
<1>1. /\ db' = v /\ now' = now /\ db.present
      /\ \A k \in Requests : CopyAt(req'[k], db', now', handed')
    BY SaveEnds
<1>2. Unopened(v, handed')
    BY CopyFacts DEF Unopened, Closing, SameUse
<1>3. SerialInv'
    BY <1>1, <1>2, ChallengeStep DEF SerialInv
<1>4. SessionStep
    BY <1>1, CopyFacts DEF SessionStep, Closing, IsOpen, OpenIn
<1> QED
    BY <1>1, <1>3, <1>4 DEF SerialStep, DueDeletion

\* A save that opens one.
LEMMA OpeningSave ==
    ASSUME TypeOK, OneAtATime, SerialInv, NEW r \in Requests, NEW w \in User,
           OpenSession(r, w), Holds(req[r]), w.present,
           w.sessions = req[r].user.sessions, DateKept(w),
           Outstanding(w, accepted', draws), Once(accepted', draws)
    PROVE  SerialStep
<1>1. PICK sid \in SessionIds : /\ handed[sid] = 0
                              /\ Save(r, addSession(w, sid, now)) /\ HandOut(sid, 1)
    BY DEF OpenSession
<1> DEFINE v == addSession(w, sid, now)
<1>2. /\ SameFields(w, v)
      /\ v.sessions[sid].state = "active" /\ v.sessions[sid].expiresAt = now + SessionTtl
      /\ \A s \in SessionIds \ {sid} : v.sessions[s] = w.sessions[s]
    BY UserFacts DEF addSession, SameFields, User
<1> HIDE DEF v
<1>3. /\ db' = v /\ now' = now /\ db.present
      /\ \A k \in Requests : CopyAt(req'[k], db', now', handed')
    BY <1>1, SaveEnds DEF v
<1>4. handed'[sid] = 1 /\ \A s \in SessionIds \ {sid} : handed'[s] = handed[s]
    BY <1>1, TypeFacts DEF HandOut
<1>5. draws' = draws /\ challenge' = challenge
    BY DEF OpenSession
<1>6. Outstanding(v, accepted', draws')
    BY <1>2, <1>5, OutstandingFrame
<1>7. Unopened(v, handed')
    BY <1>2, <1>4, CopyFacts DEF Unopened
<1>8. ChallengedAt(v, now, challenge')
    BY <1>2, <1>5, ChallengeStep DEF SameFields, DateKept, ChallengeKept
<1>9. SerialInv'
    BY <1>3, <1>5, <1>6, <1>7, <1>8 DEF SerialInv
<1>10. OpensOne(sid)
  <2>1. IsOpen(sid)'
      BY <1>2, <1>3, TypeFacts, DurationAssumption DEF IsOpen
  <2>2. \A s \in SessionIds \ {sid} : IsOpen(s)' <=> IsOpen(s)
      BY <1>2, <1>3, CopyFacts DEF IsOpen, OpenIn
  <2> QED
      BY <1>1, <1>4, <2>1, <2>2 DEF OpensOne, SameUse
<1>11. v.present
    BY <1>2 DEF SameFields
<1> QED
    BY <1>3, <1>9, <1>10, <1>11 DEF SerialStep, SessionStep, DueDeletion

-----------------------------------------------------------------------------
(* The methods of the aggregate.                                            *)

\* Methods that leave tokens, codes and the date alone.
LEMMA FieldsKept ==
    ASSUME NEW u \in User
    PROVE  /\ \A t : SameFields(u, handleFailedLogin(u, t))
           /\ \A t : SameFields(u, clearExpiredLock(u, t))
           /\ SameFields(u, resetFailedLogins(u))
           /\ \A sid, n : SameFields(u, rotateToken(u, sid, n))
           /\ \A S, t : SameFields(u, RevokeIn(u, S, t))
           /\ SameFields(u, updatePassword(u))
           /\ \A p : SameFields(u, linkOAuthAccount(u, p))
           /\ \A p : SameFields(u, unlinkOAuthProvider(u, p))
           /\ SameFields(u, u)
BY DEF SameFields, handleFailedLogin, clearExpiredLock, resetFailedLogins, rotateToken,
       RevokeIn, updatePassword, linkOAuthAccount, unlinkOAuthProvider, User

\* Methods that leave the sessions alone.
LEMMA SessionsKept ==
    ASSUME NEW u \in User
    PROVE  /\ \A t : handleFailedLogin(u, t).sessions = u.sessions
           /\ \A t : clearExpiredLock(u, t).sessions = u.sessions
           /\ resetFailedLogins(u).sessions = u.sessions
           /\ updatePassword(u).sessions = u.sessions
           /\ changePassword(u).sessions = u.sessions
           /\ \A p : linkOAuthAccount(u, p).sessions = u.sessions
           /\ \A p : unlinkOAuthProvider(u, p).sessions = u.sessions
           /\ \A n, t : setResetToken(u, n, t).sessions = u.sessions
           /\ \A n : initiateMfaSetup(u, n).sessions = u.sessions
           /\ enableMfa(u).sessions = u.sessions
           /\ disableMfa(u).sessions = u.sessions
           /\ \A c : consumeMfaBackupCode(u, c).sessions = u.sessions
BY DEF handleFailedLogin, clearExpiredLock, resetFailedLogins, updatePassword,
       changePassword, linkOAuthAccount, unlinkOAuthProvider, setResetToken,
       initiateMfaSetup, enableMfa, disableMfa, consumeMfaBackupCode, User

LEMMA SessionsKeptToo ==
    ASSUME NEW u \in User
    PROVE  /\ verifyEmail(u).sessions = u.sessions
           /\ \A n, t : refreshVerificationToken(u, n, t).sessions = u.sessions
           /\ \A e, n, t : requestEmailChange(u, e, n, t).sessions = u.sessions
           /\ confirmEmailChange(u).sessions = u.sessions
           /\ \A t : scheduleDeletion(u, t).sessions = u.sessions
           /\ cancelDeletion(u).sessions = u.sessions
BY DEF verifyEmail, refreshVerificationToken, requestEmailChange, confirmEmailChange,
       scheduleDeletion, cancelDeletion, User

LEMMA KeptCloses ==
    ASSUME NEW u, NEW v, v.sessions = u.sessions PROVE Closing(u, v)
BY DEF Closing, OpenIn

\* Revoking closes, rotating changes neither state nor date.
LEMMA RevokeCloses ==
    ASSUME NEW u \in User, NEW v \in User, v.sessions = u.sessions, NEW S
    PROVE  Closing(u, RevokeIn(v, S, now))
<1>1. ASSUME NEW s \in SessionIds
      PROVE  \/ RevokeIn(v, S, now).sessions[s] = v.sessions[s]
             \/ /\ RevokeIn(v, S, now).sessions[s].state = "revoked"
                /\ v.sessions[s].state = "active"
  <2>1. v.sessions[s] \in Session
      BY UserFacts
  <2>2. RevokeIn(v, S, now).sessions[s] =
            IF s \in S /\ IsValid(v.sessions[s], now)
            THEN [v.sessions[s] EXCEPT !.state = "revoked"] ELSE v.sessions[s]
      BY DEF RevokeIn, User
  <2> QED
      BY <2>1, <2>2 DEF IsValid, Session
<1> QED
    BY <1>1 DEF Closing, OpenIn

LEMMA RotateCloses ==
    ASSUME NEW u \in User, NEW sid, NEW n
    PROVE  Closing(u, rotateToken(u, sid, n))
<1>1. ASSUME NEW s \in SessionIds
      PROVE  /\ rotateToken(u, sid, n).sessions[s].state = u.sessions[s].state
             /\ rotateToken(u, sid, n).sessions[s].expiresAt = u.sessions[s].expiresAt
    BY DEF rotateToken, User, Session
<1> QED
    BY <1>1 DEF Closing, OpenIn

-----------------------------------------------------------------------------
(* Tokens and codes.                                                        *)

\* The account is there and its deletion is due when it was.
SameLife(u, v) ==
    v.present = u.present /\ v.scheduledForDeletionAt = u.scheduledForDeletionAt

LEMMA LifeKept ==
    ASSUME NEW u \in User
    PROVE  /\ \A n, t : SameLife(u, setResetToken(u, n, t))
           /\ SameLife(u, changePassword(u))
           /\ \A n : SameLife(u, initiateMfaSetup(u, n))
           /\ SameLife(u, enableMfa(u))
           /\ SameLife(u, disableMfa(u))
           /\ \A c : SameLife(u, consumeMfaBackupCode(u, c))
           /\ SameLife(u, verifyEmail(u))
           /\ \A n, t : SameLife(u, refreshVerificationToken(u, n, t))
           /\ \A e, n, t : SameLife(u, requestEmailChange(u, e, n, t))
           /\ SameLife(u, confirmEmailChange(u))
BY DEF SameLife, setResetToken, changePassword, initiateMfaSetup, enableMfa, disableMfa,
       consumeMfaBackupCode, verifyEmail, refreshVerificationToken, requestEmailChange,
       confirmEmailChange, User

LEMMA FreshDraw ==
    ASSUME NEW acc, NEW n \in Nat, Once(acc, n)
    PROVE  \A c : <<n + 1, c, 1>> \notin acc
BY DEF Once

LEMMA OnceLater ==
    ASSUME NEW acc, NEW n \in Nat, acc \subseteq Nat \X Nat \X {1, 2}, Once(acc, n)
    PROVE  Once(acc, n + 1)
BY DEF Once

\* A token drawn anew is not the one that is outstanding, nor one accepted before.
LEMMA DrawnTokens ==
    ASSUME NEW u \in User, NEW acc, NEW n \in Nat, NEW t, Once(acc, n),
           Outstanding(u, acc, n)
    PROVE  /\ Outstanding(setResetToken(u, n + 1, t), acc, n + 1)
           /\ Outstanding(refreshVerificationToken(u, n + 1, t), acc, n + 1)
           /\ \A e : Outstanding(requestEmailChange(u, e, n + 1, t), acc, n + 1)
           /\ Outstanding(initiateMfaSetup(u, n + 1), acc, n + 1)
<1>1. /\ u.verification.id \in Nat /\ u.reset.id \in Nat
      /\ u.mfa.secret \in Nat /\ u.mfa.pendingSecret \in Nat
    BY UserFacts
<1>2. \A c : <<n + 1, c, 1>> \notin acc
    BY FreshDraw
<1>3. ASSUME NEW v, v.reset.id = n + 1, v.verification = u.verification, v.mfa = u.mfa
      PROVE  Outstanding(v, acc, n + 1)
    BY <1>1, <1>2, <1>3 DEF Outstanding
<1>4. ASSUME NEW v, v.verification.id = n + 1, v.reset = u.reset, v.mfa = u.mfa
      PROVE  Outstanding(v, acc, n + 1)
    BY <1>1, <1>2, <1>4 DEF Outstanding
<1>5. Outstanding(refreshVerificationToken(u, n + 1, t), acc, n + 1)
    BY <1>4 DEF refreshVerificationToken, NewToken, User
<1>6. \A e : Outstanding(requestEmailChange(u, e, n + 1, t), acc, n + 1)
    BY <1>4 DEF requestEmailChange, NewToken, User
<1>7. ASSUME NEW v, v.verification = u.verification, v.reset = u.reset,
             v.mfa.secret = u.mfa.secret, v.mfa.backupCodes = u.mfa.backupCodes,
             v.mfa.pendingSecret = n + 1
      PROVE  Outstanding(v, acc, n + 1)
  <2>1. /\ u.verification.id <= n /\ u.reset.id <= n /\ u.mfa.secret <= n
        /\ v.mfa.pendingSecret <= n + 1 /\ v.mfa.pendingSecret # v.mfa.secret
        /\ v.verification.id <= n + 1 /\ v.reset.id <= n + 1 /\ v.mfa.secret <= n + 1
      BY <1>1, <1>7 DEF Outstanding
  <2> QED
      BY <1>2, <1>7, <2>1 DEF Outstanding
<1>8. Outstanding(setResetToken(u, n + 1, t), acc, n + 1)
    BY <1>3 DEF setResetToken, NewToken, User
<1>9. Outstanding(initiateMfaSetup(u, n + 1), acc, n + 1)
    BY <1>7 DEF initiateMfaSetup, User, MfaConfiguration
<1> QED
    BY <1>5, <1>6, <1>8, <1>9

\* A token or code that was not accepted yet is accepted for the first time.
LEMMA AcceptOnce ==
    ASSUME TypeOK, SerialInv, NEW d \in Nat, NEW c, d <= draws,
           <<d, c, 1>> \notin accepted, Accept(d, c)
    PROVE  accepted' = accepted \cup {<<d, c, 1>>} /\ Once(accepted', draws)
<1>1. accepted' = accepted \cup {<<d, c, 1>>}
    BY DEF Accept
<1> QED
    BY <1>1 DEF Once, SerialInv

\* A token is used up when it is accepted.
LEMMA UsedTokens ==
    ASSUME NEW u \in User, NEW acc, NEW n \in Nat, Outstanding(u, acc, n)
    PROVE  /\ u.reset.id # 0 =>
                  Outstanding(changePassword(u), acc \cup {<<u.reset.id, 0, 1>>}, n)
           /\ u.verification.id # 0 =>
                  /\ Outstanding(verifyEmail(u), acc \cup {<<u.verification.id, 0, 1>>}, n)
                  /\ Outstanding(confirmEmailChange(u), acc \cup {<<u.verification.id, 0, 1>>}, n)
<1>1. /\ u.verification.id \in Nat /\ u.reset.id \in Nat
      /\ \A c \in BackupCodes : c # 0
      /\ u.mfa.backupCodes \subseteq BackupCodes
    BY UserFacts, TtlAssumption
<1>2. ASSUME NEW v, v.reset.id = 0, v.verification = u.verification, v.mfa = u.mfa,
             u.reset.id # 0
      PROVE  Outstanding(v, acc \cup {<<u.reset.id, 0, 1>>}, n)
    BY <1>1, <1>2 DEF Outstanding
<1>3. ASSUME NEW v, v.verification.id = 0, v.reset = u.reset, v.mfa = u.mfa,
             u.verification.id # 0
      PROVE  Outstanding(v, acc \cup {<<u.verification.id, 0, 1>>}, n)
    BY <1>1, <1>3 DEF Outstanding
<1>4. /\ verifyEmail(u).verification.id = 0 /\ verifyEmail(u).reset = u.reset
      /\ verifyEmail(u).mfa = u.mfa
      /\ confirmEmailChange(u).verification.id = 0 /\ confirmEmailChange(u).reset = u.reset
      /\ confirmEmailChange(u).mfa = u.mfa
    BY DEF verifyEmail, confirmEmailChange, NoToken, User
<1>5. /\ changePassword(u).reset.id = 0 /\ changePassword(u).verification = u.verification
      /\ changePassword(u).mfa = u.mfa
    BY DEF changePassword, NoToken, User
<1> QED
    BY <1>2, <1>3, <1>4, <1>5

\* So is a backup code; new codes come with a secret of their own.
LEMMA UsedCodes ==
    ASSUME NEW u \in User, NEW acc, NEW n \in Nat, Outstanding(u, acc, n)
    PROVE  /\ \A c \in u.mfa.backupCodes :
                  Outstanding(consumeMfaBackupCode(u, c), acc \cup {<<u.mfa.secret, c, 1>>}, n)
           /\ u.mfa.pendingSecret # 0 => Outstanding(enableMfa(u), acc, n)
           /\ Outstanding(disableMfa(u), acc, n)
<1>1. /\ \A c \in BackupCodes : c # 0
      /\ u.mfa.backupCodes \subseteq BackupCodes
      /\ u.mfa \in MfaConfiguration
    BY UserFacts, TtlAssumption DEF User
<1>2. ASSUME NEW c \in u.mfa.backupCodes, NEW v,
             v.verification = u.verification, v.reset = u.reset, v.mfa.secret = u.mfa.secret,
             v.mfa.pendingSecret = u.mfa.pendingSecret, v.mfa.backupCodes = u.mfa.backupCodes \ {c}
      PROVE  Outstanding(v, acc \cup {<<u.mfa.secret, c, 1>>}, n)
    BY <1>1, <1>2 DEF Outstanding
<1>3. ASSUME NEW v, v.verification = u.verification, v.reset = u.reset,
             v.mfa.secret = u.mfa.pendingSecret, v.mfa.pendingSecret = 0,
             v.mfa.backupCodes = BackupCodes, u.mfa.pendingSecret # 0, 0 <= n
      PROVE  Outstanding(v, acc, n)
    BY <1>1, <1>3 DEF Outstanding
<1>4. ASSUME NEW v, v.verification = u.verification, v.reset = u.reset,
             v.mfa.secret = 0, v.mfa.pendingSecret = 0, v.mfa.backupCodes = {}, 0 <= n
      PROVE  Outstanding(v, acc, n)
    BY <1>1, <1>4 DEF Outstanding
<1>5. ASSUME NEW c \in u.mfa.backupCodes
      PROVE  Outstanding(consumeMfaBackupCode(u, c), acc \cup {<<u.mfa.secret, c, 1>>}, n)
    BY <1>1, <1>2 DEF consumeMfaBackupCode, User, MfaConfiguration
<1>6. u.mfa.pendingSecret # 0 => Outstanding(enableMfa(u), acc, n)
    BY <1>3 DEF enableMfa, User
<1>7. Outstanding(disableMfa(u), acc, n)
    BY <1>4 DEF disableMfa, NoMfa, User
<1> QED
    BY <1>5, <1>6, <1>7


-----------------------------------------------------------------------------
(* Kinds of saves.                                                          *)

\* Most requests rely on nothing they found.
LEMMA PlainFound ==
    ASSUME NEW op,
           op \notin {"resetPassword", "verifyEmail", "confirmEmailChange", "refresh"}
    PROVE  \A u, sid, n, h : FoundAt([op |-> op, user |-> u, sid |-> sid, arg |-> n], h)
BY DEF FoundAt

\* A save that may use up a token, and opens no session.
LEMMA LifeSave ==
    ASSUME TypeOK, OneAtATime, SerialInv, NEW r \in Requests, NEW v, Save(r, v),
           Holds(req[r]), SameLife(req[r].user, v), Closing(req[r].user, v),
           UNCHANGED <<draws, handed, challenge>>,
           Outstanding(v, accepted', draws), Once(accepted', draws)
    PROVE  SerialStep
<1>1. v.present /\ DateKept(v) /\ ChallengeKept(v)
    BY CopyFacts DEF SameLife, SameFields, DateKept, ChallengeKept
<1>2. \A s \in SessionIds : SameUse(s)
    BY DEF SameUse
<1> QED
    BY <1>1, <1>2, QuietSave

\* A save that leaves tokens and codes alone, too.
LEMMA PlainSave ==
    ASSUME TypeOK, OneAtATime, SerialInv, NEW r \in Requests, NEW v, SaveOnly(r, v),
           Holds(req[r]), SameFields(req[r].user, v), Closing(req[r].user, v)
    PROVE  SerialStep
<1>1. /\ Save(r, v) /\ UNCHANGED <<draws, handed, challenge>> /\ accepted' = accepted
    BY DEF SaveOnly
<1>2. Outstanding(v, accepted, draws)
    BY CopyFacts, OutstandingFrame
<1>3. SameLife(req[r].user, v) /\ Once(accepted, draws)
    BY DEF SameLife, SameFields, SerialInv
<1> QED
    BY <1>1, <1>2, <1>3, LifeSave

\* A save that stores a token or a secret drawn anew.
LEMMA DrawSave ==
    ASSUME TypeOK, OneAtATime, SerialInv, NEW r \in Requests, NEW v, SaveWithDraw(r, v),
           Holds(req[r]), SameLife(req[r].user, v), v.sessions = req[r].user.sessions,
           Outstanding(v, accepted, draws + 1)
    PROVE  SerialStep
<1>1. /\ Save(r, v) /\ handed' = handed /\ challenge' = challenge
      /\ accepted' = accepted /\ draws' = draws + 1
    BY DEF SaveWithDraw
<1>2. v.present /\ DateKept(v) /\ ChallengeKept(v)
    BY <1>1, CopyFacts DEF SameLife, SameFields, DateKept, ChallengeKept
<1>3. Once(accepted, draws + 1)
    BY TypeFacts, OnceLater DEF SerialInv
<1>4. Closing(req[r].user, v)
    BY KeptCloses
<1>5. \A s \in SessionIds : SameUse(s)
    BY <1>1 DEF SameUse
<1> QED
    BY <1>1, <1>2, <1>3, <1>4, <1>5, QuietSave

\* A save that opens a session and leaves tokens and codes alone.
LEMMA PlainOpen ==
    ASSUME TypeOK, OneAtATime, SerialInv, NEW r \in Requests, NEW w \in User,
           OpenSession(r, w), accepted' = accepted, Holds(req[r]),
           SameFields(req[r].user, w), w.sessions = req[r].user.sessions
    PROVE  SerialStep
<1>1. w.present /\ DateKept(w)
    BY CopyFacts DEF SameFields, DateKept
<1>2. Outstanding(w, accepted, draws) /\ Once(accepted, draws)
    BY CopyFacts, OutstandingFrame DEF SerialInv
<1> QED
    BY <1>1, <1>2, OpeningSave

-----------------------------------------------------------------------------
(* One step of each kind of request.                                        *)

\* A late SELECT finds what the earlier ones belong to, or the sessions purged since.
LEMMA ReadLaterSerial ==
    ASSUME TypeOK, OneAtATime, SerialInv, NEW r \in Requests, ReadLater(r)
    PROVE  SerialStep
<1> DEFINE u == req[r].user
<1>1. PICK q \in Request :
          /\ req' = [req EXCEPT ![r] = q]
          /\ q.op = req[r].op /\ q.sid = req[r].sid /\ q.arg = req[r].arg
          /\ Mixed(q.user, u)
    BY ReadLaterStep
<1>2. UNCHANGED <<db, now, draws, handed, access, challenge, accepted>>
    BY ReadLaterStep
<1>3. CopyAt(req[r], db, now, handed)
    BY DEF SerialInv
<1>4. ASSUME Holds(req[r])
      PROVE  /\ SameFields(db, q.user) /\ SameSessions(db, q.user, now, handed)
             /\ q.user.failed = db.failed /\ FoundAt(q, handed)
  <2>1. /\ SameFields(db, u) /\ SameSessions(db, u, now, handed)
        /\ u.failed = db.failed /\ FoundAt(req[r], handed)
      BY <1>3, <1>4 DEF CopyAt
  <2>2. SameFields(db, q.user) /\ q.user.failed = db.failed
      BY <1>1, <2>1 DEF Mixed, SameAccount, SameFields
  <2>3. q.user.sessions = u.sessions \/ q.user.sessions = db.sessions
      BY <1>1 DEF Mixed
  <2>4. SameSessions(db, q.user, now, handed)
      BY <2>1, <2>3 DEF SameSessions
  <2>5. FoundAt(q, handed)
      BY <1>1, <2>1 DEF FoundAt
  <2> QED
      BY <2>2, <2>4, <2>5
<1>5. CopyAt(q, db, now, handed)
    BY <1>1, <1>3, <1>4 DEF CopyAt
<1>6. SerialInv'
    BY <1>1, <1>2, <1>5 DEF SerialInv, TypeOK
<1> QED
    BY <1>2, <1>6, StillStep DEF SerialStep

LEMMA AutoLinkSerial ==
    ASSUME TypeOK, OneAtATime, SerialInv, NEW r \in Requests, OAuthAutoLinkSave(r)
    PROVE  SerialStep
<1> DEFINE goesOn(v) == [op |-> "oauthLinked", user |-> v, sid |-> NoId, arg |-> 0]
           stops(v) == v.scheduledForDeletionAt # 0 \/ v.mfa.isEnabled
           asks(v) == v.scheduledForDeletionAt = 0 /\ v.mfa.isEnabled
           u == req[r].user
<1>1. Holds(req[r])
    BY DEF OAuthAutoLinkSave
<1>2. PICK p \in Providers :
          LET v == linkOAuthAccount(u, p)
          IN  /\ db' = IF db.present THEN v ELSE CreateBranch(v)
              /\ req' = [req EXCEPT ![r] = IF stops(v) THEN Idle ELSE goesOn(v)]
              /\ challenge' = IF asks(v) THEN now + ChallengeTtl ELSE challenge
    BY DEF OAuthAutoLinkSave
<1> DEFINE v == linkOAuthAccount(u, p)
<1>3. SameFields(u, v) /\ v.sessions = u.sessions
    BY <1>1, CopyFacts, FieldsKept, SessionsKept
<1>4. /\ db' = v
      /\ req' = [req EXCEPT ![r] = IF stops(v) THEN Idle ELSE goesOn(v)]
      /\ challenge' = IF asks(v) THEN now + ChallengeTtl ELSE challenge
      /\ UNCHANGED <<now, draws, handed, accepted>>
    BY <1>1, <1>2, CopyFacts DEF OAuthAutoLinkSave
<1> HIDE DEF v
<1>5. v.present /\ DateKept(v) /\ ChallengeKept(v) /\ Outstanding(v, accepted, draws)
  <2>1. v.present /\ DateKept(v)
      BY <1>1, <1>3, CopyFacts DEF SameFields, DateKept
  <2>2. ChallengeKept(v)
      BY <1>4 DEF ChallengeKept
  <2> QED
      BY <1>1, <1>3, <2>1, <2>2, CopyFacts, OutstandingFrame
<1>6. CopyAt(goesOn(v), v, now, handed) /\ CopyAt(Idle, v, now, handed)
  <2>1. goesOn(v).op = "oauthLinked" /\ goesOn(v).user = v
      OBVIOUS
  <2>2. FoundAt(goesOn(v), handed)
      BY DEF FoundAt
  <2>3. CopyAt(Idle, v, now, handed)
      BY IdleCopy
  <2>4. SameFields(v, v) /\ SameSessions(v, v, now, handed)
      BY DEF SameFields, SameSessions
  <2>5. CopyAt(goesOn(v), v, now, handed)
    <3> HIDE DEF goesOn
    <3> QED
        BY <1>5, <2>1, <2>2, <2>4 DEF CopyAt
  <2> QED
      BY <2>3, <2>5
<1>7. \A k \in Requests : CopyAt(req'[k], db', now', handed')
    BY <1>4, <1>6 DEF OneAtATime, TypeOK
<1>8. Unopened(v, handed)
    BY <1>1, <1>3, CopyFacts DEF Unopened
<1>9. SerialInv'
    BY <1>4, <1>5, <1>7, <1>8, ChallengeStep DEF SerialInv
<1>10. SessionStep
    BY <1>1, <1>3, <1>4, CopyFacts DEF SessionStep, SameUse, IsOpen, OpenIn
<1>11. DueDeletion
    BY <1>1, <1>4, <1>5, CopyFacts DEF DueDeletion
<1> QED
    BY <1>9, <1>10, <1>11 DEF SerialStep

LEMMA SignInSerial ==
    ASSUME TypeOK, OneAtATime, SerialInv, NEW r \in Requests, SignIn(r) PROVE SerialStep
<1> DEFINE u == req[r].user
<1>d. db \in User
    BY TypeFacts
<1>u. u \in User
    BY CopyType
<1>1. CASE LoginLoad(r)
    BY <1>1, SerialBegin, PlainFound DEF LoginLoad
<1>2. CASE WrongPassword(r)
  <2> DEFINE w == clearExpiredLock(u, now)
             v == handleFailedLogin(w, now)
  <2>1. Holds(req[r]) /\ SaveOnly(r, v)
      BY <1>2 DEF WrongPassword, Compares
  <2>2. w \in User /\ SameFields(u, w) /\ w.sessions = u.sessions
      BY <1>u, FailedLoginType, TypeFacts, FieldsKept, SessionsKept
  <2> HIDE DEF w
  <2>3. SameFields(w, v) /\ v.sessions = w.sessions
      BY <2>2, FieldsKept, SessionsKept
  <2> HIDE DEF v
  <2>4. SameFields(u, v) /\ Closing(u, v)
      BY <2>2, <2>3, KeptCloses DEF SameFields
  <2> QED
      BY <2>1, <2>4, PlainSave
<1>r. CASE RightPassword(r)
  <2> DEFINE v == resetFailedLogins(u)
  <2>1. Holds(req[r])
      BY <1>r DEF RightPassword, Compares
  <2>2. SameFields(u, v) /\ v.sessions = u.sessions /\ v \in User
      BY <1>u, FieldsKept, SessionsKept, TypeFacts, FailedLoginType
  <2>4. CASE SaveOnly(r, v)
      BY <2>1, <2>2, <2>4, PlainSave, KeptCloses
  <2>5. CASE /\ v.scheduledForDeletionAt = 0
             /\ Save(r, v) /\ challenge' = now + ChallengeTtl
             /\ UNCHANGED <<draws, handed, access, accepted>>
    <3> HIDE DEF v
    <3>1. v.present /\ DateKept(v) /\ ChallengeKept(v)
        BY <2>1, <2>2, <2>5, CopyFacts DEF SameFields, DateKept, ChallengeKept
    <3>2. Outstanding(v, accepted, draws) /\ Once(accepted, draws)
        BY <2>1, <2>2, CopyFacts, OutstandingFrame DEF SerialInv
    <3>3. \A s \in SessionIds : SameUse(s)
        BY <2>5 DEF SameUse
    <3> QED
        BY <2>1, <2>2, <2>5, <3>1, <3>2, <3>3, QuietSave, KeptCloses
  <2>6. CASE OpenSession(r, v) /\ UNCHANGED accepted
      BY <2>1, <2>2, <2>6, PlainOpen
  <2> QED
      BY <1>r, <2>4, <2>5, <2>6 DEF RightPassword
<1>3. CASE MfaLoginLoad(r)
    BY <1>3, SerialBegin, PlainFound DEF MfaLoginLoad
<1>4. CASE MfaLoginSave(r)
  <2>1. Holds(req[r])
      BY <1>4 DEF MfaLoginSave
  <2>2. CASE OpenSession(r, u) /\ UNCHANGED accepted
      BY <1>u, <2>1, <2>2, PlainOpen, FieldsKept
  <2>3. ASSUME NEW c \in u.mfa.backupCodes,
               OpenSession(r, consumeMfaBackupCode(u, c)), Accept(u.mfa.secret, c)
        PROVE  SerialStep
    <3> DEFINE w == consumeMfaBackupCode(u, c)
    <3>1. u.mfa.secret \in Nat /\ u.mfa.secret <= draws /\ <<u.mfa.secret, c, 1>> \notin accepted
        BY <1>u, <2>1, CopyFacts, UserFacts DEF Outstanding
    <3>2. /\ accepted' = accepted \cup {<<u.mfa.secret, c, 1>>}
          /\ Once(accepted', draws)
        BY <2>3, <3>1, AcceptOnce
    <3>3. Outstanding(w, accepted', draws)
        BY <1>u, <2>1, <3>2, CopyFacts, TypeFacts, UsedCodes
    <3>4. w \in User /\ SameLife(u, w) /\ w.sessions = u.sessions
        BY <1>u, MfaType, TypeFacts, LifeKept, SessionsKept
    <3> HIDE DEF w
    <3>5. w.present /\ DateKept(w)
        BY <2>1, <3>4, CopyFacts DEF SameLife, SameFields, DateKept
    <3> QED
        BY <2>1, <2>3, <3>2, <3>3, <3>4, <3>5, OpeningSave DEF w
  <2> QED
      BY <1>4, <2>2, <2>3 DEF MfaLoginSave
<1>5. CASE OAuthLoginLoad(r)
    BY <1>5, SerialBegin, PlainFound DEF OAuthLoginLoad
<1>6. CASE OAuthLoginSave(r) \/ OAuthLinkedSave(r)
    BY <1>6, <1>u, PlainOpen, FieldsKept DEF OAuthLoginSave, OAuthLinkedSave
<1>c. CASE OAuthLoginChallenge(r)
  <2>1. /\ req' = [req EXCEPT ![r] = Idle] /\ challenge' = now + ChallengeTtl
        /\ UNCHANGED <<db, now, draws, handed, accepted>>
      BY <1>c DEF OAuthLoginChallenge
  <2>2. db.scheduledForDeletionAt = 0
      BY <1>c, CopyFacts DEF OAuthLoginChallenge, SameFields
  <2>3. ChallengedAt(db, now, challenge')
      BY <2>1, <2>2, ChallengeStep DEF DateKept, ChallengeKept
  <2>4. \A k \in Requests : CopyAt(req'[k], db', now', handed')
      BY <2>1, IdleCopy DEF TypeOK, SerialInv
  <2>5. SerialInv'
      BY <2>1, <2>3, <2>4 DEF SerialInv
  <2> QED
      BY <2>1, <2>5, StillStep DEF SerialStep
<1>7. CASE OAuthAutoLinkLoad(r)
    BY <1>7, SerialBegin, PlainFound DEF OAuthAutoLinkLoad
<1>8. CASE OAuthAutoLinkSave(r)
    BY <1>8, AutoLinkSerial
<1> QED
    BY <1>1, <1>2, <1>r, <1>3, <1>4, <1>5, <1>6, <1>c, <1>7, <1>8 DEF SignIn

LEMMA ManageSessionsSerial ==
    ASSUME TypeOK, OneAtATime, SerialInv, NEW r \in Requests, ManageSessions(r)
    PROVE  SerialStep
<1> DEFINE u == req[r].user
<1>u. u \in User
    BY CopyType
<1>p. \A S : SameFields(u, RevokeIn(u, S, now)) /\ Closing(u, RevokeIn(u, S, now))
    BY <1>u, FieldsKept, RevokeCloses
<1>1. CASE RefreshLoad(r)
  <2>1. PICK sid \in SessionIds : \E n \in 1 .. handed[sid] : Begin(r, "refresh", db, sid, n)
      BY <1>1 DEF RefreshLoad
  <2>2. PICK n \in 1 .. handed[sid] : Begin(r, "refresh", db, sid, n)
      BY <2>1
  <2>3. handed[sid] # 0
      BY <2>2, TypeFacts
  <2>4. FoundAt([op |-> "refresh", user |-> db, sid |-> sid, arg |-> n], handed)
      BY <2>3 DEF FoundAt
  <2> QED
      BY <2>2, <2>4, SerialBegin
<1>2. CASE RefreshSave(r)
  <2> DEFINE sid == req[r].sid
             v == rotateToken(u, sid, handed[sid] + 1)
  <2>1. req[r].op = "refresh"
      BY <1>2 DEF RefreshSave
  <2>2. CASE SaveOnly(r, revokeAllSessions(u, now))
      BY <1>p, <2>1, <2>2, PlainSave DEF revokeAllSessions
  <2>3. CASE /\ Save(r, v) /\ HandOut(sid, handed[sid] + 1)
             /\ UNCHANGED <<draws, challenge, accepted>>
    <3>1. sid \in SessionIds /\ handed[sid] # 0
        BY <2>1, CopyFacts DEF FoundAt
    <3>2. SameFields(u, v) /\ Closing(u, v)
        BY <1>u, FieldsKept, RotateCloses
    <3> HIDE DEF v
    <3>3. v.present /\ DateKept(v) /\ ChallengeKept(v)
        BY <2>1, <2>3, <3>2, CopyFacts DEF SameFields, DateKept, ChallengeKept
    <3>4. Outstanding(v, accepted, draws) /\ Once(accepted, draws)
        BY <2>1, <3>2, CopyFacts, OutstandingFrame DEF SerialInv
    <3>5. \A s \in SessionIds : SameUse(s)
        BY <2>3, <3>1, TypeFacts DEF SameUse, HandOut
    <3> QED
        BY <2>1, <2>3, <3>2, <3>3, <3>4, <3>5, QuietSave
  <2> QED
      BY <1>2, <2>2, <2>3 DEF RefreshSave
<1>3. CASE LogoutLoad(r)
    BY <1>3, SerialBegin, PlainFound DEF LogoutLoad
<1>4. CASE LogoutSave(r)
    BY <1>4, <1>p, PlainSave DEF LogoutSave, revokeSession
<1>5. CASE RevokeSessionLoad(r)
    BY <1>5, SerialBegin, PlainFound DEF RevokeSessionLoad
<1>6. CASE RevokeSessionSave(r)
    BY <1>6, <1>p, PlainSave DEF RevokeSessionSave, revokeSession
<1>7. CASE RevokeOthersLoad(r)
    BY <1>7, SerialBegin, PlainFound DEF RevokeOthersLoad
<1>8. CASE RevokeOthersSave(r)
    BY <1>8, <1>p, PlainSave DEF RevokeOthersSave, revokeAllOtherSessions
<1> QED
    BY <1>1, <1>2, <1>3, <1>4, <1>5, <1>6, <1>7, <1>8 DEF ManageSessions

LEMMA ManageCredentialsSerial ==
    ASSUME TypeOK, OneAtATime, SerialInv, NEW r \in Requests, ManageCredentials(r)
    PROVE  SerialStep
<1> DEFINE u == req[r].user
<1>u. u \in User /\ draws \in Nat
    BY CopyType, TypeFacts
<1>1. CASE ChangePasswordLoad(r)
    BY <1>1, SerialBegin, PlainFound DEF ChangePasswordLoad
<1>2. CASE ChangePasswordSave(r)
  <2> DEFINE v == updatePassword(u)
  <2>1. v \in User /\ v.sessions = u.sessions /\ SameFields(u, v)
      BY <1>u, PasswordType, TypeFacts, SessionsKept, FieldsKept
  <2> HIDE DEF v
  <2>2. \A S : SameFields(v, RevokeIn(v, S, now)) /\ Closing(u, RevokeIn(v, S, now))
      BY <1>u, <2>1, FieldsKept, RevokeCloses
  <2>3. \A S : SameFields(u, RevokeIn(v, S, now))
      BY <2>1, <2>2 DEF SameFields
  <2> QED
      BY <1>2, <2>2, <2>3, PlainSave DEF ChangePasswordSave, revokeAllOtherSessions, v
<1>3. CASE SetInitialPasswordLoad(r)
    BY <1>3, SerialBegin, PlainFound DEF SetInitialPasswordLoad
<1>4. CASE SetInitialPasswordSave(r)
    BY <1>4, <1>u, PlainSave, FieldsKept, SessionsKept, KeptCloses DEF SetInitialPasswordSave
<1>5. CASE ForgotPasswordLoad(r)
    BY <1>5, SerialBegin, PlainFound DEF ForgotPasswordLoad
<1>6. CASE ForgotPasswordSave(r)
  <2>1. Holds(req[r])
      BY <1>6 DEF ForgotPasswordSave
  <2>2. Outstanding(setResetToken(u, draws + 1, now), accepted, draws + 1)
      BY <1>u, <2>1, CopyFacts, DrawnTokens DEF SerialInv
  <2> QED
      BY <1>6, <1>u, <2>1, <2>2, DrawSave, LifeKept, SessionsKept DEF ForgotPasswordSave
<1>7. CASE ResetPasswordLoad(r)
  <2>1. FoundAt([op |-> "resetPassword", user |-> db, sid |-> NoId, arg |-> db.reset.id],
                handed)
      BY <1>7 DEF ResetPasswordLoad, FoundAt
  <2> QED
      BY <1>7, <2>1, SerialBegin DEF ResetPasswordLoad
<1>8. CASE ResetPasswordSave(r)
  <2> DEFINE w == changePassword(u)
             v == revokeAllSessions(w, now)
  <2>1. req[r].op = "resetPassword"
      BY <1>8 DEF ResetPasswordSave
  <2>2. /\ Save(r, v) /\ Accept(req[r].arg, 0)
        /\ UNCHANGED <<draws, handed, challenge>>
      BY <1>8 DEF ResetPasswordSave
  <2>3. req[r].arg = u.reset.id /\ u.reset.id # 0 /\ u.reset.id \in Nat
      BY <1>u, <1>8, <2>1, CopyFacts, UserFacts DEF FoundAt, ResetPasswordSave
  <2>4. accepted' = accepted \cup {<<u.reset.id, 0, 1>>} /\ Once(accepted', draws)
      BY <2>1, <2>2, <2>3, CopyFacts, AcceptOnce DEF Outstanding
  <2>5. Outstanding(w, accepted', draws)
      BY <1>u, <2>1, <2>3, <2>4, CopyFacts, UsedTokens
  <2>6. w \in User /\ SameLife(u, w) /\ w.sessions = u.sessions
      BY <1>u, PasswordType, TypeFacts, LifeKept, SessionsKept
  <2> HIDE DEF w
  <2>7. SameFields(w, v) /\ Closing(u, v)
      BY <1>u, <2>6, FieldsKept, RevokeCloses DEF revokeAllSessions
  <2> HIDE DEF v
  <2>8. SameLife(u, v) /\ Outstanding(v, accepted', draws)
      BY <2>5, <2>6, <2>7, OutstandingFrame DEF SameLife, SameFields
  <2> QED
      BY <2>1, <2>2, <2>4, <2>7, <2>8, LifeSave
<1>9. CASE InitiateMfaLoad(r)
    BY <1>9, SerialBegin, PlainFound DEF InitiateMfaLoad
<1>10. CASE InitiateMfaSave(r)
  <2>1. Holds(req[r])
      BY <1>10 DEF InitiateMfaSave
  <2>2. Outstanding(initiateMfaSetup(u, draws + 1), accepted, draws + 1)
      BY <1>u, <2>1, CopyFacts, DrawnTokens DEF SerialInv
  <2> QED
      BY <1>10, <1>u, <2>1, <2>2, DrawSave, LifeKept, SessionsKept DEF InitiateMfaSave
<1>11. CASE EnableMfaLoad(r)
    BY <1>11, SerialBegin, PlainFound DEF EnableMfaLoad
<1>12. CASE EnableMfaSave(r)
  <2> DEFINE v == enableMfa(u)
  <2>1. req[r].op = "enableMfa"
      BY <1>12 DEF EnableMfaSave
  <2>2. u.mfa.pendingSecret # 0
      BY <1>12 DEF EnableMfaSave
  <2>3. Outstanding(v, accepted, draws)
      BY <1>u, <2>1, <2>2, CopyFacts, UsedCodes
  <2>4. SameLife(u, v) /\ Closing(u, v)
      BY <1>u, LifeKept, SessionsKept, KeptCloses
  <2>5. /\ Save(r, v) /\ UNCHANGED <<draws, handed, challenge>> /\ accepted' = accepted
      BY <1>12 DEF EnableMfaSave, SaveOnly
  <2> HIDE DEF v
  <2> QED
      BY <2>1, <2>3, <2>4, <2>5, LifeSave DEF SerialInv
<1>13. CASE DisableMfaLoad(r)
    BY <1>13, SerialBegin, PlainFound DEF DisableMfaLoad
<1>14. CASE DisableMfaSave(r)
  <2> DEFINE v == disableMfa(u)
  <2>1. req[r].op = "disableMfa"
      BY <1>14 DEF DisableMfaSave
  <2>2. Outstanding(v, accepted, draws)
      BY <1>u, <2>1, CopyFacts, UsedCodes
  <2>3. SameLife(u, v) /\ Closing(u, v)
      BY <1>u, LifeKept, SessionsKept, KeptCloses
  <2>4. /\ Save(r, v) /\ UNCHANGED <<draws, handed, challenge>> /\ accepted' = accepted
      BY <1>14 DEF DisableMfaSave, SaveOnly
  <2> HIDE DEF v
  <2> QED
      BY <2>1, <2>2, <2>3, <2>4, LifeSave DEF SerialInv
<1>15. CASE LinkOAuthLoad(r)
    BY <1>15, SerialBegin, PlainFound DEF LinkOAuthLoad
<1>16. CASE LinkOAuthSave(r)
    BY <1>16, <1>u, PlainSave, FieldsKept, SessionsKept, KeptCloses DEF LinkOAuthSave
<1>17. CASE UnlinkOAuthLoad(r)
    BY <1>17, SerialBegin, PlainFound DEF UnlinkOAuthLoad
<1>18. CASE UnlinkOAuthSave(r)
    BY <1>18, <1>u, PlainSave, FieldsKept, SessionsKept, KeptCloses DEF UnlinkOAuthSave
<1> QED
    BY <1>1, <1>2, <1>3, <1>4, <1>5, <1>6, <1>7, <1>8, <1>9, <1>10, <1>11, <1>12, <1>13,
       <1>14, <1>15, <1>16, <1>17, <1>18 DEF ManageCredentials

\* A row that is gone offers nothing.
LEMMA NoUserFacts ==
    /\ ~NoUser.present /\ NoUser.scheduledForDeletionAt = 0
    /\ NoUser.verification.id = 0 /\ NoUser.reset.id = 0
    /\ NoUser.mfa.secret = 0 /\ NoUser.mfa.pendingSecret = 0
    /\ NoUser.mfa.backupCodes = {}
    /\ \A s \in SessionIds : NoUser.sessions[s].state = "absent"
BY DEF NoUser, NoToken, NoMfa, NoSession

LEMMA DeleteSerial ==
    ASSUME TypeOK, OneAtATime, SerialInv, NEW r \in Requests, DeleteRow(r),
           req[r].op \in {"deleteAccount", "hardDeletion"}
    PROVE  SerialStep
<1>1. /\ db' = NoUser /\ db.present
      /\ UNCHANGED <<now, draws, handed, challenge, accepted>>
      /\ req' = [req EXCEPT ![r] = Idle]
    BY DEF DeleteRow
<1>2. \A k \in Requests : CopyAt(req'[k], db', now', handed')
    BY <1>1, IdleCopy DEF OneAtATime, TypeOK
<1>3. Outstanding(NoUser, accepted, draws)
    BY NoUserFacts, TypeFacts DEF Outstanding
<1>4. ChallengedAt(NoUser, now, challenge) /\ Unopened(NoUser, handed)
    BY NoUserFacts DEF SerialInv, ChallengedAt, Unopened
<1>5. SerialInv'
    BY <1>1, <1>2, <1>3, <1>4 DEF SerialInv
<1>6. SessionStep
    BY <1>1, NoUserFacts DEF SessionStep, SameUse, IsOpen
<1>7. req'[r].op = "idle"
    BY <1>1 DEF TypeOK, Idle
<1>8. req[r].op = "hardDeletion" =>
          db.scheduledForDeletionAt # 0 /\ db.scheduledForDeletionAt <= now
    BY DEF SerialInv, CopyAt, DueAt
<1>9. DueDeletion
    BY <1>7, <1>8 DEF DueDeletion
<1> QED
    BY <1>1, <1>5, <1>6, <1>9 DEF SerialStep

LEMMA ManageAccountSerial ==
    ASSUME TypeOK, OneAtATime, SerialInv, NEW r \in Requests, ManageAccount(r)
    PROVE  SerialStep
<1> DEFINE u == req[r].user
<1>u. u \in User /\ draws \in Nat /\ now \in Nat
    BY CopyType, TypeFacts
<1>p. SameFields(u, u) /\ Closing(u, u)
    BY <1>u, FieldsKept, KeptCloses
<1>1. CASE VerifyEmailLoad(r)
  <2>1. FoundAt([op |-> "verifyEmail", user |-> db, sid |-> NoId,
                 arg |-> db.verification.id], handed)
      BY <1>1 DEF VerifyEmailLoad, FoundAt
  <2> QED
      BY <1>1, <2>1, SerialBegin DEF VerifyEmailLoad
<1>2. CASE VerifyEmailSave(r)
  <2> DEFINE w == verifyEmail(u)
  <2>1. req[r].op = "verifyEmail" /\ OpenSession(r, w) /\ Accept(req[r].arg, 0)
      BY <1>2 DEF VerifyEmailSave
  <2>2. /\ req[r].arg = u.verification.id /\ u.verification.id # 0
        /\ u.verification.id \in Nat
      BY <1>u, <1>2, <2>1, CopyFacts, UserFacts DEF FoundAt, VerifyEmailSave
  <2>3. accepted' = accepted \cup {<<u.verification.id, 0, 1>>} /\ Once(accepted', draws)
      BY <2>1, <2>2, CopyFacts, AcceptOnce DEF Outstanding
  <2>4. Outstanding(w, accepted', draws)
      BY <1>u, <2>1, <2>2, <2>3, CopyFacts, UsedTokens
  <2>5. w \in User /\ SameLife(u, w) /\ w.sessions = u.sessions
      BY <1>u, EmailType, LifeKept, SessionsKeptToo
  <2> HIDE DEF w
  <2>6. w.present /\ DateKept(w)
      BY <2>1, <2>5, CopyFacts DEF SameLife, SameFields, DateKept
  <2> QED
      BY <2>1, <2>3, <2>4, <2>5, <2>6, OpeningSave
<1>3. CASE ResendVerificationLoad(r)
    BY <1>3, SerialBegin, PlainFound DEF ResendVerificationLoad
<1>4. CASE ResendVerificationSave(r)
  <2>1. Holds(req[r])
      BY <1>4 DEF ResendVerificationSave
  <2>2. Outstanding(refreshVerificationToken(u, draws + 1, now), accepted, draws + 1)
      BY <1>u, <2>1, CopyFacts, DrawnTokens DEF SerialInv
  <2> QED
      BY <1>4, <1>u, <2>1, <2>2, DrawSave, LifeKept, SessionsKeptToo
      DEF ResendVerificationSave
<1>5. CASE RequestEmailChangeLoad(r)
    BY <1>5, SerialBegin, PlainFound DEF RequestEmailChangeLoad
<1>6. CASE RequestEmailChangeSave(r)
  <2>1. Holds(req[r])
      BY <1>6 DEF RequestEmailChangeSave
  <2>2. PICK e \in Emails : SaveWithDraw(r, requestEmailChange(u, e, draws + 1, now))
      BY <1>6 DEF RequestEmailChangeSave
  <2>3. Outstanding(requestEmailChange(u, e, draws + 1, now), accepted, draws + 1)
      BY <1>u, <2>1, CopyFacts, DrawnTokens DEF SerialInv
  <2> QED
      BY <1>u, <2>1, <2>2, <2>3, DrawSave, LifeKept, SessionsKeptToo
<1>7. CASE ConfirmEmailChangeLoad(r)
  <2>1. FoundAt([op |-> "confirmEmailChange", user |-> db, sid |-> NoId,
                 arg |-> db.verification.id], handed)
      BY <1>7 DEF ConfirmEmailChangeLoad, FoundAt
  <2> QED
      BY <1>7, <2>1, SerialBegin DEF ConfirmEmailChangeLoad
<1>8. CASE ConfirmEmailChangeSave(r)
  <2> DEFINE v == confirmEmailChange(u)
  <2>1. /\ req[r].op = "confirmEmailChange" /\ Save(r, v) /\ Accept(req[r].arg, 0)
        /\ UNCHANGED <<draws, handed, challenge>>
      BY <1>8 DEF ConfirmEmailChangeSave
  <2>2. /\ req[r].arg = u.verification.id /\ u.verification.id # 0
        /\ u.verification.id \in Nat
      BY <1>u, <1>8, <2>1, CopyFacts, UserFacts DEF FoundAt, ConfirmEmailChangeSave
  <2>3. accepted' = accepted \cup {<<u.verification.id, 0, 1>>} /\ Once(accepted', draws)
      BY <2>1, <2>2, CopyFacts, AcceptOnce DEF Outstanding
  <2>4. Outstanding(v, accepted', draws)
      BY <1>u, <2>1, <2>2, <2>3, CopyFacts, UsedTokens
  <2>5. SameLife(u, v) /\ Closing(u, v)
      BY <1>u, LifeKept, SessionsKeptToo, KeptCloses
  <2> HIDE DEF v
  <2> QED
      BY <2>1, <2>3, <2>4, <2>5, LifeSave
<1>9. CASE UpdateAccountLoad(r) \/ UploadAvatarLoad(r) \/ RemoveAvatarLoad(r)
    BY <1>9, SerialBegin, PlainFound
    DEF UpdateAccountLoad, UploadAvatarLoad, RemoveAvatarLoad
<1>10. CASE UpdateAccountSave(r) \/ UploadAvatarSave(r) \/ RemoveAvatarSave(r)
    BY <1>10, <1>p, PlainSave DEF UpdateAccountSave, UploadAvatarSave, RemoveAvatarSave
<1>11. CASE ScheduleDeletionLoad(r)
    BY <1>11, SerialBegin, PlainFound DEF ScheduleDeletionLoad
<1>12. CASE ScheduleDeletionSave(r)
  <2> DEFINE v == scheduleDeletion(u, now)
  <2>1. /\ req[r].op = "scheduleDeletion" /\ Save(r, v)
        /\ UNCHANGED <<draws, handed, challenge>> /\ accepted' = accepted
      BY <1>12 DEF ScheduleDeletionSave, SaveOnly
  <2>2. /\ v.present = u.present /\ v.scheduledForDeletionAt = now + GracePeriod
        /\ v.verification = u.verification /\ v.reset = u.reset /\ v.mfa = u.mfa
      BY <1>u DEF scheduleDeletion, User
  <2>3. Closing(u, v)
      BY <1>u, SessionsKeptToo, KeptCloses
  <2> HIDE DEF v
  <2>4. v.present /\ DateKept(v) /\ ChallengeKept(v)
      BY <2>1, <2>2, CopyFacts DEF DateKept, ChallengeKept
  <2>5. Outstanding(v, accepted, draws) /\ Once(accepted, draws)
    <3>1. Outstanding(u, accepted, draws)
        BY <2>1, CopyFacts
    <3> QED
        BY <2>2, <3>1 DEF Outstanding, SerialInv
  <2>6. \A s \in SessionIds : SameUse(s)
      BY <2>1 DEF SameUse
  <2> QED
      BY <2>1, <2>3, <2>4, <2>5, <2>6, QuietSave
<1>13. CASE RestoreLoad(r)
    BY <1>13, SerialBegin, PlainFound DEF RestoreLoad
<1>14. CASE RestoreSave(r)
  <2> DEFINE w == cancelDeletion(u)
  <2>1. req[r].op = "restore" /\ OpenSession(r, w) /\ accepted' = accepted
      BY <1>14 DEF RestoreSave
  <2>2. /\ w.present = u.present /\ w.scheduledForDeletionAt = 0
        /\ w.verification = u.verification /\ w.reset = u.reset /\ w.mfa = u.mfa
      BY <1>u DEF cancelDeletion, User
  <2>3. w \in User /\ w.sessions = u.sessions
      BY <1>u, DeletionType, SessionsKeptToo
  <2> HIDE DEF w
  <2>4. w.present /\ DateKept(w)
      BY <2>1, <2>2, CopyFacts DEF DateKept
  <2>5. Outstanding(w, accepted, draws) /\ Once(accepted, draws)
    <3>1. Outstanding(u, accepted, draws)
        BY <2>1, CopyFacts
    <3> QED
        BY <2>2, <3>1 DEF Outstanding, SerialInv
  <2> QED
      BY <2>1, <2>3, <2>4, <2>5, OpeningSave
<1>15. CASE DeleteAccountLoad(r)
    BY <1>15, SerialBeginDeletion DEF DeleteAccountLoad
<1>16. CASE DeleteAccountDelete(r) \/ HardDeletionDelete(r)
    BY <1>16, DeleteSerial DEF DeleteAccountDelete, HardDeletionDelete
<1>17. CASE HardDeletionLoad(r)
    BY <1>17, SerialBeginDeletion DEF HardDeletionLoad, DueAt
<1> QED
    BY <1>1, <1>2, <1>3, <1>4, <1>5, <1>6, <1>7, <1>8, <1>9, <1>10, <1>11, <1>12, <1>13,
       <1>14, <1>15, <1>16, <1>17 DEF ManageAccount

\* Sessions that are past their date when they are purged are closed already.
LEMMA CleanSerial ==
    ASSUME TypeOK, SerialInv, CleanExpiredSessions PROVE SerialStep
<1> DEFINE expired == {s \in SessionIds : /\ db.sessions[s].state # "absent"
                                          /\ db.sessions[s].expiresAt <= now}
           kept == [s \in SessionIds |-> IF s \in expired THEN NoSession ELSE db.sessions[s]]
           v == [db EXCEPT !.sessions = kept]
<1>1. /\ db' = v
      /\ UNCHANGED <<req, now, draws, handed, challenge, accepted>>
    BY DEF CleanExpiredSessions
<1>d. db \in User /\ now \in Nat
    BY TypeFacts
<1>2. SameFields(db, v) /\ v.failed = db.failed /\ v.sessions = kept
    BY <1>d DEF SameFields, User
<1>3. \A s \in SessionIds :
          \/ v.sessions[s] = db.sessions[s]
          \/ /\ v.sessions[s].state = "absent" /\ db.sessions[s].state # "absent"
             /\ db.sessions[s].expiresAt <= now
  <2>1. \A s \in SessionIds :
            kept[s] = IF s \in expired THEN NoSession ELSE db.sessions[s]
      OBVIOUS
  <2>2. NoSession.state = "absent"
      BY DEF NoSession
  <2> HIDE DEF v, kept
  <2> QED
      BY <1>2, <2>1, <2>2
<1> HIDE DEF v
<1>4. ASSUME NEW k \in Requests PROVE CopyAt(req[k], v, now, handed)
  <2>1. CopyAt(req[k], db, now, handed)
      BY DEF SerialInv
  <2>2. v.present = db.present /\ (DueAt(db, now) => DueAt(v, now))
      BY <1>2 DEF SameFields, DueAt
  <2>3. ASSUME Holds(req[k])
        PROVE  /\ SameFields(v, req[k].user) /\ SameSessions(v, req[k].user, now, handed)
               /\ req[k].user.failed = v.failed /\ FoundAt(req[k], handed)
    <3>1. /\ SameFields(db, req[k].user)
          /\ SameSessions(db, req[k].user, now, handed) /\ FoundAt(req[k], handed)
          /\ req[k].user.failed = db.failed
        BY <2>1, <2>3 DEF CopyAt
    <3>2. SameSessions(v, req[k].user, now, handed)
        BY <1>3, <3>1 DEF SameSessions, SerialInv, Unopened
    <3> QED
        BY <1>2, <3>1, <3>2 DEF SameFields
  <2> QED
      BY <2>1, <2>2, <2>3 DEF CopyAt
<1>5. Outstanding(v, accepted, draws)
    BY <1>2, OutstandingFrame DEF SerialInv
<1>6. Unopened(v, handed)
    BY <1>3 DEF SerialInv, Unopened
<1>7. ChallengedAt(v, now, challenge)
    BY <1>2 DEF SerialInv, ChallengedAt, SameFields
<1>8. SerialInv'
    BY <1>1, <1>4, <1>5, <1>6, <1>7 DEF SerialInv
<1>9. SessionStep
    BY <1>1, <1>3 DEF SessionStep, SameUse, IsOpen
<1> QED
    BY <1>1, <1>2, <1>8, <1>9 DEF SerialStep, DueDeletion, SameFields

LEMMA TickSerial ==
    ASSUME TypeOK, SerialInv, Tick PROVE SerialStep
<1>1. now' = now + 1 /\ UNCHANGED <<db, req, draws, handed, challenge, accepted>>
    BY DEF Tick
<1>2. /\ now \in Nat /\ challenge \in Nat /\ ChallengeTtl \in Nat /\ db \in User
      /\ \A s \in SessionIds : db.sessions[s].expiresAt \in Nat
    BY TypeFacts, UserFacts, TtlAssumption
<1>3. ASSUME NEW k \in Requests PROVE CopyAt(req[k], db, now + 1, handed)
  <2>1. CopyAt(req[k], db, now, handed) /\ req[k].user \in User
      BY CopyType DEF SerialInv
  <2>2. SameSessions(db, req[k].user, now, handed) =>
            SameSessions(db, req[k].user, now + 1, handed)
    <3>1. \A s \in SessionIds : req[k].user.sessions[s].expiresAt \in Nat
        BY <2>1, UserFacts
    <3>2. \A s \in SessionIds : req[k].user.sessions[s].expiresAt <= now =>
                                  req[k].user.sessions[s].expiresAt <= now + 1
        BY <1>2, <3>1
    <3> QED
        BY <3>2, Zenon DEF SameSessions
  <2>3. DueAt(db, now) => DueAt(db, now + 1)
      BY <1>2, UserFacts DEF DueAt
  <2> QED
      BY <2>1, <2>2, <2>3 DEF CopyAt
<1>4. ChallengedAt(db, now + 1, challenge)
    BY <1>2 DEF SerialInv, ChallengedAt
<1>5. SerialInv'
    BY <1>1, <1>3, <1>4 DEF SerialInv
<1>6. SessionStep
    BY <1>1, <1>2 DEF SessionStep, SameUse, IsOpen
<1> QED
    BY <1>1, <1>5, <1>6 DEF SerialStep, DueDeletion

\* Every step of the specification.
LEMMA NextSerial ==
    ASSUME TypeOK, OneAtATime, SerialInv, [Next]_vars PROVE SerialStep
<1>1. ASSUME NEW r \in Requests, SignIn(r) \/ ManageSessions(r) PROVE SerialStep
    BY <1>1, SignInSerial, ManageSessionsSerial
<1>2. ASSUME NEW r \in Requests, ManageCredentials(r) \/ ManageAccount(r) PROVE SerialStep
    BY <1>2, ManageCredentialsSerial, ManageAccountSerial
<1>3. ASSUME NEW r \in Requests, Fail(r) PROVE SerialStep
  <2>1. \A k \in Requests : CopyAt(req'[k], db', now', handed')
      BY <1>3, IdleCopy DEF Fail, TypeOK, SerialInv
  <2>2. SerialInv'
      BY <1>3, <2>1 DEF Fail, SerialInv
  <2> QED
      BY <1>3, <2>2, StillStep DEF Fail, SerialStep
<1>4. ASSUME NEW r \in Requests, ReadLater(r) PROVE SerialStep
    BY <1>4, ReadLaterSerial
<1>5. CASE CleanExpiredSessions
    BY <1>5, CleanSerial
<1>6. CASE Tick
    BY <1>6, TickSerial
<1>7. CASE UNCHANGED vars
  <2>1. SerialInv'
      BY <1>7 DEF vars, SerialInv
  <2> QED
      BY <1>7, <2>1, StillStep DEF vars, SerialStep
<1> QED
    BY <1>1, <1>2, <1>3, <1>4, <1>5, <1>6, <1>7 DEF Next

LEMMA InitSerial ==
    ASSUME Init PROVE SerialInv
<1>1. /\ req = [r \in Requests |-> Idle] /\ now = 0 /\ draws = 1 /\ accepted = {}
      /\ challenge = 0 /\ handed = [s \in SessionIds |-> 0]
    BY DEF Init
<1>2. /\ db.verification.id \in {0, 1} /\ db.reset.id = 0 /\ db.scheduledForDeletionAt = 0
      /\ db.mfa = NoMfa /\ \A s \in SessionIds : db.sessions[s] = NoSession
  <2>1. /\ \A e : createForRegistration(e, 1, 0).verification.id = 1
        /\ \A e : createForRegistration(e, 1, 0).reset = NoToken
        /\ \A e : createForRegistration(e, 1, 0).scheduledForDeletionAt = 0
        /\ \A e : createForRegistration(e, 1, 0).mfa = NoMfa
        /\ \A e : createForRegistration(e, 1, 0).sessions = [s \in SessionIds |-> NoSession]
      BY DEF createForRegistration, NewToken, NoUser
  <2>2. /\ \A e, p : createForOAuthRegistration(e, p).verification = NoToken
        /\ \A e, p : createForOAuthRegistration(e, p).reset = NoToken
        /\ \A e, p : createForOAuthRegistration(e, p).scheduledForDeletionAt = 0
        /\ \A e, p : createForOAuthRegistration(e, p).mfa = NoMfa
        /\ \A e, p : createForOAuthRegistration(e, p).sessions = [s \in SessionIds |-> NoSession]
      BY DEF createForOAuthRegistration, NoUser
  <2>3. NoToken.id = 0
      BY DEF NoToken
  <2>4. CASE \E e \in Emails : db = createForRegistration(e, 1, 0)
      BY <2>1, <2>3, <2>4
  <2>5. CASE \E e \in Emails, p \in Providers : db = createForOAuthRegistration(e, p)
      BY <2>2, <2>3, <2>5
  <2> QED
      BY <2>4, <2>5 DEF Init
<1>3. \A r \in Requests : CopyAt(req[r], db, now, handed)
    BY <1>1, IdleCopy
<1>4. Outstanding(db, accepted, draws)
    BY <1>1, <1>2 DEF Outstanding, NoMfa
<1>5. Once(accepted, draws) /\ Unopened(db, handed)
    BY <1>1, <1>2 DEF Once, Unopened, NoSession
<1>6. ChallengedAt(db, now, challenge)
    BY <1>1, <1>2, TtlAssumption DEF ChallengedAt
<1> QED
    BY <1>3, <1>4, <1>5, <1>6 DEF SerialInv

-----------------------------------------------------------------------------
(* The theorems.                                                            *)

\* While requests do not overlap, a copy in flight is the row, apart from sessions
\* purged since; nothing the row offers was used.
THEOREM SerialInvariant == ASSUME OneAtATime PROVE Spec => []SerialInv
<1>1. TypeOK /\ SerialInv /\ [Next]_vars => SerialInv'
    BY NextSerial DEF SerialStep
<1>2. Init => SerialInv
    BY InitSerial
<1> QED
    BY <1>1, <1>2, TypeInvariant, PTL DEF Spec

\* A reset token, a verification token and a backup code are accepted once.
THEOREM OneTimeInvariant == ASSUME OneAtATime PROVE Spec => []OneTime
<1>1. SerialInv => OneTime
    BY DEF SerialInv, Once, OneTime
<1> QED
    BY <1>1, SerialInvariant, PTL

\* An account whose deletion is scheduled is handed no further challenge: none expires
\* later than one that was handed out at the moment of the scheduling.
THEOREM ChallengeInvariant == ASSUME OneAtATime PROVE Spec => []NoChallengeOnceScheduled
<1>1. SerialInv => NoChallengeOnceScheduled
    BY DEF SerialInv, ChallengedAt, NoChallengeOnceScheduled
<1> QED
    BY <1>1, SerialInvariant, PTL

\* The midnight task deletes an account only while its deletion is scheduled and due: the
\* snapshot it works from is then no older than the row.
THEOREM DueTheorem == ASSUME OneAtATime PROVE Spec => DeletedWhenDue
<1>1. TypeOK /\ SerialInv /\ [Next]_vars =>
          [db.present /\ ~db'.present =>
              \/ \E r \in Requests : req[r].op = "deleteAccount" /\ req'[r].op = "idle"
              \/ db.scheduledForDeletionAt # 0 /\ db.scheduledForDeletionAt <= now]_vars
    BY NextSerial DEF SerialStep, DueDeletion
<1> QED
    BY <1>1, SerialInvariant, TypeInvariant, PTL DEF Spec, DeletedWhenDue

-----------------------------------------------------------------------------
(* Sessions close for good: the steps are those of SessionLedger.           *)

LEMMA LedgerValue ==
    ASSUME NEW s \in SessionIds
    PROVE  /\ handed[s] = 0 => ledger[s] = "unused"
           /\ handed[s] # 0 /\ IsOpen(s) => ledger[s] = "open"
           /\ handed[s] # 0 /\ ~IsOpen(s) => ledger[s] = "closed"
           /\ handed'[s] = 0 => ledger'[s] = "unused"
           /\ handed'[s] # 0 /\ IsOpen(s)' => ledger'[s] = "open"
           /\ handed'[s] # 0 /\ ~IsOpen(s)' => ledger'[s] = "closed"
BY DEF ledger

LEMMA LedgerStep ==
    ASSUME SessionStep PROVE Ledger!Next \/ ledger' = ledger
<1>d. /\ ledger = [s \in SessionIds |-> ledger[s]]
      /\ ledger' = [s \in SessionIds |-> ledger'[s]]
    BY DEF ledger
<1>1. CASE \A s \in SessionIds : SameUse(s) /\ (IsOpen(s)' => IsOpen(s))
  <2> DEFINE S == {s \in SessionIds : ledger[s] = "open" /\ ledger'[s] = "closed"}
  <2>1. \A s \in SessionIds : ledger'[s] = IF s \in S THEN "closed" ELSE ledger[s]
      BY <1>1, LedgerValue DEF SameUse
  <2>2. ledger' = [s \in SessionIds |-> IF s \in S THEN "closed" ELSE ledger[s]]
      BY <1>d, <2>1
  <2>3. CASE S = {}
      BY <1>d, <2>2, <2>3
  <2>4. CASE S # {}
    <3>1. Ledger!Close(S)
        BY <2>2, <2>4 DEF Ledger!Close
    <3> QED
        BY <3>1 DEF Ledger!Next
  <2> QED
      BY <2>3, <2>4
<1>2. ASSUME NEW sid \in SessionIds, OpensOne(sid) PROVE Ledger!Next
  <2>1. ledger[sid] = "unused" /\ ledger'[sid] = "open"
      BY <1>2, LedgerValue DEF OpensOne
  <2>2. \A s \in SessionIds \ {sid} : ledger'[s] = ledger[s]
      BY <1>2, LedgerValue DEF OpensOne, SameUse
  <2>3. ledger' = [ledger EXCEPT ![sid] = "open"]
      BY <1>d, <2>1, <2>2
  <2> QED
      BY <2>1, <2>3 DEF Ledger!Next, Ledger!Open
<1> QED
    BY <1>1, <1>2 DEF SessionStep

\* The use cases keep the promise of SessionLedger: a session is opened once, and when
\* it is closed (logout, revocation, expiry, purge, deletion) it stays closed.
THEOREM SessionsRefined == ASSUME OneAtATime PROVE Spec => SessionsCloseForGood
<1>1. Init => Ledger!Init
    BY DEF Init, Ledger!Init, ledger
<1>2. TypeOK /\ SerialInv /\ [Next]_vars => [Ledger!Next]_ledger
    BY NextSerial, LedgerStep DEF SerialStep
<1> QED
    BY <1>1, <1>2, SerialInvariant, TypeInvariant, PTL
    DEF Spec, SessionsCloseForGood, Ledger!Spec

-----------------------------------------------------------------------------
(* Failed logins.                                                           *)

\* A wrong password is counted in the row, because the copy has the count of the row.
LEMMA FailuresAdd ==
    ASSUME TypeOK, OneAtATime, SerialInv, NEW r \in Requests, WrongPassword(r)
    PROVE  db'.failed.count = clearExpiredLock(db, now).failed.count + 1
<1> DEFINE u == req[r].user
           w == clearExpiredLock(u, now)
<1>1. /\ req[r].op = "login" /\ u \in User /\ db \in User
      /\ SaveOnly(r, handleFailedLogin(w, now))
    BY CopyType, TypeFacts DEF WrongPassword, Compares
<1>2. db.present /\ u.failed = db.failed
    BY <1>1 DEF SerialInv, CopyAt
<1>3. w.failed = clearExpiredLock(db, now).failed
    BY <1>1, <1>2 DEF clearExpiredLock, User
<1>4. w \in User
    BY <1>1, FailedLoginType, TypeFacts
<1> HIDE DEF w
<1>5. db' = handleFailedLogin(w, now)
    BY <1>1, <1>2 DEF SaveOnly, Save
<1>6. db'.failed.count = w.failed.count + 1
    BY <1>4, <1>5 DEF handleFailedLogin, recordFailure, User
<1> QED
    BY <1>3, <1>6

\* Every wrong password leaves the row with one failure more, or with the first one
\* after a lock that has run out (LoginUseCase, FailedLoginState.recordFailure).
THEOREM FailureTheorem == ASSUME OneAtATime PROVE Spec => FailureCounted
<1> DEFINE Counted == \A r \in Requests :
          WrongPassword(r) =>
              db'.failed.count = clearExpiredLock(db, now).failed.count + 1
<1>1. TypeOK /\ SerialInv /\ [Next]_vars => [Counted]_vars
    BY FailuresAdd
<1> QED
    BY <1>1, SerialInvariant, TypeInvariant, PTL DEF Spec, FailureCounted

=============================================================================
