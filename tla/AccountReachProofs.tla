--------------------------- MODULE AccountReachProofs ---------------------------
(***************************************************************************)
(* What overlapping requests cannot do, for any number of slots: what no    *)
(* copy holds any more stays lost.  Every copy after a step is made of the   *)
(* rows of copies before it, mostly of one: it has no session open, no token *)
(* and no code that none of them had, but for those the step made, and no    *)
(* older password and no shorter lock.                                       *)
(***************************************************************************)
EXTENDS AccountRequestsProofs

-----------------------------------------------------------------------------
(* Copies and their descendants.                                            *)

\* The account v is there only if u is, has no older password and, as far as it
\* matters from now on, no shorter lock.
Follows(u, v) ==
    /\ v.present => u.present
    /\ \A n \in Nat : v.present /\ v.pw <= n => u.pw <= n
    /\ \A t \in Nat :
          now <= t /\ v.present /\ v.failed.lockedUntil <= t => u.failed.lockedUntil <= t

\* v follows u and has nothing that u has not.
Inherits(u, v) ==
    /\ Follows(u, v)
    /\ \A s \in SessionIds :
          v.sessions[s].state = "active" => u.sessions[s].state = "active"
    /\ \A d \in Nat \ {0}, c \in Nat : Offers(v, d, c) => Offers(u, d, c)

\* v follows u and has nothing that u has not, apart from sessions opened by this step
\* and from what the draws up to n made.
Descends(u, v, n) ==
    /\ Follows(u, v)
    /\ \A s \in SessionIds :
          handed[s] > 0 /\ v.sessions[s].state = "active" => u.sessions[s].state = "active"
    /\ \A d \in Nat \ {0}, c \in Nat :
          Offers(v, d, c) => Offers(u, d, c) \/ (draws < d /\ d <= n)

\* The rows of v come from copies before the step, not necessarily all from the same.
Made(v, n) ==
    /\ \E u \in Copies : Follows(u, v)
    /\ \A s \in SessionIds :
          handed[s] > 0 /\ v.sessions[s].state = "active" =>
              \E u \in Copies : u.sessions[s].state = "active"
    /\ \A d \in Nat \ {0}, c \in Nat :
          Offers(v, d, c) => (\E u \in Copies : Offers(u, d, c)) \/ (draws < d /\ d <= n)

\* A request that accepts a token was asked with one.
AskedAt(q) ==
    q.op \in {"resetPassword", "verifyEmail", "confirmEmailChange"} => q.arg # 0

\* Whatever is on offer, and whatever was accepted, has been drawn.
Reach ==
    /\ \A u \in Copies : \A d \in Nat \ {0}, c \in Nat : Offers(u, d, c) => d <= draws
    /\ \A x \in accepted : x[1] # 0 /\ x[1] <= draws
    /\ \A r \in Requests : AskedAt(req[r])

\* What a step does to the copies and to what has been accepted.
AcceptsOffered ==
    \A x \in accepted' \ accepted :
        x[1] \in Nat \ {0} /\ x[2] \in Nat /\ \E u \in Copies : Offers(u, x[1], x[2])

ReachStep ==
    /\ \A v \in Copies' : Made(v, draws')
    /\ \A s \in SessionIds : handed[s] > 0 => handed'[s] > 0
    /\ draws <= draws'
    /\ accepted \subseteq accepted'
    /\ AcceptsOffered
    /\ \A r \in Requests : AskedAt(req'[r])

LEMMA ReachTypes ==
    ASSUME TypeOK
    PROVE  /\ db \in User /\ now \in Nat /\ draws \in Nat
           /\ handed \in [SessionIds -> Nat] /\ req \in [Requests -> Request]
           /\ \A r \in Requests : req[r].user \in User
           /\ \A r \in Requests : req[r].arg \in Nat
           /\ \A x \in accepted : x[1] \in Nat /\ x[2] \in Nat
BY CopyType DEF TypeOK, Request

LEMMA UserNumbers ==
    ASSUME NEW u \in User
    PROVE  /\ u.verification.id \in Nat /\ u.reset.id \in Nat
           /\ u.mfa.secret \in Nat /\ u.mfa.pendingSecret \in Nat
           /\ u.mfa.backupCodes \subseteq BackupCodes /\ u.mfa \in MfaConfiguration
BY DEF User, Token, MfaConfiguration

LEMMA CopyTypes == TypeOK' => Copies' \subseteq User
<1> SUFFICES ASSUME TypeOK' PROVE Copies' \subseteq User
    OBVIOUS
<1>1. db' \in User /\ \A r \in Requests : req'[r].user \in User
    BY DEF TypeOK, Request
<1> QED
    BY <1>1 DEF Copies

LEMMA InheritsItself == \A u : Inherits(u, u)
BY DEF Inherits, Follows

LEMMA InheritsOn ==
    ASSUME NEW u, NEW v, NEW w, Inherits(u, v), Inherits(v, w) PROVE Inherits(u, w)
BY DEF Inherits, Follows

LEMMA DescendsOf ==
    ASSUME NEW u, NEW v, NEW n, Inherits(u, v) PROVE Descends(u, v, n)
BY DEF Inherits, Descends

LEMMA DescendsOn ==
    ASSUME NEW u, NEW v, NEW w, NEW n, Descends(u, v, n), Inherits(v, w)
    PROVE  Descends(u, w, n)
BY DEF Inherits, Descends, Follows

LEMMA DescendsMade ==
    ASSUME NEW u \in Copies, NEW v, NEW n, Descends(u, v, n) PROVE Made(v, n)
BY DEF Descends, Made

\* The methods that touch neither sessions nor MFA, lift no lock, and make no token.
LEMMA KeptInherits ==
    ASSUME NEW u \in User, NEW v, v.present = u.present, v.sessions = u.sessions,
           v.failed = u.failed, v.mfa = u.mfa, v.verification.id \in {0, u.verification.id},
           v.reset.id \in {0, u.reset.id}, v.pw \in {u.pw, u.pw + 1}
    PROVE  Inherits(u, v)
<1>1. \A n \in Nat : v.pw <= n => u.pw <= n
    BY DEF User
<1> QED
    BY <1>1 DEF Inherits, Follows, Offers

-----------------------------------------------------------------------------
(* The methods of the aggregate.                                            *)

LEMMA PlainInherits ==
    ASSUME NEW u \in User
    PROVE  /\ Inherits(u, CreateBranch(u))
           /\ Inherits(u, updatePassword(u))
           /\ Inherits(u, changePassword(u))
           /\ Inherits(u, verifyEmail(u))
           /\ Inherits(u, confirmEmailChange(u))
           /\ \A t : Inherits(u, scheduleDeletion(u, t))
           /\ Inherits(u, cancelDeletion(u))
           /\ \A p : Inherits(u, linkOAuthAccount(u, p))
           /\ \A p : Inherits(u, unlinkOAuthProvider(u, p))
<1> DEFINE same(v) ==
        /\ v.present = u.present /\ v.sessions = u.sessions /\ v.mfa = u.mfa
        /\ v.failed = u.failed /\ v.verification.id \in {0, u.verification.id}
        /\ v.reset.id \in {0, u.reset.id} /\ v.pw \in {u.pw, u.pw + 1}
<1>1. \A v : same(v) => Inherits(u, v)
    BY KeptInherits
<1>2. same(CreateBranch(u)) /\ same(updatePassword(u))
    BY DEF CreateBranch, updatePassword, User, NoToken
<1>3. same(changePassword(u)) /\ same(verifyEmail(u)) /\ same(confirmEmailChange(u))
    BY DEF changePassword, verifyEmail, confirmEmailChange, User, NoToken
<1>4. same(cancelDeletion(u)) /\ \A t : same(scheduleDeletion(u, t))
    BY DEF cancelDeletion, scheduleDeletion, User
<1>5. \A p : same(linkOAuthAccount(u, p)) /\ same(unlinkOAuthProvider(u, p))
    BY DEF linkOAuthAccount, unlinkOAuthProvider, User
<1> HIDE DEF same
<1> QED
    BY <1>1, <1>2, <1>3, <1>4, <1>5

\* A login whose copy is not locked any more records its outcome.
LEMMA FailedInherits ==
    ASSUME TypeOK, NEW u \in User, ~IsLocked(u.failed, now)
    PROVE  /\ Inherits(u, handleFailedLogin(clearExpiredLock(u, now), now))
           /\ Inherits(u, resetFailedLogins(u))
<1> DEFINE same(v) ==
        /\ v.present = u.present /\ v.pw = u.pw /\ v.sessions = u.sessions /\ v.mfa = u.mfa
        /\ v.verification = u.verification /\ v.reset = u.reset
<1>1. \A t \in Nat : now <= t => u.failed.lockedUntil <= t
    BY ReachTypes DEF IsLocked, User, FailedLogin
<1>2. ASSUME NEW v, same(v) PROVE Inherits(u, v)
    BY <1>1, <1>2 DEF Inherits, Follows, Offers
<1>3. same(handleFailedLogin(clearExpiredLock(u, now), now)) /\ same(resetFailedLogins(u))
    BY DEF handleFailedLogin, clearExpiredLock, resetFailedLogins, User
<1> HIDE DEF same
<1> QED
    BY <1>2, <1>3

\* Sessions are revoked, and tokens rotated.
LEMMA SessionInherits ==
    ASSUME NEW u \in User
    PROVE  /\ \A S, t : Inherits(u, RevokeIn(u, S, t))
           /\ \A sid, n : Inherits(u, rotateToken(u, sid, n))
<1>1. ASSUME NEW S, NEW t PROVE Inherits(u, RevokeIn(u, S, t))
  <2> DEFINE v == RevokeIn(u, S, t)
  <2>1. /\ v.present = u.present /\ v.pw = u.pw /\ v.mfa = u.mfa
        /\ v.failed = u.failed /\ v.verification = u.verification /\ v.reset = u.reset
      BY DEF RevokeIn, User
  <2>2. \A s \in SessionIds :
            v.sessions[s].state = "active" => u.sessions[s].state = "active"
      BY DEF RevokeIn, IsValid, User, Session
  <2> QED
      BY <2>1, <2>2 DEF Inherits, Follows, Offers
<1>2. ASSUME NEW sid, NEW n PROVE Inherits(u, rotateToken(u, sid, n))
  <2> DEFINE v == rotateToken(u, sid, n)
  <2>1. /\ v.present = u.present /\ v.pw = u.pw /\ v.mfa = u.mfa
        /\ v.failed = u.failed /\ v.verification = u.verification /\ v.reset = u.reset
      BY DEF rotateToken, User
  <2>2. \A s \in SessionIds : v.sessions[s].state = u.sessions[s].state
      BY DEF rotateToken, User, Session
  <2> QED
      BY <2>1, <2>2 DEF Inherits, Follows, Offers
<1> QED
    BY <1>1, <1>2

\* Enabling MFA turns the pending secret into the secret: its codes were on offer.
LEMMA MfaInherits ==
    ASSUME NEW u \in User
    PROVE  /\ Inherits(u, enableMfa(u))
           /\ Inherits(u, disableMfa(u))
           /\ \A c : Inherits(u, consumeMfaBackupCode(u, c))
<1> DEFINE same(v) == /\ v.present = u.present /\ v.pw = u.pw /\ v.sessions = u.sessions
                      /\ v.failed = u.failed /\ v.verification = u.verification
                      /\ v.reset = u.reset
<1>1. /\ same(enableMfa(u)) /\ enableMfa(u).mfa.pendingSecret = 0
      /\ enableMfa(u).mfa.secret = u.mfa.pendingSecret
    BY DEF enableMfa, User
<1>2. /\ same(disableMfa(u)) /\ disableMfa(u).mfa.pendingSecret = 0
      /\ disableMfa(u).mfa.secret = 0
    BY DEF disableMfa, NoMfa, User
<1>3. ASSUME NEW c
      PROVE  LET v == consumeMfaBackupCode(u, c)
             IN  /\ same(v) /\ v.mfa.pendingSecret = u.mfa.pendingSecret
                 /\ v.mfa.secret = u.mfa.secret
                 /\ v.mfa.backupCodes \subseteq u.mfa.backupCodes
    BY UserNumbers DEF consumeMfaBackupCode, User, MfaConfiguration
<1>4. ASSUME NEW v, same(v), v.mfa.pendingSecret = 0,
             v.mfa.secret \in {0, u.mfa.pendingSecret}
      PROVE  Inherits(u, v)
    BY <1>4 DEF Inherits, Follows, Offers
<1>5. ASSUME NEW v, same(v), v.mfa.pendingSecret = u.mfa.pendingSecret,
             v.mfa.secret = u.mfa.secret, v.mfa.backupCodes \subseteq u.mfa.backupCodes
      PROVE  Inherits(u, v)
    BY <1>5 DEF Inherits, Follows, Offers
<1> HIDE DEF same
<1> QED
    BY <1>1, <1>2, <1>3, <1>4, <1>5

\* A token or a secret that is made anew has the next number.
LEMMA DrawnDescends ==
    ASSUME TypeOK, NEW u \in User, NEW t
    PROVE  /\ Descends(u, setResetToken(u, draws + 1, t), draws + 1)
           /\ Descends(u, refreshVerificationToken(u, draws + 1, t), draws + 1)
           /\ \A e : Descends(u, requestEmailChange(u, e, draws + 1, t), draws + 1)
           /\ Descends(u, initiateMfaSetup(u, draws + 1), draws + 1)
<1> DEFINE same(v) == /\ v.present = u.present /\ v.pw = u.pw /\ v.sessions = u.sessions
                      /\ v.failed = u.failed
           n == draws + 1
<1>1. n \in Nat /\ draws < n
    BY ReachTypes
<1> HIDE DEF n
<1>2. ASSUME NEW v, same(v), v.mfa = u.mfa, v.verification.id \in {n, u.verification.id},
             v.reset.id \in {n, u.reset.id}
      PROVE  Descends(u, v, n)
    BY <1>1, <1>2 DEF Descends, Follows, Offers
<1>3. ASSUME NEW v, same(v), v.verification = u.verification, v.reset = u.reset,
             v.mfa.secret = u.mfa.secret, v.mfa.backupCodes = u.mfa.backupCodes,
             v.mfa.pendingSecret = n
      PROVE  Descends(u, v, n)
    BY <1>1, <1>3 DEF Descends, Follows, Offers
<1>4. Descends(u, setResetToken(u, n, t), n)
    BY <1>2 DEF setResetToken, NewToken, User
<1>5. Descends(u, refreshVerificationToken(u, n, t), n)
    BY <1>2 DEF refreshVerificationToken, NewToken, User
<1>6. \A e : Descends(u, requestEmailChange(u, e, n, t), n)
    BY <1>2 DEF requestEmailChange, NewToken, User
<1>7. Descends(u, initiateMfaSetup(u, n), n)
    BY <1>3, UserNumbers DEF initiateMfaSetup, User, MfaConfiguration
<1> QED
    BY <1>4, <1>5, <1>6, <1>7 DEF n

\* A session that is opened has not been used before.
LEMMA OpenedDescends ==
    ASSUME NEW u, NEW w \in User, NEW n, Descends(u, w, n), NEW sid \in SessionIds,
           handed[sid] = 0, NEW t
    PROVE  Descends(u, addSession(w, sid, t), n)
<1> DEFINE v == addSession(w, sid, t)
<1>1. /\ v.present = w.present /\ v.pw = w.pw /\ v.mfa = w.mfa
      /\ v.failed = w.failed /\ v.verification = w.verification /\ v.reset = w.reset
    BY DEF addSession, User
<1>2. \A s \in SessionIds \ {sid} : v.sessions[s] = w.sessions[s]
    BY DEF addSession, User
<1> HIDE DEF v
<1>3. \A s \in SessionIds :
          handed[s] > 0 /\ v.sessions[s].state = "active" => u.sessions[s].state = "active"
    BY <1>2 DEF Descends
<1>4. \A d, c : Offers(v, d, c) <=> Offers(w, d, c)
    BY <1>1 DEF Offers
<1> QED
    BY <1>1, <1>3, <1>4 DEF Descends, Follows, v

\* A row that is gone descends from any.
LEMMA NoUserInherits == \A u : Inherits(u, NoUser)
BY DEF Inherits, Follows, Offers, NoUser, NoSession, NoToken, NoMfa

-----------------------------------------------------------------------------
(* The parts of the actions.                                                *)

\* What a request has at hand.
LEMMA CopyReach ==
    ASSUME TypeOK, Reach, NEW r \in Requests
    PROVE  /\ req[r].user \in Copies /\ db \in Copies
           /\ req[r].user \in User /\ req[r].arg \in Nat /\ AskedAt(req[r])
BY ReachTypes DEF Copies, Reach

\* Most requests do not speak of a token.
LEMMA PlainAsked ==
    ASSUME NEW op, op \notin {"resetPassword", "verifyEmail", "confirmEmailChange"}
    PROVE  \A u, sid, n : AskedAt([op |-> op, user |-> u, sid |-> sid, arg |-> n])
BY DEF AskedAt

LEMMA IdleReach == Idle.user = NoUser /\ AskedAt(Idle)
BY DEF Idle, AskedAt

\* Nothing is accepted and nothing is drawn.
Quiet == draws' = draws /\ handed' = handed /\ accepted' = accepted

\* Nothing is accepted.
LEMMA NothingAccepted ==
    ASSUME accepted' = accepted PROVE accepted \subseteq accepted' /\ AcceptsOffered
BY DEF AcceptsOffered

\* The new row and the copy of the slot that changed are made of older copies.
LEMMA ReachSlots ==
    ASSUME TypeOK, Reach, NEW r \in Requests, NEW q, req' = [req EXCEPT ![r] = q],
           AskedAt(q), Made(q.user, draws'), Made(db', draws'),
           \A s \in SessionIds : handed[s] > 0 => handed'[s] > 0,
           draws <= draws', accepted \subseteq accepted', AcceptsOffered
    PROVE  ReachStep
<1>1. \A k \in Requests : req'[k] = IF k = r THEN q ELSE req[k]
    BY ReachTypes
<1>2. \A v \in Copies' : v = db' \/ v = q.user \/ v \in Copies
    BY <1>1 DEF Copies
<1>3. \A u \in Copies : Made(u, draws')
    BY InheritsItself, DescendsOf, DescendsMade
<1>4. \A k \in Requests : AskedAt(req'[k])
    BY <1>1 DEF Reach
<1> QED
    BY <1>2, <1>3, <1>4 DEF ReachStep

\* A step that leaves the slots alone.
LEMMA ReachStill ==
    ASSUME TypeOK, Reach, req' = req, Quiet, Inherits(db, db')
    PROVE  ReachStep
<1>1. \A v \in Copies' : v = db' \/ v \in Copies
    BY DEF Copies
<1>2. \A u \in Copies : Made(u, draws')
    BY InheritsItself, DescendsOf, DescendsMade
<1>3. Made(db', draws')
    BY DescendsOf, DescendsMade DEF Copies
<1>4. draws <= draws'
    BY ReachTypes DEF Quiet
<1>5. \A k \in Requests : AskedAt(req'[k])
    BY DEF Reach
<1> QED
    BY <1>1, <1>2, <1>3, <1>4, <1>5 DEF ReachStep, AcceptsOffered, Quiet

LEMMA ReachBegin ==
    ASSUME TypeOK, Reach, NEW r \in Requests, NEW op, NEW u, NEW sid, NEW n,
           Begin(r, op, u, sid, n), u \in {db, NoUser},
           AskedAt([op |-> op, user |-> u, sid |-> sid, arg |-> n])
    PROVE  ReachStep
<1> DEFINE q == [op |-> op, user |-> u, sid |-> sid, arg |-> n]
<1>1. q.user = u /\ AskedAt(q)
    OBVIOUS
<1>2. /\ req' = [req EXCEPT ![r] = q] /\ db' = db
      /\ draws' = draws /\ handed' = handed /\ accepted' = accepted
    BY DEF Begin
<1> HIDE DEF q
<1>3. Inherits(db, q.user) /\ Inherits(db, db')
    BY <1>1, <1>2, InheritsItself, NoUserInherits
<1>4. Made(q.user, draws') /\ Made(db', draws') /\ draws <= draws'
    BY <1>2, <1>3, CopyReach, DescendsOf, DescendsMade, ReachTypes
<1> QED
    BY <1>1, <1>2, <1>4, ReachSlots DEF AcceptsOffered

\* A late SELECT brings in a row of the account as it is.
LEMMA ReachReadLater ==
    ASSUME TypeOK, Reach, NEW r \in Requests, ReadLater(r)
    PROVE  ReachStep
<1> DEFINE u == req[r].user
<1>1. PICK q \in Request :
          /\ req' = [req EXCEPT ![r] = q]
          /\ q.op = req[r].op /\ q.arg = req[r].arg /\ Mixed(q.user, u)
    BY ReadLaterStep
<1>2. /\ db' = db /\ draws' = draws /\ handed' = handed /\ accepted' = accepted
      /\ draws <= draws'
    BY ReadLaterStep, ReachTypes
<1>3. u \in Copies /\ db \in Copies /\ AskedAt(q)
    BY <1>1, CopyReach DEF AskedAt
<1> DEFINE v == q.user
<1>4. Follows(u, v) \/ Follows(db, v)
    BY <1>1 DEF Mixed, SameAccount, Follows
<1>5. \A s \in SessionIds : v.sessions[s] \in {u.sessions[s], db.sessions[s]}
    BY <1>1 DEF Mixed
<1>6. \A d, c : Offers(v, d, c) => Offers(u, d, c) \/ Offers(db, d, c)
    BY <1>1 DEF Mixed, SameAccount, Offers
<1> HIDE DEF u, v
<1>7. Made(v, draws')
    BY <1>3, <1>4, <1>5, <1>6 DEF Made
<1>8. Made(db', draws')
    BY <1>2, <1>3, InheritsItself, DescendsOf, DescendsMade
<1> QED
    BY <1>1, <1>2, <1>3, <1>7, <1>8, ReachSlots, NothingAccepted DEF v

\* A save of what descends from the copy of the request.
LEMMA ReachSave ==
    ASSUME TypeOK, Reach, NEW r \in Requests, NEW v \in User, Save(r, v),
           Descends(req[r].user, v, draws'),
           \A s \in SessionIds : handed[s] > 0 => handed'[s] > 0,
           draws <= draws', accepted \subseteq accepted', AcceptsOffered
    PROVE  ReachStep
<1>1. /\ db' = IF db.present THEN v ELSE CreateBranch(v)
      /\ req' = [req EXCEPT ![r] = Idle]
    BY DEF Save
<1>2. Descends(req[r].user, db', draws')
    BY <1>1, PlainInherits, DescendsOn
<1>3. Descends(db, Idle.user, draws')
    BY IdleReach, NoUserInherits, DescendsOf
<1> QED
    BY <1>1, <1>2, <1>3, CopyReach, IdleReach, DescendsMade, ReachSlots

LEMMA ReachSaveQuiet ==
    ASSUME TypeOK, Reach, NEW r \in Requests, NEW v \in User, Save(r, v), Quiet,
           Inherits(req[r].user, v)
    PROVE  ReachStep
<1>1. Descends(req[r].user, v, draws') /\ draws <= draws'
    BY DescendsOf, ReachTypes DEF Quiet
<1> QED
    BY <1>1, ReachSave DEF Quiet, AcceptsOffered

LEMMA ReachSaveOnly ==
    ASSUME TypeOK, Reach, NEW r \in Requests, NEW v \in User, SaveOnly(r, v),
           Inherits(req[r].user, v)
    PROVE  ReachStep
BY ReachSaveQuiet DEF SaveOnly, Quiet

LEMMA ReachDraw ==
    ASSUME TypeOK, Reach, NEW r \in Requests, NEW v \in User, SaveWithDraw(r, v),
           Descends(req[r].user, v, draws + 1)
    PROVE  ReachStep
<1>1. /\ Save(r, v) /\ draws' = draws + 1 /\ draws <= draws + 1
      /\ handed' = handed /\ accepted' = accepted
    BY ReachTypes DEF SaveWithDraw
<1> QED
    BY <1>1, ReachSave DEF AcceptsOffered

LEMMA ReachOpen ==
    ASSUME TypeOK, Reach, NEW r \in Requests, NEW w \in User, OpenSession(r, w),
           Inherits(req[r].user, w), accepted \subseteq accepted', AcceptsOffered
    PROVE  ReachStep
<1>1. PICK sid \in SessionIds : /\ handed[sid] = 0
                              /\ Save(r, addSession(w, sid, now)) /\ HandOut(sid, 1)
    BY DEF OpenSession
<1>2. draws' = draws /\ draws <= draws'
    BY ReachTypes DEF OpenSession
<1>3. \A s \in SessionIds : handed[s] > 0 => handed'[s] > 0
    BY <1>1, ReachTypes DEF HandOut
<1>4. Descends(req[r].user, addSession(w, sid, now), draws')
    BY <1>1, DescendsOf, OpenedDescends
<1>5. addSession(w, sid, now) \in User
    BY SessionType, ReachTypes
<1> QED
    BY <1>1, <1>2, <1>3, <1>4, <1>5, ReachSave

\* What is accepted is on offer in the copy that accepts it.
LEMMA AcceptOffered ==
    ASSUME TypeOK, Reach, NEW r \in Requests, NEW d \in Nat \ {0}, NEW c \in Nat,
           Offers(req[r].user, d, c), Accept(d, c)
    PROVE  accepted \subseteq accepted' /\ AcceptsOffered
BY CopyReach DEF Accept, AcceptsOffered

-----------------------------------------------------------------------------
(* One step of each kind of request.                                        *)

\* A request that ends without a save.
LEMMA ReachDropped ==
    ASSUME TypeOK, Reach, NEW r \in Requests, req' = [req EXCEPT ![r] = Idle],
           UNCHANGED <<db, draws, handed, accepted>>
    PROVE  ReachStep
<1>1. Descends(db, NoUser, draws') /\ Descends(db, db', draws')
    BY NoUserInherits, InheritsItself, DescendsOf
<1>2. Made(NoUser, draws') /\ Made(db', draws') /\ draws <= draws'
    BY <1>1, CopyReach, DescendsMade, ReachTypes
<1> QED
    BY <1>2, IdleReach, ReachSlots, NothingAccepted

LEMMA AutoLinkReach ==
    ASSUME TypeOK, Reach, NEW r \in Requests, OAuthAutoLinkSave(r) PROVE ReachStep
<1> DEFINE goesOn(v) == [op |-> "oauthLinked", user |-> v, sid |-> NoId, arg |-> 0]
           u == req[r].user
<1>1. PICK p \in Providers :
          LET v == linkOAuthAccount(u, p)
          IN  /\ db' = IF db.present THEN v ELSE CreateBranch(v)
              /\ \/ req' = [req EXCEPT ![r] = Idle]
                 \/ req' = [req EXCEPT ![r] = goesOn(v)]
    BY DEF OAuthAutoLinkSave
<1> DEFINE v == linkOAuthAccount(u, p)
<1>2. Inherits(u, v) /\ v \in User
    BY CopyReach, PlainInherits, OAuthType
<1>3. /\ db' = IF db.present THEN v ELSE CreateBranch(v)
      /\ req' = [req EXCEPT ![r] = Idle] \/ req' = [req EXCEPT ![r] = goesOn(v)]
      /\ draws' = draws /\ handed' = handed /\ accepted' = accepted /\ draws <= draws'
    BY <1>1, ReachTypes DEF OAuthAutoLinkSave
<1> HIDE DEF v
<1>4. Descends(u, v, draws') /\ Descends(u, db', draws') /\ Descends(u, NoUser, draws')
    BY <1>2, <1>3, PlainInherits, NoUserInherits, DescendsOf, DescendsOn
<1>5. Made(v, draws') /\ Made(db', draws') /\ Made(NoUser, draws')
    BY <1>4, CopyReach, DescendsMade
<1>6. goesOn(v).user = v /\ AskedAt(goesOn(v))
    BY PlainAsked
<1> HIDE DEF goesOn
<1> QED
    BY <1>3, <1>5, <1>6, IdleReach, ReachSlots, NothingAccepted

LEMMA SignInReach ==
    ASSUME TypeOK, Reach, NEW r \in Requests, SignIn(r) PROVE ReachStep
<1> DEFINE u == req[r].user
<1>u. u \in User /\ db \in User /\ now \in Nat /\ Inherits(u, u)
    BY ReachTypes, InheritsItself
<1>1. CASE WrongPassword(r)
  <2> DEFINE v == handleFailedLogin(clearExpiredLock(u, now), now)
  <2>1. v \in User
      BY <1>u, FailedLoginType
  <2>2. Inherits(u, v)
      BY <1>1, <1>u, FailedInherits DEF WrongPassword, Compares
  <2> QED
      BY <1>1, <2>1, <2>2, ReachSaveOnly DEF WrongPassword
<1>2. CASE RightPassword(r)
  <2> DEFINE v == resetFailedLogins(u)
  <2>1. v \in User
      BY <1>u, FailedLoginType
  <2>2. Inherits(u, v)
      BY <1>2, <1>u, FailedInherits DEF RightPassword, Compares
  <2>3. CASE SaveOnly(r, v)
      BY <2>1, <2>2, <2>3, ReachSaveOnly
  <2>4. CASE Save(r, v) /\ UNCHANGED <<draws, handed, access, accepted>>
      BY <2>1, <2>2, <2>4, ReachSaveQuiet DEF Quiet
  <2>5. CASE OpenSession(r, v) /\ UNCHANGED accepted
      BY <2>1, <2>2, <2>5, ReachOpen, NothingAccepted
  <2> QED
      BY <1>2, <2>3, <2>4, <2>5 DEF RightPassword
<1>3. CASE LoginLoad(r) \/ MfaLoginLoad(r) \/ OAuthLoginLoad(r) \/ OAuthAutoLinkLoad(r)
    BY <1>3, PlainAsked, ReachBegin
       DEF LoginLoad, MfaLoginLoad, OAuthLoginLoad, OAuthAutoLinkLoad
<1>4. CASE MfaLoginSave(r)
  <2>1. CASE OpenSession(r, u) /\ UNCHANGED accepted
      BY <1>u, <2>1, ReachOpen, NothingAccepted
  <2>2. ASSUME NEW c \in u.mfa.backupCodes,
               OpenSession(r, consumeMfaBackupCode(u, c)), Accept(u.mfa.secret, c)
        PROVE  ReachStep
    <3> DEFINE w == consumeMfaBackupCode(u, c)
               d == u.mfa.secret
    <3>1. d \in Nat /\ c \in Nat \ {0}
        BY <1>u, UserNumbers, TtlAssumption
    <3>2. d # 0
        BY <1>4 DEF MfaLoginSave
    <3>3. Offers(u, d, c)
        BY <3>1 DEF Offers
    <3>4. accepted \subseteq accepted' /\ AcceptsOffered
        BY <2>2, <3>1, <3>2, <3>3, AcceptOffered
    <3>5. w \in User /\ Inherits(u, w)
        BY <1>u, MfaType, MfaInherits
    <3> QED
        BY <2>2, <3>4, <3>5, ReachOpen
  <2> QED
      BY <1>4, <2>1, <2>2 DEF MfaLoginSave
<1>5. CASE OAuthLoginSave(r) \/ OAuthLinkedSave(r)
    BY <1>5, <1>u, ReachOpen, NothingAccepted DEF OAuthLoginSave, OAuthLinkedSave
<1>6. CASE OAuthLoginChallenge(r)
    BY <1>6, ReachDropped DEF OAuthLoginChallenge
<1>7. CASE OAuthAutoLinkSave(r)
    BY <1>7, AutoLinkReach
<1> QED
    BY <1>1, <1>2, <1>3, <1>4, <1>5, <1>6, <1>7 DEF SignIn

LEMMA ManageSessionsReach ==
    ASSUME TypeOK, Reach, NEW r \in Requests, ManageSessions(r) PROVE ReachStep
<1> DEFINE u == req[r].user
           sid == req[r].sid
           v == rotateToken(u, sid, handed[sid] + 1)
<1>u. u \in User /\ now \in Nat
    BY ReachTypes
<1>1. CASE RefreshLoad(r) \/ LogoutLoad(r) \/ RevokeSessionLoad(r) \/ RevokeOthersLoad(r)
    BY <1>1, PlainAsked, ReachBegin
       DEF RefreshLoad, LogoutLoad, RevokeSessionLoad, RevokeOthersLoad
<1>2. \A S : RevokeIn(u, S, now) \in User /\ Inherits(u, RevokeIn(u, S, now))
    BY <1>u, RevokeType, SessionInherits
<1>3. CASE LogoutSave(r) \/ RevokeSessionSave(r) \/ RevokeOthersSave(r)
    BY <1>2, <1>3, ReachSaveOnly
       DEF LogoutSave, RevokeSessionSave, RevokeOthersSave, revokeSession,
           revokeAllOtherSessions
<1>4. CASE RefreshSave(r)
  <2>1. CASE SaveOnly(r, revokeAllSessions(u, now))
      BY <1>2, <2>1, ReachSaveOnly DEF revokeAllSessions
  <2>2. CASE /\ Save(r, v) /\ HandOut(sid, handed[sid] + 1)
             /\ UNCHANGED <<draws, challenge, accepted>>
    <3>1. v \in User /\ Inherits(u, v)
      <4>1. CASE sid \in SessionIds
          BY <1>u, <4>1, SessionType, SessionInherits, ReachTypes
      <4>2. CASE sid \notin SessionIds
        <5>1. v = u
            BY <1>u, <4>2 DEF rotateToken, User
        <5> QED
            BY <1>u, <5>1, InheritsItself
      <4> QED
          BY <4>1, <4>2
    <3> HIDE DEF v
    <3>2. \A s \in SessionIds : handed[s] > 0 => handed'[s] > 0
        BY <2>2, ReachTypes DEF HandOut
    <3>3. draws' = draws /\ accepted' = accepted /\ draws <= draws'
        BY <2>2, ReachTypes
    <3> QED
        BY <2>2, <3>1, <3>2, <3>3, DescendsOf, ReachSave, NothingAccepted
  <2> QED
      BY <1>4, <2>1, <2>2 DEF RefreshSave
<1> QED
    BY <1>1, <1>3, <1>4 DEF ManageSessions

LEMMA ManageCredentialsReach ==
    ASSUME TypeOK, Reach, NEW r \in Requests, ManageCredentials(r) PROVE ReachStep
<1> DEFINE u == req[r].user
<1>u. u \in User /\ now \in Nat /\ draws \in Nat /\ draws + 1 \in Nat
    BY ReachTypes
<1>1. CASE ChangePasswordLoad(r) \/ ForgotPasswordLoad(r) \/ InitiateMfaLoad(r)
           \/ DisableMfaLoad(r) \/ LinkOAuthLoad(r) \/ UnlinkOAuthLoad(r)
           \/ SetInitialPasswordLoad(r) \/ EnableMfaLoad(r)
    BY <1>1, PlainAsked, ReachBegin
       DEF ChangePasswordLoad, ForgotPasswordLoad, InitiateMfaLoad, DisableMfaLoad,
           LinkOAuthLoad, UnlinkOAuthLoad, SetInitialPasswordLoad, EnableMfaLoad
<1>2. CASE ResetPasswordLoad(r)
  <2>1. AskedAt([op |-> "resetPassword", user |-> db, sid |-> NoId, arg |-> db.reset.id])
      BY <1>2 DEF ResetPasswordLoad, AskedAt
  <2> QED
      BY <1>2, <2>1, ReachBegin DEF ResetPasswordLoad
<1>3. CASE ChangePasswordSave(r)
  <2> DEFINE v == updatePassword(u)
  <2>1. v \in User /\ Inherits(u, v)
      BY <1>u, PasswordType, PlainInherits
  <2> HIDE DEF v
  <2>2. \A S : RevokeIn(v, S, now) \in User /\ Inherits(u, RevokeIn(v, S, now))
      BY <1>u, <2>1, RevokeType, SessionInherits, InheritsOn
  <2> QED
      BY <1>3, <2>2, ReachSaveOnly DEF ChangePasswordSave, revokeAllOtherSessions, v
<1>4. CASE SetInitialPasswordSave(r)
    BY <1>4, <1>u, PasswordType, PlainInherits, ReachSaveOnly DEF SetInitialPasswordSave
<1>5. CASE ResetPasswordSave(r)
  <2> DEFINE w == changePassword(u)
             v == RevokeIn(w, SessionIds, now)
  <2>1. w \in User /\ Inherits(u, w)
      BY <1>u, PasswordType, PlainInherits
  <2> HIDE DEF w
  <2>2. v \in User /\ Inherits(u, v)
      BY <1>u, <2>1, RevokeType, SessionInherits, InheritsOn
  <2> HIDE DEF v
  <2>3. /\ Save(r, v) /\ Accept(req[r].arg, 0) /\ req[r].op = "resetPassword"
        /\ UNCHANGED <<draws, handed>>
      BY <1>5 DEF ResetPasswordSave, revokeAllSessions, v, w
  <2>4. req[r].arg = u.reset.id /\ req[r].arg \in Nat \ {0}
      BY <1>5, <2>3, CopyReach DEF AskedAt, ResetPasswordSave
  <2>5. Offers(u, req[r].arg, 0)
      BY <2>4 DEF Offers
  <2>6. accepted \subseteq accepted' /\ AcceptsOffered
      BY <2>3, <2>4, <2>5, AcceptOffered
  <2> QED
      BY <1>u, <2>2, <2>3, <2>6, DescendsOf, ReachSave
<1>6. CASE ForgotPasswordSave(r) \/ InitiateMfaSave(r)
    BY <1>6, <1>u, PasswordType, MfaType, DrawnDescends, ReachDraw
       DEF ForgotPasswordSave, InitiateMfaSave
<1>7. CASE EnableMfaSave(r) \/ DisableMfaSave(r)
    BY <1>7, <1>u, MfaType, MfaInherits, ReachSaveOnly DEF EnableMfaSave, DisableMfaSave
<1>8. CASE LinkOAuthSave(r) \/ UnlinkOAuthSave(r)
    BY <1>8, <1>u, OAuthType, PlainInherits, ReachSaveOnly DEF LinkOAuthSave, UnlinkOAuthSave
<1> QED
    BY <1>1, <1>2, <1>3, <1>4, <1>5, <1>6, <1>7, <1>8 DEF ManageCredentials

LEMMA ManageAccountReach ==
    ASSUME TypeOK, Reach, NEW r \in Requests, ManageAccount(r) PROVE ReachStep
<1> DEFINE u == req[r].user
<1>u. u \in User /\ now \in Nat /\ draws \in Nat /\ draws + 1 \in Nat
    BY ReachTypes
<1>1. CASE ResendVerificationLoad(r) \/ RequestEmailChangeLoad(r) \/ UpdateAccountLoad(r)
           \/ UploadAvatarLoad(r) \/ RemoveAvatarLoad(r) \/ ScheduleDeletionLoad(r)
           \/ RestoreLoad(r) \/ DeleteAccountLoad(r) \/ HardDeletionLoad(r)
    BY <1>1, PlainAsked, ReachBegin
       DEF ResendVerificationLoad, RequestEmailChangeLoad, UpdateAccountLoad,
           UploadAvatarLoad, RemoveAvatarLoad, ScheduleDeletionLoad, RestoreLoad,
           DeleteAccountLoad, HardDeletionLoad
<1>2. CASE VerifyEmailLoad(r) \/ ConfirmEmailChangeLoad(r)
  <2>1. PICK op \in {"verifyEmail", "confirmEmailChange"} :
            Begin(r, op, db, NoId, db.verification.id) /\ db.verification.id # 0
      BY <1>2 DEF VerifyEmailLoad, ConfirmEmailChangeLoad
  <2>2. AskedAt([op |-> op, user |-> db, sid |-> NoId, arg |-> db.verification.id])
      BY <2>1 DEF AskedAt
  <2> QED
      BY <2>1, <2>2, ReachBegin
<1>3. CASE VerifyEmailSave(r) \/ ConfirmEmailChangeSave(r)
  <2>1. Accept(req[r].arg, 0) /\ req[r].op \in {"verifyEmail", "confirmEmailChange"}
      BY <1>3 DEF VerifyEmailSave, ConfirmEmailChangeSave
  <2>2. req[r].arg = u.verification.id /\ req[r].arg \in Nat \ {0}
      BY <1>3, <2>1, CopyReach DEF AskedAt, VerifyEmailSave, ConfirmEmailChangeSave
  <2>3. Offers(u, req[r].arg, 0)
      BY <2>2 DEF Offers
  <2>4. accepted \subseteq accepted' /\ AcceptsOffered
      BY <2>1, <2>2, <2>3, AcceptOffered
  <2>5. /\ verifyEmail(u) \in User /\ Inherits(u, verifyEmail(u))
        /\ confirmEmailChange(u) \in User /\ Inherits(u, confirmEmailChange(u))
      BY <1>u, EmailType, PlainInherits
  <2>6. CASE VerifyEmailSave(r)
      BY <2>4, <2>5, <2>6, ReachOpen DEF VerifyEmailSave
  <2>7. CASE ConfirmEmailChangeSave(r)
    <3>1. /\ Save(r, confirmEmailChange(u)) /\ draws' = draws /\ handed' = handed
          /\ draws <= draws'
        BY <1>u, <2>7 DEF ConfirmEmailChangeSave
    <3> QED
        BY <2>4, <2>5, <3>1, DescendsOf, ReachSave
  <2> QED
      BY <1>3, <2>6, <2>7
<1>4. CASE ResendVerificationSave(r)
    BY <1>4, <1>u, EmailType, DrawnDescends, ReachDraw DEF ResendVerificationSave
<1>5. CASE RequestEmailChangeSave(r)
    BY <1>5, <1>u, EmailChangeType, DrawnDescends, ReachDraw DEF RequestEmailChangeSave
<1>6. CASE UpdateAccountSave(r) \/ UploadAvatarSave(r) \/ RemoveAvatarSave(r)
    BY <1>6, <1>u, InheritsItself, ReachSaveOnly
       DEF UpdateAccountSave, UploadAvatarSave, RemoveAvatarSave
<1>7. CASE ScheduleDeletionSave(r)
    BY <1>7, <1>u, DeletionType, PlainInherits, ReachSaveOnly DEF ScheduleDeletionSave
<1>8. CASE RestoreSave(r)
    BY <1>8, <1>u, DeletionType, PlainInherits, ReachOpen, NothingAccepted DEF RestoreSave
<1>9. CASE DeleteAccountDelete(r) \/ HardDeletionDelete(r)
  <2>1. /\ db' = NoUser /\ req' = [req EXCEPT ![r] = Idle]
        /\ draws' = draws /\ handed' = handed /\ accepted' = accepted /\ draws <= draws'
      BY <1>9, <1>u DEF DeleteAccountDelete, HardDeletionDelete, DeleteRow
  <2>2. Made(NoUser, draws')
      BY CopyReach, NoUserInherits, DescendsOf, DescendsMade
  <2> QED
      BY <2>1, <2>2, IdleReach, ReachSlots, NothingAccepted
<1> QED
    BY <1>1, <1>2, <1>3, <1>4, <1>5, <1>6, <1>7, <1>8, <1>9 DEF ManageAccount

\* Every step makes new copies out of old ones.
LEMMA NextReach ==
    ASSUME TypeOK, Reach, [Next]_vars PROVE ReachStep
<1>1. ASSUME NEW r \in Requests,
             SignIn(r) \/ ManageSessions(r) \/ ManageCredentials(r) \/ ManageAccount(r)
      PROVE  ReachStep
    BY <1>1, SignInReach, ManageSessionsReach, ManageCredentialsReach, ManageAccountReach
<1>2. ASSUME NEW r \in Requests, ReadLater(r) PROVE ReachStep
    BY <1>2, ReachReadLater
<1>3. ASSUME NEW r \in Requests, Fail(r) PROVE ReachStep
    BY <1>3, ReachDropped DEF Fail
<1>4. CASE CleanExpiredSessions
  <2>1. Inherits(db, db')
    <3>1. /\ db'.present = db.present /\ db'.pw = db.pw /\ db'.mfa = db.mfa
          /\ db'.failed = db.failed /\ db'.verification = db.verification /\ db'.reset = db.reset
        BY <1>4, ReachTypes DEF CleanExpiredSessions, User
    <3>2. \A s \in SessionIds :
              db'.sessions[s].state = "active" => db.sessions[s].state = "active"
        BY <1>4, ReachTypes DEF CleanExpiredSessions, NoSession, User
    <3> QED
        BY <3>1, <3>2 DEF Inherits, Follows, Offers
  <2> QED
      BY <1>4, <2>1, ReachStill DEF CleanExpiredSessions, Quiet
<1>5. CASE Tick
    BY <1>5, InheritsItself, ReachStill DEF Tick, Quiet
<1>6. CASE UNCHANGED vars
    BY <1>6, InheritsItself, ReachStill DEF vars, Quiet
<1> QED
    BY <1>1, <1>2, <1>3, <1>4, <1>5, <1>6 DEF Next

-----------------------------------------------------------------------------
(* The theorems.                                                            *)

LEMMA ReachInit == Init => Reach
<1> SUFFICES ASSUME Init PROVE Reach
    OBVIOUS
<1>1. \A r \in Requests : req[r] = Idle
    BY DEF Init
<1>2. \A u \in Copies : u = db \/ u = NoUser
    BY <1>1, IdleReach DEF Copies
<1>3. ASSUME NEW d \in Nat \ {0}, NEW c \in Nat, Offers(db, d, c) PROVE d <= draws
  <2> DEFINE fresh(u) == /\ u.verification.id \in {0, 1} /\ u.reset.id = 0
                         /\ u.mfa.pendingSecret = 0 /\ u.mfa.secret = 0
  <2>a. \A e : fresh(createForRegistration(e, 1, 0))
      BY DEF createForRegistration, NewToken, NoUser, NoToken, NoMfa
  <2>b. \A e, p : fresh(createForOAuthRegistration(e, p))
      BY DEF createForOAuthRegistration, NoUser, NoToken, NoMfa
  <2> HIDE DEF fresh
  <2>1. fresh(db)
      BY <2>a, <2>b DEF Init
  <2> USE DEF fresh
  <2> QED
      BY <1>3, <2>1 DEF Offers, Init
<1>4. \A d \in Nat \ {0}, c \in Nat : ~Offers(NoUser, d, c)
    BY DEF Offers, NoUser, NoToken, NoMfa
<1>5. accepted = {}
    BY DEF Init
<1> QED
    BY <1>1, <1>2, <1>3, <1>4, <1>5, IdleReach DEF Reach

LEMMA ReachKept ==
    ASSUME TypeOK, TypeOK', Reach, ReachStep PROVE Reach'
<1>1. draws \in Nat /\ draws' \in Nat /\ draws <= draws'
    BY ReachTypes DEF TypeOK, ReachStep
<1>2. ASSUME NEW v \in Copies', NEW d \in Nat \ {0}, NEW c \in Nat, Offers(v, d, c)
      PROVE  d <= draws'
  <2>1. Made(v, draws')
      BY DEF ReachStep
  <2>2. (\E u \in Copies : Offers(u, d, c)) \/ d <= draws'
      BY <1>2, <2>1 DEF Made
  <2> QED
      BY <1>1, <2>2 DEF Reach
<1>3. ASSUME NEW x \in accepted' PROVE x[1] # 0 /\ x[1] <= draws'
  <2>1. CASE x \in accepted
      BY <1>1, <2>1, ReachTypes DEF Reach
  <2>2. CASE x \notin accepted
    <3>1. PICK u \in Copies : Offers(u, x[1], x[2]) /\ x[1] \in Nat \ {0} /\ x[2] \in Nat
        BY <2>2 DEF ReachStep, AcceptsOffered
    <3> QED
        BY <1>1, <3>1 DEF Reach
  <2> QED
      BY <2>1, <2>2
<1> QED
    BY <1>2, <1>3 DEF Reach, ReachStep

\* Whatever the requests in flight offer or have accepted was drawn before.
THEOREM ReachInvariant == Spec => []Reach
<1>1. TypeOK /\ TypeOK' /\ Reach /\ [Next]_vars => Reach'
    BY NextReach, ReachKept
<1> QED
    BY <1>1, ReachInit, TypeInvariant, PTL DEF Spec

\* However many requests overlap, a session that is closed in the row and in every copy
\* in flight is not opened again (PrismaUserRepository.save).
THEOREM ClosedTheorem == Spec => ClosedBeyondReach
<1> DEFINE Closed == \A s \in SessionIds : OutOfReach(s) => OutOfReach(s)'
<1>1. ASSUME ReachStep, NEW s \in SessionIds, OutOfReach(s) PROVE OutOfReach(s)'
  <2>1. handed[s] > 0 /\ handed'[s] > 0
      BY <1>1 DEF ReachStep, OutOfReach
  <2>2. ASSUME NEW v \in Copies' PROVE v.sessions[s].state # "active"
    <3>1. Made(v, draws')
        BY <1>1 DEF ReachStep
    <3>2. \A u \in Copies : u.sessions[s].state # "active"
        BY <1>1 DEF OutOfReach
    <3> QED
        BY <2>1, <3>1, <3>2 DEF Made
  <2> QED
      BY <2>1, <2>2 DEF OutOfReach
<1>2. TypeOK /\ Reach /\ [Next]_vars => [Closed]_vars
    BY <1>1, NextReach
<1> QED
    BY <1>2, ReachInvariant, TypeInvariant, PTL DEF Spec, ClosedBeyondReach

\* A deleted account that no request in flight had loaded does not come back
\* (PrismaUserRepository.save).
THEOREM GoneForGood == Spec => GoneBeyondReach
<1> DEFINE Stays == Gone => Gone'
<1>1. ReachStep => Stays
    BY DEF ReachStep, Gone, Made, Follows
<1>2. TypeOK /\ Reach /\ [Next]_vars => [Stays]_vars
    BY <1>1, NextReach
<1> QED
    BY <1>2, ReachInvariant, TypeInvariant, PTL DEF Spec, GoneBeyondReach

\* A password that was replaced in the row and in every copy in flight does not come
\* back (PrismaUserRepository.save).
THEOREM PasswordTheorem == Spec => PasswordBeyondReach
<1> DEFINE Stays == \A n \in 0..MaxPasswords : Forgotten(n) => Forgotten(n)'
<1>1. ASSUME TypeOK, TypeOK', ReachStep, NEW n \in Nat, Forgotten(n) PROVE Forgotten(n)'
  <2>1. ASSUME NEW v \in Copies', v.present PROVE v.pw > n
    <3>1. PICK u \in Copies : Follows(u, v)
        BY <1>1 DEF ReachStep, Made
    <3>2. u.present /\ ~(u.pw <= n)
      <4>1. u.present /\ u.pw > n /\ u \in User
          BY <1>1, <2>1, <3>1, ReachTypes DEF Follows, Forgotten, Copies
      <4> QED
          BY <4>1 DEF User
    <3>3. v \in User /\ ~(v.pw <= n)
        BY <1>1, <2>1, <3>1, <3>2, CopyTypes DEF Follows
    <3> QED
        BY <3>3 DEF User
  <2> QED
      BY <2>1 DEF Forgotten
<1>2. TypeOK /\ TypeOK' /\ Reach /\ [Next]_vars => [Stays]_vars
    BY <1>1, NextReach
<1> QED
    BY <1>2, ReachInvariant, TypeInvariant, PTL DEF Spec, PasswordBeyondReach

\* A token or a code that was accepted, and that no copy offers any more, is spent
\* (ResetPasswordUseCase, VerifyEmailUseCase, MfaLoginUseCase).
THEOREM SpentTheorem == Spec => SpentBeyondReach
<1> DEFINE
      Spent ==
        \A x \in accepted : Unoffered(x[1], x[2]) =>
          /\ Unoffered(x[1], x[2])'
          /\ <<x[1], x[2], 2>> \in accepted' => <<x[1], x[2], 2>> \in accepted
<1>1. ASSUME TypeOK, Reach, ReachStep, NEW x \in accepted, Unoffered(x[1], x[2])
      PROVE  /\ Unoffered(x[1], x[2])'
             /\ <<x[1], x[2], 2>> \in accepted' => <<x[1], x[2], 2>> \in accepted
  <2> DEFINE d == x[1]
             c == x[2]
  <2>1. d \in Nat \ {0} /\ c \in Nat /\ d <= draws /\ draws \in Nat
      BY <1>1, ReachTypes DEF Reach
  <2>2. \A u \in Copies : ~Offers(u, d, c)
      BY <1>1 DEF Unoffered
  <2> HIDE DEF d, c
  <2>3. ASSUME NEW v \in Copies' PROVE ~Offers(v, d, c)
    <3>1. Made(v, draws')
        BY <1>1 DEF ReachStep
    <3> QED
        BY <2>1, <2>2, <3>1 DEF Made
  <2>4. ASSUME <<d, c, 2>> \in accepted' \ accepted PROVE FALSE
    <3>1. <<d, c, 2>>[1] = d /\ <<d, c, 2>>[2] = c
        OBVIOUS
    <3>2. PICK u \in Copies : Offers(u, d, c)
        BY <1>1, <2>4, <3>1 DEF ReachStep, AcceptsOffered
    <3> QED
        BY <2>2, <3>2
  <2>5. Unoffered(d, c)'
      BY <2>3 DEF Unoffered
  <2> QED
      BY <2>4, <2>5 DEF d, c
<1>2. TypeOK /\ Reach /\ [Next]_vars => [Spent]_vars
    BY <1>1, NextReach
<1> QED
    BY <1>2, ReachInvariant, TypeInvariant, PTL DEF Spec, SpentBeyondReach

\* However many requests overlap, a lock that the row and every copy in flight carry
\* holds until it runs out (Account.isLocked, LoginUseCase).
THEOREM LockedTheorem == Spec => LockedBeyondReach
<1> DEFINE Stays == \A t \in now .. MaxTime : LockedPast(t) => LockedPast(t)'
<1>1. ASSUME TypeOK, TypeOK', ReachStep, NEW t \in Nat, now <= t, LockedPast(t)
      PROVE  LockedPast(t)'
  <2>1. ASSUME NEW v \in Copies', v.present PROVE v.failed.lockedUntil > t
    <3>1. PICK u \in Copies : Follows(u, v)
        BY <1>1 DEF ReachStep, Made
    <3>2. u.present /\ u.failed.lockedUntil > t /\ u \in User
        BY <1>1, <2>1, <3>1, ReachTypes DEF Follows, LockedPast, Copies
    <3>3. u.failed.lockedUntil \in Nat /\ v \in User
        BY <1>1, <3>2, CopyTypes DEF User, FailedLogin
    <3>4. ~(v.failed.lockedUntil <= t)
        BY <1>1, <2>1, <3>1, <3>2, <3>3 DEF Follows
    <3> QED
        BY <3>3, <3>4 DEF User, FailedLogin
  <2> QED
      BY <2>1 DEF LockedPast
<1>2. \A t \in now .. MaxTime : TypeOK => t \in Nat /\ now <= t
    BY DEF TypeOK
<1>3. TypeOK /\ TypeOK' /\ Reach /\ [Next]_vars => [Stays]_vars
    BY <1>1, <1>2, NextReach
<1> QED
    BY <1>3, ReachInvariant, TypeInvariant, PTL DEF Spec, LockedBeyondReach

=============================================================================
