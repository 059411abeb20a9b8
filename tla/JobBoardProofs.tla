----------------------------- MODULE JobBoardProofs -----------------------------
(***************************************************************************)
(* Proofs about JobBoard, for any number of listings, applications and      *)
(* overlapping requests.  A copy may be old when it is saved; what makes it *)
(* harmless is that everything it says was recorded once, and that records, *)
(* bulk updates and the passing of an expiry date are never undone.         *)
(***************************************************************************)
EXTENDS JobBoard, TLAPS

\* Some record of a, other than a note, announced this status.
Recorded(a, status) ==
    \E h \in applications[a].history : h.event # "NOTE_ADDED" /\ h.status = status

\* What a slot holds, by the route that it runs.
SlotAt(q) ==
    /\ q.op \in {"editJob", "closeJob"} =>
           q.listing \in Listings /\ q.listingStatus \in {"PUBLISHED", "CLOSED"}
    /\ q.op = "closeJob" => q.listingStatus = "CLOSED"
    /\ q.op = "apply" => q.event = "SUBMITTED"
    /\ q.op = "withdraw" => q.event = "WITHDRAWN"
    /\ q.op = "updateStatus" => q.event = "STATUS_UPDATED"
    /\ q.op = "updateNote" => q.event = "NOTE_ADDED"
    /\ q.op = "bulkUpdate" <=> q.op \in ApplicationUseCases /\ q.event = "none"
    /\ q.op \in ApplicationUseCases \ {"bulkUpdate"} => \E a \in Applications : q.targets = {a}
    /\ q.op \in ApplicationUseCases => \A a \in q.targets :
           /\ q.status[a] \in Statuses
           /\ q.op # "apply" => Submitted(a)
           /\ q.op = "updateNote" /\ a \notin bulked => Recorded(a, q.status[a])

Slots == req \in [Requests -> Request] /\ \A r \in Requests : SlotAt(req[r])

\* Records are numbered, and the first one can be read by the applicant.
RowAt(a) ==
    /\ applications[a].status = "absent" => applications[a].history = {}
    /\ Submitted(a) => \E h \in applications[a].history : h.isPublic
    /\ \A h \in applications[a].history : h.n <= applications[a].count
    /\ Submitted(a) /\ a \notin bulked => Recorded(a, applications[a].status)

Rows ==
    /\ applications \in [Applications -> Application]
    /\ bulked \subseteq Applications
    /\ \A a \in Applications : RowAt(a)

ListingAt(l) ==
    /\ listings[l].status = "EXPIRED" => listings[l].expiresAt < now
    /\ l \in sweep => listings[l].status # "absent" /\ listings[l].expiresAt < now

Board ==
    /\ listings \in [Listings -> Listing]
    /\ sweep \subseteq Listings
    /\ now \in Nat
    /\ \A l \in Listings : ListingAt(l)

Inv == Slots /\ Rows /\ Board

-----------------------------------------------------------------------------
LEMMA IdleSlot == Idle \in Request /\ SlotAt(Idle)
BY DEF Idle, Request, SlotAt, JobStatuses, ApplicationUseCases, ListingUseCases

LEMMA InvInit == Init => Inv
<1>1. Init => Slots
    BY IdleSlot DEF Init, Slots
<1>2. Init => Rows
    BY BoardAssumption
       DEF Init, Rows, RowAt, NoApplication, Application, Submitted, Recorded
<1>3. Init => Board
    BY DEF Init, Board, ListingAt, Listing, JobStatuses
<1> QED
    BY <1>1, <1>2, <1>3 DEF Inv

\* A step of one slot that touches no application.
LEMMA SlotStep ==
    ASSUME Slots, NEW r \in Requests, NEW q \in Request, SlotAt(q),
           req' = [req EXCEPT ![r] = q], UNCHANGED <<applications, bulked>>
    PROVE  Slots'
<1>1. req' \in [Requests -> Request]
    BY DEF Slots
<1>2. ASSUME NEW s \in Requests PROVE SlotAt(req'[s])
    BY DEF Slots
<1>3. ASSUME NEW p, SlotAt(p) PROVE SlotAt(p)'
    BY <1>3 DEF SlotAt, Submitted, Recorded
<1> QED
    BY <1>1, <1>2, <1>3 DEF Slots

LEMMA SlotEnd ==
    ASSUME Slots, NEW r \in Requests, End(r), UNCHANGED <<applications, bulked>>
    PROVE  Slots'
<1> HIDE DEF Idle
<1> QED
    BY IdleSlot, SlotStep DEF End

LEMMA RowsSame ==
    ASSUME Rows, UNCHANGED <<applications, bulked>> PROVE Rows'
BY DEF Rows, RowAt, Submitted, Recorded

\* Handlers up to their first await.
LEMMA BeginListingStep ==
    ASSUME Inv, NEW r \in Requests, NEW l \in Listings, NEW op \in {"editJob", "closeJob"},
           NEW status \in {"PUBLISHED", "CLOSED"}, BeginListing(r, op, l, status),
           op = "closeJob" => status = "CLOSED"
    PROVE  Inv'
<1> DEFINE q == [Idle EXCEPT !.op = op, !.listing = l, !.listingStatus = status]
<1>1. q \in Request /\ SlotAt(q)
    BY DEF Idle, Request, SlotAt, JobStatuses, ApplicationUseCases, ListingUseCases
<1>2. /\ req' = [req EXCEPT ![r] = q]
      /\ UNCHANGED <<listings, applications, sweep, now, bulked>>
    BY DEF BeginListing, Begin
<1> HIDE DEF q
<1>3. Slots' /\ Rows'
    BY <1>1, <1>2, SlotStep, RowsSame DEF Inv
<1>4. Board'
    BY <1>2 DEF Inv, Board, ListingAt
<1> QED
    BY <1>3, <1>4 DEF Inv

Events == {"none", "SUBMITTED", "STATUS_UPDATED", "WITHDRAWN", "NOTE_ADDED"}
StatusMaps == [Applications -> Statuses \cup {"absent"}]

Given(A, status) == [a \in Applications |-> IF a \in A THEN status[a] ELSE "absent"]

\* A slot that holds copies of the applications A.
Copies(op, A, event, f) ==
    [Idle EXCEPT !.op = op, !.targets = A, !.event = event, !.status = f]

Holding(op, A, event, f) ==
    {q \in Request : q.op = op /\ q.targets = A /\ q.event = event /\ q.status = f}

LEMMA CopiesType ==
    \A op, A, event, f :
        op \in ApplicationUseCases /\ A \in SUBSET Applications /\ event \in Events
            /\ f \in StatusMaps => Copies(op, A, event, f) \in Holding(op, A, event, f)
<1> SUFFICES ASSUME NEW op \in ApplicationUseCases, NEW A \in SUBSET Applications,
                    NEW event \in Events, NEW f \in StatusMaps
             PROVE  Copies(op, A, event, f) \in Holding(op, A, event, f)
    OBVIOUS
<1> DEFINE q == Copies(op, A, event, f)
<1> DEFINE g == [a \in Applications |-> "absent"]
<1> HIDE DEF g
<1>1. Idle = [op |-> "idle", listing |-> NoListing, listingStatus |-> "absent",
              targets |-> {}, status |-> g, event |-> "none"]
    BY DEF Idle, g
<1>2. Idle \in Request
    BY IdleSlot
<1>3. q.op = op /\ q.targets = A /\ q.event = event /\ q.status = f
    BY <1>1 DEF Copies
<1>4. q \in Request
    BY <1>2 DEF Request, Copies, Events, StatusMaps
<1> QED
    BY <1>3, <1>4 DEF Holding

\* The event of the record that each route adds.
EventOf ==
    [op \in ApplicationUseCases |->
        CASE op = "apply" -> "SUBMITTED"
          [] op = "withdraw" -> "WITHDRAWN"
          [] op = "updateStatus" -> "STATUS_UPDATED"
          [] op = "updateNote" -> "NOTE_ADDED"
          [] op = "bulkUpdate" -> "none"]

LEMMA EventOfRoutes ==
    /\ EventOf["apply"] = "SUBMITTED" /\ EventOf["withdraw"] = "WITHDRAWN"
    /\ EventOf["updateStatus"] = "STATUS_UPDATED" /\ EventOf["updateNote"] = "NOTE_ADDED"
    /\ EventOf["bulkUpdate"] = "none" /\ EventOf \in [ApplicationUseCases -> Events]
BY DEF EventOf, ApplicationUseCases, ListingUseCases, Events

\* What a copy of a says when a route has made its change.
MayHold(op, a, status) ==
    /\ status \in Statuses
    /\ op # "apply" => Submitted(a)
    /\ op = "updateNote" /\ a \notin bulked => Recorded(a, status)

LEMMA BeginApplicationsStep ==
    ASSUME Inv, NEW r \in Requests, NEW op \in ApplicationUseCases,
           NEW A \in SUBSET Applications, NEW status, NEW event,
           BeginApplications(r, op, A, status, event),
           \A a \in A : MayHold(op, a, status[a]),
           event = EventOf[op],
           op # "bulkUpdate" => \E a \in Applications : A = {a}
    PROVE  Inv'
<1> DEFINE f == Given(A, status)
           q == Copies(op, A, event, f)
<1>1. f \in StatusMaps /\ \A a \in A : f[a] = status[a]
    BY DEF StatusMaps, Given, MayHold
<1>2. event \in Events
    BY EventOfRoutes
<1>3. BeginApplications(r, op, A, status, event) <=> Begin(r, q)
    BY DEF BeginApplications, Copies, Given
<1>4. q \in Request /\ q.op = op /\ q.targets = A /\ q.event = event /\ q.status = f
    <2>1. q \in Holding(op, A, event, f)
        BY <1>1, <1>2, CopiesType
    <2> HIDE DEF q
    <2> QED
        BY <2>1 DEF Holding
<1>5. /\ req' = [req EXCEPT ![r] = q]
      /\ UNCHANGED <<listings, applications, sweep, now, bulked>>
    BY <1>3 DEF Begin
<1> HIDE DEF q
<1>6. SlotAt(q)
    BY <1>1, <1>4, EventOfRoutes DEF SlotAt, MayHold, ApplicationUseCases, ListingUseCases
<1>7. Slots' /\ Rows'
    BY <1>4, <1>5, <1>6, SlotStep, RowsSame DEF Inv
<1>8. Board'
    BY <1>5 DEF Inv, Board, ListingAt
<1> QED
    BY <1>7, <1>8 DEF Inv

LEMMA ListingSteps ==
    ASSUME Inv, ManageListings \/ Sweep PROVE Inv'
<1>1. ASSUME NEW l \in Listings, NEW t \in Expiries, CreateListing(l, t) PROVE Inv'
    <2>1. t \in Nat /\ UNCHANGED <<applications, bulked, sweep, req, now>>
        BY <1>1, BoardAssumption DEF CreateListing
    <2>2. Slots' /\ Rows'
        BY <2>1, RowsSame DEF Inv, Slots, SlotAt, Submitted, Recorded
    <2>3. Board'
        BY <1>1, <2>1 DEF CreateListing, Inv, Board, ListingAt, Listing, JobStatuses
    <2> QED
        BY <2>2, <2>3 DEF Inv
<1>2. ASSUME NEW r \in Requests, NEW l \in Listings, EditListing(r, l) PROVE Inv'
    <2>1. listings[l].status = "PUBLISHED"
        BY <1>2 DEF EditListing, MayUpdate, Inv, Board, Listing, JobStatuses
    <2> QED
        BY <1>2, <2>1, BeginListingStep DEF EditListing
<1>3. ASSUME NEW r \in Requests, NEW l \in Listings, CloseListing(r, l) PROVE Inv'
    BY <1>3, BeginListingStep DEF CloseListing
<1>4. ASSUME NEW r \in Requests, SaveListing(r) PROVE Inv'
    <2>1. /\ req[r].listing \in Listings /\ req[r].listingStatus \in {"PUBLISHED", "CLOSED"}
        BY <1>4 DEF SaveListing, ListingUseCases, Inv, Slots, SlotAt
    <2>2. /\ listings' = [listings EXCEPT ![req[r].listing].status = req[r].listingStatus]
          /\ End(r) /\ UNCHANGED <<applications, sweep, now, bulked>>
        BY <1>4 DEF SaveListing, ListingUseCases
    <2>3. Board'
        BY <2>1, <2>2 DEF Inv, Board, ListingAt, Listing, JobStatuses
    <2> QED
        BY <2>2, <2>3, SlotEnd, RowsSame DEF Inv
<1>5. ASSUME Sweep PROVE Inv'
    <2>1. UNCHANGED <<applications, bulked, req, now>>
        BY <1>5 DEF Sweep, SweepStart, SweepOne, SweepSkip
    <2>2. Slots' /\ Rows'
        BY <2>1, RowsSame DEF Inv, Slots, SlotAt, Submitted, Recorded
    <2>4. ASSUME NEW l \in Listings, SweepOne(l) PROVE Board'
        BY <2>1, <2>4 DEF SweepOne, Inv, Board, ListingAt, Listing, JobStatuses
    <2>5. ASSUME NEW l \in Listings, SweepSkip(l) PROVE Board'
        BY <2>1, <2>5 DEF SweepSkip, Inv, Board, ListingAt
    <2>6. CASE SweepStart
        <3>1. Board'
            BY <2>1, <2>6 DEF SweepStart, Expirable, IsPublished, Inv, Board, ListingAt
        <3> QED
            BY <2>2, <3>1 DEF Inv
    <2> QED
        BY <1>5, <2>2, <2>4, <2>5, <2>6 DEF Sweep, Inv
<1> QED
    BY <1>1, <1>2, <1>3, <1>4, <1>5 DEF ManageListings

\* What a row becomes when a copy of it is saved.
LEMMA StoreRow ==
    ASSUME Inv, NEW a \in Applications, NEW status \in Statuses, NEW event \in Events,
           applications[a].count < MaxHistory
    PROVE  LET new == Store(a, status, event)
               entry == NewEntry(applications[a].count + 1, event, status)
           IN  /\ new \in Application /\ new.status = status
               /\ event = "none" =>
                      new.count = applications[a].count /\ new.history = applications[a].history
               /\ event # "none" =>
                      /\ new.count = applications[a].count + 1
                      /\ new.history = applications[a].history \cup {entry}
                      /\ entry \in Entry
<1> DEFINE row == applications[a]
           entry == NewEntry(row.count + 1, event, status)
<1>1. /\ row.count \in 0..MaxHistory /\ row.history \in SUBSET Entry
      /\ row = [status |-> row.status, count |-> row.count, history |-> row.history]
    BY DEF Inv, Rows, Application
<1>2. row.count + 1 \in 1..MaxHistory /\ row.count + 1 \in 0..MaxHistory
    BY <1>1, BoardAssumption
<1>3. CASE event = "none"
    BY <1>1, <1>3 DEF Store, Application
<1>4. CASE event # "none"
    <2>1. entry \in Entry
        BY <1>2, <1>4 DEF Entry, NewEntry, Events
    <2>2. Store(a, status, event) = [status |-> status, count |-> row.count + 1,
                                     history |-> row.history \cup {entry}]
        BY <1>4 DEF Store
    <2>3. row.history \cup {entry} \in SUBSET Entry
        BY <1>1, <2>1
    <2> HIDE DEF entry, row
    <2>4. Store(a, status, event) \in Application
        BY <1>2, <2>2, <2>3 DEF Application
    <2> QED
        BY <1>4, <2>1, <2>2, <2>4 DEF entry, row
<1> QED
    BY <1>3, <1>4

\* The save of applications: what is recorded stays recorded, and a row's new status is
\* on record, unless a bulk update set it.
LEMMA SaveStep ==
    ASSUME Inv, NEW r \in Requests, SaveApplications(r) PROVE Inv'
<1> DEFINE T == req[r].targets
<1> DEFINE e == req[r].event
<1>1. /\ T \subseteq Applications /\ e \in Events
      /\ \A a \in T : /\ req[r].status[a] \in Statuses
                      /\ req[r].op # "apply" => Submitted(a)
                      /\ req[r].op = "updateNote" /\ a \notin bulked =>
                             Recorded(a, req[r].status[a])
      /\ e = "none" <=> req[r].op = "bulkUpdate"
      /\ e = "NOTE_ADDED" <=> req[r].op = "updateNote"
    BY DEF SaveApplications, Inv, Slots, SlotAt, Request, Events, ApplicationUseCases, ListingUseCases
<1>2. /\ \A a \in T : /\ applications[a].count < MaxHistory
                      /\ applications'[a] = Store(a, req[r].status[a], e)
      /\ \A a \in Applications \ T : applications'[a] = applications[a]
      /\ applications' = [a \in Applications |-> applications'[a]]
      /\ bulked' = IF req[r].op = "bulkUpdate" THEN bulked \cup T ELSE bulked
      /\ End(r) /\ UNCHANGED <<listings, sweep, now>>
    BY <1>1 DEF SaveApplications, At
<1>3. ASSUME NEW a \in T
      PROVE  LET entry == NewEntry(applications[a].count + 1, e, req[r].status[a])
             IN  /\ applications'[a] \in Application
                 /\ applications'[a].status = req[r].status[a]
                 /\ e = "none" => /\ applications'[a].count = applications[a].count
                                  /\ applications'[a].history = applications[a].history
                 /\ e # "none" =>
                      /\ applications'[a].count = applications[a].count + 1
                      /\ applications'[a].history = applications[a].history \cup {entry}
    BY <1>1, <1>2, <1>3, StoreRow
<1>4. ASSUME NEW a \in Applications
      PROVE  /\ applications'[a] \in Application
             /\ applications[a].history \subseteq applications'[a].history
             /\ Submitted(a) => Submitted(a)'
             /\ a \notin bulked' => a \notin bulked
    <2>1. CASE a \in T
        BY <1>1, <1>2, <1>3, <2>1 DEF Submitted, Statuses
    <2>2. CASE a \notin T
        BY <1>2, <2>2 DEF Submitted, Inv, Rows
    <2> QED
        BY <2>1, <2>2
<1>5. ASSUME NEW a \in Applications, NEW status, Recorded(a, status) PROVE Recorded(a, status)'
    BY <1>4, <1>5 DEF Recorded
<1>6. Slots'
    <2>1. ASSUME NEW q, q \in Request, SlotAt(q) PROVE SlotAt(q)'
        BY <1>4, <1>5, <2>1 DEF SlotAt, Request
    <2>2. req' = [req EXCEPT ![r] = Idle] /\ req' \in [Requests -> Request]
        BY <1>2, IdleSlot DEF End, Inv, Slots
    <2>3. ASSUME NEW s \in Requests PROVE req'[s] \in Request /\ SlotAt(req'[s])
        BY <2>2, IdleSlot DEF Inv, Slots
    <2> QED
        BY <2>1, <2>2, <2>3 DEF Slots
<1>7. ASSUME NEW a \in Applications PROVE RowAt(a)'
    <2>1. RowAt(a) /\ applications[a] \in Application
        BY DEF Inv, Rows
    <2>2. CASE a \notin T
        BY <1>2, <1>4, <2>1, <2>2 DEF RowAt, Submitted, Recorded
    <2>3. CASE a \in T
        <3> DEFINE entry == NewEntry(applications[a].count + 1, e, req[r].status[a])
        <3>1. Submitted(a)' /\ applications'[a].status = req[r].status[a]
            BY <1>1, <1>3, <2>3 DEF Submitted, Statuses
        <3>2. CASE e = "none"
            BY <1>1, <1>2, <1>3, <2>1, <2>3, <3>1, <3>2 DEF RowAt, Submitted
        <3>3. CASE e # "none"
            <4>1. /\ entry.n = applications[a].count + 1 /\ entry.event = e
                  /\ entry.status = req[r].status[a] /\ entry.isPublic = (e # "NOTE_ADDED")
                BY DEF NewEntry
            <4>2. /\ entry \in applications'[a].history
                  /\ \A h \in applications'[a].history :
                        h \in applications[a].history \/ h = entry
                  /\ applications'[a].count = applications[a].count + 1
                BY <1>3, <2>3, <3>3
            <4> HIDE DEF entry
            <4>3. \A h \in applications'[a].history : h.n <= applications'[a].count
                BY <2>1, <4>1, <4>2 DEF RowAt, Application, Entry
            <4>4. CASE e = "NOTE_ADDED"
                <5>1. Submitted(a) /\ (a \notin bulked => Recorded(a, req[r].status[a]))
                    BY <1>1, <2>3, <4>4
                <5> QED
                    BY <1>4, <1>5, <2>1, <3>1, <4>3, <5>1 DEF RowAt, Submitted
            <4>5. CASE e # "NOTE_ADDED"
                <5>1. entry.isPublic /\ entry.event # "NOTE_ADDED"
                      /\ entry.status = applications'[a].status
                    BY <3>1, <4>1, <4>5
                <5> QED
                    BY <3>1, <4>2, <4>3, <5>1 DEF RowAt, Submitted, Recorded
            <4> QED
                BY <4>4, <4>5
        <3> QED
            BY <3>2, <3>3
    <2> QED
        BY <2>2, <2>3
<1>8. Rows'
    BY <1>1, <1>2, <1>4, <1>7 DEF Inv, Rows
<1>9. Board'
    BY <1>2 DEF Inv, Board, ListingAt
<1> QED
    BY <1>6, <1>8, <1>9 DEF Inv

LEMMA ApplicationSteps ==
    ASSUME Inv, ManageApplications PROVE Inv'
<1>1. PICK r \in Requests :
          \/ \E a \in Applications : Apply(r, a) \/ Withdraw(r, a) \/ UpdateInternalNote(r, a)
          \/ \E a \in Applications, s \in Decisions : UpdateStatus(r, a, s)
          \/ \E A \in SUBSET Applications, s \in Decisions : BulkUpdateStatus(r, A, s)
          \/ SaveApplications(r)
    BY DEF ManageApplications
<1>2. ASSUME NEW s, NEW a \in Applications PROVE Setting(s)[a] = s
    BY DEF Setting
<1>3. ASSUME NEW a \in Applications, Apply(r, a) PROVE Inv'
    <2>1. \A b \in {a} : MayHold("apply", b, Setting("PENDING")[b])
        BY <1>2 DEF MayHold, Statuses
    <2> QED
        BY <1>3, <2>1, EventOfRoutes, BeginApplicationsStep DEF Apply, ApplicationUseCases, ListingUseCases
<1>4. ASSUME NEW a \in Applications, Withdraw(r, a) PROVE Inv'
    <2>1. \A b \in {a} : MayHold("withdraw", b, Setting("WITHDRAWN")[b])
        BY <1>2, <1>4 DEF MayHold, Statuses, Withdraw, MayWithdraw, Submitted
    <2> QED
        BY <1>4, <2>1, EventOfRoutes, BeginApplicationsStep DEF Withdraw, ApplicationUseCases, ListingUseCases
<1>5. ASSUME NEW a \in Applications, UpdateInternalNote(r, a) PROVE Inv'
    <2>1. /\ Submitted(a) /\ applications[a].status \in Statuses
          /\ a \notin bulked => Recorded(a, applications[a].status)
        BY <1>5 DEF UpdateInternalNote, Submitted, Inv, Rows, RowAt, Application
    <2>2. PICK s \in Statuses : s = applications[a].status
        BY <2>1
    <2>3. \A b \in {a} : MayHold("updateNote", b, Setting(s)[b])
        BY <1>2, <2>1, <2>2 DEF MayHold
    <2>4. BeginApplications(r, "updateNote", {a}, Setting(s), "NOTE_ADDED")
        BY <1>5, <2>2 DEF UpdateInternalNote
    <2> QED
        BY <2>3, <2>4, EventOfRoutes, BeginApplicationsStep DEF ApplicationUseCases, ListingUseCases
<1>6. ASSUME NEW a \in Applications, NEW s \in Decisions, UpdateStatus(r, a, s) PROVE Inv'
    <2>1. \A b \in {a} : MayHold("updateStatus", b, Setting(s)[b])
        BY <1>2, <1>6, BoardAssumption DEF MayHold, UpdateStatus
    <2> QED
        BY <1>6, <2>1, EventOfRoutes, BeginApplicationsStep DEF UpdateStatus, ApplicationUseCases, ListingUseCases
<1>7. ASSUME NEW A \in SUBSET Applications, NEW s \in Decisions, BulkUpdateStatus(r, A, s)
      PROVE  Inv'
    <2>1. \A b \in A : MayHold("bulkUpdate", b, Setting(s)[b])
        BY <1>2, <1>7, BoardAssumption DEF MayHold, BulkUpdateStatus
    <2> QED
        BY <1>7, <2>1, EventOfRoutes, BeginApplicationsStep DEF BulkUpdateStatus, ApplicationUseCases, ListingUseCases
<1> QED
    BY <1>1, <1>3, <1>4, <1>5, <1>6, <1>7, SaveStep

LEMMA OtherSteps ==
    ASSUME Inv, (\E r \in Requests : Fail(r)) \/ Restart \/ Tick \/ UNCHANGED vars PROVE Inv'
<1>1. ASSUME NEW r \in Requests, Fail(r) PROVE Inv'
    <2>1. Slots' /\ Rows'
        BY <1>1, SlotEnd, RowsSame DEF Fail, Inv
    <2>2. Board'
        BY <1>1 DEF Fail, Inv, Board, ListingAt
    <2> QED
        BY <2>1, <2>2 DEF Inv
<1>2. CASE Restart
    <2>1. UNCHANGED <<listings, applications, now, bulked>> /\ sweep' = {}
        BY <1>2 DEF Restart
    <2>2. Rows' /\ Board'
        BY <2>1, RowsSame DEF Inv, Board, ListingAt
    <2>3. SlotAt(Idle)'
        BY DEF SlotAt, Idle, ApplicationUseCases, ListingUseCases
    <2>4. req' = [r \in Requests |-> Idle]
        BY <1>2 DEF Restart
    <2> HIDE DEF Idle
    <2>5. Slots'
        BY <2>3, <2>4, IdleSlot DEF Slots
    <2> QED
        BY <2>2, <2>5 DEF Inv
<1>3. CASE Tick
    <2>1. UNCHANGED <<listings, applications, sweep, req, bulked>> /\ now' = now + 1
        BY <1>3 DEF Tick
    <2>2. Slots' /\ Rows'
        BY <2>1, RowsSame DEF Inv, Slots, SlotAt, Submitted, Recorded
    <2>3. Board'
        BY <2>1 DEF Inv, Board, ListingAt, Listing
    <2> QED
        BY <2>2, <2>3 DEF Inv
<1>4. CASE UNCHANGED vars
    BY <1>4, RowsSame DEF vars, Inv, Slots, SlotAt, Submitted, Recorded, Board, ListingAt
<1> QED
    BY <1>1, <1>2, <1>3, <1>4

LEMMA InvStep == Inv /\ [Next]_vars => Inv'
BY ListingSteps, ApplicationSteps, OtherSteps DEF Next

LEMMA InvHolds == Spec => []Inv
BY InvInit, InvStep, PTL DEF Spec

-----------------------------------------------------------------------------
\* Every row, and every copy in flight, has its type.
THEOREM TypeInvariant == Spec => []TypeOK
<1>1. Inv => TypeOK
    BY DEF Inv, Slots, Rows, Board, TypeOK
<1> QED
    BY <1>1, InvHolds, PTL

\* For any number of listings, applications and overlapping requests: a status that no
\* bulk update has set is one that a record of the application's history announced.
THEOREM StatusOnRecordHolds == Spec => []StatusOnRecord
<1>1. Inv => StatusOnRecord
    BY DEF Inv, Rows, RowAt, Recorded, StatusOnRecord
<1> QED
    BY <1>1, InvHolds, PTL

\* The expiry task ends no listing before its date, however old its list has become.
THEOREM ExpiredWhenDueHolds == Spec => []ExpiredWhenDue
<1>1. Inv => ExpiredWhenDue
    BY DEF Inv, Board, ListingAt, ExpiredWhenDue
<1> QED
    BY <1>1, InvHolds, PTL

-----------------------------------------------------------------------------
\* Shut listings.

Stays(l) ==
    /\ Shut(l)'
    /\ \A a \in Applications : a[2] = l /\ Submitted(a)' => Submitted(a)

\* The row is still at its end, and the slots, when they changed, hold no older copy.
LEMMA StaysShut ==
    ASSUME NEW l \in Listings, Shut(l), listings'[l].status \in {"CLOSED", "EXPIRED"},
           \A a \in Applications : a[2] = l /\ Submitted(a)' => Submitted(a),
           \A r \in Requests :
               \/ req'[r] = req[r]
               \/ req'[r].op = "editJob" /\ req'[r].listing # l
               \/ req'[r].op = "apply" /\ \A a \in req'[r].targets : a[2] # l
               \/ req'[r].op \notin {"editJob", "apply"}
    PROVE  Stays(l)
BY DEF Shut, Stays, At

LEMMA IdleHoldsNothing == Idle.op \notin {"editJob", "apply"}
BY DEF Idle

\* A slot that is given up.
LEMMA EndShut ==
    ASSUME Inv, NEW r \in Requests, End(r)
    PROVE  \A k \in Requests : req'[k] = req[k] \/ req'[k].op \notin {"editJob", "apply"}
<1> HIDE DEF Idle
<1> QED
    BY IdleHoldsNothing DEF End, Inv, Slots

\* A slot that is taken up.
LEMMA BeginShut ==
    ASSUME Inv, NEW r \in Requests, NEW q, Begin(r, q), NEW l \in Listings, Shut(l),
           q.op = "editJob" => q.listing # l,
           q.op = "apply" => \A a \in q.targets : a[2] # l
    PROVE  Stays(l)
<1>1. /\ req' = [req EXCEPT ![r] = q] /\ UNCHANGED <<listings, applications>>
      /\ req \in [Requests -> Request]
    BY DEF Begin, Inv, Slots
<1>2. \A k \in Requests : req'[k] = req[k] \/ req'[k] = q
    BY <1>1
<1>3. listings'[l].status \in {"CLOSED", "EXPIRED"}
    BY <1>1 DEF Shut
<1>4. \A a \in Applications : Submitted(a)' => Submitted(a)
    BY <1>1 DEF Submitted
<1> HIDE DEF Shut, Stays
<1> QED
    BY <1>2, <1>3, <1>4, StaysShut

LEMMA ListingStepsShut ==
    ASSUME Inv, ManageListings \/ Sweep, NEW l \in Listings, Shut(l) PROVE Stays(l)
<1>0. /\ listings \in [Listings -> Listing] /\ req \in [Requests -> Request]
      /\ listings[l].status \in {"CLOSED", "EXPIRED"}
    BY DEF Inv, Board, Slots, Shut
<1>1. ASSUME NEW k \in Listings, NEW t \in Expiries, CreateListing(k, t) PROVE Stays(l)
    <2>1. k # l /\ listings'[l] = listings[l] /\ UNCHANGED <<req, applications>>
        BY <1>0, <1>1 DEF CreateListing
    <2> QED
        BY <1>0, <2>1, StaysShut DEF Submitted
<1>2. ASSUME NEW r \in Requests, NEW k \in Listings, EditListing(r, k) PROVE Stays(l)
    <2> DEFINE q == [Idle EXCEPT !.op = "editJob", !.listing = k,
                                 !.listingStatus = listings[k].status]
    <2>1. k # l /\ q.op = "editJob" /\ q.listing = k
        BY <1>0, <1>2 DEF EditListing, MayUpdate, Idle
    <2>2. Begin(r, q)
        BY <1>2 DEF EditListing, BeginListing
    <2> HIDE DEF q
    <2> QED
        BY <2>1, <2>2, BeginShut
<1>3. ASSUME NEW r \in Requests, NEW k \in Listings, CloseListing(r, k) PROVE Stays(l)
    <2> DEFINE q == [Idle EXCEPT !.op = "closeJob", !.listing = k,
                                 !.listingStatus = "CLOSED"]
    <2>1. q.op = "closeJob"
        BY DEF Idle
    <2>2. Begin(r, q)
        BY <1>3 DEF CloseListing, BeginListing
    <2> HIDE DEF q
    <2> QED
        BY <2>1, <2>2, BeginShut
<1>4. ASSUME NEW r \in Requests, SaveListing(r) PROVE Stays(l)
    <2>1. /\ req[r].op \in {"editJob", "closeJob"}
          /\ listings' = [listings EXCEPT ![req[r].listing].status = req[r].listingStatus]
          /\ End(r) /\ UNCHANGED applications
        BY <1>4 DEF SaveListing, ListingUseCases
    <2>2. req[r].listing = l => req[r].op = "closeJob" /\ req[r].listingStatus = "CLOSED"
        BY <2>1 DEF Shut, At, Inv, Slots, SlotAt
    <2>3. listings'[l].status \in {"CLOSED", "EXPIRED"}
        BY <1>0, <2>1, <2>2 DEF Listing
    <2> QED
        BY <2>1, <2>3, EndShut, StaysShut DEF Submitted
<1>5. ASSUME Sweep PROVE Stays(l)
    <2>1. UNCHANGED <<applications, req>>
        BY <1>5 DEF Sweep, SweepStart, SweepOne, SweepSkip
    <2>2. listings'[l].status \in {"CLOSED", "EXPIRED"}
        BY <1>0, <1>5 DEF Sweep, SweepStart, SweepOne, SweepSkip, Listing
    <2> QED
        BY <2>1, <2>2, StaysShut DEF Submitted
<1> QED
    BY <1>1, <1>2, <1>3, <1>4, <1>5 DEF ManageListings

\* A slot that takes up applications, none of them new to l.
LEMMA BeginApplicationsShut ==
    ASSUME Inv, NEW r \in Requests, NEW op, NEW A \in SUBSET Applications, NEW status,
           NEW event, BeginApplications(r, op, A, status, event), NEW l \in Listings, Shut(l),
           op # "editJob", op = "apply" => \A a \in A : a[2] # l
    PROVE  Stays(l)
<1> DEFINE q == Copies(op, A, event, Given(A, status))
<1>1. Begin(r, q)
    BY DEF BeginApplications, Copies, Given
<1>2. q.op = op /\ q.targets = A
    BY DEF Copies, Idle
<1> HIDE DEF q
<1> QED
    BY <1>1, <1>2, BeginShut

LEMMA ApplicationStepsShut ==
    ASSUME Inv, ManageApplications, NEW l \in Listings, Shut(l) PROVE Stays(l)
<1>1. PICK r \in Requests :
          \/ \E a \in Applications : Apply(r, a) \/ Withdraw(r, a) \/ UpdateInternalNote(r, a)
          \/ \E a \in Applications, s \in Decisions : UpdateStatus(r, a, s)
          \/ \E A \in SUBSET Applications, s \in Decisions : BulkUpdateStatus(r, A, s)
          \/ SaveApplications(r)
    BY DEF ManageApplications
<1>2. ASSUME NEW a \in Applications, Apply(r, a) PROVE Stays(l)
    <2>1. a[2] # l
        BY <1>2 DEF Apply, IsPublished, Shut
    <2> QED
        BY <1>2, <2>1, BeginApplicationsShut DEF Apply
<1>3. ASSUME NEW a \in Applications, Withdraw(r, a) \/ UpdateInternalNote(r, a) PROVE Stays(l)
    BY <1>3, BeginApplicationsShut DEF Withdraw, UpdateInternalNote
<1>4. ASSUME NEW a \in Applications, NEW s \in Decisions, UpdateStatus(r, a, s) PROVE Stays(l)
    BY <1>4, BeginApplicationsShut DEF UpdateStatus
<1>5. ASSUME NEW A \in SUBSET Applications, NEW s \in Decisions, BulkUpdateStatus(r, A, s)
      PROVE  Stays(l)
    BY <1>5, BeginApplicationsShut DEF BulkUpdateStatus
<1>6. CASE SaveApplications(r)
    <2>1. /\ req[r].op \in ApplicationUseCases /\ End(r) /\ UNCHANGED listings
          /\ \A a \in Applications : a \notin req[r].targets => applications'[a] = applications[a]
        BY <1>6 DEF SaveApplications
    <2>2. \A a \in req[r].targets : a[2] = l => Submitted(a)
        BY <2>1 DEF Inv, Slots, SlotAt, Shut, At
    <2>3. \A a \in Applications : a[2] = l /\ Submitted(a)' => Submitted(a)
        BY <2>1, <2>2 DEF Submitted
    <2>4. listings'[l].status \in {"CLOSED", "EXPIRED"}
        BY <2>1 DEF Shut
    <2> QED
        BY <2>1, <2>3, <2>4, EndShut, StaysShut
<1> QED
    BY <1>1, <1>2, <1>3, <1>4, <1>5, <1>6

LEMMA OtherStepsShut ==
    ASSUME Inv, (\E r \in Requests : Fail(r)) \/ Restart \/ Tick \/ UNCHANGED vars,
           NEW l \in Listings, Shut(l)
    PROVE  Stays(l)
<1>1. UNCHANGED <<listings, applications>>
    BY DEF Fail, Restart, Tick, vars
<1>2. ASSUME NEW k \in Requests
      PROVE  req'[k] = req[k] \/ req'[k].op \notin {"editJob", "apply"}
    <2> HIDE DEF Idle
    <2>1. ASSUME NEW r \in Requests, Fail(r)
          PROVE  req'[k] = req[k] \/ req'[k].op \notin {"editJob", "apply"}
        BY <2>1, EndShut DEF Fail
    <2>2. CASE Restart
        BY <2>2, IdleHoldsNothing DEF Restart
    <2> QED
        BY <2>1, <2>2 DEF Tick, vars
<1> QED
    BY <1>1, <1>2, StaysShut DEF Shut, Submitted

\* A listing that has ended, and that no request in flight had read before, stays ended
\* and takes no further application, however many requests overlap.
THEOREM ShutTheorem == Spec => ShutForGood
<1> DEFINE ShutStays == \A l \in Listings : Shut(l) =>
               /\ Shut(l)'
               /\ \A a \in Applications : a[2] = l /\ Submitted(a)' => Submitted(a)
<1>1. Inv /\ [Next]_vars => [ShutStays]_vars
    BY ListingStepsShut, ApplicationStepsShut, OtherStepsShut DEF Next, Stays
<1> QED
    BY <1>1, InvHolds, PTL DEF Spec, ShutForGood

-----------------------------------------------------------------------------
\* Refinement: what applicants read is an ApplicationTimeline.

Told == [a \in Applications |-> PublicHistory(a)]

\* Saving the copies of one application tells its applicant at most one new thing.
LEMMA SaveTells ==
    ASSUME Inv, NEW r \in Requests, SaveApplications(r), Told' # Told
    PROVE  \E a \in Applications : \E e \in Entry :
               /\ e \in Told'[a] \ Told[a]
               /\ Told' = [Told EXCEPT ![a] = @ \cup {e}]
               /\ \/ Told[a] = {} /\ e.event = "SUBMITTED"
                  \/ Told[a] # {} /\ e.event \in {"STATUS_UPDATED", "WITHDRAWN"}
<1> DEFINE event == req[r].event
<1>1. /\ req[r].targets \subseteq Applications /\ req[r].op \in ApplicationUseCases
      /\ \A a \in req[r].targets : /\ req[r].status[a] \in Statuses
                                   /\ applications[a].count < MaxHistory
                                   /\ req[r].op # "apply" <=> Submitted(a)
      /\ req[r].op # "bulkUpdate" => \E a \in Applications : req[r].targets = {a}
      /\ event = "none" <=> req[r].op = "bulkUpdate"
      /\ event = "NOTE_ADDED" <=> req[r].op = "updateNote"
      /\ event = "SUBMITTED" <=> req[r].op = "apply"
      /\ event \in Events
    BY DEF SaveApplications, At, Inv, Slots, SlotAt, Request, ApplicationUseCases, ListingUseCases, Events
<1>2. applications' = [a \in Applications |->
          IF a \in req[r].targets THEN Store(a, req[r].status[a], event) ELSE applications[a]]
    BY DEF SaveApplications
<1>3. ASSUME NEW a \in Applications, applications'[a].history = applications[a].history
      PROVE  PublicHistory(a)' = PublicHistory(a)
    BY <1>3 DEF PublicHistory
<1>4. ASSUME NEW a \in Applications, a \notin req[r].targets
      PROVE  PublicHistory(a)' = PublicHistory(a)
    BY <1>2, <1>3, <1>4
<1>5. event # "none"
    <2> SUFFICES ASSUME event = "none" PROVE Told' = Told
        OBVIOUS
    <2>1. ASSUME NEW a \in req[r].targets PROVE applications'[a].history = applications[a].history
        BY <1>1, <1>2, <2>1, StoreRow
    <2> QED
        BY <1>1, <1>3, <1>4, <2>1 DEF Told
<1>6. PICK a \in Applications : req[r].targets = {a}
    BY <1>1, <1>5
<1> DEFINE e == NewEntry(applications[a].count + 1, event, req[r].status[a])
<1>7. /\ applications'[a].history = applications[a].history \cup {e}
      /\ e \in Entry /\ e.event = event /\ e.isPublic = (event # "NOTE_ADDED")
      /\ e.n = applications[a].count + 1
    <2>1. applications'[a] = Store(a, req[r].status[a], event)
        BY <1>2, <1>6
    <2> QED
        BY <1>1, <1>5, <1>6, <2>1, StoreRow DEF NewEntry
<1>8. e \notin applications[a].history
    BY <1>7 DEF Inv, Rows, RowAt, Application, Entry
<1> HIDE DEF e
<1>9. event # "NOTE_ADDED"
    <2> SUFFICES ASSUME event = "NOTE_ADDED" PROVE Told' = Told
        OBVIOUS
    <2>1. PublicHistory(a)' = PublicHistory(a)
        BY <1>7 DEF PublicHistory
    <2> QED
        BY <1>4, <1>6, <2>1 DEF Told
<1>10. PublicHistory(a)' = PublicHistory(a) \cup {e} /\ e \notin PublicHistory(a)
    BY <1>7, <1>8, <1>9 DEF PublicHistory
<1>11. Told' = [Told EXCEPT ![a] = @ \cup {e}] /\ e \in Told'[a] \ Told[a]
    BY <1>4, <1>6, <1>10 DEF Told
<1>12. CASE req[r].op = "apply"
    <2>1. applications[a].history = {}
        BY <1>1, <1>6, <1>12 DEF Inv, Rows, RowAt, Submitted
    <2>2. Told[a] = {}
        BY <2>1 DEF Told, PublicHistory
    <2> QED
        BY <1>1, <1>7, <1>11, <1>12, <2>2
<1>13. CASE req[r].op # "apply"
    <2>1. \E h \in applications[a].history : h.isPublic
        BY <1>1, <1>6, <1>13 DEF Inv, Rows, RowAt
    <2>2. Told[a] # {}
        BY <2>1 DEF Told, PublicHistory
    <2>3. event \in {"STATUS_UPDATED", "WITHDRAWN"}
        BY <1>1, <1>5, <1>9, <1>13 DEF Events
    <2> QED
        BY <1>7, <1>11, <2>2, <2>3
<1> QED
    BY <1>12, <1>13

\* A step of the board is a step of the timeline, or none.
LEMMA TimelineStep == Inv /\ [Next]_vars => [Timeline!Next]_Told
<1> SUFFICES ASSUME Inv, [Next]_vars, Told' # Told PROVE Timeline!Next
    OBVIOUS
<1>1. ASSUME UNCHANGED applications PROVE FALSE
    BY <1>1 DEF Told, PublicHistory
<1>2. PICK r \in Requests : SaveApplications(r)
    BY <1>1 DEF Next, vars, ManageListings, CreateListing, EditListing, CloseListing,
       SaveListing, BeginListing, Begin, Sweep, SweepStart, SweepOne, SweepSkip,
       ManageApplications, Apply, Withdraw, UpdateStatus, UpdateInternalNote,
       BulkUpdateStatus, BeginApplications, Fail, Restart, Tick
<1>3. PICK a \in Applications, e \in Entry :
          /\ e \in Told'[a] \ Told[a]
          /\ Told' = [Told EXCEPT ![a] = @ \cup {e}]
          /\ \/ Told[a] = {} /\ e.event = "SUBMITTED"
             \/ Told[a] # {} /\ e.event \in {"STATUS_UPDATED", "WITHDRAWN"}
    BY <1>2, SaveTells
<1>4. e \in Timeline!News(a)
    BY <1>3 DEF Timeline!News, Told
<1>5. Timeline!Submit(a, e) \/ Timeline!Announce(a, e)
    BY <1>3 DEF Timeline!Submit, Timeline!Announce, Told
<1> QED
    BY <1>4, <1>5 DEF Timeline!Next

\* The board implements the timeline, whatever requests overlap: announcements to an
\* applicant start with the submission, come one by one and are never lost.
THEOREM TimelineRefined == Spec => TimelineKept
<1>1. Init => Timeline!Init
    BY DEF Init, Timeline!Init, NoApplication, PublicHistory
<1>2. Inv /\ [Next]_vars => [Timeline!Next]_([a \in Applications |-> PublicHistory(a)])
    BY TimelineStep DEF Told
<1> QED
    BY <1>1, <1>2, InvHolds, PTL DEF Spec, TimelineKept, Timeline!Spec

=============================================================================
