-------------------------------- MODULE JobBoard --------------------------------
(***************************************************************************)
(* Job listings, and applications with their history.  Every use case loads *)
(* a row, changes its copy and saves the copy; the nightly task loads all   *)
(* listings that are due and then saves them one by one.                    *)
(* Nothing checks that a copy is still current.                             *)
(*                                                                          *)
(* Requests for rows of another owner are refused and leave no trace, so    *)
(* the callers here are the listing's employer and the application's        *)
(* applicant.                                                               *)
(***************************************************************************)
EXTENDS Routes, FiniteSets

CONSTANTS
    Applicants, Listings,
    Applications,  \* the pairs of applicant and listing that are looked at
    Expiries,      \* the expiry dates that a listing may be given
    Decisions,     \* the statuses that the employer chooses from
    Requests,      \* slots for requests in flight
    NoListing,     \* no listing
    MaxTime, MaxHistory  \* bounds of the model

Statuses == {"PENDING", "REVIEWING", "SHORTLISTED", "REJECTED", "HIRED", "WITHDRAWN"}
\* DRAFT is not here: nothing sets it.
JobStatuses == {"absent", "PUBLISHED", "CLOSED", "EXPIRED"}

\* UpdateApplicationStatusRequestDto accepts every status.  (applicantId,
\* jobListingId) is unique, so the pair names the application.
ASSUME BoardAssumption ==
    /\ Applications \subseteq Applicants \X Listings
    /\ Expiries \subseteq Nat
    /\ Decisions \subseteq Statuses
    /\ MaxHistory \in Nat
    /\ NoListing \notin Listings

VARIABLES
    listings,      \* the JobListing rows
    applications,  \* the JobApplication rows with their history
    sweep,         \* listings that the expiry task has loaded and not yet handled
    req,           \* for each slot: the use case it runs and the copies it loaded
    now,           \* the clock
    bulked         \* history: applications whose status a bulk update has set

vars == <<listings, applications, sweep, req, now, bulked>>

-----------------------------------------------------------------------------
(* Rows.                                                                    *)

Listing == [status: JobStatuses, expiresAt: Nat]

\* One row of JobApplicationHistory, the n-th of its application.
Entry ==
    [n: 1..MaxHistory, event: {"SUBMITTED", "STATUS_UPDATED", "WITHDRAWN", "NOTE_ADDED"},
     status: Statuses, isPublic: BOOLEAN]

\* count is the number of history rows.
Application ==
    [status: Statuses \cup {"absent"}, count: 0..MaxHistory, history: SUBSET Entry]

NoApplication == [status |-> "absent", count |-> 0, history |-> {}]

IsPublished(l) == listings[l].status = "PUBLISHED"
Submitted(a) == applications[a].status # "absent"

\* JobListing.update, which a closed or expired listing refuses.
MayUpdate(l) == listings[l].status \notin {"absent", "CLOSED", "EXPIRED"}

\* JobListing.close: an expired listing may still be closed.
MayClose(l) == listings[l].status \notin {"absent", "CLOSED"}

\* JobApplication.withdraw
MayWithdraw(a) ==
    applications[a].status \notin {"absent", "HIRED", "REJECTED", "WITHDRAWN"}

\* Mutation: the date is not looked at.
ExpirableAny(l) == IsPublished(l)

\* findExpirableListings
Expirable(l) == IsPublished(l) /\ listings[l].expiresAt < now

-----------------------------------------------------------------------------
(* Requests.                                                                *)

ListingUseCases == {"editJob", "closeJob"}
ApplicationUseCases == {"apply", "withdraw", "updateStatus", "updateNote", "bulkUpdate"}

ASSUME CallerAssumption ==
    /\ ListingUseCases \cup {"updateStatus", "updateNote", "bulkUpdate"}
           \subseteq UseCasesFor("EMPLOYER")
    /\ {"apply", "withdraw"} \subseteq UseCasesFor("APPLICANT")

Idle == [op |-> "idle", listing |-> NoListing, listingStatus |-> "absent",
         targets |-> {}, status |-> [a \in Applications |-> "absent"],
         event |-> "none"]

Begin(r, request) ==
    /\ req[r].op = "idle"
    /\ req' = [req EXCEPT ![r] = request]
    /\ UNCHANGED <<listings, applications, sweep, now, bulked>>

At(r, op) == req[r].op = op
End(r) == req' = [req EXCEPT ![r] = Idle]

\* A request that holds a copy of one listing and will give it this status.
BeginListing(r, op, l, status) ==
    Begin(r, [Idle EXCEPT !.op = op, !.listing = l, !.listingStatus = status])

\* A request that holds copies of the applications A, each with the status that its
\* save will write, and will add a history row with this event to each, or none.
BeginApplications(r, op, A, status, event) ==
    Begin(r, [Idle EXCEPT !.op = op, !.targets = A, !.event = event,
                          !.status = [a \in Applications |->
                              IF a \in A THEN status[a] ELSE "absent"]])

-----------------------------------------------------------------------------
(* Listings.                                                                *)

\* A listing is published as it is created; its expiresAt never changes after.
CreateListing(l, expiresAt) ==
    /\ listings[l].status = "absent"
    /\ listings' = [listings EXCEPT ![l] = [status |-> "PUBLISHED", expiresAt |-> expiresAt]]
    /\ UNCHANGED <<applications, sweep, req, now, bulked>>

EditListing(r, l) ==
    /\ MayUpdate(l)
    /\ BeginListing(r, "editJob", l, listings[l].status)

CloseListing(r, l) ==
    /\ MayClose(l)
    /\ BeginListing(r, "closeJob", l, "CLOSED")

\* save: the whole row, its status included.
SaveListing(r) ==
    /\ req[r].op \in ListingUseCases
    /\ listings' = [listings EXCEPT ![req[r].listing].status = req[r].listingStatus]
    /\ End(r)
    /\ UNCHANGED <<applications, sweep, now, bulked>>

\* The task, every night: it works on the listings that are due when it starts.
SweepStart ==
    /\ sweep = {}
    /\ sweep' = {l \in Listings : Expirable(l)}
    /\ sweep' # {}
    /\ UNCHANGED <<listings, applications, req, now, bulked>>

\* Mutation: only a listing that is still published is saved as expired, and one
\* that was closed meanwhile ends the run.
SweepOneStuck(l) ==
    /\ l \in sweep
    /\ ~IsPublished(l)
    /\ sweep' = sweep \ {l}
    /\ UNCHANGED <<listings, applications, req, now, bulked>>

SweepOne(l) ==
    /\ l \in sweep
    /\ listings' = [listings EXCEPT ![l].status = "EXPIRED"]
    /\ sweep' = sweep \ {l}
    /\ UNCHANGED <<applications, req, now, bulked>>

\* The save of one listing fails and the task goes on with the next.
SweepSkip(l) ==
    /\ l \in sweep
    /\ sweep' = sweep \ {l}
    /\ UNCHANGED <<listings, applications, req, now, bulked>>

-----------------------------------------------------------------------------
(* Applications.                                                            *)

Setting(status) == [a \in Applications |-> status]

\* Mutation: the status of the listing is not looked at.
ApplyToAny(r, a) ==
    /\ ~Submitted(a)
    /\ BeginApplications(r, "apply", {a}, Setting("PENDING"), "SUBMITTED")

Apply(r, a) ==
    /\ IsPublished(a[2])
    /\ ~Submitted(a)
    /\ BeginApplications(r, "apply", {a}, Setting("PENDING"), "SUBMITTED")

Withdraw(r, a) ==
    /\ MayWithdraw(a)
    /\ BeginApplications(r, "withdraw", {a}, Setting("WITHDRAWN"), "WITHDRAWN")

UpdateStatus(r, a, status) ==
    /\ Submitted(a)
    /\ BeginApplications(r, "updateStatus", {a}, Setting(status), "STATUS_UPDATED")

\* Mutation: whether the application exists is not checked.
UpdateInternalNoteUnchecked(r, a) ==
    BeginApplications(r, "updateNote", {a}, Setting(applications[a].status), "NOTE_ADDED")

\* What the note says is left out; its save writes the status of the copy as well.
UpdateInternalNote(r, a) ==
    /\ Submitted(a)
    /\ BeginApplications(r, "updateNote", {a}, Setting(applications[a].status), "NOTE_ADDED")

\* The bulk update loads every application of the list and adds no history.
BulkUpdateStatus(r, A, status) ==
    /\ A # {}
    /\ \A a \in A : Submitted(a)
    /\ BeginApplications(r, "bulkUpdate", A, Setting(status), "none")

\* Mutation: the visibility of a new entry is left at the column's default.
NewEntryPublic(n, event, status) ==
    [n |-> n, event |-> event, status |-> status, isPublic |-> TRUE]

\* Notes are for the employer, everything else is public.
NewEntry(n, event, status) ==
    [n |-> n, event |-> event, status |-> status, isPublic |-> event # "NOTE_ADDED"]

\* Mutation: the record is not created with the row.
StoreUnrecorded(a, status, event) == [applications[a] EXCEPT !.status = status]

\* The upsert writes the status of the copy.  The history was not loaded, so only
\* the new record is there to be inserted.
Store(a, status, event) ==
    IF event = "none"
    THEN [applications[a] EXCEPT !.status = status]
    ELSE [status |-> status,
          count |-> applications[a].count + 1,
          history |-> applications[a].history \cup
                      {NewEntry(applications[a].count + 1, event, status)}]

\* The row of an application that is submitted a second time meets the unique index.
SaveApplications(r) ==
    /\ req[r].op \in ApplicationUseCases
    /\ At(r, "apply") => \A a \in req[r].targets : ~Submitted(a)
    /\ \A a \in req[r].targets : applications[a].count < MaxHistory
    /\ applications' = [a \in Applications |->
           IF a \in req[r].targets THEN Store(a, req[r].status[a], req[r].event)
           ELSE applications[a]]
    /\ bulked' = IF At(r, "bulkUpdate") THEN bulked \cup req[r].targets ELSE bulked
    /\ End(r)
    /\ UNCHANGED <<listings, sweep, now>>

-----------------------------------------------------------------------------
\* A request ends without a save: a query failed, the unique index refused the
\* row, or the connection is gone.
Fail(r) ==
    /\ req[r].op # "idle"
    /\ End(r)
    /\ UNCHANGED <<listings, applications, sweep, now, bulked>>

\* The process dies with everything it had loaded.
Restart ==
    /\ sweep # {} \/ \E r \in Requests : req[r].op # "idle"
    /\ sweep' = {}
    /\ req' = [r \in Requests |-> Idle]
    /\ UNCHANGED <<listings, applications, now, bulked>>

Tick ==
    /\ now < MaxTime
    /\ now' = now + 1
    /\ UNCHANGED <<listings, applications, sweep, req, bulked>>

-----------------------------------------------------------------------------
Init ==
    /\ listings = [l \in Listings |-> [status |-> "absent", expiresAt |-> 0]]
    /\ applications = [a \in Applications |-> NoApplication]
    /\ sweep = {}
    /\ req = [r \in Requests |-> Idle]
    /\ now = 0
    /\ bulked = {}

ManageListings ==
    \/ \E l \in Listings, t \in Expiries : CreateListing(l, t)
    \/ \E r \in Requests, l \in Listings : EditListing(r, l) \/ CloseListing(r, l)
    \/ \E r \in Requests : SaveListing(r)

Sweep == SweepStart \/ \E l \in Listings : SweepOne(l) \/ SweepSkip(l)

ManageApplications ==
    \E r \in Requests :
        \/ \E a \in Applications : Apply(r, a) \/ Withdraw(r, a) \/ UpdateInternalNote(r, a)
        \/ \E a \in Applications, status \in Decisions : UpdateStatus(r, a, status)
        \/ \E A \in SUBSET Applications, status \in Decisions : BulkUpdateStatus(r, A, status)
        \/ SaveApplications(r)

Next ==
    \/ ManageListings \/ Sweep \/ ManageApplications
    \/ (\E r \in Requests : Fail(r)) \/ Restart
    \/ Tick

\* The task runs every night, and what it retries every night does not fail for
\* ever.  Nothing is assumed of requests.
Fairness == WF_vars(SweepStart) /\ \A l \in Listings : SF_vars(SweepOne(l))

Spec == Init /\ [][Next]_vars /\ Fairness

-----------------------------------------------------------------------------
Request ==
    [op: ApplicationUseCases \cup ListingUseCases \cup {"idle"},
     listing: Listings \cup {NoListing}, listingStatus: JobStatuses,
     targets: SUBSET Applications, status: [Applications -> Statuses \cup {"absent"}],
     event: {"none", "SUBMITTED", "STATUS_UPDATED", "WITHDRAWN", "NOTE_ADDED"}]

\* Every row, and every copy in flight, has its type.
TypeOK ==
    /\ listings \in [Listings -> Listing]
    /\ applications \in [Applications -> Application]
    /\ sweep \subseteq Listings
    /\ req \in [Requests -> Request]
    /\ now \in Nat
    /\ bulked \subseteq Applications

\* The history explains the status: unless a bulk update set it, the status that a
\* row has is one that some record of its history, other than a note, announced.
\* Saves of old copies bring back an old status, never one that was not recorded.
StatusOnRecord ==
    \A a \in Applications \ bulked : Submitted(a) =>
        \E h \in applications[a].history :
            h.event # "NOTE_ADDED" /\ h.status = applications[a].status

\* The task ends only listings whose date has passed, although it works through a
\* list that may be old by the time it saves.
ExpiredWhenDue ==
    \A l \in Listings : listings[l].status = "EXPIRED" => listings[l].expiresAt < now

\* The listing is closed or expired, and no edit of it and no application to it is in
\* flight from before.
Shut(l) ==
    /\ listings[l].status \in {"CLOSED", "EXPIRED"}
    /\ \A r \in Requests :
          /\ At(r, "editJob") => req[r].listing # l
          /\ At(r, "apply") => \A a \in req[r].targets : a[2] # l

\* A listing that is shut stays shut and takes no further application, although the task
\* and other requests go on saving copies (ApplyForJobUseCase, JobListing.update): only
\* a request that had read it as published gets past its end.
ShutForGood ==
    [][\A l \in Listings : Shut(l) =>
          /\ Shut(l)'
          /\ \A a \in Applications : a[2] = l /\ Submitted(a)' => Submitted(a)]_vars

\* GetApplicationHistoryUseCase: what the applicant reads.
PublicHistory(a) == {h \in applications[a].history : h.isPublic}

Timeline == INSTANCE ApplicationTimeline
            WITH Announcement <- Entry, told <- [a \in Applications |-> PublicHistory(a)]

\* What applicants read is a timeline that starts with the submission and only
\* grows, by one announcement at a time, and never by a note of the employer.
TimelineKept == Timeline!Spec

\* A published listing whose date has passed does not stay published
\* (ExpireJobListingsTask), although its save may fail and the process restart.
DueListingsLeave ==
    \A l \in Listings : Expirable(l) ~> ~IsPublished(l)

=============================================================================
