------------------------------ MODULE AccountErasure ------------------------------
(***************************************************************************)
(* The end of one account across both contexts: IAM deletes the row and     *)
(* everything cascades, recruitment queues the files for deletion, the      *)
(* queue outlives the process, and the owner may still be working.          *)
(* The nightly task and an administrator may delete the same account at the *)
(* same time.                                                               *)
(***************************************************************************)
EXTENDS Notifications

CONSTANTS
    Owner, Partner,  \* the owner of the account, and the other side of applications
    Roles,           \* roles that the owner may have
    Documents,       \* public ids of documents
    Logo, Avatar     \* the public ids of the owner's pictures

ASSUME ErasureAssumption ==
    /\ {Owner, Partner} \subseteq Persons /\ Owner # Partner
    /\ Roles \subseteq {"APPLICANT", "EMPLOYER"}
    /\ Files = Documents \cup {Logo, Avatar}
    /\ Logo # Avatar /\ {Logo, Avatar} \cap Documents = {}

VARIABLES
    account,  \* how far the account is on its way out
    role,
    docs,     \* the documents that the profile lists
    applied,  \* the documents that the owner's applications refer to
    logo,     \* whether the employer profile has a logo
    files,    \* what the store of files holds
    req,      \* the owner's request in flight
    erasers,  \* the nightly task and the administrator
    ending,   \* history: a deletion of the account was started
    undone    \* history: documents whose upload was saved and yet undone

owned == <<docs, applied, logo, undone>>
vars == <<jobs, handlers, crashes, account, role, owned, files, req, erasers, ending>>

Erasers == {"task", "admin"}
Exists == account # "gone"
Present == IF Exists THEN Persons ELSE Persons \ {Owner}
Idle == [op |-> "idle", file |-> Avatar]

\* The listener of e is started and not waited for.
Publish(e) ==
    /\ Cardinality(handlers \cup {e}) <= MaxPending
    /\ handlers' = handlers \cup {e}

-----------------------------------------------------------------------------
(* The life of the account.                                                 *)

Schedule ==
    /\ account = "active"
    /\ account' = "scheduled"
    /\ Publish(On("USER_ACCOUNT_DELETION_SCHEDULED", Owner, Nobody))
    /\ UNCHANGED <<jobs, crashes, role, owned, files, req, erasers, ending>>

BecomeDue ==
    /\ account = "scheduled"
    /\ account' = "due"
    /\ UNCHANGED <<jobs, handlers, crashes, role, owned, files, req, erasers, ending>>

\* A login restores the account as long as the row is there, due or not.
Restore ==
    /\ account \in {"scheduled", "due"}
    /\ account' = "active"
    /\ Publish(On("USER_ACCOUNT_RESTORED", Owner, Nobody))
    /\ UNCHANGED <<jobs, crashes, role, owned, files, req, erasers, ending>>

\* Mutation: the date is not looked at.
PendingDeletionEarly == account \in {"scheduled", "due"}

\* findPendingDeletions
PendingDeletion == account = "due"

\* The task keeps what it loaded while it works; the administrator's request does too.
EraseLoad(p) ==
    /\ erasers[p] = "idle"
    /\ IF p = "task" THEN PendingDeletion ELSE Exists
    /\ erasers' = [erasers EXCEPT ![p] = "loaded"]
    /\ ending' = (ending \/ p = "admin" \/ account = "due")
    /\ UNCHANGED <<jobs, handlers, crashes, account, role, owned, files, req>>

\* Mutation: an employer without a logo is queued as well.
FilesToCleanUnchecked ==
    IF role = "APPLICANT" THEN applied ELSE {IF logo THEN Logo ELSE Nobody}

\* CleanupRecruitmentDataUseCase: the files it finds in the rows.
FilesToClean ==
    IF role = "APPLICANT" THEN applied ELSE IF logo THEN {Logo} ELSE {}

\* Mutation: a file that cannot be queued ends the deletion.
CleanUpStrict(p) ==
    /\ erasers[p] = "loaded"
    /\ \/ /\ Exists /\ FilesToClean # {} /\ HasRoomFor(1)
          /\ jobs' = Append(jobs, AssetJob(IF role = "APPLICANT" THEN "document" ELSE "image",
                                           FilesToClean))
          /\ erasers' = [erasers EXCEPT ![p] = "cleaned"]
       \/ /\ ~Exists \/ FilesToClean = {}
          /\ UNCHANGED jobs
          /\ erasers' = [erasers EXCEPT ![p] = "cleaned"]
       \/ /\ Faulty
          /\ UNCHANGED jobs
          /\ erasers' = [erasers EXCEPT ![p] = "idle"]
    /\ UNCHANGED <<handlers, crashes, account, role, owned, files, req, ending>>

\* Recruitment is told before the row goes, and is waited for.  Its errors are
\* logged, then the deletion goes on.
CleanUp(p) ==
    /\ erasers[p] = "loaded"
    /\ erasers' = [erasers EXCEPT ![p] = "cleaned"]
    /\ \/ /\ Exists /\ FilesToClean # {} /\ HasRoomFor(1)
          /\ jobs' = Append(jobs, AssetJob(IF role = "APPLICANT" THEN "document" ELSE "image",
                                           FilesToClean))
       \/ /\ ~Exists \/ FilesToClean = {} \/ Faulty
          /\ UNCHANGED jobs
    /\ UNCHANGED <<handlers, crashes, account, role, owned, files, req, ending>>

\* Mutation: deleting a row that is gone is no error.
EraseRowAgain(p) ==
    /\ erasers[p] = "cleaned"
    /\ account' = "gone"
    /\ docs' = {} /\ applied' = {} /\ logo' = FALSE
    /\ erasers' = [erasers EXCEPT ![p] = "idle"]
    /\ Publish(On("USER_ACCOUNT_DELETED", Owner, Nobody))
    /\ UNCHANGED <<jobs, crashes, role, files, req, ending, undone>>

\* The row goes and all rows of the owner with it; a row that is gone cannot be
\* deleted.  Whether the account is still scheduled is not looked at again.  When the
\* answer of the database is lost, nobody is told.
EraseRow(p) ==
    /\ erasers[p] = "cleaned"
    /\ Exists
    /\ account' = "gone"
    /\ docs' = {} /\ applied' = {} /\ logo' = FALSE
    /\ erasers' = [erasers EXCEPT ![p] = "idle"]
    /\ \/ Publish(On("USER_ACCOUNT_DELETED", Owner, Nobody))
       \/ Faulty /\ UNCHANGED handlers
    /\ UNCHANGED <<jobs, crashes, role, files, req, ending, undone>>

\* The task logs the error and goes on with the next account.
EraseFails(p) ==
    /\ erasers[p] = "cleaned"
    /\ ~Exists \/ Faulty
    /\ erasers' = [erasers EXCEPT ![p] = "idle"]
    /\ UNCHANGED <<jobs, handlers, crashes, account, role, owned, files, req, ending>>

-----------------------------------------------------------------------------
(* What the owner may be doing meanwhile.  Deleting documents is left to        *)
(* ApplicantDocuments: it never adds a file.                                   *)

IsApplicant == role = "APPLICANT" /\ Exists /\ req = Idle
IsEmployer == role = "EMPLOYER" /\ Exists /\ req = Idle

\* The file is stored before the row is written.
UploadDocument(d) ==
    /\ IsApplicant
    /\ d \notin docs \cup files
    /\ files' = files \cup {d}
    /\ req' = [op |-> "uploadDocument", file |-> d]
    /\ UNCHANGED <<jobs, handlers, crashes, account, role, owned, erasers, ending>>

SaveDocument ==
    /\ req.op = "uploadDocument"
    /\ Exists
    /\ docs' = docs \cup {req.file}
    /\ req' = Idle
    /\ UNCHANGED <<jobs, handlers, crashes, account, role, applied, logo, files, erasers, ending,
                   undone>>

\* The save is committed, but its answer is lost: the file is removed again, if the
\* store lets it, although the document is listed.
SaveDocumentUnacknowledged ==
    /\ req.op = "uploadDocument"
    /\ Exists /\ Faulty
    /\ docs' = docs \cup {req.file}
    /\ \E removed \in Outcomes :
          /\ files' = IF removed THEN files \ {req.file} ELSE files
          /\ undone' = IF removed THEN undone \cup {req.file} ELSE undone
    /\ req' = Idle
    /\ UNCHANGED <<jobs, handlers, crashes, account, role, applied, logo, erasers, ending>>

\* The save fails and the file is removed again, if the store lets it.
SaveDocumentFails ==
    /\ req.op = "uploadDocument"
    /\ ~Exists \/ Faulty
    /\ \E removed \in Outcomes :
          files' = IF removed THEN files \ {req.file} ELSE files
    /\ req' = Idle
    /\ UNCHANGED <<jobs, handlers, crashes, account, role, owned, erasers, ending>>

\* An application keeps the id of the document, not a reference to its row.  A second
\* application with the same document would add nothing here.
Apply(d) ==
    /\ IsApplicant
    /\ d \in docs \ applied
    /\ applied' = applied \cup {d}
    /\ Publish(On("JOB_APPLICATION_SUBMITTED", Owner, Partner))
    /\ UNCHANGED <<jobs, crashes, account, role, docs, logo, files, req, erasers, ending, undone>>

\* The old picture is destroyed, whatever comes of it; the new one gets its id.
UploadLogo ==
    /\ IsEmployer
    /\ files' = files \cup {Logo}
    /\ req' = [op |-> "uploadLogo", file |-> Logo]
    /\ UNCHANGED <<jobs, handlers, crashes, account, role, owned, erasers, ending>>

\* The old picture may be gone by then.
UploadLogoFails ==
    /\ IsEmployer
    /\ Faulty
    /\ files' \in {files, files \ {Logo}}
    /\ UNCHANGED <<jobs, handlers, crashes, account, role, owned, req, erasers, ending>>

\* There is no compensation when the save fails.
SaveLogo ==
    /\ req.op = "uploadLogo"
    /\ req' = Idle
    /\ \/ Exists /\ logo' = TRUE
       \/ (~Exists \/ Faulty) /\ UNCHANGED logo
    /\ UNCHANGED <<jobs, handlers, crashes, account, role, docs, applied, files, erasers, ending,
                   undone>>

RemoveLogo ==
    /\ IsEmployer
    /\ logo
    /\ \E destroyed \in Outcomes, saved \in Outcomes :
          /\ files' = IF destroyed THEN files \ {Logo} ELSE files
          /\ logo' = ~saved
    /\ UNCHANGED <<jobs, handlers, crashes, account, role, docs, applied, req, erasers, ending,
                   undone>>

-----------------------------------------------------------------------------
(* Listeners, workers and the process.                                      *)

\* The listener of the deletion also destroys the avatar.
Listen(e) ==
    /\ Handle(e, Present)
    /\ \E destroyed \in Outcomes :
          files' = IF e.name = "USER_ACCOUNT_DELETED" /\ destroyed
                   THEN files \ {Avatar} ELSE files
    /\ UNCHANGED <<crashes, account, role, owned, req, erasers, ending>>

TakeJob(i) ==
    /\ Take(i)
    /\ UNCHANGED <<handlers, crashes, account, role, owned, files, req, erasers, ending>>

RunMail(i) ==
    /\ SendMail(i)
    /\ UNCHANGED <<handlers, crashes, account, role, owned, files, req, erasers, ending>>

\* RecruitmentAssetProcessor: every file is tried, errors are logged, the job is done.
DestroyAssets(i) ==
    /\ jobs[i].queue = "recruitment-asset-queue"
    /\ Complete(i)
    /\ \E left \in (IF Faulty THEN SUBSET jobs[i].data.urls ELSE {{}}) :
          files' = files \ (jobs[i].data.urls \ left)
    /\ UNCHANGED <<handlers, crashes, account, role, owned, req, erasers, ending>>

\* The process dies.  An asset job may have done a part of its work.
Crash ==
    /\ crashes < MaxCrashes
    /\ crashes' = crashes + 1
    /\ jobs' = Stalled
    /\ \E done \in SUBSET UNION {jobs[i].data.urls : i \in {k \in Ids : InState(k, "active")}} :
          files' = files \ done
    /\ handlers' = {}
    /\ req' = Idle
    /\ erasers' = [p \in Erasers |-> "idle"]
    /\ UNCHANGED <<account, role, owned, ending>>

-----------------------------------------------------------------------------
Init ==
    /\ jobs = <<>>
    /\ handlers = {}
    /\ crashes = 0
    /\ account = "active"
    /\ role \in Roles
    /\ docs = {} /\ applied = {} /\ logo = FALSE
    /\ files = {Avatar}
    /\ req = Idle
    /\ erasers = [p \in Erasers |-> "idle"]
    /\ ending = FALSE
    /\ undone = {}

Life == Schedule \/ BecomeDue \/ Restore

Erase == \E p \in Erasers : EraseLoad(p) \/ CleanUp(p) \/ EraseRow(p) \/ EraseFails(p)

Work ==
    \/ \E d \in Documents : UploadDocument(d) \/ Apply(d)
    \/ SaveDocument \/ SaveDocumentUnacknowledged \/ SaveDocumentFails
    \/ UploadLogo \/ UploadLogoFails \/ SaveLogo \/ RemoveLogo

Run(i) == TakeJob(i) \/ RunMail(i) \/ DestroyAssets(i)

Next ==
    \/ Life \/ Erase \/ Work
    \/ \E e \in handlers : Listen(e)
    \/ \E i \in Ids : Run(i)
    \/ Crash

\* Workers and listeners run as long as the process does, and it is started again
\* when it died.
\* The task comes every night, goes on with what it loaded, and an account that it
\* can delete night after night is deleted in the end.
Fairness ==
    /\ WF_vars(\E i \in Ids : Run(i))
    /\ WF_vars(\E e \in handlers : Listen(e))
    /\ WF_vars(EraseLoad("task") \/ CleanUp("task"))
    /\ SF_vars(EraseRow("task"))

Spec == Init /\ [][Next]_vars /\ Fairness

-----------------------------------------------------------------------------
\* Every variable has its type.
TypeOK ==
    /\ jobs \in Seq(Job(Data)) /\ Len(jobs) <= MaxJobs
    /\ handlers \subseteq Event
    /\ crashes \in 0..MaxCrashes
    /\ account \in {"active", "scheduled", "due", "gone"}
    /\ role \in Roles
    /\ docs \subseteq Documents /\ applied \subseteq Documents
    /\ logo \in BOOLEAN
    /\ files \subseteq Files
    /\ req \in [op: {"idle", "uploadDocument", "uploadLogo"}, file: Files]
    /\ erasers \in [Erasers -> {"idle", "loaded", "cleaned"}]
    /\ ending \in BOOLEAN
    /\ undone \subseteq Documents

\* As long as no deletion was started, every listed document has its file, unless its
\* own upload was saved without an answer and undone: neither scheduling nor restoring,
\* nor a job of a queue, nor a crash takes one.
FilesKept == ~ending => docs \ undone \subseteq files

Farewells == {i \in Ids : jobs[i].data.name = "send-farewell-email"}

\* The farewell is never queued for an account that is still there, and only once,
\* although the task and an administrator may erase the account at the same time.
FarewellOnce ==
    /\ Farewells # {} => ~Exists
    /\ Cardinality(Farewells) <= 1

\* Nothing is started any more that could still remove a file.
Quiet ==
    /\ handlers = {} /\ req = Idle
    /\ \A p \in Erasers : erasers[p] = "idle"
    /\ \A i \in Ids : Settled(i)

\* What docs/architecture/integration-events.md says of the cleanup: when the account
\* is gone and nothing is left to do, no file of it is left in the store.
NoOrphanFiles == ~Exists /\ Quiet => files = {}

\* Every job is finished or given up, although the provider may refuse and the
\* process may die.
JobsSettle == \A i \in 1..MaxJobs : (i \in Ids) ~> (i \in Ids /\ Settled(i))

\* An account that is due is deleted or restored, although single runs of the task
\* fail (ExecuteHardDeletionUseCase).
DueAccountsEnd == account = "due" ~> account # "due"

=============================================================================
