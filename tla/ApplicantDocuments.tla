--------------------------- MODULE ApplicantDocuments ---------------------------
(***************************************************************************)
(* One applicant's profile, the documents it lists (resumes and cover       *)
(* letters) and the files behind them in the document store.  A request     *)
(* loads the profile with its documents, talks to the store, changes its    *)
(* copy and saves it.  save is a transaction of two parts: it compares the  *)
(* dates of row and copy, then writes the whole copy; the row is locked     *)
(* only by the write, so another save may commit between the two.           *)
(***************************************************************************)
EXTENDS Routes, FiniteSets

CONSTANTS
    Resumes, CoverLetters,  \* the ids that documents of each type may be given
    MaxDocs,                \* how many documents of one type a profile may hold
    Requests,               \* slots for requests in flight
    NoDoc,                  \* no document id
    MaxTime                 \* bound on the clock

DocIds == Resumes \cup CoverLetters

ASSUME DocumentAssumption ==
    /\ Resumes \cap CoverLetters = {}
    /\ NoDoc \notin Resumes \cup CoverLetters
    /\ MaxDocs \in Nat \ {0}

VARIABLES
    db,     \* the profile row and its document rows
    files,  \* the documents whose file is in the store
    req,    \* for each slot: the step it is at and the copy it works on
    now,    \* the clock, in the milliseconds that dates are compared in
    used,   \* document ids generated so far
    asked,  \* history: documents that the applicant asked to delete
    unsure  \* history: documents whose upload was saved and yet took it for failed

vars == <<db, files, req, now, used, asked, unsure>>

-----------------------------------------------------------------------------
(* The aggregate: ApplicantProfile with its ApplicantDocuments.             *)

Profile == [exists: BOOLEAN, docs: SUBSET DocIds, primary: SUBSET DocIds, updatedAt: Nat]

NoProfile == [exists |-> FALSE, docs |-> {}, primary |-> {}, updatedAt |-> 0]

\* The documents of S that are of the type of d.
OfType(S, d) == {e \in S : e \in Resumes <=> d \in Resumes}

create(t) == [NoProfile EXCEPT !.exists = TRUE, !.updatedAt = t]

updateProfile(p, t) == [p EXCEPT !.updatedAt = t]

\* Mutation: the limit is checked one document late.
HasRoomLate(p, d) == Cardinality(OfType(p.docs, d)) <= MaxDocs

HasRoom(p, d) == Cardinality(OfType(p.docs, d)) < MaxDocs

\* Mutation: a first document is not made primary.
addDocumentPlain(p, d, t) == [p EXCEPT !.docs = @ \cup {d}, !.updatedAt = t]

\* The first document of its type becomes primary.
addDocument(p, d, t) ==
    [p EXCEPT !.docs = @ \cup {d},
              !.primary = IF OfType(p.docs, d) = {} THEN @ \cup {d} ELSE @,
              !.updatedAt = t]

\* Mutation: the first document left takes over even when there is none.
HeirsUnchecked(p, d) ==
    LET rest == OfType(p.docs \ {d}, d)
    IN  IF d \notin p.primary THEN {{}}
        ELSE IF rest = {} THEN {{NoDoc}} ELSE {{e} : e \in rest}

\* When the primary document goes, the first one left of its type takes over.
\* Documents are loaded in no particular order, so it may be any of them.
Heirs(p, d) ==
    LET rest == OfType(p.docs \ {d}, d)
    IN  IF d \in p.primary /\ rest # {} THEN {{e} : e \in rest} ELSE {{}}

removeDocument(p, d, heir, t) ==
    [p EXCEPT !.docs = @ \ {d}, !.primary = (@ \ {d}) \cup heir, !.updatedAt = t]

setPrimaryDocument(p, d, t) ==
    [p EXCEPT !.primary = (@ \ OfType(p.docs, d)) \cup {d}, !.updatedAt = t]

-----------------------------------------------------------------------------
(* Requests.                                                                *)

\* The routes of ApplicantController that change a profile or its documents.
ProfileUseCases == {"createProfile", "editProfile"}
DocumentUseCases == {"uploadDocument", "deleteDocument", "setPrimaryDocument"}

ASSUME ApplicantAssumption ==
    ProfileUseCases \cup DocumentUseCases \subseteq UseCasesFor("APPLICANT")

Steps == {"idle", "upload", "destroy", "check", "write", "compensate"}

Idle == [op |-> "idle", step |-> "idle", copy |-> NoProfile, base |-> 0, doc |-> NoDoc]

\* The handler up to its next await: it has loaded the profile and holds copy p.
\* baseUpdatedAt keeps the date the profile was loaded with.
Begin(r, op, step, p, d) ==
    /\ req[r].op = "idle"
    /\ req' = [req EXCEPT ![r] = [op |-> op, step |-> step, copy |-> p,
                                 base |-> db.updatedAt, doc |-> d]]
    /\ UNCHANGED <<db, files, now>>

At(r, step) == req[r].step = step
GoTo(r, step) == req' = [req EXCEPT ![r].step = step]
End(r) == req' = [req EXCEPT ![r] = Idle]

\* An upload that fails once its file is stored removes the file again.
FailSave(r) ==
    IF req[r].op = "uploadDocument" THEN GoTo(r, "compensate") ELSE End(r)

CreateProfile(r) ==
    /\ ~db.exists
    /\ Begin(r, "createProfile", "write", create(now), NoDoc)
    /\ UNCHANGED <<used, asked, unsure>>

EditProfile(r) ==
    /\ db.exists
    /\ Begin(r, "editProfile", "check", updateProfile(db, now), NoDoc)
    /\ UNCHANGED <<used, asked, unsure>>

SetPrimaryDocument(r) ==
    /\ db.exists
    /\ \E d \in db.docs :
          Begin(r, "setPrimaryDocument", "check", setPrimaryDocument(db, d, now), d)
    /\ UNCHANGED <<used, asked, unsure>>

UploadDocument(r) ==
    /\ db.exists
    /\ \E d \in DocIds \ used :
          /\ Begin(r, "uploadDocument", "upload", db, d)
          /\ used' = used \cup {d}
    /\ UNCHANGED <<asked, unsure>>

\* The file is stored; then the copy lists it, or turns out to be full.
StoreFile(r) ==
    /\ At(r, "upload")
    /\ files' = files \cup {req[r].doc}
    /\ IF HasRoom(req[r].copy, req[r].doc)
       THEN req' = [req EXCEPT ![r].step = "check",
                               ![r].copy = addDocument(@, req[r].doc, now)]
       ELSE GoTo(r, "compensate")
    /\ UNCHANGED <<db, now, used, asked, unsure>>

\* The store reports an error, whether or not it has kept the file.
StoreFileFails(r) ==
    /\ At(r, "upload")
    /\ files' \in {files, files \cup {req[r].doc}}
    /\ End(r)
    /\ UNCHANGED <<db, now, used, asked, unsure>>

\* deleteDocument; a failure is logged and the request fails as it would have.
Compensate(r) ==
    /\ At(r, "compensate")
    /\ files' \in {files, files \ {req[r].doc}}
    /\ End(r)
    /\ UNCHANGED <<db, now, used, asked, unsure>>

DeleteDocument(r) ==
    /\ db.exists
    /\ \E d \in db.docs : \E heir \in Heirs(db, d) :
          /\ Begin(r, "deleteDocument", "destroy", removeDocument(db, d, heir, now), d)
          /\ asked' = asked \cup {d}
    /\ UNCHANGED <<used, unsure>>

\* The file goes first.  The store also answers normally when it has no such file.
DestroyFile(r) ==
    /\ At(r, "destroy")
    /\ files' = files \ {req[r].doc}
    /\ GoTo(r, "check")
    /\ UNCHANGED <<db, now, used, asked, unsure>>

\* The store rejects with an Error, before or after it removed the file.  Both
\* branches of the catch block rethrow it.
DestroyFileFails(r) ==
    /\ At(r, "destroy")
    /\ files' \in {files, files \ {req[r].doc}}
    /\ End(r)
    /\ UNCHANGED <<db, now, used, asked, unsure>>

\* Mutation: a document whose file was not removed is put back into the list.
DestroyFileSwallowedRestores(r) ==
    /\ At(r, "destroy")
    /\ req' = [req EXCEPT ![r].step = "check", ![r].copy = addDocument(@, req[r].doc, now)]
    /\ UNCHANGED <<db, files, now, used, asked, unsure>>

\* The store's client rejects with a plain object.  The catch block does nothing
\* with a value that is no Error, so the request goes on as if the file was gone.
DestroyFileSwallowed(r) ==
    /\ At(r, "destroy")
    /\ GoTo(r, "check")
    /\ UNCHANGED <<db, files, now, used, asked, unsure>>

\* The optimistic check, on dates in milliseconds.
Check(r) ==
    /\ At(r, "check")
    /\ IF db.updatedAt > req[r].base THEN FailSave(r) ELSE GoTo(r, "write")
    /\ UNCHANGED <<db, files, now, used, asked, unsure>>

\* Mutation: files of documents that the copy does not list are removed too.
WritePrunes(r) ==
    /\ At(r, "write")
    /\ req[r].op = "createProfile" => ~db.exists
    /\ db' = req[r].copy
    /\ files' = files \cap req[r].copy.docs
    /\ End(r)
    /\ UNCHANGED <<now, used, asked, unsure>>

\* Mutation: a profile that is created twice overwrites the first one.
WriteOver(r) ==
    /\ At(r, "write")
    /\ db' = req[r].copy
    /\ End(r)
    /\ UNCHANGED <<files, now, used, asked, unsure>>

\* The whole copy: rows that it does not list are deleted, rows that it lists are
\* updated, or created again if they are gone.
Write(r) ==
    /\ At(r, "write")
    /\ req[r].op = "createProfile" => ~db.exists
    /\ db' = req[r].copy
    /\ End(r)
    /\ UNCHANGED <<files, now, used, asked, unsure>>

\* The transaction rolls back: the database failed, a second profile of the user
\* met the unique column, or the rows were written in an order that left two
\* primary documents for a moment, which the partial unique index refuses.
WriteFails(r) ==
    /\ At(r, "write")
    /\ FailSave(r)
    /\ UNCHANGED <<db, files, now, used, asked, unsure>>

\* The transaction commits, but the connection is lost before the answer: save throws,
\* and an upload removes the file of a document that is now listed.
WriteUnacknowledged(r) ==
    /\ At(r, "write")
    /\ req[r].op = "createProfile" => ~db.exists
    /\ db' = req[r].copy
    /\ FailSave(r)
    /\ unsure' = unsure \cup (IF req[r].op = "uploadDocument" THEN {req[r].doc} ELSE {})
    /\ UNCHANGED <<files, now, used, asked>>

\* The process dies, or the connection does.
Crash(r) ==
    /\ req[r].op # "idle"
    /\ End(r)
    /\ UNCHANGED <<db, files, now, used, asked, unsure>>

Tick ==
    /\ now < MaxTime
    /\ now' = now + 1
    /\ UNCHANGED <<db, files, req, used, asked, unsure>>

-----------------------------------------------------------------------------
Init ==
    /\ db = NoProfile
    /\ files = {}
    /\ req = [r \in Requests |-> Idle]
    /\ now = 0
    /\ used = {}
    /\ asked = {}
    /\ unsure = {}

HandleProfile(r) == CreateProfile(r) \/ EditProfile(r)

HandleDocument(r) ==
    \/ SetPrimaryDocument(r)
    \/ UploadDocument(r) \/ StoreFile(r) \/ StoreFileFails(r) \/ Compensate(r)
    \/ DeleteDocument(r) \/ DestroyFile(r) \/ DestroyFileFails(r) \/ DestroyFileSwallowed(r)

SaveProfile(r) == Check(r) \/ Write(r) \/ WriteFails(r) \/ WriteUnacknowledged(r)

Next ==
    \/ \E r \in Requests :
          HandleProfile(r) \/ HandleDocument(r) \/ SaveProfile(r) \/ Crash(r)
    \/ Tick

Spec == Init /\ [][Next]_vars

-----------------------------------------------------------------------------
Request ==
    [op: ProfileUseCases \cup DocumentUseCases \cup {"idle"}, step: Steps,
     copy: Profile, base: Nat, doc: DocIds \cup {NoDoc}]

\* Every variable, and every loaded copy, has its type.
TypeOK ==
    /\ db \in Profile
    /\ files \subseteq DocIds
    /\ req \in [Requests -> Request]
    /\ now \in Nat
    /\ used \subseteq DocIds
    /\ asked \subseteq DocIds
    /\ unsure \subseteq DocIds

PrimaryAt(p) ==
    /\ p.primary \subseteq p.docs
    /\ \A d \in p.docs : \E e \in OfType(p.primary, d) : OfType(p.primary, d) = {e}

\* Of the documents of one type exactly one is primary (addDocument,
\* removeDocument, setPrimaryDocument), whichever copies overwrite which: apply
\* and the profile page rely on a default being there.
OnePrimary == PrimaryAt(db)

LimitAt(p) == \A d \in p.docs : Cardinality(OfType(p.docs, d)) <= MaxDocs

\* Uploads that overlap do not take a type past its limit (addDocument).
WithinLimit == LimitAt(db)

\* A listed document has its file, unless the applicant asked to delete it or its own
\* upload was saved without an answer: no other failure, overlapping save or
\* compensation takes the file of a stored row (UploadApplicantDocumentUseCase,
\* DeleteApplicantDocumentUseCase).
ListedFilesStored == db.docs \ (asked \cup unsure) \subseteq files

-----------------------------------------------------------------------------
(* What overlapping requests can and cannot do to the list.                 *)

\* What the comment in PrismaApplicantProfileRepository.save says of its check: a save
\* is rejected when the row was changed after the profile was loaded.
StaleSavesRejected ==
    [][\A r \in Requests : Write(r) => db.updatedAt <= req[r].base]_vars

\* The row lists d, and so does every copy that can still be written over it: a profile
\* in creation cannot, once there is one.
Settled(d) ==
    /\ d \in db.docs
    /\ \A r \in Requests :
          req[r].op \notin {"idle", "createProfile"} => d \in req[r].copy.docs

\* A document that is listed in the row and in every copy in flight stays listed until
\* the applicant asks to delete it: a save loses only what came after its load
\* (PrismaApplicantProfileRepository.save, ApplicantProfile).
SettledStays == [][\A d \in DocIds \ asked' : Settled(d) => Settled(d)']_vars

\* The document was there once, and nothing in flight lists it or uploads it.
Vanished(d) ==
    /\ d \in used \ db.docs
    /\ \A r \in Requests :
          d \notin req[r].copy.docs /\ (req[r].op = "uploadDocument" => req[r].doc # d)

\* A document that neither the row nor a copy in flight lists is not listed again, and
\* no file of it is stored again: the upsert creates deleted rows anew only from copies
\* that were loaded before they went (PrismaApplicantProfileRepository.save).
VanishedForGood ==
    [][\A d \in DocIds : Vanished(d) => Vanished(d)' /\ (d \in files' => d \in files)]_vars

=============================================================================
