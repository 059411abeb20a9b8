------------------------ MODULE ApplicantDocumentsProofs ------------------------
(***************************************************************************)
(* Proofs about ApplicantDocuments, for any number of documents and of      *)
(* overlapping requests.  Whatever copy a save writes was good when it was  *)
(* made, and what makes it good does not depend on the row it replaces:     *)
(* this is why lost updates, which the dates in milliseconds let through,   *)
(* cannot break the primary document or the limit.                          *)
(***************************************************************************)
EXTENDS ApplicantDocuments, FiniteSetTheorems, TLAPS

LEMMA DocFacts ==
    /\ NoProfile \in Profile
    /\ Idle \in Request
    /\ NoDoc \notin DocIds
BY DocumentAssumption DEF NoProfile, Profile, Idle, Request, Steps, DocIds

\* The methods of the aggregate keep profiles well-typed.
LEMMA ProfileTypes ==
    ASSUME NEW p \in Profile, NEW t \in Nat
    PROVE  /\ create(t) \in Profile
           /\ updateProfile(p, t) \in Profile
           /\ \A d \in DocIds : /\ addDocument(p, d, t) \in Profile
                                /\ setPrimaryDocument(p, d, t) \in Profile
                                /\ \A heir \in Heirs(p, d) : removeDocument(p, d, heir, t) \in Profile
<1>1. create(t) \in Profile /\ updateProfile(p, t) \in Profile
    BY DEF create, updateProfile, Profile, NoProfile
<1>2. ASSUME NEW d \in DocIds
      PROVE  addDocument(p, d, t) \in Profile /\ setPrimaryDocument(p, d, t) \in Profile
    BY <1>2 DEF addDocument, setPrimaryDocument, OfType, Profile
<1>3. ASSUME NEW d \in DocIds, NEW heir \in Heirs(p, d)
      PROVE  removeDocument(p, d, heir, t) \in Profile
    <2>1. heir \subseteq p.docs
        BY DEF Heirs, OfType
    <2> QED
        BY <2>1 DEF removeDocument, Profile
<1> QED
    BY <1>1, <1>2, <1>3

-----------------------------------------------------------------------------
\* What the step of a slot says about its document.
SlotAt(q, A) ==
    /\ q.step \in {"upload", "compensate"} => q.op = "uploadDocument"
    /\ q.op = "uploadDocument" => q.doc \in DocIds
    /\ q.step = "destroy" => q.op = "deleteDocument" /\ q.doc \in A

Slots == \A r \in Requests : SlotAt(req[r], asked)

Typed == TypeOK /\ Slots

\* A step of one slot.
LEMMA TypedFrame ==
    ASSUME Typed, NEW r \in Requests, NEW q \in Request,
           req' = [req EXCEPT ![r] = q], SlotAt(q, asked'), asked \subseteq asked',
           db' \in Profile, files' \subseteq DocIds, now' \in Nat,
           used' \subseteq DocIds, asked' \subseteq DocIds, unsure' \subseteq DocIds
    PROVE  Typed'
<1>1. req' \in [Requests -> Request]
    BY DEF Typed, TypeOK
<1>2. ASSUME NEW s \in Requests PROVE SlotAt(req'[s], asked')
    <2>1. CASE s = r
        <3>1. req'[s] = q
            BY <2>1 DEF Typed, TypeOK
        <3> QED
            BY <3>1 DEF SlotAt
    <2>2. CASE s # r
        <3>1. req'[s] = req[s] /\ SlotAt(req[s], asked)
            BY <2>2 DEF Typed, TypeOK, Slots
        <3> QED
            BY <3>1 DEF SlotAt
    <2> QED
        BY <2>1, <2>2
<1> QED
    BY <1>1, <1>2 DEF Typed, TypeOK, Slots

LEMMA TypedBegin ==
    ASSUME Typed, NEW r \in Requests, NEW op \in ProfileUseCases \cup DocumentUseCases,
           NEW step \in Steps, NEW p \in Profile, NEW d \in DocIds \cup {NoDoc},
           Begin(r, op, step, p, d),
           used' \subseteq DocIds, asked' \subseteq DocIds, asked \subseteq asked',
           UNCHANGED unsure, step # "compensate",
           step = "upload" => op = "uploadDocument",
           step = "destroy" => op = "deleteDocument" /\ d \in asked',
           op = "uploadDocument" => d \in DocIds
    PROVE  Typed'
<1> DEFINE q == [op |-> op, step |-> step, copy |-> p, base |-> db.updatedAt, doc |-> d]
<1>1. q \in Request
    BY DEF Typed, TypeOK, Profile, Request
<1>2. SlotAt(q, asked')
    BY DEF SlotAt
<1>3. /\ req' = [req EXCEPT ![r] = q]
      /\ db' \in Profile /\ files' \subseteq DocIds /\ now' \in Nat
      /\ unsure' \subseteq DocIds
    BY DEF Begin, Typed, TypeOK
<1> HIDE DEF q
<1> QED
    BY <1>1, <1>2, <1>3, TypedFrame

\* A step that moves a slot on, or ends its request.
LEMMA TypedMove ==
    ASSUME Typed, NEW r \in Requests, UNCHANGED <<now, used, asked>>,
           db' \in Profile, files' \subseteq DocIds, unsure' \subseteq DocIds,
           \/ End(r) \/ FailSave(r)
           \/ \E step \in {"check", "write"} : GoTo(r, step)
           \/ GoTo(r, "compensate") /\ At(r, "upload")
    PROVE  Typed'
<1>1. req[r] \in Request /\ SlotAt(req[r], asked) /\ now' \in Nat
    BY DEF Typed, TypeOK, Slots
<1>2. used' \subseteq DocIds /\ asked' \subseteq DocIds
    BY DEF Typed, TypeOK
<1>3. CASE End(r)
    <2>1. SlotAt(Idle, asked')
        BY DEF SlotAt, Idle
    <2>2. req' = [req EXCEPT ![r] = Idle] /\ Idle \in Request
        BY <1>3, DocFacts DEF End
    <2> HIDE DEF Idle
    <2> QED
        BY <1>1, <1>2, <2>1, <2>2, TypedFrame
<1>4. ASSUME NEW step \in {"check", "write", "compensate"}, GoTo(r, step),
             step = "compensate" => req[r].op = "uploadDocument"
      PROVE  Typed'
    <2> DEFINE q == [req[r] EXCEPT !.step = step]
    <2>1. q \in Request /\ SlotAt(q, asked')
        BY <1>1, <1>4 DEF Request, Steps, SlotAt
    <2>2. req' = [req EXCEPT ![r] = q]
        BY <1>4 DEF GoTo
    <2> HIDE DEF q
    <2> QED
        BY <1>1, <1>2, <2>1, <2>2, TypedFrame
<1>5. CASE FailSave(r)
    BY <1>3, <1>4, <1>5 DEF FailSave
<1>6. CASE GoTo(r, "compensate") /\ At(r, "upload")
    BY <1>1, <1>4, <1>6 DEF At, SlotAt
<1> QED
    BY <1>3, <1>4, <1>5, <1>6

LEMMA TypedStep ==
    ASSUME Typed, [Next]_vars PROVE Typed'
<1> USE DEF ProfileUseCases, DocumentUseCases, Steps
<1>0. /\ now \in Nat /\ db \in Profile /\ files \subseteq DocIds
      /\ used \subseteq DocIds /\ asked \subseteq DocIds /\ unsure \subseteq DocIds
    BY DEF Typed, TypeOK
<1>1. ASSUME NEW r \in Requests, HandleProfile(r) PROVE Typed'
    <2>1. create(now) \in Profile /\ updateProfile(db, now) \in Profile
        BY <1>0, ProfileTypes
    <2>2. CASE CreateProfile(r)
        BY <1>0, <2>1, <2>2, TypedBegin DEF CreateProfile
    <2>3. CASE EditProfile(r)
        BY <1>0, <2>1, <2>3, TypedBegin DEF EditProfile
    <2> QED
        BY <1>1, <2>2, <2>3 DEF HandleProfile
<1>2. ASSUME NEW r \in Requests, SetPrimaryDocument(r) PROVE Typed'
    <2>1. PICK d \in db.docs :
             Begin(r, "setPrimaryDocument", "check", setPrimaryDocument(db, d, now), d)
        BY <1>2 DEF SetPrimaryDocument
    <2>2. d \in DocIds /\ setPrimaryDocument(db, d, now) \in Profile
        BY <1>0, ProfileTypes DEF Profile
    <2> QED
        BY <1>0, <1>2, <2>1, <2>2, TypedBegin DEF SetPrimaryDocument
<1>3. ASSUME NEW r \in Requests, UploadDocument(r) PROVE Typed'
    BY <1>0, <1>3, TypedBegin DEF UploadDocument
<1>4. ASSUME NEW r \in Requests, DeleteDocument(r) PROVE Typed'
    <2>1. PICK d \in db.docs : \E heir \in Heirs(db, d) :
             /\ Begin(r, "deleteDocument", "destroy", removeDocument(db, d, heir, now), d)
             /\ asked' = asked \cup {d}
        BY <1>4 DEF DeleteDocument
    <2>2. PICK heir \in Heirs(db, d) :
             /\ Begin(r, "deleteDocument", "destroy", removeDocument(db, d, heir, now), d)
             /\ asked' = asked \cup {d}
        BY <2>1
    <2>3. d \in DocIds
        BY <1>0 DEF Profile
    <2>4. removeDocument(db, d, heir, now) \in Profile
        BY <1>0, <2>3, ProfileTypes
    <2> QED
        BY <1>0, <1>4, <2>2, <2>3, <2>4, TypedBegin DEF DeleteDocument
<1>5. ASSUME NEW r \in Requests, StoreFile(r) PROVE Typed'
    <2>1. req[r] \in Request /\ SlotAt(req[r], asked) /\ req[r].doc \in DocIds
        BY <1>5 DEF StoreFile, At, Typed, TypeOK, Slots, SlotAt
    <2>2. CASE HasRoom(req[r].copy, req[r].doc)
        <3> DEFINE q == [req[r] EXCEPT !.step = "check",
                                       !.copy = addDocument(@, req[r].doc, now)]
        <3>1. addDocument(req[r].copy, req[r].doc, now) \in Profile
            BY <1>0, <2>1, ProfileTypes DEF Request
        <3>2. q \in Request /\ SlotAt(q, asked')
            BY <2>1, <3>1 DEF Request, SlotAt
        <3>3. req' = [req EXCEPT ![r] = q]
            BY <1>5, <2>2 DEF StoreFile
        <3> HIDE DEF q
        <3> QED
            BY <1>0, <1>5, <2>1, <3>2, <3>3, TypedFrame DEF StoreFile
    <2>3. CASE ~HasRoom(req[r].copy, req[r].doc)
        BY <1>0, <1>5, <2>1, <2>3, TypedMove DEF StoreFile
    <2> QED
        BY <2>2, <2>3
<1>6. ASSUME NEW r \in Requests, StoreFileFails(r) PROVE Typed'
    <2>1. req[r].doc \in DocIds
        BY <1>6 DEF StoreFileFails, At, Typed, Slots, SlotAt
    <2> QED
        BY <1>0, <1>6, <2>1, TypedMove DEF StoreFileFails
<1>7. ASSUME NEW r \in Requests,
             \/ Compensate(r) \/ DestroyFile(r) \/ DestroyFileFails(r)
             \/ DestroyFileSwallowed(r) \/ Check(r) \/ WriteFails(r) \/ Crash(r)
      PROVE  Typed'
    BY <1>0, <1>7, TypedMove
       DEF Compensate, DestroyFile, DestroyFileFails, DestroyFileSwallowed, Check,
           WriteFails, Crash
<1>8. ASSUME NEW r \in Requests, Write(r) \/ WriteUnacknowledged(r) PROVE Typed'
    <2>1. /\ req[r].copy \in Profile
          /\ req[r].op = "uploadDocument" => req[r].doc \in DocIds
        BY DEF Typed, TypeOK, Request, Slots, SlotAt
    <2>2. unsure' \subseteq DocIds
        BY <1>0, <1>8, <2>1 DEF Write, WriteUnacknowledged
    <2> QED
        BY <1>0, <1>8, <2>1, <2>2, TypedMove DEF Write, WriteUnacknowledged
<1>9. CASE Tick
    BY <1>9 DEF Tick, Typed, TypeOK, Slots, SlotAt
<1>10. CASE UNCHANGED vars
    BY <1>10 DEF vars, Typed, TypeOK, Slots, SlotAt
<1> QED
    BY <1>1, <1>2, <1>3, <1>4, <1>5, <1>6, <1>7, <1>8, <1>9, <1>10
       DEF Next, HandleDocument, SaveProfile

LEMMA TypedInit == Init => Typed
BY DocFacts DEF Init, Typed, TypeOK, Slots, SlotAt, Idle

\* Every variable and every copy in flight keeps its type.
THEOREM TypeInvariant == Spec => []TypeOK
<1>1. Typed => TypeOK
    BY DEF Typed
<1> QED
    BY TypedInit, TypedStep, <1>1, PTL DEF Spec

-----------------------------------------------------------------------------
(* The primary document and the limit.                                      *)

GoodAt(p) == IsFiniteSet(p.docs) /\ PrimaryAt(p) /\ LimitAt(p)

\* The row and every copy in flight: any of them may be written.
Good == GoodAt(db) /\ \A r \in Requests : GoodAt(req[r].copy)

\* What is good depends on the documents and the primary ones alone.
LEMMA GoodSame ==
    ASSUME NEW p, NEW q, GoodAt(p), q.docs = p.docs, q.primary = p.primary
    PROVE  GoodAt(q)
BY DEF GoodAt, PrimaryAt, LimitAt

LEMMA GoodEmpty == GoodAt(NoProfile) /\ \A t : GoodAt(create(t))
<1>1. ASSUME NEW p, p.docs = {}, p.primary = {} PROVE GoodAt(p)
    BY <1>1, FS_EmptySet DEF GoodAt, PrimaryAt, LimitAt
<1>2. NoProfile.docs = {} /\ NoProfile.primary = {}
    BY DEF NoProfile
<1>3. \A t : create(t).docs = {} /\ create(t).primary = {}
    BY DEF create, NoProfile
<1> QED
    BY <1>1, <1>2, <1>3

\* Fewer documents stay within the limit.
LEMMA LimitSubset ==
    ASSUME NEW p \in Profile, NEW q \in Profile, IsFiniteSet(p.docs), LimitAt(p),
           q.docs \subseteq p.docs
    PROVE  IsFiniteSet(q.docs) /\ LimitAt(q)
<1>1. IsFiniteSet(q.docs)
    BY FS_Subset
<1>2. ASSUME NEW d \in q.docs PROVE Cardinality(OfType(q.docs, d)) <= MaxDocs
    <2>1. OfType(q.docs, d) \subseteq OfType(p.docs, d) /\ OfType(p.docs, d) \subseteq p.docs
        BY DEF OfType
    <2>2. IsFiniteSet(OfType(p.docs, d))
        BY <2>1, FS_Subset
    <2>3. /\ IsFiniteSet(OfType(q.docs, d))
          /\ Cardinality(OfType(q.docs, d)) <= Cardinality(OfType(p.docs, d))
        BY <2>1, <2>2, FS_Subset
    <2>4. Cardinality(OfType(p.docs, d)) <= MaxDocs
        BY <1>2 DEF LimitAt
    <2> QED
        BY <2>2, <2>3, <2>4, FS_CardinalityType, DocumentAssumption
<1> QED
    BY <1>1, <1>2 DEF LimitAt

LEMMA GoodAdd ==
    ASSUME NEW p \in Profile, GoodAt(p), NEW d \in DocIds \ p.docs, NEW t \in Nat,
           HasRoom(p, d)
    PROVE  GoodAt(addDocument(p, d, t))
<1> DEFINE q == addDocument(p, d, t)
<1>1. /\ q.docs = p.docs \cup {d}
      /\ q.primary = IF OfType(p.docs, d) = {} THEN p.primary \cup {d} ELSE p.primary
    BY DEF addDocument, Profile
<1>2. IsFiniteSet(q.docs)
    BY <1>1, FS_AddElement DEF GoodAt
<1>3. PrimaryAt(q)
    <2> HIDE DEF q
    <2>1. p.primary \subseteq p.docs /\ PrimaryAt(p)
        BY DEF GoodAt, PrimaryAt
    <2>2. ASSUME NEW e \in q.docs
          PROVE  \E f \in OfType(q.primary, e) : OfType(q.primary, e) = {f}
        <3>1. CASE OfType(p.docs, d) = {}
            <4>1. CASE e = d
                <5>1. OfType(q.primary, e) = {d}
                    BY <1>1, <2>1, <3>1, <4>1 DEF OfType
                <5> QED
                    BY <5>1
            <4>2. CASE e # d
                <5>1. e \in p.docs /\ ~(d \in Resumes <=> e \in Resumes)
                    BY <1>1, <3>1, <4>2 DEF OfType
                <5>2. OfType(q.primary, e) = OfType(p.primary, e)
                    BY <1>1, <3>1, <5>1 DEF OfType
                <5> QED
                    BY <2>1, <5>1, <5>2 DEF PrimaryAt
            <4> QED
                BY <4>1, <4>2
        <3>2. CASE OfType(p.docs, d) # {}
            <4>1. PICK f \in p.docs : OfType(p.primary, f) = OfType(p.primary, e)
                <5>1. CASE e \in p.docs
                    BY <5>1
                <5>2. CASE e = d
                    BY <3>2, <5>2 DEF OfType
                <5> QED
                    BY <1>1, <5>1, <5>2
            <4> QED
                BY <1>1, <2>1, <3>2, <4>1 DEF PrimaryAt
        <3> QED
            BY <3>1, <3>2
    <2> QED
        BY <1>1, <2>1, <2>2 DEF PrimaryAt
<1>4. ASSUME NEW e \in q.docs PROVE Cardinality(OfType(q.docs, e)) <= MaxDocs
    <2> HIDE DEF q
    <2>1. CASE d \in Resumes <=> e \in Resumes
        <3>1. OfType(p.docs, d) \subseteq p.docs /\ d \notin OfType(p.docs, d)
            BY DEF OfType
        <3>2. IsFiniteSet(OfType(p.docs, d))
            BY <3>1, FS_Subset DEF GoodAt
        <3>3. OfType(q.docs, e) = OfType(p.docs, d) \cup {d}
            BY <1>1, <2>1 DEF OfType
        <3>4. Cardinality(OfType(p.docs, d)) < MaxDocs
            BY DEF HasRoom
        <3>5. Cardinality(OfType(q.docs, e)) = Cardinality(OfType(p.docs, d)) + 1
            BY <3>1, <3>2, <3>3, FS_AddElement
        <3>6. Cardinality(OfType(p.docs, d)) \in Nat
            BY <3>2, FS_CardinalityType
        <3> QED
            BY <3>4, <3>5, <3>6, DocumentAssumption
    <2>2. CASE ~(d \in Resumes <=> e \in Resumes)
        <3>1. OfType(q.docs, e) = OfType(p.docs, e) /\ e \in p.docs
            BY <1>1, <2>2 DEF OfType
        <3> QED
            BY <3>1 DEF GoodAt, LimitAt
    <2> QED
        BY <2>1, <2>2
<1> QED
    BY <1>2, <1>3, <1>4 DEF GoodAt, LimitAt

LEMMA GoodRemove ==
    ASSUME NEW p \in Profile, GoodAt(p), NEW d \in p.docs, NEW t \in Nat,
           NEW heir \in Heirs(p, d)
    PROVE  GoodAt(removeDocument(p, d, heir, t))
<1> DEFINE q == removeDocument(p, d, heir, t)
<1>1. q.docs = p.docs \ {d} /\ q.primary = (p.primary \ {d}) \cup heir
    BY DEF removeDocument, Profile
<1>2. q \in Profile
    BY ProfileTypes DEF Profile
<1>3. IsFiniteSet(q.docs) /\ LimitAt(q)
    BY <1>1, <1>2, LimitSubset DEF GoodAt
<1>4. PrimaryAt(q)
    <2> HIDE DEF q
    <2>1. p.primary \subseteq p.docs /\ PrimaryAt(p)
        BY DEF GoodAt, PrimaryAt
    <2>2. heir = {} \/ \E e \in OfType(p.docs \ {d}, d) : heir = {e} /\ d \in p.primary
        BY DEF Heirs
    <2>3. q.primary \subseteq q.docs
        BY <1>1, <2>1, <2>2 DEF OfType
    <2>4. ASSUME NEW e \in q.docs
          PROVE  \E f \in OfType(q.primary, e) : OfType(q.primary, e) = {f}
        <3>1. e \in p.docs /\ e # d
            BY <1>1
        <3>2. PICK f \in OfType(p.primary, e) : OfType(p.primary, e) = {f}
            BY <2>1, <3>1 DEF PrimaryAt
        <3>3. CASE heir = {}
            <4>1. d \in p.primary => ~(e \in Resumes <=> d \in Resumes)
                BY <3>1, <3>3 DEF Heirs, OfType
            <4>2. OfType(q.primary, e) = {f}
                BY <1>1, <3>2, <3>3, <4>1 DEF OfType
            <4> QED
                BY <4>2
        <3>4. ASSUME NEW h \in OfType(p.docs \ {d}, d), heir = {h}, d \in p.primary
              PROVE  \E g \in OfType(q.primary, e) : OfType(q.primary, e) = {g}
            <4>1. CASE e \in Resumes <=> d \in Resumes
                <5>1. OfType(p.primary, e) = {d}
                    BY <3>2, <3>4, <4>1 DEF OfType
                <5>2. OfType(q.primary, e) = {h}
                    BY <1>1, <3>4, <4>1, <5>1 DEF OfType
                <5> QED
                    BY <5>2
            <4>2. CASE ~(e \in Resumes <=> d \in Resumes)
                <5>1. OfType(q.primary, e) = {f}
                    BY <1>1, <3>2, <3>4, <4>2 DEF OfType
                <5> QED
                    BY <5>1
            <4> QED
                BY <4>1, <4>2
        <3> QED
            BY <2>2, <3>3, <3>4
    <2> QED
        BY <2>3, <2>4 DEF PrimaryAt
<1> QED
    BY <1>3, <1>4 DEF GoodAt

LEMMA GoodSetPrimary ==
    ASSUME NEW p \in Profile, GoodAt(p), NEW d \in p.docs, NEW t \in Nat
    PROVE  GoodAt(setPrimaryDocument(p, d, t))
<1> DEFINE q == setPrimaryDocument(p, d, t)
<1>1. q.docs = p.docs /\ q.primary = (p.primary \ OfType(p.docs, d)) \cup {d}
    BY DEF setPrimaryDocument, Profile
<1>2. q \in Profile
    BY ProfileTypes DEF Profile
<1>3. IsFiniteSet(q.docs) /\ LimitAt(q)
    BY <1>1, <1>2, LimitSubset DEF GoodAt
<1>4. PrimaryAt(q)
    <2> HIDE DEF q
    <2>1. p.primary \subseteq p.docs /\ PrimaryAt(p)
        BY DEF GoodAt, PrimaryAt
    <2>2. ASSUME NEW e \in q.docs
          PROVE  \E f \in OfType(q.primary, e) : OfType(q.primary, e) = {f}
        <3>1. CASE e \in Resumes <=> d \in Resumes
            <4>1. OfType(q.primary, e) = {d}
                BY <1>1, <2>1, <3>1 DEF OfType
            <4> QED
                BY <4>1
        <3>2. CASE ~(e \in Resumes <=> d \in Resumes)
            <4>1. OfType(q.primary, e) = OfType(p.primary, e)
                BY <1>1, <2>1, <3>2 DEF OfType
            <4> QED
                BY <1>1, <2>1, <4>1 DEF PrimaryAt
        <3> QED
            BY <3>1, <3>2
    <2> QED
        BY <1>1, <2>1, <2>2 DEF PrimaryAt
<1> QED
    BY <1>3, <1>4 DEF GoodAt

-----------------------------------------------------------------------------
(* Files.  A document that is being uploaded is known to its own request    *)
(* alone until it is written; when the request does not learn that it was,  *)
(* the document is known to anyone and its file may still go.               *)

OwnAt(q) ==
    q.op = "uploadDocument" =>
        /\ q.doc \in DocIds /\ q.doc \in used
        /\ q.doc \in db.docs => q.doc \in unsure
        /\ q.step = "upload" => q.doc \notin q.copy.docs

\* The document that q uploads is not known to s, unless it is one of U.
Apart(q, s, U) ==
    q.op = "uploadDocument" /\ q.doc \notin U => q.doc \notin s.copy.docs /\ q.doc # s.doc

\* What q holds is known and, unless the copy is thrown away, its files are there.
KeptAt(q) ==
    /\ q.copy.docs \subseteq used /\ q.doc \in used \cup {NoDoc}
    /\ q.step # "compensate" => q.copy.docs \ (asked \cup unsure) \subseteq files

Kept ==
    /\ db.docs \subseteq used /\ ListedFilesStored
    /\ \A r \in Requests :
          /\ OwnAt(req[r]) /\ KeptAt(req[r])
          /\ \A s \in Requests \ {r} : Apart(req[r], req[s], unsure)

Safe == Typed /\ Good /\ Kept

LEMMA SafeInit == Init => Safe
<1>1. ASSUME Init PROVE Good
    BY <1>1, GoodEmpty DEF Init, Good, Idle
<1>2. ASSUME Init PROVE Kept
    BY <1>2 DEF Init, Kept, ListedFilesStored, OwnAt, Apart, KeptAt, Idle, NoProfile
<1> QED
    BY <1>1, <1>2, TypedInit DEF Safe

\* A request starts from what is stored; an upload takes a new document.
LEMMA SafeBegin ==
    ASSUME Safe, NEW r \in Requests, NEW op, NEW step, NEW p \in Profile, GoodAt(p),
           NEW d, Begin(r, op, step, p, d), p.docs \subseteq db.docs,
           used \subseteq used', asked \subseteq asked', UNCHANGED unsure,
           op # "uploadDocument" => d \in db.docs \cup {NoDoc},
           op = "uploadDocument" => d \in DocIds \ used /\ d \in used'
    PROVE  Good' /\ Kept'
<1>1. UNCHANGED <<db, files>>
    BY DEF Begin
<1>2. PICK q : /\ q.op = op /\ q.step = step /\ q.copy = p /\ q.doc = d
               /\ req' = [req EXCEPT ![r] = q]
    BY DEF Begin
<1>3. req'[r] = q /\ \A s \in Requests \ {r} : req'[s] = req[s]
    BY <1>2 DEF Safe, Typed, TypeOK
<1>4. Good'
    BY <1>1, <1>2, <1>3 DEF Safe, Good
<1>5. db.docs \subseteq used /\ db.docs \ (asked \cup unsure) \subseteq files
    BY DEF Safe, Kept, ListedFilesStored
<1>6. OwnAt(q)' /\ KeptAt(q)'
    BY <1>1, <1>2, <1>3, <1>5 DEF OwnAt, KeptAt
<1>7. ASSUME NEW s \in Requests \ {r}
      PROVE  /\ OwnAt(req[s])' /\ KeptAt(req[s])'
             /\ Apart(req[s], q, unsure) /\ Apart(q, req[s], unsure)
    <2>1. OwnAt(req[s]) /\ KeptAt(req[s])
        BY <1>7 DEF Safe, Kept
    <2>2. OwnAt(req[s])' /\ KeptAt(req[s])'
        BY <1>1, <1>3, <1>7, <2>1 DEF OwnAt, KeptAt
    <2>3. Apart(req[s], q, unsure) /\ Apart(q, req[s], unsure)
        BY <1>2, <1>5, <2>1, DocFacts DEF OwnAt, KeptAt, Apart
    <2> QED
        BY <2>2, <2>3
<1> QED
    BY <1>1, <1>3, <1>4, <1>5, <1>6, <1>7 DEF Safe, Kept, ListedFilesStored

\* A slot moves on with the copy it has, or becomes idle; the store may lose the
\* document of the slot when it is asked for, or thrown away with the request.
LEMMA SafeMove ==
    ASSUME Safe, NEW r \in Requests, UNCHANGED <<db, used, asked, unsure>>,
           \/ End(r) \/ FailSave(r)
           \/ \E step \in {"check", "write"} : GoTo(r, step) /\ ~At(r, "compensate")
           \/ GoTo(r, "compensate") /\ At(r, "upload"),
           \/ files \subseteq files'
           \/ (files \ {req[r].doc}) \subseteq files' /\ req[r].doc \in asked
           \/ (files \ {req[r].doc}) \subseteq files' /\ End(r) /\ req[r].op = "uploadDocument"
    PROVE  Good' /\ Kept'
<1>1. OwnAt(req[r]) /\ KeptAt(req[r]) /\ SlotAt(req[r], asked) /\ GoodAt(req[r].copy)
    BY DEF Safe, Typed, Slots, Good, Kept
<1>2. ASSUME NEW d, d \in files, d \notin files'
      PROVE  d = req[r].doc /\ (d \in asked \/ (End(r) /\ req[r].op = "uploadDocument"))
    BY <1>2
<1>3. ListedFilesStored' /\ db.docs \subseteq used
    BY <1>1, <1>2 DEF Safe, Kept, ListedFilesStored, OwnAt
<1>4. ASSUME NEW s \in Requests \ {r}, req'[s] = req[s]
      PROVE  OwnAt(req[s])' /\ KeptAt(req[s])'
    <2>1. OwnAt(req[s]) /\ KeptAt(req[s]) /\ Apart(req[r], req[s], unsure)
        BY DEF Safe, Kept
    <2> QED
        BY <1>2, <1>4, <2>1 DEF OwnAt, KeptAt, Apart
<1>5. ASSUME NEW q, req' = [req EXCEPT ![r] = q], GoodAt(q.copy),
             OwnAt(q)', KeptAt(q)',
             \A s \in Requests \ {r} :
                 Apart(q, req[s], unsure) /\ Apart(req[s], q, unsure)
      PROVE  Good' /\ Kept'
    <2>1. req'[r] = q /\ \A s \in Requests \ {r} : req'[s] = req[s]
        BY <1>5 DEF Safe, Typed, TypeOK
    <2>2. Good'
        BY <1>5, <2>1 DEF Safe, Good
    <2> QED
        BY <1>3, <1>4, <1>5, <2>1, <2>2 DEF Safe, Kept
<1>6. CASE End(r)
    <2>1. Idle.op = "idle" /\ Idle.copy = NoProfile /\ Idle.doc = NoDoc
        BY DEF Idle
    <2>2. OwnAt(Idle)' /\ KeptAt(Idle)' /\ GoodAt(Idle.copy)
        BY <2>1, GoodEmpty DEF OwnAt, KeptAt, NoProfile
    <2>3. ASSUME NEW s \in Requests \ {r}
          PROVE  Apart(Idle, req[s], unsure) /\ Apart(req[s], Idle, unsure)
        <3>1. OwnAt(req[s])
            BY DEF Safe, Kept
        <3> QED
            BY <2>1, <3>1, DocFacts DEF Apart, OwnAt, NoProfile
    <2>4. req' = [req EXCEPT ![r] = Idle]
        BY <1>6 DEF End
    <2> HIDE DEF Idle
    <2> QED
        BY <1>5, <2>2, <2>3, <2>4
<1>7. ASSUME NEW step \in {"check", "write", "compensate"}, GoTo(r, step),
             step = "compensate" \/ ~At(r, "compensate"), ~End(r) PROVE Good' /\ Kept'
    <2>1. req[r] \in Request
        BY DEF Safe, Typed, TypeOK
    <2>2. PICK q : /\ q.op = req[r].op /\ q.copy = req[r].copy /\ q.doc = req[r].doc
                   /\ q.step = step /\ req' = [req EXCEPT ![r] = q]
        BY <1>7, <2>1 DEF GoTo, Request
    <2>3. GoodAt(q.copy)
        BY <1>1, <2>2
    <2>4. /\ q.op = "uploadDocument" =>
                /\ q.doc \in DocIds /\ q.doc \in used'
                /\ q.doc \in db'.docs => q.doc \in unsure'
          /\ q.copy.docs \subseteq used' /\ q.doc \in used' \cup {NoDoc}
        BY <1>1, <2>2 DEF OwnAt, KeptAt
    <2>5. step # "compensate" => q.copy.docs \ (asked' \cup unsure') \subseteq files'
        BY <1>1, <1>2, <1>7, <2>2 DEF KeptAt, At
    <2>6. ASSUME NEW s \in Requests \ {r}
          PROVE  Apart(q, req[s], unsure) /\ Apart(req[s], q, unsure)
        <3>1. Apart(req[r], req[s], unsure) /\ Apart(req[s], req[r], unsure)
            BY DEF Safe, Kept
        <3> QED
            BY <2>2, <3>1 DEF Apart
    <2>7. OwnAt(q)' /\ KeptAt(q)'
        BY <1>7, <2>2, <2>4, <2>5 DEF OwnAt, KeptAt
    <2> QED
        BY <1>5, <2>2, <2>3, <2>6, <2>7
<1>8. CASE GoTo(r, "compensate") /\ At(r, "upload")
    BY <1>6, <1>7, <1>8
<1>9. CASE FailSave(r)
    BY <1>6, <1>7, <1>9 DEF FailSave
<1> QED
    BY <1>6, <1>7, <1>8, <1>9

\* The row becomes the copy, whether or not the request learns of it.
LEMMA SafeWrite ==
    ASSUME Safe, NEW r \in Requests, Write(r) \/ WriteUnacknowledged(r)
    PROVE  Good' /\ Kept'
<1>1. /\ req \in [Requests -> Request] /\ req[r] \in Request
      /\ GoodAt(req[r].copy) /\ KeptAt(req[r]) /\ OwnAt(req[r])
      /\ req[r].copy.docs \ (asked \cup unsure) \subseteq files
      /\ req[r].copy.docs \subseteq used
    BY DEF Write, WriteUnacknowledged, At, Safe, Typed, TypeOK, Good, Kept, KeptAt
<1>2. db' = req[r].copy /\ UNCHANGED <<files, used, asked>> /\ unsure \subseteq unsure'
    BY DEF Write, WriteUnacknowledged
<1>3. PICK q : /\ req' = [req EXCEPT ![r] = q]
               /\ \/ q = Idle
                  \/ /\ q.op = "uploadDocument" /\ q.doc = req[r].doc /\ q.doc \in unsure'
                     /\ q.op = req[r].op /\ q.copy = req[r].copy /\ q.step = "compensate"
    <2>1. CASE End(r)
        BY <2>1 DEF End
    <2>2. CASE ~End(r)
        <3> DEFINE q == [req[r] EXCEPT !.step = "compensate"]
        <3>1. /\ req' = [req EXCEPT ![r] = q] /\ req[r].op = "uploadDocument"
              /\ req[r].doc \in unsure'
            BY <2>2 DEF Write, WriteUnacknowledged, FailSave, GoTo
        <3>2. /\ q.op = req[r].op /\ q.doc = req[r].doc /\ q.copy = req[r].copy
              /\ q.step = "compensate"
            BY <1>1 DEF Request
        <3> QED
            BY <3>1, <3>2
    <2> QED
        BY <2>1, <2>2
<1>4. req'[r] = q /\ \A s \in Requests \ {r} : req'[s] = req[s]
    BY <1>1, <1>3
<1>5. Idle.op = "idle" /\ Idle.copy = NoProfile /\ Idle.doc = NoDoc /\ NoProfile.docs = {}
    BY DEF Idle, NoProfile
<1> HIDE DEF Idle
<1>6. OwnAt(q)' /\ KeptAt(q)' /\ GoodAt(q.copy)
    BY <1>1, <1>2, <1>3, <1>5, GoodEmpty DEF OwnAt, KeptAt
<1>7. ASSUME NEW s \in Requests \ {r}
      PROVE  /\ OwnAt(req[s])' /\ KeptAt(req[s])'
             /\ Apart(req[s], q, unsure') /\ Apart(q, req[s], unsure')
    <2>1. OwnAt(req[s]) /\ KeptAt(req[s]) /\ Apart(req[s], req[r], unsure)
        BY DEF Safe, Kept
    <2>2. OwnAt(req[s])'
        BY <1>2, <1>4, <2>1 DEF OwnAt, Apart
    <2>3. KeptAt(req[s])'
        BY <1>2, <1>4, <2>1 DEF KeptAt
    <2>4. Apart(req[s], q, unsure') /\ Apart(q, req[s], unsure')
        BY <1>2, <1>3, <1>5, <2>1, DocFacts DEF OwnAt, Apart
    <2> QED
        BY <2>2, <2>3, <2>4
<1>8. Good'
    BY <1>1, <1>2, <1>4, <1>6 DEF Safe, Good
<1>9. db'.docs \subseteq used' /\ ListedFilesStored'
    BY <1>1, <1>2 DEF ListedFilesStored
<1>10. ASSUME NEW s \in Requests \ {r}, NEW t \in Requests \ {s}
       PROVE  Apart(req'[s], req'[t], unsure')
    <2>1. CASE t = r
        BY <1>4, <1>7, <2>1
    <2>2. CASE t # r
        <3>1. Apart(req[s], req[t], unsure)
            BY DEF Safe, Kept
        <3> QED
            BY <1>2, <1>4, <2>2, <3>1 DEF Apart
    <2> QED
        BY <2>1, <2>2
<1> QED
    BY <1>4, <1>6, <1>7, <1>8, <1>9, <1>10 DEF Kept

LEMMA SafeStep ==
    ASSUME Safe, [Next]_vars PROVE Safe'
<1>0. Typed /\ Typed' /\ TypeOK
    BY TypedStep DEF Safe, Typed
<1>1. db \in Profile /\ now \in Nat /\ GoodAt(db) /\ req \in [Requests -> Request]
    BY <1>0 DEF TypeOK, Safe, Good
<1>2. ASSUME NEW r \in Requests, HandleProfile(r) PROVE Good' /\ Kept'
    <2>1. GoodAt(create(now)) /\ create(now) \in Profile /\ create(now).docs = {}
        BY <1>1, GoodEmpty, ProfileTypes DEF create, NoProfile
    <2>2. GoodAt(updateProfile(db, now)) /\ updateProfile(db, now) \in Profile
          /\ updateProfile(db, now).docs = db.docs
        BY <1>1, ProfileTypes, GoodSame DEF updateProfile, Profile
    <2>3. CASE CreateProfile(r)
        BY <2>1, <2>3, SafeBegin DEF CreateProfile
    <2>4. CASE EditProfile(r)
        BY <2>2, <2>4, SafeBegin DEF EditProfile
    <2> QED
        BY <1>2, <2>3, <2>4 DEF HandleProfile
<1>3. ASSUME NEW r \in Requests, SetPrimaryDocument(r) PROVE Good' /\ Kept'
    <2>1. PICK d \in db.docs :
             Begin(r, "setPrimaryDocument", "check", setPrimaryDocument(db, d, now), d)
        BY <1>3 DEF SetPrimaryDocument
    <2>2. /\ GoodAt(setPrimaryDocument(db, d, now))
          /\ setPrimaryDocument(db, d, now) \in Profile
          /\ setPrimaryDocument(db, d, now).docs = db.docs
        BY <1>1, ProfileTypes, GoodSetPrimary DEF setPrimaryDocument, Profile
    <2> QED
        BY <1>3, <2>1, <2>2, SafeBegin DEF SetPrimaryDocument
<1>4. ASSUME NEW r \in Requests, UploadDocument(r) PROVE Good' /\ Kept'
    BY <1>1, <1>4, SafeBegin DEF UploadDocument
<1>5. ASSUME NEW r \in Requests, DeleteDocument(r) PROVE Good' /\ Kept'
    <2>1. PICK d \in db.docs : \E heir \in Heirs(db, d) :
             /\ Begin(r, "deleteDocument", "destroy", removeDocument(db, d, heir, now), d)
             /\ asked' = asked \cup {d}
        BY <1>5 DEF DeleteDocument
    <2>2. PICK heir \in Heirs(db, d) :
             /\ Begin(r, "deleteDocument", "destroy", removeDocument(db, d, heir, now), d)
             /\ asked' = asked \cup {d}
        BY <2>1
    <2>3. /\ GoodAt(removeDocument(db, d, heir, now))
          /\ removeDocument(db, d, heir, now) \in Profile
          /\ removeDocument(db, d, heir, now).docs \subseteq db.docs
        BY <1>1, ProfileTypes, GoodRemove DEF removeDocument, Profile
    <2> QED
        BY <1>5, <2>2, <2>3, SafeBegin DEF DeleteDocument
<1>6. ASSUME NEW r \in Requests, StoreFile(r) PROVE Good' /\ Kept'
    <2> DEFINE d == req[r].doc
    <2>1. /\ req[r] \in Request /\ req[r].op = "uploadDocument" /\ d \in DocIds
          /\ GoodAt(req[r].copy) /\ OwnAt(req[r]) /\ KeptAt(req[r]) /\ d \notin req[r].copy.docs
        BY <1>1, <1>6 DEF StoreFile, At, Safe, Typed, Slots, SlotAt, Good, Kept, OwnAt
    <2>2. CASE ~HasRoom(req[r].copy, d)
        BY <1>6, <2>2, SafeMove DEF StoreFile
    <2>3. CASE HasRoom(req[r].copy, d)
        <3>1. PICK p \in Profile : p = addDocument(req[r].copy, d, now)
            BY <1>1, <2>1, ProfileTypes DEF Request
        <3>2. GoodAt(p) /\ p.docs = req[r].copy.docs \cup {d}
            <4>1. req[r].copy \in Profile
                BY <2>1 DEF Request
            <4> QED
                BY <1>1, <2>1, <2>3, <3>1, <4>1, GoodAdd DEF addDocument, Profile
        <3>3. PICK q : /\ q.op = "uploadDocument" /\ q.copy = p /\ q.doc = d
                       /\ q.step = "check" /\ req' = [req EXCEPT ![r] = q]
            <4> DEFINE q == [req[r] EXCEPT !.step = "check", !.copy = p]
            <4>1. /\ q.op = "uploadDocument" /\ q.copy = p /\ q.doc = d
                  /\ q.step = "check"
                BY <2>1 DEF Request
            <4>2. req' = [req EXCEPT ![r] = q]
                BY <1>6, <2>3, <3>1 DEF StoreFile
            <4> QED
                BY <4>1, <4>2
        <3>4. req'[r] = q /\ \A s \in Requests \ {r} : req'[s] = req[s]
            BY <1>1, <3>3
        <3>5. UNCHANGED <<db, used, asked, unsure>> /\ files' = files \cup {d}
            BY <1>6 DEF StoreFile
        <3> HIDE DEF d
        <3>6. OwnAt(q)' /\ KeptAt(q)'
            <4>1. req[r].step = "upload"
                BY <1>6 DEF StoreFile, At
            <4>2. /\ d \in used /\ (d \in db.docs => d \in unsure)
                  /\ req[r].copy.docs \subseteq used
                  /\ req[r].copy.docs \ (asked \cup unsure) \subseteq files
                BY <2>1, <4>1 DEF OwnAt, KeptAt, d
            <4> QED
                BY <2>1, <3>2, <3>3, <3>5, <4>2 DEF OwnAt, KeptAt
        <3>7. ASSUME NEW s \in Requests \ {r}
              PROVE  /\ OwnAt(req[s])' /\ KeptAt(req[s])'
                     /\ Apart(q, req[s], unsure) /\ Apart(req[s], q, unsure)
            <4>1. /\ OwnAt(req[s]) /\ KeptAt(req[s])
                  /\ Apart(req[r], req[s], unsure) /\ Apart(req[s], req[r], unsure)
                BY DEF Safe, Kept
            <4>2. OwnAt(req[s])' /\ KeptAt(req[s])'
                BY <3>4, <3>5, <3>7, <4>1 DEF OwnAt, KeptAt
            <4>3. Apart(q, req[s], unsure) /\ Apart(req[s], q, unsure)
                BY <2>1, <3>2, <3>3, <4>1 DEF Apart, d
            <4> QED
                BY <4>2, <4>3
        <3>8. Good'
            BY <3>2, <3>3, <3>4, <3>5 DEF Safe, Good
        <3>9. db'.docs \subseteq used' /\ ListedFilesStored'
            BY <3>5 DEF Safe, Kept, ListedFilesStored
        <3> QED
            BY <3>4, <3>5, <3>6, <3>7, <3>8, <3>9 DEF Safe, Kept
    <2> QED
        BY <2>2, <2>3
<1>7. ASSUME NEW r \in Requests, Write(r) \/ WriteUnacknowledged(r) PROVE Good' /\ Kept'
    BY <1>7, SafeWrite
<1>8. ASSUME NEW r \in Requests, StoreFileFails(r) \/ DestroyFileSwallowed(r) \/ WriteFails(r)
                                \/ Check(r) \/ Crash(r)
      PROVE  Good' /\ Kept'
    BY <1>8, SafeMove
       DEF StoreFileFails, DestroyFileSwallowed, WriteFails, Check, Crash, At
<1>9. ASSUME NEW r \in Requests, Compensate(r) PROVE Good' /\ Kept'
    <2>1. req[r].op = "uploadDocument"
        BY <1>9 DEF Compensate, At, Safe, Typed, Slots, SlotAt
    <2> QED
        BY <1>9, <2>1, SafeMove DEF Compensate
<1>10. ASSUME NEW r \in Requests, DestroyFile(r) \/ DestroyFileFails(r) PROVE Good' /\ Kept'
    <2>1. req[r].doc \in asked /\ ~At(r, "compensate")
        BY <1>10 DEF DestroyFile, DestroyFileFails, At, Safe, Typed, Slots, SlotAt
    <2> QED
        BY <1>10, <2>1, SafeMove DEF DestroyFile, DestroyFileFails
<1>11. ASSUME Tick PROVE Good' /\ Kept'
    BY <1>11 DEF Tick, Safe, Good, Kept, ListedFilesStored, OwnAt, KeptAt
<1>12. ASSUME NEW r \in Requests,
              HandleProfile(r) \/ HandleDocument(r) \/ SaveProfile(r) \/ Crash(r)
       PROVE  Good' /\ Kept'
    BY <1>2, <1>3, <1>4, <1>5, <1>6, <1>7, <1>8, <1>9, <1>10, <1>12
       DEF HandleDocument, SaveProfile
<1>13. ASSUME UNCHANGED vars PROVE Good' /\ Kept'
    BY <1>13 DEF vars, Safe, Good, Kept, ListedFilesStored, OwnAt, KeptAt
<1>14. Good' /\ Kept'
    BY <1>11, <1>12, <1>13 DEF Next
<1> QED
    BY <1>0, <1>14 DEF Safe

\* Of the documents of one type exactly one is primary, whichever copies
\* overwrite which.
THEOREM OnePrimaryHolds == Spec => []OnePrimary
<1>1. Safe => OnePrimary
    BY DEF Safe, Good, GoodAt, OnePrimary
<1> QED
    BY SafeInit, SafeStep, <1>1, PTL DEF Spec

\* No overlap of uploads takes a type past its limit.
THEOREM WithinLimitHolds == Spec => []WithinLimit
<1>1. Safe => WithinLimit
    BY DEF Safe, Good, GoodAt, WithinLimit
<1> QED
    BY SafeInit, SafeStep, <1>1, PTL DEF Spec

\* Whatever fails, dies or overlaps, a listed document has its file, unless the applicant
\* asked to delete it or its own upload was saved and yet took it for failed.
THEOREM ListedFilesStoredHolds == Spec => []ListedFilesStored
<1>1. Safe => ListedFilesStored
    BY DEF Safe, Kept
<1> QED
    BY SafeInit, SafeStep, <1>1, PTL DEF Spec

-----------------------------------------------------------------------------
(* The list.  A save changes the row into a copy, and a copy lists what the *)
(* row listed when it was loaded, less what it deletes, plus what it        *)
(* uploads: so whatever all of them agree on stays.                         *)

\* A document needs a profile, and whatever is in flight holds one.
Backed ==
    /\ db.docs # {} => db.exists
    /\ \A r \in Requests :
          IF req[r].op = "idle" THEN req[r] = Idle ELSE req[r].copy.exists

\* A request that begins takes the list from the row.
Starts(q, p) ==
    /\ q.op = "idle" /\ p.op # "idle" /\ p.copy.exists
    /\ IF p.op = "createProfile" THEN p.copy.docs = {}
       ELSE p.copy.docs \subseteq db.docs /\ db.docs \ p.copy.docs \subseteq asked'
    /\ p.op = "uploadDocument" => p.doc \notin used

\* A request that goes on keeps its list, but for the document that it uploads.
GoesOn(q, p) ==
    /\ q.op # "idle" /\ p.op = q.op /\ p.doc = q.doc /\ p.copy.exists
    /\ q.copy.docs \subseteq p.copy.docs
    /\ \A d \in p.copy.docs \ q.copy.docs : q.op = "uploadDocument" /\ d = q.doc

Turns(q, p) == p = q \/ p = Idle \/ Starts(q, p) \/ GoesOn(q, p)

\* What a step does to the row, the copies and the files.
ListStep ==
    /\ \A r \in Requests : Turns(req[r], req'[r])
    /\ \/ db' = db
       \/ \E r \in Requests :
             /\ db' = req[r].copy /\ req[r].op # "idle"
             /\ req[r].op = "createProfile" => ~db.exists
    /\ \A d \in files' \ files : \E r \in Requests :
             req[r].op = "uploadDocument" /\ req[r].doc = d
    /\ used \subseteq used' /\ asked \subseteq asked'

\* A step of one slot that leaves the row alone.
LEMMA ListFrame ==
    ASSUME Typed, NEW r \in Requests, NEW q, req' = [req EXCEPT ![r] = q],
           Turns(req[r], q), db' = db, used \subseteq used', asked \subseteq asked',
           \/ files' \subseteq files
           \/ req[r].op = "uploadDocument" /\ files' \subseteq files \cup {req[r].doc}
    PROVE  ListStep
<1>1. \A s \in Requests : req'[s] = IF s = r THEN q ELSE req[s]
    BY DEF Typed, TypeOK
<1>2. \A s \in Requests : Turns(req[s], req'[s])
    BY <1>1 DEF Turns
<1>3. \A d \in files' \ files : req[r].op = "uploadDocument" /\ req[r].doc = d
    OBVIOUS
<1> QED
    BY <1>2, <1>3 DEF ListStep

LEMMA ListBegin ==
    ASSUME Typed, NEW r \in Requests, NEW op, op # "idle", NEW step, NEW p, NEW d,
           Begin(r, op, step, p, d), used \subseteq used', asked \subseteq asked', p.exists,
           IF op = "createProfile" THEN p.docs = {}
           ELSE p.docs \subseteq db.docs /\ db.docs \ p.docs \subseteq asked',
           op = "uploadDocument" => d \notin used
    PROVE  ListStep
<1>1. PICK q : /\ q.op = op /\ q.copy = p /\ q.doc = d
               /\ req' = [req EXCEPT ![r] = q]
    BY DEF Begin
<1>2. Turns(req[r], q)
    BY <1>1 DEF Begin, Turns, Starts
<1> QED
    BY <1>1, <1>2, ListFrame DEF Begin

\* A slot that is not idle goes on with its copy, or becomes idle.
LEMMA ListMove ==
    ASSUME Typed, Backed, NEW r \in Requests, UNCHANGED <<db, used, asked>>, ~At(r, "idle"),
           End(r) \/ FailSave(r) \/ \E step \in Steps : GoTo(r, step),
           \/ files' \subseteq files
           \/ req[r].op = "uploadDocument" /\ files' \subseteq files \cup {req[r].doc}
    PROVE  ListStep
<1>1. req[r] \in Request /\ req[r].op # "idle" /\ req[r].copy.exists
    BY DEF Typed, TypeOK, Backed, At, Idle
<1>2. CASE End(r)
    <2>1. req' = [req EXCEPT ![r] = Idle] /\ Turns(req[r], Idle)
        BY <1>2 DEF End, Turns
    <2> QED
        BY <2>1, ListFrame
<1>3. ASSUME NEW step, GoTo(r, step) PROVE ListStep
    <2>1. PICK q : /\ q.op = req[r].op /\ q.copy = req[r].copy /\ q.doc = req[r].doc
                   /\ req' = [req EXCEPT ![r] = q]
        BY <1>1, <1>3 DEF GoTo, Request
    <2>2. Turns(req[r], q)
        BY <1>1, <2>1 DEF Turns, GoesOn
    <2> QED
        BY <2>1, <2>2, ListFrame
<1> QED
    BY <1>2, <1>3 DEF FailSave

LEMMA NextLists ==
    ASSUME Typed, Backed, [Next]_vars PROVE ListStep
<1> USE DEF ProfileUseCases, DocumentUseCases
<1>0. db \in Profile /\ req \in [Requests -> Request]
    BY DEF Typed, TypeOK
<1>1. ASSUME NEW r \in Requests, HandleProfile(r) PROVE ListStep
    <2>1. create(now).exists /\ create(now).docs = {}
        BY DEF create, NoProfile
    <2>2. updateProfile(db, now).exists = db.exists /\ updateProfile(db, now).docs = db.docs
        BY <1>0 DEF updateProfile, Profile
    <2>3. CASE CreateProfile(r)
        BY <2>1, <2>3, ListBegin DEF CreateProfile
    <2>4. CASE EditProfile(r)
        BY <2>2, <2>4, ListBegin DEF EditProfile
    <2> QED
        BY <1>1, <2>3, <2>4 DEF HandleProfile
<1>2. ASSUME NEW r \in Requests, SetPrimaryDocument(r) PROVE ListStep
    <2>1. PICK d \in db.docs :
             Begin(r, "setPrimaryDocument", "check", setPrimaryDocument(db, d, now), d)
        BY <1>2 DEF SetPrimaryDocument
    <2>2. /\ setPrimaryDocument(db, d, now).exists = db.exists
          /\ setPrimaryDocument(db, d, now).docs = db.docs
        BY <1>0 DEF setPrimaryDocument, Profile
    <2> QED
        BY <1>2, <2>1, <2>2, ListBegin DEF SetPrimaryDocument
<1>3. ASSUME NEW r \in Requests, UploadDocument(r) PROVE ListStep
    BY <1>3, ListBegin DEF UploadDocument
<1>4. ASSUME NEW r \in Requests, DeleteDocument(r) PROVE ListStep
    <2>1. PICK d \in db.docs : \E heir \in Heirs(db, d) :
             /\ Begin(r, "deleteDocument", "destroy", removeDocument(db, d, heir, now), d)
             /\ asked' = asked \cup {d}
        BY <1>4 DEF DeleteDocument
    <2>2. PICK heir \in Heirs(db, d) :
             /\ Begin(r, "deleteDocument", "destroy", removeDocument(db, d, heir, now), d)
             /\ asked' = asked \cup {d}
        BY <2>1
    <2>3. /\ removeDocument(db, d, heir, now).exists = db.exists
          /\ removeDocument(db, d, heir, now).docs = db.docs \ {d}
        BY <1>0 DEF removeDocument, Profile
    <2> QED
        BY <1>4, <2>2, <2>3, ListBegin DEF DeleteDocument
<1>5. ASSUME NEW r \in Requests, StoreFile(r) PROVE ListStep
    <2>1. /\ req[r] \in Request /\ req[r].op = "uploadDocument" /\ req[r].copy.exists
          /\ req[r].copy \in Profile
        BY <1>0, <1>5 DEF StoreFile, At, Typed, Slots, SlotAt, Backed, Request
    <2>2. CASE ~HasRoom(req[r].copy, req[r].doc)
        BY <1>5, <2>1, <2>2, ListMove DEF StoreFile, At, Steps
    <2>3. CASE HasRoom(req[r].copy, req[r].doc)
        <3> DEFINE p == addDocument(req[r].copy, req[r].doc, now)
                   q == [req[r] EXCEPT !.step = "check", !.copy = p]
        <3>1. p.exists /\ p.docs = req[r].copy.docs \cup {req[r].doc}
            BY <2>1 DEF addDocument, Profile
        <3>2. req' = [req EXCEPT ![r] = q]
            BY <1>5, <2>3 DEF StoreFile
        <3>3. q.op = req[r].op /\ q.doc = req[r].doc /\ q.copy = p
            BY <2>1 DEF Request
        <3> HIDE DEF p, q
        <3>4. Turns(req[r], q)
            BY <2>1, <3>1, <3>3 DEF Turns, GoesOn
        <3> QED
            BY <1>5, <2>1, <3>2, <3>4, ListFrame DEF StoreFile
    <2> QED
        BY <2>2, <2>3
<1>6. ASSUME NEW r \in Requests, StoreFileFails(r) PROVE ListStep
    <2>1. req[r].op = "uploadDocument"
        BY <1>6 DEF StoreFileFails, At, Typed, Slots, SlotAt
    <2> QED
        BY <1>6, <2>1, ListMove DEF StoreFileFails, At
<1>7. ASSUME NEW r \in Requests,
             \/ Compensate(r) \/ DestroyFile(r) \/ DestroyFileFails(r)
             \/ DestroyFileSwallowed(r) \/ Check(r) \/ WriteFails(r)
      PROVE  ListStep
    <2>1. /\ ~At(r, "idle") /\ UNCHANGED <<db, used, asked>> /\ files' \subseteq files
          /\ End(r) \/ FailSave(r) \/ \E step \in Steps : GoTo(r, step)
        BY <1>7 DEF Compensate, DestroyFile, DestroyFileFails, DestroyFileSwallowed, Check,
                    WriteFails, At, Steps
    <2> QED
        BY <2>1, ListMove
<1>8. ASSUME NEW r \in Requests, Crash(r) PROVE ListStep
    <2>1. req' = [req EXCEPT ![r] = Idle] /\ Turns(req[r], Idle)
        BY <1>8 DEF Crash, End, Turns
    <2> QED
        BY <1>8, <2>1, ListFrame DEF Crash
<1>9. ASSUME NEW r \in Requests, Write(r) \/ WriteUnacknowledged(r) PROVE ListStep
    <2>1. req[r].op # "idle" /\ req[r] \in Request /\ req[r].copy.exists
        BY <1>0, <1>9 DEF Write, WriteUnacknowledged, At, Backed, Idle
    <2>2. PICK q : /\ req' = [req EXCEPT ![r] = q]
                   /\ \/ q = Idle
                      \/ q.op = req[r].op /\ q.copy = req[r].copy /\ q.doc = req[r].doc
        BY <1>9, <2>1 DEF Write, WriteUnacknowledged, FailSave, End, GoTo, Request
    <2>3. \A s \in Requests : req'[s] = IF s = r THEN q ELSE req[s]
        BY <1>0, <2>2
    <2>4. \A s \in Requests : Turns(req[s], req'[s])
        BY <2>1, <2>2, <2>3 DEF Turns, GoesOn
    <2> QED
        BY <1>9, <2>1, <2>4 DEF Write, WriteUnacknowledged, ListStep
<1>10. ASSUME Tick \/ UNCHANGED vars PROVE ListStep
    BY <1>10 DEF Tick, vars, ListStep, Turns
<1> QED
    BY <1>1, <1>2, <1>3, <1>4, <1>5, <1>6, <1>7, <1>8, <1>9, <1>10
       DEF Next, HandleDocument, SaveProfile

LEMMA BackedInit == Init => Backed
<1>1. Idle.op = "idle" /\ NoProfile.docs = {}
    BY DEF Idle, NoProfile
<1> QED
    BY <1>1 DEF Init, Backed

LEMMA BackedStep ==
    ASSUME Backed, ListStep PROVE Backed'
<1>1. ASSUME NEW r \in Requests
      PROVE  IF req'[r].op = "idle" THEN req'[r] = Idle ELSE req'[r].copy.exists
    <2>1. Turns(req[r], req'[r])
        BY DEF ListStep
    <2>2. IF req[r].op = "idle" THEN req[r] = Idle ELSE req[r].copy.exists
        BY DEF Backed
    <2>3. Idle.op = "idle"
        BY DEF Idle
    <2> HIDE DEF Idle
    <2> QED
        BY <2>1, <2>2, <2>3 DEF Turns, Starts, GoesOn
<1>2. db'.docs # {} => db'.exists
    BY DEF Backed, ListStep
<1> QED
    BY <1>1, <1>2 DEF Backed

LEMMA SettledOn ==
    ASSUME Backed, ListStep, NEW d \in DocIds \ asked', Settled(d) PROVE Settled(d)'
<1>1. d \in db'.docs
    BY DEF Backed, ListStep, Settled
<1>2. ASSUME NEW r \in Requests, req'[r].op \notin {"idle", "createProfile"}
      PROVE  d \in req'[r].copy.docs
    <2>1. Turns(req[r], req'[r])
        BY DEF ListStep
    <2>2. Idle.op = "idle"
        BY DEF Idle
    <2> HIDE DEF Idle
    <2> QED
        BY <1>2, <2>1, <2>2 DEF Settled, Turns, Starts, GoesOn
<1> QED
    BY <1>1, <1>2 DEF Settled

LEMMA VanishedOn ==
    ASSUME ListStep, NEW d \in DocIds, Vanished(d)
    PROVE  Vanished(d)' /\ (d \in files' => d \in files)
<1>1. d \in used' \ db'.docs
    BY DEF ListStep, Vanished
<1>2. ASSUME NEW r \in Requests
      PROVE  d \notin req'[r].copy.docs /\ (req'[r].op = "uploadDocument" => req'[r].doc # d)
    <2>1. Turns(req[r], req'[r])
        BY DEF ListStep
    <2>2. Idle.op = "idle" /\ Idle.copy.docs = {}
        BY DEF Idle, NoProfile
    <2> HIDE DEF Idle
    <2> QED
        BY <2>1, <2>2 DEF Vanished, Turns, Starts, GoesOn
<1>3. d \in files' => d \in files
    BY DEF ListStep, Vanished
<1> QED
    BY <1>1, <1>2, <1>3 DEF Vanished

LEMMA BackedHolds == Spec => [](Typed /\ Backed)
BY TypedInit, TypedStep, BackedInit, BackedStep, NextLists, PTL DEF Spec

\* However many requests overlap, a document that the row and every copy list stays
\* listed until the applicant asks to delete it.
THEOREM SettledTheorem == Spec => SettledStays
<1>1. Typed /\ Backed /\ [Next]_vars => [\A d \in DocIds \ asked' : Settled(d) => Settled(d)']_vars
    BY NextLists, SettledOn
<1> QED
    BY <1>1, BackedHolds, PTL DEF Spec, SettledStays

\* However many requests overlap, a document that neither the row nor a copy lists is
\* gone for good, and so is its file once it is removed.
THEOREM VanishedTheorem == Spec => VanishedForGood
<1>1. Typed /\ Backed /\ [Next]_vars =>
        [\A d \in DocIds : Vanished(d) => Vanished(d)' /\ (d \in files' => d \in files)]_vars
    BY NextLists, VanishedOn
<1> QED
    BY <1>1, BackedHolds, PTL DEF Spec, VanishedForGood

=============================================================================
