-------------------------- MODULE AccountErasureProofs --------------------------
(***************************************************************************)
(* What holds of an account that is erased, for every number of queued      *)
(* jobs, listeners, documents and crashes: no mail is given up but by the   *)
(* provider or a dying worker, the farewell is mailed once and only when    *)
(* the account is gone, and documents keep their files until a deletion     *)
(* starts.                                                                  *)
(***************************************************************************)
EXTENDS AccountErasure, SequenceTheorems, FiniteSetTheorems, TLAPS

USE QueueAssumption, NotificationAssumption, ErasureAssumption

AJob == Job(Data)
IsMail(j) == j.queue # "recruitment-asset-queue"
Farewell == "send-farewell-email"
Deletion == On("USER_ACCOUNT_DELETED", Owner, Nobody)

\* A mail that is not settled has been refused in each run that threw, and has runs
\* left; one that failed has none.
CountsOK(j) ==
    /\ j.state \in {"waiting", "active"} =>
          /\ j.refused = j.tried /\ j.tried < Attempts[j.queue]
          /\ j.stalled <= MaxStalled
    /\ j.state = "failed" => j.refused = Attempts[j.queue] \/ j.stalled > MaxStalled

\* Every mail is one that the processor of its queue knows, and only files that a
\* deletion has queued are named by a job.
ContentOK(j) ==
    IF IsMail(j) THEN Knows(j.queue, j.data.name) /\ j.data.urls = {}
    ELSE j.data.name # Farewell

JobOK(j) == CountsOK(j) /\ ContentOK(j)

JobsOK == \A i \in Ids : JobOK(jobs[i])

-----------------------------------------------------------------------------
(* The queue.                                                               *)

\* The jobs are the same, each perhaps in another state.
Reworked ==
    /\ jobs' \in Seq(AJob)
    /\ Len(jobs') = Len(jobs)
    /\ \A i \in Ids : jobs'[i].data = jobs[i].data /\ jobs'[i].queue = jobs[i].queue

LEMMA IdsAre == ASSUME jobs \in Seq(AJob) PROVE Ids = 1..Len(jobs) /\ Len(jobs) \in Nat
BY LenProperties DEF Ids

LEMMA JobFields ==
    ASSUME NEW j \in AJob
    PROVE  /\ j.queue \in Queues /\ j.data \in Data /\ j.tried \in Nat /\ j.refused \in Nat
           /\ j.stalled \in 0..(MaxStalled + 1)
           /\ j.data.urls \in SUBSET Files
           /\ Attempts[j.queue] \in Nat \ {0}
BY DEF AJob, Job, Data

LEMMA NewJobOK ==
    ASSUME NEW queue \in Queues, NEW data \in Data
    PROVE  NewJob(queue, data) \in AJob /\ CountsOK(NewJob(queue, data))
<1>1. Attempts[queue] \in Nat \ {0}
    OBVIOUS
<1> QED
    BY <1>1 DEF NewJob, AJob, Job, CountsOK

\* One job is replaced by one with the same content.
LEMMA ReplaceJob ==
    ASSUME jobs \in Seq(AJob), JobsOK, NEW i \in Ids, NEW j \in AJob,
           jobs' = [jobs EXCEPT ![i] = j], CountsOK(j),
           j.queue = jobs[i].queue, j.data = jobs[i].data
    PROVE  Reworked /\ JobsOK'
<1>1. /\ jobs' \in Seq(AJob) /\ Len(jobs') = Len(jobs)
      /\ \A k \in 1..Len(jobs) : jobs'[k] = IF k = i THEN j ELSE jobs[k]
    BY IdsAre, ExceptSeq
<1>2. Ids' = Ids
    BY <1>1, LenProperties DEF Ids
<1>3. ContentOK(j)
    BY DEF JobsOK, JobOK, ContentOK, IsMail
<1> QED
    BY <1>1, <1>2, <1>3, IdsAre DEF Reworked, JobsOK, JobOK

LEMMA TakeOK ==
    ASSUME jobs \in Seq(AJob), JobsOK, NEW i \in Ids, Take(i) PROVE Reworked /\ JobsOK'
<1> DEFINE j == [jobs[i] EXCEPT !.state = "active"]
<1>1. jobs[i] \in AJob
    BY LenProperties DEF Ids
<1>2. j \in AJob /\ j.queue = jobs[i].queue /\ j.data = jobs[i].data
    BY <1>1 DEF AJob, Job
<1>3. CountsOK(j)
    BY <1>1 DEF CountsOK, JobsOK, JobOK, Take, InState, AJob, Job
<1>4. jobs' = [jobs EXCEPT ![i] = j]
    BY DEF Take
<1> HIDE DEF j
<1> QED
    BY <1>2, <1>3, <1>4, ReplaceJob

LEMMA CompleteOK ==
    ASSUME jobs \in Seq(AJob), JobsOK, NEW i \in Ids, Complete(i) PROVE Reworked /\ JobsOK'
<1> DEFINE j == [NewJob(jobs[i].queue, jobs[i].data) EXCEPT !.state = "completed"]
<1>1. jobs[i] \in AJob
    BY LenProperties DEF Ids
<1>2. j \in AJob /\ j.queue = jobs[i].queue /\ j.data = jobs[i].data /\ CountsOK(j)
    BY <1>1, JobFields, NewJobOK DEF AJob, Job, NewJob, CountsOK
<1>3. jobs' = [jobs EXCEPT ![i] = j]
    BY DEF Complete
<1> HIDE DEF j
<1> QED
    BY <1>2, <1>3, ReplaceJob

\* A run that throws because the provider refused.
LEMMA ThrowOK ==
    ASSUME jobs \in Seq(AJob), JobsOK, NEW i \in Ids, Throw(i, TRUE) PROVE Reworked /\ JobsOK'
<1> DEFINE tried == jobs[i].tried + 1
           state == IF tried < Attempts[jobs[i].queue] THEN "waiting" ELSE "failed"
           j == [jobs[i] EXCEPT !.tried = tried, !.refused = tried, !.state = state]
<1>1. jobs[i] \in AJob /\ Attempts[jobs[i].queue] \in Nat /\ jobs[i].tried \in Nat
    BY LenProperties, JobFields DEF Ids
<1>2. /\ jobs[i].refused = jobs[i].tried /\ jobs[i].tried < Attempts[jobs[i].queue]
      /\ jobs[i].stalled <= MaxStalled
    BY DEF Throw, InState, JobsOK, JobOK, CountsOK
<1>3. tried \in Nat /\ tried <= Attempts[jobs[i].queue]
    BY <1>1, <1>2
<1>4. \/ state = "waiting" /\ tried < Attempts[jobs[i].queue]
      \/ state = "failed" /\ tried = Attempts[jobs[i].queue]
    BY <1>1, <1>3
<1>6. jobs' = [jobs EXCEPT ![i] = j]
  <2>1. jobs' = [jobs EXCEPT ![i].tried = @ + 1, ![i].refused = @ + 1, ![i].state = state]
      BY DEF Throw
  <2>2. /\ jobs \in [1..Len(jobs) -> AJob] /\ i \in 1..Len(jobs)
      BY LenProperties, IdsAre
  <2> QED
      BY <1>1, <1>2, <2>1, <2>2 DEF AJob, Job
<1> HIDE DEF tried, state
<1>7. j \in AJob /\ j.queue = jobs[i].queue /\ j.data = jobs[i].data
    BY <1>1, <1>3, <1>4 DEF AJob, Job
<1>8. /\ j.tried = tried /\ j.refused = tried /\ j.state = state
      /\ j.stalled = jobs[i].stalled
    BY <1>1 DEF AJob, Job
<1>9. CountsOK(j)
    BY <1>2, <1>4, <1>7, <1>8 DEF CountsOK
<1> HIDE DEF j
<1> QED
    BY <1>6, <1>7, <1>9, ReplaceJob

LEMMA StalledOK ==
    ASSUME jobs \in Seq(AJob), JobsOK, jobs' = Stalled PROVE Reworked /\ JobsOK'
<1>1. ASSUME NEW i \in Ids
      PROVE  Stalled[i] \in AJob /\ Stalled[i].data = jobs[i].data
             /\ Stalled[i].queue = jobs[i].queue /\ JobOK(Stalled[i])
  <2>1. jobs[i] \in AJob /\ JobOK(jobs[i])
      BY LenProperties DEF Ids, JobsOK
  <2>2. CASE ~InState(i, "active")
      BY <2>1, <2>2 DEF Stalled
  <2>3. CASE InState(i, "active")
    <3> DEFINE stalled == jobs[i].stalled + 1
               state == IF jobs[i].stalled < MaxStalled THEN "waiting" ELSE "failed"
               j == [jobs[i] EXCEPT !.stalled = stalled, !.state = state]
    <3>1. Stalled[i] = j
        BY <2>3 DEF Stalled
    <3>2. jobs[i].stalled <= MaxStalled /\ jobs[i].stalled \in Nat /\ MaxStalled \in Nat
        BY <2>1, <2>3, JobFields DEF InState, JobOK, CountsOK
    <3>6. stalled \in 0..(MaxStalled + 1)
        BY <3>2
    <3>7. \/ state = "waiting" /\ stalled <= MaxStalled
          \/ state = "failed" /\ stalled > MaxStalled
        BY <3>2
    <3> HIDE DEF stalled, state
    <3>3. j \in AJob /\ j.queue = jobs[i].queue /\ j.data = jobs[i].data
        BY <2>1, <3>6, <3>7 DEF AJob, Job
    <3>8. /\ j.tried = jobs[i].tried /\ j.refused = jobs[i].refused
          /\ j.stalled = stalled /\ j.state = state
        BY <2>1 DEF AJob, Job
    <3>4. CountsOK(j)
        BY <2>1, <2>3, <3>3, <3>7, <3>8 DEF JobOK, CountsOK, InState
    <3>5. ContentOK(j)
        BY <2>1, <3>3 DEF JobOK, ContentOK, IsMail
    <3> QED
        BY <3>1, <3>3, <3>4, <3>5 DEF JobOK
  <2> QED
      BY <2>2, <2>3
<1>2. Stalled \in [1..Len(jobs) -> AJob] /\ Len(jobs) \in Nat
    BY <1>1, IdsAre DEF Stalled
<1>3. Stalled \in Seq(AJob) /\ Len(Stalled) = Len(jobs)
    BY <1>2
<1>4. Ids' = Ids
    BY <1>3, LenProperties DEF Ids
<1> QED
    BY <1>1, <1>3, <1>4 DEF Reworked, JobsOK

\* Jobs are added at the end.
LEMMA MoreJobs ==
    ASSUME jobs \in Seq(AJob), JobsOK, NEW more \in Seq(AJob), jobs' = jobs \o more,
           \A k \in 1..Len(more) : JobOK(more[k])
    PROVE  /\ jobs' \in Seq(AJob) /\ Len(jobs') = Len(jobs) + Len(more)
           /\ JobsOK' /\ Ids \subseteq Ids'
           /\ \A i \in Ids' : IF i \in Ids THEN jobs'[i] = jobs[i]
                              ELSE i - Len(jobs) \in 1..Len(more) /\ jobs'[i] = more[i - Len(jobs)]
<1>1. Len(jobs) \in Nat /\ Len(more) \in Nat /\ Ids = 1..Len(jobs)
    BY LenProperties, IdsAre
<1>2. /\ jobs' \in Seq(AJob) /\ Len(jobs') = Len(jobs) + Len(more)
      /\ \A i \in 1..Len(jobs) + Len(more) :
            jobs'[i] = IF i <= Len(jobs) THEN jobs[i] ELSE more[i - Len(jobs)]
    BY ConcatProperties
<1>3. Ids' = 1..Len(jobs) + Len(more)
    BY <1>2, LenProperties DEF Ids
<1>4. \A i \in Ids' : IF i \in Ids THEN jobs'[i] = jobs[i]
                      ELSE i - Len(jobs) \in 1..Len(more) /\ jobs'[i] = more[i - Len(jobs)]
    BY <1>1, <1>2, <1>3
<1>5. JobsOK'
    BY <1>4 DEF JobsOK
<1>6. Ids \subseteq Ids'
    BY <1>1, <1>3
<1> QED
    BY <1>2, <1>4, <1>5, <1>6

-----------------------------------------------------------------------------
(* The listeners.                                                           *)

AMail == [queue: Queues, name: JobNames, to: Persons \cup {Nobody}]

\* A mail that its processor knows; the farewell is sent by one listener only.
MailOK(m, e) ==
    /\ m \in AMail /\ IsMail(m) /\ Knows(m.queue, m.name)
    /\ m.name = Farewell => e.name = "USER_ACCOUNT_DELETED"

MailsOK(s, e) ==
    /\ s \in Seq(AMail)
    /\ \A k \in 1..Len(s) : MailOK(s[k], e)
    /\ e.name = "USER_ACCOUNT_DELETED" => Len(s) <= 1

LEMMA OneMail ==
    ASSUME NEW e, NEW m, MailOK(m, e) PROVE MailsOK(<<m>>, e)
BY DEF MailsOK, MailOK

LEMMA IamMailOK ==
    ASSUME NEW e \in Event, NEW name \in IamNames,
           name = Farewell => e.name = "USER_ACCOUNT_DELETED"
    PROVE  MailsOK(IamMail(name, e), e)
<1>1. name \in JobNames
    BY DEF JobNames
<1>2. MailOK(Mail("iam-email", name, e.who), e)
    BY <1>1 DEF MailOK, Mail, AMail, IsMail, Knows, Event
<1> QED
    BY <1>2, OneMail DEF IamMail

LEMMA RecruitmentMailOK ==
    ASSUME NEW e \in Event, NEW name \in RecruitmentNames, NEW to \in Persons \cup {Nobody}
    PROVE  MailsOK(RecruitmentMail(name, to), e)
<1>1. name \in JobNames /\ name # Farewell
    BY DEF JobNames, RecruitmentNames, Farewell
<1>2. MailOK(Mail("recruitment-email", name, to), e)
    BY <1>1 DEF MailOK, Mail, AMail, IsMail, Knows
<1> QED
    BY <1>2, OneMail DEF RecruitmentMail

LEMMA TwoMails ==
    ASSUME NEW e, NEW s, NEW t, MailsOK(s, e), MailsOK(t, e), e.name # "USER_ACCOUNT_DELETED"
    PROVE  MailsOK(s \o t, e)
<1>1. /\ s \o t \in Seq(AMail) /\ Len(s \o t) = Len(s) + Len(t)
      /\ \A k \in 1..Len(s) + Len(t) : (s \o t)[k] = IF k <= Len(s) THEN s[k] ELSE t[k - Len(s)]
    BY ConcatProperties DEF MailsOK
<1>2. Len(s) \in Nat /\ Len(t) \in Nat
    BY LenProperties DEF MailsOK
<1>3. ASSUME NEW k \in 1..Len(s \o t) PROVE MailOK((s \o t)[k], e)
  <2>1. CASE k <= Len(s)
      BY <1>1, <1>2, <2>1 DEF MailsOK
  <2>2. CASE ~(k <= Len(s))
    <3>1. k - Len(s) \in 1..Len(t)
        BY <1>1, <1>2, <2>2
    <3> QED
        BY <1>1, <1>2, <2>2, <3>1 DEF MailsOK
  <2> QED
      BY <2>1, <2>2
<1> QED
    BY <1>1, <1>3 DEF MailsOK

LEMMA IamMailsOK ==
    ASSUME NEW e \in Event, e.name \in IamEvents PROVE MailsOK(Mails(e), e)
<1>1. ASSUME NEW name \in IamNames, Mails(e) = IamMail(name, e),
             name = Farewell => e.name = "USER_ACCOUNT_DELETED"
      PROVE  MailsOK(Mails(e), e)
    BY <1>1, IamMailOK
<1>2. \E name \in IamNames : /\ Mails(e) = IamMail(name, e)
                             /\ name = Farewell => e.name = "USER_ACCOUNT_DELETED"
    BY DEF IamEvents, IamNames, Farewell, Mails, UserRegistered, VerificationEmailResent,
           PasswordResetRequested, EmailChangeRequested, UserEmailVerified, UserEmailChanged,
           UserPasswordChanged, UserMfaEnabled, UserMfaDisabled, UserAccountDeletionScheduled,
           UserAccountRestored, UserAccountDeleted
<1> QED
    BY <1>1, <1>2

LEMMA RecruitmentMailsOK ==
    ASSUME NEW e \in Event, e.name \in RecruitmentEvents PROVE MailsOK(Mails(e), e)
<1>1. e.who \in Persons \cup {Nobody} /\ e.other \in Persons \cup {Nobody}
      /\ e.name # "USER_ACCOUNT_DELETED"
    BY DEF Event, RecruitmentEvents
<1>2. CASE e.name = "JOB_APPLICATION_SUBMITTED"
  <2>1. Mails(e) = RecruitmentMail("send-application-submitted", e.who)
                   \o RecruitmentMail("send-application-received", e.other)
      BY <1>2 DEF Mails, JobApplicationSubmitted
  <2> QED
      BY <1>1, <2>1, RecruitmentMailOK, TwoMails DEF RecruitmentNames
<1>3. CASE e.name # "JOB_APPLICATION_SUBMITTED"
  <2>1. \E name \in RecruitmentNames : \E to \in {e.who, e.other} :
            Mails(e) = RecruitmentMail(name, to)
      BY <1>3 DEF RecruitmentEvents, RecruitmentNames, Mails, ApplicantProfileCreated,
             EmployerProfileCreated, JobListingCreated, JobListingClosed,
             JobApplicationStatusUpdated, JobApplicationWithdrawn
  <2> QED
      BY <1>1, <2>1, RecruitmentMailOK
<1> QED
    BY <1>2, <1>3

\* The mails of each event are for processors that know them.
LEMMA KnownMails == ASSUME NEW e \in Event PROVE MailsOK(Mails(e), e)
BY IamMailsOK, RecruitmentMailsOK DEF Event

\* A listener adds jobs for mails only, and a farewell only for the deletion.
Told(e) ==
    /\ jobs' \in Seq(AJob) /\ Len(jobs') <= MaxJobs
    /\ JobsOK' /\ Ids \subseteq Ids'
    /\ \A i \in Ids' :
          IF i \in Ids THEN jobs'[i] = jobs[i]
          ELSE /\ jobs'[i].data.urls = {}
               /\ jobs'[i].data.name = Farewell
                     => e.name = "USER_ACCOUNT_DELETED" /\ i = Len(jobs) + 1

LEMMA MailJobOK ==
    ASSUME NEW e, NEW m, MailOK(m, e)
    PROVE  /\ MailJob(m) \in AJob /\ JobOK(MailJob(m))
           /\ MailJob(m).data.urls = {} /\ MailJob(m).data.name = m.name
<1> DEFINE data == [name |-> m.name, to |-> m.to, urls |-> {}]
<1>1. m.queue \in Queues /\ data \in Data
    BY DEF MailOK, AMail, Data
<1>2. /\ MailJob(m) = NewJob(m.queue, data)
      /\ MailJob(m).queue = m.queue /\ MailJob(m).data = data
    BY DEF MailJob, NewJob
<1>3. ContentOK(MailJob(m))
    BY <1>2 DEF ContentOK, MailOK, IsMail
<1>4. data.urls = {} /\ data.name = m.name
    OBVIOUS
<1> HIDE DEF data
<1> QED
    BY <1>1, <1>2, <1>3, <1>4, NewJobOK DEF JobOK

LEMMA HandleOK ==
    ASSUME TypeOK, JobsOK, NEW e \in handlers, NEW present, Handle(e, present)
    PROVE  Told(e)
<1> DEFINE mails == IF MayTell(e, present) THEN Mails(e) ELSE <<>>
           more(n) == [k \in 1..n |-> MailJob(mails[k])]
<1>1. MailsOK(mails, e)
  <2>1. MailsOK(Mails(e), e)
      BY KnownMails DEF TypeOK
  <2>2. MailsOK(<<>>, e)
      BY DEF MailsOK
  <2> QED
      BY <2>1, <2>2
<1>2. Len(mails) \in Nat
    BY <1>1, LenProperties DEF MailsOK
<1>3. PICK n \in 0..Len(mails) : HasRoomFor(n) /\ jobs' = jobs \o more(n)
    BY <1>2 DEF Handle
<1> HIDE DEF mails
<1>4. \A k \in 1..n : MailOK(mails[k], e)
    BY <1>1, <1>2, <1>3 DEF MailsOK
<1>5. /\ more(n) \in Seq(AJob) /\ Len(more(n)) = n
      /\ \A k \in 1..n : more(n)[k] = MailJob(mails[k])
    BY <1>2, <1>3, <1>4, MailJobOK
<1>6. \A k \in 1..n : /\ JobOK(more(n)[k]) /\ more(n)[k].data.urls = {}
                     /\ more(n)[k].data.name = mails[k].name
    BY <1>4, <1>5, MailJobOK
<1> HIDE DEF more
<1>7. jobs \in Seq(AJob) /\ Len(jobs) \in Nat
    BY LenProperties DEF TypeOK, AJob
<1>8. /\ jobs' \in Seq(AJob) /\ Len(jobs') = Len(jobs) + n /\ JobsOK' /\ Ids \subseteq Ids'
      /\ \A i \in Ids' : IF i \in Ids THEN jobs'[i] = jobs[i]
                         ELSE i - Len(jobs) \in 1..n /\ jobs'[i] = more(n)[i - Len(jobs)]
    BY <1>3, <1>5, <1>6, <1>7, MoreJobs
<1>9. ASSUME NEW i \in Ids', i \notin Ids
      PROVE  /\ jobs'[i].data.urls = {}
             /\ jobs'[i].data.name = Farewell
                   => e.name = "USER_ACCOUNT_DELETED" /\ i = Len(jobs) + 1
  <2>1. i - Len(jobs) \in 1..n /\ jobs'[i] = more(n)[i - Len(jobs)]
      BY <1>8, <1>9
  <2>2. jobs'[i].data.urls = {} /\ jobs'[i].data.name = mails[i - Len(jobs)].name
      BY <1>6, <2>1
  <2>3. ASSUME jobs'[i].data.name = Farewell
        PROVE  e.name = "USER_ACCOUNT_DELETED" /\ i = Len(jobs) + 1
    <3>1. e.name = "USER_ACCOUNT_DELETED"
        BY <1>4, <2>1, <2>2, <2>3 DEF MailOK
    <3>2. Len(mails) <= 1
        BY <1>1, <3>1 DEF MailsOK
    <3>3. i \in Nat
        BY <1>8, LenProperties DEF Ids
    <3> QED
        BY <1>2, <1>7, <2>1, <3>1, <3>2, <3>3
  <2> QED
      BY <2>2, <2>3
<1>10. Len(jobs') <= MaxJobs
    BY <1>3, <1>8 DEF HasRoomFor
<1> QED
    BY <1>8, <1>9, <1>10 DEF Told

\* An asset job is added for the files of an account that is being deleted.
Queued ==
    /\ jobs' \in Seq(AJob) /\ Len(jobs') <= MaxJobs
    /\ JobsOK' /\ Ids \subseteq Ids'
    /\ \A i \in Ids' : IF i \in Ids THEN jobs'[i] = jobs[i] ELSE jobs'[i].data.name # Farewell

LEMMA AssetJobOK ==
    ASSUME TypeOK, JobsOK, NEW type \in {"document", "image"}, NEW urls \in SUBSET Files,
           HasRoomFor(1), jobs' = Append(jobs, AssetJob(type, urls))
    PROVE  Queued
<1> DEFINE data == [name |-> type, to |-> Nobody, urls |-> urls]
           j == AssetJob(type, urls)
<1>1. j = NewJob("recruitment-asset-queue", data) /\ data \in Data
    BY DEF AssetJob, Data, JobNames
<1>2. j \in AJob /\ CountsOK(j)
    BY <1>1, NewJobOK
<1>3. j.queue = "recruitment-asset-queue" /\ j.data.name = type
    BY <1>1 DEF NewJob
<1>4. ContentOK(j)
    BY <1>3 DEF ContentOK, IsMail, Farewell
<1>5. jobs \in Seq(AJob) /\ Len(jobs) \in Nat
    BY LenProperties DEF TypeOK, AJob
<1> HIDE DEF j, data
<1>6. /\ <<j>> \in Seq(AJob) /\ Len(<<j>>) = 1 /\ \A k \in 1..1 : <<j>>[k] = j
    BY <1>2
<1>7. jobs' = jobs \o <<j>>
    BY <1>2, <1>5, AppendIsConcat DEF j
<1>8. /\ jobs' \in Seq(AJob) /\ Len(jobs') = Len(jobs) + 1 /\ JobsOK' /\ Ids \subseteq Ids'
      /\ \A i \in Ids' : IF i \in Ids THEN jobs'[i] = jobs[i]
                         ELSE i - Len(jobs) \in 1..1 /\ jobs'[i] = <<j>>[i - Len(jobs)]
    BY <1>2, <1>4, <1>5, <1>6, <1>7, MoreJobs DEF JobOK
<1>9. \A i \in Ids' : i \notin Ids => jobs'[i].data.name # Farewell
    BY <1>3, <1>6, <1>8 DEF Farewell
<1> QED
    BY <1>8, <1>9 DEF Queued, HasRoomFor

-----------------------------------------------------------------------------
(* Types and jobs.                                                          *)

Uploads == req.op = "uploadDocument" => req.file \in Documents

Typed == TypeOK /\ JobsOK /\ Uploads

LEMMA TypedFacts ==
    ASSUME Typed
    PROVE  /\ jobs \in Seq(AJob) /\ Len(jobs) <= MaxJobs /\ JobsOK
           /\ handlers \subseteq Event /\ crashes \in 0..MaxCrashes
           /\ docs \subseteq Documents /\ applied \subseteq Documents /\ logo \in BOOLEAN
           /\ files \subseteq Files /\ role \in Roles
           /\ req \in [op: {"idle", "uploadDocument", "uploadLogo"}, file: Files]
           /\ req.op = "uploadDocument" => req.file \in Documents
           /\ erasers \in [Erasers -> {"idle", "loaded", "cleaned"}]
BY DEF Typed, TypeOK, AJob, Uploads

\* The events that this module publishes.
LEMMA PublishType ==
    ASSUME Typed, NEW e \in Event, Publish(e) PROVE handlers' \subseteq Event
BY TypedFacts DEF Publish

LEMMA EventTypes ==
    /\ On("USER_ACCOUNT_DELETION_SCHEDULED", Owner, Nobody) \in Event
    /\ On("USER_ACCOUNT_RESTORED", Owner, Nobody) \in Event
    /\ Deletion \in Event
    /\ On("JOB_APPLICATION_SUBMITTED", Owner, Partner) \in Event
BY DEF Deletion, On, Event, IamEvents, RecruitmentEvents

\* The jobs stay, or are only reworked.
LEMMA SameJobs ==
    ASSUME Typed, UNCHANGED jobs
    PROVE  jobs' \in Seq(AJob) /\ Len(jobs') <= MaxJobs /\ JobsOK' /\ Ids' = Ids
<1>1. Ids' = Ids
    BY DEF Ids
<1> QED
    BY <1>1, TypedFacts DEF JobsOK

LEMMA ReworkedJobs ==
    ASSUME Typed, Reworked PROVE jobs' \in Seq(AJob) /\ Len(jobs') <= MaxJobs /\ Ids' = Ids
BY TypedFacts, LenProperties DEF Reworked, Ids

LEMMA LifeTyped == ASSUME Typed, Life PROVE Typed'
<1>1. CASE Schedule
    BY <1>1, SameJobs, PublishType, EventTypes DEF Schedule, Typed, TypeOK, AJob, Uploads, owned
<1>2. CASE BecomeDue
    BY <1>2, SameJobs DEF BecomeDue, Typed, TypeOK, AJob, Uploads, owned
<1>3. CASE Restore
    BY <1>3, SameJobs, PublishType, EventTypes DEF Restore, Typed, TypeOK, AJob, Uploads, owned
<1> QED
    BY <1>1, <1>2, <1>3 DEF Life

\* What the cleanup does to the queue: a job for files of one type, or nothing.
LEMMA CleanUpJobs ==
    ASSUME Typed, NEW p \in Erasers, CleanUp(p) PROVE Queued \/ UNCHANGED jobs
<1> DEFINE type == IF role = "APPLICANT" THEN "document" ELSE "image"
<1>1. type \in {"document", "image"} /\ FilesToClean \in SUBSET Files
    BY TypedFacts DEF FilesToClean
<1>2. \/ HasRoomFor(1) /\ jobs' = Append(jobs, AssetJob(type, FilesToClean))
      \/ UNCHANGED jobs
    BY DEF CleanUp
<1> HIDE DEF type
<1> QED
    BY <1>1, <1>2, AssetJobOK DEF Typed

LEMMA EraseTyped ==
    ASSUME Typed, NEW p \in Erasers,
           EraseLoad(p) \/ CleanUp(p) \/ EraseRow(p) \/ EraseFails(p)
    PROVE  Typed'
<1>1. CASE EraseLoad(p)
    BY <1>1, SameJobs DEF EraseLoad, Typed, TypeOK, AJob, Uploads, owned
<1>2. CASE CleanUp(p)
  <2>1. jobs' \in Seq(AJob) /\ Len(jobs') <= MaxJobs /\ JobsOK'
      BY <1>2, CleanUpJobs, SameJobs DEF Queued
  <2> QED
      BY <1>2, <2>1 DEF CleanUp, Typed, TypeOK, AJob, Uploads, owned
<1>3. CASE EraseRow(p)
    BY <1>3, SameJobs, PublishType, EventTypes DEF EraseRow, Typed, TypeOK, AJob, Uploads, Deletion
<1>4. CASE EraseFails(p)
    BY <1>4, SameJobs DEF EraseFails, Typed, TypeOK, AJob, Uploads, owned
<1> QED
    BY <1>1, <1>2, <1>3, <1>4

LEMMA WorkTyped == ASSUME Typed, Work PROVE Typed'
<1>1. ASSUME NEW d \in Documents, UploadDocument(d) PROVE Typed'
    BY <1>1, SameJobs DEF UploadDocument, Typed, TypeOK, AJob, Uploads, owned
<1>2. ASSUME NEW d \in Documents, Apply(d) PROVE Typed'
    BY <1>2, SameJobs, PublishType, EventTypes DEF Apply, Typed, TypeOK, AJob, Uploads
<1>3. CASE SaveDocument
    BY <1>3, TypedFacts, SameJobs DEF SaveDocument, Typed, TypeOK, AJob, Uploads, Idle
<1>4. CASE SaveDocumentUnacknowledged
    BY <1>4, TypedFacts, SameJobs DEF SaveDocumentUnacknowledged, Typed, TypeOK, AJob, Uploads,
       Idle
<1>9. CASE SaveDocumentFails
    BY <1>9, SameJobs DEF SaveDocumentFails, Typed, TypeOK, AJob, Uploads, owned, Idle
<1>5. CASE UploadLogo
    BY <1>5, SameJobs DEF UploadLogo, Typed, TypeOK, AJob, Uploads, owned
<1>6. CASE UploadLogoFails
    BY <1>6, SameJobs DEF UploadLogoFails, Typed, TypeOK, AJob, Uploads, owned
<1>7. CASE SaveLogo
    BY <1>7, SameJobs DEF SaveLogo, Typed, TypeOK, AJob, Uploads, Idle
<1>8. CASE RemoveLogo
    BY <1>8, SameJobs DEF RemoveLogo, Typed, TypeOK, AJob, Uploads
<1> QED
    BY <1>1, <1>2, <1>3, <1>4, <1>5, <1>6, <1>7, <1>8, <1>9 DEF Work

LEMMA ListenTyped ==
    ASSUME Typed, NEW e \in handlers, Listen(e) PROVE Typed'
<1>1. jobs' \in Seq(AJob) /\ Len(jobs') <= MaxJobs /\ JobsOK'
    BY HandleOK DEF Listen, Typed, Told
<1>2. handlers' \subseteq Event
    BY TypedFacts DEF Listen, Handle
<1> QED
    BY <1>1, <1>2 DEF Listen, Typed, TypeOK, AJob, Uploads, owned

\* Every job that a worker runs is known to it.
LEMMA SendMailOK ==
    ASSUME Typed, NEW i \in Ids, SendMail(i) PROVE Complete(i) \/ Throw(i, TRUE)
<1>1. Knows(jobs[i].queue, jobs[i].data.name)
    BY DEF SendMail, Typed, JobsOK, JobOK, ContentOK, IsMail
<1> QED
    BY <1>1 DEF SendMail

LEMMA RunReworks ==
    ASSUME Typed, NEW i \in Ids, Run(i) PROVE Reworked /\ JobsOK'
<1>1. Take(i) \/ Complete(i) \/ Throw(i, TRUE)
    BY SendMailOK DEF Run, TakeJob, RunMail, DestroyAssets
<1> QED
    BY <1>1, TypedFacts, TakeOK, CompleteOK, ThrowOK

LEMMA RunTyped == ASSUME Typed, NEW i \in Ids, Run(i) PROVE Typed'
<1>1. jobs' \in Seq(AJob) /\ Len(jobs') <= MaxJobs /\ JobsOK'
    BY RunReworks, ReworkedJobs
<1>2. CASE TakeJob(i) \/ RunMail(i)
    BY <1>1, <1>2 DEF TakeJob, RunMail, Typed, TypeOK, AJob, Uploads, owned
<1>3. CASE DestroyAssets(i)
    BY <1>1, <1>3 DEF DestroyAssets, Typed, TypeOK, AJob, Uploads, owned
<1> QED
    BY <1>2, <1>3 DEF Run

LEMMA CrashTyped == ASSUME Typed, Crash PROVE Typed' /\ Reworked
<1>1. Reworked /\ JobsOK'
    BY TypedFacts, StalledOK DEF Crash
<1>2. jobs' \in Seq(AJob) /\ Len(jobs') <= MaxJobs
    BY <1>1, ReworkedJobs
<1>3. crashes' \in 0..MaxCrashes /\ files' \subseteq Files /\ handlers' = {}
    BY TypedFacts DEF Crash
<1>4. /\ req' \in [op: {"idle", "uploadDocument", "uploadLogo"}, file: Files]
      /\ Uploads'
    BY DEF Crash, Idle, Uploads
<1>5. erasers' \in [Erasers -> {"idle", "loaded", "cleaned"}]
    BY DEF Crash
<1> QED
    BY <1>1, <1>2, <1>3, <1>4, <1>5 DEF Crash, Typed, TypeOK, AJob, owned

\* The strengthened type invariant: the jobs in the queue are ones that their workers
\* know, with a count of refusals for each run that threw.
THEOREM TypedInvariant == Spec => []Typed
<1>1. Init => Typed
  <2> SUFFICES ASSUME Init PROVE Typed
      OBVIOUS
  <2>1. jobs \in Seq(AJob) /\ Len(jobs) <= MaxJobs /\ Ids = {}
      BY DEF Init, Ids
  <2>2. JobsOK
      BY <2>1 DEF JobsOK
  <2>3. req \in [op: {"idle", "uploadDocument", "uploadLogo"}, file: Files] /\ Uploads
      BY DEF Init, Idle, Uploads
  <2>4. crashes \in 0..MaxCrashes /\ files \subseteq Files
      BY DEF Init
  <2> QED
      BY <2>1, <2>2, <2>3, <2>4 DEF Init, Typed, TypeOK, AJob
<1>2. Typed /\ [Next]_vars => Typed'
  <2> SUFFICES ASSUME Typed, [Next]_vars PROVE Typed'
      OBVIOUS
  <2>1. CASE Life \/ Work \/ Crash
      BY <2>1, LifeTyped, WorkTyped, CrashTyped
  <2>2. CASE Erase
      BY <2>2, EraseTyped DEF Erase
  <2>3. CASE \E e \in handlers : Listen(e)
      BY <2>3, ListenTyped
  <2>4. CASE \E i \in Ids : Run(i)
      BY <2>4, RunTyped
  <2>5. CASE UNCHANGED vars
      BY <2>5, SameJobs DEF vars, owned, Typed, TypeOK, AJob, Uploads
  <2> QED
      BY <2>1, <2>2, <2>3, <2>4, <2>5 DEF Next
<1> QED
    BY <1>1, <1>2, PTL DEF Spec

\* Every variable has its type.
THEOREM ErasureTypes == Spec => []TypeOK
<1>1. Typed => TypeOK
    BY DEF Typed
<1> QED
    BY <1>1, TypedInvariant, PTL

\* A mail is given up only after the provider refused it as often as the queue tries,
\* or after the worker died too often.
THEOREM GivenUpInvariant == Spec => []GivenUpWhenRefused
<1>1. Typed => GivenUpWhenRefused
    BY DEF Typed, JobsOK, JobOK, CountsOK, GivenUpWhenRefused, InState
<1> QED
    BY <1>1, TypedInvariant, PTL

-----------------------------------------------------------------------------
(* The farewell.                                                            *)

\* The account is there, or its deletion is about to be told, or one farewell is queued.
Parting ==
    /\ \A e \in handlers : e.name = "USER_ACCOUNT_DELETED" => e = Deletion /\ ~Exists
    /\ Deletion \in handlers => Farewells = {}
    /\ Farewells # {} => ~Exists
    /\ \A i, k \in Farewells : i = k

LEMMA FarewellsAre ==
    ASSUME Typed, Reworked \/ Queued \/ UNCHANGED jobs PROVE Farewells' = Farewells
<1> USE DEF Farewells, Farewell
<1>1. CASE Reworked
    BY <1>1, ReworkedJobs DEF Reworked
<1>2. CASE Queued
    BY <1>2 DEF Queued
<1>3. CASE UNCHANGED jobs
    BY <1>3 DEF Ids
<1> QED
    BY <1>1, <1>2, <1>3

\* Nothing new is told of a deletion, and no farewell is queued.
LEMMA PartingFrame ==
    ASSUME Typed, Parting, Reworked \/ Queued \/ UNCHANGED jobs,
           \A e \in handlers' : e.name = "USER_ACCOUNT_DELETED" => e \in handlers,
           Exists' => Exists
    PROVE  Parting'
BY FarewellsAre DEF Parting, Exists, Deletion, On

LEMMA LifeParts == ASSUME Typed, Parting, Life PROVE Parting'
<1>1. Exists' = Exists /\ UNCHANGED jobs
    BY DEF Life, Schedule, BecomeDue, Restore, Exists
<1>2. \A e \in handlers' : e.name = "USER_ACCOUNT_DELETED" => e \in handlers
    BY DEF Life, Schedule, BecomeDue, Restore, Publish, On
<1> QED
    BY <1>1, <1>2, PartingFrame

LEMMA WorkParts == ASSUME Typed, Parting, Work PROVE Parting'
<1>1. Exists' = Exists /\ UNCHANGED jobs
    BY DEF Work, UploadDocument, Apply, SaveDocument, SaveDocumentUnacknowledged,
           SaveDocumentFails, UploadLogo, UploadLogoFails, SaveLogo, RemoveLogo, Exists
<1>2. \A e \in handlers' : e.name = "USER_ACCOUNT_DELETED" => e \in handlers
    BY DEF Work, UploadDocument, Apply, SaveDocument, SaveDocumentUnacknowledged,
           SaveDocumentFails, UploadLogo, UploadLogoFails, SaveLogo, RemoveLogo, Publish, On
<1> QED
    BY <1>1, <1>2, PartingFrame

\* A row is deleted once, and then the deletion is told, if the database answers.
LEMMA EraseRowParts ==
    ASSUME Typed, Parting, NEW p \in Erasers, EraseRow(p) PROVE Parting'
<1>1. Farewells' = Farewells /\ Exists /\ ~Exists'
    BY FarewellsAre DEF EraseRow, Exists
<1>2. handlers' \in {handlers, handlers \cup {Deletion}}
    BY DEF EraseRow, Publish, Deletion
<1>3. Farewells = {} /\ \A e \in handlers : e.name # "USER_ACCOUNT_DELETED"
    BY <1>1 DEF Parting
<1> QED
    BY <1>1, <1>2, <1>3 DEF Parting

LEMMA EraseParts ==
    ASSUME Typed, Parting, NEW p \in Erasers,
           EraseLoad(p) \/ CleanUp(p) \/ EraseRow(p) \/ EraseFails(p)
    PROVE  Parting'
<1>1. CASE EraseLoad(p) \/ EraseFails(p)
    BY <1>1, PartingFrame DEF EraseLoad, EraseFails, Exists
<1>2. CASE CleanUp(p)
    BY <1>2, CleanUpJobs, PartingFrame DEF CleanUp, Exists
<1>3. CASE EraseRow(p)
    BY <1>3, EraseRowParts
<1> QED
    BY <1>1, <1>2, <1>3

\* The listener of the deletion queues the one farewell, or loses it.
LEMMA ListenParts ==
    ASSUME Typed, Parting, NEW e \in handlers, Listen(e) PROVE Parting'
<1>1. handlers' = handlers \ {e} /\ Exists' = Exists
    BY DEF Listen, Handle, Exists
<1>2. Told(e)
    BY HandleOK DEF Listen, Typed
<1>3. Ids \subseteq Ids' /\ \A i \in Ids : jobs'[i] = jobs[i]
    BY <1>2 DEF Told
<1>4. CASE e.name # "USER_ACCOUNT_DELETED"
  <2>1. Farewells' = Farewells
      BY <1>2, <1>3, <1>4 DEF Told, Farewells, Farewell
  <2> QED
      BY <1>1, <2>1 DEF Parting
<1>5. CASE e.name = "USER_ACCOUNT_DELETED"
  <2>1. e = Deletion /\ ~Exists /\ Farewells = {} /\ Deletion \notin handlers'
      BY <1>1, <1>5 DEF Parting
  <2>2. \A i \in Farewells' : i = Len(jobs) + 1
      BY <1>2, <1>3, <2>1 DEF Told, Farewells, Farewell
  <2> QED
      BY <1>1, <2>1, <2>2 DEF Parting
<1> QED
    BY <1>4, <1>5

LEMMA PartingStep == ASSUME Typed, Parting, [Next]_vars PROVE Parting'
<1>1. CASE Life \/ Work
    BY <1>1, LifeParts, WorkParts
<1>2. CASE Erase
    BY <1>2, EraseParts DEF Erase
<1>3. CASE \E e \in handlers : Listen(e)
    BY <1>3, ListenParts
<1>4. ASSUME NEW i \in Ids, Run(i) PROVE Parting'
  <2>1. UNCHANGED <<handlers, account>>
      BY <1>4 DEF Run, TakeJob, RunMail, DestroyAssets
  <2> QED
      BY <1>4, <2>1, RunReworks, PartingFrame DEF Exists
<1>5. CASE Crash
  <2>1. handlers' = {} /\ account' = account
      BY <1>5 DEF Crash
  <2> QED
      BY <1>5, <2>1, CrashTyped, PartingFrame DEF Exists
<1>6. CASE UNCHANGED vars
    BY <1>6, PartingFrame DEF vars, Exists
<1> QED
    BY <1>1, <1>2, <1>3, <1>4, <1>5, <1>6 DEF Next

\* The farewell is queued once, and never while the account is there, however the two
\* erasers overlap, fail and die with the process.
THEOREM FarewellInvariant == Spec => []FarewellOnce
<1>1. Init => Parting
    BY DEF Init, Parting, Farewells, Ids
<1>2. Parting => FarewellOnce
  <2> SUFFICES ASSUME Parting PROVE FarewellOnce
      OBVIOUS
  <2>1. CASE Farewells = {}
      BY <2>1, FS_EmptySet DEF FarewellOnce
  <2>2. CASE Farewells # {}
    <3>1. PICK i \in Farewells : Farewells = {i}
        BY <2>2 DEF Parting
    <3>2. Cardinality(Farewells) = 1
        BY <3>1, FS_Singleton
    <3> QED
        BY <2>2, <3>2 DEF Parting, FarewellOnce
  <2> QED
      BY <2>1, <2>2
<1> QED
    BY <1>1, <1>2, PartingStep, TypedInvariant, PTL DEF Spec

-----------------------------------------------------------------------------
(* The files.                                                               *)

\* As long as no deletion was started, no job names a file, nobody is erasing, and
\* the file of an upload in flight is stored and not listed.
Kept ==
    ~ending =>
        /\ docs \ undone \subseteq files
        /\ \A p \in Erasers : erasers[p] = "idle"
        /\ \A i \in Ids : jobs[i].data.urls = {}
        /\ req.op = "uploadDocument" => req.file \in files \ docs

LEMMA KeptFrame ==
    ASSUME Kept, UNCHANGED <<jobs, docs, undone, files, req, erasers>>, ending => ending'
    PROVE  Kept'
BY DEF Kept, Ids

LEMMA LifeKeeps == ASSUME Kept, Life PROVE Kept'
BY KeptFrame DEF Life, Schedule, BecomeDue, Restore, owned

\* A deletion that is loaded has started.
LEMMA EraseKeeps ==
    ASSUME Typed, Kept, NEW p \in Erasers,
           EraseLoad(p) \/ CleanUp(p) \/ EraseRow(p) \/ EraseFails(p)
    PROVE  Kept'
<1>1. CASE EraseLoad(p)
  <2>1. ending'
      BY <1>1 DEF EraseLoad, PendingDeletion, Erasers
  <2> QED
      BY <2>1 DEF Kept
<1>2. CASE CleanUp(p) \/ EraseRow(p) \/ EraseFails(p)
  <2>1. ending /\ ending' = ending
      BY <1>2 DEF CleanUp, EraseRow, EraseFails, Kept
  <2> QED
      BY <2>1 DEF Kept
<1> QED
    BY <1>1, <1>2

LEMMA WorkKeeps == ASSUME Typed, Kept, Work PROVE Kept'
<1>1. UNCHANGED <<jobs, erasers, ending>> /\ Ids' = Ids
    BY DEF Work, UploadDocument, Apply, SaveDocument, SaveDocumentUnacknowledged,
           SaveDocumentFails, UploadLogo, UploadLogoFails, SaveLogo, RemoveLogo, Ids
<1>2. docs \subseteq Documents /\ Logo \notin docs
    BY TypedFacts
<1>3. ASSUME NEW d \in Documents, UploadDocument(d) PROVE Kept'
    BY <1>1, <1>3 DEF UploadDocument, Kept, owned
<1>4. ASSUME NEW d \in Documents, Apply(d) PROVE Kept'
    BY <1>1, <1>4 DEF Apply, Kept
<1>5. CASE SaveDocument \/ SaveDocumentUnacknowledged \/ SaveDocumentFails
    BY <1>1, <1>5 DEF SaveDocument, SaveDocumentUnacknowledged, SaveDocumentFails, Kept, owned, Idle
<1>6. CASE UploadLogo \/ UploadLogoFails
    BY <1>1, <1>2, <1>6 DEF UploadLogo, UploadLogoFails, IsEmployer, Kept, owned, Idle
<1>7. CASE SaveLogo \/ RemoveLogo
    BY <1>1, <1>2, <1>7 DEF SaveLogo, RemoveLogo, IsEmployer, Kept, Idle
<1> QED
    BY <1>3, <1>4, <1>5, <1>6, <1>7 DEF Work

LEMMA ListenKeeps == ASSUME Typed, Kept, NEW e \in handlers, Listen(e) PROVE Kept'
<1>1. Told(e)
    BY HandleOK DEF Listen, Typed
<1>2. docs' = docs /\ undone' = undone /\ req' = req /\ erasers' = erasers /\ ending' = ending
    BY DEF Listen, owned
<1>3. files \ {Avatar} \subseteq files'
    BY DEF Listen
<1>4. Avatar \notin docs /\ (req.op = "uploadDocument" => req.file # Avatar)
    BY TypedFacts
<1>5. ~ending => \A i \in Ids' : jobs'[i].data.urls = {}
    BY <1>1 DEF Told, Kept
<1> QED
    BY <1>2, <1>3, <1>4, <1>5 DEF Kept

LEMMA RunKeeps == ASSUME Typed, Kept, NEW i \in Ids, Run(i) PROVE Kept'
<1>1. /\ docs' = docs /\ undone' = undone /\ req' = req /\ erasers' = erasers
      /\ ending' = ending /\ files \ jobs[i].data.urls \subseteq files'
    BY DEF Run, TakeJob, RunMail, DestroyAssets, owned
<1>2. Ids' = Ids /\ \A k \in Ids : jobs'[k].data = jobs[k].data
    BY RunReworks, ReworkedJobs DEF Reworked
<1> QED
    BY <1>1, <1>2 DEF Kept

LEMMA CrashKeeps == ASSUME Typed, Kept, Crash PROVE Kept'
<1>1. /\ docs' = docs /\ undone' = undone /\ req' = Idle /\ ending' = ending
      /\ \A p \in Erasers : erasers'[p] = "idle"
    BY DEF Crash, owned
<1>2. Ids' = Ids /\ \A k \in Ids : jobs'[k].data = jobs[k].data
    BY CrashTyped, ReworkedJobs DEF Reworked
<1>3. ~ending => files' = files
  <2>1. PICK done \in SUBSET UNION {jobs[i].data.urls : i \in {k \in Ids : InState(k, "active")}} :
            files' = files \ done
      BY DEF Crash
  <2>2. ~ending => done = {}
      BY <2>1 DEF Kept
  <2> QED
      BY <2>1, <2>2
<1> QED
    BY <1>1, <1>2, <1>3 DEF Kept, Idle

\* Until a deletion starts, every listed document has its file, unless its own upload was
\* saved without an answer and undone: no job, no listener, no crash takes it.
THEOREM FilesKeptInvariant == Spec => []FilesKept
<1>1. Init => Kept
    BY DEF Init, Kept, Ids, Idle
<1>2. Typed /\ Kept /\ [Next]_vars => Kept'
  <2> SUFFICES ASSUME Typed, Kept, [Next]_vars PROVE Kept'
      OBVIOUS
  <2>1. CASE Life \/ Work \/ Crash
      BY <2>1, LifeKeeps, WorkKeeps, CrashKeeps
  <2>2. CASE Erase
      BY <2>2, EraseKeeps DEF Erase
  <2>3. CASE \E e \in handlers : Listen(e)
      BY <2>3, ListenKeeps
  <2>4. CASE \E i \in Ids : Run(i)
      BY <2>4, RunKeeps
  <2>5. CASE UNCHANGED vars
      BY <2>5, KeptFrame DEF vars, owned
  <2> QED
      BY <2>1, <2>2, <2>3, <2>4, <2>5 DEF Next
<1>3. Kept => FilesKept
    BY DEF Kept, FilesKept
<1> QED
    BY <1>1, <1>2, <1>3, TypedInvariant, PTL DEF Spec

=============================================================================
