------------------------------ MODULE Notifications ------------------------------
(***************************************************************************)
(* From a domain event to the email that it causes.  EventEmitter2 starts   *)
(* the listeners in memory and publishers do not depend on them; a listener *)
(* catches every error, so what it could not add to the queue is lost.      *)
(* Listeners of IAM take the address from the event.  Those of recruitment  *)
(* read the rows of all persons concerned again and say nothing when one is *)
(* missing.  With the queue a mail survives; without Redis there is none,   *)
(* which is not modelled.                                                   *)
(***************************************************************************)
EXTENDS JobQueue, FiniteSets, DomainEvents

CONSTANTS
    Persons,     \* one person stands for all addresses of theirs
    Nobody,
    Files,       \* the public ids in the store of files
    MaxPending,  \* bound of the model: listeners in progress
    MaxCrashes,  \* bound of the model
    Faulty       \* whether calls of outside services may fail

ASSUME NotificationAssumption ==
    /\ Queues = {"iam-email", "recruitment-email", "recruitment-asset-queue"}
    /\ Nobody \notin Persons
    /\ MaxPending \in Nat /\ MaxCrashes \in Nat
    /\ Faulty \in BOOLEAN

VARIABLES
    handlers,  \* listeners that have been started and have not finished
    crashes    \* how often the process died

IamEvents ==
    {"USER_REGISTERED", "VERIFICATION_EMAIL_RESENT", "PASSWORD_RESET_REQUESTED",
     "EMAIL_CHANGE_REQUESTED", "USER_EMAIL_VERIFIED", "USER_EMAIL_CHANGED",
     "USER_PASSWORD_CHANGED", "USER_MFA_ENABLED", "USER_MFA_DISABLED",
     "USER_ACCOUNT_DELETION_SCHEDULED", "USER_ACCOUNT_RESTORED", "USER_ACCOUNT_DELETED"}
RecruitmentEvents ==
    {"APPLICANT_PROFILE_CREATED", "EMPLOYER_PROFILE_CREATED", "JOB_LISTING_CREATED",
     "JOB_LISTING_CLOSED", "JOB_APPLICATION_SUBMITTED", "JOB_APPLICATION_STATUS_UPDATED",
     "JOB_APPLICATION_WITHDRAWN"}

\* Every listener listens to an event that exists, and finds in the event what it
\* needs: an address, or the ids of the rows to read.
ASSUME ListenerAssumption ==
    /\ IamEvents \cup RecruitmentEvents \subseteq EventNames
    /\ \A name \in IamEvents : Payload[name] \cap {"email", "oldEmail"} # {}
    /\ \A name \in RecruitmentEvents : Payload[name] \cap {"applicantId", "employerId"} # {}

\* who is the person the event is about: for an event of an application its
\* applicant, and then other is the employer.
Event == [name: IamEvents \cup RecruitmentEvents, who: Persons, other: Persons \cup {Nobody}]

On(name, who, other) == [name |-> name, who |-> who, other |-> other]

-----------------------------------------------------------------------------
(* The mails of each listener.                                              *)

Mail(queue, name, to) == [queue |-> queue, name |-> name, to |-> to]

IamMail(name, e) == <<Mail("iam-email", name, e.who)>>

UserRegistered(e) == IamMail("send-verification", e)
VerificationEmailResent(e) == IamMail("send-verification", e)
PasswordResetRequested(e) == IamMail("send-password-reset", e)
EmailChangeRequested(e) == IamMail("send-change-email", e)
UserEmailVerified(e) == IamMail("send-welcome-email", e)
UserEmailChanged(e) == IamMail("send-email-changed-alert", e)
UserPasswordChanged(e) == IamMail("send-password-changed-alert", e)
UserMfaEnabled(e) == IamMail("send-mfa-enabled-alert", e)
UserMfaDisabled(e) == IamMail("send-mfa-disabled-alert", e)
UserAccountDeletionScheduled(e) == IamMail("send-account-deletion-scheduled", e)
\* Mutation: the mail goes to the queue of the other context.
UserAccountRestoredMisqueued(e) ==
    <<Mail("recruitment-email", "send-account-restored", e.who)>>
UserAccountRestored(e) == IamMail("send-account-restored", e)
UserAccountDeleted(e) == IamMail("send-farewell-email", e)

RecruitmentMail(name, to) == <<Mail("recruitment-email", name, to)>>

ApplicantProfileCreated(e) == RecruitmentMail("send-applicant-welcome", e.who)
EmployerProfileCreated(e) == RecruitmentMail("send-employer-welcome", e.who)
JobListingCreated(e) == RecruitmentMail("send-job-created", e.who)
JobListingClosed(e) == RecruitmentMail("send-job-closed", e.who)
JobApplicationSubmitted(e) ==
    RecruitmentMail("send-application-submitted", e.who)
    \o RecruitmentMail("send-application-received", e.other)
JobApplicationStatusUpdated(e) ==
    RecruitmentMail("send-application-status-updated", e.who)
JobApplicationWithdrawn(e) == RecruitmentMail("send-application-withdrawn", e.other)

\* The mails of an event, in the order in which its listener adds them.
Mails(e) ==
    CASE e.name = "USER_REGISTERED" -> UserRegistered(e)
      [] e.name = "VERIFICATION_EMAIL_RESENT" -> VerificationEmailResent(e)
      [] e.name = "PASSWORD_RESET_REQUESTED" -> PasswordResetRequested(e)
      [] e.name = "EMAIL_CHANGE_REQUESTED" -> EmailChangeRequested(e)
      [] e.name = "USER_EMAIL_VERIFIED" -> UserEmailVerified(e)
      [] e.name = "USER_EMAIL_CHANGED" -> UserEmailChanged(e)
      [] e.name = "USER_PASSWORD_CHANGED" -> UserPasswordChanged(e)
      [] e.name = "USER_MFA_ENABLED" -> UserMfaEnabled(e)
      [] e.name = "USER_MFA_DISABLED" -> UserMfaDisabled(e)
      [] e.name = "USER_ACCOUNT_DELETION_SCHEDULED" -> UserAccountDeletionScheduled(e)
      [] e.name = "USER_ACCOUNT_RESTORED" -> UserAccountRestored(e)
      [] e.name = "USER_ACCOUNT_DELETED" -> UserAccountDeleted(e)
      [] e.name = "APPLICANT_PROFILE_CREATED" -> ApplicantProfileCreated(e)
      [] e.name = "EMPLOYER_PROFILE_CREATED" -> EmployerProfileCreated(e)
      [] e.name = "JOB_LISTING_CREATED" -> JobListingCreated(e)
      [] e.name = "JOB_LISTING_CLOSED" -> JobListingClosed(e)
      [] e.name = "JOB_APPLICATION_SUBMITTED" -> JobApplicationSubmitted(e)
      [] e.name = "JOB_APPLICATION_STATUS_UPDATED" -> JobApplicationStatusUpdated(e)
      [] e.name = "JOB_APPLICATION_WITHDRAWN" -> JobApplicationWithdrawn(e)

\* The cases of IamEmailProcessor.process and RecruitmentEmailProcessor.process.
IamNames ==
    {"send-verification", "send-password-reset", "send-change-email",
     "send-password-changed-alert", "send-email-changed-alert", "send-welcome-email",
     "send-farewell-email", "send-account-deletion-scheduled", "send-account-restored",
     "send-mfa-enabled-alert", "send-mfa-disabled-alert"}
RecruitmentNames ==
    {"send-employer-welcome", "send-job-created", "send-job-closed",
     "send-applicant-welcome", "send-application-submitted", "send-application-received",
     "send-application-status-updated", "send-application-withdrawn"}

Knows(queue, name) ==
    \/ queue = "iam-email" /\ name \in IamNames
    \/ queue = "recruitment-email" /\ name \in RecruitmentNames

-----------------------------------------------------------------------------
JobNames == IamNames \cup RecruitmentNames \cup {"document", "image"}
Data == [name: JobNames, to: Persons \cup {Nobody}, urls: SUBSET Files]

MailJob(m) == NewJob(m.queue, [name |-> m.name, to |-> m.to, urls |-> {}])

\* A set of files of one type, which a job will destroy.
AssetJob(type, urls) ==
    NewJob("recruitment-asset-queue", [name |-> type, to |-> Nobody, urls |-> urls])

\* Whether a call of an outside service works.
Outcomes == IF Faulty THEN BOOLEAN ELSE {TRUE}

HasRoomFor(n) == Len(jobs) + n <= MaxJobs

\* Recruitment listeners need the rows of everyone concerned.
MayTell(e, present) ==
    e.name \in RecruitmentEvents => {e.who, e.other} \ {Nobody} \subseteq present

\* A listener runs.  When it cannot add a mail the rest are not added either.
Handle(e, present) ==
    /\ e \in handlers
    /\ handlers' = handlers \ {e}
    /\ LET mails == IF MayTell(e, present) THEN Mails(e) ELSE <<>>
       IN  \E n \in (IF Faulty THEN 0..Len(mails) ELSE {Len(mails)}) :
              /\ HasRoomFor(n)
              /\ jobs' = jobs \o [k \in 1..n |-> MailJob(mails[k])]

\* Mutation: a refused mail is put back to be sent later, without an end.
SendMailForEver(i) ==
    /\ jobs[i].queue # "recruitment-asset-queue"
    /\ InState(i, "active")
    /\ \E accepted \in Outcomes :
          jobs' = [jobs EXCEPT ![i].state = IF accepted THEN "completed" ELSE "waiting"]

\* An email processor runs the active job of its queue.
SendMail(i) ==
    /\ jobs[i].queue # "recruitment-asset-queue"
    /\ \E accepted \in Outcomes :
          LET known == Knows(jobs[i].queue, jobs[i].data.name)
          IN  IF known /\ accepted THEN Complete(i) ELSE Throw(i, known)

-----------------------------------------------------------------------------
\* The provider has the last word: a mail is given up after it refused the mail as
\* often as the queue is told to try, or after the worker died too often, and never
\* because a listener named a job that no processor knows or sent it to the wrong
\* queue.
GivenUpWhenRefused ==
    \A i \in Ids : InState(i, "failed") =>
        jobs[i].refused = Attempts[jobs[i].queue] \/ jobs[i].stalled > MaxStalled

=============================================================================
