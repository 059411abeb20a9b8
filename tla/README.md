# HireSync: a formal model of the server

HireSync is a NestJS server for a recruitment platform.  This directory holds
TLA+ modules that model its core logic, TLC configurations that check them on
small instances, and TLAPS proofs of the properties that matter most.  Paths
below are relative to the repository root; `iam/`, `recruitment/`, `system/`
and `shared/` stand for the directories of that name under `src/src/`.

## The system

All contexts run in one Node process.  Handlers interleave at every `await`;
between two awaits a handler runs alone.  A database save is one SQL
transaction; a load is several SELECTs outside one.  Nothing serialises two
requests for one row: there is no lock and, outside applicant profiles, no
version check.

### IAM

| Part | State | Operations | What is hard |
|---|---|---|---|
| User aggregate (`iam/domain/entities`, `value-objects`) | password hash, verification and reset token, failed-login state, MFA configuration, sessions, OAuth accounts, deletion date | the methods of `User`, `Account`, `Session`, `MfaConfiguration`, `FailedLoginState` | boundaries of expiry and of the lock; one token column used by two flows |
| Persistence (`PrismaUserRepository`) | rows of User, Account, Session, OAuthAccount | finders, `save` (upsert of every column and child row), `delete`, `deleteExpiredSessions`, `findPendingDeletions` | a save writes back whatever the copy holds, rows deleted meanwhile included |
| Authentication | none of its own | login, MFA login, OAuth callback, refresh, logout, verify, resend, forgot and reset password, register, restore | awaits of bcrypt and of providers between load and save |
| Account management | none of its own | password, email, profile, avatar, MFA, OAuth links, session revocation | the same |
| Deletion | `scheduledForDeletionAt` | schedule, restore, delete by an administrator, midnight task, 2 a.m. purge of sessions | the task works on a snapshot and crosses into Recruitment |
| Routes and guards | signed JWTs held by clients | three global guards, the decorators of the controllers | an access token outlives its session; which limit counts |
| Notifications | BullMQ queue `iam-email` | twelve listeners, one processor | listeners are not awaited; jobs are named by strings |

What makes it correct: a session that was closed stays closed; a new password
closes the sessions of the old one; failed logins are counted and lock the
account; a one-time token or code is accepted once; a token confirms only the
address it was mailed to; an account keeps a way to sign in; MFA is never on
without a secret; an account is deleted when it is due, not before, and does
not come back.

### Recruitment

| Part | State | Operations | What is hard |
|---|---|---|---|
| Applicant profiles and documents | profile, up to five documents per type, one primary; files in the store | create, edit, upload, delete, set primary | store and row change in separate steps; the optimistic check is a statement apart from the write |
| Job listings | published, closed, expired | create, edit, close, nightly task | the task saves a snapshot over later edits |
| Job applications | status, note, history | apply, withdraw, update, bulk update, note | no guard on transitions; whole-row saves; uniqueness left to an index |
| Employer profiles, saved jobs | one row per employer with a logo; a set per applicant | plain updates; a toggle | the logo's old file goes before the new one is there |
| Cleanup and asset queue | BullMQ queue of files to delete | listener of `UserAccountDeleting`, processor | only files an application refers to are queued; failures are swallowed |
| Notifications | BullMQ queue `recruitment-email` | seven listeners that read rows again, one processor | rows may be gone by then |

What makes it correct: limits and uniqueness hold under overlap, a document has
its file, the history explains the status and never loses an announcement, a
listing that is due leaves the board, and erasing an account leaves no file of
its own behind.

### System and shared

An audit listener (`system/`) appends a record for every domain event.
`shared/` holds the event publisher, the email adapter, the throttler and HTTP
plumbing.  They keep no state that a use case reads.

### How the parts meet

A use case loads the aggregate, changes it, saves it and publishes its domain
events.  Listeners are started in memory and not waited for; they queue emails
and audit records.  Jobs live in Redis and survive the process.  When an
account is to be deleted, IAM publishes the integration event
`UserAccountDeleting` and waits for Recruitment to queue the files before it
deletes the row.

## The modules

| Module | Models | Kind |
|---|---|---|
| `Routes` | every HTTP route with its use case, its access and the limit it declares; the guards | data and predicates |
| `UserAggregate` | the record of an account and every method that changes it | operators |
| `AccountRequests` | the IAM use cases at work on one account: row, requests in flight, clock, tokens clients hold | state machine, uses the two above |
| `SessionLedger` | what session management promises | abstract specification |
| `ApplicantDocuments` | an applicant's profile, its documents, their files | state machine, uses `Routes` |
| `JobBoard` | listings, applications with history, the expiry task | state machine, uses `Routes` |
| `ApplicationTimeline` | what an applicant is promised to read | abstract specification |
| `DomainEvents` | the payload keys of all 40 events | data |
| `AuditLog` | what the audit listener shows of an event, and whom it names | operators |
| `JobQueue` | a BullMQ queue: jobs, attempts, stalled workers | actions for other modules |
| `Notifications` | listeners and email processors of both contexts | actions, extends `JobQueue` and `DomainEvents` |
| `AccountErasure` | the end of one account across both contexts | state machine, extends `Notifications` |
| `MC...` | constants, symmetry and use cases of each run | instances for TLC |
| `AccountRequestsProofs`, `...EmailProofs`, `...SerialProofs`, `...ReachProofs` | theorems about `AccountRequests` | proofs |
| `ApplicantDocumentsProofs`, `JobBoardProofs`, `AccountErasureProofs` | theorems about the module they are named after | proofs |
| `TablesProofs` | theorems about the tables of `AuditLog` and `Routes` | proofs |

`AccountRequests` and `JobBoard` check on every run, by assumptions, that the
use cases they model are those of routes (`UseCaseAssumption`,
`CallerAssumption`), and take from `Routes` which of them want a valid access
token (`Admitted`).  `Notifications` checks that every listener listens to an
event that exists and finds in its payload an address or the ids it reads
(`ListenerAssumption`).

A definition marked "Mutation" is a slip the code could have had; it stands
before the definition it would replace.  No specification uses it: it shows that
the property named with it in `PROJECT.json` would notice.

### AccountRequests

- `db` is the User row with its Account, Session and OAuthAccount rows: the
  record `IamMapper.toDomain` turns into an aggregate.  Zero is null in columns
  that hold a date or a token.  A deleted account is `NoUser`.
- `req[r]` is a request that has loaded the account and not yet finished:
  `op` is its use case, `user` the copy it loaded, `sid` and `arg` the session and
  the token it was called with.
- `now` is `Date.now()`, in units of the shortest duration.
- `handed`, `access` and `challenge` are what clients hold: how many refresh tokens
  each session has been given, when its last access token expires, and when the
  last MFA challenge token expires.
- `accepted` is history: the one-time tokens and codes accepted, and whether a
  second time.  In the row, `under` (the password a session was opened under)
  and `to` (the address a token was mailed to) are history too; no guard reads
  any of them.

A use case is two actions.  `XLoad(r)` makes the checks that come before the load
and starts the finder; `XSave(r)` is the rest of the handler: the checks on the copy
and everything up to and including the save.  A finder with `include` is several
SELECTs under read committed, the User row first and then its Account, Session and
OAuthAccount rows.  `XLoad` reads them all, and `ReadLater(r)` says that one of the
last three was in fact read only now, when another request may have saved.  Rows
that the copy has from different moments may never have stood together: `Assembled`
marks the copy as `torn` unless it is just the row as it is now, and a row saved
from a torn copy carries the mark on.  `torn` is history, and no use case reads it.
What a use case compares with the clock as soon as it has loaded, `ReadLater` asks
again (`InTime`).  Deletions save nothing they loaded, so their slot holds no copy.
The awaits between load and save (bcrypt, JWT signing, an OAuth provider) read no
account state, so other requests may run between the two and nowhere else.  The
clock may advance there too.
`Save` replaces the whole row, since the code writes every column and
deletes child rows that the copy does not have; when the row is gone the same
upsert creates it, without the columns its create branch leaves out
(`CreateBranch`).  `OAuthAutoLinkSave` belongs to the one handler that saves twice; it
hands its copy to the second save (`OAuthLinkedSave`) as `oauthLinked`.  `Fail(r)` ends a request that
throws, is refused, or dies with the process.  `DeleteRow` deletes the row and
throws if it is gone.  `CleanExpiredSessions` is a single SQL statement.

Guards come from the code in the order it has them.  For example a login first
meets the lock and an account without a password (`Compares`).  Then `WrongPassword`
records the failure, or `RightPassword` clears the count and only after that meets
the checks for a pending deletion, an unverified email and MFA: each of them saves
the cleared count.

Abstracted: a password is its number in the account's history, a token or secret
the number of the draw that made it, a hash the value it is a hash of.  Names,
images, device metadata and wording are left out.  An account has at most one
link per provider.  A wrong password, code or token is a nondeterministic
outcome.  `TokenDigest` is constant because bcrypt reads 72 bytes, and in a
refresh token these end inside the `sub` claim; the branch of `RefreshSave` for a
digest that differs is kept as the code has it and is never taken.  Both
`RefreshLoad` and the purge are kept at the exact boundary: a session is still
valid at the instant `expiresAt`, and the purge takes it at that instant.

### ApplicantDocuments

`db` is the profile row with the ids of its documents, which of them are
primary, and `updatedAt`; `files` is what the store holds; `asked` is history.  A
request walks through the steps its handler awaits: it loads
(`UploadDocument`, `DeleteDocument`, ...), talks to the store (`StoreFile`,
`DestroyFile` and their failures), and saves in two statements, `Check` (the
comparison of dates) and `Write` (the whole list).  Read committed lets another
save commit between the two.  A save that fails after an upload leads to
`Compensate`, also when it failed only for the client: `WriteUnacknowledged` commits,
loses the answer and throws, and the compensation then takes the file of a document
that is listed.  `unsure`, history too, names those documents.  The load is one step
although it is two SELECTs, the profile and then its documents: a copy with an older
date than its documents is refused by the check of dates, and with the same date
it is what the later moment would have given.  Dates are compared in milliseconds, so two changes may have the
same one.  `DestroyFileSwallowed` is the catch block that does nothing with a
value that is no `Error`, which the store's client rejects with.  A request may
die at every step (`Crash`).

### JobBoard

`listings` and `applications` are the rows, an application with its history;
`req[r]` holds the copies a request loaded and the status its save will write;
`sweep` is the snapshot that `ExpireJobListingsUseCase` works through; `bulked` is
history.  Loading actions are named for the use cases, `SaveListing` and
`SaveApplications` for the repositories.  `Store` writes the status of the copy and
adds the one new history record.  A bulk update adds none.  `SweepSkip` is a save
that fails, `Restart` the process that dies with its snapshot and requests.
What listings and notes say is left out; the note's save writes the status
nevertheless, and that is modelled.

### JobQueue, Notifications, AccountErasure

`jobs` is every job of the three queues, finished ones kept as history.  A worker
takes one job of its queue at a time; a run that throws is repeated up to
`Attempts`, a run whose worker died up to `MaxStalled` times.  `handlers` holds
listeners that were started and have not finished; a crash loses them.  `Mails`
is the listeners' table from event to jobs, `Knows` the processors' switch.
Recruitment's listeners read the rows of everyone concerned again and queue
nothing if one is missing (`MayTell`).

In `AccountErasure`, `account` is how far the account is on its way out, `erasers`
the two that may delete it, the nightly task and an administrator's request, each
at its own step: `EraseLoad` (snapshot or lookup), `CleanUp` (the awaited
integration event; Recruitment's errors are logged and the deletion goes on),
`EraseRow` (delete, cascade, publish) or `EraseFails`; a delete that commits without
an answer publishes nothing.  Meanwhile the owner uploads documents or logos, applies,
schedules and restores.  `SaveDocumentUnacknowledged` is the upload whose save commits
and throws; `undone` names the documents whose file its compensation took.  `Crash` kills requests,
erasers and listeners and stalls the jobs that were running.

### AuditLog and Routes

`DomainEvents` gives each event's payload as a set of keys, from its class.
`AuditLog` applies the listener's redaction list and its search for an actor.
`Routes` gives each route's guard and declared limit; `Limits` is what the
throttler guard enforces, from the names of the throttlers configured.

## The runs

Passing runs, each over every interleaving within its bounds:

| Run | Instance | Shows |
|---|---|---|
| `account_serial` | one request at a time; 15 use cases, 2 sessions, clock to 2 | types; closed sessions stay closed (`SessionsCloseForGood`, a refinement of `SessionLedger`); the task deletes only accounts that are due; no MFA challenge outlives the scheduling of a deletion by more than its own time |
| `account_one_time` | one request at a time; 13 use cases that issue or accept tokens and codes, 3 sessions, 2 addresses | a verification token, a reset token and a backup code are accepted once; a token confirms only the address it was mailed to |
| `account_sessions` | two overlapping requests, torn loads; login, verification, password change, forgotten password and reset; 2 sessions | the lock agrees with the count; unless the row was saved from a torn copy, at most one valid session is older than the password and none is there before verification; closed sessions, spent tokens, replaced passwords and locks stay so once no copy is left that says otherwise |
| `account_credentials` | two overlapping requests, torn loads; OAuth, MFA, initial password, a deletion; 2 providers; the clock stands still | MFA always has its secret; a way to sign in remains unless the row was saved from a torn copy; an account that is deleted and that nobody holds stays deleted |
| `applicant_documents` | two overlapping requests, three documents where two fit, a store that fails, saves whose answer is lost | one primary document per type, the limit, a file behind every document nobody asked to delete, other than those of `unsure`; what row and copies agree to list stays listed, and what none of them lists stays away |
| `job_board` | two overlapping requests, two listings, one application, the task, restarts | the history explains the status; only due listings expire, and every one leaves the board; a shut listing stays shut and takes no application; applicants read a growing timeline (`TimelineKept`, a refinement of `ApplicationTimeline`) |
| `account_erasure` | task and administrator, an owner with one document or a logo, two jobs, one crash, services that fail | files stay until a deletion starts, other than those of `undone`; one farewell; mails are given up only when the provider refused them; jobs settle; due accounts end |

Between them every action and every use case fires.

Runs that must end in a counterexample.  Each checks a promise the repository
makes:

| Run | Counterexample | The repository says |
|---|---|---|
| `revoked_revived` | a refresh loads, a logout revokes the session, the refresh saves its copy: the session is active again | `docs/features/multi-device-session-management.md:18` |
| `failure_lost` | two logins load the same count; one records a failure, then the other stores the same value | `docs/features/account-lockout-flow.md:25` |
| `backup_code_twice` | two MFA logins find one backup code in their copies and both accept it | the comment at `mfa-login.use-case.ts:68` |
| `stale_profile_saved` | two saves of one profile compare dates before either writes; the second writes over the row that the first has changed | the comment at `prisma-applicant-profile.repository.ts:35` |
| `orphaned_files` | an applicant uploads a document and never applies with it; the account is deleted, nothing fails, and the file stays in the store | `docs/architecture/integration-events.md:16` |

The first three have one cause: `save` writes back a whole copy and nothing checks
that it is still current.  A request that loaded an account before it was deleted
makes it again for the same reason, through the create branch of the upsert
(`CreateBranch`).  In `stale_profile_saved` something does check, in a
statement of its own, and another save commits between the check and the write.
Where requests do not overlap the promises hold, and that is proved below:
`FailureTheorem` is the counterpart of `failure_lost`, `OneTimeInvariant` of
`backup_code_twice`.  The properties of the other passing runs hold in spite of
overlap; six of them say how far: `ClosedBeyondReach`, `SpentBeyondReach`,
`PasswordBeyondReach`, `LockedBeyondReach`, `GoneBeyondReach` and `SettledStays` name
the copies that a promise depends on, so that it is broken by a request that loaded
the account before the change and by nothing else.  `LockedBeyondReach` says what is
left of the lockout when failures may be lost: once the row and all copies carry the
lock, no use case lifts it before its time.

### What a torn copy can do

A use case that saves its copy also stores whatever mixture its SELECTs gave it.
Four properties of the row relate columns that different SELECTs read, and they
are not kept then: `AtMostOneOldSession` (password and sessions), `SignInMethod`
(password and providers), `SessionsNeedVerifiedEmail` (the flag in the User row and
sessions) and `ConfirmTokenAddress` (the address in the User row and the token in the
Account row).  Without `~db.torn` TLC finds each of them violated, always by the same
sequence: a request reads the first row, another one saves, the first one reads the
other row (`ReadLater`) and saves.  For instance a change of the address is loaded and
saved while an edit of the profile is between its SELECTs; the edit then stores the
old pending address with the token mailed to the new one.  No document of the
repository speaks of it, so it is stated here and listed as a hazard and is no
finding.  `LockMatchesCount` and `MfaUsable` relate columns of one row and hold of
torn copies too, and so do the properties about what is beyond reach: a torn copy is
made of rows of the past, and these are copies that somebody held.

Three more divergences are settled by reading or by proof.  The audit log is
said to hold no tokens (`docs/features/system-audit-logging.md:15`), and
`TokensShown` proves that the token of an email change is stored, its key
`changeToken` not being on the redaction list.  The timeline is said to record
every status change (`README.md:168`, `docs/todo.md:206`), and a bulk update adds no
record; `StatusOnRecord` has to leave out applications that one has touched.  The
controllers declare limits for a throttler `default` that the application does
not configure, and `DeclaredLimitsIgnored` proves that none of them counts.

### Bounds, and why they are enough

- Two overlapping requests: every conflict found or excluded here is between one
  stale copy and one newer row.  The proofs cover any number of requests.
- Two sessions where one must be told from "the others"; three in
  `account_one_time` and `backup_code_twice`, where one session enrols the account
  in MFA and two more are needed to use a backup code twice.  `SpentBeyondReach` is
  checked for reset tokens in `account_sessions`, which has no session to spare for
  MFA; of backup codes it rests on its proof.
- `MaxTorn = 1`: of the row and the copies in flight one may be torn at a time.  Copies
  that are not yet torn load and save as before, and the theorems have no such limit:
  they hold for any `MaxTorn`.
- The clock stands still in `account_credentials`: none of its properties is about
  time and none of its use cases compares dates, but for the challenge that an MFA
  login needs, which is alive at time 0.  Three draws let MFA be set up a second
  time.  `account_sessions` leaves the deletion to that run.
- One slot leaves some hazards out of reach: in `account_serial` no save overlaps
  another and no restore comes between the snapshot of the task and its turn.
  `revoked_revived`, `account_sessions` and `account_erasure` have those.
- `MaxLoginAttempts = 2` (3 in `failure_lost`): below, at and past the limit.
- Durations of one or two ticks with the clock to one or two: alive, at the
  boundary and expired all occur.  `account_serial` gives sessions two ticks so
  that a lock can expire while a session lives.
- `MaxDraws`, `MaxPasswords`, `MaxRefreshTokens = 2`: a current and an older one;
  three draws and passwords in `account_one_time`, so that a reset token could be
  used a second time.
- The clock in `applicant_documents` reaches 1: a save can be older than, as old
  as and newer than the row.  Three documents meet a limit of two; in the code
  it is five, and the proof is for any limit.
- `MaxHistory = 3`: submission, a change and one more.  Applications go to one of
  the two listings; the other one occupies the task.
- `MaxJobs = 2` lets a listener find the queue full or queue two mails; the
  counterexample of `orphaned_files` has room for six.  In `account_erasure` mails
  of Recruitment are tried twice and the other jobs once: one refusal that is
  repeated, one that is final, and a smaller instance than with two everywhere.
  One crash and one stalled run: before, during and after every step.

Slots, session ids and document ids are interchangeable, so the passing runs of
safety properties use symmetry; the two with liveness properties do not.
`CHECK_DEADLOCK FALSE` everywhere: behaviours end when the account is deleted, or
when clock, draws, histories or jobs reach their bounds.

### Fairness

Nothing is assumed of requests: whether one is ever finished is up to clients and
services.  What the program itself schedules:

- `JobBoard`: `WF(SweepStart)`, the task is started every night by `@Cron`;
  `SF(SweepOne(l))`, a save that is tried night after night does not fail every
  time, which the retry by the next night relies on.  `SweepSkip` and `Restart` may
  undo any single night, so weak fairness of `SweepOne` would not do.
- `AccountErasure`: `WF` of running jobs and listeners, since workers and the event
  loop run as long as the process does and it is started again when it died;
  `WF` of the task's `EraseLoad` and `CleanUp`, which goes on whatever Recruitment
  answers; `SF` of its `EraseRow`, as above.

Nothing is assumed of the provider's answers, of the administrator or of clients.

## The proofs

The theorems hold for every value of the constants within their named
assumptions: durations and limits are positive, null values are none of the
values they stand beside, backup codes are positive numbers, the queues are the
three the code has.

| Module | Theorem | Property |
|---|---|---|
| `AccountRequestsProofs` | `TypeInvariant` | `TypeOK` |
| | `RowInvariant` | `Rows`, the inductive invariant |
| | `LockInvariant` | `LockMatchesCount` |
| | `SignInInvariant` | `SignInMethod` |
| | `MfaInvariant` | `MfaUsable` |
| | `OldSessionInvariant` | `AtMostOneOldSession` |
| `AccountEmailProofs` | `MailInvariant`, `ConfirmInvariant` | `ConfirmTokenAddress` |
| | `VerifiedInvariant` | `SessionsNeedVerifiedEmail`, under `OnlyCheckedLogins` |
| `AccountReachProofs` | `ReachInvariant` | `Reach`, the inductive invariant |
| | `ClosedTheorem` | `ClosedBeyondReach` |
| | `LockedTheorem` | `LockedBeyondReach` |
| | `SpentTheorem` | `SpentBeyondReach` |
| | `PasswordTheorem` | `PasswordBeyondReach` |
| | `GoneForGood` | `GoneBeyondReach` |
| `AccountSerialProofs`, under `OneAtATime` | `SerialInvariant` | `SerialInv`, the inductive invariant |
| | `OneTimeInvariant` | `OneTime` |
| | `ChallengeInvariant` | `NoChallengeOnceScheduled` |
| | `DueTheorem` | `DeletedWhenDue` |
| | `FailureTheorem` | `FailureCounted` |
| | `SessionsRefined` | `SessionsCloseForGood`: `AccountRequests` implements `SessionLedger` |
| `ApplicantDocumentsProofs` | `TypeInvariant` | `TypeOK` |
| | `OnePrimaryHolds`, `WithinLimitHolds`, `ListedFilesStoredHolds` | the property each is named for |
| | `SettledTheorem`, `VanishedTheorem` | `SettledStays`, `VanishedForGood` |
| `JobBoardProofs` | `TypeInvariant` | `TypeOK` |
| | `StatusOnRecordHolds`, `ExpiredWhenDueHolds` | the property each is named for |
| | `ShutTheorem` | `ShutForGood` |
| | `TimelineRefined` | `TimelineKept`: `JobBoard` implements `ApplicationTimeline` |
| `AccountErasureProofs` | `TypedInvariant`, `ErasureTypes` | `TypeOK` |
| | `GivenUpInvariant`, `FarewellInvariant`, `FilesKeptInvariant` | `GivenUpWhenRefused`, `FarewellOnce`, `FilesKept` |
| `TablesProofs` | `TokensShown`, `ActorKnown` | what the log shows of each event |
| | `DeclaredLimitsIgnored` | the limits that count |

### Requests that overlap

None of the row properties is inductive by itself: a save stores a copy
that may be older than the row it replaces.  `Rows` therefore asserts them of
the row and of every copy in flight (`RowOK`), the two that span several rows only
of copies that are not torn.  With it the argument is local: each method of the
aggregate keeps `RowOK` (the `...Row` lemmas) and the mark `torn`, a load copies a
row that has it, a later SELECT gives the row itself or a torn copy whose Account
columns are those of one that has it (`RowReadLater`), and a save stores a copy that
has it, however old.  This is why these properties survive lost
updates: each is about one row and never about how one row follows another.
`AtMostOneOldSession` needs the clock as well: sessions only drop out of
`OldSessions` as time passes (`RowTime`).  The lemmas follow the code's layers:
the methods, then `Begin`, `Save` and `OpenSession`, then one lemma for each group
of actions, with a step for each action.

`ConfirmTokenAddress` is proved in the same way from `Mail`, which adds that a copy
into which a verification token is being resent is not verified: the check that
the use case makes on load is what keeps the two flows apart.
`SessionsNeedVerifiedEmail` is about deployments in which only passwords and
verifications open sessions; `OnlyCheckedLogins` says so, since OAuth logins and
restoring do not look at the flag.

`ApplicantDocumentsProofs` and `JobBoardProofs` follow the same pattern: a stored
list, or a stored status, may be any copy in flight, so every copy has to be as
good as the row.  For files this means that a document which a copy will list
has its file and no request will take it, unless it is one whose upload does not know
that it was saved (`unsure`); for statuses, that the one a save will
bring back is on record by then, which rests on histories only growing.  A
listing's date never changes, so whatever the snapshot of the task holds is due.

### What overlap cannot undo

`AccountReachProofs` is about how one step follows another, with any number of
requests in flight.  `Copies` is the row and the copies that requests hold.  A step
makes new copies from old ones (`ReachStep`).  Most of them descend from one copy
(`Descends`): the new one has no session open and no token or code on offer that its
ancestor had not, but for the session that this step opened and the tokens that it
drew; and it `Follows` its ancestor, which means no older password, no shorter lock
as far as it matters from now on, and no account unless the ancestor was one.  The
methods of the aggregate are shown to pass on nothing else (`PlainInherits`,
`SessionInherits`, `MfaInherits`, `DrawnDescends`, `OpenedDescends`), and `ReachSlots`
carries that to loads and saves.  A copy that is read in parts has several ancestors:
`Made` asks for one that it follows, and for each session, token and code it has one
that had it (`ReachReadLater`).  What no copy has is therefore gone for good, which
is what the five theorems say of sessions, tokens, passwords, locks and the account.
That a session or a token made now is none of the old ones needs `Reach`: whatever
is on offer or was accepted has been drawn already, and a request that accepts a
token was asked with one (`AskedAt`).

`SettledTheorem` and `VanishedTheorem` do the same for the list of an applicant's
documents (`ListStep`: a request starts from the list of the row, less what it was
asked to delete, and goes on with its own list and the document that it uploads).
They need `Backed`: whoever lists documents has a profile, so that a profile
that is still being created, whose copy is empty, cannot be written over it.

`ShutTheorem` says of listings that are closed or expired, and that no application or
edit in flight has read before, that they stay so: `StaysShut` names what a step may do
to such a listing.  It needs that a request to close a listing holds a copy that is
closed (`SlotAt`), since the task and other requests go on saving theirs.

### Requests one at a time

`OneAtATime` says that there is one slot.  The clock, the purge of sessions and
challenges handed out by OAuth logins go on while it is taken.  `SerialInv` says that
the copy in flight is then the row, apart from sessions purged since the load (which
were past their date, and closed): nobody saves between its SELECTs (`ReadLaterSerial`);
that the tokens and codes the row offers are none of those accepted, and distinct
from each other (`Outstanding`); that a session never handed out is not in the row;
and that challenges end in time.  `SerialStep` is what every step keeps:
`SerialInv`, and that it opens one unused session or only closes some, and deletes an
account only when it is due.  `FailureTheorem` follows from the invariant alone: a wrong
password counts on a copy whose failures are those of the row (`FailuresAdd`).  The lemmas `QuietSave` and
`OpeningSave` reduce the saves to what their methods do to sessions, tokens and date,
and `LedgerStep` reads a step of `SessionLedger` off `SessionStep`.  The runs with
overlapping requests that end in a counterexample show that the assumption cannot be
dropped.

### The erasure

`Typed` adds to the types that every job's name is one its queue's processor knows
and that a job that threw was refused as often as it was tried, from which
`GivenUpWhenRefused` follows.  `FarewellOnce` rests on
`Parting`: a deletion is announced only once the row is gone, since deleting a missing
row fails; while it is being announced no farewell is queued, and there is never more
than one.  `FilesKept` rests on `Kept`: as long as no deletion has started no job names
a file, every eraser is idle, the files of listed documents that are not `undone` are
stored, and the file of an upload in flight is stored and not listed yet.

### Only model-checked

Liveness (`JobsSettle`, `DueAccountsEnd`, `DueListingsLeave`) is beyond the prover
and is checked by TLC on the instances above.  The refinements proved are of the
safety part, which is all the abstract specifications have.

## Not modelled, and why

- Several accounts, hence registration as an action and the unique columns (email,
  provider identity): the database decides those races by its indexes.
- Saved jobs: a row or no row, read by nothing else; two toggles at once can end as one.  Employer profiles beyond the
  logo, and what listings, notes and mails say: plain writes of data.
- Reads: users, roles, search, lists.  Their routes are in `Routes`.
- The OAuth adapter, signatures, cookies, DTO validation, counting by the throttler:
  outside services, or decisions on data that the use cases do not change.
- Storing audit records and logging: inserts nobody waits for.
- What the client is told.  In `AccountRequests` a save that commits and throws leaves
  the row as the save that is answered does, and what the client would then hold is
  less; nothing is undone there when a save throws.  Where the code undoes something,
  in uploads and in the erasure, the lost answer is an action of its own.
- Redis being down: what a listener cannot queue is lost (`Handle`), as when a
  queue refuses; no further state depends on it.

## What could follow

- `Identity`: two accounts, the unique columns, registration and OAuth registration
  as actions, email changes between accounts.
- Employer profiles with their concurrency, and the toggle of saved jobs.
- A count of how often a mail goes out when workers die or answers are lost: as a part
  of `AccountErasure` it doubles the instance, so it wants a module of its own over
  `JobQueue`.
