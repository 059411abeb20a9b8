-------------------------------- MODULE JobQueue --------------------------------
(***************************************************************************)
(* The queues of BullMQ as this program uses them: jobs outlive a crash of  *)
(* the process, a run that throws is repeated until the attempts are used   *)
(* up, and a run whose worker died is repeated a bounded number of times.   *)
(* What a job does is left to the module that extends this one.  Finished   *)
(* jobs are kept here as history.                                           *)
(***************************************************************************)
EXTENDS Naturals, Sequences

CONSTANTS
    Queues,
    Attempts,    \* for each queue: how often a job is tried
    MaxStalled,  \* how often a job is tried again because its worker died
    MaxJobs      \* bound of the model

VARIABLE jobs    \* the jobs in the order in which they were added

ASSUME QueueAssumption ==
    /\ Attempts \in [Queues -> Nat \ {0}]
    /\ MaxStalled \in Nat
    /\ MaxJobs \in Nat

\* A job with its data; refused counts the runs that an outside service refused.
Job(Data) ==
    [queue: Queues, data: Data, state: {"waiting", "active", "completed", "failed"},
     tried: Nat, refused: Nat, stalled: 0..(MaxStalled + 1)]

NewJob(queue, data) ==
    [queue |-> queue, data |-> data, state |-> "waiting",
     tried |-> 0, refused |-> 0, stalled |-> 0]

Ids == DOMAIN jobs
InState(i, state) == jobs[i].state = state
Settled(i) == jobs[i].state \in {"completed", "failed"}

\* A worker runs one job of its queue at a time.  Delayed repetitions overtake and
\* are overtaken, so any waiting job may be next.
Take(i) ==
    /\ InState(i, "waiting")
    /\ \A k \in Ids : jobs[k].queue = jobs[i].queue => ~InState(k, "active")
    /\ jobs' = [jobs EXCEPT ![i].state = "active"]

\* The run returned.  What the job went through before is forgotten.
Complete(i) ==
    /\ InState(i, "active")
    /\ jobs' = [jobs EXCEPT ![i] = [NewJob(jobs[i].queue, jobs[i].data)
                                    EXCEPT !.state = "completed"]]

\* The run threw; refused tells whether an outside service was the reason.
Throw(i, refused) ==
    /\ InState(i, "active")
    /\ jobs' = [jobs EXCEPT
           ![i].tried = @ + 1,
           ![i].refused = IF refused THEN @ + 1 ELSE @,
           ![i].state = IF jobs[i].tried + 1 < Attempts[jobs[i].queue]
                        THEN "waiting" ELSE "failed"]

\* The process died: its active jobs are found stalled.
Stalled ==
    [i \in Ids |->
        IF InState(i, "active")
        THEN [jobs[i] EXCEPT !.stalled = @ + 1,
                             !.state = IF jobs[i].stalled < MaxStalled
                                       THEN "waiting" ELSE "failed"]
        ELSE jobs[i]]

=============================================================================
