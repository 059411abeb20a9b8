----------------------------- MODULE SessionLedger -----------------------------
(***************************************************************************)
(* What session management promises, without requests, clocks or rows: a    *)
(* session is opened once, and a session that is closed (logged out,        *)
(* revoked, expired, purged or deleted with its account) stays closed.      *)
(***************************************************************************)
CONSTANT SessionIds

VARIABLE ledger  \* "unused", "open" or "closed" for each session

Init == ledger = [s \in SessionIds |-> "unused"]

Open(s) ==
    /\ ledger[s] = "unused"
    /\ ledger' = [ledger EXCEPT ![s] = "open"]

\* One act may close many sessions: "log out everywhere else", a new password.
Close(S) ==
    /\ S # {}
    /\ \A s \in S : ledger[s] = "open"
    /\ ledger' = [s \in SessionIds |-> IF s \in S THEN "closed" ELSE ledger[s]]

Next ==
    \/ \E s \in SessionIds : Open(s)
    \/ \E S \in SUBSET SessionIds : Close(S)

Spec == Init /\ [][Next]_ledger

=============================================================================
