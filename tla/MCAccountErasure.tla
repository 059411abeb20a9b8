---------------------------- MODULE MCAccountErasure ----------------------------
(* Instances of AccountErasure for TLC.  No symmetry: liveness is checked. *)
EXTENDS AccountErasure

CONSTANTS owner, partner, d1

TwoPersons == {owner, partner}

AllQueues == {"iam-email", "recruitment-email", "recruitment-asset-queue"}

\* One repetition is enough to have a mail refused and one given up; in one queue only,
\* to keep the instance small.
TwoTries == [q \in AllQueues |-> IF q = "recruitment-email" THEN 2 ELSE 1]

OneDocument == {d1}
OneDocumentFiles == OneDocument \cup {Logo, Avatar}

=============================================================================
