-------------------------- MODULE ApplicationTimeline --------------------------
(***************************************************************************)
(* What an applicant is promised about the timeline of an application,      *)
(* without listings, requests or rows: it starts with the submission, grows *)
(* by one announcement at a time and never loses or changes one.            *)
(***************************************************************************)
CONSTANTS Applications, Announcement

VARIABLE told  \* for each application: the announcements its applicant can read

Init == told = [a \in Applications |-> {}]

Submit(a, e) ==
    /\ told[a] = {}
    /\ e.event = "SUBMITTED"
    /\ told' = [told EXCEPT ![a] = {e}]

Announce(a, e) ==
    /\ told[a] # {}
    /\ e.event \in {"STATUS_UPDATED", "WITHDRAWN"}
    /\ told' = [told EXCEPT ![a] = @ \cup {e}]

\* Something that could not be read before.
News(a) == (told'[a] \ told[a]) \cap Announcement

Next ==
    \E a \in Applications : \E e \in News(a) : Submit(a, e) \/ Announce(a, e)

Spec == Init /\ [][Next]_told

=============================================================================
