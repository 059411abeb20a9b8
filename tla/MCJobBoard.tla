------------------------------ MODULE MCJobBoard ------------------------------
(* Instances of JobBoard for TLC.  No symmetry: a liveness property is checked. *)
EXTENDS JobBoard

CONSTANTS p1, l1, l2

OneApplicant == {p1}
TwoListings == {l1, l2}

\* Applications to one of two listings: what happens to the other matters to the
\* nightly task alone.
ToOneListing == {<<p1, l1>>}

=============================================================================
