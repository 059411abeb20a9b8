------------------------- MODULE MCApplicantDocuments -------------------------
(* Instances of ApplicantDocuments for TLC. *)
EXTENDS ApplicantDocuments, TLC

Symmetry == Permutations(Requests) \cup Permutations(Resumes) \cup Permutations(CoverLetters)

=============================================================================
