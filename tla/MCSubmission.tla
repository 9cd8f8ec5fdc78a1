--------------------------- MODULE MCSubmission ----------------------------
(* Submission for TLC: users and names are interchangeable.                *)
EXTENDS Submission, TLC

Symmetry == Permutations(Users) \cup Permutations(Names)

=============================================================================
