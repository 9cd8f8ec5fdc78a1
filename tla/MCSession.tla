----------------------------- MODULE MCSession -----------------------------
(* Session for TLC: accounts and call tokens are interchangeable.          *)
EXTENDS Session, TLC

Symmetry == Permutations(Emails) \cup Permutations(Calls)

=============================================================================
