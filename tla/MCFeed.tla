------------------------------- MODULE MCFeed -------------------------------
(* Feed for TLC, without a symmetry set: its run checks a liveness property. *)
EXTENDS Feed

=============================================================================
