-------------------------- MODULE MCWritePipeline --------------------------
(* WritePipeline for TLC, without a symmetry set: liveness is checked.      *)
EXTENDS WritePipeline

=============================================================================
