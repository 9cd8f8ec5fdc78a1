---------------------------- MODULE MCGrpcStream ----------------------------
(* GrpcStream for TLC.                                                      *)
EXTENDS GrpcStream

=============================================================================
