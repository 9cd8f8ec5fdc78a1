--------------------------- MODULE MCWatchStream ---------------------------
(* WatchStream for TLC.                                                    *)
EXTENDS WatchStream

=============================================================================
