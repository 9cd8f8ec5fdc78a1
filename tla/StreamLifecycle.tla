-------------------------- MODULE StreamLifecycle --------------------------
(***************************************************************************)
(* What the class Stream of the Firestore client and the RemoteStore that  *)
(* owns two of them promise: the diagram in remote/stream.h, and that a    *)
(* stream is tried for as long as somebody needs it.  An error is followed *)
(* by a backoff, never by silence; a stream is let go when idle only while *)
(* nobody needs it; one that is stopped for another reason starts again at *)
(* once if it is needed then.                                              *)
(***************************************************************************)

VARIABLES
    state,   \* Stream's state_
    needed   \* ShouldStartWriteStream, ShouldStartWatchStream

vars == <<state, needed>>

States == {"Initial", "Starting", "Open", "Error", "Backoff"}

IsStarted == state \in {"Starting", "Backoff", "Open"}

\* How a stream that nothing holds back goes on.
Due(need) == IF need THEN "Starting" ELSE "Initial"

Init == state = "Initial" /\ needed = FALSE

\* The first write or target, which starts the stream.
Need ==
    /\ ~needed /\ needed' = TRUE
    /\ state' = IF IsStarted THEN state ELSE IF state = "Error" THEN "Backoff" ELSE "Starting"

\* The last one is settled or dropped; the stream stays for more to come.
Release == needed /\ needed' = FALSE /\ UNCHANGED state

Open == state = "Starting" /\ state' = "Open" /\ UNCHANGED needed

Elapse == state = "Backoff" /\ state' = "Starting" /\ UNCHANGED needed

\* No token, or the call ended.
Fail ==
    /\ state \in {"Starting", "Open"}
    /\ state' = IF needed THEN "Backoff" ELSE "Error"
    /\ UNCHANGED needed

Idle == state = "Open" /\ ~needed /\ state' = "Initial" /\ UNCHANGED needed

\* Stop, or InhibitBackoff after an error that the stream is not to blame for,
\* perhaps with another account in effect.
Restart ==
    /\ needed' \in BOOLEAN
    /\ state' = Due(needed')

Next == Need \/ Release \/ Open \/ Elapse \/ Fail \/ Idle \/ Restart

Spec == Init /\ [][Next]_vars

=============================================================================
