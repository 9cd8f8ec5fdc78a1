---------------------------- MODULE WatchStream ----------------------------
(***************************************************************************)
(* How the client keeps one watch stream to the server for all the queries *)
(* it listens to, and what it makes of the stream's fate: the online       *)
(* state.  RemoteStore starts the stream for the first target, asks for    *)
(* all of them again whenever it opens, restarts it while there are any,   *)
(* and lets an idle one go; OnlineStateTracker tells from starts,          *)
(* failures, messages and a timer whether listeners should go on waiting   *)
(* for the server (Unknown) or make do with the cache (Offline).           *)
(*                                                                         *)
(* Each action is one task of the worker queue; those of the server and    *)
(* the network are external.  A target stands for its target id, and what  *)
(* the server says about it is left out but for its rejection.  The        *)
(* network stays enabled, since the app never disables it.                 *)
(***************************************************************************)
EXTENDS Naturals

CONSTANTS
    Targets,                  \* what the client may listen to
    kMaxWatchStreamFailures,  \* failures until the client is Offline
    MaxRestarts               \* bound on changes of account or connectivity

ASSUME WatchStreamAssumption ==
    /\ kMaxWatchStreamFailures \in Nat \ {0}
    /\ MaxRestarts \in Nat

VARIABLES
    targets,   \* listen_targets_
    stream,    \* the watch stream: state_, idleness_timer_
    asked,     \* the targets the server watches on the stream
    tracker,   \* OnlineStateTracker: state_, watch_stream_failures_, online_state_timer_
    restarts   \* how often the network was restarted

vars == <<targets, stream, asked, tracker, restarts>>

-----------------------------------------------------------------------------
States == {"Initial", "Starting", "Backoff", "Open", "Error"}

Streams == [state : States, idle : BOOLEAN]

\* failures is counted up to the maximum, beyond which nothing depends on it.
Trackers == [online : {"Unknown", "Online", "Offline"},
             failures : 0..kMaxWatchStreamFailures,
             timer : BOOLEAN]

\* A stream that has just got into a state.
Fresh(state) == [state |-> state, idle |-> FALSE]

IsOpen == stream.state = "Open"
IsStarted == stream.state \in {"Starting", "Backoff", "Open"}

-----------------------------------------------------------------------------
(* OnlineStateTracker.                                                     *)

UpdateStateTimed(state) == [tracker EXCEPT !.online = state, !.failures = 0]
UpdateState(state) == [online |-> state, failures |-> 0, timer |-> FALSE]

\* HandleWatchStreamStart: an attempt after a failure proves nothing new.
AfterStart(t) ==
    IF t.failures # 0 THEN t ELSE [t EXCEPT !.online = "Unknown", !.timer = TRUE]

\* HandleWatchStreamFailure: a stream that worked may fail once.
AfterFailure(t) ==
    IF t.online = "Online"
    THEN [t EXCEPT !.online = "Unknown"]
    ELSE IF t.failures + 1 < kMaxWatchStreamFailures
         THEN [t EXCEPT !.failures = t.failures + 1]
         ELSE [online |-> "Offline", failures |-> kMaxWatchStreamFailures, timer |-> FALSE]

-----------------------------------------------------------------------------
(* The stream.                                                             *)

\* StartWatchStream, on a tracker that has seen what ended the last one; after
\* an error the stream backs off first.
StartWatchStream(after) ==
    /\ stream' = Fresh(IF after = "Error" THEN "Backoff" ELSE "Starting")
    /\ asked' = {}

\* Close with an error, and OnWatchStreamClose: retried while there are targets.
CloseOnErrorForGood ==
    /\ stream' = Fresh("Error") /\ asked' = {}
    /\ tracker' = IF targets # {} THEN AfterFailure(tracker) ELSE UpdateState("Unknown")
CloseOnError ==
    IF targets # {}
    THEN StartWatchStream("Error") /\ tracker' = AfterStart(AfterFailure(tracker))
    ELSE stream' = Fresh("Error") /\ asked' = {} /\ tracker' = UpdateState("Unknown")

Init ==
    /\ targets = {}
    /\ stream = Fresh("Initial")
    /\ asked = {}
    /\ tracker = [online |-> "Unknown", failures |-> 0, timer |-> FALSE]
    /\ restarts = 0

-----------------------------------------------------------------------------
(* What the sync engine asks for.                                          *)

SendWatchRequestIdly(t) == asked' = asked \cup {t} /\ UNCHANGED stream
\* A request ends the idleness of an open stream.
SendWatchRequest(t) == asked' = asked \cup {t} /\ stream' = Fresh("Open")

\* The first target starts the stream; on one that is open the server is asked.
Listen(t) ==
    /\ t \notin targets
    /\ targets' = targets \cup {t}
    /\ IF ~IsStarted
       THEN StartWatchStream(stream.state) /\ tracker' = AfterStart(tracker)
       ELSE /\ IF IsOpen
               THEN SendWatchRequest(t)
               ELSE UNCHANGED <<asked, stream>>
            /\ UNCHANGED tracker
    /\ UNCHANGED restarts

\* Without targets an open stream is idle, and one that is not open can tell
\* nothing about the network.
StopListening(t) ==
    /\ t \in targets
    /\ targets' = targets \ {t}
    /\ IF IsOpen
       THEN /\ asked' = asked \ {t}
            /\ stream' = [state |-> "Open", idle |-> targets' = {}]
            /\ UNCHANGED tracker
       ELSE /\ tracker' = IF targets' = {} THEN UpdateState("Unknown") ELSE tracker
            /\ UNCHANGED <<asked, stream>>
    /\ UNCHANGED restarts

-----------------------------------------------------------------------------
(* Tokens, timers and changes of the environment.                          *)

OpensUnasked ==
    /\ stream.state = "Starting"
    /\ stream' = Fresh("Open")
    /\ UNCHANGED <<targets, asked, tracker, restarts>>
\* ResumeStartWithCredentials: the stream opens without waiting for the server,
\* and OnWatchStreamOpen asks for everything.
Opens ==
    /\ stream.state = "Starting"
    /\ stream' = Fresh("Open")
    /\ asked' = targets
    /\ UNCHANGED <<targets, tracker, restarts>>

TokenFails ==
    /\ stream.state = "Starting"
    /\ CloseOnError
    /\ UNCHANGED <<targets, restarts>>

BackoffElapses ==
    /\ stream.state = "Backoff"
    /\ stream' = Fresh("Starting")
    /\ UNCHANGED <<targets, asked, tracker, restarts>>

\* The idle timer stops the stream, and OnWatchStreamClose finds it unneeded.
IdleTimeout ==
    /\ IsOpen /\ stream.idle
    /\ stream' = Fresh("Initial")
    /\ asked' = {}
    /\ tracker' = UpdateState("Unknown")
    /\ UNCHANGED <<targets, restarts>>

OnlineStateTimeout ==
    /\ tracker.timer
    /\ tracker' = [tracker EXCEPT !.online = "Offline", !.timer = FALSE]
    /\ UNCHANGED <<targets, stream, asked, restarts>>

\* RestartNetwork, for another account or a change of connectivity: the stream
\* stops, forgets its last error and starts again if it is needed.
RestartNetwork ==
    /\ restarts < MaxRestarts
    /\ restarts' = restarts + 1
    /\ IF targets # {}
       THEN StartWatchStream("Initial") /\ tracker' = AfterStart(UpdateState("Unknown"))
       ELSE stream' = Fresh("Initial") /\ asked' = {} /\ tracker' = UpdateState("Unknown")
    /\ UNCHANGED targets

-----------------------------------------------------------------------------
(* The server and the network.                                             *)

\* OnWatchStreamChange: any message proves that the server is there, the
\* confirmation of a target that is no longer listened to included.
ServerAnswers ==
    /\ IsOpen
    /\ tracker' = UpdateState("Online")
    /\ UNCHANGED <<targets, stream, asked, restarts>>

\* ProcessTargetError: the target is gone, and the stream is not marked idle.
ServerRejects(t) ==
    /\ IsOpen /\ t \in asked
    /\ tracker' = UpdateState("Online")
    /\ asked' = asked \ {t}
    /\ targets' = targets \ {t}
    /\ UNCHANGED <<stream, restarts>>

StreamFails ==
    /\ IsOpen
    /\ CloseOnError
    /\ UNCHANGED <<targets, restarts>>

-----------------------------------------------------------------------------
Next ==
    \/ \E t \in Targets : Listen(t) \/ StopListening(t) \/ ServerRejects(t)
    \/ Opens \/ TokenFails \/ BackoffElapses \/ IdleTimeout \/ OnlineStateTimeout
    \/ RestartNetwork \/ ServerAnswers \/ StreamFails

Spec == Init /\ [][Next]_vars

\* The worker runs its timers, and every token is answered (see Credentials).
ClientFairness ==
    /\ WF_vars(Opens \/ TokenFails)
    /\ WF_vars(BackoffElapses) /\ WF_vars(IdleTimeout) /\ WF_vars(OnlineStateTimeout)

\* A server that may stay silent on an open stream for ever.
SilentSpec == Spec /\ ClientFairness

\* A server that answers unless the call fails.
FairSpec == Spec /\ ClientFairness /\ WF_vars(ServerAnswers \/ StreamFails)

-----------------------------------------------------------------------------
\* Types of the state.
TypeOK ==
    /\ targets \subseteq Targets /\ asked \subseteq Targets
    /\ stream \in Streams
    /\ tracker \in Trackers
    /\ restarts \in Nat

\* The assertions of OnlineStateTracker: the timer runs only while the state is
\* Unknown and a stream is being tried, so that no start finds one running, and
\* a state that was Online has no failures behind it.
TimerWhileTrying ==
    /\ tracker.timer => tracker.online = "Unknown" /\ IsStarted
    /\ tracker.online = "Online" => tracker.failures = 0 /\ ~tracker.timer

\* "Watch stream was stopped gracefully while still needed" never happens: the
\* idle timer of an open stream runs only while nothing is listened to.
IdleMeansUnused == stream.idle => IsOpen /\ targets = {}

\* An open stream watches what is listened to, and while there is something to
\* listen to the stream is started (Listen, OnWatchStreamOpen, OnWatchStreamClose).
WatchesItsTargets ==
    /\ IsOpen => asked = targets
    /\ targets # {} => IsStarted

Lifecycle == INSTANCE StreamLifecycle WITH
    state <- stream.state, needed <- targets # {}

\* The watch stream is tried for as long as somebody listens: every end of it
\* that comes too early is followed by a backoff or a start (OnWatchStreamClose).
ImplementsLifecycle == Lifecycle!Spec

\* A listener is not left waiting: the state becomes Online or Offline, or
\* nobody listens any more ("rather than waiting indefinitely").
OnlineStateSettles ==
    tracker.online = "Unknown" /\ targets # {} ~> tracker.online # "Unknown" \/ targets = {}

=============================================================================
