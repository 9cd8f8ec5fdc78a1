------------------------- MODULE WatchStreamProofs -------------------------
(***************************************************************************)
(* The invariants of WatchStream, for any targets and any number of        *)
(* failures and restarts.  Together they are inductive: that a running     *)
(* timer has a started stream behind it rests on the stream's invariants,  *)
(* which say what is started while there is something to listen to.        *)
(***************************************************************************)
EXTENDS WatchStream, TLAPS

\* The conjunction that is inductive.
WatchInv == TypeOK /\ TimerWhileTrying /\ IdleMeansUnused /\ WatchesItsTargets

\* What the tracker's assertions say of a tracker.
Sound(t) ==
    /\ t \in Trackers
    /\ t.timer => t.online = "Unknown"
    /\ t.online = "Online" => t.failures = 0 /\ ~t.timer

\* HandleWatchStreamStart keeps a tracker sound.
LEMMA StartIsSound ==
    ASSUME NEW t, Sound(t)
    PROVE  Sound(AfterStart(t))
<1>1. PICK o \in {"Unknown", "Online", "Offline"}, f \in 0..kMaxWatchStreamFailures,
            b \in BOOLEAN : t = [online |-> o, failures |-> f, timer |-> b]
    BY DEF Trackers, Sound
<1>2. QED
    BY <1>1 DEF AfterStart, Sound, Trackers

\* So does HandleWatchStreamFailure.
LEMMA FailureIsSound ==
    ASSUME NEW t, Sound(t)
    PROVE  Sound(AfterFailure(t))
<1>1. PICK o \in {"Unknown", "Online", "Offline"}, f \in 0..kMaxWatchStreamFailures,
            b \in BOOLEAN : t = [online |-> o, failures |-> f, timer |-> b]
    BY DEF Trackers, Sound
<1>2. QED
    BY <1>1, WatchStreamAssumption DEF AfterFailure, Sound, Trackers

\* And UpdateState sets none.
LEMMA UpdateIsSound ==
    ASSUME NEW state \in {"Unknown", "Online", "Offline"}
    PROVE  Sound(UpdateState(state)) /\ ~UpdateState(state).timer
BY WatchStreamAssumption DEF UpdateState, Sound, Trackers

\* The invariant in terms of the two parts that a step replaces.
LEMMA Parts == WatchInv <=> /\ targets \subseteq Targets /\ asked \subseteq Targets
                            /\ restarts \in Nat
                            /\ stream \in Streams
                            /\ Sound(tracker)
                            /\ tracker.timer => IsStarted
                            /\ IdleMeansUnused /\ WatchesItsTargets
BY DEF WatchInv, TypeOK, TimerWhileTrying, Sound

\* A stream that has just got into a state is not idle.
LEMMA FreshStreams ==
    ASSUME NEW state \in States
    PROVE  Fresh(state) \in Streams /\ Fresh(state).state = state /\ ~Fresh(state).idle
BY DEF Fresh, Streams

\* A close with an error leaves the invariant: with targets the stream backs off
\* and the tracker has seen a failure and a start, without them it has no timer.
LEMMA CloseKeeps ==
    ASSUME WatchInv, CloseOnError, UNCHANGED targets, restarts' \in Nat
    PROVE  WatchInv'
<1>1. Sound(tracker) /\ targets \subseteq Targets
    BY Parts
<1>2. CASE targets # {}
    <2>1. stream' = Fresh("Backoff") /\ asked' = {} /\ tracker' = AfterStart(AfterFailure(tracker))
        BY <1>2 DEF CloseOnError, StartWatchStream
    <2>2. Sound(tracker')
        BY <1>1, <2>1, StartIsSound, FailureIsSound
    <2>3. stream' \in Streams /\ stream'.state = "Backoff" /\ ~stream'.idle
        BY <2>1, FreshStreams DEF States
    <2>4. QED
        BY <1>1, <2>1, <2>2, <2>3, Parts
        DEF WatchInv, TypeOK, TimerWhileTrying, Sound, IdleMeansUnused, WatchesItsTargets, IsOpen, IsStarted
<1>3. CASE targets = {}
    <2>1. stream' = Fresh("Error") /\ asked' = {} /\ tracker' = UpdateState("Unknown")
        BY <1>3 DEF CloseOnError
    <2>2. Sound(tracker') /\ ~tracker'.timer
        BY <2>1, UpdateIsSound
    <2>3. stream' \in Streams /\ stream'.state = "Error" /\ ~stream'.idle
        BY <2>1, FreshStreams DEF States
    <2>4. QED
        BY <1>1, <1>3, <2>1, <2>2, <2>3
        DEF WatchInv, TypeOK, TimerWhileTrying, Sound, IdleMeansUnused, WatchesItsTargets, IsOpen, IsStarted
<1>4. QED
    BY <1>2, <1>3

\* The invariant holds of a client that listens to nothing.
LEMMA WatchInvInit == Init => WatchInv
<1> SUFFICES ASSUME Init PROVE WatchInv
    OBVIOUS
<1>1. TypeOK
    BY WatchStreamAssumption DEF Init, TypeOK, Fresh, Streams, States, Trackers
<1>2. QED
    BY <1>1 DEF Init, WatchInv, TimerWhileTrying, IdleMeansUnused, WatchesItsTargets,
                Fresh, IsOpen, IsStarted

\* Every task and every step of the server keeps it.
LEMMA WatchInvNext == WatchInv /\ [Next]_vars => WatchInv'
<1> SUFFICES ASSUME WatchInv, [Next]_vars PROVE WatchInv'
    OBVIOUS
<1> USE DEF IdleMeansUnused, WatchesItsTargets, IsOpen, IsStarted
<1>0. /\ targets \subseteq Targets /\ asked \subseteq Targets /\ restarts \in Nat
      /\ stream \in Streams /\ Sound(tracker) /\ (tracker.timer => IsStarted)
      /\ IdleMeansUnused /\ WatchesItsTargets
    BY Parts
<1>p. ASSUME /\ targets' \subseteq Targets /\ asked' \subseteq Targets /\ restarts' \in Nat
             /\ stream' \in Streams /\ Sound(tracker') /\ (tracker'.timer => IsStarted')
             /\ IdleMeansUnused' /\ WatchesItsTargets'
      PROVE  WatchInv'
    BY <1>p DEF WatchInv, TypeOK, TimerWhileTrying, Sound
<1>s. \A state \in States : /\ Fresh(state) \in Streams
                            /\ Fresh(state).state = state /\ ~Fresh(state).idle
    BY FreshStreams
<1>u. \A state \in {"Unknown", "Online", "Offline"} :
          Sound(UpdateState(state)) /\ ~UpdateState(state).timer
    BY UpdateIsSound
<1>1. ASSUME NEW t \in Targets, Listen(t) PROVE WatchInv'
    <2>1. CASE ~IsStarted
        <3>1. PICK state \in {"Backoff", "Starting"} : stream' = Fresh(state)
            BY <1>1, <2>1 DEF Listen, StartWatchStream
        <3>2. asked' = {} /\ tracker' = AfterStart(tracker)
            BY <1>1, <2>1 DEF Listen, StartWatchStream
        <3>3. Sound(tracker')
            BY <1>0, <3>2, StartIsSound
        <3>4. QED
            BY <1>0, <1>1, <1>p, <1>s, <3>1, <3>2, <3>3 DEF Listen, States
    <2>2. CASE IsOpen
        <3>1. stream' = Fresh("Open") /\ asked' = asked \cup {t} /\ tracker' = tracker
            BY <1>1, <2>2 DEF Listen, SendWatchRequest
        <3>2. QED
            BY <1>0, <1>1, <1>p, <1>s, <2>2, <3>1 DEF Listen, States
    <2>3. CASE IsStarted /\ ~IsOpen
        BY <1>0, <1>1, <1>p, <2>3 DEF Listen
    <2>4. QED
        BY <2>1, <2>2, <2>3
<1>2. ASSUME NEW t \in Targets, StopListening(t) PROVE WatchInv'
    <2>1. CASE IsOpen
        <3>1. /\ asked' = asked \ {t} /\ tracker' = tracker
              /\ stream' = [state |-> "Open", idle |-> targets' = {}]
            BY <1>2, <2>1 DEF StopListening
        <3>2. stream' \in Streams /\ stream'.state = "Open" /\ (stream'.idle => targets' = {})
            BY <3>1 DEF Streams, States
        <3>3. QED
            BY <1>0, <1>2, <1>p, <2>1, <3>1, <3>2 DEF StopListening
    <2>2. CASE ~IsOpen
        <3>1. stream' = stream /\ asked' = asked
            BY <1>2, <2>2 DEF StopListening
        <3>2. Sound(tracker') /\ (tracker'.timer => IsStarted')
            BY <1>0, <1>2, <1>u, <2>2, <3>1 DEF StopListening
        <3>3. QED
            BY <1>0, <1>2, <1>p, <2>2, <3>1, <3>2 DEF StopListening
    <2>3. QED
        BY <2>1, <2>2
<1>3. ASSUME NEW t \in Targets, ServerRejects(t) PROVE WatchInv'
    BY <1>0, <1>3, <1>p, <1>u DEF ServerRejects
<1>4. CASE Opens
    BY <1>0, <1>4, <1>p, <1>s DEF Opens, States
<1>5. CASE TokenFails
    BY <1>0, <1>5, CloseKeeps DEF TokenFails
<1>6. CASE BackoffElapses
    BY <1>0, <1>6, <1>p, <1>s DEF BackoffElapses, States
<1>7. CASE IdleTimeout
    BY <1>0, <1>7, <1>p, <1>s, <1>u DEF IdleTimeout, States
<1>8. CASE OnlineStateTimeout
    <2>1. PICK o \in {"Unknown", "Online", "Offline"}, f \in 0..kMaxWatchStreamFailures,
                b \in BOOLEAN : tracker = [online |-> o, failures |-> f, timer |-> b]
        BY <1>0 DEF Trackers, Sound
    <2>2. tracker' = [online |-> "Offline", failures |-> f, timer |-> FALSE]
        BY <1>8, <2>1 DEF OnlineStateTimeout
    <2>3. Sound(tracker') /\ ~tracker'.timer
        BY <2>2 DEF Sound, Trackers
    <2>4. QED
        BY <1>0, <1>8, <1>p, <2>3 DEF OnlineStateTimeout
<1>9. CASE RestartNetwork
    <2>1. restarts' \in Nat /\ targets' = targets
        BY <1>0, <1>9 DEF RestartNetwork
    <2>2. CASE targets # {}
        <3>1. /\ stream' = Fresh("Starting") /\ asked' = {}
              /\ tracker' = AfterStart(UpdateState("Unknown"))
            BY <1>9, <2>2 DEF RestartNetwork, StartWatchStream
        <3>2. Sound(tracker')
            BY <1>u, <3>1, StartIsSound
        <3>3. QED
            BY <1>0, <1>p, <1>s, <2>1, <3>1, <3>2 DEF States
    <2>3. CASE targets = {}
        <3>1. stream' = Fresh("Initial") /\ asked' = {} /\ tracker' = UpdateState("Unknown")
            BY <1>9, <2>3 DEF RestartNetwork
        <3>2. QED
            BY <1>0, <1>p, <1>s, <1>u, <2>1, <2>3, <3>1 DEF States
    <2>4. QED
        BY <2>2, <2>3
<1>10. CASE ServerAnswers
    BY <1>0, <1>10, <1>p, <1>u DEF ServerAnswers
<1>11. CASE StreamFails
    BY <1>0, <1>11, CloseKeeps DEF StreamFails
<1>12. CASE UNCHANGED vars
    BY <1>0, <1>12, <1>p DEF vars
<1>13. QED
    BY <1>1, <1>2, <1>3, <1>4, <1>5, <1>6, <1>7, <1>8, <1>9, <1>10, <1>11, <1>12 DEF Next

-----------------------------------------------------------------------------
\* The inductive invariant holds in every reachable state.
THEOREM WatchStreamCorrect == Spec => []WatchInv
<1>1. Init => WatchInv
    BY WatchInvInit
<1>2. WatchInv /\ [Next]_vars => WatchInv'
    BY WatchInvNext
<1>3. QED
    BY <1>1, <1>2, PTL DEF Spec

\* Every variable keeps its type.
THEOREM WatchStreamTypes == Spec => []TypeOK
<1>1. WatchInv => TypeOK
    BY DEF WatchInv
<1>2. QED
    BY <1>1, WatchStreamCorrect, PTL

\* The assertions of OnlineStateTracker hold: the online state timer runs only
\* while the state is Unknown and a stream is being tried.
THEOREM TrackerNeverAsserts == Spec => []TimerWhileTrying
<1>1. WatchInv => TimerWhileTrying
    BY DEF WatchInv
<1>2. QED
    BY <1>1, WatchStreamCorrect, PTL

\* OnWatchStreamClose never finds a stream that was stopped while still needed:
\* the idle timer runs only while nothing is listened to.
THEOREM IdleStreamsAreUnused == Spec => []IdleMeansUnused
<1>1. WatchInv => IdleMeansUnused
    BY DEF WatchInv
<1>2. QED
    BY <1>1, WatchStreamCorrect, PTL

\* However often the stream fails and is restarted, an open one watches exactly
\* what is listened to, and one is tried while there is anything to listen to.
THEOREM EveryTargetIsWatched == Spec => []WatchesItsTargets
<1>1. WatchInv => WatchesItsTargets
    BY DEF WatchInv
<1>2. QED
    BY <1>1, WatchStreamCorrect, PTL

-----------------------------------------------------------------------------
(* The refinement of StreamLifecycle.                                      *)

\* A close with an error is a failure.
LEMMA CloseFails ==
    ASSUME stream \in Streams, CloseOnError, UNCHANGED targets,
           stream.state \in {"Starting", "Open"}
    PROVE  Lifecycle!Fail
<1>1. \A state \in States : Fresh(state).state = state
    BY FreshStreams
<1>2. stream'.state = IF targets # {} THEN "Backoff" ELSE "Error"
    BY <1>1 DEF CloseOnError, StartWatchStream, States
<1>3. QED
    BY <1>2 DEF Lifecycle!Fail

\* The watch stream keeps to the diagram of stream.h, and no end of it leaves a
\* listener without a stream that is tried: every step of WatchStream is a step
\* of StreamLifecycle or leaves the state and the need for the stream alone.
THEOREM WatchStreamLives == Spec => ImplementsLifecycle
<1>1. Init => Lifecycle!Init
    BY DEF Init, Fresh, Lifecycle!Init
<1>2. ASSUME WatchInv, [Next]_vars PROVE [Lifecycle!Next]_(Lifecycle!vars)
    <2> USE DEF Lifecycle!Next, Lifecycle!vars, IsStarted, IsOpen
    <2>0. stream \in Streams /\ (stream.idle => IsOpen /\ targets = {})
        BY <1>2 DEF WatchInv, TypeOK, IdleMeansUnused
    <2>s. \A state \in States : Fresh(state).state = state
        BY FreshStreams
    <2>1. ASSUME NEW t \in Targets, Listen(t) PROVE [Lifecycle!Next]_(Lifecycle!vars)
        <3>1. targets' # {}
            BY <2>1 DEF Listen
        <3>2. CASE IsStarted
            <4>1. stream'.state = stream.state
                BY <2>0, <2>1, <2>s, <3>2 DEF Listen, SendWatchRequest, States
            <4>2. QED
                BY <3>1, <3>2, <4>1 DEF Lifecycle!Need, Lifecycle!IsStarted
        <3>3. CASE ~IsStarted
            <4>1. stream'.state = IF stream.state = "Error" THEN "Backoff" ELSE "Starting"
                BY <2>1, <2>s, <3>3 DEF Listen, StartWatchStream, States
            <4>2. targets = {}
                BY <1>2, <3>3 DEF WatchInv, WatchesItsTargets
            <4>3. QED
                BY <3>1, <3>3, <4>1, <4>2 DEF Lifecycle!Need, Lifecycle!IsStarted
        <3>4. QED
            BY <3>2, <3>3
    <2>2. ASSUME NEW t \in Targets, StopListening(t) PROVE [Lifecycle!Next]_(Lifecycle!vars)
        <3>1. targets # {} /\ stream'.state = stream.state
            BY <2>0, <2>2 DEF StopListening
        <3>2. QED
            BY <3>1 DEF Lifecycle!Release
    <2>3. ASSUME NEW t \in Targets, ServerRejects(t) PROVE [Lifecycle!Next]_(Lifecycle!vars)
        <3>1. targets # {} /\ stream' = stream
            BY <2>3, <1>2 DEF ServerRejects, WatchInv, WatchesItsTargets
        <3>2. QED
            BY <3>1 DEF Lifecycle!Release
    <2>4. CASE Opens
        BY <2>4, <2>s DEF Opens, States, Lifecycle!Open
    <2>5. CASE TokenFails
        BY <2>0, <2>5, CloseFails DEF TokenFails
    <2>6. CASE BackoffElapses
        BY <2>6, <2>s DEF BackoffElapses, States, Lifecycle!Elapse
    <2>7. CASE IdleTimeout
        BY <2>0, <2>7, <2>s DEF IdleTimeout, States, Lifecycle!Idle
    <2>8. CASE OnlineStateTimeout
        BY <2>8 DEF OnlineStateTimeout
    <2>9. CASE RestartNetwork
        <3>1. stream'.state = IF targets' # {} THEN "Starting" ELSE "Initial"
            BY <2>9, <2>s DEF RestartNetwork, StartWatchStream, States
        <3>2. QED
            BY <3>1 DEF Lifecycle!Restart, Lifecycle!Due
    <2>10. CASE ServerAnswers
        BY <2>10 DEF ServerAnswers
    <2>11. CASE StreamFails
        BY <2>0, <2>11, CloseFails DEF StreamFails
    <2>12. CASE UNCHANGED vars
        BY <2>12 DEF vars
    <2>13. QED
        BY <1>2, <2>1, <2>2, <2>3, <2>4, <2>5, <2>6, <2>7, <2>8, <2>9, <2>10, <2>11, <2>12 DEF Next
<1>3. QED
    BY <1>1, <1>2, WatchStreamCorrect, PTL DEF Spec, ImplementsLifecycle, Lifecycle!Spec

=============================================================================
