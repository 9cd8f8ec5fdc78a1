--------------------------- MODULE WritePipeline ---------------------------
(***************************************************************************)
(* How a write gets from the app to the server.  SyncEngine puts it in the *)
(* mutation queue of the account, which LevelDB keeps; RemoteStore copies  *)
(* the front of the queue to a short pipeline and sends the pipeline down  *)
(* the write stream; the server's replies settle its first write, one      *)
(* after the other.  The stream breaks, backs off, is closed when idle and *)
(* is restarted for another account, and every time the pipeline must      *)
(* still say what the next reply is about.                                 *)
(*                                                                         *)
(* Each action is one task of the worker queue, except those of the server *)
(* and the network, which are external.  A write is a number, its batch    *)
(* id; what it changes is left out.  Credentials models how an account     *)
(* gets here; WatchStream has the other stream.                            *)
(***************************************************************************)
EXTENDS Naturals, Sequences

CONSTANTS
    Owners,       \* accounts; the signed-out user is one of them
    MaxPipeline,  \* kMaxPendingWrites
    MaxWrites,    \* bound on the writes the app makes
    MaxTrouble    \* bound on broken connections, restarts and relaunches

ASSUME WritePipelineAssumption ==
    /\ Owners # {}
    /\ MaxPipeline \in Nat \ {0}
    /\ MaxWrites \in Nat
    /\ MaxTrouble \in Nat

VARIABLES
    writes,     \* every write made and what became of it, as in Outbox
    clock,      \* counts what the server applies
    queue,      \* each account's mutation queue: batch ids, oldest first
    user,       \* SyncEngine's current_user_
    callbacks,  \* mutation_callbacks_: the batches somebody waits for
    pipeline,   \* RemoteStore's write_pipeline_
    stream,     \* the write stream: state_, handshake_complete_, idleness_timer_
    call,       \* the gRPC call of an open stream
    astray,     \* what the n-th trouble left on its way to the server
    trouble     \* how often something went wrong

vars == <<writes, clock, queue, user, callbacks, pipeline, stream, call, astray, trouble>>

-----------------------------------------------------------------------------
Outcomes == {"open", "ok", "failed"}

\* late: the server last applied it at the request of a call given up before.
Writes == [owner : Owners, outcome : Outcomes, stamp : Nat, refused : BOOLEAN,
           late : BOOLEAN]

States == {"Initial", "Starting", "Backoff", "Open", "Error"}

Streams == [state : States, handshake : BOOLEAN, idle : BOOLEAN]

\* requests: sent and not handled by the server, 0 being the handshake.
\* replies: answered and not read by the client, named by their requests.
\* end: the status the call ends with, once the server or the network ended it.
Calls == [requests : Seq(Nat), replies : Seq(Nat), end : {"none", "permanent", "transient"}]

NoCall == [requests |-> <<>>, replies |-> <<>>, end |-> "none"]

\* A stream that has just got into a state.
Fresh(state) == [state |-> state, handshake |-> FALSE, idle |-> FALSE]

Init ==
    /\ writes = <<>>
    /\ clock = 0
    /\ queue = [o \in Owners |-> <<>>]
    /\ user \in Owners
    /\ callbacks = [o \in Owners |-> {}]
    /\ pipeline = <<>>
    /\ stream = Fresh("Initial")
    /\ call = NoCall
    /\ astray = [n \in 1..MaxTrouble |-> <<>>]
    /\ trouble = 0

Trouble == trouble < MaxTrouble /\ trouble' = trouble + 1

-----------------------------------------------------------------------------
\* NextMutationBatchAfterBatchId: the place before the first batch after last.
PlaceOf(q, last) ==
    CHOOSE i \in 0..Len(q) :
        (\A j \in 1..i : q[j] <= last) /\ (\A j \in (i + 1)..Len(q) : q[j] > last)

Least(m, n) == IF m < n THEN m ELSE n

AdditionsOneMore(pipe, q) ==
    LET i == PlaceOf(q, IF pipe = <<>> THEN 0 ELSE pipe[Len(pipe)])
    IN  SubSeq(q, i + 1, Least(Len(q), i + 1 + MaxPipeline - Len(pipe)))

\* What FillWritePipeline adds: what follows in the queue while there is room.
Additions(pipe, q) ==
    LET last == IF pipe = <<>> THEN 0 ELSE pipe[Len(pipe)]
        i == PlaceOf(q, last)
    IN  SubSeq(q, i + 1, Least(Len(q), i + MaxPipeline - Len(pipe)))

IsStarted(s) == s.state \in {"Starting", "Backoff", "Open"}

SendsEarly(s) == s.state = "Open"

\* Only then does AddToWritePipeline write to the stream.
Sends(s) == s.state = "Open" /\ s.handshake

StartBacksOff(s) == [s EXCEPT !.state = "Backoff"]

\* Stream::Start.
Start(s) == [s EXCEPT !.state = IF @ = "Error" THEN "Backoff" ELSE "Starting"]

StirNot(s, sent) == s

\* Stream::Write cancels the idle check, MarkIdle starts it.
Stir(s, sent) ==
    IF sent THEN [s EXCEPT !.idle = FALSE] ELSE s

MarkIdle(s) == IF s.state = "Open" THEN [s EXCEPT !.idle = TRUE] ELSE s

\* The pipeline, the stream and the call after FillWritePipeline found them so.
FillWritePipeline(pipe, q, s, c) ==
    LET new == Additions(pipe, q)
        all == pipe \o new
    IN  /\ pipeline' = all
        /\ call' = IF Sends(s) THEN [c EXCEPT !.requests = @ \o new] ELSE c
        /\ stream' =
             IF all = <<>> THEN MarkIdle(s)
             ELSE IF IsStarted(s) THEN Stir(s, Sends(s) /\ new # <<>>)
             ELSE Start(s)

WithoutLast(q, b) == SubSeq(q, 1, Len(q) - 1)

\* RemoveMutationBatch.
Without(q, b) ==
    LET i == CHOOSE i \in DOMAIN q : q[i] = b
    IN  SubSeq(q, 1, i - 1) \o SubSeq(q, i + 1, Len(q))

\* HandleSuccessfulWrite and HandleRejectedWrite: the batch leaves the queue and
\* its callback, if this launch has one, is called and forgotten.
Settle(b, outcome) ==
    /\ writes' = [writes EXCEPT ![b] = [@ EXCEPT !.outcome = outcome]]
    /\ queue' = [queue EXCEPT ![user] = Without(@, b)]
    /\ callbacks' = [callbacks EXCEPT ![user] = @ \ {b}]

-----------------------------------------------------------------------------
\* The app writes, and waits.
WriteMutations ==
    LET b == Len(writes) + 1
    IN  /\ Len(writes) < MaxWrites
        /\ writes' = Append(writes,
             [owner |-> user, outcome |-> "open", stamp |-> 0, refused |-> FALSE,
              late |-> FALSE])
        /\ queue' = [queue EXCEPT ![user] = Append(@, b)]
        /\ callbacks' = [callbacks EXCEPT ![user] = @ \cup {b}]
        /\ FillWritePipeline(pipeline, queue'[user], stream, call)
        /\ UNCHANGED <<clock, user, astray, trouble>>

\* The client gives up a live call: the writes it sent may have got to the server,
\* which takes them in their order, whenever it does, or never. It takes no more
\* of a call that it ended itself or that was lost before.
GiveUpCall ==
    astray' = [astray EXCEPT ![trouble + 1] =
        IF stream.handshake /\ call.end = "none" THEN call.requests ELSE <<>>]

\* Stopping the stream, clearing the pipeline, inhibiting the backoff and
\* enabling the network again.
RestartNetwork(u) ==
    /\ GiveUpCall
    /\ FillWritePipeline(<<>>, queue[u], Fresh("Initial"), NoCall)

\* With the same account it stands for the connectivity callback as well.
HandleCredentialChange(u) ==
    /\ Trouble
    /\ user' = u
    /\ RestartNetwork(u)
    /\ UNCHANGED <<writes, clock, queue, callbacks>>

\* The process ends and the app is opened again, signed in or not.
Relaunch(u) ==
    /\ Trouble
    /\ user' = u
    /\ callbacks' = [o \in Owners |-> {}]
    /\ RestartNetwork(u)
    /\ UNCHANGED <<writes, clock, queue>>

\* The token arrives: the call starts, and the handshake is written at once.
ResumeStart ==
    /\ stream.state = "Starting"
    /\ stream' = [stream EXCEPT !.state = "Open", !.idle = FALSE]
    /\ call' = [NoCall EXCEPT !.requests = <<0>>]
    /\ UNCHANGED <<writes, clock, queue, user, callbacks, pipeline, astray, trouble>>

CloseOnErrorShaken ==
    /\ stream' = [stream EXCEPT !.state = IF pipeline = <<>> THEN "Error" ELSE "Backoff"]
    /\ call' = NoCall

\* Close with an error that concerns no write: OnWriteStreamClose starts again.
CloseOnError ==
    /\ stream' = IF pipeline = <<>> THEN Fresh("Error") ELSE Start(Fresh("Error"))
    /\ call' = NoCall

\* There is no token.
ResumeFails ==
    /\ stream.state = "Starting"
    /\ Trouble
    /\ CloseOnError
    /\ UNCHANGED <<writes, clock, queue, user, callbacks, pipeline, astray>>

BackoffElapses ==
    /\ stream.state = "Backoff"
    /\ stream' = Start([stream EXCEPT !.state = "Initial"])
    /\ UNCHANGED <<writes, clock, queue, user, callbacks, pipeline, call, astray, trouble>>

-----------------------------------------------------------------------------
\* OnWriteStreamHandshakeComplete: the first reply is for the handshake.
ReadHandshake ==
    /\ stream.state = "Open" /\ ~stream.handshake
    /\ call.replies # <<>>
    /\ stream' = Stir([stream EXCEPT !.handshake = TRUE], pipeline # <<>>)
    /\ call' = [call EXCEPT !.requests = call.requests \o pipeline, !.replies = Tail(call.replies)]
    /\ UNCHANGED <<writes, clock, queue, user, callbacks, pipeline, astray, trouble>>

\* OnWriteStreamMutationResult: every other reply is for the first write.
ReadResult ==
    /\ stream.state = "Open" /\ stream.handshake
    /\ call.replies # <<>>
    /\ Settle(Head(pipeline), "ok")
    /\ FillWritePipeline(Tail(pipeline), queue'[user], stream, [call EXCEPT !.replies = Tail(@)])
    /\ UNCHANGED <<clock, user, astray, trouble>>

\* gRPC completes the reads before it fails one.
Finished == stream.state = "Open" /\ call.end # "none" /\ call.replies = <<>>

ConcernsWriteEarly == call.end = "permanent" /\ pipeline # <<>>

ConcernsWriteAnyway == stream.handshake /\ pipeline # <<>>

\* IsPermanentWriteError, after the handshake: Aborted is retried.
ConcernsWrite == call.end = "permanent" /\ stream.handshake /\ pipeline # <<>>

\* HandleWriteError: the first write is to blame, and there is no backoff.
HandleWriteError ==
    /\ Finished
    /\ ConcernsWrite
    /\ Settle(Head(pipeline), "failed")
    /\ FillWritePipeline(Tail(pipeline), queue'[user], Fresh("Initial"), NoCall)
    /\ UNCHANGED <<clock, user, astray, trouble>>

StreamFails ==
    /\ Finished
    /\ ~ConcernsWrite
    /\ CloseOnError
    /\ UNCHANGED <<writes, clock, queue, user, callbacks, pipeline, astray, trouble>>

\* Nothing is on its way on an idle stream.
IdleTimeout ==
    /\ stream.idle
    /\ stream' = Fresh("Initial")
    /\ call' = NoCall
    /\ UNCHANGED <<writes, clock, queue, user, callbacks, pipeline, astray, trouble>>

-----------------------------------------------------------------------------
\* The server takes the requests of a call in order.
Takes == call.end = "none" /\ call.requests # <<>>

Apply(b, late) ==
    /\ writes' = [writes EXCEPT ![b] = [@ EXCEPT !.stamp = clock + 1, !.late = late]]
    /\ clock' = clock + 1

Refuse(b) == writes' = [writes EXCEPT ![b] = [@ EXCEPT !.refused = TRUE]]

\* It accepts one and replies: the handshake, or a write it applies.
ServerAccepts ==
    LET b == Head(call.requests)
    IN  /\ Takes
        /\ call' = [call EXCEPT !.requests = Tail(call.requests), !.replies = Append(call.replies, b)]
        /\ IF b = 0 THEN UNCHANGED <<writes, clock>>
           ELSE Apply(b, FALSE)
        /\ UNCHANGED <<queue, user, callbacks, pipeline, stream, astray, trouble>>

\* It refuses one and ends the call. A handshake is refused at most MaxTrouble
\* times.
ServerRefuses ==
    LET b == Head(call.requests)
    IN  /\ Takes
        /\ call' = [call EXCEPT !.requests = Tail(@), !.end = "permanent"]
        /\ IF b = 0 THEN Trouble /\ UNCHANGED writes
           ELSE Refuse(b) /\ UNCHANGED trouble
        /\ UNCHANGED <<clock, queue, user, callbacks, pipeline, stream, astray>>

\* It takes a request of a call that the client gave up; nobody hears of it.
ServerAcceptsLate(n) ==
    /\ astray[n] # <<>>
    /\ Apply(Head(astray[n]), TRUE)
    /\ astray' = [astray EXCEPT ![n] = Tail(@)]
    /\ UNCHANGED <<queue, user, callbacks, pipeline, stream, call, trouble>>

ServerRefusesLate(n) ==
    /\ astray[n] # <<>>
    /\ Refuse(Head(astray[n]))
    /\ astray' = [astray EXCEPT ![n] = <<>>]
    /\ UNCHANGED <<clock, queue, user, callbacks, pipeline, stream, call, trouble>>

\* The connection breaks; a part of the replies still gets here.
ConnectionLost ==
    /\ stream.state = "Open"
    /\ call.end = "none"
    /\ Trouble
    /\ GiveUpCall
    /\ \E n \in 0..Len(call.replies) :
          call' = [call EXCEPT !.replies = SubSeq(@, 1, n), !.end = "transient"]
    /\ UNCHANGED <<writes, clock, queue, user, callbacks, pipeline, stream>>

\* A write of an ended call fails before the replies are read: the call is
\* finished on the spot, and the reads that completed meanwhile are cancelled.
WriteFailsFirst ==
    /\ call.end # "none"
    /\ call.requests # <<>>
    /\ call.replies # <<>>
    /\ call' = [call EXCEPT !.replies = <<>>]
    /\ UNCHANGED <<writes, clock, queue, user, callbacks, pipeline, stream, astray, trouble>>

Next ==
    \/ WriteMutations
    \/ \E u \in Owners : HandleCredentialChange(u) \/ Relaunch(u)
    \/ ResumeStart \/ ResumeFails \/ BackoffElapses
    \/ ReadHandshake \/ ReadResult \/ HandleWriteError \/ StreamFails \/ IdleTimeout
    \/ ServerAccepts \/ ServerRefuses \/ ConnectionLost \/ WriteFailsFirst
    \/ \E n \in 1..MaxTrouble : ServerAcceptsLate(n) \/ ServerRefusesLate(n)

Spec == Init /\ [][Next]_vars

\* The worker queue runs what is on it: tokens, timers, reads, finishes. The
\* server answers what it gets, or refuses.
Fairness ==
    /\ WF_vars(ResumeStart \/ ResumeFails)
    /\ WF_vars(BackoffElapses)
    /\ WF_vars(ReadHandshake \/ ReadResult)
    /\ WF_vars(HandleWriteError \/ StreamFails)
    /\ WF_vars(ServerAccepts \/ ServerRefuses)

LiveSpec == Spec /\ Fairness

-----------------------------------------------------------------------------
InQueue(q, b) == \E i \in DOMAIN q : q[i] = b

\* The writes of b's account made before b; w is the history.
Before(w, b) == {a \in 1..(b - 1) : w[a].owner = w[b].owner}

Seen(write) == write.stamp > 0 \/ write.refused

Increasing(s) == \A i, j \in DOMAIN s : i < j => s[i] < s[j]

\* Types; the pipeline never holds more than kMaxPendingWrites.
TypeOK ==
    /\ writes \in Seq(Writes) /\ Len(writes) <= MaxWrites
    /\ clock \in Nat
    /\ queue \in [Owners -> Seq(1..MaxWrites)]
    /\ user \in Owners
    /\ callbacks \in [Owners -> SUBSET (1..MaxWrites)]
    /\ pipeline \in Seq(1..MaxWrites) /\ Len(pipeline) <= MaxPipeline
    /\ stream \in Streams
    /\ call \in Calls
    /\ astray \in [1..MaxTrouble -> Seq(1..MaxWrites)]
    /\ trouble \in 0..MaxTrouble

\* A reply read after the handshake is about the first write of the pipeline,
\* which the client merely assumes (remote_store.cc, OnWriteStreamMutationResult
\* and its assertion).
AnswersTheFirst ==
    stream.handshake /\ call.replies # <<>> =>
        pipeline # <<>> /\ Head(call.replies) = Head(pipeline)

\* A write leaves the queue as done only if the server applied it, and as failed
\* only if the server saw it.
SettledByServer ==
    \A b \in DOMAIN writes :
        /\ writes[b].outcome = "ok" => writes[b].stamp > 0
        /\ writes[b].outcome = "failed" => Seen(writes[b])

\* a does not overwrite b, unless the server took it from a call given up before:
\* against that the client can do nothing, its requests carry no stream token.
StaysBelow(w, a, b) == w[a].stamp < w[b].stamp \/ w[a].late

\* However often the client sends its writes again, it never makes the server
\* apply one after a later write of the account that was reported as done.
LastWriteStands ==
    \A b \in DOMAIN writes : writes[b].outcome = "ok" =>
        \A a \in Before(writes, b) : StaysBelow(writes, a, b)

\* What is in the pipeline or on its way to the server was written under the
\* account in effect: the stream carries that account's token.
OwnAccount ==
    /\ \A i \in DOMAIN pipeline : writes[pipeline[i]].owner = user
    /\ \A i \in DOMAIN call.requests :
          call.requests[i] # 0 => writes[call.requests[i]].owner = user

\* Only an idle stream is closed as idle (the assertion of OnWriteStreamClose).
IdleOnlyWhenEmpty == stream.idle => stream.state = "Open" /\ pipeline = <<>>

\* What can be sent is in the pipeline, and while it holds something the stream
\* runs or is about to.
NeverForgotten ==
    /\ Len(pipeline) = Least(Len(queue[user]), MaxPipeline)
    /\ pipeline # <<>> => IsStarted(stream)

\* Whoever waits for a write waits for one that is still to be settled.
CallbacksWait == \A o \in Owners : \A b \in callbacks[o] : InQueue(queue[o], b)

\* A write is open as long as it is in its account's queue.
OpenInQueue ==
    \A b \in DOMAIN writes : writes[b].outcome = "open" <=> InQueue(queue[writes[b].owner], b)

-----------------------------------------------------------------------------
Box == INSTANCE Outbox

\* What the queues hold.
QueuesHold ==
    \A o \in Owners :
        /\ Increasing(queue[o])
        /\ \A i \in DOMAIN queue[o] :
              /\ queue[o][i] \in DOMAIN writes
              /\ writes[queue[o][i]].owner = o
              /\ writes[queue[o][i]].outcome = "open"

PipelineIsFront ==
    /\ Len(pipeline) = Least(Len(queue[user]), MaxPipeline)
    /\ \A i \in DOMAIN pipeline : pipeline[i] = queue[user][i]

\* Only an open stream has a call, a handshake and an idle check.
ClosedIsFresh ==
    stream.state # "Open" => stream = Fresh(stream.state) /\ call = NoCall

\* A stream is only started when there is something to send.
StartedForWrites == IsStarted(stream) /\ ~stream.handshake => pipeline # <<>>

\* Before the handshake nothing else is on the way.
OnlyHandshake ==
    stream.state = "Open" /\ ~stream.handshake =>
        /\ call.requests # <<>> => call.requests = <<0>> /\ call.replies = <<>>
        /\ call.replies # <<>> => call.replies = <<0>> /\ call.end # "permanent"

\* After it the replies are about the front of the pipeline, each applied after
\* all that its account wrote before.
RepliesAreFront ==
    stream.handshake =>
        /\ Len(call.replies) <= Len(pipeline)
        /\ \A i \in DOMAIN call.replies :
              /\ call.replies[i] = pipeline[i]
              /\ writes[pipeline[i]].stamp > 0
              /\ \A a \in Before(writes, pipeline[i]) : StaysBelow(writes, a, pipeline[i])

\* While the call lives, the requests are the rest of the pipeline.
RequestsAreRest ==
    stream.handshake /\ call.end = "none" =>
        /\ Len(call.replies) + Len(call.requests) = Len(pipeline)
        /\ \A i \in DOMAIN call.requests : call.requests[i] = pipeline[Len(call.replies) + i]

\* A broken call still holds requests for writes.
RequestsAreWrites ==
    stream.handshake => \A i \in DOMAIN call.requests : call.requests[i] \in DOMAIN writes

\* The write a refused call is about to be blamed on was seen by the server.
BlamedWasSeen ==
    stream.handshake /\ call.end = "permanent" =>
        /\ Len(call.replies) < Len(pipeline)
        /\ Seen(writes[pipeline[Len(call.replies) + 1]])

\* Stamps are in the past, and an account's writes are settled in order.
History ==
    /\ \A b \in DOMAIN writes : writes[b].stamp <= clock
    /\ \A b \in DOMAIN writes : writes[b].outcome # "open" =>
          \A a \in Before(writes, b) : writes[a].outcome # "open"

\* What went astray is of a piece, too: what the account wrote before a request is
\* settled, was seen, or is before it in the same call.
AstrayInOrder ==
    \A n \in 1..MaxTrouble : \A i \in DOMAIN astray[n] :
        /\ astray[n][i] \in DOMAIN writes
        /\ \A a \in Before(writes, astray[n][i]) :
              \/ writes[a].outcome # "open"
              \/ Seen(writes[a])
              \/ \E j \in 1..(i - 1) : astray[n][j] = a

\* Why each reply is about the first write: queue, pipeline, replies and requests
\* are pieces of one sequence, through every break and change of account.
PipelineInv ==
    /\ TypeOK /\ QueuesHold /\ OpenInQueue /\ PipelineIsFront /\ NeverForgotten
    /\ ClosedIsFresh /\ StartedForWrites /\ IdleOnlyWhenEmpty /\ OnlyHandshake /\ RepliesAreFront
    /\ RequestsAreRest /\ RequestsAreWrites /\ BlamedWasSeen /\ OwnAccount /\ CallbacksWait
    /\ History /\ SettledByServer /\ LastWriteStands /\ AstrayInOrder

\* Pipeline, stream and server together keep the promises of Outbox.
ImplementsOutbox == Box!Spec

Lifecycle == INSTANCE StreamLifecycle WITH
    state <- stream.state, needed <- queue[user] # <<>>

\* The write stream is tried for as long as the queue of the account holds a
\* write, whatever ends it, and let go only when it holds none (Close,
\* StopDueToIdleness, OnWriteStreamClose).
ImplementsLifecycle == Lifecycle!Spec

\* The call of an open stream: a request the server will take, a reply to be
\* read, or the call's end.
Continues ==
    call.end # "none" \/ call.replies # <<>> \/ call.requests # <<>>

\* The pipeline never waits for nothing: while it holds a write there is a token,
\* a backoff, the server, a reply or the end of the call to come, and the task
\* that it brings can run. Otherwise WriteResolves would be a matter of luck.
NeverStalls ==
    pipeline # <<>> =>
        \/ stream.state \in {"Starting", "Backoff"}
        \/ stream.state = "Open" /\ Continues

\* A write of an account that stays signed in is settled in the end.
WriteResolves ==
    \A o \in Owners, b \in 1..MaxWrites :
        InQueue(queue[o], b) /\ user = o ~> ~InQueue(queue[o], b) \/ user # o

\* "If this was a permanent error, the request itself was the problem so it's
\* not going to succeed if we resend it" (remote_store.cc, HandleWriteError): the
\* write that is given up was refused.
RejectedWasRefused ==
    \A b \in DOMAIN writes : writes[b].outcome = "failed" => writes[b].refused

=============================================================================
