---------------------------- MODULE GrpcStream -----------------------------
(***************************************************************************)
(* One GrpcStream, the wrapper of a bidirectional gRPC call under the      *)
(* watch stream or the write stream, from its start to its destruction.    *)
(* The call's operations are asynchronous: each has a completion, which    *)
(* the gRPC thread takes off gRPC's queue while the worker runs, and which *)
(* then waits on the worker queue to run its callback.  Before the stream  *)
(* may be destroyed the worker has to cancel the callbacks and to block    *)
(* until every operation has come off gRPC's queue.                        *)
(*                                                                         *)
(* Actions are tasks of the worker queue, the two halves of a task that    *)
(* blocks, or what gRPC, the server and the network do, which is external. *)
(* The observer is a Stream: it destroys the stream in the task in which   *)
(* the stream loses its observer, so that observer also says whether the   *)
(* stream exists.  A message is its number.                                *)
(***************************************************************************)
EXTENDS Naturals, Sequences, FiniteSets

CONSTANTS
    MaxWrites,   \* bound on the messages the client writes
    MaxReplies   \* bound on the messages the server sends

ASSUME GrpcStreamAssumption == MaxWrites \in Nat /\ MaxReplies \in Nat

VARIABLES
    observer,     \* observer_ is set, and the stream exists
    told,         \* the observer was notified of the finish
    heard,        \* the messages the observer was given
    finished,     \* is_grpc_call_finished_
    ops,          \* the operations issued on the call, in order
    pending,      \* those that are on gRPC's queue
    completions,  \* those whose completions completions_ holds
    cancelled,    \* those whose callback_ was emptied
    tasks,        \* those off gRPC's queue whose task waits for the worker
    worker,       \* where the worker is blocked, and what it does after
    written,      \* how many messages the client wrote
    buffer,       \* queue_ of the BufferedWriter
    active,       \* has_active_write_
    call,         \* the call, as gRPC sees it
    replies,      \* how many messages arrived for the client
    taken,        \* how many of them reads have taken
    out           \* the messages gRPC has written out

client == <<written, buffer, active>>
network == <<call, replies, taken, out>>
vars == <<observer, told, heard, finished, ops, pending, completions, cancelled,
          tasks, worker, client, network>>

-----------------------------------------------------------------------------
Kinds == {"read", "write", "finish"}

\* ok is set when the operation comes off the queue, and a read's message.
Ops == [kind : Kinds, message : Nat, ok : BOOLEAN]

Op(kind, message) == [kind |-> kind, message |-> message, ok |-> FALSE]

\* then: what follows a wait. OnOperationFailed waits for nothing more, the
\* two ways of finishing the stream do or do not notify the observer.
Waits == [at : {"free", "last write", "finish", "drain"}, then : {"wait", "tell", "quiet"}]

Free == [at |-> "free", then |-> "wait"]

Init ==
    /\ observer = TRUE /\ told = FALSE /\ heard = <<>>
    /\ finished = FALSE
    /\ ops = <<>> /\ pending = {} /\ completions = {} /\ cancelled = {} /\ tasks = <<>>
    /\ worker = Free
    /\ written = 0 /\ buffer = <<>> /\ active = FALSE
    /\ call = "open" /\ replies = 0 /\ taken = 0 /\ out = <<>>

Started == ops # <<>>

\* A task of the worker queue can use the stream.
Runs == worker = Free /\ observer

New == Len(ops) + 1

\* NewCompletion, with the operation it is the tag of; held is what the stream
\* held before.
Issue(op, held) ==
    /\ ops' = Append(ops, op)
    /\ pending' = pending \cup {New}
    /\ completions' = held \cup {New}

ShutdownPatiently(then) ==
    /\ cancelled' = cancelled \cup completions
    /\ finished' = (finished \/ completions # {})
    /\ worker' = [at |-> IF completions # {} /\ ~finished THEN "finish" ELSE "drain",
                  then |-> then]
    /\ UNCHANGED call
\* Shutdown, up to where it blocks: an unfinished call is cancelled and then
\* finished; otherwise only what is left has to come off the queue.
Shutdown(then) ==
    /\ cancelled' = cancelled \cup completions
    /\ IF completions # {} /\ ~finished
       THEN /\ call' = IF call = "open" THEN "cancelled" ELSE call
            /\ finished' = TRUE
            /\ worker' = [at |-> "finish", then |-> then]
       ELSE /\ worker' = [at |-> "drain", then |-> then]
            /\ UNCHANGED <<call, finished>>

-----------------------------------------------------------------------------
(* The client.                                                             *)

\* Start, right after the construction: the first read is issued before the
\* observer is told that the stream is open.
Start ==
    /\ Runs /\ ~Started
    /\ Issue(Op("read", 0), {})
    /\ UNCHANGED <<observer, told, heard, finished, cancelled, tasks, worker, client,
                   network>>

\* A write is active until OnWrite has run.
BusyNever == FALSE
BusyUntilSent == \E i \in pending : ops[i].kind = "write"
Busy == active

\* The front of the queue is written, unless it is empty or the writer is busy.
TryStartWrite(queue, busy, held) ==
    IF busy \/ queue = <<>>
    THEN /\ buffer' = queue /\ active' = busy /\ completions' = held
         /\ UNCHANGED <<ops, pending>>
    ELSE /\ buffer' = Tail(queue) /\ active' = TRUE
         /\ Issue(Op("write", Head(queue)), held)

\* BufferedWriter::EnqueueWrite.
EnqueueWrite ==
    /\ written < MaxWrites
    /\ written' = written + 1
    /\ TryStartWrite(Append(buffer, written'), Busy, completions)

Write ==
    /\ Runs /\ Started
    /\ EnqueueWrite
    /\ UNCHANGED <<observer, told, heard, finished, cancelled, tasks, worker, network>>

\* The watch stream's TearDown, and a message that does not decode.
FinishImmediately ==
    /\ Runs /\ Started
    /\ Shutdown("quiet")
    /\ UNCHANGED <<observer, told, heard, ops, pending, completions, tasks, client,
                   replies, taken, out>>

\* GrpcConnection's callback for a change of connectivity.
FinishAndNotify ==
    /\ Runs /\ Started
    /\ Shutdown("tell")
    /\ UNCHANGED <<observer, told, heard, ops, pending, completions, tasks, client,
                   replies, taken, out>>

\* The write stream's TearDown: one more message if the writer is idle, with up
\* to half a second for it; otherwise it stays in the buffer for good.
WriteAndFinish ==
    /\ Runs /\ Started
    /\ IF finished
       THEN Shutdown("quiet") /\ UNCHANGED <<client, ops, pending, completions>>
       ELSE /\ EnqueueWrite
            /\ IF Busy
               THEN Shutdown("quiet")
               ELSE /\ worker' = [at |-> "last write", then |-> "quiet"]
                    /\ UNCHANGED <<cancelled, finished, call>>
    /\ UNCHANGED <<observer, told, heard, tasks, replies, taken, out>>

-----------------------------------------------------------------------------
(* The completions' tasks.                                                 *)

\* A cancelled completion has nothing to run.
RunCancelled(i) ==
    /\ i \in cancelled
    /\ UNCHANGED <<heard, finished, ops, pending, completions, cancelled, worker, client, call>>

OnReadLast(i) ==
    /\ i \notin cancelled
    /\ ops[i].kind = "read" /\ ops[i].ok
    /\ completions' = completions \ {i}
    /\ heard' = Append(heard, ops[i].message)
    /\ UNCHANGED <<ops, pending, finished, cancelled, worker, client, call>>
\* OnRead: the next read is issued before the observer gets the message.
OnRead(i) ==
    /\ i \notin cancelled
    /\ ops[i].kind = "read" /\ ops[i].ok
    /\ Issue(Op("read", 0), completions \ {i})
    /\ heard' = Append(heard, ops[i].message)
    /\ UNCHANGED <<finished, cancelled, worker, client, call>>

\* OnWrite: DequeueNextWrite.
OnWrite(i) ==
    /\ i \notin cancelled
    /\ ops[i].kind = "write" /\ ops[i].ok
    /\ TryStartWrite(buffer, FALSE, completions \ {i})
    /\ UNCHANGED <<heard, finished, cancelled, worker, written, call>>

OnFinishAlone(i) ==
    /\ i \notin cancelled
    /\ ops[i].kind = "finish"
    /\ completions' = completions \ {i}
    /\ worker' = [at |-> "drain", then |-> "tell"]
    /\ UNCHANGED <<heard, finished, ops, pending, cancelled, client, call>>
\* The callback of "finish": FinishAndNotify with the call's status.
OnFinish(i) ==
    /\ i \notin cancelled
    /\ ops[i].kind = "finish"
    /\ completions' = completions \ {i}
    /\ cancelled' = cancelled \cup completions'
    /\ worker' = [at |-> "drain", then |-> "tell"]
    /\ UNCHANGED <<heard, finished, ops, pending, client, call>>

OnOperationFailedUncancelled(i) ==
    /\ i \notin cancelled
    /\ ops[i].kind # "finish" /\ ~ops[i].ok
    /\ completions' = completions \ {i}
    /\ finished' = TRUE
    /\ worker' = IF finished THEN worker ELSE [at |-> "finish", then |-> "wait"]
    /\ UNCHANGED <<heard, ops, pending, cancelled, client, call>>
\* OnOperationFailed: the first failure finishes the call.
OnOperationFailed(i) ==
    /\ i \notin cancelled
    /\ ops[i].kind # "finish" /\ ~ops[i].ok
    /\ completions' = completions \ {i}
    /\ finished' = TRUE
    /\ IF finished
       THEN UNCHANGED <<cancelled, worker>>
       ELSE /\ cancelled' = cancelled \cup completions'
            /\ worker' = [at |-> "finish", then |-> "wait"]
    /\ UNCHANGED <<heard, ops, pending, client, call>>

RunTask ==
    /\ worker = Free
    /\ tasks # <<>>
    /\ tasks' = Tail(tasks)
    /\ LET i == Head(tasks)
       IN  RunCancelled(i) \/ OnRead(i) \/ OnWrite(i) \/ OnFinish(i) \/ OnOperationFailed(i)
    /\ UNCHANGED <<observer, told, replies, taken, out>>

-----------------------------------------------------------------------------
(* Where a task goes on after it blocked.                                  *)

\* WaitUntilOffQueue for all that the stream holds.
AllOffQueue == completions \cap pending = {}

\* TryLastWrite's wait is over, in time or not.
LastWriteOver ==
    /\ worker.at = "last write"
    /\ Shutdown(worker.then)
    /\ UNCHANGED <<observer, told, heard, ops, pending, completions, tasks, client,
                   replies, taken, out>>

\* FinishGrpcCall: nothing else may be outstanding when the call is finished.
\* Shutdown then waits for this operation too.
FinishGrpcCall ==
    /\ worker.at = "finish"
    /\ AllOffQueue
    /\ Issue(Op("finish", 0), {})
    /\ IF worker.then = "wait"
       THEN worker' = Free /\ UNCHANGED cancelled
       ELSE worker' = [worker EXCEPT !.at = "drain"] /\ cancelled' = cancelled \cup {New}
    /\ UNCHANGED <<observer, told, heard, finished, tasks, client, network>>

\* The end of Shutdown; the observer is told and destroys the stream.
Drained ==
    /\ worker.at = "drain"
    /\ AllOffQueue
    /\ completions' = {}
    /\ observer' = FALSE
    /\ told' = (worker.then = "tell")
    /\ worker' = Free
    /\ UNCHANGED <<heard, finished, ops, pending, cancelled, tasks, client, network>>

-----------------------------------------------------------------------------
(* gRPC, the server and the network.                                       *)

\* GrpcCompletion::Complete on the gRPC thread.
Complete(i, op) ==
    /\ ops' = [ops EXCEPT ![i] = op]
    /\ pending' = pending \ {i}
    /\ tasks' = Append(tasks, i)
    /\ UNCHANGED <<observer, told, heard, finished, completions, cancelled, worker,
                   client, call, replies>>

\* What arrived before the call ended can still be read.
ReadSucceeds(i) ==
    /\ i \in pending /\ ops[i].kind = "read"
    /\ taken < replies
    /\ taken' = taken + 1
    /\ Complete(i, [ops[i] EXCEPT !.message = taken + 1, !.ok = TRUE])
    /\ UNCHANGED out

WriteSucceeds(i) ==
    /\ i \in pending /\ ops[i].kind = "write"
    /\ call = "open"
    /\ out' = Append(out, ops[i].message)
    /\ Complete(i, [ops[i] EXCEPT !.ok = TRUE])
    /\ UNCHANGED taken

\* On a call that is over, reads and writes fail, and "finish" returns.
Ends(i) ==
    /\ i \in pending
    /\ call # "open"
    /\ Complete(i, [ops[i] EXCEPT !.ok = (ops[i].kind = "finish")])
    /\ UNCHANGED <<taken, out>>

ReplyArrives ==
    /\ call = "open" /\ Started
    /\ replies < MaxReplies
    /\ replies' = replies + 1
    /\ UNCHANGED <<observer, told, heard, finished, ops, pending, completions, cancelled,
                   tasks, worker, client, call, taken, out>>

\* The server or the network ends the call.
CallEnds ==
    /\ call = "open" /\ Started
    /\ call' = "ended"
    /\ UNCHANGED <<observer, told, heard, finished, ops, pending, completions, cancelled,
                   tasks, worker, client, replies, taken, out>>

-----------------------------------------------------------------------------
Next ==
    \/ Start \/ Write \/ FinishImmediately \/ FinishAndNotify \/ WriteAndFinish
    \/ RunTask \/ LastWriteOver \/ FinishGrpcCall \/ Drained
    \/ \E i \in 1..Len(ops) : ReadSucceeds(i) \/ WriteSucceeds(i) \/ Ends(i)
    \/ ReplyArrives \/ CallEnds

Spec == Init /\ [][Next]_vars

\* The worker runs its tasks and is woken, and gRPC returns the operations of
\* a call that is over; nothing makes the server answer or end the call.
Fairness ==
    /\ WF_vars(RunTask) /\ WF_vars(LastWriteOver) /\ WF_vars(FinishGrpcCall) /\ WF_vars(Drained)
    /\ WF_vars(\E i \in 1..Len(ops) : Ends(i))

FairSpec == Spec /\ Fairness

-----------------------------------------------------------------------------
\* Types of the state.
TypeOK ==
    /\ observer \in BOOLEAN /\ told \in BOOLEAN /\ finished \in BOOLEAN /\ active \in BOOLEAN
    /\ heard \in Seq(Nat) /\ buffer \in Seq(Nat) /\ out \in Seq(Nat)
    /\ ops \in Seq(Ops)
    /\ pending \subseteq 1..Len(ops)
    /\ completions \subseteq 1..Len(ops)
    /\ cancelled \subseteq 1..Len(ops)
    /\ tasks \in Seq(1..Len(ops))
    /\ worker \in Waits
    /\ written \in Nat /\ replies \in Nat /\ taken \in Nat
    /\ call \in {"open", "ended", "cancelled"}

\* The assertion of RemoveCompletion: a completion whose callback can still run
\* is one the stream holds.
RunsWhatItHolds ==
    \A i \in 1..Len(ops) :
        i \notin cancelled /\ (i \in pending \/ \E k \in 1..Len(tasks) : tasks[k] = i)
        => i \in completions

\* When the stream is destroyed gRPC has returned every operation, whose buffers
\* and call go with it, and no callback is left that would use the stream
\* (~GrpcStream, FastFinishCompletionsBlocking).
NothingOutlives ==
    ~observer => pending = {} /\ \A k \in 1..Len(tasks) : tasks[k] \in cancelled

\* Messages go out in the order they were written, and arrive in the order they
\* were sent, without a gap, through buffer, failures and cancelled reads.
InOrder ==
    /\ \A k \in 1..Len(out) : out[k] = k
    /\ \A k \in 1..Len(heard) : heard[k] = k

\* gRPC's requirement that BufferedWriter is there for: one write at a time,
\* the last one included.
OneWriteAtATime ==
    \A i, j \in pending : ops[i].kind = "write" /\ ops[j].kind = "write" => i = j

\* And FinishGrpcCall's: all that was issued before is off the queue.
FinishComesLast ==
    \A i \in 1..Len(ops), j \in pending : ops[i].kind = "finish" => j >= i

\* Whoever blocks waits for nothing that gRPC may keep: the call of the
\* operations that are still on its queue is over.
WaitsForWhatReturns == worker.at \in {"finish", "drain"} => AllOffQueue \/ call # "open"

\* On gRPC's queue, or off it with a task that can run.
Heeded(i) == i \notin cancelled /\ (i \in pending \/ \E k \in 1..Len(tasks) : tasks[k] = i)

\* A started stream always has an operation out that tells it of the end of the
\* call: its read, or "finish" once something failed. OnRead, OnOperationFailed
\* and the writes that are issued meanwhile never leave it without.
EndIsHeeded ==
    Started /\ observer /\ worker = Free =>
        \E i \in completions : /\ ops[i].kind = IF finished THEN "finish" ELSE "read"
                               /\ Heeded(i)

\* A call that ends is noticed, whichever operation fails first, and the stream
\* gives it up and is destroyed.
EndIsReported == call = "ended" ~> ~observer

\* Whoever blocks in Shutdown or FinishGrpcCall is woken: the call is cancelled
\* before its operations are waited for, or has ended.
WaitsEnd == worker # Free ~> worker = Free

=============================================================================
