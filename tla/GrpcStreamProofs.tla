-------------------------- MODULE GrpcStreamProofs --------------------------
(***************************************************************************)
(* The safety properties of GrpcStream, for any number of writes and       *)
(* replies.  The inductive invariant says whose each operation is: Held    *)
(* relates gRPC's queue, the worker's tasks and what the stream holds,     *)
(* Writing and Reading count the messages on their way out and in.  The    *)
(* proof goes by the shapes that steps have: an operation is issued, a     *)
(* message goes through the writer, gRPC completes an operation, or the    *)
(* stream lets go of completions.                                          *)
(***************************************************************************)
EXTENDS GrpcStream, TLAPS

\* What gRPC has on its queue the stream holds, and nothing is on both queues
\* or twice on one.
Held ==
    /\ pending \subseteq completions
    /\ \A k \in 1..Len(tasks) : tasks[k] \notin pending
    /\ \A k, n \in 1..Len(tasks) : tasks[k] = tasks[n] => k = n
    /\ RunsWhatItHolds

\* Whoever waits for all that the stream holds has cancelled it before, and the
\* stream lets go of everything when it is destroyed.
Blocked ==
    /\ worker.at \in {"finish", "drain"} => completions \subseteq cancelled
    /\ ~observer => completions = {} /\ worker = Free

\* The messages written are, in this order, those that are out, the one that is
\* being written, and the buffer.
Writing ==
    /\ \A i, j \in completions : ops[i].kind = "write" /\ ops[j].kind = "write" => i = j
    /\ \A i \in completions : ops[i].kind = "write" => active
    /\ ~active => buffer = <<>>
    /\ \A k \in 1..Len(buffer) : buffer[k] = (written - Len(buffer)) + k
    /\ call = "open" =>
          /\ \A i \in pending : ops[i].kind = "write" =>
                 ops[i].message = Len(out) + 1 /\ Len(out) + 1 = written - Len(buffer)
          /\ (\A i \in pending : ops[i].kind # "write") => Len(out) = written - Len(buffer)
    /\ \A k \in 1..Len(out) : out[k] = k

\* There is one read at most, and while its callback can run it has taken what
\* follows the messages that were heard.
Reading ==
    /\ \A i, j \in completions : ops[i].kind = "read" /\ ops[j].kind = "read" => i = j
    /\ Len(ops) = 0 => taken = Len(heard)
    /\ \A i \in pending : ~ops[i].ok
    /\ \A i \in completions : i \notin cancelled /\ ops[i].kind = "read" =>
          /\ i \in pending => taken = Len(heard)
          /\ ops[i].ok => ops[i].message = Len(heard) + 1 /\ taken = Len(heard) + 1
    /\ \A k \in 1..Len(heard) : heard[k] = k

GrpcInv == TypeOK /\ Held /\ Blocked /\ Writing /\ Reading /\ FinishComesLast

-----------------------------------------------------------------------------
(* Facts about the shapes of steps.                                        *)

\* What issuing an operation does to the operations.
LEMMA IssueFacts ==
    ASSUME NEW op \in Ops, NEW held, ops \in Seq(Ops), Issue(op, held)
    PROVE  /\ ops' \in Seq(Ops) /\ Len(ops') = Len(ops) + 1
           /\ ops'[New] = op
           /\ \A i \in 1..Len(ops) : ops'[i] = ops[i]
           /\ pending' = pending \cup {New} /\ completions' = held \cup {New}
           /\ New \in 1..Len(ops') /\ New \notin 1..Len(ops)
           /\ 1..Len(ops) \subseteq 1..Len(ops')
           /\ \A i \in 1..Len(ops') : i = New \/ i \in 1..Len(ops)
BY DEF Issue, New

\* What Op makes is an operation.
LEMMA OpFacts ==
    ASSUME NEW kind \in Kinds, NEW message \in Nat
    PROVE  /\ Op(kind, message) \in Ops /\ Op(kind, message).kind = kind
           /\ Op(kind, message).message = message /\ ~Op(kind, message).ok
BY DEF Op, Ops

\* What completing an operation makes of it.
LEMMA OpUpdates ==
    ASSUME NEW op \in Ops, NEW message \in Nat, NEW ok \in BOOLEAN
    PROVE  /\ [op EXCEPT !.message = message, !.ok = ok] \in Ops
           /\ [op EXCEPT !.message = message, !.ok = ok].kind = op.kind
           /\ [op EXCEPT !.message = message, !.ok = ok].message = message
           /\ [op EXCEPT !.ok = ok] \in Ops
           /\ [op EXCEPT !.ok = ok].kind = op.kind
           /\ [op EXCEPT !.ok = ok].message = op.message
           /\ ~ok => ~[op EXCEPT !.ok = ok].ok
BY DEF Ops

\* What completing an operation does to the operations and the queues.
LEMMA CompleteFacts ==
    ASSUME NEW i \in 1..Len(ops), NEW op \in Ops, ops \in Seq(Ops), tasks \in Seq(1..Len(ops)),
           Complete(i, op)
    PROVE  /\ ops' \in Seq(Ops) /\ Len(ops') = Len(ops)
           /\ ops'[i] = op
           /\ \A j \in 1..Len(ops) : j # i => ops'[j] = ops[j]
           /\ pending' = pending \ {i}
           /\ tasks' \in Seq(1..Len(ops')) /\ Len(tasks') = Len(tasks) + 1
           /\ tasks'[Len(tasks) + 1] = i
           /\ \A k \in 1..Len(tasks) : tasks'[k] = tasks[k]
BY DEF Complete

-----------------------------------------------------------------------------
(* The writer.                                                             *)

\* Letting go of completions, ending the call and everything that touches
\* neither the writer nor an operation keeps what is written in order.
LEMMA WritingShrinks ==
    ASSUME Writing, UNCHANGED <<ops, pending, client, out>>, completions' \subseteq completions,
           call' = "open" => call = "open"
    PROVE  Writing'
BY DEF Writing, client

\* So does a read or a finish that is issued.
LEMMA WritingIssues ==
    ASSUME TypeOK, Writing, NEW kind \in {"read", "finish"}, NEW held \in SUBSET completions,
           Issue(Op(kind, 0), held), UNCHANGED <<client, call, out>>
    PROVE  Writing'
<1>1. /\ ops' \in Seq(Ops) /\ ops'[New].kind = kind
      /\ \A i \in 1..Len(ops) : ops'[i] = ops[i]
      /\ pending' = pending \cup {New} /\ completions' = held \cup {New}
      /\ New \notin 1..Len(ops)
    <2>1. Op(kind, 0) \in Ops /\ Op(kind, 0).kind = kind /\ ops \in Seq(Ops)
        BY OpFacts DEF TypeOK, Kinds
    <2>2. QED
        BY <2>1, IssueFacts
<1>2. pending \subseteq 1..Len(ops) /\ held \subseteq 1..Len(ops)
    BY DEF TypeOK
<1>3. \A i \in completions' : ops'[i].kind = "write" => i \in completions /\ ops'[i] = ops[i]
    BY <1>1, <1>2
<1>4. \A i \in pending' : ops'[i].kind = "write" => i \in pending /\ ops'[i] = ops[i]
    BY <1>1, <1>2
<1>5. (\A i \in pending' : ops'[i].kind # "write") => \A i \in pending : ops[i].kind # "write"
    BY <1>1, <1>2
<1>6. QED
    BY <1>3, <1>4, <1>5 DEF Writing, client

\* A completed operation is no longer waited for; a write that succeeded is out.
LEMMA WritingCompletes ==
    ASSUME TypeOK, Writing, pending \subseteq completions, NEW i \in pending, NEW op \in Ops,
           op.kind = ops[i].kind, op.message = ops[i].message \/ ops[i].kind # "write",
           Complete(i, op),
           \/ ops[i].kind = "write" /\ call = "open" /\ out' = Append(out, ops[i].message)
           \/ (ops[i].kind # "write" \/ call # "open") /\ out' = out
    PROVE  Writing'
<1>1. /\ ops'[i] = op /\ pending' = pending \ {i}
      /\ \A j \in 1..Len(ops) : j # i => ops'[j] = ops[j]
    BY CompleteFacts DEF TypeOK
<1>2. UNCHANGED <<written, buffer, active, completions, call>>
    BY DEF Complete, client
<1>3. \A j \in completions : ops'[j].kind = ops[j].kind
    BY <1>1 DEF TypeOK
<1>4. \A j \in pending' : ops'[j] = ops[j] /\ j \in pending
    BY <1>1 DEF TypeOK
<1>5. CASE ops[i].kind = "write" /\ call = "open"
    <2>1. /\ out' = Append(out, ops[i].message) /\ ops[i].message = Len(out) + 1
          /\ Len(out) + 1 = written - Len(buffer)
        BY <1>5 DEF Writing
    <2>2. Len(out') = Len(out) + 1 /\ \A k \in 1..Len(out') : out'[k] = k
        <3>1. out \in Seq(Nat) /\ Len(out) \in Nat
            BY DEF TypeOK
        <3>2. /\ Len(out') = Len(out) + 1 /\ out'[Len(out) + 1] = Len(out) + 1
              /\ \A k \in 1..Len(out) : out'[k] = out[k]
            BY <2>1, <3>1
        <3>3. \A k \in 1..Len(out) : out[k] = k
            BY DEF Writing
        <3>4. QED
            BY <3>1, <3>2, <3>3
    <2>3. \A j \in pending' : ops'[j].kind # "write"
        BY <1>1, <1>4, <1>5 DEF Writing
    <2>4. QED
        BY <1>2, <1>3, <2>1, <2>2, <2>3 DEF Writing
<1>6. CASE ops[i].kind # "write" \/ call # "open"
    <2>1. out' = out
        BY <1>6
    <2>2. ops[i].kind # "write" /\ (\A j \in pending' : ops'[j].kind # "write")
              => \A j \in pending : ops[j].kind # "write"
        BY <1>1, <1>4
    <2>3. QED
        BY <1>2, <1>3, <1>4, <1>6, <2>1, <2>2 DEF Writing
<1>7. QED
    BY <1>5, <1>6

\* The writer takes the front of its queue when it is free, and its queue is
\* what follows the message that went out last.
LEMMA WritingStarts ==
    ASSUME TypeOK, Writing, NEW queue \in Seq(Nat), NEW busy \in BOOLEAN,
           NEW held \in SUBSET completions, TryStartWrite(queue, busy, held),
           written' \in Nat, UNCHANGED out, call' = "open" => call = "open",
           \A k \in 1..Len(queue) : queue[k] = (written' - Len(queue)) + k,
           pending \subseteq held,
           IF busy THEN active /\ Len(queue) - Len(buffer) = written' - written
                   ELSE /\ \A i \in held : ops[i].kind # "write"
                        /\ call = "open" => Len(out) = written' - Len(queue)
    PROVE  Writing'
<1>0. /\ pending \subseteq 1..Len(ops) /\ held \subseteq 1..Len(ops)
      /\ Len(buffer) \in Nat /\ Len(queue) \in Nat /\ Len(out) \in Nat /\ written \in Nat
    BY DEF TypeOK
<1>1. CASE busy
    <2>1. /\ buffer' = queue /\ active' = TRUE /\ completions' = held /\ active
          /\ UNCHANGED <<ops, pending>>
        BY <1>1 DEF TryStartWrite
    <2>2. written' - Len(buffer') = written - Len(buffer)
        <3>1. Len(queue) - Len(buffer) = written' - written
            BY <1>1
        <3>2. Len(buffer') = Len(queue)
            BY <2>1
        <3>3. \A b, w, q, v \in Nat : q - b = v - w => v - q = w - b
            OBVIOUS
        <3>4. QED
            BY <1>0, <3>1, <3>2, <3>3
    <2>3. QED
        BY <2>1, <2>2 DEF Writing
<1>2. CASE ~busy /\ queue = <<>>
    <2>1. /\ buffer' = <<>> /\ active' = FALSE /\ completions' = held /\ Len(queue) = 0
          /\ UNCHANGED <<ops, pending>>
        BY <1>2 DEF TryStartWrite
    <2>2. QED
        BY <1>0, <1>2, <2>1 DEF Writing
<1>3. CASE ~busy /\ queue # <<>>
    <2>1. buffer' = Tail(queue) /\ active' = TRUE /\ Issue(Op("write", Head(queue)), held)
        BY <1>3 DEF TryStartWrite
    <2>2. /\ Head(queue) \in Nat /\ Head(queue) = (written' - Len(queue)) + 1
          /\ Len(buffer') = Len(queue) - 1
          /\ \A k \in 1..Len(buffer') : buffer'[k] = queue[k + 1]
        BY <1>3, <2>1
    <2>3. /\ ops'[New].kind = "write" /\ ops'[New].message = Head(queue)
          /\ \A i \in 1..Len(ops) : ops'[i] = ops[i]
          /\ pending' = pending \cup {New} /\ completions' = held \cup {New}
        <3>1. /\ Op("write", Head(queue)) \in Ops /\ ops \in Seq(Ops)
              /\ Op("write", Head(queue)).kind = "write"
              /\ Op("write", Head(queue)).message = Head(queue)
            BY <2>2, OpFacts DEF TypeOK, Kinds
        <3>2. QED
            BY <2>1, <3>1, IssueFacts
    <2>4. \A i \in completions' : ops'[i].kind = "write" => i = New
        BY <1>0, <1>3, <2>3
    <2>5. \A k \in 1..Len(buffer') : buffer'[k] = (written' - Len(buffer')) + k
        <3> TAKE k \in 1..Len(buffer')
        <3>1. k + 1 \in 1..Len(queue) /\ k \in Nat
            BY <1>0, <1>3, <2>2
        <3>2. queue[k + 1] = (written' - Len(queue)) + (k + 1)
            BY <3>1
        <3>3. QED
            BY <1>0, <2>2, <3>1, <3>2
    <2>6. call' = "open" => /\ ops'[New].message = Len(out) + 1
                            /\ Len(out) + 1 = written' - Len(buffer')
        BY <1>0, <1>3, <2>2, <2>3, SMTT(60)
    <2>7. pending' \subseteq completions' /\ New \in pending'
        BY <2>3
    <2>8. call' = "open" => /\ \A i \in pending' : ops'[i].kind = "write" => i = New
                            /\ ~(\A i \in pending' : ops'[i].kind # "write")
        BY <2>3, <2>4, <2>7
    <2>9. \A k \in 1..Len(out') : out'[k] = k
        BY DEF Writing
    <2>10. QED
        BY <2>1, <2>4, <2>5, <2>6, <2>8, <2>9 DEF Writing
<1>4. QED
    BY <1>1, <1>2, <1>3

-----------------------------------------------------------------------------
(* The reader.                                                             *)

\* Letting go of completions and cancelling more of them keeps what is read in
\* order.
LEMMA ReadingShrinks ==
    ASSUME Reading, UNCHANGED <<ops, pending, heard, taken>>,
           completions' \subseteq completions, cancelled \subseteq cancelled'
    PROVE  Reading'
BY DEF Reading

\* So does a write or a finish that is issued.
LEMMA ReadingIssues ==
    ASSUME TypeOK, Reading, NEW op \in Ops, op.kind # "read", ~op.ok,
           NEW held \in SUBSET completions, Issue(op, held),
           UNCHANGED <<heard, taken>>, cancelled \subseteq cancelled'
    PROVE  Reading'
<1>1. /\ ops'[New] = op /\ Len(ops') # 0
      /\ \A i \in 1..Len(ops) : ops'[i] = ops[i]
      /\ pending' = pending \cup {New} /\ completions' = held \cup {New}
      /\ New \notin 1..Len(ops)
    BY IssueFacts, SMTT(60) DEF TypeOK
<1>2. pending \subseteq 1..Len(ops) /\ held \subseteq 1..Len(ops)
    BY DEF TypeOK
<1>3. \A i \in completions' : ops'[i].kind = "read" =>
          i \in completions /\ i # New /\ ops'[i] = ops[i]
    BY <1>1, <1>2
<1>4. \A i \in pending' : i = New \/ (i \in pending /\ ops'[i] = ops[i])
    BY <1>1, <1>2
<1>5. QED
    BY <1>1, <1>3, <1>4 DEF Reading

\* OnRead gives the observer the next message, and the new read follows it.
LEMMA ReadingReads ==
    ASSUME TypeOK, Held, Reading, NEW i \in completions, i \notin pending, OnRead(i),
           UNCHANGED taken
    PROVE  Reading'
<1>1. /\ i \notin cancelled /\ ops[i].kind = "read" /\ ops[i].ok
      /\ Issue(Op("read", 0), completions \ {i})
      /\ heard' = Append(heard, ops[i].message) /\ cancelled' = cancelled
    BY DEF OnRead
<1>2. ops[i].message = Len(heard) + 1 /\ taken = Len(heard) + 1
    BY <1>1 DEF Reading
<1>3. /\ ops'[New].kind = "read" /\ ~ops'[New].ok /\ Len(ops') # 0
      /\ \A j \in 1..Len(ops) : ops'[j] = ops[j]
      /\ pending' = pending \cup {New} /\ completions' = (completions \ {i}) \cup {New}
      /\ New \notin 1..Len(ops)
    <2>1. /\ Op("read", 0) \in Ops /\ ops \in Seq(Ops)
          /\ Op("read", 0).kind = "read" /\ ~Op("read", 0).ok
        BY OpFacts DEF TypeOK, Kinds
    <2>2. ops \in Seq(Ops) /\ Len(ops) \in Nat
        BY DEF TypeOK
    <2>3. QED
        BY <1>1, <2>1, <2>2, IssueFacts
<1>4. Len(heard') = Len(heard) + 1 /\ \A k \in 1..Len(heard') : heard'[k] = k
    <2>1. heard \in Seq(Nat) /\ Len(heard) \in Nat
        BY DEF TypeOK
    <2>2. /\ Len(heard') = Len(heard) + 1 /\ heard'[Len(heard) + 1] = Len(heard) + 1
          /\ \A k \in 1..Len(heard) : heard'[k] = heard[k]
        BY <1>1, <1>2, <2>1
    <2>3. \A k \in 1..Len(heard) : heard[k] = k
        BY DEF Reading
    <2>4. QED
        BY <2>1, <2>2, <2>3
<1>5. pending \subseteq 1..Len(ops) /\ completions \subseteq 1..Len(ops)
    BY DEF TypeOK
<1>6. \A j \in completions' : ops'[j].kind = "read" => j = New
    BY <1>1, <1>3, <1>5 DEF Reading
<1>7. \A j \in pending' : ~ops'[j].ok
    BY <1>3, <1>5 DEF Reading
<1>8. taken' = Len(heard')
    BY <1>2, <1>4
<1>9. QED
    BY <1>3, <1>4, <1>6, <1>7, <1>8 DEF Reading

\* A read takes the next message; the operations that fail or write take none.
LEMMA ReadingCompletes ==
    ASSUME TypeOK, Held, Reading, NEW i \in pending, NEW op \in Ops, op.kind = ops[i].kind,
           Complete(i, op),
           \/ op.kind = "read" /\ op.message = taken + 1 /\ taken' = taken + 1
           \/ (op.kind = "read" => ~op.ok) /\ taken' = taken
    PROVE  Reading'
<1>1. /\ ops'[i] = op /\ pending' = pending \ {i} /\ Len(ops') = Len(ops)
      /\ \A j \in 1..Len(ops) : j # i => ops'[j] = ops[j]
    BY CompleteFacts DEF TypeOK
<1>2. UNCHANGED <<heard, completions, cancelled>> /\ i \in completions
    BY DEF Complete, Held
<1>3. completions \subseteq 1..Len(ops) /\ pending \subseteq 1..Len(ops)
    BY DEF TypeOK
<1>4. \A j \in completions' : ops'[j].kind = ops[j].kind
    BY <1>1, <1>2, <1>3
<1>5. \A j \in pending' : j # i /\ ops'[j] = ops[j]
    BY <1>1, <1>3
<1>6. ASSUME NEW j \in completions', j \notin cancelled', ops'[j].kind = "read"
      PROVE  /\ j \in pending' => taken' = Len(heard')
             /\ ops'[j].ok => ops'[j].message = Len(heard') + 1 /\ taken' = Len(heard') + 1
    <2>1. CASE j = i
        <3>1. taken = Len(heard)
            BY <1>2, <1>4, <1>6, <2>1 DEF Reading
        <3>2. QED
            BY <1>1, <1>2, <1>6, <2>1, <3>1
    <2>2. CASE j # i
        <3>1. ops[i].kind # "read" /\ taken' = taken
            BY <1>2, <1>4, <1>6, <2>2 DEF Reading
        <3>2. ops'[j] = ops[j]
            BY <1>1, <1>2, <1>3, <2>2
        <3>3. QED
            BY <1>1, <1>2, <1>6, <2>2, <3>1, <3>2 DEF Reading
    <2>3. QED
        BY <2>1, <2>2
<1>7. \A j, k \in completions' : ops'[j].kind = "read" /\ ops'[k].kind = "read" => j = k
    BY <1>2, <1>4 DEF Reading
<1>8. \A j \in pending' : ~ops'[j].ok
    BY <1>1, <1>5 DEF Reading
<1>9. \A k \in 1..Len(heard') : heard'[k] = k
    BY <1>2 DEF Reading
<1>10. Len(ops') # 0
    BY <1>1, <1>3
<1>11. QED
    BY <1>6, <1>7, <1>8, <1>9, <1>10 DEF Reading

-----------------------------------------------------------------------------
(* Who holds what.                                                         *)

\* The types of what the shapes of steps change.
Queues ==
    /\ ops \in Seq(Ops)
    /\ pending \subseteq 1..Len(ops) /\ completions \subseteq 1..Len(ops)
    /\ cancelled \subseteq 1..Len(ops) /\ tasks \in Seq(1..Len(ops))

\* A sequence stays one over a larger set.
LEMMA SeqMonotone ==
    ASSUME NEW S, NEW T, S \subseteq T, NEW s \in Seq(S)
    PROVE  s \in Seq(T)
OBVIOUS

\* The first task is of an operation that is off gRPC's queue and has no other
\* task, and which the stream holds if its callback can run.
LEMMA FirstTask ==
    ASSUME Queues, Held, tasks # <<>>
    PROVE  /\ Head(tasks) \in 1..Len(ops) /\ Head(tasks) \notin pending
           /\ Head(tasks) \notin cancelled => Head(tasks) \in completions
           /\ Tail(tasks) \in Seq(1..Len(ops)) /\ Len(Tail(tasks)) = Len(tasks) - 1
           /\ \A k \in 1..Len(Tail(tasks)) :
                  /\ k + 1 \in 1..Len(tasks) /\ Tail(tasks)[k] = tasks[k + 1]
                  /\ Tail(tasks)[k] # Head(tasks)
<1>1. /\ Len(tasks) \in Nat /\ Len(tasks) >= 1 /\ Head(tasks) = tasks[1]
      /\ Tail(tasks) \in Seq(1..Len(ops)) /\ Len(Tail(tasks)) = Len(tasks) - 1
      /\ \A k \in 1..Len(Tail(tasks)) : Tail(tasks)[k] = tasks[k + 1]
      /\ tasks[1] \in 1..Len(ops)
    BY DEF Queues
<1>2. 1 \in 1..Len(tasks)
    BY <1>1
<1>3. tasks[1] \notin pending /\ (tasks[1] \notin cancelled => tasks[1] \in completions)
    BY <1>1, <1>2 DEF Held, RunsWhatItHolds
<1>4. ASSUME NEW k \in 1..Len(Tail(tasks))
      PROVE  k + 1 \in 1..Len(tasks) /\ Tail(tasks)[k] = tasks[k + 1] /\ tasks[k + 1] # tasks[1]
    <2>1. k + 1 \in 1..Len(tasks) /\ k + 1 # 1
        BY <1>1
    <2>2. QED
        BY <1>1, <1>2, <2>1 DEF Held
<1>5. QED
    BY <1>1, <1>3, <1>4

\* A step that issues nothing and adds no task keeps Held if the stream goes on
\* holding what is pending and what still has a task that can run.
LEMMA HeldKeeps ==
    ASSUME Queues, Held, UNCHANGED <<ops, pending>>, cancelled \subseteq cancelled',
           pending \subseteq completions',
           \/ tasks' = tasks /\ \A i \in completions : i \in cancelled' \/ i \in completions'
           \/ /\ tasks # <<>> /\ tasks' = Tail(tasks)
              /\ \A i \in completions : i \in cancelled' \/ i \in completions' \/ i = Head(tasks)
    PROVE  Held'
<1>1. CASE /\ tasks' = tasks
           /\ \A i \in completions : i \in cancelled' \/ i \in completions'
    BY <1>1 DEF Held, RunsWhatItHolds
<1>2. CASE /\ tasks # <<>> /\ tasks' = Tail(tasks)
           /\ \A i \in completions : i \in cancelled' \/ i \in completions' \/ i = Head(tasks)
    <2> DEFINE h == Head(tasks)
    <2>1. /\ h \notin pending
          /\ \A k \in 1..Len(tasks') : /\ k + 1 \in 1..Len(tasks) /\ tasks'[k] = tasks[k + 1]
                                      /\ tasks'[k] # h
        BY <1>2, FirstTask
    <2> HIDE DEF h
    <2>2. \A k \in 1..Len(tasks') : tasks'[k] \notin pending'
        BY <2>1 DEF Held
    <2>3. \A k, n \in 1..Len(tasks') : tasks'[k] = tasks'[n] => k = n
        <3> TAKE k, n \in 1..Len(tasks')
        <3>1. /\ k + 1 \in 1..Len(tasks) /\ n + 1 \in 1..Len(tasks)
              /\ tasks'[k] = tasks[k + 1] /\ tasks'[n] = tasks[n + 1]
            BY <2>1
        <3>2. tasks'[k] = tasks'[n] => k + 1 = n + 1
            BY <3>1 DEF Held
        <3>3. QED
            BY <3>2
    <2>4. ASSUME NEW i \in 1..Len(ops), i \notin cancelled',
                 i \in pending \/ \E k \in 1..Len(tasks') : tasks'[k] = i
          PROVE  i \in completions'
        <3>1. i # h /\ (i \in pending \/ \E k \in 1..Len(tasks) : tasks[k] = i)
            BY <2>1, <2>4
        <3>2. i \in completions
            BY <2>4, <3>1 DEF Held, RunsWhatItHolds
        <3>3. QED
            BY <1>2, <2>4, <3>1, <3>2 DEF h
    <2>5. RunsWhatItHolds'
        BY <2>4 DEF RunsWhatItHolds
    <2>6. QED
        BY <2>2, <2>3, <2>5 DEF Held
<1>3. QED
    BY <1>1, <1>2

\* The same for a step that issues an operation.
LEMMA HeldIssues ==
    ASSUME Queues, Held, NEW op \in Ops, NEW held \in SUBSET completions, Issue(op, held),
           cancelled \subseteq cancelled', pending \subseteq held,
           \/ tasks' = tasks /\ \A i \in completions : i \in cancelled' \/ i \in held
           \/ /\ tasks # <<>> /\ tasks' = Tail(tasks)
              /\ \A i \in completions : i \in cancelled' \/ i \in held \/ i = Head(tasks)
    PROVE  Held'
<1>1. /\ pending' = pending \cup {New} /\ completions' = held \cup {New}
      /\ New \notin 1..Len(ops) /\ 1..Len(ops) \subseteq 1..Len(ops')
      /\ \A i \in 1..Len(ops') : i = New \/ i \in 1..Len(ops)
    BY IssueFacts DEF Queues
<1>2. \A k \in 1..Len(tasks) : tasks[k] \in 1..Len(ops)
    BY DEF Queues
<1>3. /\ \A k \in 1..Len(tasks') : tasks'[k] \in 1..Len(ops) /\ tasks'[k] \notin pending
      /\ \A k, n \in 1..Len(tasks') : tasks'[k] = tasks'[n] => k = n
      /\ \A i \in 1..Len(ops) : (\E k \in 1..Len(tasks') : tasks'[k] = i) =>
             /\ \E k \in 1..Len(tasks) : tasks[k] = i
             /\ i \in completions => i \in cancelled' \/ i \in held
    <2>1. CASE /\ tasks' = tasks
               /\ \A i \in completions : i \in cancelled' \/ i \in held
        BY <1>2, <2>1 DEF Held
    <2>2. CASE /\ tasks # <<>> /\ tasks' = Tail(tasks)
               /\ \A i \in completions : i \in cancelled' \/ i \in held \/ i = Head(tasks)
        <3> DEFINE h == Head(tasks)
        <3>1. \A k \in 1..Len(tasks') : /\ k + 1 \in 1..Len(tasks) /\ tasks'[k] = tasks[k + 1]
                                        /\ tasks'[k] # h
            BY <2>2, FirstTask
        <3>h. \A i \in completions : i \in cancelled' \/ i \in held \/ i = h
            BY <2>2
        <3> HIDE DEF h
        <3>2. \A k \in 1..Len(tasks') : tasks'[k] \in 1..Len(ops) /\ tasks'[k] \notin pending
            BY <1>2, <3>1 DEF Held
        <3>3. \A k, n \in 1..Len(tasks') : tasks'[k] = tasks'[n] => k = n
            <4> TAKE k, n \in 1..Len(tasks')
            <4>1. /\ k + 1 \in 1..Len(tasks) /\ n + 1 \in 1..Len(tasks)
                  /\ tasks'[k] = tasks[k + 1] /\ tasks'[n] = tasks[n + 1]
                BY <3>1
            <4>2. tasks'[k] = tasks'[n] => k + 1 = n + 1
                BY <4>1 DEF Held
            <4>3. QED
                BY <4>2
        <3>4. QED
            BY <3>1, <3>h, <3>2, <3>3
    <2>3. QED
        BY <2>1, <2>2
<1>4. pending' \subseteq completions'
    BY <1>1
<1>5. \A k \in 1..Len(tasks') : tasks'[k] \notin pending'
    BY <1>1, <1>3
<1>6. ASSUME NEW i \in 1..Len(ops'), i \notin cancelled',
             i \in pending' \/ \E k \in 1..Len(tasks') : tasks'[k] = i
      PROVE  i \in completions'
    <2>1. CASE i \in pending'
        BY <1>4, <2>1
    <2>2. CASE i \in 1..Len(ops) /\ \E k \in 1..Len(tasks') : tasks'[k] = i
        <3>1. i \in completions
            BY <1>3, <1>6, <2>2 DEF Held, RunsWhatItHolds
        <3>2. QED
            BY <1>1, <1>3, <1>6, <2>2, <3>1
    <2>3. QED
        BY <1>1, <1>6, <2>1, <2>2
<1>7. QED
    BY <1>3, <1>4, <1>5, <1>6 DEF Held, RunsWhatItHolds

\* And for gRPC, which moves an operation from its queue to the worker's.
LEMMA HeldCompletes ==
    ASSUME Queues, Held, NEW i \in pending, NEW op \in Ops, Complete(i, op)
    PROVE  Held'
<1>1. /\ pending' = pending \ {i} /\ Len(ops') = Len(ops)
      /\ Len(tasks') = Len(tasks) + 1 /\ tasks'[Len(tasks) + 1] = i
      /\ \A k \in 1..Len(tasks) : tasks'[k] = tasks[k]
    BY CompleteFacts DEF Queues
<1>2. Len(tasks) \in Nat /\ UNCHANGED <<completions, cancelled>>
    BY DEF Complete, Queues
<1>3. \A k \in 1..Len(tasks') : k = Len(tasks) + 1 \/ k \in 1..Len(tasks)
    BY <1>1, <1>2
<1>4. \A k \in 1..Len(tasks) : tasks[k] # i
    BY DEF Held
<1>5. \A k \in 1..Len(tasks') : tasks'[k] \notin pending'
    BY <1>1, <1>3 DEF Held
<1>6. \A k, n \in 1..Len(tasks') : tasks'[k] = tasks'[n] => k = n
    BY <1>1, <1>3, <1>4 DEF Held
<1>7. RunsWhatItHolds'
    BY <1>1, <1>2, <1>3 DEF Held, RunsWhatItHolds
<1>8. QED
    BY <1>1, <1>2, <1>5, <1>6, <1>7 DEF Held

-----------------------------------------------------------------------------
(* Types and the order of "finish".                                        *)

\* The types of the rest of the state.
Rest ==
    /\ observer \in BOOLEAN /\ told \in BOOLEAN /\ finished \in BOOLEAN /\ active \in BOOLEAN
    /\ heard \in Seq(Nat) /\ buffer \in Seq(Nat) /\ out \in Seq(Nat)
    /\ worker \in Waits
    /\ written \in Nat /\ replies \in Nat /\ taken \in Nat
    /\ call \in {"open", "ended", "cancelled"}

\* TypeOK in two parts.
LEMMA Types == TypeOK <=> Queues /\ Rest
BY DEF TypeOK, Queues, Rest

\* The queues keep their types when an operation is issued,
LEMMA QueuesIssue ==
    ASSUME Queues, NEW op \in Ops, NEW held \in SUBSET completions, Issue(op, held),
           cancelled' \subseteq cancelled \cup completions \cup {New}, tasks' \in Seq(1..Len(ops))
    PROVE  Queues'
<1>1. /\ ops' \in Seq(Ops) /\ pending' = pending \cup {New} /\ completions' = held \cup {New}
      /\ New \in 1..Len(ops') /\ 1..Len(ops) \subseteq 1..Len(ops')
    BY IssueFacts DEF Queues
<1>2. tasks' \in Seq(1..Len(ops'))
    BY <1>1, SeqMonotone
<1>3. QED
    BY <1>1, <1>2 DEF Queues

\* when one is completed,
LEMMA QueuesComplete ==
    ASSUME Queues, NEW i \in pending, NEW op \in Ops, Complete(i, op)
    PROVE  Queues'
<1>1. /\ ops' \in Seq(Ops) /\ Len(ops') = Len(ops) /\ pending' = pending \ {i}
      /\ tasks' \in Seq(1..Len(ops'))
    BY CompleteFacts DEF Queues
<1>2. UNCHANGED <<completions, cancelled>>
    BY DEF Complete
<1>3. QED
    BY <1>1, <1>2 DEF Queues

\* and when the stream lets go of completions.
LEMMA QueuesKeep ==
    ASSUME Queues, UNCHANGED <<ops, pending>>, completions' \subseteq completions,
           cancelled' \subseteq cancelled \cup completions, tasks' \in Seq(1..Len(ops))
    PROVE  Queues'
BY DEF Queues

\* A finish that is issued with nothing pending, and what is issued after it,
\* comes after it.
LEMMA FinishIssues ==
    ASSUME Queues, FinishComesLast, NEW op \in Ops, NEW held, Issue(op, held),
           op.kind = "finish" => pending = {}
    PROVE  FinishComesLast'
<1>1. /\ ops'[New] = op /\ Len(ops') = New /\ New = Len(ops) + 1 /\ Len(ops) \in Nat
      /\ \A i \in 1..Len(ops) : ops'[i] = ops[i]
      /\ pending' = pending \cup {New}
    BY IssueFacts DEF Queues, New
<1>2. ASSUME NEW i \in 1..Len(ops'), NEW j \in pending', ops'[i].kind = "finish"
      PROVE  j >= i
    <2>1. CASE j = New
        BY <1>1, <2>1
    <2>2. CASE j \in pending
        BY <1>1, <1>2, <2>2 DEF FinishComesLast
    <2>3. QED
        BY <1>1, <2>1, <2>2
<1>3. QED
    BY <1>2 DEF FinishComesLast

\* Completing an operation does not change the order.
LEMMA FinishCompletes ==
    ASSUME Queues, FinishComesLast, NEW i \in pending, NEW op \in Ops, op.kind = ops[i].kind,
           Complete(i, op)
    PROVE  FinishComesLast'
<1>1. /\ Len(ops') = Len(ops) /\ ops'[i] = op /\ pending' = pending \ {i}
      /\ \A j \in 1..Len(ops) : j # i => ops'[j] = ops[j]
    BY CompleteFacts DEF Queues
<1>2. \A j \in 1..Len(ops) : ops'[j].kind = ops[j].kind
    BY <1>1
<1>3. QED
    BY <1>1, <1>2 DEF FinishComesLast

-----------------------------------------------------------------------------
(* The invariant.                                                          *)

\* Steps that neither issue an operation nor complete one nor write.
LEMMA QuietStep ==
    ASSUME GrpcInv, UNCHANGED <<ops, pending, client, out, heard, taken>>,
           completions' \subseteq completions, pending \subseteq completions',
           cancelled \subseteq cancelled', cancelled' \subseteq cancelled \cup completions,
           call' \in {"open", "ended", "cancelled"}, call' = "open" => call = "open",
           \/ tasks' = tasks /\ \A i \in completions : i \in cancelled' \/ i \in completions'
           \/ /\ tasks # <<>> /\ tasks' = Tail(tasks)
              /\ \A i \in completions : i \in cancelled' \/ i \in completions' \/ i = Head(tasks),
           observer' \in BOOLEAN, told' \in BOOLEAN, finished' \in BOOLEAN, worker' \in Waits,
           replies' \in Nat, Blocked'
    PROVE  GrpcInv'
<1>1. Queues /\ Rest
    BY Types DEF GrpcInv
<1>2. tasks' \in Seq(1..Len(ops))
    BY <1>1, FirstTask DEF GrpcInv, Queues
<1>3. TypeOK'
    <2>1. Queues'
        BY <1>1, <1>2, QueuesKeep
    <2>2. Rest'
        BY <1>1 DEF Rest, client
    <2>3. QED
        BY <2>1, <2>2 DEF TypeOK, Queues, Rest
<1>4. Held'
    BY <1>1, HeldKeeps DEF GrpcInv
<1>5. Writing'
    BY WritingShrinks DEF GrpcInv
<1>6. Reading'
    BY ReadingShrinks DEF GrpcInv
<1>7. FinishComesLast'
    BY DEF GrpcInv, FinishComesLast
<1>8. QED
    BY <1>3, <1>4, <1>5, <1>6, <1>7 DEF GrpcInv

\* gRPC completes an operation.
LEMMA CompleteStep ==
    ASSUME GrpcInv, NEW i \in pending, NEW op \in Ops, op.kind = ops[i].kind,
           op.message = ops[i].message \/ ops[i].kind # "write", Complete(i, op),
           \/ ops[i].kind = "write" /\ call = "open" /\ out' = Append(out, ops[i].message)
           \/ (ops[i].kind # "write" \/ call # "open") /\ out' = out,
           \/ op.kind = "read" /\ op.message = taken + 1 /\ taken' = taken + 1
           \/ (op.kind = "read" => ~op.ok) /\ taken' = taken
    PROVE  GrpcInv'
<1>1. Queues /\ Rest
    BY Types DEF GrpcInv
<1>2. UNCHANGED <<observer, told, heard, finished, completions, cancelled, worker, client,
                  call, replies>>
    BY DEF Complete
<1>3. ops[i] \in Ops
    BY <1>1 DEF Queues
<1>4. out' \in Seq(Nat) /\ taken' \in Nat
    <2>1. ops[i].message \in Nat /\ out \in Seq(Nat) /\ taken \in Nat
        BY <1>1, <1>3 DEF Rest, Ops
    <2>2. out' \in Seq(Nat)
        BY <2>1
    <2>3. taken' \in Nat
        BY <2>1
    <2>4. QED
        BY <2>2, <2>3
<1>5. TypeOK'
    <2>1. Queues'
        BY <1>1, QueuesComplete
    <2>2. Rest'
        BY <1>1, <1>2, <1>4 DEF Rest, client
    <2>3. QED
        BY <2>1, <2>2 DEF TypeOK, Queues, Rest
<1>6. Held'
    BY <1>1, HeldCompletes DEF GrpcInv
<1>7. Blocked'
    BY <1>2 DEF GrpcInv, Blocked
<1>8. Writing'
    BY WritingCompletes DEF GrpcInv, Held
<1>9. Reading'
    BY ReadingCompletes DEF GrpcInv
<1>10. FinishComesLast'
    BY <1>1, FinishCompletes DEF GrpcInv
<1>11. QED
    BY <1>5, <1>6, <1>7, <1>8, <1>9, <1>10 DEF GrpcInv

\* The stream issues a read or a finish of which nothing is active yet.
LEMMA IssueStep ==
    ASSUME GrpcInv, NEW kind \in {"read", "finish"}, NEW held \in SUBSET completions,
           Issue(Op(kind, 0), held), UNCHANGED <<client, call, taken, out>>,
           cancelled \subseteq cancelled', cancelled' \subseteq cancelled \cup completions \cup {New},
           kind = "finish" => pending = {}, pending \subseteq held,
           \/ tasks' = tasks /\ \A i \in completions : i \in cancelled' \/ i \in held
           \/ /\ tasks # <<>> /\ tasks' = Tail(tasks)
              /\ \A i \in completions : i \in cancelled' \/ i \in held \/ i = Head(tasks),
           UNCHANGED <<observer, told, finished, replies>>, worker' \in Waits,
           heard' \in Seq(Nat), Blocked', Reading'
    PROVE  GrpcInv'
<1>1. Queues /\ Rest
    BY Types DEF GrpcInv
<1>2. Op(kind, 0) \in Ops /\ Op(kind, 0).kind = kind
    BY OpFacts DEF Kinds
<1>3. tasks' \in Seq(1..Len(ops))
    BY <1>1, FirstTask DEF GrpcInv, Queues
<1>4. TypeOK'
    <2>1. Queues'
        BY <1>1, <1>2, <1>3, QueuesIssue
    <2>2. Rest'
        BY <1>1 DEF Rest, client
    <2>3. QED
        BY <2>1, <2>2 DEF TypeOK, Queues, Rest
<1>5. Held'
    BY <1>1, <1>2, HeldIssues DEF GrpcInv
<1>6. Writing'
    BY WritingIssues DEF GrpcInv
<1>7. FinishComesLast'
    BY <1>1, <1>2, FinishIssues DEF GrpcInv
<1>8. QED
    BY <1>4, <1>5, <1>6, <1>7 DEF GrpcInv

\* What the writer does is to issue a write or nothing.
LEMMA StartsOrNot ==
    ASSUME NEW queue \in Seq(Nat), NEW busy \in BOOLEAN, NEW held,
           TryStartWrite(queue, busy, held)
    PROVE  /\ buffer' \in Seq(Nat) /\ active' \in BOOLEAN
           /\ \/ UNCHANGED <<ops, pending>> /\ completions' = held
              \/ \E op \in Ops : op.kind = "write" /\ ~op.ok /\ Issue(op, held)
<1>1. CASE busy \/ queue = <<>>
    BY <1>1 DEF TryStartWrite
<1>2. CASE ~busy /\ queue # <<>>
    <2>1. Head(queue) \in Nat /\ Tail(queue) \in Seq(Nat)
        BY <1>2
    <2>2. /\ Op("write", Head(queue)) \in Ops
          /\ Op("write", Head(queue)).kind = "write" /\ ~Op("write", Head(queue)).ok
        BY <2>1, OpFacts DEF Kinds
    <2>3. buffer' = Tail(queue) /\ active' = TRUE /\ Issue(Op("write", Head(queue)), held)
        BY <1>2 DEF TryStartWrite
    <2>4. QED
        BY <2>1, <2>2, <2>3
<1>3. QED
    BY <1>1, <1>2

\* The writer gets a message or goes on to the next one.
LEMMA WriteStep ==
    ASSUME GrpcInv, NEW queue \in Seq(Nat), NEW busy \in BOOLEAN,
           NEW held \in SUBSET completions, TryStartWrite(queue, busy, held),
           written' \in Nat, UNCHANGED <<heard, taken, out, observer, told, replies>>,
           call' \in {"open", "ended", "cancelled"}, call' = "open" => call = "open",
           \A k \in 1..Len(queue) : queue[k] = (written' - Len(queue)) + k,
           pending \subseteq held,
           IF busy THEN active /\ Len(queue) - Len(buffer) = written' - written
                   ELSE /\ \A i \in held : ops[i].kind # "write"
                        /\ call = "open" => Len(out) = written' - Len(queue),
           cancelled \subseteq cancelled', cancelled' \subseteq cancelled \cup completions,
           \/ tasks' = tasks /\ \A i \in completions : i \in cancelled' \/ i \in held
           \/ /\ tasks # <<>> /\ tasks' = Tail(tasks)
              /\ \A i \in completions : i \in cancelled' \/ i \in held \/ i = Head(tasks),
           finished' \in BOOLEAN, worker' \in Waits, Blocked'
    PROVE  GrpcInv'
<1>1. Queues /\ Rest
    BY Types DEF GrpcInv
<1>2. buffer' \in Seq(Nat) /\ active' \in BOOLEAN
    BY StartsOrNot
<1>3. tasks' \in Seq(1..Len(ops))
    BY <1>1, FirstTask DEF GrpcInv, Queues
<1>4. Rest'
    BY <1>1, <1>2 DEF Rest
<1>5. Writing'
    BY WritingStarts DEF GrpcInv
<1>6. CASE UNCHANGED <<ops, pending>> /\ completions' = held
    <2>1. Queues'
        BY <1>1, <1>3, <1>6, QueuesKeep
    <2>2. Held'
        BY <1>1, <1>6, HeldKeeps DEF GrpcInv
    <2>3. Reading'
        BY <1>6, ReadingShrinks DEF GrpcInv
    <2>4. FinishComesLast'
        BY <1>6 DEF GrpcInv, FinishComesLast
    <2>5. QED
        BY <1>4, <1>5, <2>1, <2>2, <2>3, <2>4 DEF GrpcInv, TypeOK, Queues, Rest
<1>7. ASSUME NEW op \in Ops, op.kind = "write", ~op.ok, Issue(op, held)
      PROVE  GrpcInv'
    <2>1. Queues'
        BY <1>1, <1>3, <1>7, QueuesIssue
    <2>2. Held'
        BY <1>1, <1>7, HeldIssues DEF GrpcInv
    <2>3. Reading'
        BY <1>7, ReadingIssues DEF GrpcInv
    <2>4. FinishComesLast'
        BY <1>1, <1>7, FinishIssues DEF GrpcInv
    <2>5. QED
        BY <1>4, <1>5, <2>1, <2>2, <2>3, <2>4 DEF GrpcInv, TypeOK, Queues, Rest
<1>8. QED
    BY <1>6, <1>7, StartsOrNot

-----------------------------------------------------------------------------
(* The actions.                                                            *)

\* What the two halves of Shutdown have in common.
LEMMA ShutdownFacts ==
    ASSUME Rest, NEW then \in {"wait", "tell", "quiet"}, Shutdown(then)
    PROVE  /\ cancelled' = cancelled \cup completions
           /\ worker' \in Waits /\ worker'.at \in {"finish", "drain"}
           /\ call' \in {"open", "ended", "cancelled"} /\ (call' = "open" => call = "open")
           /\ finished' \in BOOLEAN
<1>1. cancelled' = cancelled \cup completions
    BY DEF Shutdown
<1>2. CASE completions # {} /\ ~finished
    <2>1. /\ call' = IF call = "open" THEN "cancelled" ELSE call
          /\ finished' = TRUE /\ worker' = [at |-> "finish", then |-> then]
        BY <1>2 DEF Shutdown
    <2>2. call' \in {"open", "ended", "cancelled"} /\ (call' = "open" => call = "open")
        BY <2>1 DEF Rest
    <2>3. QED
        BY <1>1, <2>1, <2>2 DEF Waits
<1>3. CASE ~(completions # {} /\ ~finished)
    <2>1. worker' = [at |-> "drain", then |-> then] /\ UNCHANGED <<call, finished>>
        BY <1>3 DEF Shutdown
    <2>2. call' \in {"open", "ended", "cancelled"} /\ finished' \in BOOLEAN
        BY <2>1 DEF Rest
    <2>3. QED
        BY <1>1, <2>1, <2>2 DEF Waits
<1>4. QED
    BY <1>2, <1>3

\* A message that is enqueued continues what the buffer holds.
LEMMA EnqueueFacts ==
    ASSUME GrpcInv, EnqueueWrite
    PROVE  /\ Append(buffer, written') \in Seq(Nat) /\ active \in BOOLEAN
           /\ TryStartWrite(Append(buffer, written'), active, completions)
           /\ written' = written + 1 /\ written' \in Nat
           /\ \A k \in 1..Len(Append(buffer, written')) :
                 Append(buffer, written')[k] = (written' - Len(Append(buffer, written'))) + k
           /\ IF active
              THEN active /\ Len(Append(buffer, written')) - Len(buffer) = written' - written
              ELSE /\ \A i \in completions : ops[i].kind # "write"
                   /\ call = "open" => Len(out) = written' - Len(Append(buffer, written'))
<1>1. written' = written + 1 /\ TryStartWrite(Append(buffer, written'), active, completions)
    BY DEF EnqueueWrite, Busy
<1>2. written \in Nat /\ buffer \in Seq(Nat) /\ active \in BOOLEAN /\ Len(buffer) \in Nat
    BY DEF GrpcInv, TypeOK
<1> DEFINE queue == Append(buffer, written')
<1>3. /\ queue \in Seq(Nat) /\ Len(queue) = Len(buffer) + 1
      /\ queue[Len(buffer) + 1] = written + 1
      /\ \A k \in 1..Len(buffer) : queue[k] = buffer[k]
    BY <1>1, <1>2
<1>4. \A k \in 1..Len(buffer) : buffer[k] = (written - Len(buffer)) + k
    BY DEF GrpcInv, Writing
<1>5. written' - Len(queue) = written - Len(buffer) /\ Len(queue) - Len(buffer) = written' - written
    BY <1>1, <1>2, <1>3
<1> HIDE DEF queue
<1>6. \A k \in 1..Len(queue) : queue[k] = (written' - Len(queue)) + k
    <2> TAKE k \in 1..Len(queue)
    <2>1. CASE k = Len(buffer) + 1
        BY <1>1, <1>2, <1>3, <2>1
    <2>2. CASE k \in 1..Len(buffer)
        BY <1>3, <1>4, <1>5, <2>2
    <2>3. QED
        BY <1>2, <1>3, <2>1, <2>2
<1>7. ~active => \A i \in completions : ops[i].kind # "write"
    BY DEF GrpcInv, Writing
<1>8. ~active /\ call = "open" => Len(out) = written - Len(buffer)
    BY <1>7 DEF GrpcInv, Writing, Held
<1>9. QED
    BY <1>1, <1>2, <1>3, <1>5, <1>6, <1>7, <1>8 DEF queue

\* The tasks of the worker.
LEMMA RunTaskKeeps ==
    ASSUME GrpcInv, RunTask
    PROVE  GrpcInv'
<1>1. Queues /\ Rest /\ Held /\ Blocked /\ Writing /\ Reading
    BY Types DEF GrpcInv
<1>2. /\ worker = Free /\ tasks # <<>> /\ tasks' = Tail(tasks)
      /\ UNCHANGED <<observer, told, replies, taken, out>>
    BY DEF RunTask
<1>3. PICK i : i = Head(tasks)
    OBVIOUS
<1>4. RunCancelled(i) \/ OnRead(i) \/ OnWrite(i) \/ OnFinish(i) \/ OnOperationFailed(i)
    BY <1>3 DEF RunTask
<1>5. i \notin pending /\ (i \notin cancelled => i \in completions) /\ i \in 1..Len(ops)
    BY <1>1, <1>2, <1>3, FirstTask
<1>6. pending \subseteq completions \ {i}
    BY <1>1, <1>5 DEF Held
<1>7. i \notin cancelled => observer /\ i \in completions
    BY <1>1, <1>5 DEF Blocked
<1>8. worker \in Waits /\ worker.at = "free" /\ finished \in BOOLEAN
    BY <1>1, <1>2 DEF Rest, Free
<1>9. CASE RunCancelled(i)
    <2>1. Blocked'
        BY <1>1, <1>2, <1>8, <1>9 DEF Blocked, RunCancelled
    <2>2. QED
        BY <1>1, <1>2, <1>6, <1>8, <1>9, <2>1, QuietStep DEF RunCancelled, Rest
<1>10. CASE OnRead(i)
    <2>1. /\ i \notin cancelled /\ Issue(Op("read", 0), completions \ {i})
          /\ heard' = Append(heard, ops[i].message)
          /\ UNCHANGED <<finished, cancelled, worker, client, call>>
        BY <1>10 DEF OnRead
    <2>2. Reading'
        BY <1>1, <1>2, <1>5, <1>7, <1>10, <2>1, ReadingReads DEF GrpcInv
    <2>3. heard' \in Seq(Nat)
        <3>1. ops[i] \in Ops
            BY <1>1, <1>5 DEF Queues
        <3>2. ops[i].message \in Nat /\ heard \in Seq(Nat)
            BY <1>1, <3>1 DEF Rest, Ops
        <3>3. QED
            BY <2>1, <3>2
    <2>4. Blocked'
        BY <1>2, <1>7, <1>8, <2>1 DEF Blocked
    <2>5. \A j \in completions : j \in cancelled' \/ j \in completions \ {i} \/ j = Head(tasks)
        BY <1>3
    <2>6. QED
        BY <1>2, <1>6, <1>8, <2>1, <2>2, <2>3, <2>4, <2>5, IssueStep
<1>11. CASE OnWrite(i)
    <2>1. /\ i \notin cancelled /\ ops[i].kind = "write"
          /\ TryStartWrite(buffer, FALSE, completions \ {i})
          /\ UNCHANGED <<heard, finished, cancelled, worker, written, call>>
        BY <1>11 DEF OnWrite
    <2>2. \A j \in completions \ {i} : ops[j].kind # "write"
        BY <1>1, <1>7, <2>1 DEF Writing
    <2>3. call = "open" => Len(out) = written - Len(buffer)
        BY <1>1, <1>6, <2>2 DEF Writing
    <2>4. \A k \in 1..Len(buffer) : buffer[k] = (written - Len(buffer)) + k
        BY <1>1 DEF Writing
    <2>5. Blocked'
        BY <1>2, <1>7, <1>8, <2>1 DEF Blocked
    <2>6. buffer \in Seq(Nat) /\ written \in Nat /\ call \in {"open", "ended", "cancelled"}
        BY <1>1 DEF Rest
    <2>7. \A j \in completions : j \in cancelled' \/ j \in completions \ {i} \/ j = Head(tasks)
        BY <1>3
    <2>8. QED
        BY <1>2, <1>6, <1>8, <2>1, <2>2, <2>3, <2>4, <2>5, <2>6, <2>7, WriteStep
<1>12. CASE OnFinish(i)
    <2>1. /\ completions' = completions \ {i} /\ cancelled' = cancelled \cup completions'
          /\ worker' = [at |-> "drain", then |-> "tell"] /\ observer
          /\ UNCHANGED <<heard, finished, ops, pending, client, call>>
        BY <1>7, <1>12 DEF OnFinish
    <2>2. worker' \in Waits /\ Blocked'
        BY <1>2, <2>1 DEF Blocked, Waits
    <2>3. QED
        BY <1>1, <1>2, <1>3, <1>6, <1>8, <2>1, <2>2, QuietStep DEF Rest
<1>13. CASE OnOperationFailed(i)
    <2>1. /\ completions' = completions \ {i} /\ finished' = TRUE /\ observer
          /\ UNCHANGED <<heard, ops, pending, client, call>>
        BY <1>7, <1>13 DEF OnOperationFailed
    <2>2. CASE finished
        <3>1. UNCHANGED <<cancelled, worker>>
            BY <1>13, <2>2 DEF OnOperationFailed
        <3>2. Blocked'
            BY <1>2, <1>8, <2>1, <3>1 DEF Blocked
        <3>3. QED
            BY <1>1, <1>2, <1>3, <1>6, <1>8, <2>1, <3>1, <3>2, QuietStep DEF Rest
    <2>3. CASE ~finished
        <3>1. /\ cancelled' = cancelled \cup completions'
              /\ worker' = [at |-> "finish", then |-> "wait"]
            BY <1>13, <2>3 DEF OnOperationFailed
        <3>2. worker' \in Waits /\ Blocked'
            BY <1>2, <2>1, <3>1 DEF Blocked, Waits
        <3>3. QED
            BY <1>1, <1>2, <1>3, <1>6, <1>8, <2>1, <3>1, <3>2, QuietStep DEF Rest
    <2>4. QED
        BY <2>2, <2>3
<1>14. QED
    BY <1>4, <1>9, <1>10, <1>11, <1>12, <1>13

\* The three ways of finishing the stream, and the end of a last write.
LEMMA FinishingKeeps ==
    ASSUME GrpcInv, FinishImmediately \/ FinishAndNotify \/ WriteAndFinish \/ LastWriteOver
    PROVE  GrpcInv'
<1>1. Queues /\ Rest /\ Held /\ Blocked
    BY Types DEF GrpcInv
<1>2. pending \subseteq completions /\ \A j \in completions : j \in completions
    BY <1>1 DEF Held
\* A Shutdown that is all of the step.
<1>3. ASSUME NEW then \in {"wait", "tell", "quiet"}, Shutdown(then), observer,
             UNCHANGED <<observer, told, heard, ops, pending, completions, tasks, client,
                         replies, taken, out>>
      PROVE  GrpcInv'
    <2>1. /\ cancelled' = cancelled \cup completions
          /\ worker' \in Waits /\ worker'.at \in {"finish", "drain"}
          /\ call' \in {"open", "ended", "cancelled"} /\ (call' = "open" => call = "open")
          /\ finished' \in BOOLEAN
        BY <1>1, <1>3, ShutdownFacts
    <2>2. Blocked'
        BY <1>3, <2>1 DEF Blocked
    <2>3. observer' \in BOOLEAN /\ told' \in BOOLEAN /\ replies' \in Nat
        BY <1>1, <1>3 DEF Rest
    <2>4. QED
        BY <1>2, <1>3, <2>1, <2>2, <2>3, QuietStep
<1>4. CASE FinishImmediately
    BY <1>3, <1>4 DEF FinishImmediately, Runs
<1>5. CASE FinishAndNotify
    BY <1>3, <1>5 DEF FinishAndNotify, Runs
<1>6. CASE LastWriteOver
    <2>1. observer /\ worker.then \in {"wait", "tell", "quiet"}
        <3>1. worker.at = "last write" /\ Free.at = "free"
            BY <1>6 DEF LastWriteOver, Free
        <3>2. worker # Free
            BY <3>1
        <3>3. worker.then \in {"wait", "tell", "quiet"}
            BY <1>1 DEF Rest, Waits
        <3>4. QED
            BY <1>1, <3>2, <3>3 DEF Blocked
    <2>2. QED
        BY <1>3, <1>6, <2>1 DEF LastWriteOver
<1>7. CASE WriteAndFinish
    <2>1. observer /\ worker = Free /\ UNCHANGED <<observer, told, heard, tasks, replies, taken, out>>
        BY <1>7 DEF WriteAndFinish, Runs
    <2>2. CASE finished
        BY <1>3, <1>7, <2>1, <2>2 DEF WriteAndFinish
    <2>3. CASE ~finished
        <3>1. EnqueueWrite
            BY <1>7, <2>3 DEF WriteAndFinish
        <3>2. /\ cancelled \subseteq cancelled' /\ cancelled' \subseteq cancelled \cup completions
              /\ worker' \in Waits
              /\ call' \in {"open", "ended", "cancelled"} /\ (call' = "open" => call = "open")
              /\ finished' \in BOOLEAN /\ Blocked'
            <4>1. CASE Busy
                <5>1. Shutdown("quiet")
                    BY <1>7, <2>3, <4>1 DEF WriteAndFinish
                <5>2. /\ cancelled' = cancelled \cup completions
                      /\ worker' \in Waits /\ worker'.at \in {"finish", "drain"}
                      /\ call' \in {"open", "ended", "cancelled"} /\ (call' = "open" => call = "open")
                      /\ finished' \in BOOLEAN
                    BY <1>1, <5>1, ShutdownFacts
                <5>3. completions' = completions
                    BY <3>1, <4>1, EnqueueFacts DEF TryStartWrite, Busy
                <5>4. Blocked'
                    BY <2>1, <5>2, <5>3 DEF Blocked
                <5>5. QED
                    BY <5>2, <5>4
            <4>2. CASE ~Busy
                <5>1. /\ worker' = [at |-> "last write", then |-> "quiet"]
                      /\ UNCHANGED <<cancelled, finished, call>>
                    BY <1>7, <2>3, <4>2 DEF WriteAndFinish
                <5>2. worker' \in Waits /\ worker'.at = "last write"
                    BY <5>1 DEF Waits
                <5>3. Blocked'
                    BY <2>1, <5>2 DEF Blocked
                <5>4. QED
                    BY <1>1, <5>1, <5>2, <5>3 DEF Rest
            <4>3. QED
                BY <4>1, <4>2
        <3>3. QED
            BY <1>2, <2>1, <3>1, <3>2, EnqueueFacts, WriteStep
    <2>4. QED
        BY <2>2, <2>3
<1>8. QED
    BY <1>4, <1>5, <1>6, <1>7

\* Whoever blocked goes on: the call is finished, or the stream destroyed.
LEMMA WokenKeeps ==
    ASSUME GrpcInv, FinishGrpcCall \/ Drained
    PROVE  GrpcInv'
<1>1. Queues /\ Rest /\ Held /\ Blocked
    BY Types DEF GrpcInv
<1>2. worker.at \in {"finish", "drain"} /\ AllOffQueue
    BY DEF FinishGrpcCall, Drained
<1>3. pending = {} /\ completions \subseteq cancelled
    BY <1>1, <1>2 DEF Held, Blocked, AllOffQueue
<1>4. observer
    BY <1>1, <1>2 DEF Blocked, Free
<1>5. CASE FinishGrpcCall
    <2>1. /\ Issue(Op("finish", 0), {})
          /\ UNCHANGED <<observer, told, heard, finished, tasks, client, network>>
        BY <1>5 DEF FinishGrpcCall
    <2>2. completions' = {New}
        BY <2>1 DEF Issue
    <2>3. /\ cancelled \subseteq cancelled' /\ cancelled' \subseteq cancelled \cup {New}
          /\ worker' \in Waits /\ Blocked'
        <3>1. CASE worker.then = "wait"
            <4>1. worker' = Free /\ cancelled' = cancelled
                BY <1>5, <3>1 DEF FinishGrpcCall
            <4>2. worker' \in Waits /\ worker'.at = "free"
                BY <4>1 DEF Free, Waits
            <4>3. QED
                BY <1>4, <2>1, <4>1, <4>2 DEF Blocked
        <3>2. CASE worker.then # "wait"
            <4>1. worker' = [worker EXCEPT !.at = "drain"] /\ cancelled' = cancelled \cup {New}
                BY <1>5, <3>2 DEF FinishGrpcCall
            <4>2. worker' \in Waits
                BY <1>1, <4>1 DEF Rest, Waits
            <4>3. QED
                BY <1>4, <2>1, <2>2, <4>1, <4>2 DEF Blocked
        <3>3. QED
            BY <3>1, <3>2
    <2>4. Op("finish", 0) \in Ops /\ Op("finish", 0).kind = "finish" /\ ~Op("finish", 0).ok
        BY OpFacts DEF Kinds
    <2>5. Reading'
        BY <2>1, <2>3, <2>4, ReadingIssues DEF GrpcInv, network
    <2>6. heard' \in Seq(Nat) /\ {} \in SUBSET completions
        BY <1>1, <2>1 DEF Rest
    <2>7. QED
        BY <1>3, <2>1, <2>3, <2>5, <2>6, IssueStep DEF network
<1>6. CASE Drained
    <2>1. /\ completions' = {} /\ observer' = FALSE /\ told' \in BOOLEAN /\ worker' = Free
          /\ UNCHANGED <<heard, finished, ops, pending, cancelled, tasks, client, network>>
        BY <1>6 DEF Drained
    <2>2. worker' \in Waits /\ Blocked'
        BY <2>1 DEF Blocked, Free, Waits
    <2>3. QED
        BY <1>1, <1>3, <2>1, <2>2, QuietStep DEF Rest, network
<1>7. QED
    BY <1>5, <1>6

\* gRPC returns an operation.
LEMMA CompletionsKeep ==
    ASSUME GrpcInv, NEW i \in 1..Len(ops), ReadSucceeds(i) \/ WriteSucceeds(i) \/ Ends(i)
    PROVE  GrpcInv'
<1>1. ops[i] \in Ops /\ taken \in Nat /\ i \in pending
    BY DEF GrpcInv, TypeOK, ReadSucceeds, WriteSucceeds, Ends
<1>2. CASE ReadSucceeds(i)
    <2>1. /\ ops[i].kind = "read" /\ taken' = taken + 1 /\ out' = out
          /\ Complete(i, [ops[i] EXCEPT !.message = taken + 1, !.ok = TRUE])
        BY <1>2 DEF ReadSucceeds
    <2>2. PICK next \in Nat : next = taken + 1
        BY <1>1
    <2>3. PICK op : op = [ops[i] EXCEPT !.message = next, !.ok = TRUE]
        OBVIOUS
    <2>4. op \in Ops /\ op.kind = ops[i].kind /\ op.message = next
        BY <1>1, <2>3, OpUpdates, ZenonT(60)
    <2>5. Complete(i, op)
        BY <2>1, <2>2, <2>3
    <2>6. QED
        BY <1>1, <2>1, <2>2, <2>4, <2>5, CompleteStep
<1>3. CASE WriteSucceeds(i)
    <2>1. /\ ops[i].kind = "write" /\ call = "open"
          /\ out' = Append(out, ops[i].message) /\ taken' = taken
          /\ Complete(i, [ops[i] EXCEPT !.ok = TRUE])
        BY <1>3 DEF WriteSucceeds
    <2>2. PICK op : op = [ops[i] EXCEPT !.ok = TRUE]
        OBVIOUS
    <2>3. op \in Ops /\ op.kind = ops[i].kind /\ op.message = ops[i].message
        BY <1>1, <2>2, OpUpdates
    <2>4. QED
        BY <1>1, <2>1, <2>2, <2>3, CompleteStep
<1>4. CASE Ends(i)
    <2>1. /\ call # "open" /\ out' = out /\ taken' = taken
          /\ Complete(i, [ops[i] EXCEPT !.ok = (ops[i].kind = "finish")])
        BY <1>4 DEF Ends
    <2>2. PICK ok \in BOOLEAN : ok = (ops[i].kind = "finish")
        OBVIOUS
    <2>3. PICK op : op = [ops[i] EXCEPT !.ok = ok]
        OBVIOUS
    <2>4. /\ op \in Ops /\ op.kind = ops[i].kind /\ op.message = ops[i].message
          /\ op.kind = "read" => ~op.ok
        BY <1>1, <2>2, <2>3, OpUpdates, ZenonT(60)
    <2>5. Complete(i, op)
        BY <2>1, <2>2, <2>3
    <2>6. QED
        BY <1>1, <2>1, <2>4, <2>5, CompleteStep
<1>5. QED
    BY <1>2, <1>3, <1>4

\* The invariant holds of a stream that was just created.
LEMMA GrpcInvInit == Init => GrpcInv
<1> SUFFICES ASSUME Init PROVE GrpcInv
    OBVIOUS
<1>1. ops = <<>> /\ Len(ops) = 0 /\ tasks = <<>> /\ buffer = <<>> /\ out = <<>> /\ heard = <<>>
    BY DEF Init
<1>2. TypeOK
    <2>1. Queues
        BY <1>1 DEF Init, Queues
    <2>2. Rest
        <3>1. worker \in Waits
            BY DEF Init, Free, Waits
        <3>2. /\ observer \in BOOLEAN /\ told \in BOOLEAN
              /\ finished \in BOOLEAN /\ active \in BOOLEAN
            BY DEF Init
        <3>3. heard \in Seq(Nat) /\ buffer \in Seq(Nat) /\ out \in Seq(Nat)
            BY <1>1
        <3>4. written \in Nat /\ replies \in Nat /\ taken \in Nat /\ call = "open"
            BY DEF Init
        <3>5. QED
            BY <3>1, <3>2, <3>3, <3>4 DEF Rest
    <2>3. QED
        BY <2>1, <2>2, Types
<1>3. Held
    BY <1>1 DEF Init, Held, RunsWhatItHolds
<1>4. Blocked
    BY DEF Init, Blocked, Free
<1>5. Writing
    <2>1. /\ Len(buffer) = 0 /\ Len(out) = 0 /\ written = 0 /\ completions = {} /\ pending = {}
        BY <1>1 DEF Init
    <2>2. \A k \in 1..Len(buffer) : buffer[k] = (written - Len(buffer)) + k
        BY <2>1
    <2>3. (\A i \in pending : ops[i].kind # "write") => Len(out) = written - Len(buffer)
        BY <2>1
    <2>4. \A k \in 1..Len(out) : out[k] = k
        BY <2>1
    <2>5. QED
        BY <1>1, <2>1, <2>2, <2>3, <2>4 DEF Writing
<1>6. Reading
    BY <1>1 DEF Init, Reading
<1>7. FinishComesLast
    BY DEF Init, FinishComesLast
<1>8. QED
    BY <1>2, <1>3, <1>4, <1>5, <1>6, <1>7 DEF GrpcInv

\* Every step keeps it.
LEMMA GrpcInvNext == GrpcInv /\ [Next]_vars => GrpcInv'
<1> SUFFICES ASSUME GrpcInv, [Next]_vars PROVE GrpcInv'
    OBVIOUS
<1>1. Queues /\ Rest /\ Held /\ Blocked
    BY Types DEF GrpcInv
<1>2. pending \subseteq completions
    BY <1>1 DEF Held
<1>3. CASE Start
    <2>1. /\ Issue(Op("read", 0), {}) /\ ops = <<>> /\ observer /\ worker = Free
          /\ UNCHANGED <<observer, told, heard, finished, cancelled, tasks, worker, client,
                         network>>
        BY <1>3 DEF Start, Started, Runs
    <2>2. completions = {} /\ pending = {} /\ cancelled = {}
        BY <1>1, <2>1 DEF Queues
    <2>3. Blocked'
        BY <2>1 DEF Blocked, Free
    <2>4. /\ ops'[New].kind = "read" /\ ~ops'[New].ok
          /\ pending' = {New} /\ completions' = {New}
        <3>1. Op("read", 0) \in Ops /\ Op("read", 0).kind = "read" /\ ~Op("read", 0).ok
            BY OpFacts DEF Kinds
        <3>2. QED
            BY <1>1, <2>1, <2>2, <3>1, IssueFacts DEF Queues
    <2>5. taken = Len(heard) /\ \A k \in 1..Len(heard) : heard[k] = k
        BY <2>1 DEF GrpcInv, Reading
    <2>6. Len(ops') # 0
        BY <1>1, <2>1 DEF Issue, Queues
    <2>7. Reading'
        BY <2>1, <2>4, <2>5, <2>6 DEF Reading, network
    <2>8. heard' \in Seq(Nat) /\ worker' \in Waits /\ {} \in SUBSET completions
        BY <1>1, <2>1 DEF Rest
    <2>9. QED
        BY <2>1, <2>2, <2>3, <2>7, <2>8, IssueStep DEF network
<1>4. CASE Write
    <2>1. /\ EnqueueWrite /\ observer /\ worker = Free
          /\ UNCHANGED <<observer, told, heard, finished, cancelled, tasks, worker, network>>
        BY <1>4 DEF Write, Runs
    <2>2. worker' \in Waits /\ Blocked'
        BY <1>1, <2>1 DEF Blocked, Rest, Free
    <2>3. finished' \in BOOLEAN /\ call' \in {"open", "ended", "cancelled"}
        BY <1>1, <2>1 DEF Rest, network
    <2>4. QED
        BY <1>2, <2>1, <2>2, <2>3, EnqueueFacts, WriteStep DEF network
<1>5. CASE FinishImmediately \/ FinishAndNotify \/ WriteAndFinish \/ LastWriteOver
    BY <1>5, FinishingKeeps
<1>6. CASE RunTask
    BY <1>6, RunTaskKeeps
<1>7. CASE FinishGrpcCall \/ Drained
    BY <1>7, WokenKeeps
<1>8. CASE \E i \in 1..Len(ops) : ReadSucceeds(i) \/ WriteSucceeds(i) \/ Ends(i)
    BY <1>8, CompletionsKeep
<1>9. CASE ReplyArrives
    <2>1. Blocked' /\ replies' \in Nat
        BY <1>1, <1>9 DEF ReplyArrives, Blocked, Rest
    <2>2. QED
        BY <1>1, <1>2, <1>9, <2>1, QuietStep DEF ReplyArrives, Rest
<1>10. CASE CallEnds
    <2>1. Blocked'
        BY <1>1, <1>10 DEF CallEnds, Blocked
    <2>2. QED
        BY <1>1, <1>2, <1>10, <2>1, QuietStep DEF CallEnds, Rest
<1>11. CASE UNCHANGED vars
    <2>1. Blocked'
        BY <1>1, <1>11 DEF vars, Blocked
    <2>2. QED
        BY <1>1, <1>2, <1>11, <2>1, QuietStep DEF vars, network, Rest
<1>12. QED
    BY <1>3, <1>4, <1>5, <1>6, <1>7, <1>8, <1>9, <1>10, <1>11 DEF Next

-----------------------------------------------------------------------------
\* The inductive invariant holds in every reachable state.
THEOREM GrpcStreamCorrect == Spec => []GrpcInv
<1>1. Init => GrpcInv
    BY GrpcInvInit
<1>2. GrpcInv /\ [Next]_vars => GrpcInv'
    BY GrpcInvNext
<1>3. QED
    BY <1>1, <1>2, PTL DEF Spec

\* Every variable keeps its type.
THEOREM GrpcStreamTypes == Spec => []TypeOK
<1>1. GrpcInv => TypeOK
    BY DEF GrpcInv
<1>2. QED
    BY <1>1, GrpcStreamCorrect, PTL

\* The assertion of RemoveCompletion never fails.
THEOREM CallbacksAreHeld == Spec => []RunsWhatItHolds
<1>1. GrpcInv => RunsWhatItHolds
    BY DEF GrpcInv, Held
<1>2. QED
    BY <1>1, GrpcStreamCorrect, PTL

\* A destroyed stream has no operation outstanding and no callback that would
\* use it, in whichever way it was finished.
THEOREM DestructionIsSafe == Spec => []NothingOutlives
<1>1. GrpcInv => NothingOutlives
    <2> SUFFICES ASSUME GrpcInv, ~observer PROVE NothingOutlives
        BY DEF NothingOutlives
    <2>1. completions = {} /\ pending = {}
        BY DEF GrpcInv, Blocked, Held
    <2>2. \A k \in 1..Len(tasks) : tasks[k] \in 1..Len(ops)
        BY DEF GrpcInv, TypeOK
    <2>3. \A k \in 1..Len(tasks) : tasks[k] \in cancelled
        BY <2>1, <2>2 DEF GrpcInv, Held, RunsWhatItHolds
    <2>4. QED
        BY <2>1, <2>3 DEF NothingOutlives
<1>2. QED
    BY <1>1, GrpcStreamCorrect, PTL

\* Messages go out and are heard in order and without a gap.
THEOREM MessagesKeepTheirOrder == Spec => []InOrder
<1>1. GrpcInv => InOrder
    BY DEF GrpcInv, Writing, Reading, InOrder
<1>2. QED
    BY <1>1, GrpcStreamCorrect, PTL

\* gRPC never gets a second write before it has returned the first.
THEOREM WritesDoNotOverlap == Spec => []OneWriteAtATime
<1>1. GrpcInv => OneWriteAtATime
    BY DEF GrpcInv, Held, Writing, OneWriteAtATime
<1>2. QED
    BY <1>1, GrpcStreamCorrect, PTL

\* When the call is finished all that was issued before is off gRPC's queue.
THEOREM FinishIsLast == Spec => []FinishComesLast
<1>1. GrpcInv => FinishComesLast
    BY DEF GrpcInv
<1>2. QED
    BY <1>1, GrpcStreamCorrect, PTL

-----------------------------------------------------------------------------
(* That a call which is over is let go, as far as it is a matter of safety: *)
(* who blocks can be woken, and who does not is going to hear of the end.   *)

\* A call is over before it is finished, and before it is waited for; only on a
\* call that is over does an operation fail.
Ending ==
    /\ finished => call # "open" /\ Started
    /\ worker.at = "finish" => finished
    /\ worker.at = "drain" => finished \/ completions = {}
    /\ worker.at # "free" => Started /\ observer
    /\ \A i \in 1..Len(ops) :
          /\ ops[i].kind = "finish" => finished
          /\ i \notin pending /\ ops[i].kind # "finish" /\ ~ops[i].ok => call # "open"

\* The part of it that is about operations.
Failures ==
    \A i \in 1..Len(ops) :
        /\ ops[i].kind = "finish" => finished
        /\ i \notin pending /\ ops[i].kind # "finish" /\ ~ops[i].ok => call # "open"

\* Steps that issue nothing, or an operation that is no "finish" before its time.
LEMMA FailuresKeep ==
    ASSUME TypeOK, Failures, finished => finished', call' = "open" => call = "open",
           \/ UNCHANGED <<ops, pending>>
           \/ \E op \in Ops, held \in SUBSET completions :
                 Issue(op, held) /\ (op.kind = "finish" => finished')
    PROVE  Failures'
<1>1. CASE UNCHANGED <<ops, pending>>
    BY <1>1 DEF Failures
<1>2. ASSUME NEW op \in Ops, NEW held \in SUBSET completions,
             Issue(op, held), op.kind = "finish" => finished'
      PROVE  Failures'
    <2>1. /\ ops'[New] = op /\ New \in pending' /\ pending \subseteq pending'
          /\ \A i \in 1..Len(ops) : ops'[i] = ops[i]
          /\ \A i \in 1..Len(ops') : i = New \/ i \in 1..Len(ops)
        BY <1>2, IssueFacts DEF TypeOK
    <2>2. ASSUME NEW i \in 1..Len(ops'), i # New
          PROVE  /\ ops'[i].kind = "finish" => finished'
                 /\ i \notin pending' /\ ops'[i].kind # "finish" /\ ~ops'[i].ok => call' # "open"
        BY <2>1, <2>2 DEF Failures
    <2>3. QED
        BY <1>2, <2>1, <2>2 DEF Failures
<1>3. QED
    BY <1>1, <1>2

\* Shutdown ends a call that it waits for.
LEMMA ShutdownEnds ==
    ASSUME finished => call # "open", Shutdown("quiet") \/ Shutdown("tell"),
           completions' = completions
    PROVE  /\ finished => finished'
           /\ call' = "open" => call = "open"
           /\ finished' => call' # "open"
           /\ worker'.at = "finish" => finished'
           /\ worker'.at = "drain" => finished' \/ completions' = {}
           /\ worker'.at # "free"
<1>1. PICK then \in {"quiet", "tell"} : Shutdown(then)
    OBVIOUS
<1>2. CASE completions # {} /\ ~finished
    BY <1>1, <1>2 DEF Shutdown
<1>3. CASE ~(completions # {} /\ ~finished)
    BY <1>1, <1>3 DEF Shutdown
<1>4. QED
    BY <1>2, <1>3

\* An operation that is issued by the writer is a write.
LEMMA WriterFails ==
    ASSUME TypeOK, Failures, NEW queue \in Seq(Nat), NEW busy \in BOOLEAN,
           NEW held \in SUBSET completions, TryStartWrite(queue, busy, held),
           finished => finished', call' = "open" => call = "open"
    PROVE  Failures' /\ (Started => Started')
<1>1. CASE UNCHANGED <<ops, pending>> /\ completions' = held
    BY <1>1, FailuresKeep DEF Started
<1>2. ASSUME NEW op \in Ops, op.kind = "write", ~op.ok, Issue(op, held)
      PROVE  Failures' /\ Started'
    <2>1. Failures'
        BY <1>2, FailuresKeep
    <2>2. Len(ops') = Len(ops) + 1 /\ Len(ops) \in Nat /\ ops' \in Seq(Ops)
        BY <1>2, IssueFacts DEF TypeOK
    <2>3. QED
        BY <2>1, <2>2 DEF Started
<1>3. QED
    BY <1>1, <1>2, StartsOrNot

\* Every step keeps Ending.
LEMMA EndingNext ==
    ASSUME GrpcInv, Ending, [Next]_vars
    PROVE  Ending'
<1>1. TypeOK /\ Failures /\ (finished => call # "open" /\ Started)
    BY DEF GrpcInv, Ending, Failures
<1>o. completions # {} => observer
    <2>1. Blocked
        BY DEF GrpcInv
    <2>2. QED
        BY <2>1 DEF Blocked
<1>2. ASSUME Failures', finished' => call' # "open" /\ Started',
             worker'.at = "finish" => finished',
             worker'.at = "drain" => finished' \/ completions' = {},
             worker'.at # "free" => Started' /\ observer'
      PROVE  Ending'
    BY <1>2 DEF Ending, Failures
<1>3. Free.at = "free"
    BY DEF Free
<1>4. CASE Start
    <2>1. Op("read", 0) \in Ops /\ Op("read", 0).kind = "read"
        BY OpFacts DEF Kinds
    <2>2. /\ Issue(Op("read", 0), {}) /\ UNCHANGED <<finished, worker, call>> /\ worker = Free
          /\ ~Started
        BY <1>4 DEF Start, Runs, network
    <2>3. Failures'
        BY <1>1, <2>1, <2>2, FailuresKeep
    <2>4. QED
        BY <1>1, <1>2, <1>3, <2>2, <2>3
<1>5. CASE Write
    <2>1. /\ TryStartWrite(Append(buffer, written'), active, completions)
          /\ Append(buffer, written') \in Seq(Nat) /\ active \in BOOLEAN
          /\ UNCHANGED <<finished, worker, call>> /\ worker = Free
        BY <1>5, EnqueueFacts DEF Write, Runs, network
    <2>2. Failures' /\ (Started => Started')
        BY <1>1, <2>1, WriterFails
    <2>3. QED
        BY <1>1, <1>2, <1>3, <2>1, <2>2
<1>6. ASSUME Shutdown("quiet") \/ Shutdown("tell"), Started, observer, observer' = observer,
             UNCHANGED <<ops, pending, completions>>
      PROVE  Ending'
    <2>1. /\ finished => finished'
          /\ call' = "open" => call = "open"
          /\ finished' => call' # "open"
          /\ worker'.at = "finish" => finished'
          /\ worker'.at = "drain" => finished' \/ completions' = {}
        BY <1>1, <1>6, ShutdownEnds
    <2>2. Failures' /\ Started'
        BY <1>1, <1>6, <2>1, FailuresKeep DEF Started
    <2>3. QED
        BY <1>2, <1>6, <2>1, <2>2
<1>7. CASE FinishImmediately \/ FinishAndNotify
    BY <1>6, <1>7 DEF FinishImmediately, FinishAndNotify, Runs
<1>8. CASE WriteAndFinish
    <2>1. Started /\ observer /\ observer' = observer /\ worker = Free
        BY <1>8 DEF WriteAndFinish, Runs
    <2>2. CASE finished
        BY <1>6, <1>8, <2>1, <2>2 DEF WriteAndFinish
    <2>3. CASE ~finished
        <3>1. /\ EnqueueWrite
              /\ IF active
                 THEN Shutdown("quiet")
                 ELSE /\ worker' = [at |-> "last write", then |-> "quiet"]
                      /\ UNCHANGED <<cancelled, finished, call>>
            BY <1>8, <2>3 DEF WriteAndFinish, Busy
        <3>2. /\ TryStartWrite(Append(buffer, written'), active, completions)
              /\ Append(buffer, written') \in Seq(Nat) /\ active \in BOOLEAN
            BY <3>1, EnqueueFacts
        <3>3. CASE active
            <4>1. UNCHANGED <<ops, pending, completions>>
                BY <3>2, <3>3 DEF TryStartWrite
            <4>2. QED
                BY <1>6, <2>1, <3>1, <3>3, <4>1
        <3>4. CASE ~active
            <4>w. /\ worker' = [at |-> "last write", then |-> "quiet"]
                  /\ UNCHANGED <<finished, call>>
                BY <3>1, <3>4
            <4>1. worker'.at = "last write" /\ UNCHANGED <<finished, call>>
                BY <4>w
            <4>2. Failures' /\ Started'
                BY <1>1, <2>1, <3>2, <4>1, WriterFails
            <4>3. QED
                BY <1>1, <1>2, <2>1, <4>1, <4>2
        <3>5. QED
            BY <3>2, <3>3, <3>4
    <2>4. QED
        BY <2>2, <2>3
<1>9. CASE LastWriteOver
    <2>1. worker.at = "last write" /\ Started /\ observer
        BY <1>9 DEF LastWriteOver, Ending
    <2>2. worker \in Waits
        BY <1>1 DEF TypeOK
    <2>3. CASE worker.then \in {"quiet", "tell"}
        BY <1>6, <1>9, <2>1, <2>3 DEF LastWriteOver
    <2>4. CASE worker.then = "wait"
        \* It does not happen; a Shutdown keeps Ending all the same.
        <3>1. Shutdown("wait") /\ UNCHANGED <<observer, ops, pending, completions>>
            BY <1>9, <2>4 DEF LastWriteOver
        <3>2. /\ finished => finished'
              /\ call' = "open" => call = "open"
              /\ finished' => call' # "open"
              /\ worker'.at = "finish" => finished'
              /\ worker'.at = "drain" => finished' \/ completions' = {}
            BY <1>1, <3>1 DEF Shutdown
        <3>3. Failures' /\ Started'
            BY <1>1, <2>1, <3>1, <3>2, FailuresKeep DEF Started
        <3>4. QED
            BY <1>2, <2>1, <3>1, <3>2, <3>3
    <2>5. QED
        BY <2>2, <2>3, <2>4 DEF Waits
<1>10. CASE RunTask
    <2>1. PICK i : i = Head(tasks)
        OBVIOUS
    <2>2. /\ RunCancelled(i) \/ OnRead(i) \/ OnWrite(i) \/ OnFinish(i) \/ OnOperationFailed(i)
          /\ tasks # <<>> /\ worker = Free /\ observer' = observer
        BY <1>10, <2>1 DEF RunTask
    <2>3. i \in 1..Len(ops) /\ i \notin pending /\ (i \notin cancelled => i \in completions)
        <3>1. Queues /\ Held
            BY Types DEF GrpcInv
        <3>2. QED
            BY <2>1, <2>2, <3>1, FirstTask
    <2>4. Started
        BY <1>1, <2>3 DEF Started, TypeOK
    <2>5. CASE RunCancelled(i)
        <3>1. UNCHANGED <<ops, pending, finished, worker, call>>
            BY <2>5 DEF RunCancelled
        <3>2. Failures' /\ Started'
            BY <1>1, <2>4, <3>1, FailuresKeep DEF Started
        <3>3. QED
            BY <1>1, <1>2, <1>3, <2>2, <3>1, <3>2
    <2>6. CASE OnRead(i)
        <3>1. Op("read", 0) \in Ops /\ Op("read", 0).kind = "read"
            BY OpFacts DEF Kinds
        <3>2. Issue(Op("read", 0), completions \ {i}) /\ UNCHANGED <<finished, worker, call>>
            BY <2>6 DEF OnRead
        <3>f. Failures'
            BY <1>1, <3>1, <3>2, FailuresKeep
        <3>3. Started'
            <4>1. ops' = Append(ops, Op("read", 0)) /\ ops \in Seq(Ops)
                BY <1>1, <3>2 DEF Issue, TypeOK
            <4>2. QED
                BY <3>1, <4>1 DEF Started
        <3>4. QED
            BY <1>1, <1>2, <1>3, <2>2, <3>2, <3>f, <3>3
    <2>7. CASE OnWrite(i)
        <3>1. TryStartWrite(buffer, FALSE, completions \ {i}) /\ UNCHANGED <<finished, worker, call>>
            BY <2>7 DEF OnWrite
        <3>2. buffer \in Seq(Nat)
            BY <1>1 DEF TypeOK
        <3>3. Failures' /\ Started'
            BY <1>1, <2>4, <3>1, <3>2, WriterFails
        <3>4. QED
            BY <1>1, <1>2, <1>3, <2>2, <3>1, <3>3
    <2>8. CASE OnFinish(i)
        <3>1. /\ ops[i].kind = "finish" /\ i \notin cancelled /\ worker'.at = "drain"
              /\ UNCHANGED <<ops, pending, finished, call>>
            BY <2>8 DEF OnFinish
        <3>2. finished
            BY <1>1, <2>3, <3>1 DEF Failures
        <3>f. Failures'
            BY <1>1, <3>1, FailuresKeep
        <3>3. Started' /\ observer'
            BY <1>o, <2>2, <2>3, <2>4, <3>1 DEF Started
        <3>4. QED
            BY <1>1, <1>2, <3>1, <3>2, <3>f, <3>3
    <2>9. CASE OnOperationFailed(i)
        <3>1. /\ ops[i].kind # "finish" /\ ~ops[i].ok /\ i \notin cancelled /\ finished'
              /\ UNCHANGED <<ops, pending, call>>
              /\ worker' = worker \/ worker'.at = "finish"
            BY <2>9 DEF OnOperationFailed
        <3>2. call # "open"
            BY <1>1, <2>3, <3>1 DEF Failures
        <3>f. Failures'
            BY <1>1, <3>1, FailuresKeep
        <3>3. Started' /\ observer'
            BY <1>o, <2>2, <2>3, <2>4, <3>1 DEF Started
        <3>4. QED
            BY <1>2, <1>3, <2>2, <3>1, <3>2, <3>f, <3>3
    <2>10. QED
        BY <2>2, <2>5, <2>6, <2>7, <2>8, <2>9
<1>11. CASE FinishGrpcCall
    <2>1. /\ Issue(Op("finish", 0), {}) /\ UNCHANGED <<observer, finished, call>>
          /\ worker.at = "finish"
        BY <1>11 DEF FinishGrpcCall, network
    <2>2. finished /\ observer
        BY <2>1 DEF Ending
    <2>3. Op("finish", 0) \in Ops
        BY OpFacts DEF Kinds
    <2>4. Failures'
        BY <1>1, <2>1, <2>2, <2>3, FailuresKeep
    <2>5. Started'
        <3>1. ops' = Append(ops, Op("finish", 0)) /\ ops \in Seq(Ops)
            BY <1>1, <2>1 DEF Issue, TypeOK
        <3>2. QED
            BY <2>3, <3>1 DEF Started
    <2>6. QED
        BY <1>1, <1>2, <2>1, <2>2, <2>4, <2>5
<1>12. CASE Drained
    <2>1. worker' = Free /\ UNCHANGED <<finished, ops, pending, call>>
        BY <1>12 DEF Drained, network
    <2>2. Failures' /\ (Started => Started')
        BY <1>1, <2>1, FailuresKeep DEF Started
    <2>3. QED
        BY <1>1, <1>2, <1>3, <2>1, <2>2
<1>13. ASSUME NEW i \in 1..Len(ops), ReadSucceeds(i) \/ WriteSucceeds(i) \/ Ends(i)
       PROVE  Ending'
    <2>1. /\ UNCHANGED <<observer, finished, completions, worker, call>>
          /\ i \in pending /\ ops[i] \in Ops /\ taken + 1 \in Nat
        BY <1>1, <1>13 DEF ReadSucceeds, WriteSucceeds, Ends, Complete, TypeOK
    <2>2. PICK op \in Ops : /\ op.kind = ops[i].kind /\ Complete(i, op)
                            /\ op.ok \/ call # "open"
        <3>1. CASE ReadSucceeds(i)
            <4>1. PICK next \in Nat : next = taken + 1
                BY <2>1
            <4>2. Complete(i, [ops[i] EXCEPT !.message = next, !.ok = TRUE])
                BY <3>1, <4>1 DEF ReadSucceeds
            <4>3. [ops[i] EXCEPT !.message = next, !.ok = TRUE].ok
                BY <2>1 DEF Ops
            <4>4. QED
                BY <2>1, <4>2, <4>3, OpUpdates
        <3>2. CASE WriteSucceeds(i)
            <4>1. Complete(i, [ops[i] EXCEPT !.ok = TRUE])
                BY <3>2 DEF WriteSucceeds
            <4>2. [ops[i] EXCEPT !.ok = TRUE].ok
                BY <2>1 DEF Ops
            <4>3. QED
                BY <2>1, <4>1, <4>2, OpUpdates
        <3>3. CASE Ends(i)
            <4>1. PICK ok \in BOOLEAN : ok = (ops[i].kind = "finish")
                OBVIOUS
            <4>2. Complete(i, [ops[i] EXCEPT !.ok = ok]) /\ call # "open"
                BY <3>3, <4>1 DEF Ends
            <4>3. QED
                <5> DEFINE new == [ops[i] EXCEPT !.ok = ok]
                <5>1. new \in Ops /\ new.kind = ops[i].kind
                    BY <2>1, 0 \in Nat, OpUpdates
                <5>2. Complete(i, new)
                    BY <4>2
                <5> HIDE DEF new
                <5>3. QED
                    BY <4>2, <5>1, <5>2
        <3>4. QED
            BY <1>13, <3>1, <3>2, <3>3
    <2>3. /\ ops' \in Seq(Ops) /\ Len(ops') = Len(ops) /\ ops'[i] = op
          /\ pending' = pending \ {i}
          /\ \A j \in 1..Len(ops) : j # i => ops'[j] = ops[j]
        BY <1>1, <2>2, CompleteFacts DEF TypeOK
    <2>4. Failures'
        BY <1>1, <2>1, <2>2, <2>3 DEF Failures
    <2>5. Started' /\ (worker.at # "free" => observer)
        BY <1>1, <2>3 DEF Started, TypeOK, Ending
    <2>6. QED
        BY <1>2, <2>1, <2>4, <2>5 DEF Ending
<1>14. CASE ReplyArrives \/ CallEnds \/ UNCHANGED vars
    <2>1. /\ UNCHANGED <<observer, finished, ops, pending, completions, worker>>
          /\ call' = "open" => call = "open"
        BY <1>14 DEF ReplyArrives, CallEnds, vars, network
    <2>2. Failures'
        BY <1>1, <2>1, FailuresKeep
    <2>3. QED
        BY <1>2, <2>1, <2>2 DEF Ending, Started
<1>15. QED
    BY <1>4, <1>5, <1>7, <1>8, <1>9, <1>10, <1>11, <1>12, <1>13, <1>14 DEF Next

\* A stream that was just created waits for nothing.
LEMMA EndingInit == Init => Ending
<1> SUFFICES ASSUME Init PROVE Ending
    OBVIOUS
<1>1. worker.at = "free" /\ finished = FALSE /\ Len(ops) = 0
    BY DEF Init, Free
<1>2. QED
    BY <1>1 DEF Ending

\* The operation that tells a stream of the end of its call.
Herald(i) ==
    /\ i \in completions
    /\ ops[i].kind = IF finished THEN "finish" ELSE "read"
    /\ Heeded(i)

\* An operation stays heeded until its own task runs or it is cancelled.
LEMMA StaysHeeded ==
    ASSUME Queues, NEW j \in 1..Len(ops), Heeded(j), cancelled' = cancelled,
           pending \subseteq pending',
           tasks' = tasks \/ (tasks # <<>> /\ tasks' = Tail(tasks) /\ j # Head(tasks))
    PROVE  Heeded(j)'
<1>1. CASE tasks' = tasks \/ j \in pending
    BY <1>1 DEF Heeded
<1>2. ASSUME NEW k \in 1..Len(tasks), tasks[k] = j,
             tasks # <<>>, tasks' = Tail(tasks), j # Head(tasks)
      PROVE  Heeded(j)'
    <2>1. k # 1 /\ Len(tasks) \in Nat
        BY <1>2 DEF Queues
    <2>2. k - 1 \in 1..Len(tasks') /\ tasks'[k - 1] = j
        BY <1>2, <2>1 DEF Queues
    <2>3. QED
        BY <2>2 DEF Heeded
<1>3. QED
    BY <1>1, <1>2 DEF Heeded

\* With an operation that tells of the end the stream will hear of it.
LEMMA HeraldSuffices ==
    ASSUME NEW j, Herald(j)'
    PROVE  EndIsHeeded'
BY DEF Herald, EndIsHeeded

\* A herald stays one through a step that does not run its task.
LEMMA HeraldStays ==
    ASSUME Queues, NEW j \in 1..Len(ops), Herald(j), UNCHANGED <<finished, cancelled>>,
           j \in completions', ops'[j].kind = ops[j].kind, pending \subseteq pending',
           tasks' = tasks \/ (tasks # <<>> /\ tasks' = Tail(tasks) /\ j # Head(tasks))
    PROVE  Herald(j)'
<1>1. Heeded(j)'
    BY StaysHeeded DEF Herald
<1>2. QED
    BY <1>1 DEF Herald

\* An operation that was just issued is heeded.
LEMMA NewHerald ==
    ASSUME TypeOK, NEW op \in Ops, NEW held, Issue(op, held), cancelled' = cancelled,
           op.kind = IF finished' THEN "finish" ELSE "read"
    PROVE  EndIsHeeded'
<1>1. PICK n \in Nat : n = New
    BY DEF TypeOK, New
<1>2. ops'[n] = op /\ n \in pending' /\ n \in completions' /\ n \notin cancelled
    BY <1>1, IssueFacts DEF TypeOK
<1>3. Herald(n)'
    BY <1>2 DEF Herald, Heeded
<1>4. QED
    BY <1>3, HeraldSuffices

\* What the writer does leaves the other operations as they were.
LEMMA WriterSpares ==
    ASSUME TypeOK, NEW queue \in Seq(Nat), NEW busy \in BOOLEAN,
           NEW held \in SUBSET completions, TryStartWrite(queue, busy, held)
    PROVE  /\ \A j \in 1..Len(ops) : ops'[j].kind = ops[j].kind
           /\ pending \subseteq pending' /\ held \subseteq completions'
<1>1. CASE UNCHANGED <<ops, pending>> /\ completions' = held
    BY <1>1
<1>2. ASSUME NEW op \in Ops, Issue(op, held)
      PROVE  /\ \A j \in 1..Len(ops) : ops'[j].kind = ops[j].kind
             /\ pending \subseteq pending' /\ held \subseteq completions'
    BY <1>2, IssueFacts DEF TypeOK
<1>3. QED
    BY <1>1, <1>2, StartsOrNot

\* A task of the worker leaves the stream with a herald, or blocks.
LEMMA RunTaskHeeds ==
    ASSUME GrpcInv, Ending, EndIsHeeded, RunTask, Started, observer
    PROVE  EndIsHeeded'
<1>1. Queues /\ Held /\ TypeOK
    BY Types DEF GrpcInv
<1>2. worker = Free /\ tasks # <<>> /\ tasks' = Tail(tasks)
    BY DEF RunTask
<1>3. PICK i : i = Head(tasks)
    OBVIOUS
<1>4. RunCancelled(i) \/ OnRead(i) \/ OnWrite(i) \/ OnFinish(i) \/ OnOperationFailed(i)
    BY <1>3 DEF RunTask
<1>5. i \notin pending /\ i \in 1..Len(ops)
    BY <1>1, <1>2, <1>3, FirstTask
<1>6. PICK j \in completions : Herald(j)
    BY <1>2 DEF EndIsHeeded, Herald
<1>7. j \in 1..Len(ops) /\ j \notin cancelled
      /\ ops[j].kind = IF finished THEN "finish" ELSE "read"
    BY <1>1, <1>6 DEF TypeOK, Herald, Heeded
\* The herald is not the operation whose task runs.
<1>8. ASSUME j # i, UNCHANGED <<finished, cancelled>>, j \in completions',
             ops'[j].kind = ops[j].kind, pending \subseteq pending'
      PROVE  EndIsHeeded'
    <2>1. Herald(j)'
        BY <1>1, <1>2, <1>3, <1>6, <1>7, <1>8, HeraldStays
    <2>2. QED
        BY <2>1, HeraldSuffices
<1>9. CASE RunCancelled(i)
    BY <1>6, <1>7, <1>8, <1>9 DEF RunCancelled
<1>10. CASE OnRead(i)
    <2>1. /\ i \notin cancelled /\ ops[i].kind = "read"
          /\ Issue(Op("read", 0), completions \ {i}) /\ UNCHANGED <<finished, cancelled>>
        BY <1>10 DEF OnRead
    <2>2. Op("read", 0) \in Ops /\ Op("read", 0).kind = "read"
        BY OpFacts DEF Kinds
    <2>3. CASE finished
        <3>1. j # i
            BY <1>7, <2>1, <2>3
        <3>2. /\ ops'[j] = ops[j] /\ pending \subseteq pending'
              /\ completions \ {i} \subseteq completions'
            BY <1>1, <1>7, <2>1, <2>2, IssueFacts DEF TypeOK
        <3>3. QED
            BY <1>6, <1>8, <2>1, <3>1, <3>2
    <2>4. CASE ~finished
        BY <1>1, <2>1, <2>2, <2>4, NewHerald
    <2>5. QED
        BY <2>3, <2>4
<1>11. CASE OnWrite(i)
    <2>1. /\ ops[i].kind = "write" /\ TryStartWrite(buffer, FALSE, completions \ {i})
          /\ UNCHANGED <<finished, cancelled>> /\ buffer \in Seq(Nat)
        BY <1>1, <1>11 DEF OnWrite, TypeOK
    <2>2. j # i
        BY <1>7, <2>1
    <2>3. /\ ops'[j].kind = ops[j].kind /\ pending \subseteq pending'
          /\ completions \ {i} \subseteq completions'
        BY <1>1, <1>7, <2>1, WriterSpares
    <2>4. QED
        BY <1>6, <1>8, <2>1, <2>2, <2>3
<1>12. CASE OnFinish(i)
    <2>1. worker' = [at |-> "drain", then |-> "tell"]
        BY <1>12 DEF OnFinish
    <2>2. worker'.at # Free.at
        BY <2>1 DEF Free
    <2>3. QED
        BY <2>2 DEF EndIsHeeded, Free
<1>13. CASE OnOperationFailed(i) /\ finished
    <2>1. /\ ops[i].kind # "finish" /\ completions' = completions \ {i}
          /\ finished' = TRUE /\ UNCHANGED <<cancelled, ops, pending>>
        BY <1>13 DEF OnOperationFailed
    <2>2. finished' = finished
        BY <1>1, <1>13, <2>1 DEF TypeOK
    <2>3. j # i
        BY <1>7, <1>13, <2>1
    <2>4. QED
        BY <1>6, <1>8, <2>1, <2>2, <2>3
<1>14. CASE OnOperationFailed(i) /\ ~finished
    <2>1. worker' = [at |-> "finish", then |-> "wait"]
        BY <1>14 DEF OnOperationFailed
    <2>2. worker'.at # Free.at
        BY <2>1 DEF Free
    <2>3. QED
        BY <2>2 DEF EndIsHeeded, Free
<1>15. QED
    BY <1>4, <1>9, <1>10, <1>11, <1>12, <1>13, <1>14

\* Every step keeps the stream listening.
LEMMA HeedingNext ==
    ASSUME GrpcInv, Ending, EndIsHeeded, [Next]_vars
    PROVE  EndIsHeeded'
<1>1. TypeOK /\ Queues
    BY Types DEF GrpcInv
<1>2. ASSUME worker'.at # "free" PROVE EndIsHeeded'
    BY <1>2 DEF EndIsHeeded, Free
\* Steps without a task of the worker.
<1>3. ASSUME UNCHANGED <<observer, worker, finished, cancelled, tasks>>, Started,
             completions \subseteq completions', pending \subseteq pending',
             \A j \in 1..Len(ops) : ops'[j].kind = ops[j].kind
      PROVE  EndIsHeeded'
    <2>1. CASE ~(observer /\ worker = Free)
        BY <1>3, <2>1 DEF EndIsHeeded
    <2>2. CASE observer /\ worker = Free
        <3>1. PICK j \in completions : Herald(j)
            BY <1>3, <2>2 DEF EndIsHeeded, Herald
        <3>2. j \in 1..Len(ops)
            BY <1>1 DEF TypeOK
        <3>3. Herald(j)'
            BY <1>1, <1>3, <3>1, <3>2, HeraldStays
        <3>4. QED
            BY <3>3, HeraldSuffices
    <2>3. QED
        BY <2>1, <2>2
<1>4. CASE Start
    <2>1. Issue(Op("read", 0), {}) /\ UNCHANGED <<finished, cancelled>> /\ ~Started
        BY <1>4 DEF Start
    <2>2. Op("read", 0) \in Ops /\ Op("read", 0).kind = "read"
        BY OpFacts DEF Kinds
    <2>3. ~finished
        BY <2>1 DEF Ending
    <2>4. QED
        BY <1>1, <2>1, <2>2, <2>3, NewHerald
<1>5. CASE Write
    <2>1. /\ TryStartWrite(Append(buffer, written'), active, completions)
          /\ Append(buffer, written') \in Seq(Nat) /\ active \in BOOLEAN /\ Started
          /\ UNCHANGED <<observer, worker, finished, cancelled, tasks>>
        BY <1>5, EnqueueFacts DEF Write
    <2>2. QED
        BY <1>1, <1>3, <2>1, WriterSpares
<1>6. ASSUME NEW then \in {"wait", "tell", "quiet"}, Shutdown(then)
      PROVE  EndIsHeeded'
    <2>1. worker'.at \in {"finish", "drain"}
        BY <1>1, <1>6, Types, ShutdownFacts
    <2>2. QED
        BY <1>2, <2>1
<1>7. CASE FinishImmediately \/ FinishAndNotify
    BY <1>6, <1>7 DEF FinishImmediately, FinishAndNotify
<1>8. CASE WriteAndFinish
    <2>1. Shutdown("quiet") \/ worker' = [at |-> "last write", then |-> "quiet"]
        BY <1>8 DEF WriteAndFinish
    <2>2. CASE worker' = [at |-> "last write", then |-> "quiet"]
        BY <1>2, <2>2
    <2>3. QED
        BY <1>6, <2>1, <2>2
<1>9. CASE LastWriteOver
    <2>1. worker \in Waits /\ Shutdown(worker.then)
        BY <1>1, <1>9 DEF LastWriteOver, TypeOK
    <2>2. QED
        BY <1>6, <2>1 DEF Waits
<1>10. CASE RunTask
    <2>1. UNCHANGED observer /\ worker = Free /\ tasks # <<>>
        BY <1>10 DEF RunTask
    <2>2. Started
        <3>1. Head(tasks) \in 1..Len(ops)
            BY <1>1, <2>1, FirstTask DEF GrpcInv
        <3>2. QED
            BY <1>1, <3>1 DEF Started, TypeOK
    <2>3. CASE observer
        BY <1>10, <2>2, <2>3, RunTaskHeeds
    <2>4. CASE ~observer
        BY <2>1, <2>4 DEF EndIsHeeded
    <2>5. QED
        BY <2>3, <2>4
<1>11. CASE FinishGrpcCall
    <2>1. Issue(Op("finish", 0), {}) /\ finished' = finished /\ finished
        BY <1>11 DEF FinishGrpcCall, Ending
    <2>2. Op("finish", 0) \in Ops /\ Op("finish", 0).kind = "finish"
        BY OpFacts DEF Kinds
    <2>3. CASE worker.then = "wait"
        <3>1. cancelled' = cancelled
            BY <1>11, <2>3 DEF FinishGrpcCall
        <3>2. QED
            BY <1>1, <2>1, <2>2, <3>1, NewHerald
    <2>4. CASE worker.then # "wait"
        <3>1. worker' = [worker EXCEPT !.at = "drain"] /\ worker \in Waits
            BY <1>1, <1>11, <2>4 DEF FinishGrpcCall, TypeOK
        <3>2. worker'.at = "drain"
            BY <3>1 DEF Waits
        <3>3. QED
            BY <1>2, <3>2
    <2>5. QED
        BY <2>3, <2>4
<1>12. CASE Drained
    BY <1>12 DEF Drained, EndIsHeeded
<1>13. ASSUME NEW i \in 1..Len(ops), ReadSucceeds(i) \/ WriteSucceeds(i) \/ Ends(i)
       PROVE  EndIsHeeded'
    <2>1. PICK op \in Ops : op.kind = ops[i].kind /\ Complete(i, op)
        <3>1. ops[i] \in Ops /\ taken + 1 \in Nat
            BY <1>1 DEF TypeOK
        <3>2. CASE ReadSucceeds(i)
            <4>1. PICK next \in Nat : next = taken + 1
                BY <3>1
            <4>2. Complete(i, [ops[i] EXCEPT !.message = next, !.ok = TRUE])
                BY <3>2, <4>1 DEF ReadSucceeds
            <4>3. QED
                BY <3>1, <4>2, OpUpdates
        <3>3. CASE WriteSucceeds(i)
            <4>1. Complete(i, [ops[i] EXCEPT !.ok = TRUE])
                BY <3>3 DEF WriteSucceeds
            <4>2. QED
                BY <3>1, <4>1, OpUpdates
        <3>4. CASE Ends(i)
            <4>1. PICK ok \in BOOLEAN : ok = (ops[i].kind = "finish")
                OBVIOUS
            <4>2. Complete(i, [ops[i] EXCEPT !.ok = ok])
                BY <3>4, <4>1 DEF Ends
            <4>3. QED
                <5> DEFINE new == [ops[i] EXCEPT !.ok = ok]
                <5>1. new \in Ops /\ new.kind = ops[i].kind
                    BY <3>1, 0 \in Nat, OpUpdates
                <5>2. Complete(i, new)
                    BY <4>2
                <5> HIDE DEF new
                <5>3. QED
                    BY <4>2, <5>1, <5>2
        <3>5. QED
            BY <1>13, <3>2, <3>3, <3>4
    <2>2. /\ Len(ops') = Len(ops) /\ ops'[i] = op /\ pending' = pending \ {i}
          /\ \A j \in 1..Len(ops) : j # i => ops'[j] = ops[j]
          /\ Len(tasks') = Len(tasks) + 1 /\ tasks'[Len(tasks) + 1] = i
          /\ \A k \in 1..Len(tasks) : tasks'[k] = tasks[k]
        BY <1>1, <2>1, CompleteFacts DEF TypeOK
    <2>3. UNCHANGED <<observer, finished, completions, cancelled, worker>> /\ Len(tasks) \in Nat
        BY <1>1, <2>1 DEF Complete, TypeOK
    <2>4. Started
        BY <1>1 DEF Started, TypeOK
    <2>5. ASSUME observer, worker = Free PROVE EndIsHeeded'
        <3>1. PICK j \in completions : Herald(j)
            BY <2>4, <2>5 DEF EndIsHeeded, Herald
        <3>2. j \in 1..Len(ops) /\ Heeded(j)
            BY <1>1, <3>1 DEF TypeOK, Herald
        <3>3. Heeded(j)'
            <4>1. CASE j = i
                <5>1. Len(tasks) + 1 \in 1..Len(tasks')
                    BY <2>2, <2>3
                <5>2. QED
                    BY <2>2, <2>3, <3>2, <4>1, <5>1 DEF Heeded
            <4>2. CASE j # i
                <5>1. 1..Len(tasks) \subseteq 1..Len(tasks')
                    BY <2>2, <2>3
                <5>2. QED
                    BY <2>2, <2>3, <3>2, <4>2, <5>1 DEF Heeded
            <4>3. QED
                BY <4>1, <4>2
        <3>4. ops'[j].kind = ops[j].kind
            BY <2>1, <2>2, <3>2
        <3>5. Herald(j)'
            BY <2>3, <3>1, <3>3, <3>4 DEF Herald
        <3>6. QED
            BY <3>5, HeraldSuffices
    <2>6. QED
        BY <2>3, <2>5 DEF EndIsHeeded
<1>14. CASE ReplyArrives \/ CallEnds \/ UNCHANGED vars
    <2>1. UNCHANGED <<observer, worker, finished, cancelled, tasks, completions, pending, ops>>
        BY <1>14 DEF ReplyArrives, CallEnds, vars
    <2>2. CASE Started
        BY <1>3, <2>1, <2>2
    <2>3. CASE ~Started
        BY <2>1, <2>3 DEF EndIsHeeded, Started
    <2>4. QED
        BY <2>2, <2>3
<1>15. QED
    BY <1>4, <1>5, <1>7, <1>8, <1>9, <1>10, <1>11, <1>12, <1>13, <1>14 DEF Next

\* A call is over before anything is waited for, and its end is listened for.
Letting == GrpcInv /\ Ending /\ EndIsHeeded

LEMMA LettingAlways == Spec => []Letting
<1>1. Init => Letting
    <2>1. Init => EndIsHeeded
        BY DEF Init, EndIsHeeded, Started
    <2>2. QED
        BY <2>1, GrpcInvInit, EndingInit DEF Letting
<1>2. Letting /\ [Next]_vars => Letting'
    BY GrpcInvNext, EndingNext, HeedingNext DEF Letting
<1>3. QED
    BY <1>1, <1>2, PTL DEF Spec

\* Shutdown and FinishGrpcCall block only for operations that gRPC is going to
\* return: none is out any more, or their call is over.
THEOREM WaitsEndInPrinciple == Spec => []WaitsForWhatReturns
<1>1. Letting => WaitsForWhatReturns
    BY DEF Letting, Ending, WaitsForWhatReturns, AllOffQueue
<1>2. QED
    BY <1>1, LettingAlways, PTL

\* Between its tasks a started stream always has a read out, or the "finish" that
\* follows the first failure, whose callback still runs: no order of failures,
\* writes and messages leaves it deaf to the end of its call.
THEOREM EndsAreHeeded == Spec => []EndIsHeeded
<1>1. Letting => EndIsHeeded
    BY DEF Letting
<1>2. QED
    BY <1>1, LettingAlways, PTL

=============================================================================
