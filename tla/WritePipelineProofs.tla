------------------------ MODULE WritePipelineProofs ------------------------
(* Proofs about WritePipeline, for any accounts and any bounds: the client     *)
(* attributes every reply to the right write, and keeps Outbox's promises.     *)
EXTENDS WritePipeline, TLAPS

-----------------------------------------------------------------------------
(* Sequences.                                                              *)

LEMMA TailFacts ==
    ASSUME NEW S, NEW q \in Seq(S), q # <<>>
    PROVE  /\ Head(q) \in S /\ Head(q) = q[1]
           /\ Tail(q) \in Seq(S)
           /\ Len(q) \in Nat /\ Len(q) >= 1 /\ Len(Tail(q)) = Len(q) - 1
           /\ \A i \in 1..(Len(q) - 1) : Tail(q)[i] = q[i + 1]
  OBVIOUS

LEMMA AppendFacts ==
    ASSUME NEW S, NEW q \in Seq(S), NEW e \in S
    PROVE  /\ Append(q, e) \in Seq(S)
           /\ Len(q) \in Nat /\ Len(Append(q, e)) = Len(q) + 1
           /\ \A i \in 1..Len(q) : Append(q, e)[i] = q[i]
           /\ Append(q, e)[Len(q) + 1] = e
  OBVIOUS

LEMMA ConcatFacts ==
    ASSUME NEW S, NEW p \in Seq(S), NEW q \in Seq(S)
    PROVE  /\ p \o q \in Seq(S)
           /\ Len(p) \in Nat /\ Len(q) \in Nat /\ Len(p \o q) = Len(p) + Len(q)
           /\ \A i \in 1..Len(p) : (p \o q)[i] = p[i]
           /\ \A i \in 1..Len(q) : (p \o q)[Len(p) + i] = q[i]
  OBVIOUS

LEMMA PieceFacts ==
    ASSUME NEW S, NEW q \in Seq(S), NEW m \in 1..(Len(q) + 1), NEW n \in (m - 1)..Len(q)
    PROVE  /\ SubSeq(q, m, n) \in Seq(S)
           /\ Len(SubSeq(q, m, n)) = n - m + 1
           /\ \A i \in 1..(n - m + 1) : SubSeq(q, m, n)[i] = q[m + i - 1]
  OBVIOUS

LEMMA ReplacedFacts ==
    ASSUME NEW S, NEW q \in Seq(S), NEW c \in DOMAIN q, NEW e \in S
    PROVE  LET r == [q EXCEPT ![c] = e]
           IN  /\ r \in Seq(S) /\ DOMAIN r = DOMAIN q /\ Len(r) = Len(q)
               /\ Len(q) \in Nat /\ DOMAIN q = 1..Len(q)
               /\ r[c] = e /\ \A d \in DOMAIN q : d # c => r[d] = q[d]
  OBVIOUS

-----------------------------------------------------------------------------
(* The pipeline is filled with what follows in the queue.                  *)

Batches == 1..MaxWrites

\* The first n of a queue are those up to the n-th.
LEMMA PlaceIsLength ==
    ASSUME NEW q \in Seq(Batches), Increasing(q), NEW n \in 0..Len(q)
    PROVE  PlaceOf(q, IF n = 0 THEN 0 ELSE q[n]) = n
  <1>. DEFINE last == IF n = 0 THEN 0 ELSE q[n]
              P(i) == (\A j \in 1..i : q[j] <= last) /\ (\A j \in (i + 1)..Len(q) : q[j] > last)
  <1>1. Len(q) \in Nat /\ DOMAIN q = 1..Len(q) /\ \A i \in 1..Len(q) : q[i] \in Nat /\ q[i] > 0
    BY WritePipelineAssumption DEF Batches
  <1>2. \A i, j \in 1..Len(q) : i < j => q[i] < q[j]
    BY <1>1 DEF Increasing
  <1>3. P(n)
    <2>1. CASE n = 0
      BY <1>1, <2>1
    <2>2. CASE n # 0
      <3>1. n \in 1..Len(q) /\ last = q[n]
        BY <1>1, <2>2
      <3>2. ASSUME NEW j \in 1..n PROVE q[j] <= q[n]
        <4>1. j \in 1..Len(q) /\ (j < n \/ j = n)
          BY <1>1
        <4>. QED
          BY <1>1, <1>2, <3>1, <4>1
      <3>3. ASSUME NEW j \in (n + 1)..Len(q) PROVE q[j] > q[n]
        BY <1>1, <1>2, <3>1
      <3>. QED
        BY <3>1, <3>2, <3>3
    <2>. QED
      BY <2>1, <2>2
  <1>4. ASSUME NEW i \in 0..Len(q), P(i)
        PROVE  i = n
    <2>1. ~(i < n)
      <3>1. SUFFICES ASSUME i < n PROVE FALSE
        OBVIOUS
      <3>2. n \in (i + 1)..Len(q) /\ n # 0
        BY <1>1, <3>1
      <3>3. q[n] > q[n]
        BY <1>4, <3>2
      <3>. QED
        BY <1>1, <3>2, <3>3
    <2>2. ~(i > n)
      <3>1. SUFFICES ASSUME i > n PROVE FALSE
        OBVIOUS
      <3>2. n + 1 \in 1..i /\ n + 1 \in 1..Len(q)
        BY <1>1, <3>1
      <3>3. q[n + 1] <= last
        BY <1>4, <3>2
      <3>4. CASE n = 0
        BY <1>1, <3>2, <3>3, <3>4
      <3>5. CASE n # 0
        <4>1. n \in 1..Len(q) /\ last = q[n]
          BY <1>1, <3>5
        <4>2. q[n] < q[n + 1]
          BY <1>1, <1>2, <3>2, <4>1
        <4>. QED
          BY <1>1, <3>2, <3>3, <4>1, <4>2
      <3>. QED
        BY <3>4, <3>5
    <2>. QED
      BY <1>1, <2>1, <2>2
  <1>5. (CHOOSE i \in 0..Len(q) : P(i)) = n
    <2>. HIDE DEF P
    <2>. QED
      BY <1>3, <1>4
  <1>. QED
    BY <1>5 DEF PlaceOf

\* A pipeline that is the front of the queue.
Front(pipe, q) ==
    /\ Len(pipe) <= Least(Len(q), MaxPipeline)
    /\ \A i \in DOMAIN pipe : pipe[i] = q[i]

LEMMA AdditionsFollow ==
    ASSUME NEW q \in Seq(Batches), Increasing(q), NEW pipe \in Seq(Batches), Front(pipe, q)
    PROVE  LET new == Additions(pipe, q)
               all == pipe \o new
           IN  /\ new \in Seq(Batches) /\ all \in Seq(Batches)
               /\ Len(new) \in Nat /\ Len(pipe) \in Nat
               /\ Len(all) = Least(Len(q), MaxPipeline)
               /\ Len(all) = Len(pipe) + Len(new)
               /\ \A i \in 1..Len(all) : all[i] = q[i]
               /\ \A i \in 1..Len(pipe) : all[i] = pipe[i]
               /\ \A i \in 1..Len(new) : all[Len(pipe) + i] = new[i]
  <1>. DEFINE n == Len(pipe)
              top == Least(Len(q), n + MaxPipeline - n)
              new == SubSeq(q, n + 1, top)
  <1>1. n \in Nat /\ Len(q) \in Nat /\ MaxPipeline \in Nat /\ n <= Len(q) /\ n <= MaxPipeline
    BY WritePipelineAssumption DEF Front, Least
  <1>2. top = Least(Len(q), MaxPipeline) /\ top \in n..Len(q)
    BY <1>1 DEF Front, Least
  <1>3. (IF pipe = <<>> THEN 0 ELSE pipe[n]) = (IF n = 0 THEN 0 ELSE q[n])
    <2>1. pipe = <<>> <=> n = 0
      OBVIOUS
    <2>2. n # 0 => pipe[n] = q[n]
      BY <1>1 DEF Front
    <2>. QED
      BY <2>1, <2>2
  <1>4. Additions(pipe, q) = new
    <2>1. n \in 0..Len(q)
      BY <1>1
    <2>2. PlaceOf(q, IF pipe = <<>> THEN 0 ELSE pipe[n]) = n
      <3>1. PlaceOf(q, IF n = 0 THEN 0 ELSE q[n]) = n
        BY <2>1, PlaceIsLength
      <3>. QED
        BY <1>3, <3>1
    <2>. QED
      BY <2>2, Zenon DEF Additions
  <1>. HIDE DEF top, new
  <1>5. /\ new \in Seq(Batches) /\ Len(new) = top - n
        /\ \A i \in 1..(top - n) : new[i] = q[n + i]
    <2>1. n + 1 \in 1..(Len(q) + 1) /\ top \in ((n + 1) - 1)..Len(q)
      BY <1>1, <1>2
    <2>2. /\ new \in Seq(Batches) /\ Len(new) = top - (n + 1) + 1
          /\ \A i \in 1..(top - (n + 1) + 1) : new[i] = q[(n + 1) + i - 1]
      BY <2>1, PieceFacts DEF new
    <2>3. top - (n + 1) + 1 = top - n /\ \A i \in 1..(top - n) : (n + 1) + i - 1 = n + i
      BY <1>1, <1>2
    <2>. QED
      BY <2>2, <2>3
  <1>6. /\ pipe \o new \in Seq(Batches) /\ Len(pipe \o new) = top
        /\ \A i \in 1..n : (pipe \o new)[i] = pipe[i]
        /\ \A i \in 1..(top - n) : (pipe \o new)[n + i] = new[i]
    BY <1>1, <1>2, <1>5, ConcatFacts
  <1>7. ASSUME NEW i \in 1..top PROVE (pipe \o new)[i] = q[i]
    <2>1. CASE i <= n
      BY <1>1, <1>2, <1>6, <2>1 DEF Front
    <2>2. CASE i > n
      <3>1. i - n \in 1..(top - n) /\ n + (i - n) = i
        BY <1>1, <1>2, <2>2
      <3>. QED
        BY <1>5, <1>6, <3>1
    <2>3. i <= n \/ i > n
      <3>1. top \in Nat
        BY <1>1, <1>2
      <3>. QED
        BY <1>1, <3>1
    <2>. QED
      BY <2>1, <2>2, <2>3
  <1>. QED
    BY <1>1, <1>2, <1>4, <1>5, <1>6, <1>7

\* RemoveMutationBatch of the oldest.
LEMMA WithoutFirst ==
    ASSUME NEW q \in Seq(Batches), Increasing(q), q # <<>>
    PROVE  Without(q, q[1]) = Tail(q)
  <1>1. Len(q) \in Nat /\ Len(q) >= 1 /\ DOMAIN q = 1..Len(q) /\ \A i \in 1..Len(q) : q[i] \in Nat
    <2>1. Len(q) \in Nat /\ Len(q) >= 1 /\ DOMAIN q = 1..Len(q)
      OBVIOUS
    <2>2. \A i \in 1..Len(q) : q[i] \in Batches
      OBVIOUS
    <2>3. \A n \in Batches : n \in Nat
      BY WritePipelineAssumption DEF Batches
    <2>. QED
      BY <2>1, <2>2, <2>3
  <1>2. \A i \in DOMAIN q : q[i] = q[1] => i = 1
    BY <1>1 DEF Increasing
  <1>3. (CHOOSE i \in DOMAIN q : q[i] = q[1]) = 1
    BY <1>1, <1>2
  <1>4. Without(q, q[1]) = SubSeq(q, 1, 0) \o SubSeq(q, 2, Len(q))
    <2>1. Without(q, q[1]) = SubSeq(q, 1, 1 - 1) \o SubSeq(q, 1 + 1, Len(q))
      BY <1>3, Zenon DEF Without
    <2>. QED
      BY <2>1
  <1>5. SubSeq(q, 1, 0) = <<>> /\ SubSeq(q, 2, Len(q)) = Tail(q)
    BY <1>1
  <1>. QED
    BY <1>4, <1>5, TailFacts

-----------------------------------------------------------------------------
(* A stream in order with the pipeline, whatever the variables are.        *)

Shaking(c) ==
    /\ c.requests # <<>> => c.requests = <<0>> /\ c.replies = <<>>
    /\ c.replies # <<>> => c.replies = <<0>> /\ c.end # "permanent"

RepliesGood(w, pipe, c) ==
    /\ Len(c.replies) <= Len(pipe)
    /\ \A i \in DOMAIN c.replies :
          /\ c.replies[i] = pipe[i]
          /\ w[pipe[i]].stamp > 0
          /\ \A a \in Before(w, pipe[i]) : StaysBelow(w, a, pipe[i])

RequestsGood(pipe, c) ==
    /\ Len(c.replies) + Len(c.requests) = Len(pipe)
    /\ \A i \in DOMAIN c.requests : c.requests[i] = pipe[Len(c.replies) + i]

OwnedBy(w, u, c) ==
    \A i \in DOMAIN c.requests : c.requests[i] \in DOMAIN w /\ w[c.requests[i]].owner = u

BlameGood(w, pipe, c) ==
    /\ Len(c.replies) < Len(pipe)
    /\ Seen(w[pipe[Len(c.replies) + 1]])

StreamGood(w, u, pipe, s, c) ==
    /\ s \in Streams /\ c \in Calls
    /\ s.state # "Open" => s = Fresh(s.state) /\ c = NoCall
    /\ s.idle => s.state = "Open" /\ pipe = <<>>
    /\ IsStarted(s) /\ ~s.handshake => pipe # <<>>
    /\ s.state = "Open" /\ ~s.handshake => Shaking(c)
    /\ s.handshake => RepliesGood(w, pipe, c) /\ OwnedBy(w, u, c)
    /\ s.handshake /\ c.end = "none" => RequestsGood(pipe, c)
    /\ s.handshake /\ c.end = "permanent" => BlameGood(w, pipe, c)

\* The pipeline a queue calls for.
Filled(pipe, q) ==
    /\ pipe \in Seq(Batches)
    /\ Len(pipe) = Least(Len(q), MaxPipeline)
    /\ \A i \in DOMAIN pipe : pipe[i] = q[i]

\* A queue of the account u.
QueueOf(w, u, q) ==
    /\ q \in Seq(Batches)
    /\ Increasing(q)
    /\ \A i \in DOMAIN q : q[i] \in DOMAIN w /\ w[q[i]].owner = u

LEMMA BatchesAreNumbers == Batches \subseteq Nat /\ 0 \notin Batches
  BY WritePipelineAssumption DEF Batches

LEMMA BatchSequence ==
    ASSUME NEW p \in Seq(Batches)
    PROVE  p \in Seq(Nat)
  <1>1. \A i \in 1..Len(p) : p[i] \in Nat
    <2>1. \A i \in 1..Len(p) : p[i] \in Batches
      OBVIOUS
    <2>. QED
      BY <2>1, BatchesAreNumbers
  <1>2. Len(p) \in Nat /\ p = [i \in 1..Len(p) |-> p[i]]
    OBVIOUS
  <1>3. [i \in 1..Len(p) |-> p[i]] \in Seq(Nat)
    BY <1>1, <1>2
  <1>. QED
    BY <1>2, <1>3

LEMMA ClosedIsGood ==
    ASSUME NEW w, NEW u, NEW pipe, NEW state \in States \ {"Open"},
           state \in {"Starting", "Backoff"} => pipe # <<>>
    PROVE  StreamGood(w, u, pipe, Fresh(state), NoCall) /\ NoCall \in Calls
  <1>1. Fresh(state) \in Streams /\ ~Fresh(state).handshake /\ ~Fresh(state).idle
        /\ Fresh(state).state = state
    BY DEF Fresh, Streams, States
  <1>2. NoCall \in Calls
    BY DEF NoCall, Calls
  <1>. QED
    BY <1>1, <1>2 DEF StreamGood, IsStarted

LEMMA SameStream ==
    ASSUME NEW s \in Streams, NEW t \in Streams,
           s.state = t.state, s.handshake = t.handshake, s.idle = t.idle
    PROVE  s = t
  BY DEF Streams

LEMMA StartIsFresh ==
    ASSUME NEW st \in States
    PROVE  Start(Fresh(st)) = Fresh(IF st = "Error" THEN "Backoff" ELSE "Starting")
  <1>. DEFINE next == IF st = "Error" THEN "Backoff" ELSE "Starting"
  <1>1. /\ Fresh(st) \in Streams /\ Fresh(next) \in Streams /\ Fresh(st).state = st
        /\ Fresh(next).state = next /\ next \in States
        /\ Fresh(next).handshake = Fresh(st).handshake /\ Fresh(next).idle = Fresh(st).idle
    BY DEF Fresh, Streams, States
  <1>2. Start(Fresh(st)) = [Fresh(st) EXCEPT !.state = next]
    BY <1>1, Zenon DEF Start
  <1>. HIDE DEF next
  <1>3. /\ Start(Fresh(st)) \in Streams /\ Start(Fresh(st)).state = next
        /\ Start(Fresh(st)).handshake = Fresh(st).handshake
        /\ Start(Fresh(st)).idle = Fresh(st).idle
    BY <1>1, <1>2 DEF Streams
  <1>4. Start(Fresh(st)) = Fresh(next)
    BY <1>1, <1>3, SameStream
  <1>. QED
    BY <1>4 DEF next

\* What is written to the stream is what is added to the pipeline.
LEMMA SendKeepsGood ==
    ASSUME NEW w, NEW u, NEW q, QueueOf(w, u, q),
           NEW pipe \in Seq(Batches), NEW new \in Seq(Batches), NEW s, NEW c,
           Filled(pipe \o new, q), StreamGood(w, u, pipe, s, c), s.state = "Open"
    PROVE  LET c2 == IF Sends(s) THEN [c EXCEPT !.requests = @ \o new] ELSE c
               s2 == Stir(s, Sends(s) /\ new # <<>>)
           IN  StreamGood(w, u, pipe \o new, s2, c2)
  <1>. DEFINE all == pipe \o new
              c2 == IF Sends(s) THEN [c EXCEPT !.requests = @ \o new] ELSE c
              s2 == Stir(s, Sends(s) /\ new # <<>>)
  <1>. SUFFICES StreamGood(w, u, all, s2, c2)
    OBVIOUS
  <1>1. /\ all \in Seq(Batches)
        /\ Len(pipe) \in Nat /\ Len(new) \in Nat /\ Len(all) = Len(pipe) + Len(new)
        /\ \A i \in 1..Len(pipe) : all[i] = pipe[i]
        /\ \A i \in 1..Len(new) : all[Len(pipe) + i] = new[i]
    BY ConcatFacts
  <1>2. /\ s \in Streams /\ c \in Calls
        /\ c.requests \in Seq(Nat) /\ c.replies \in Seq(Nat)
    BY DEF StreamGood, Calls
  <1>3. /\ s2 \in Streams /\ s2.state = "Open" /\ s2.handshake = s.handshake
        /\ s2.idle => s.idle /\ ~(Sends(s) /\ new # <<>>)
    BY <1>2 DEF Stir, Streams, Sends
  <1>6. Filled(all, q) /\ (pipe = <<>> /\ new = <<>> => all = <<>>) /\ (pipe # <<>> => all # <<>>)
    OBVIOUS
  <1>. HIDE DEF all, s2
  <1>4. CASE ~s.handshake
    <2>1. c2 = c /\ Shaking(c) /\ ~s.idle /\ all # <<>>
      <3>1. c2 = c
        BY <1>4 DEF Sends
      <3>2. Shaking(c) /\ IsStarted(s) /\ pipe # <<>> /\ ~s.idle
        BY <1>4 DEF StreamGood, IsStarted
      <3>3. all # <<>>
        BY <1>6, <3>2
      <3>. QED
        BY <3>1, <3>2, <3>3
    <2>. QED
      BY <1>2, <1>3, <1>4, <2>1 DEF StreamGood
  <1>5. CASE s.handshake
    <2>1. Sends(s)
      BY <1>5 DEF Sends
    <2>2. /\ c2 = [c EXCEPT !.requests = c.requests \o new]
          /\ new \in Seq(Nat)
      BY <2>1, BatchesAreNumbers
    <2>3. /\ c2.requests = c.requests \o new
          /\ c2.replies = c.replies /\ c2.end = c.end
          /\ c2 \in Calls
      BY <1>2, <2>2, ConcatFacts DEF Calls
    <2>. HIDE DEF c2
    <2>4. /\ Len(c.requests) \in Nat /\ Len(c.replies) \in Nat
          /\ DOMAIN c.requests = 1..Len(c.requests) /\ DOMAIN c.replies = 1..Len(c.replies)
          /\ DOMAIN c2.requests = 1..Len(c2.requests)
          /\ Len(c2.requests) = Len(c.requests) + Len(new)
          /\ \A i \in 1..Len(c.requests) : c2.requests[i] = c.requests[i]
          /\ \A i \in 1..Len(new) : c2.requests[Len(c.requests) + i] = new[i]
      <3>1. c2.requests \in Seq(Nat)
        BY <2>3, <1>2, <2>2, ConcatFacts
      <3>. QED
        BY <1>2, <2>2, <2>3, <3>1, ConcatFacts, SMTT(60)
    <2>10. /\ Len(c.requests) \in Nat /\ Len(c.replies) \in Nat /\ Len(new) \in Nat
           /\ Len(pipe) \in Nat /\ Len(all) = Len(pipe) + Len(new)
           /\ DOMAIN c2.requests = 1..(Len(c.requests) + Len(new))
           /\ Len(c2.requests) = Len(c.requests) + Len(new)
      BY <1>1, <2>4
    <2>11. ASSUME NEW i \in DOMAIN c2.requests, i > Len(c.requests)
           PROVE  /\ i - Len(c.requests) \in 1..Len(new)
                  /\ i = Len(c.requests) + (i - Len(c.requests))
      BY <2>10, <2>11, SMTT(60)
    <2>5. ~s2.idle \/ all = <<>>
      <3>1. s2.idle => pipe = <<>> /\ new = <<>>
        BY <1>3, <2>1 DEF StreamGood
      <3>. QED
        BY <1>6, <3>1
    <2>6. RepliesGood(w, all, c2)
      <3>1. RepliesGood(w, pipe, c)
        BY <1>5 DEF StreamGood
      <3>2. c2.replies = c.replies /\ Len(c.replies) <= Len(all)
        <4>1. Len(c.replies) <= Len(pipe)
          BY <3>1 DEF RepliesGood
        <4>. QED
          BY <1>1, <2>3, <2>4, <4>1
      <3>3. \A i \in DOMAIN c.replies : i \in 1..Len(pipe)
        <4>1. Len(c.replies) <= Len(pipe)
          BY <3>1 DEF RepliesGood
        <4>. QED
          BY <1>1, <2>4, <4>1
      <3>4. \A i \in DOMAIN c.replies : all[i] = pipe[i]
        BY <1>1, <3>3
      <3>. QED
        BY <3>1, <3>2, <3>4, Zenon DEF RepliesGood
    <2>7. OwnedBy(w, u, c2)
      <3>1. OwnedBy(w, u, c)
        BY <1>5 DEF StreamGood
      <3>2. ASSUME NEW i \in 1..Len(new)
            PROVE  new[i] \in DOMAIN w /\ w[new[i]].owner = u
        <4>1. Len(pipe) + i \in DOMAIN all
          BY <1>1
        <4>2. all[Len(pipe) + i] = q[Len(pipe) + i] /\ Len(pipe) + i \in DOMAIN q
          <5>1. Len(all) <= Len(q) /\ Len(q) \in Nat /\ DOMAIN q = 1..Len(q) /\ Len(all) \in Nat
            BY <1>1, <1>6, WritePipelineAssumption DEF Filled, Least, QueueOf
          <5>2. DOMAIN all = 1..Len(all)
            BY <1>1
          <5>. QED
            BY <1>6, <4>1, <5>1, <5>2 DEF Filled
        <4>. QED
          BY <1>1, <4>2 DEF QueueOf
      <3>3. ASSUME NEW i \in DOMAIN c2.requests
            PROVE  c2.requests[i] \in DOMAIN w /\ w[c2.requests[i]].owner = u
        <4>1. CASE i <= Len(c.requests)
          <5>1. i \in DOMAIN c.requests /\ c2.requests[i] = c.requests[i]
            BY <2>4, <4>1
          <5>. QED
            BY <3>1, <5>1 DEF OwnedBy
        <4>2. CASE i > Len(c.requests)
          <5>1. i - Len(c.requests) \in 1..Len(new)
                /\ i = Len(c.requests) + (i - Len(c.requests))
            BY <2>11, <4>2
          <5>2. c2.requests[i] = new[i - Len(c.requests)]
            BY <2>4, <5>1
          <5>. QED
            BY <3>2, <5>1, <5>2
        <4>. QED
          BY <1>1, <2>4, <4>1, <4>2
      <3>. QED
        BY <3>3 DEF OwnedBy
    <2>8. c.end = "none" => RequestsGood(all, c2)
      <3>1. SUFFICES ASSUME c.end = "none" PROVE RequestsGood(all, c2)
        OBVIOUS
      <3>2. RequestsGood(pipe, c)
        BY <1>5, <3>1 DEF StreamGood
      <3>4. Len(c.replies) + Len(c.requests) = Len(pipe)
        BY <3>2 DEF RequestsGood
      <3>5. /\ \A i \in 1..Len(c.requests) : Len(c.replies) + i \in 1..Len(pipe)
            /\ \A i \in 1..Len(new) : Len(c.replies) + (Len(c.requests) + i) = Len(pipe) + i
            /\ Len(c.replies) + (Len(c.requests) + Len(new)) = Len(pipe) + Len(new)
        <4>1. PICK nr, nk, nn, nm \in Nat :
                 /\ nr = Len(c.replies) /\ nk = Len(c.requests)
                 /\ nn = Len(pipe) /\ nm = Len(new)
          BY <2>10
        <4>2. nr + nk = nn
          BY <3>4, <4>1, Zenon
        <4>3. /\ \A i \in 1..nk : nr + i \in 1..nn
              /\ \A i \in 1..nm : nr + (nk + i) = nn + i
              /\ nr + (nk + nm) = nn + nm
          BY <4>2
        <4>. QED
          BY <4>1, <4>3, Zenon
      <3>3. ASSUME NEW i \in DOMAIN c2.requests
            PROVE  c2.requests[i] = all[Len(c.replies) + i]
        <4>1. CASE i <= Len(c.requests)
          <5>1. i \in DOMAIN c.requests /\ c2.requests[i] = c.requests[i]
            BY <2>4, <4>1
          <5>2. c.requests[i] = pipe[Len(c.replies) + i]
            BY <3>2, <5>1 DEF RequestsGood
          <5>3. i \in 1..Len(c.requests)
            BY <2>4, <5>1
          <5>4. Len(c.replies) + i \in 1..Len(pipe)
            BY <3>5, <5>3
          <5>. QED
            BY <1>1, <5>1, <5>2, <5>4
        <4>2. CASE i > Len(c.requests)
          <5>1. i - Len(c.requests) \in 1..Len(new)
                /\ i = Len(c.requests) + (i - Len(c.requests))
            BY <2>11, <4>2
          <5>2. c2.requests[i] = new[i - Len(c.requests)]
            BY <2>4, <5>1
          <5>3. Len(c.replies) + i = Len(pipe) + (i - Len(c.requests))
            BY <3>5, <5>1
          <5>. QED
            BY <1>1, <5>1, <5>2, <5>3
        <4>. QED
          BY <1>1, <2>4, <4>1, <4>2
      <3>. QED
        <4>1. Len(c2.replies) + Len(c2.requests) = Len(all)
          BY <2>3, <2>10, <3>5
        <4>. QED
          BY <2>3, <3>3, <4>1 DEF RequestsGood
    <2>9. c.end = "permanent" => BlameGood(w, all, c2)
      <3>1. SUFFICES ASSUME c.end = "permanent" PROVE BlameGood(w, all, c2)
        OBVIOUS
      <3>2. BlameGood(w, pipe, c)
        BY <1>5, <3>1 DEF StreamGood
      <3>. QED
        <4>1. Len(c.replies) + 1 \in 1..Len(pipe) /\ Len(c.replies) < Len(all)
          BY <2>10, <3>2 DEF BlameGood
        <4>2. all[Len(c.replies) + 1] = pipe[Len(c.replies) + 1]
          BY <1>1, <4>1
        <4>. QED
          BY <2>3, <3>2, <4>1, <4>2 DEF BlameGood
    <2>. QED
      BY <1>3, <1>5, <2>3, <2>5, <2>6, <2>7, <2>8, <2>9 DEF StreamGood
  <1>. QED
    BY <1>4, <1>5

\* FillWritePipeline.
LEMMA FillKeepsGood ==
    ASSUME NEW w, NEW u, NEW q, QueueOf(w, u, q),
           NEW pipe \in Seq(Batches), Front(pipe, q), NEW s, NEW c,
           StreamGood(w, u, pipe, s, c), FillWritePipeline(pipe, q, s, c)
    PROVE  /\ Filled(pipeline', q)
           /\ StreamGood(w, u, pipeline', stream', call')
           /\ pipeline' # <<>> => IsStarted(stream')
  <1>. DEFINE new == Additions(pipe, q)
              all == pipe \o new
  <1>1. /\ new \in Seq(Batches) /\ all \in Seq(Batches)
        /\ Len(all) = Least(Len(q), MaxPipeline)
        /\ \A i \in 1..Len(all) : all[i] = q[i]
    BY AdditionsFollow DEF QueueOf
  <1>2. Filled(all, q)
    BY <1>1 DEF Filled
  <1>3. /\ pipeline' = all
        /\ call' = IF Sends(s) THEN [c EXCEPT !.requests = @ \o new] ELSE c
        /\ stream' =
             IF all = <<>> THEN MarkIdle(s)
             ELSE IF IsStarted(s) THEN Stir(s, Sends(s) /\ new # <<>>)
             ELSE Start(s)
    BY Zenon DEF FillWritePipeline
  <1>4. s \in Streams /\ c \in Calls
    BY DEF StreamGood
  <1>5. all = <<>> => pipe = <<>> /\ new = <<>>
    BY <1>1
  <1>6. pipe # <<>> => all # <<>>
    BY <1>5
  <1>. HIDE DEF new
  <1>7. CASE s.state = "Open" /\ all # <<>>
    <2>1. StreamGood(w, u, all, Stir(s, Sends(s) /\ new # <<>>),
                     IF Sends(s) THEN [c EXCEPT !.requests = @ \o new] ELSE c)
      BY <1>1, <1>2, <1>7, SendKeepsGood
    <2>2. IsStarted(s) /\ stream' = Stir(s, Sends(s) /\ new # <<>>)
      BY <1>3, <1>7 DEF IsStarted
    <2>3. IsStarted(stream')
      BY <1>4, <2>2 DEF IsStarted, Stir, Streams
    <2>. QED
      BY <1>2, <1>3, <2>1, <2>2, <2>3
  <1>8. CASE s.state = "Open" /\ all = <<>>
    <2>1. pipe = <<>> /\ new = <<>>
      BY <1>5, <1>8
    <2>2. StreamGood(w, u, all, Stir(s, Sends(s) /\ new # <<>>),
                     IF Sends(s) THEN [c EXCEPT !.requests = @ \o new] ELSE c)
      BY <1>1, <1>2, <1>8, SendKeepsGood
    <2>3. Stir(s, Sends(s) /\ new # <<>>) = s /\ stream' = [s EXCEPT !.idle = TRUE]
      BY <1>3, <1>8, <2>1 DEF Stir, MarkIdle
    <2>4. StreamGood(w, u, all, s, call')
      BY <1>3, <2>2, <2>3
    <2>5. s.handshake
      BY <1>8, <2>1 DEF StreamGood, IsStarted
    <2>6. /\ stream' \in Streams /\ stream'.state = "Open"
          /\ stream'.handshake = s.handshake
      BY <1>4, <1>8, <2>3 DEF Streams
    <2>7. StreamGood(w, u, all, stream', call')
      <3>1. /\ call' \in Calls /\ RepliesGood(w, all, call') /\ OwnedBy(w, u, call')
            /\ call'.end = "none" => RequestsGood(all, call')
            /\ call'.end = "permanent" => BlameGood(w, all, call')
        BY <2>4, <2>5 DEF StreamGood
      <3>. QED
        BY <1>8, <2>5, <2>6, <3>1 DEF StreamGood
    <2>. QED
      BY <1>2, <1>3, <1>8, <2>7
  <1>9. CASE s.state # "Open"
    <2>1. s = Fresh(s.state) /\ c = NoCall /\ ~Sends(s) /\ call' = NoCall /\ s.state \in States
      BY <1>3, <1>4, <1>9 DEF StreamGood, Sends, Streams
    <2>2. PICK state \in States \ {"Open"} :
             /\ stream' = Fresh(state)
             /\ state \in {"Starting", "Backoff"} => all # <<>>
             /\ all # <<>> => IsStarted(stream')
      <3>1. CASE all = <<>>
        <4>1. stream' = s
          BY <1>3, <1>9, <3>1 DEF MarkIdle
        <4>2. s.state \notin {"Starting", "Backoff"}
          <5>1. ~IsStarted(s) \/ s.handshake
            BY <1>6, <3>1 DEF StreamGood
          <5>2. ~s.handshake
            BY <2>1 DEF Fresh
          <5>. QED
            BY <5>1, <5>2 DEF IsStarted
        <4>. QED
          BY <1>9, <2>1, <3>1, <4>1, <4>2
      <3>2. CASE all # <<>> /\ IsStarted(s)
        <4>1. stream' = s
          BY <1>3, <2>1, <3>2 DEF Stir
        <4>. QED
          BY <1>9, <2>1, <3>2, <4>1
      <3>3. CASE all # <<>> /\ ~IsStarted(s)
        <4>1. stream' = Start(s)
          BY <1>3, <3>3
        <4>2. stream' = Fresh(IF s.state = "Error" THEN "Backoff" ELSE "Starting")
          <5>1. Start(Fresh(s.state)) = Fresh(IF s.state = "Error" THEN "Backoff" ELSE "Starting")
            BY <2>1, StartIsFresh
          <5>. QED
            BY <2>1, <4>1, <5>1
        <4>3. IsStarted(stream')
          BY <4>2 DEF IsStarted, Fresh
        <4>. QED
          BY <3>3, <4>2, <4>3 DEF States
      <3>. QED
        BY <3>1, <3>2, <3>3
    <2>3. StreamGood(w, u, all, stream', call')
      BY <2>1, <2>2, ClosedIsGood
    <2>. QED
      BY <1>2, <1>3, <2>2, <2>3
  <1>. QED
    BY <1>7, <1>8, <1>9

\* More is known about the writes.
LEMMA GoodWithMore ==
    ASSUME NEW w, NEW w2, NEW u, NEW pipe \in Seq(Batches), NEW s, NEW c,
           StreamGood(w, u, pipe, s, c),
           DOMAIN w = 1..Len(w), Len(w) \in Nat, DOMAIN w \subseteq DOMAIN w2,
           \A i \in DOMAIN pipe : pipe[i] \in DOMAIN w,
           \A b \in DOMAIN w :
              /\ w2[b].owner = w[b].owner
              /\ w2[b].stamp = w[b].stamp /\ w2[b].late = w[b].late
              /\ w[b].refused => w2[b].refused
    PROVE  StreamGood(w2, u, pipe, s, c)
  <1>1. \A b \in DOMAIN w : Before(w2, b) = Before(w, b) /\ Before(w, b) \subseteq DOMAIN w
    <2>1. ASSUME NEW b \in DOMAIN w PROVE 1..(b - 1) \subseteq DOMAIN w
      OBVIOUS
    <2>. QED
      BY <2>1 DEF Before
  <1>2. SUFFICES ASSUME s.handshake
                 PROVE  /\ RepliesGood(w2, pipe, c) /\ OwnedBy(w2, u, c)
                        /\ c.end = "permanent" => BlameGood(w2, pipe, c)
    BY DEF StreamGood
  <1>3. RepliesGood(w, pipe, c) /\ OwnedBy(w, u, c) /\ c.replies \in Seq(Nat)
    BY <1>2 DEF StreamGood, Calls
  <1>4. /\ Len(c.replies) \in Nat /\ DOMAIN c.replies = 1..Len(c.replies)
        /\ Len(pipe) \in Nat /\ DOMAIN pipe = 1..Len(pipe)
    BY <1>3
  <1>5. RepliesGood(w2, pipe, c)
    <2>1. ASSUME NEW i \in DOMAIN c.replies
          PROVE  /\ c.replies[i] = pipe[i]
                 /\ w2[pipe[i]].stamp > 0
                 /\ \A a \in Before(w2, pipe[i]) : StaysBelow(w2, a, pipe[i])
      <3>1. i \in DOMAIN pipe
        BY <1>3, <1>4 DEF RepliesGood
      <3>. QED
        BY <1>1, <1>3, <3>1 DEF RepliesGood, StaysBelow
    <2>. QED
      BY <1>3, <2>1 DEF RepliesGood
  <1>6. OwnedBy(w2, u, c)
    BY <1>3 DEF OwnedBy
  <1>7. c.end = "permanent" => BlameGood(w2, pipe, c)
    <2>1. SUFFICES ASSUME c.end = "permanent" PROVE BlameGood(w2, pipe, c)
      OBVIOUS
    <2>2. BlameGood(w, pipe, c)
      BY <1>2, <2>1 DEF StreamGood
    <2>3. Len(c.replies) + 1 \in DOMAIN pipe
      BY <1>4, <2>2 DEF BlameGood
    <2>. QED
      BY <2>2, <2>3 DEF BlameGood, Seen
  <1>. QED
    BY <1>5, <1>6, <1>7

-----------------------------------------------------------------------------
(* The same for the variables, and what the queues and the history hold.   *)

LEMMA StreamIsGood ==
    ASSUME PipelineInv
    PROVE  StreamGood(writes, user, pipeline, stream, call)
  <1>1. /\ stream \in Streams /\ call \in Calls
        /\ call.requests \in Seq(Nat) /\ call.replies \in Seq(Nat)
        /\ writes \in Seq(Writes)
    BY DEF PipelineInv, TypeOK, Calls
  <1>2. stream.handshake => OwnedBy(writes, user, call)
    <2>1. \A b \in DOMAIN writes : b # 0
      BY <1>1
    <2>. QED
      BY <2>1 DEF PipelineInv, OwnAccount, RequestsAreWrites, OwnedBy
  <1>. QED
    BY <1>1, <1>2 DEF PipelineInv, ClosedIsFresh, StartedForWrites, IdleOnlyWhenEmpty,
      OnlyHandshake, Shaking, RepliesAreFront, RepliesGood, RequestsAreRest, RequestsGood,
      BlamedWasSeen, BlameGood, StreamGood

\* What became of each write.
HistoryGood(w, t) ==
    /\ \A b \in DOMAIN w : w[b].stamp <= t
    /\ \A b \in DOMAIN w :
          /\ w[b].outcome # "open" => \A a \in Before(w, b) : w[a].outcome # "open"
          /\ w[b].outcome = "ok" =>
                w[b].stamp > 0 /\ \A a \in Before(w, b) : StaysBelow(w, a, b)
          /\ w[b].outcome = "failed" => Seen(w[b])

\* Each queue holds the open writes of its account.
QueueGood(w, o, q) ==
    /\ Increasing(q)
    /\ \A i \in DOMAIN q :
          q[i] \in DOMAIN w /\ w[q[i]].owner = o /\ w[q[i]].outcome = "open"
    /\ \A b \in DOMAIN w : w[b].owner = o /\ w[b].outcome = "open" => InQueue(q, b)

LEMMA HistoryIsGood ==
    ASSUME PipelineInv
    PROVE  /\ HistoryGood(writes, clock)
           /\ \A o \in Owners : QueueGood(writes, o, queue[o])
           /\ \A o \in Owners : QueueOf(writes, o, queue[o])
           /\ Filled(pipeline, queue[user])
           /\ user \in Owners
  BY DEF PipelineInv, TypeOK, History, SettledByServer, LastWriteStands, QueuesHold,
    OpenInQueue, HistoryGood, QueueGood, QueueOf, PipelineIsFront, Filled, Batches

\* Types of what no stream changes.
DataTypeOK ==
    /\ writes \in Seq(Writes) /\ Len(writes) <= MaxWrites
    /\ clock \in Nat
    /\ queue \in [Owners -> Seq(Batches)]
    /\ user \in Owners
    /\ callbacks \in [Owners -> SUBSET Batches]
    /\ trouble \in 0..MaxTrouble

LEMMA DataIsTyped == PipelineInv => DataTypeOK
  BY DEF PipelineInv, TypeOK, DataTypeOK, Batches

\* A call's requests, each in its turn.
CallInOrder(w, r) ==
    /\ r \in Seq(Batches)
    /\ \A i \in DOMAIN r :
          /\ r[i] \in DOMAIN w
          /\ \A a \in Before(w, r[i]) :
                \/ w[a].outcome # "open"
                \/ Seen(w[a])
                \/ \E j \in 1..(i - 1) : r[j] = a

AstrayGood(w, s) ==
    /\ s \in [1..MaxTrouble -> Seq(Batches)]
    /\ \A n \in 1..MaxTrouble : CallInOrder(w, s[n])

LEMMA AstrayIsGood == PipelineInv => AstrayGood(writes, astray)
  BY DEF PipelineInv, TypeOK, AstrayInOrder, AstrayGood, CallInOrder, Batches

\* The pieces make up the invariant.
LEMMA InvOfPieces ==
    ASSUME DataTypeOK', AstrayGood(writes', astray'), StreamGood(writes', user', pipeline', stream', call'),
           HistoryGood(writes', clock'),
           \A o \in Owners : QueueGood(writes', o, queue'[o]),
           Filled(pipeline', queue'[user']),
           pipeline' # <<>> => IsStarted(stream'),
           CallbacksWait'
    PROVE  PipelineInv'
  <1>1. /\ writes' \in Seq(Writes) /\ user' \in Owners /\ pipeline' \in Seq(Batches)
        /\ queue'[user'] \in Seq(Batches) /\ call' \in Calls /\ stream' \in Streams
        /\ Len(queue'[user']) \in Nat
    BY DEF DataTypeOK, StreamGood, Filled, Batches
  <1>9. TypeOK'
    <2>1. Len(pipeline') <= MaxPipeline
      BY <1>1, WritePipelineAssumption DEF Filled, Least
    <2>. QED
      BY <1>1, <2>1 DEF TypeOK, DataTypeOK, AstrayGood, Batches
  <1>2. QueuesHold'
    BY DEF QueueGood, QueuesHold
  <1>3. OpenInQueue'
    <2>1. ASSUME NEW b \in DOMAIN writes'
          PROVE  writes'[b].outcome = "open" <=> InQueue(queue'[writes'[b].owner], b)
      <3>1. writes'[b].owner \in Owners
        <4>1. writes'[b] \in Writes
          BY <1>1
        <4>. QED
          BY <4>1 DEF Writes
      <3>2. QueueGood(writes', writes'[b].owner, queue'[writes'[b].owner])
        BY <3>1
      <3>. QED
        BY <3>2 DEF QueueGood, InQueue
    <2>. QED
      BY <2>1 DEF OpenInQueue
  <1>4. PipelineIsFront' /\ NeverForgotten'
    BY DEF Filled, PipelineIsFront, NeverForgotten
  <1>5. /\ ClosedIsFresh' /\ StartedForWrites' /\ IdleOnlyWhenEmpty' /\ OnlyHandshake'
        /\ RepliesAreFront' /\ RequestsAreRest' /\ BlamedWasSeen'
    BY DEF StreamGood, ClosedIsFresh, StartedForWrites, IdleOnlyWhenEmpty,
      OnlyHandshake, Shaking, RepliesAreFront, RepliesGood, RequestsAreRest, RequestsGood,
      BlamedWasSeen, BlameGood
  <1>6. RequestsAreWrites'
    BY DEF StreamGood, OwnedBy, RequestsAreWrites
  <1>7. OwnAccount'
    <2>1. ASSUME NEW i \in DOMAIN pipeline' PROVE writes'[pipeline'[i]].owner = user'
      <3>1. i \in DOMAIN queue'[user'] /\ pipeline'[i] = queue'[user'][i]
        <4>1. Len(pipeline') <= Len(queue'[user'])
          BY <1>1, WritePipelineAssumption DEF Filled, Least
        <4>2. DOMAIN pipeline' = 1..Len(pipeline') /\ DOMAIN queue'[user'] = 1..Len(queue'[user'])
          BY <1>1
        <4>. QED
          BY <1>1, <4>1, <4>2 DEF Filled
      <3>2. QueueGood(writes', user', queue'[user'])
        BY <1>1
      <3>. QED
        BY <3>1, <3>2 DEF QueueGood
    <2>2. ASSUME NEW i \in DOMAIN call'.requests, call'.requests[i] # 0
          PROVE  writes'[call'.requests[i]].owner = user'
      <3>1. CASE stream'.handshake
        BY <3>1 DEF StreamGood, OwnedBy
      <3>2. CASE ~stream'.handshake
        <4>1. call'.requests = <<>> \/ call'.requests = <<0>>
          BY <3>2 DEF StreamGood, Shaking, NoCall
        <4>. QED
          BY <2>2, <4>1
      <3>. QED
        BY <3>1, <3>2
    <2>. QED
      BY <2>1, <2>2 DEF OwnAccount
  <1>8. History' /\ SettledByServer' /\ LastWriteStands'
    BY DEF HistoryGood, History, SettledByServer, LastWriteStands
  <1>10. AstrayInOrder'
    BY DEF AstrayGood, CallInOrder, AstrayInOrder
  <1>. QED
    BY <1>2, <1>3, <1>4, <1>5, <1>6, <1>7, <1>8, <1>9, <1>10 DEF PipelineInv

LEMMA InitialIsGood == Init => PipelineInv
  <1>. SUFFICES ASSUME Init PROVE PipelineInv
    OBVIOUS
  <1>1. TypeOK
    BY WritePipelineAssumption DEF Init, TypeOK, Streams, States, Calls, NoCall, Fresh
  <1>2. stream.state = "Initial" /\ ~stream.handshake /\ ~stream.idle /\ call = NoCall
    BY DEF Init, Fresh
  <1>3. Len(pipeline) = Least(Len(queue[user]), MaxPipeline)
    BY WritePipelineAssumption DEF Init, Least
  <1>. QED
    BY <1>1, <1>2, <1>3 DEF Init, PipelineInv, QueuesHold, OpenInQueue, PipelineIsFront, NeverForgotten,
      ClosedIsFresh, StartedForWrites, IdleOnlyWhenEmpty, OnlyHandshake, RepliesAreFront, RequestsAreRest,
      RequestsAreWrites, BlamedWasSeen, OwnAccount, CallbacksWait, History, SettledByServer,
      LastWriteStands, AstrayInOrder, Increasing, IsStarted, NoCall, Fresh

-----------------------------------------------------------------------------
(* The steps of the stream, which leave the writes and the pipeline alone. *)

\* A step after which the stream is in order keeps the invariant.
LEMMA StreamSteps ==
    ASSUME PipelineInv, AstrayGood(writes', astray'), UNCHANGED <<writes, clock, queue, user, callbacks, pipeline>>,
           trouble' \in 0..MaxTrouble,
           StreamGood(writes, user, pipeline, stream', call'),
           pipeline # <<>> => IsStarted(stream')
    PROVE  PipelineInv'
  <1>1. DataTypeOK'
    BY DataIsTyped DEF DataTypeOK
  <1>2. CallbacksWait'
    BY DEF PipelineInv, CallbacksWait
  <1>. QED
    BY <1>1, <1>2, HistoryIsGood, InvOfPieces

LEMMA TroubleIsBounded == PipelineInv /\ Trouble => trouble' \in 0..MaxTrouble
  BY WritePipelineAssumption DEF PipelineInv, TypeOK, Trouble

LEMMA ClosedOnError ==
    ASSUME PipelineInv, CloseOnError
    PROVE  /\ StreamGood(writes, user, pipeline, stream', call')
           /\ pipeline # <<>> => IsStarted(stream')
  <1>1. PICK st \in {"Error", "Backoff"} :
           stream' = Fresh(st) /\ (st = "Backoff" <=> pipeline # <<>>)
    <2>1. Start(Fresh("Error")) = Fresh("Backoff")
      BY StartIsFresh DEF States
    <2>. QED
      BY <2>1 DEF CloseOnError
  <1>2. call' = NoCall
    BY DEF CloseOnError
  <1>3. StreamGood(writes, user, pipeline, stream', call')
    BY <1>1, <1>2, ClosedIsGood DEF States
  <1>4. pipeline # <<>> => IsStarted(stream')
    BY <1>1 DEF IsStarted, Fresh
  <1>. QED
    BY <1>3, <1>4

LEMMA ResumeStartKeeps ==
    ASSUME PipelineInv, AstrayGood(writes', astray'), ResumeStart
    PROVE  PipelineInv'
  <1>1. stream = Fresh("Starting") /\ pipeline # <<>>
    BY DEF PipelineInv, ClosedIsFresh, StartedForWrites, IsStarted, ResumeStart, Fresh
  <1>2. /\ stream' \in Streams /\ stream'.state = "Open"
        /\ ~stream'.handshake /\ ~stream'.idle
    <2>1. stream \in Streams /\ ~stream.handshake
      BY <1>1 DEF PipelineInv, TypeOK, Fresh
    <2>. QED
      BY <2>1 DEF ResumeStart, Streams, States
  <1>3. call' \in Calls /\ call'.requests = <<0>> /\ call'.replies = <<>>
    <2>1. NoCall \in Calls /\ NoCall.replies = <<>> /\ <<0>> \in Seq(Nat)
      BY DEF NoCall, Calls
    <2>. QED
      BY <2>1 DEF ResumeStart, Calls
  <1>4. StreamGood(writes, user, pipeline, stream', call')
    BY <1>1, <1>2, <1>3 DEF StreamGood, Shaking
  <1>5. IsStarted(stream')
    BY <1>2 DEF IsStarted
  <1>. QED
    BY <1>4, <1>5, StreamSteps DEF ResumeStart, PipelineInv, TypeOK

LEMMA ResumeFailsKeeps ==
    ASSUME PipelineInv, AstrayGood(writes', astray'), ResumeFails
    PROVE  PipelineInv'
  BY ClosedOnError, StreamSteps, TroubleIsBounded DEF ResumeFails

LEMMA StreamFailsKeeps ==
    ASSUME PipelineInv, AstrayGood(writes', astray'), StreamFails
    PROVE  PipelineInv'
  BY ClosedOnError, StreamSteps DEF StreamFails, PipelineInv, TypeOK

LEMMA BackoffElapsesKeeps ==
    ASSUME PipelineInv, AstrayGood(writes', astray'), BackoffElapses
    PROVE  PipelineInv'
  <1>1. stream = Fresh("Backoff") /\ pipeline # <<>> /\ call = NoCall
    BY DEF PipelineInv, ClosedIsFresh, StartedForWrites, IsStarted, BackoffElapses, Fresh
  <1>2. stream' = Fresh("Starting")
    <2>1. stream \in Streams /\ ~stream.handshake /\ ~stream.idle
      BY <1>1 DEF PipelineInv, TypeOK, Fresh
    <2>2. Fresh("Starting") \in Streams
      BY DEF Fresh, Streams, States
    <2>3. [stream EXCEPT !.state = "Initial"] = Fresh("Initial")
      <3>1. /\ [stream EXCEPT !.state = "Initial"] \in Streams
            /\ [stream EXCEPT !.state = "Initial"].state = "Initial"
            /\ [stream EXCEPT !.state = "Initial"].handshake = stream.handshake
            /\ [stream EXCEPT !.state = "Initial"].idle = stream.idle
        BY <2>1 DEF Streams, States
      <3>2. /\ Fresh("Initial") \in Streams /\ Fresh("Initial").state = "Initial"
            /\ Fresh("Initial").handshake = stream.handshake
            /\ Fresh("Initial").idle = stream.idle
        BY <1>1 DEF Fresh, Streams, States
      <3>. QED
        BY <3>1, <3>2, SameStream
    <2>4. Start(Fresh("Initial")) = Fresh("Starting")
      BY StartIsFresh DEF States
    <2>. QED
      BY <2>3, <2>4 DEF BackoffElapses
  <1>3. StreamGood(writes, user, pipeline, stream', call')
    BY <1>1, <1>2, ClosedIsGood DEF BackoffElapses, States
  <1>4. IsStarted(stream')
    BY <1>2 DEF IsStarted, Fresh
  <1>. QED
    BY <1>3, <1>4, StreamSteps DEF BackoffElapses, PipelineInv, TypeOK

LEMMA IdleTimeoutKeeps ==
    ASSUME PipelineInv, AstrayGood(writes', astray'), IdleTimeout
    PROVE  PipelineInv'
  <1>1. pipeline = <<>>
    BY DEF PipelineInv, IdleOnlyWhenEmpty, IdleTimeout
  <1>2. StreamGood(writes, user, pipeline, stream', call')
    BY <1>1, ClosedIsGood DEF IdleTimeout, States
  <1>. QED
    BY <1>1, <1>2, StreamSteps DEF IdleTimeout, PipelineInv, TypeOK

LEMMA ReadHandshakeKeeps ==
    ASSUME PipelineInv, AstrayGood(writes', astray'), ReadHandshake
    PROVE  PipelineInv'
  <1>1. /\ call.requests = <<>> /\ call.replies = <<0>> /\ call.end # "permanent"
        /\ pipeline # <<>>
    BY DEF PipelineInv, OnlyHandshake, StartedForWrites, IsStarted, ReadHandshake
  <1>2. /\ stream \in Streams /\ ~stream.idle /\ call \in Calls
        /\ pipeline \in Seq(Batches) /\ pipeline \in Seq(Nat)
    <2>1. /\ stream \in Streams /\ ~stream.idle /\ call \in Calls
          /\ pipeline \in Seq(Batches)
      BY <1>1 DEF PipelineInv, IdleOnlyWhenEmpty, TypeOK, Batches
    <2>2. pipeline \in Seq(Nat)
      BY <2>1, BatchSequence
    <2>. QED
      BY <2>1, <2>2
  <1>3. /\ stream' \in Streams /\ stream'.state = "Open"
        /\ stream'.handshake /\ ~stream'.idle
    BY <1>1, <1>2 DEF ReadHandshake, Stir, Streams
  <1>4. /\ call'.requests = pipeline /\ call'.replies = <<>> /\ call'.end = call.end
        /\ call' \in Calls
    <2>1. PICK sent, unread \in Seq(Nat) :
             sent = call.requests \o pipeline /\ unread = Tail(call.replies)
      <3>1. call.requests \o pipeline \in Seq(Nat) /\ Tail(call.replies) \in Seq(Nat)
        BY <1>1, <1>2
      <3>. QED
        BY <3>1
    <2>2. sent = pipeline /\ unread = <<>>
      BY <1>1, <1>2, <2>1
    <2>3. call' = [call EXCEPT !.requests = sent, !.replies = unread]
      BY <2>1, Zenon DEF ReadHandshake
    <2>. QED
      BY <1>2, <2>2, <2>3 DEF Calls
  <1>5. RepliesGood(writes, pipeline, call')
    BY <1>2, <1>4 DEF RepliesGood
  <1>6. RequestsGood(pipeline, call')
    BY <1>2, <1>4 DEF RequestsGood
  <1>7. OwnedBy(writes, user, call')
    <2>1. ASSUME NEW i \in DOMAIN pipeline
          PROVE  pipeline[i] \in DOMAIN writes /\ writes[pipeline[i]].owner = user
      <3>1. i \in DOMAIN queue[user] /\ pipeline[i] = queue[user][i]
        <4>1. queue[user] \in Seq(Batches)
          BY DataIsTyped DEF DataTypeOK
        <4>2. Len(pipeline) <= Len(queue[user])
          BY <1>2, <4>1, WritePipelineAssumption DEF PipelineInv, PipelineIsFront, Least
        <4>. QED
          BY <1>2, <4>1, <4>2 DEF PipelineInv, PipelineIsFront
      <3>. QED
        BY <3>1, HistoryIsGood DEF QueueGood
    <2>. QED
      BY <1>4, <2>1 DEF OwnedBy
  <1>8. StreamGood(writes, user, pipeline, stream', call')
    BY <1>1, <1>3, <1>4, <1>5, <1>6, <1>7 DEF StreamGood
  <1>9. IsStarted(stream')
    BY <1>3 DEF IsStarted
  <1>. QED
    BY <1>8, <1>9, StreamSteps DEF ReadHandshake, PipelineInv, TypeOK

-----------------------------------------------------------------------------
(* The server and the network.                                             *)

\* The number of a request for a write, and where it is in the pipeline.
LEMMA RequestOfWrite ==
    ASSUME PipelineInv, Takes
    PROVE  LET b == Head(call.requests)
               n == Len(call.replies) + 1
           IN  /\ b = 0 <=> ~stream.handshake
               /\ b = 0 => call.requests = <<0>> /\ call.replies = <<>>
               /\ stream.state = "Open"
               /\ b # 0 => /\ b \in DOMAIN writes /\ n \in DOMAIN pipeline /\ b = pipeline[n]
                           /\ n \in DOMAIN queue[user] /\ b = queue[user][n]
                           /\ writes[b].outcome = "open" /\ writes[b].owner = user
  <1>. DEFINE b == Head(call.requests)
              n == Len(call.replies) + 1
  <1>1. /\ call \in Calls /\ call.requests \in Seq(Nat) /\ call.replies \in Seq(Nat)
        /\ stream \in Streams /\ pipeline \in Seq(Batches) /\ queue[user] \in Seq(Batches)
        /\ writes \in Seq(Writes)
    BY DEF PipelineInv, TypeOK, Calls, Batches
  <1>2. call.end = "none" /\ call.requests # <<>>
    BY DEF Takes
  <1>3. stream.state = "Open"
    BY <1>2 DEF PipelineInv, ClosedIsFresh, NoCall
  <1>4. b = call.requests[1] /\ 1 \in DOMAIN call.requests
    BY <1>1, <1>2, TailFacts
  <1>5. CASE ~stream.handshake
    <2>1. call.requests = <<0>> /\ call.replies = <<>>
      BY <1>2, <1>3, <1>5 DEF PipelineInv, OnlyHandshake
    <2>. QED
      BY <1>3, <1>5, <2>1
  <1>6. CASE stream.handshake
    <2>1. b \in DOMAIN writes
      BY <1>4, <1>6 DEF PipelineInv, RequestsAreWrites
    <2>2. b # 0
      BY <1>1, <2>1
    <2>3. /\ Len(call.replies) + Len(call.requests) = Len(pipeline)
          /\ b = pipeline[n]
      BY <1>2, <1>4, <1>6 DEF PipelineInv, RequestsAreRest
    <2>4. n \in 1..Len(pipeline)
      <3>1. PICK k, r, m \in Nat : k = Len(call.replies) /\ r = Len(call.requests) /\ m = Len(pipeline)
        BY <1>1
      <3>2. r >= 1 /\ k + r = m
        <4>1. Len(call.requests) >= 1
          BY <1>1, <1>2, TailFacts
        <4>. QED
          BY <2>3, <3>1, <4>1
      <3>3. k + 1 \in 1..m
        BY <3>2
      <3>. QED
        BY <3>1, <3>3
    <2>5. n \in DOMAIN pipeline
      BY <1>1, <2>4
    <2>6. n \in DOMAIN queue[user] /\ pipeline[n] = queue[user][n]
      <3>1. Len(pipeline) <= Len(queue[user]) /\ Len(pipeline) \in Nat /\ Len(queue[user]) \in Nat
        BY <1>1, WritePipelineAssumption DEF PipelineInv, PipelineIsFront, Least
      <3>2. n \in 1..Len(queue[user])
        BY <2>4, <3>1
      <3>. QED
        BY <1>1, <2>5, <3>2 DEF PipelineInv, PipelineIsFront
    <2>7. writes[b].outcome = "open" /\ writes[b].owner = user
      BY <2>3, <2>6, HistoryIsGood DEF QueueGood
    <2>. QED
      BY <1>3, <1>6, <2>1, <2>2, <2>3, <2>5, <2>6, <2>7
  <1>. QED
    BY <1>5, <1>6

\* Before a step nobody waits for a write that is settled, nor after it when the
\* queues stay.
LEMMA QueuesStay ==
    ASSUME PipelineInv, UNCHANGED <<queue, callbacks>>
    PROVE  CallbacksWait'
  BY DEF PipelineInv, CallbacksWait

LEMMA ConnectionLostKeeps ==
    ASSUME PipelineInv, AstrayGood(writes', astray'), ConnectionLost
    PROVE  PipelineInv'
  <1>1. PICK n \in 0..Len(call.replies) :
          call' = [call EXCEPT !.replies = SubSeq(call.replies, 1, n), !.end = "transient"]
    BY DEF ConnectionLost
  <1>2. /\ call \in Calls /\ call.replies \in Seq(Nat) /\ call.requests \in Seq(Nat)
        /\ stream' = stream /\ stream.state = "Open" /\ stream \in Streams
    BY DEF PipelineInv, TypeOK, Calls, ConnectionLost
  <1>. DEFINE piece == SubSeq(call.replies, 1, n)
  <1>3. /\ piece \in Seq(Nat) /\ Len(piece) = n
        /\ DOMAIN piece = 1..n /\ 1..n \subseteq DOMAIN call.replies /\ n <= Len(call.replies)
        /\ \A i \in 1..n : piece[i] = call.replies[i]
    <2>1. 1 \in 1..(Len(call.replies) + 1) /\ n \in (1 - 1)..Len(call.replies)
      BY <1>2
    <2>2. /\ piece \in Seq(Nat) /\ Len(piece) = n - 1 + 1
          /\ \A i \in 1..(n - 1 + 1) : piece[i] = call.replies[1 + i - 1]
      BY <1>2, <2>1, PieceFacts
    <2>3. n - 1 + 1 = n /\ \A i \in 1..n : 1 + i - 1 = i
      OBVIOUS
    <2>4. DOMAIN piece = 1..Len(piece)
      BY <2>2
    <2>. QED
      BY <1>2, <2>2, <2>3, <2>4
  <1>. HIDE DEF piece
  <1>4. /\ call'.replies = piece /\ call'.requests = call.requests /\ call'.end = "transient"
        /\ call' \in Calls
    <2>1. call' = [call EXCEPT !.replies = piece, !.end = "transient"]
      BY <1>1 DEF piece
    <2>. QED
      BY <1>2, <1>3, <2>1 DEF Calls
  <1>5. StreamGood(writes, user, pipeline, stream, call)
    BY StreamIsGood
  <1>6. ~stream.handshake => Shaking(call')
    <2>1. SUFFICES ASSUME ~stream.handshake PROVE Shaking(call')
      OBVIOUS
    <2>2. Shaking(call)
      BY <1>2, <1>5, <2>1 DEF StreamGood
    <2>3. piece = <<>> \/ piece = call.replies
      <3>1. call.replies = <<>> \/ call.replies = <<0>>
        BY <2>2 DEF Shaking
      <3>2. n = 0 \/ n = Len(call.replies)
        <4>1. Len(<<>>) = 0 /\ Len(<<0>>) = 1
          OBVIOUS
        <4>2. Len(call.replies) \in {0, 1}
          BY <3>1, <4>1, Zenon
        <4>3. PICK k \in Nat : k = Len(call.replies)
          BY <1>2
        <4>4. k \in {0, 1} /\ n \in 0..k
          BY <4>2, <4>3
        <4>5. n = 0 \/ n = k
          BY <4>4
        <4>. QED
          BY <4>3, <4>5
      <3>. QED
        BY <1>2, <1>3, <3>2 DEF piece
    <2>. QED
      BY <1>4, <2>2, <2>3 DEF Shaking
  <1>7. stream.handshake => RepliesGood(writes, pipeline, call')
    <2>1. SUFFICES ASSUME stream.handshake PROVE RepliesGood(writes, pipeline, call')
      OBVIOUS
    <2>2. RepliesGood(writes, pipeline, call)
      BY <1>5, <2>1 DEF StreamGood
    <2>3. Len(call'.replies) <= Len(pipeline)
      <3>1. PICK k, m \in Nat : k = Len(call.replies) /\ m = Len(pipeline)
        BY <1>2 DEF PipelineInv, TypeOK
      <3>2. n <= m
        BY <1>3, <2>2, <3>1 DEF RepliesGood
      <3>. QED
        BY <1>3, <1>4, <3>1, <3>2
    <2>. QED
      BY <1>3, <1>4, <2>2, <2>3 DEF RepliesGood
  <1>8. stream.handshake => OwnedBy(writes, user, call')
    BY <1>4, <1>5 DEF StreamGood, OwnedBy
  <1>9. StreamGood(writes, user, pipeline, stream', call')
    BY <1>2, <1>4, <1>5, <1>6, <1>7, <1>8 DEF StreamGood
  <1>. QED
    BY <1>2, <1>9, StreamSteps, TroubleIsBounded DEF ConnectionLost, IsStarted

LEMMA WriteFailsFirstKeeps ==
    ASSUME PipelineInv, AstrayGood(writes', astray'), WriteFailsFirst
    PROVE  PipelineInv'
  <1>1. /\ call \in Calls /\ call.replies \in Seq(Nat) /\ call.requests \in Seq(Nat)
        /\ stream' = stream /\ stream \in Streams /\ stream.state = "Open"
        /\ call.requests # <<>> /\ call.replies # <<>>
    BY DEF PipelineInv, TypeOK, Calls, WriteFailsFirst, ClosedIsFresh, NoCall
  <1>2. StreamGood(writes, user, pipeline, stream, call)
    BY StreamIsGood
  <1>3. stream.handshake
    BY <1>1, <1>2 DEF StreamGood, Shaking
  <1>4. PICK none \in Seq(Nat) : none = <<>>
    <2>1. <<>> \in Seq(Nat)
      OBVIOUS
    <2>. QED
      BY <2>1, Zenon
  <1>5. /\ call' \in Calls /\ call'.replies = <<>> /\ call'.requests = call.requests
        /\ call'.end = call.end /\ call.end # "none"
    <2>1. call' = [call EXCEPT !.replies = none]
      BY <1>4 DEF WriteFailsFirst
    <2>. QED
      BY <1>1, <1>4, <2>1 DEF Calls, WriteFailsFirst
  <1>6. RepliesGood(writes, pipeline, call') /\ pipeline # <<>>
        /\ writes[pipeline[1]].stamp > 0 /\ Len(pipeline) \in Nat /\ Len(pipeline) >= 1
    <2>1. RepliesGood(writes, pipeline, call) /\ pipeline \in Seq(Batches)
      BY <1>2, <1>3 DEF StreamGood, PipelineInv, TypeOK, Batches
    <2>2. 1 \in DOMAIN call.replies /\ Len(call.replies) >= 1 /\ Len(call.replies) \in Nat
      BY <1>1
    <2>3. Len(pipeline) \in Nat /\ Len(pipeline) >= 1
      BY <2>1, <2>2 DEF RepliesGood
    <2>4. Len(call'.replies) = 0 /\ DOMAIN call'.replies = {}
      BY <1>5
    <2>. QED
      BY <2>1, <2>2, <2>3, <2>4 DEF RepliesGood
  <1>7. BlameGood(writes, pipeline, call')
    BY <1>5, <1>6 DEF BlameGood, Seen
  <1>8. OwnedBy(writes, user, call')
    BY <1>2, <1>3, <1>5 DEF StreamGood, OwnedBy
  <1>9. StreamGood(writes, user, pipeline, stream', call')
    BY <1>1, <1>2, <1>3, <1>5, <1>6, <1>7, <1>8 DEF StreamGood
  <1>. QED
    BY <1>1, <1>9, StreamSteps DEF WriteFailsFirst, IsStarted, PipelineInv, TypeOK

-----------------------------------------------------------------------------
(* The server sees a write.                                                *)

\* What is in a queue stays so when an entry of the history changes but its
\* owner and its outcome.
LEMMA QueuesWithMore ==
    ASSUME NEW w, NEW w2, NEW o, NEW q, QueueGood(w, o, q), DOMAIN w2 = DOMAIN w,
           \A b \in DOMAIN w : w2[b].owner = w[b].owner /\ w2[b].outcome = w[b].outcome
    PROVE  QueueGood(w2, o, q)
  BY DEF QueueGood

\* What was made earlier by the same account than the n-th of a queue, and is not
\* settled, comes earlier in the queue.
LEMMA OpenBefore ==
    ASSUME NEW w \in Seq(Writes), NEW o, NEW q \in Seq(Batches), QueueGood(w, o, q),
           NEW n \in DOMAIN q, NEW a \in Before(w, q[n]), w[a].outcome = "open"
    PROVE  \E i \in 1..(n - 1) : q[i] = a
  <1>1. /\ Len(q) \in Nat /\ DOMAIN q = 1..Len(q) /\ Len(w) \in Nat /\ DOMAIN w = 1..Len(w)
        /\ \A i \in DOMAIN q : q[i] \in Nat
    <2>1. q \in Seq(Nat)
      BY BatchSequence
    <2>. QED
      BY <2>1
  <1>2. q[n] \in DOMAIN w /\ w[q[n]].owner = o
    BY DEF QueueGood
  <1>3. a \in DOMAIN w /\ a < q[n] /\ w[a].owner = o
    BY <1>1, <1>2 DEF Before
  <1>4. PICK i \in DOMAIN q : q[i] = a
    BY <1>3 DEF QueueGood, InQueue
  <1>5. i < n
    <2>1. ~(n < i) /\ n # i
      BY <1>1, <1>3, <1>4 DEF QueueGood, Increasing
    <2>. QED
      BY <1>1, <2>1
  <1>. QED
    BY <1>1, <1>4, <1>5

LEMMA AcceptsKeeps ==
    ASSUME PipelineInv, AstrayGood(writes', astray'), ServerAccepts, Head(call.requests) # 0
    PROVE  PipelineInv'
  <1>. DEFINE b == Head(call.requests)
              n == Len(call.replies) + 1
              e == [writes[b] EXCEPT !.stamp = clock + 1, !.late = FALSE]
  <1>1. /\ Takes /\ stream.handshake /\ stream.state = "Open"
        /\ b \in DOMAIN writes /\ n \in DOMAIN pipeline /\ b = pipeline[n]
        /\ n \in DOMAIN queue[user] /\ b = queue[user][n]
        /\ writes[b].outcome = "open" /\ writes[b].owner = user
    BY RequestOfWrite DEF ServerAccepts
  <1>2. /\ writes \in Seq(Writes) /\ clock \in Nat /\ Len(writes) <= MaxWrites
        /\ pipeline \in Seq(Batches) /\ queue[user] \in Seq(Batches)
        /\ call \in Calls /\ call.requests \in Seq(Nat) /\ call.replies \in Seq(Nat)
        /\ stream \in Streams /\ call.end = "none"
    BY <1>1 DEF PipelineInv, TypeOK, Calls, Batches, Takes
  <1>3. /\ writes' = [writes EXCEPT ![b] = e] /\ clock' = clock + 1
        /\ UNCHANGED <<queue, user, callbacks, pipeline, stream, trouble>>
    BY Zenon DEF ServerAccepts, Apply
  <1>4. /\ e \in Writes /\ e.stamp = clock + 1 /\ e.owner = writes[b].owner
        /\ e.outcome = writes[b].outcome /\ e.refused = writes[b].refused
    <2>1. PICK old \in Writes : old = writes[b]
      BY <1>1, <1>2
    <2>2. PICK t \in Nat : t = clock + 1
      BY <1>2
    <2>3. e = [old EXCEPT !.stamp = t, !.late = FALSE]
      BY <2>1, <2>2
    <2>. QED
      BY <2>1, <2>2, <2>3 DEF Writes
  <1>. HIDE DEF e
  <1>5. /\ writes' \in Seq(Writes) /\ DOMAIN writes' = DOMAIN writes /\ Len(writes') = Len(writes)
        /\ Len(writes) \in Nat /\ DOMAIN writes = 1..Len(writes)
        /\ writes'[b] = e /\ \A d \in DOMAIN writes : d # b => writes'[d] = writes[d]
    BY <1>1, <1>2, <1>3, <1>4, ReplacedFacts
  <1>6. /\ \A d \in DOMAIN writes :
              /\ writes'[d].owner = writes[d].owner
              /\ writes'[d].outcome = writes[d].outcome
              /\ writes'[d].refused = writes[d].refused
        /\ \A d \in DOMAIN writes : writes[d] \in Writes
        /\ \A d \in DOMAIN writes : writes[d].stamp \in Nat
    <2>1. \A d \in DOMAIN writes : writes[d] \in Writes
      BY <1>2
    <2>2. \A d \in DOMAIN writes : writes[d].stamp \in Nat
      BY <2>1 DEF Writes
    <2>. QED
      BY <1>4, <1>5, <2>1, <2>2
  <1>7. \A d \in DOMAIN writes : Before(writes', d) = Before(writes, d) /\ Before(writes, d) \subseteq DOMAIN writes
    <2>1. ASSUME NEW d \in DOMAIN writes PROVE 1..(d - 1) \subseteq DOMAIN writes
      BY <1>5
    <2>. QED
      BY <1>6, <2>1 DEF Before
  <1>8. HistoryGood(writes, clock) /\ \A o \in Owners : QueueGood(writes, o, queue[o])
    BY HistoryIsGood
  <1>9. \A o \in Owners : QueueGood(writes', o, queue'[o])
    BY <1>3, <1>5, <1>6, <1>8, QueuesWithMore
  <1>10. HistoryGood(writes', clock')
    <2>1. \A d \in DOMAIN writes' : writes'[d].stamp <= clock'
      BY <1>2, <1>3, <1>4, <1>5, <1>6, <1>8 DEF HistoryGood
    <2>2. ASSUME NEW d \in DOMAIN writes'
          PROVE  /\ writes'[d].outcome # "open" =>
                      \A a \in Before(writes', d) : writes'[a].outcome # "open"
                 /\ writes'[d].outcome = "ok" =>
                      writes'[d].stamp > 0
                      /\ \A a \in Before(writes', d) : StaysBelow(writes', a, d)
                 /\ writes'[d].outcome = "failed" => Seen(writes'[d])
      <3>1. CASE writes[d].outcome = "open"
        BY <1>5, <1>6, <3>1
      <3>2. CASE writes[d].outcome # "open"
        <4>1. b \notin Before(writes, d) /\ d # b
          BY <1>1, <1>5, <1>8, <3>2 DEF HistoryGood
        <4>2. \A a \in Before(writes, d) : writes'[a] = writes[a]
          BY <1>5, <1>7, <4>1
        <4>3. writes'[d] = writes[d] /\ Before(writes', d) = Before(writes, d)
          BY <1>5, <1>7, <4>1
        <4>. QED
          BY <1>5, <1>8, <4>2, <4>3 DEF HistoryGood, StaysBelow
      <3>. QED
        BY <3>1, <3>2
    <2>. QED
      BY <2>1, <2>2 DEF HistoryGood
  <1>11. /\ call' \in Calls /\ call'.requests = Tail(call.requests)
         /\ call'.replies = Append(call.replies, b) /\ call'.end = "none"
    <2>1. Tail(call.requests) \in Seq(Nat) /\ b \in Nat
      BY <1>1, <1>2, TailFacts DEF Takes
    <2>2. Append(call.replies, b) \in Seq(Nat)
      BY <1>2, <2>1
    <2>3. PICK rest, all \in Seq(Nat) : rest = Tail(call.requests) /\ all = Append(call.replies, b)
      BY <2>1, <2>2
    <2>4. call' = [call EXCEPT !.requests = rest, !.replies = all]
      BY <2>3, Zenon DEF ServerAccepts
    <2>. QED
      BY <1>2, <2>3, <2>4 DEF Calls
  <1>12. StreamGood(writes, user, pipeline, stream, call)
    BY StreamIsGood
  <1>13. /\ RepliesGood(writes, pipeline, call) /\ OwnedBy(writes, user, call)
         /\ RequestsGood(pipeline, call)
    BY <1>1, <1>2, <1>12 DEF StreamGood
  <1>14. /\ Len(call.requests) \in Nat /\ Len(call.requests) >= 1 /\ b = call.requests[1]
         /\ Len(call'.requests) = Len(call.requests) - 1
         /\ \A i \in 1..(Len(call.requests) - 1) : call'.requests[i] = call.requests[i + 1]
         /\ DOMAIN call'.requests = 1..(Len(call.requests) - 1)
         /\ DOMAIN call.requests = 1..Len(call.requests)
    <2>1. call.requests # <<>> /\ call'.requests \in Seq(Nat)
      BY <1>1, <1>2, <1>11, TailFacts DEF Takes
    <2>2. DOMAIN call'.requests = 1..Len(call'.requests)
      BY <2>1
    <2>. QED
      BY <1>2, <1>11, <2>1, <2>2, TailFacts
  <1>15. /\ Len(call.replies) \in Nat /\ Len(call'.replies) = n
         /\ DOMAIN call'.replies = 1..n /\ DOMAIN call.replies = 1..Len(call.replies)
         /\ call'.replies[n] = b
         /\ \A i \in 1..Len(call.replies) : call'.replies[i] = call.replies[i]
    <2>1. b \in Nat
      BY <1>2, <1>14
    <2>2. call'.replies \in Seq(Nat)
      BY <1>2, <1>11, <2>1
    <2>3. DOMAIN call'.replies = 1..Len(call'.replies)
      BY <2>2
    <2>. QED
      BY <1>2, <1>11, <2>1, <2>3, AppendFacts
  <1>16. PICK k, r, m \in Nat :
           k = Len(call.replies) /\ r = Len(call.requests) /\ m = Len(pipeline)
    <2>1. Len(pipeline) \in Nat
      BY <1>2
    <2>. QED
      BY <1>14, <1>15, <2>1
  <1>23. r >= 1 /\ k + r = m
    <2>1. Len(call.replies) + Len(call.requests) = Len(pipeline)
      BY <1>13 DEF RequestsGood
    <2>. QED
      BY <1>14, <1>16, <2>1
  <1>17. RepliesGood(writes', pipeline, call')
    <2>1. n <= Len(pipeline)
      <3>1. k + 1 <= m
        BY <1>23
      <3>. QED
        BY <1>16, <3>1
    <2>2. ASSUME NEW i \in 1..n
          PROVE  /\ call'.replies[i] = pipeline[i]
                 /\ writes'[pipeline[i]].stamp > 0
                 /\ \A a \in Before(writes', pipeline[i]) : StaysBelow(writes', a, pipeline[i])
      <3>1. CASE i = n
        <4>1. writes'[pipeline[n]].stamp = clock + 1
          BY <1>1, <1>4, <1>5
        <4>2. ASSUME NEW a \in Before(writes', b) PROVE writes'[a].stamp < clock + 1
          <5>1. a \in DOMAIN writes /\ a # b
            <6>1. a \in Before(writes, b) /\ a \in DOMAIN writes
              BY <1>1, <1>7
            <6>. QED
              BY <6>1, <1>1, <1>5 DEF Before
          <5>2. writes'[a] = writes[a] /\ writes[a].stamp <= clock /\ writes[a].stamp \in Nat
            BY <1>5, <1>6, <1>8, <5>1 DEF HistoryGood
          <5>. QED
            BY <1>2, <5>2
        <4>. QED
          BY <1>1, <1>2, <1>15, <3>1, <4>1, <4>2 DEF StaysBelow
      <3>2. CASE i # n
        <4>1. i \in DOMAIN call.replies
          BY <1>15, <3>2
        <4>2. /\ call.replies[i] = pipeline[i] /\ writes[pipeline[i]].stamp > 0
              /\ \A a \in Before(writes, pipeline[i]) : StaysBelow(writes, a, pipeline[i])
          BY <1>13, <4>1 DEF RepliesGood
        <4>3. pipeline[i] \in DOMAIN writes /\ pipeline[i] < b /\ pipeline[i] \in Nat
          <5>1. i \in DOMAIN pipeline /\ i < n /\ i \in DOMAIN queue[user] /\ pipeline[i] = queue[user][i]
            <6>1. i < n /\ i \in 1..n
              BY <1>15, <3>2
            <6>2. i \in DOMAIN pipeline /\ i \in DOMAIN queue[user]
              BY <1>1, <1>2, <6>1, SMTT(60)
            <6>. QED
              BY <6>1, <6>2 DEF PipelineInv, PipelineIsFront
          <5>2. QueueGood(writes, user, queue[user])
            BY HistoryIsGood
          <5>3. pipeline[i] < b /\ pipeline[i] \in DOMAIN writes
            BY <1>1, <5>1, <5>2 DEF QueueGood, Increasing
          <5>. QED
            BY <1>5, <5>3
        <4>4. b \notin Before(writes, pipeline[i]) /\ pipeline[i] # b
          <5>1. b \in Nat
            BY <1>1, <1>5
          <5>. QED
            BY <4>3, <5>1 DEF Before
        <4>5. \A a \in Before(writes, pipeline[i]) : writes'[a] = writes[a]
          BY <1>5, <1>7, <4>3, <4>4
        <4>6. writes'[pipeline[i]] = writes[pipeline[i]] /\ Before(writes', pipeline[i]) = Before(writes, pipeline[i])
          BY <1>5, <1>7, <4>3, <4>4
        <4>. QED
          BY <1>15, <4>1, <4>2, <4>5, <4>6 DEF StaysBelow
      <3>. QED
        BY <3>1, <3>2
    <2>. QED
      BY <1>15, <2>1, <2>2 DEF RepliesGood
  <1>18. RequestsGood(pipeline, call')
    <2>1. Len(call'.replies) + Len(call'.requests) = Len(pipeline)
      <3>1. (k + 1) + (r - 1) = m
        BY <1>23
      <3>. QED
        BY <1>14, <1>15, <1>16, <3>1
    <2>2. ASSUME NEW i \in 1..(Len(call.requests) - 1)
          PROVE  call'.requests[i] = pipeline[n + i]
      <3>1. i + 1 \in DOMAIN call.requests
        BY <1>14
      <3>2. call.requests[i + 1] = pipeline[Len(call.replies) + (i + 1)]
        BY <1>13, <3>1 DEF RequestsGood
      <3>3. Len(call.replies) + (i + 1) = n + i
        <4>1. k + (i + 1) = (k + 1) + i
          BY <1>14
        <4>. QED
          BY <1>16, <4>1
      <3>. QED
        BY <1>14, <3>2, <3>3
    <2>. QED
      BY <1>14, <1>15, <2>1, <2>2 DEF RequestsGood
  <1>19. OwnedBy(writes', user, call')
    <2>1. ASSUME NEW i \in DOMAIN call'.requests
          PROVE  call'.requests[i] \in DOMAIN writes' /\ writes'[call'.requests[i]].owner = user
      <3>1. i + 1 \in DOMAIN call.requests /\ call'.requests[i] = call.requests[i + 1]
        BY <1>14
      <3>. QED
        BY <1>5, <1>6, <1>13, <3>1 DEF OwnedBy
    <2>. QED
      BY <2>1 DEF OwnedBy
  <1>20. StreamGood(writes', user', pipeline', stream', call')
    <2>1. StreamGood(writes', user, pipeline, stream, call')
      BY <1>1, <1>2, <1>11, <1>12, <1>17, <1>18, <1>19 DEF StreamGood
    <2>. QED
      BY <1>3, <2>1
  <1>21. DataTypeOK'
    <2>1. DataTypeOK
      BY DataIsTyped
    <2>. QED
      BY <1>2, <1>3, <1>5, <2>1 DEF DataTypeOK
  <1>22. Filled(pipeline', queue'[user']) /\ (pipeline' # <<>> => IsStarted(stream'))
    BY <1>3, HistoryIsGood DEF PipelineInv, NeverForgotten
  <1>. QED
    BY <1>3, <1>9, <1>10, <1>20, <1>21, <1>22, QueuesStay, InvOfPieces

LEMMA AcceptsHandshakeKeeps ==
    ASSUME PipelineInv, AstrayGood(writes', astray'), ServerAccepts, Head(call.requests) = 0
    PROVE  PipelineInv'
  <1>1. /\ ~stream.handshake /\ stream.state = "Open" /\ call.end = "none"
        /\ call.requests = <<0>> /\ call.replies = <<>>
    BY RequestOfWrite DEF ServerAccepts, Takes
  <1>2. /\ stream' = stream /\ stream \in Streams /\ call \in Calls
        /\ UNCHANGED <<writes, clock, queue, user, callbacks, pipeline, trouble>>
    BY DEF PipelineInv, TypeOK, ServerAccepts
  <1>3. PICK none, shake \in Seq(Nat) : none = <<>> /\ shake = <<0>>
    <2>1. <<>> \in Seq(Nat) /\ <<0>> \in Seq(Nat)
      OBVIOUS
    <2>. QED
      BY <2>1, Zenon
  <1>4. Tail(call.requests) = none /\ Append(call.replies, 0) = shake
    BY <1>1, <1>3
  <1>5. call' = [call EXCEPT !.requests = none, !.replies = shake]
    BY <1>4, Zenon DEF ServerAccepts
  <1>6. /\ call' \in Calls /\ call'.requests = <<>> /\ call'.replies = <<0>> /\ call'.end = "none"
    BY <1>1, <1>2, <1>3, <1>5 DEF Calls
  <1>7. StreamGood(writes, user, pipeline, stream', call')
    BY <1>1, <1>2, <1>6, StreamIsGood DEF StreamGood, Shaking
  <1>8. IsStarted(stream') /\ trouble' \in 0..MaxTrouble
    BY <1>1, <1>2 DEF IsStarted, PipelineInv, TypeOK
  <1>. QED
    BY <1>2, <1>7, <1>8, StreamSteps

LEMMA RefusesHandshakeKeeps ==
    ASSUME PipelineInv, AstrayGood(writes', astray'), ServerRefuses, Head(call.requests) = 0
    PROVE  PipelineInv'
  <1>1. /\ ~stream.handshake /\ stream.state = "Open"
        /\ call.requests = <<0>> /\ call.replies = <<>>
    BY RequestOfWrite DEF ServerRefuses
  <1>2. /\ stream' = stream /\ stream \in Streams /\ call \in Calls /\ Trouble
        /\ UNCHANGED <<writes, clock, queue, user, callbacks, pipeline>>
    BY DEF PipelineInv, TypeOK, ServerRefuses
  <1>3. PICK none \in Seq(Nat) : none = <<>>
    <2>1. <<>> \in Seq(Nat)
      OBVIOUS
    <2>. QED
      BY <2>1, Zenon
  <1>4. Tail(call.requests) = none
    BY <1>1, <1>3
  <1>5. call' = [call EXCEPT !.requests = none, !.end = "permanent"]
    BY <1>4, Zenon DEF ServerRefuses
  <1>6. /\ call' \in Calls /\ call'.requests = <<>> /\ call'.replies = <<>>
    BY <1>1, <1>2, <1>3, <1>5 DEF Calls
  <1>7. StreamGood(writes, user, pipeline, stream', call')
    BY <1>1, <1>2, <1>6, StreamIsGood DEF StreamGood, Shaking
  <1>8. IsStarted(stream')
    BY <1>1, <1>2 DEF IsStarted
  <1>. QED
    BY <1>2, <1>7, <1>8, StreamSteps, TroubleIsBounded

LEMMA RefusesKeeps ==
    ASSUME PipelineInv, AstrayGood(writes', astray'), ServerRefuses, Head(call.requests) # 0
    PROVE  PipelineInv'
  <1>. DEFINE b == Head(call.requests)
              n == Len(call.replies) + 1
              e == [writes[b] EXCEPT !.refused = TRUE]
  <1>1. /\ Takes /\ stream.handshake /\ stream.state = "Open"
        /\ b \in DOMAIN writes /\ n \in DOMAIN pipeline /\ b = pipeline[n]
        /\ writes[b].outcome = "open" /\ writes[b].owner = user
    BY RequestOfWrite DEF ServerRefuses
  <1>2. /\ writes \in Seq(Writes) /\ pipeline \in Seq(Batches)
        /\ call \in Calls /\ call.requests \in Seq(Nat) /\ call.replies \in Seq(Nat)
        /\ stream \in Streams
    BY <1>1 DEF PipelineInv, TypeOK, Calls, Batches
  <1>3. /\ writes' = [writes EXCEPT ![b] = e]
        /\ UNCHANGED <<clock, queue, user, callbacks, pipeline, stream, trouble>>
    BY Zenon DEF ServerRefuses, Refuse
  <1>4. /\ e \in Writes /\ e.refused /\ e.stamp = writes[b].stamp /\ e.owner = writes[b].owner
        /\ e.outcome = writes[b].outcome /\ e.late = writes[b].late
    <2>1. PICK old \in Writes : old = writes[b]
      BY <1>1, <1>2
    <2>2. e = [old EXCEPT !.refused = TRUE]
      BY <2>1
    <2>. QED
      BY <2>1, <2>2 DEF Writes
  <1>. HIDE DEF e
  <1>5. /\ writes' \in Seq(Writes) /\ DOMAIN writes' = DOMAIN writes /\ Len(writes') = Len(writes)
        /\ Len(writes) \in Nat /\ DOMAIN writes = 1..Len(writes)
        /\ writes'[b] = e /\ \A d \in DOMAIN writes : d # b => writes'[d] = writes[d]
    BY <1>1, <1>2, <1>3, <1>4, ReplacedFacts
  <1>6. \A d \in DOMAIN writes :
           /\ writes'[d].owner = writes[d].owner /\ writes'[d].outcome = writes[d].outcome
           /\ writes'[d].stamp = writes[d].stamp /\ writes'[d].late = writes[d].late
           /\ (writes[d].refused => writes'[d].refused)
    BY <1>4, <1>5
  <1>7. \A d \in DOMAIN writes : Before(writes', d) = Before(writes, d) /\ Before(writes, d) \subseteq DOMAIN writes
    <2>1. ASSUME NEW d \in DOMAIN writes PROVE 1..(d - 1) \subseteq DOMAIN writes
      BY <1>5
    <2>. QED
      BY <1>6, <2>1 DEF Before
  <1>8. HistoryGood(writes, clock) /\ \A o \in Owners : QueueGood(writes, o, queue[o])
    BY HistoryIsGood
  <1>9. \A o \in Owners : QueueGood(writes', o, queue'[o])
    BY <1>3, <1>5, <1>6, <1>8, QueuesWithMore
  <1>10. HistoryGood(writes', clock')
    <2>1. ASSUME NEW d \in DOMAIN writes
          PROVE  writes'[d].outcome = "failed" => Seen(writes'[d])
      BY <1>6, <1>8 DEF HistoryGood, Seen
    <2>2. ASSUME NEW d \in DOMAIN writes
          PROVE  /\ writes'[d].outcome # "open" =>
                      \A a \in Before(writes', d) : writes'[a].outcome # "open"
                 /\ writes'[d].outcome = "ok" =>
                      writes'[d].stamp > 0
                      /\ \A a \in Before(writes', d) : StaysBelow(writes', a, d)
      <3>1. /\ writes'[d].outcome = writes[d].outcome /\ writes'[d].stamp = writes[d].stamp
            /\ Before(writes', d) = Before(writes, d)
        BY <1>6, <1>7
      <3>2. \A a \in Before(writes, d) :
               /\ writes'[a].outcome = writes[a].outcome
               /\ writes'[a].stamp = writes[a].stamp /\ writes'[a].late = writes[a].late
        BY <1>6, <1>7
      <3>. QED
        BY <1>8, <3>1, <3>2 DEF HistoryGood, StaysBelow
    <2>3. \A d \in DOMAIN writes : writes'[d].stamp <= clock'
      BY <1>3, <1>6, <1>8 DEF HistoryGood
    <2>. QED
      BY <1>5, <2>1, <2>2, <2>3 DEF HistoryGood
  <1>11. /\ call' \in Calls /\ call'.requests = Tail(call.requests)
         /\ call'.replies = call.replies /\ call'.end = "permanent"
    <2>1. PICK rest \in Seq(Nat) : rest = Tail(call.requests)
      BY <1>1, <1>2, TailFacts DEF Takes
    <2>2. call' = [call EXCEPT !.requests = rest, !.end = "permanent"]
      BY <2>1, Zenon DEF ServerRefuses
    <2>. QED
      BY <1>2, <2>1, <2>2 DEF Calls
  <1>12. StreamGood(writes', user, pipeline, stream, call)
    <2>1. \A i \in DOMAIN pipeline : pipeline[i] \in DOMAIN writes
      <3>1. ASSUME NEW i \in DOMAIN pipeline PROVE pipeline[i] \in DOMAIN writes
        <4>1. queue[user] \in Seq(Batches) /\ QueueGood(writes, user, queue[user])
          BY HistoryIsGood DEF QueueOf
        <4>2. Len(pipeline) <= Len(queue[user]) /\ DOMAIN pipeline = 1..Len(pipeline)
              /\ DOMAIN queue[user] = 1..Len(queue[user]) /\ Len(pipeline) \in Nat /\ Len(queue[user]) \in Nat
          BY <1>2, <4>1, WritePipelineAssumption DEF PipelineInv, PipelineIsFront, Least
        <4>3. i \in DOMAIN queue[user]
          BY <4>2
        <4>. QED
          BY <4>1, <4>3 DEF PipelineInv, PipelineIsFront, QueueGood
      <3>. QED
        BY <3>1
    <2>. QED
      BY <1>2, <1>5, <1>6, <2>1, StreamIsGood, GoodWithMore
  <1>13. RepliesGood(writes', pipeline, call) /\ OwnedBy(writes', user, call)
    BY <1>1, <1>12 DEF StreamGood
  <1>14. RepliesGood(writes', pipeline, call')
    BY <1>11, <1>13 DEF RepliesGood
  <1>15. OwnedBy(writes', user, call')
    <2>1. call.requests # <<>>
      BY <1>1 DEF Takes
    <2>2. /\ Len(call.requests) \in Nat
          /\ DOMAIN call'.requests = 1..(Len(call.requests) - 1)
          /\ DOMAIN call.requests = 1..Len(call.requests)
          /\ \A i \in 1..(Len(call.requests) - 1) : call'.requests[i] = call.requests[i + 1]
      <3>1. call'.requests \in Seq(Nat) /\ Len(call'.requests) = Len(call.requests) - 1
        BY <1>2, <1>11, <2>1, TailFacts
      <3>. QED
        BY <1>2, <1>11, <2>1, <3>1, TailFacts
    <2>3. ASSUME NEW i \in DOMAIN call'.requests
          PROVE  call'.requests[i] \in DOMAIN writes' /\ writes'[call'.requests[i]].owner = user
      <3>1. i + 1 \in DOMAIN call.requests /\ call'.requests[i] = call.requests[i + 1]
        BY <2>2
      <3>. QED
        BY <1>13, <3>1 DEF OwnedBy
    <2>. QED
      BY <2>3 DEF OwnedBy
  <1>16. BlameGood(writes', pipeline, call')
    <2>1. Len(call'.replies) < Len(pipeline)
      <3>1. PICK k, m \in Nat : k = Len(call.replies) /\ m = Len(pipeline)
        BY <1>2
      <3>2. k + 1 \in 1..m
        BY <1>1, <1>2, <3>1
      <3>3. k < m
        BY <3>2
      <3>. QED
        BY <1>11, <3>1, <3>3
    <2>2. Seen(writes'[b])
      BY <1>4, <1>5 DEF Seen
    <2>. QED
      BY <1>1, <1>11, <2>1, <2>2 DEF BlameGood
  <1>17. StreamGood(writes', user', pipeline', stream', call')
    <2>1. StreamGood(writes', user, pipeline, stream, call')
      BY <1>1, <1>2, <1>11, <1>12, <1>14, <1>15, <1>16 DEF StreamGood
    <2>. QED
      BY <1>3, <2>1
  <1>18. DataTypeOK'
    <2>1. DataTypeOK
      BY DataIsTyped
    <2>. QED
      BY <1>3, <1>5, <2>1 DEF DataTypeOK
  <1>19. Filled(pipeline', queue'[user']) /\ (pipeline' # <<>> => IsStarted(stream'))
    BY <1>3, HistoryIsGood DEF PipelineInv, NeverForgotten
  <1>. QED
    BY <1>3, <1>9, <1>10, <1>17, <1>18, <1>19, QueuesStay, InvOfPieces

-----------------------------------------------------------------------------
(* The steps that fill the pipeline again.                                 *)

\* A queue that is good is in order.
LEMMA QueueGoodIsQueueOf ==
    ASSUME NEW w, NEW o, NEW q \in Seq(Batches), QueueGood(w, o, q)
    PROVE  QueueOf(w, o, q)
  BY DEF QueueGood, QueueOf

LEMMA RestartKeeps ==
    ASSUME PipelineInv, AstrayGood(writes', astray'), NEW u \in Owners, RestartNetwork(u), user' = u,
           UNCHANGED <<writes, clock, queue>>, trouble' \in 0..MaxTrouble,
           callbacks' \in [Owners -> SUBSET Batches], CallbacksWait'
    PROVE  PipelineInv'
  <1>1. DataTypeOK'
    BY DataIsTyped DEF DataTypeOK
  <1>2. QueueOf(writes, u, queue[u]) /\ queue[u] \in Seq(Batches)
    BY HistoryIsGood, DataIsTyped DEF DataTypeOK
  <1>3. PICK none \in Seq(Batches) : none = <<>>
    <2>1. <<>> \in Seq(Batches)
      OBVIOUS
    <2>. QED
      BY <2>1, Zenon
  <1>4. Front(none, queue[u])
    <2>1. Len(none) = 0 /\ DOMAIN none = {} /\ Len(queue[u]) \in Nat
      BY <1>2, <1>3
    <2>. QED
      BY <2>1, WritePipelineAssumption DEF Front, Least
  <1>5. StreamGood(writes, u, none, Fresh("Initial"), NoCall)
    BY ClosedIsGood DEF States
  <1>6. FillWritePipeline(none, queue[u], Fresh("Initial"), NoCall)
    BY <1>3, Zenon DEF RestartNetwork
  <1>7. /\ Filled(pipeline', queue[u])
        /\ StreamGood(writes, u, pipeline', stream', call')
        /\ pipeline' # <<>> => IsStarted(stream')
    BY <1>2, <1>4, <1>5, <1>6, FillKeepsGood
  <1>. QED
    BY <1>1, <1>7, HistoryIsGood, InvOfPieces

LEMMA HandleCredentialChangeKeeps ==
    ASSUME PipelineInv, AstrayGood(writes', astray'), NEW u \in Owners, HandleCredentialChange(u)
    PROVE  PipelineInv'
  <1>1. callbacks' \in [Owners -> SUBSET Batches] /\ CallbacksWait'
    BY DataIsTyped, QueuesStay DEF HandleCredentialChange, DataTypeOK
  <1>. QED
    BY <1>1, RestartKeeps, TroubleIsBounded DEF HandleCredentialChange

LEMMA RelaunchKeeps ==
    ASSUME PipelineInv, AstrayGood(writes', astray'), NEW u \in Owners, Relaunch(u)
    PROVE  PipelineInv'
  <1>1. callbacks' \in [Owners -> SUBSET Batches] /\ CallbacksWait'
    BY DEF Relaunch, CallbacksWait
  <1>. QED
    BY <1>1, RestartKeeps, TroubleIsBounded DEF Relaunch

\* The first of the queue is settled: what is left of queue and pipeline.
LEMMA TailOfQueue ==
    ASSUME NEW w, NEW o, NEW q \in Seq(Batches), QueueGood(w, o, q), q # <<>>,
           NEW pipe \in Seq(Batches), Filled(pipe, q)
    PROVE  /\ pipe # <<>> /\ Head(pipe) = q[1] /\ Without(q, q[1]) = Tail(q)
           /\ Tail(q) \in Seq(Batches) /\ Tail(pipe) \in Seq(Batches)
           /\ Front(Tail(pipe), Tail(q))
           /\ \A i \in DOMAIN Tail(q) : Tail(q)[i] = q[i + 1] /\ i + 1 \in DOMAIN q
           /\ \A i \in DOMAIN q : i = 1 \/ i - 1 \in DOMAIN Tail(q)
           /\ Increasing(Tail(q))
  <1>1. /\ Len(q) \in Nat /\ Len(q) >= 1 /\ DOMAIN q = 1..Len(q)
        /\ Tail(q) \in Seq(Batches) /\ Len(Tail(q)) = Len(q) - 1
        /\ DOMAIN Tail(q) = 1..(Len(q) - 1)
        /\ \A i \in 1..(Len(q) - 1) : Tail(q)[i] = q[i + 1]
    <2>1. Tail(q) \in Seq(Batches) /\ Len(Tail(q)) = Len(q) - 1
      BY TailFacts
    <2>2. DOMAIN Tail(q) = 1..Len(Tail(q))
      BY <2>1
    <2>. QED
      BY <2>1, <2>2, TailFacts
  <1>2. Len(pipe) >= 1 /\ Len(pipe) <= Len(q) /\ Len(pipe) <= MaxPipeline /\ Len(pipe) \in Nat
    BY <1>1, WritePipelineAssumption DEF Filled, Least
  <1>3. pipe # <<>>
    BY <1>2
  <1>4. /\ Tail(pipe) \in Seq(Batches) /\ Len(Tail(pipe)) = Len(pipe) - 1
        /\ Head(pipe) = pipe[1] /\ \A i \in 1..(Len(pipe) - 1) : Tail(pipe)[i] = pipe[i + 1]
    BY <1>3, TailFacts
  <1>5. Head(pipe) = q[1]
    BY <1>2, <1>4 DEF Filled
  <1>6. Without(q, q[1]) = Tail(q)
    BY WithoutFirst DEF QueueGood
  <1>7. Front(Tail(pipe), Tail(q))
    <2>1. DOMAIN Tail(pipe) = 1..(Len(pipe) - 1) /\ DOMAIN pipe = 1..Len(pipe)
      <3>1. DOMAIN Tail(pipe) = 1..Len(Tail(pipe))
        BY <1>4
      <3>. QED
        BY <1>4, <3>1
    <2>2. ASSUME NEW i \in DOMAIN Tail(pipe) PROVE Tail(pipe)[i] = Tail(q)[i]
      <3>1. i + 1 \in DOMAIN pipe /\ i \in 1..(Len(q) - 1)
        BY <1>1, <1>2, <2>1
      <3>. QED
        BY <1>1, <1>4, <2>1, <3>1 DEF Filled
    <2>3. Len(Tail(pipe)) <= Least(Len(Tail(q)), MaxPipeline)
      BY <1>1, <1>2, <1>4, WritePipelineAssumption DEF Least
    <2>. QED
      BY <2>2, <2>3 DEF Front
  <1>8. \A i \in DOMAIN q : i = 1 \/ i - 1 \in DOMAIN Tail(q)
    BY <1>1
  <1>9. \A i \in DOMAIN Tail(q) : Tail(q)[i] = q[i + 1] /\ i + 1 \in DOMAIN q
    BY <1>1
  <1>10. Increasing(Tail(q))
    <2>1. \A i, j \in DOMAIN Tail(q) : i < j => i + 1 < j + 1
      BY <1>1
    <2>. QED
      BY <1>9, <2>1 DEF QueueGood, Increasing
  <1>. QED
    BY <1>1, <1>3, <1>4, <1>5, <1>6, <1>7, <1>8, <1>9, <1>10

\* A write made by the same account and not settled is not before the first.
LEMMA NoneBeforeFirst ==
    ASSUME NEW w \in Seq(Writes), NEW o, NEW q \in Seq(Batches), QueueGood(w, o, q), q # <<>>
    PROVE  \A a \in Before(w, q[1]) : w[a].outcome # "open"
  <1>1. 1 \in DOMAIN q
    <2>1. Len(q) \in Nat /\ Len(q) >= 1 /\ DOMAIN q = 1..Len(q)
      BY TailFacts
    <2>. QED
      BY <2>1
  <1>2. ASSUME NEW a \in Before(w, q[1]), w[a].outcome = "open" PROVE FALSE
    <2>1. \E i \in 1..(1 - 1) : q[i] = a
      BY <1>1, <1>2, OpenBefore
    <2>. QED
      BY <2>1
  <1>. QED
    BY <1>2

\* HandleSuccessfulWrite and HandleRejectedWrite settle the first of the pipeline.
LEMMA SettledInOrder ==
    ASSUME PipelineInv, pipeline # <<>>, NEW outcome \in {"ok", "failed"},
           Settle(Head(pipeline), outcome),
           outcome = "ok" =>
              /\ writes[Head(pipeline)].stamp > 0
              /\ \A a \in Before(writes, Head(pipeline)) :
                    StaysBelow(writes, a, Head(pipeline)),
           outcome = "failed" => Seen(writes[Head(pipeline)])
    PROVE  /\ writes' \in Seq(Writes) /\ Len(writes') = Len(writes) /\ DOMAIN writes' = DOMAIN writes
           /\ queue' \in [Owners -> Seq(Batches)]
           /\ callbacks' \in [Owners -> SUBSET Batches]
           /\ HistoryGood(writes', clock)
           /\ \A o \in Owners : QueueGood(writes', o, queue'[o])
           /\ queue'[user] = Tail(queue[user]) /\ Tail(queue[user]) \in Seq(Batches)
           /\ QueueOf(writes', user, Tail(queue[user]))
           /\ Tail(pipeline) \in Seq(Batches) /\ Front(Tail(pipeline), Tail(queue[user]))
           /\ \A d \in DOMAIN writes :
                 /\ writes'[d].owner = writes[d].owner
                 /\ writes'[d].stamp = writes[d].stamp /\ writes'[d].late = writes[d].late
                 /\ writes[d].refused => writes'[d].refused
           /\ CallbacksWait'
  <1>. DEFINE b == Head(pipeline)
              q == queue[user]
              e == [writes[b] EXCEPT !.outcome = outcome]
  <1>1. /\ writes \in Seq(Writes) /\ pipeline \in Seq(Batches) /\ user \in Owners
        /\ queue \in [Owners -> Seq(Batches)] /\ q \in Seq(Batches)
        /\ callbacks \in [Owners -> SUBSET Batches]
    BY DEF PipelineInv, TypeOK, Batches
  <1>2. /\ HistoryGood(writes, clock) /\ \A o \in Owners : QueueGood(writes, o, queue[o])
        /\ Filled(pipeline, q)
    BY HistoryIsGood
  <1>3. q # <<>> /\ Len(q) \in Nat /\ Len(q) >= 1 /\ DOMAIN q = 1..Len(q)
    <2>1. Len(pipeline) >= 1 /\ Len(pipeline) \in Nat
      BY <1>1, TailFacts
    <2>2. Len(q) >= 1 /\ Len(q) \in Nat
      BY <1>1, <1>2, <2>1, WritePipelineAssumption DEF Filled, Least
    <2>. QED
      BY <1>1, <2>2
  <1>4. /\ b = q[1] /\ Without(q, b) = Tail(q)
        /\ Tail(q) \in Seq(Batches) /\ Tail(pipeline) \in Seq(Batches)
        /\ Front(Tail(pipeline), Tail(q))
        /\ \A i \in DOMAIN Tail(q) : Tail(q)[i] = q[i + 1] /\ i + 1 \in DOMAIN q
        /\ \A i \in DOMAIN q : i = 1 \/ i - 1 \in DOMAIN Tail(q)
        /\ Increasing(Tail(q))
    <2>1. QueueGood(writes, user, q)
      BY <1>1, <1>2
    <2>. QED
      BY <1>1, <1>2, <1>3, <2>1, TailOfQueue
  <1>5. b \in DOMAIN writes /\ writes[b].owner = user /\ writes[b].outcome = "open"
        /\ \A a \in Before(writes, b) : writes[a].outcome # "open"
    <2>1. QueueGood(writes, user, q)
      BY <1>1, <1>2
    <2>2. b \in DOMAIN writes /\ writes[b].owner = user /\ writes[b].outcome = "open"
      BY <1>3, <1>4, <2>1 DEF QueueGood
    <2>. QED
      BY <1>1, <1>3, <1>4, <2>1, <2>2, NoneBeforeFirst
  <1>6. /\ writes' = [writes EXCEPT ![b] = e]
        /\ queue' = [queue EXCEPT ![user] = Without(queue[user], b)]
        /\ callbacks' = [callbacks EXCEPT ![user] = callbacks[user] \ {b}]
    BY DEF Settle
  <1>7. /\ e \in Writes /\ e.outcome = outcome /\ e.stamp = writes[b].stamp
        /\ e.owner = writes[b].owner /\ e.refused = writes[b].refused
        /\ e.late = writes[b].late
    <2>1. PICK old \in Writes : old = writes[b]
      BY <1>1, <1>5
    <2>2. e = [old EXCEPT !.outcome = outcome]
      BY <2>1
    <2>. QED
      BY <2>1, <2>2 DEF Writes, Outcomes
  <1>. HIDE DEF e
  <1>8. /\ writes' \in Seq(Writes) /\ DOMAIN writes' = DOMAIN writes /\ Len(writes') = Len(writes)
        /\ Len(writes) \in Nat /\ DOMAIN writes = 1..Len(writes)
        /\ writes'[b] = e /\ \A d \in DOMAIN writes : d # b => writes'[d] = writes[d]
    BY <1>1, <1>5, <1>6, <1>7, ReplacedFacts
  <1>9. \A d \in DOMAIN writes :
           /\ writes'[d].owner = writes[d].owner /\ writes'[d].stamp = writes[d].stamp
           /\ writes'[d].refused = writes[d].refused /\ writes'[d].late = writes[d].late
           /\ d # b => writes'[d].outcome = writes[d].outcome
    BY <1>7, <1>8
  <1>10. \A d \in DOMAIN writes : Before(writes', d) = Before(writes, d) /\ Before(writes, d) \subseteq DOMAIN writes
    <2>1. ASSUME NEW d \in DOMAIN writes PROVE 1..(d - 1) \subseteq DOMAIN writes
      BY <1>8
    <2>. QED
      BY <1>9, <2>1 DEF Before
  <1>11. /\ queue' \in [Owners -> Seq(Batches)] /\ queue'[user] = Tail(q)
         /\ \A o \in Owners : o # user => queue'[o] = queue[o]
         /\ callbacks' \in [Owners -> SUBSET Batches] /\ callbacks'[user] = callbacks[user] \ {b}
         /\ \A o \in Owners : o # user => callbacks'[o] = callbacks[o]
    <2>1. queue' = [queue EXCEPT ![user] = Tail(q)]
      BY <1>4, <1>6
    <2>. QED
      BY <1>1, <1>4, <1>6, <2>1
  <1>12. HistoryGood(writes', clock)
    <2>1. \A d \in DOMAIN writes : writes'[d].stamp <= clock
      BY <1>2, <1>9 DEF HistoryGood
    <2>2. ASSUME NEW d \in DOMAIN writes
          PROVE  /\ writes'[d].outcome # "open" =>
                      \A a \in Before(writes', d) : writes'[a].outcome # "open"
                 /\ writes'[d].outcome = "ok" =>
                      writes'[d].stamp > 0
                      /\ \A a \in Before(writes', d) : StaysBelow(writes', a, d)
                 /\ writes'[d].outcome = "failed" => Seen(writes'[d])
      <3>1. /\ Before(writes', d) = Before(writes, d)
            /\ writes'[d].stamp = writes[d].stamp /\ writes'[d].refused = writes[d].refused
            /\ \A a \in Before(writes, d) :
                  /\ StaysBelow(writes', a, d) <=> StaysBelow(writes, a, d)
                  /\ writes'[a].outcome # "open" \/ (a # b /\ writes'[a].outcome = writes[a].outcome)
        <4>1. outcome # "open"
          OBVIOUS
        <4>2. \A a \in Before(writes, d) : a \in DOMAIN writes
          BY <1>10
        <4>3. \A a \in Before(writes, d) : StaysBelow(writes', a, d) <=> StaysBelow(writes, a, d)
          BY <1>9, <4>2 DEF StaysBelow
        <4>4. \A a \in Before(writes, d) :
                 writes'[a].outcome # "open" \/ (a # b /\ writes'[a].outcome = writes[a].outcome)
          BY <1>7, <1>8, <1>9, <4>1, <4>2
        <4>. QED
          BY <1>9, <1>10, <4>3, <4>4
      <3>2. CASE d = b
        <4>1. writes'[d].outcome = outcome
          BY <1>7, <1>8, <3>2
        <4>2. \A a \in Before(writes, d) : writes'[a].outcome # "open"
          BY <1>5, <3>1, <3>2
        <4>3. outcome = "ok" =>
                 writes'[d].stamp > 0 /\ \A a \in Before(writes', d) : StaysBelow(writes', a, d)
          BY <3>1, <3>2
        <4>4. outcome = "failed" => Seen(writes'[d])
          BY <3>1, <3>2 DEF Seen
        <4>. QED
          BY <3>1, <4>1, <4>2, <4>3, <4>4
      <3>3. CASE d # b
        <4>1. writes'[d] = writes[d]
          BY <1>8, <3>3
        <4>2. writes[d].outcome # "open" => \A a \in Before(writes, d) : writes[a].outcome # "open"
          BY <1>2 DEF HistoryGood
        <4>3. writes[d].outcome = "ok" =>
                 writes[d].stamp > 0
                 /\ \A a \in Before(writes, d) : StaysBelow(writes, a, d)
          BY <1>2 DEF HistoryGood
        <4>4. writes[d].outcome = "failed" => Seen(writes[d])
          BY <1>2 DEF HistoryGood
        <4>5. writes'[d].outcome # "open" =>
                 \A a \in Before(writes', d) : writes'[a].outcome # "open"
          BY <3>1, <4>1, <4>2
        <4>6. writes'[d].outcome = "ok" =>
                 writes'[d].stamp > 0 /\ \A a \in Before(writes', d) : StaysBelow(writes', a, d)
          BY <3>1, <4>1, <4>3
        <4>7. writes'[d].outcome = "failed" => Seen(writes'[d])
          BY <4>1, <4>4
        <4>. QED
          BY <4>5, <4>6, <4>7
      <3>. QED
        BY <3>2, <3>3
    <2>. QED
      BY <1>8, <2>1, <2>2 DEF HistoryGood
  <1>13. ASSUME NEW o \in Owners PROVE QueueGood(writes', o, queue'[o])
    <2>1. CASE o = user
      <3>1. QueueGood(writes, user, q)
        BY <1>1, <1>2
      <3>2. ASSUME NEW i \in DOMAIN Tail(q)
            PROVE  /\ Tail(q)[i] \in DOMAIN writes' /\ writes'[Tail(q)[i]].owner = user
                   /\ writes'[Tail(q)[i]].outcome = "open"
        <4>1. i + 1 \in DOMAIN q /\ Tail(q)[i] = q[i + 1] /\ i \in Nat /\ 1 \in DOMAIN q /\ i >= 1
          <5>1. DOMAIN Tail(q) = 1..Len(Tail(q))
            BY <1>4
          <5>. QED
            BY <1>3, <1>4, <5>1
        <4>2. q[i + 1] # b
          <5>1. q[1] < q[i + 1] /\ q[1] \in Nat
            <6>1. 1 < i + 1
              BY <4>1
            <6>2. q \in Seq(Nat)
              BY <1>1, BatchSequence
            <6>. QED
              BY <3>1, <4>1, <6>1, <6>2 DEF QueueGood, Increasing
          <5>. QED
            BY <1>4, <5>1
        <4>. QED
          BY <1>8, <1>9, <3>1, <4>1, <4>2 DEF QueueGood
      <3>3. ASSUME NEW d \in DOMAIN writes', writes'[d].owner = user, writes'[d].outcome = "open"
            PROVE  InQueue(Tail(q), d)
        <4>1. d # b /\ d \in DOMAIN writes /\ writes[d].owner = user /\ writes[d].outcome = "open"
          BY <1>7, <1>8, <1>9, <3>3
        <4>2. PICK i \in DOMAIN q : q[i] = d
          BY <3>1, <4>1 DEF QueueGood, InQueue
        <4>3. i - 1 \in DOMAIN Tail(q) /\ (i - 1) + 1 = i
          BY <1>3, <1>4, <4>1, <4>2
        <4>. QED
          BY <1>4, <4>2, <4>3 DEF InQueue
      <3>4. QueueGood(writes', user, Tail(q))
        BY <1>4, <3>2, <3>3 DEF QueueGood
      <3>. QED
        BY <1>11, <2>1, <3>4
    <2>2. CASE o # user
      <3>1. queue'[o] = queue[o] /\ QueueGood(writes, o, queue[o])
        BY <1>2, <1>11, <2>2
      <3>2. \A d \in DOMAIN writes : writes'[d].owner = o => writes'[d] = writes[d]
        BY <1>5, <1>8, <1>9, <2>2
      <3>3. \A d \in DOMAIN writes : writes[d].owner = o => writes'[d] = writes[d]
        BY <1>5, <1>8, <1>9, <2>2
      <3>. QED
        BY <1>8, <3>1, <3>2, <3>3 DEF QueueGood
    <2>. QED
      BY <2>1, <2>2
  <1>14. QueueOf(writes', user, Tail(q))
    <2>1. QueueGood(writes', user, Tail(q))
      BY <1>1, <1>11, <1>13
    <2>. QED
      BY <1>4, <2>1, QueueGoodIsQueueOf
  <1>15. CallbacksWait'
    <2>1. ASSUME NEW o \in Owners, NEW d \in callbacks'[o] PROVE InQueue(queue'[o], d)
      <3>1. CASE o # user
        BY <1>11, <2>1, <3>1 DEF PipelineInv, CallbacksWait
      <3>2. CASE o = user
        <4>1. d # b /\ d \in callbacks[user]
          BY <1>11, <2>1, <3>2
        <4>2. PICK i \in DOMAIN q : q[i] = d
          BY <1>1, <4>1 DEF PipelineInv, CallbacksWait, InQueue
        <4>3. i - 1 \in DOMAIN Tail(q) /\ (i - 1) + 1 = i
          BY <1>3, <1>4, <4>1, <4>2
        <4>4. Tail(q)[i - 1] = d
          BY <1>4, <4>2, <4>3
        <4>5. InQueue(Tail(q), d)
          BY <4>3, <4>4 DEF InQueue
        <4>. QED
          BY <1>11, <3>2, <4>5
      <3>. QED
        BY <3>1, <3>2
    <2>. QED
      BY <2>1 DEF CallbacksWait, InQueue
  <1>. QED
    BY <1>4, <1>8, <1>9, <1>11, <1>12, <1>13, <1>14, <1>15

\* A reply and the write it is about go together.
LEMMA GoodWithoutFirst ==
    ASSUME NEW w, NEW u, NEW pipe \in Seq(Batches), NEW s, NEW c,
           StreamGood(w, u, pipe, s, c), s.state = "Open", s.handshake, c.replies # <<>>
    PROVE  /\ StreamGood(w, u, Tail(pipe), s, [c EXCEPT !.replies = Tail(@)])
           /\ pipe # <<>> /\ w[Head(pipe)].stamp > 0
           /\ \A a \in Before(w, Head(pipe)) : StaysBelow(w, a, Head(pipe))
  <1>1. /\ s \in Streams /\ c \in Calls /\ c.requests \in Seq(Nat) /\ c.replies \in Seq(Nat)
        /\ RepliesGood(w, pipe, c) /\ OwnedBy(w, u, c)
        /\ c.end = "none" => RequestsGood(pipe, c)
        /\ c.end = "permanent" => BlameGood(w, pipe, c)
    BY DEF StreamGood, Calls
  <1>2. /\ Len(c.replies) \in Nat /\ Len(c.replies) >= 1 /\ DOMAIN c.replies = 1..Len(c.replies)
        /\ Len(Tail(c.replies)) = Len(c.replies) - 1 /\ Tail(c.replies) \in Seq(Nat)
        /\ DOMAIN Tail(c.replies) = 1..(Len(c.replies) - 1)
        /\ \A i \in 1..(Len(c.replies) - 1) : Tail(c.replies)[i] = c.replies[i + 1]
    <2>1. Tail(c.replies) \in Seq(Nat) /\ Len(Tail(c.replies)) = Len(c.replies) - 1
      BY <1>1, TailFacts
    <2>2. DOMAIN Tail(c.replies) = 1..Len(Tail(c.replies))
      BY <2>1
    <2>. QED
      BY <1>1, <2>1, <2>2, TailFacts
  <1>3. pipe # <<>>
    <2>1. Len(pipe) >= 1
      <3>1. Len(c.replies) <= Len(pipe) /\ Len(pipe) \in Nat
        BY <1>1 DEF RepliesGood
      <3>. QED
        BY <1>2, <3>1
    <2>. QED
      BY <2>1
  <1>4. /\ Len(pipe) \in Nat /\ Len(pipe) >= 1 /\ Head(pipe) = pipe[1]
        /\ Tail(pipe) \in Seq(Batches) /\ Len(Tail(pipe)) = Len(pipe) - 1
        /\ \A i \in 1..(Len(pipe) - 1) : Tail(pipe)[i] = pipe[i + 1]
    BY <1>3, TailFacts
  <1>5. PICK rest \in Seq(Nat) : rest = Tail(c.replies)
    BY <1>2
  <1>6. PICK c2 \in Calls : c2 = [c EXCEPT !.replies = Tail(@)]
    <2>1. [c EXCEPT !.replies = rest] \in Calls
      BY <1>1 DEF Calls
    <2>2. [c EXCEPT !.replies = Tail(@)] = [c EXCEPT !.replies = rest]
      BY <1>5
    <2>. QED
      BY <2>1, <2>2
  <1>7. c2.replies = Tail(c.replies) /\ c2.requests = c.requests /\ c2.end = c.end
    <2>1. c2 = [c EXCEPT !.replies = rest]
      BY <1>5, <1>6
    <2>. QED
      BY <1>1, <1>5, <2>1 DEF Calls
  <1>8. PICK k, r, m \in Nat : k = Len(c.replies) /\ r = Len(c.requests) /\ m = Len(pipe)
    <2>1. Len(c.requests) \in Nat
      BY <1>1
    <2>. QED
      BY <1>2, <1>4, <2>1
  <1>9. k >= 1 /\ k <= m
    BY <1>1, <1>2, <1>8 DEF RepliesGood
  <1>10. RepliesGood(w, Tail(pipe), c2)
    <2>1. Len(c2.replies) <= Len(Tail(pipe))
      <3>1. k - 1 <= m - 1
        BY <1>9
      <3>. QED
        BY <1>2, <1>4, <1>7, <1>8, <3>1
    <2>2. ASSUME NEW i \in DOMAIN c2.replies
          PROVE  /\ c2.replies[i] = Tail(pipe)[i]
                 /\ w[Tail(pipe)[i]].stamp > 0
                 /\ \A a \in Before(w, Tail(pipe)[i]) : StaysBelow(w, a, Tail(pipe)[i])
      <3>1. i \in 1..(k - 1)
        BY <1>2, <1>7, <1>8
      <3>2. i + 1 \in 1..k /\ i \in 1..(m - 1)
        BY <1>9, <3>1
      <3>3. i + 1 \in DOMAIN c.replies /\ Tail(pipe)[i] = pipe[i + 1] /\ c2.replies[i] = c.replies[i + 1]
        BY <1>2, <1>4, <1>7, <1>8, <3>1, <3>2
      <3>. QED
        BY <1>1, <3>3 DEF RepliesGood
    <2>. QED
      BY <2>1, <2>2 DEF RepliesGood
  <1>11. OwnedBy(w, u, c2)
    BY <1>1, <1>7 DEF OwnedBy
  <1>12. c2.end = "none" => RequestsGood(Tail(pipe), c2)
    <2>1. SUFFICES ASSUME c.end = "none" PROVE RequestsGood(Tail(pipe), c2)
      BY <1>7
    <2>2. k + r = m /\ \A i \in DOMAIN c.requests : c.requests[i] = pipe[Len(c.replies) + i]
      BY <1>1, <1>8, <2>1 DEF RequestsGood
    <2>3. Len(c2.replies) + Len(c2.requests) = Len(Tail(pipe))
      <3>1. (k - 1) + r = m - 1
        BY <2>2
      <3>. QED
        BY <1>2, <1>4, <1>7, <1>8, <3>1
    <2>4. ASSUME NEW i \in DOMAIN c2.requests
          PROVE  c2.requests[i] = Tail(pipe)[Len(c2.replies) + i]
      <3>1. i \in 1..r
        BY <1>1, <1>7, <1>8
      <3>2. (k - 1) + i \in 1..(m - 1) /\ ((k - 1) + i) + 1 = k + i
        BY <1>9, <2>2, <3>1
      <3>3. Tail(pipe)[(k - 1) + i] = pipe[k + i]
        BY <1>4, <1>8, <3>2
      <3>. QED
        BY <1>2, <1>7, <1>8, <2>2, <3>3
    <2>. QED
      BY <2>3, <2>4 DEF RequestsGood
  <1>13. c2.end = "permanent" => BlameGood(w, Tail(pipe), c2)
    <2>1. SUFFICES ASSUME c.end = "permanent" PROVE BlameGood(w, Tail(pipe), c2)
      BY <1>7
    <2>2. k < m /\ Seen(w[pipe[k + 1]])
      BY <1>1, <1>8, <2>1 DEF BlameGood
    <2>3. (k - 1) < m - 1 /\ k \in 1..(m - 1) /\ (k - 1) + 1 = k
      BY <1>9, <2>2
    <2>4. Tail(pipe)[k] = pipe[k + 1]
      BY <1>4, <1>8, <2>3
    <2>. QED
      BY <1>2, <1>4, <1>7, <1>8, <2>2, <2>3, <2>4 DEF BlameGood
  <1>14. StreamGood(w, u, Tail(pipe), s, c2)
    <2>1. ~s.idle
      BY <1>3 DEF StreamGood
    <2>. QED
      BY <1>1, <1>10, <1>11, <1>12, <1>13, <2>1 DEF StreamGood
  <1>15. w[Head(pipe)].stamp > 0 /\ \A a \in Before(w, Head(pipe)) : StaysBelow(w, a, Head(pipe))
    <2>1. 1 \in DOMAIN c.replies
      BY <1>2
    <2>. QED
      BY <1>1, <1>4, <2>1 DEF RepliesGood
  <1>. QED
    BY <1>3, <1>6, <1>14, <1>15

\* The pipeline is part of the history.
LEMMA PipelineIsKnown ==
    ASSUME PipelineInv
    PROVE  \A i \in DOMAIN pipeline : pipeline[i] \in DOMAIN writes
  <1>1. queue[user] \in Seq(Batches) /\ QueueGood(writes, user, queue[user]) /\ pipeline \in Seq(Batches)
    BY HistoryIsGood DEF QueueOf, Filled
  <1>2. /\ Len(pipeline) <= Len(queue[user]) /\ DOMAIN pipeline = 1..Len(pipeline)
        /\ DOMAIN queue[user] = 1..Len(queue[user])
        /\ Len(pipeline) \in Nat /\ Len(queue[user]) \in Nat
    BY <1>1, WritePipelineAssumption DEF PipelineInv, PipelineIsFront, Least
  <1>3. ASSUME NEW i \in DOMAIN pipeline PROVE pipeline[i] \in DOMAIN writes
    <2>1. i \in DOMAIN queue[user]
      BY <1>2
    <2>. QED
      BY <1>1, <2>1 DEF PipelineInv, PipelineIsFront, QueueGood
  <1>. QED
    BY <1>3

LEMMA ReadResultKeeps ==
    ASSUME PipelineInv, AstrayGood(writes', astray'), ReadResult
    PROVE  PipelineInv'
  <1>. DEFINE pipe == Tail(pipeline)
              c2 == [call EXCEPT !.replies = Tail(@)]
  <1>1. /\ stream.state = "Open" /\ stream.handshake /\ call.replies # <<>>
        /\ Settle(Head(pipeline), "ok")
        /\ FillWritePipeline(pipe, queue'[user], stream, c2)
        /\ UNCHANGED <<clock, user, trouble>>
    BY Zenon DEF ReadResult
  <1>2. pipeline \in Seq(Batches) /\ writes \in Seq(Writes)
    BY DEF PipelineInv, TypeOK, Batches
  <1>3. /\ StreamGood(writes, user, pipe, stream, c2)
        /\ pipeline # <<>> /\ writes[Head(pipeline)].stamp > 0
        /\ \A a \in Before(writes, Head(pipeline)) : StaysBelow(writes, a, Head(pipeline))
    BY <1>1, <1>2, StreamIsGood, GoodWithoutFirst
  <1>. HIDE DEF c2
  <1>4. /\ writes' \in Seq(Writes) /\ Len(writes') = Len(writes) /\ DOMAIN writes' = DOMAIN writes
        /\ queue' \in [Owners -> Seq(Batches)]
        /\ callbacks' \in [Owners -> SUBSET Batches]
        /\ HistoryGood(writes', clock)
        /\ \A o \in Owners : QueueGood(writes', o, queue'[o])
        /\ queue'[user] = Tail(queue[user]) /\ Tail(queue[user]) \in Seq(Batches)
        /\ QueueOf(writes', user, Tail(queue[user]))
        /\ pipe \in Seq(Batches) /\ Front(pipe, Tail(queue[user]))
        /\ \A d \in DOMAIN writes :
              /\ writes'[d].owner = writes[d].owner
              /\ writes'[d].stamp = writes[d].stamp /\ writes'[d].late = writes[d].late
              /\ writes[d].refused => writes'[d].refused
        /\ CallbacksWait'
    BY <1>1, <1>3, SettledInOrder
  <1>5. \A i \in DOMAIN pipe : pipe[i] \in DOMAIN writes
    <2>1. /\ Len(pipeline) \in Nat /\ Len(pipe) = Len(pipeline) - 1
          /\ \A i \in 1..(Len(pipeline) - 1) : pipe[i] = pipeline[i + 1]
      BY <1>2, <1>3, TailFacts
    <2>2. DOMAIN pipe = 1..Len(pipe) /\ DOMAIN pipeline = 1..Len(pipeline)
      BY <1>2, <1>4
    <2>3. \A i \in 1..(Len(pipeline) - 1) : i + 1 \in 1..Len(pipeline)
      BY <2>1
    <2>. QED
      BY <2>1, <2>2, <2>3, PipelineIsKnown
  <1>. HIDE DEF pipe
  <1>6. StreamGood(writes', user, pipe, stream, c2)
    <2>1. DOMAIN writes = 1..Len(writes) /\ Len(writes) \in Nat
      BY <1>2
    <2>. QED
      BY <1>3, <1>4, <1>5, <2>1, GoodWithMore
  <1>7. /\ Filled(pipeline', queue'[user])
        /\ StreamGood(writes', user, pipeline', stream', call')
        /\ pipeline' # <<>> => IsStarted(stream')
    <2>1. FillWritePipeline(pipe, Tail(queue[user]), stream, c2)
      BY <1>1, <1>4
    <2>. QED
      BY <1>4, <1>6, <2>1, FillKeepsGood
  <1>8. DataTypeOK'
    BY <1>1, <1>4, DataIsTyped DEF DataTypeOK
  <1>. QED
    BY <1>1, <1>4, <1>7, <1>8, InvOfPieces

LEMMA HandleWriteErrorKeeps ==
    ASSUME PipelineInv, AstrayGood(writes', astray'), HandleWriteError
    PROVE  PipelineInv'
  <1>. DEFINE pipe == Tail(pipeline)
  <1>1. /\ call.end = "permanent" /\ call.replies = <<>> /\ stream.handshake /\ pipeline # <<>>
        /\ Settle(Head(pipeline), "failed")
        /\ FillWritePipeline(pipe, queue'[user], Fresh("Initial"), NoCall)
        /\ UNCHANGED <<clock, user, trouble>>
    BY Zenon DEF HandleWriteError, Finished, ConcernsWrite
  <1>2. Seen(writes[Head(pipeline)])
    <2>1. BlameGood(writes, pipeline, call)
      BY <1>1, StreamIsGood DEF StreamGood
    <2>2. Len(call.replies) = 0 /\ Head(pipeline) = pipeline[1]
      BY <1>1
    <2>. QED
      BY <2>1, <2>2 DEF BlameGood
  <1>4. /\ writes' \in Seq(Writes) /\ Len(writes') = Len(writes)
        /\ queue' \in [Owners -> Seq(Batches)]
        /\ callbacks' \in [Owners -> SUBSET Batches]
        /\ HistoryGood(writes', clock)
        /\ \A o \in Owners : QueueGood(writes', o, queue'[o])
        /\ queue'[user] = Tail(queue[user]) /\ Tail(queue[user]) \in Seq(Batches)
        /\ QueueOf(writes', user, Tail(queue[user]))
        /\ pipe \in Seq(Batches) /\ Front(pipe, Tail(queue[user]))
        /\ CallbacksWait'
    BY <1>1, <1>2, SettledInOrder
  <1>. HIDE DEF pipe
  <1>6. StreamGood(writes', user, pipe, Fresh("Initial"), NoCall)
    BY ClosedIsGood DEF States
  <1>7. /\ Filled(pipeline', queue'[user])
        /\ StreamGood(writes', user, pipeline', stream', call')
        /\ pipeline' # <<>> => IsStarted(stream')
    <2>1. FillWritePipeline(pipe, Tail(queue[user]), Fresh("Initial"), NoCall)
      BY <1>1, <1>4
    <2>. QED
      BY <1>4, <1>6, <2>1, FillKeepsGood
  <1>8. DataTypeOK'
    BY <1>1, <1>4, DataIsTyped DEF DataTypeOK
  <1>. QED
    BY <1>1, <1>4, <1>7, <1>8, InvOfPieces

LEMMA WriteMutationsKeeps ==
    ASSUME PipelineInv, AstrayGood(writes', astray'), WriteMutations
    PROVE  PipelineInv'
  <1>. DEFINE b == Len(writes) + 1
              r == [owner |-> user, outcome |-> "open", stamp |-> 0, refused |-> FALSE,
                    late |-> FALSE]
              q == queue[user]
              q2 == Append(q, b)
  <1>1. /\ Len(writes) < MaxWrites
        /\ writes' = Append(writes, r)
        /\ queue' = [queue EXCEPT ![user] = q2]
        /\ callbacks' = [callbacks EXCEPT ![user] = callbacks[user] \cup {b}]
        /\ FillWritePipeline(pipeline, queue'[user], stream, call)
        /\ UNCHANGED <<clock, user, trouble>>
    BY DEF WriteMutations
  <1>2. /\ writes \in Seq(Writes) /\ pipeline \in Seq(Batches) /\ user \in Owners
        /\ queue \in [Owners -> Seq(Batches)] /\ q \in Seq(Batches) /\ clock \in Nat
        /\ callbacks \in [Owners -> SUBSET Batches]
    BY DEF PipelineInv, TypeOK, Batches
  <1>3. r \in Writes /\ r.owner = user /\ r.outcome = "open" /\ r.stamp = 0
    BY <1>2 DEF Writes, Outcomes
  <1>. HIDE DEF r
  <1>4. /\ writes' \in Seq(Writes) /\ Len(writes) \in Nat /\ DOMAIN writes = 1..Len(writes)
        /\ Len(writes') = b /\ DOMAIN writes' = 1..b
        /\ \A d \in DOMAIN writes : writes'[d] = writes[d] /\ d < b /\ d \in DOMAIN writes'
        /\ writes'[b] = r
        /\ \A d \in DOMAIN writes' : d = b \/ d \in DOMAIN writes
        /\ \A d \in DOMAIN writes : writes[d] \in Writes
    <2>1. /\ writes' \in Seq(Writes) /\ Len(writes') = b /\ Len(writes) \in Nat
          /\ \A i \in 1..Len(writes) : writes'[i] = writes[i]
          /\ writes'[b] = r
      BY <1>1, <1>2, <1>3, AppendFacts
    <2>2. DOMAIN writes' = 1..Len(writes') /\ DOMAIN writes = 1..Len(writes)
          /\ \A d \in DOMAIN writes : writes[d] \in Writes
      BY <1>2, <2>1
    <2>3. /\ \A d \in 1..Len(writes) : d < b /\ d \in 1..b
          /\ \A d \in 1..b : d = b \/ d \in 1..Len(writes)
      BY <2>1
    <2>4. \A d \in DOMAIN writes : writes'[d] = writes[d] /\ d < b /\ d \in DOMAIN writes'
      BY <2>1, <2>2, <2>3
    <2>5. DOMAIN writes' = 1..b
      BY <2>1, <2>2, Zenon
    <2>6. \A d \in DOMAIN writes' : d = b \/ d \in DOMAIN writes
      BY <2>2, <2>3, <2>5
    <2>. HIDE DEF b
    <2>. QED
      BY <2>1, <2>2, <2>4, <2>5, <2>6, Zenon
  <1>5. b \in Batches /\ b \in Nat /\ Len(writes') <= MaxWrites
    BY <1>1, <1>4, WritePipelineAssumption DEF Batches
  <1>6. /\ q2 \in Seq(Batches) /\ Len(q) \in Nat /\ Len(q2) = Len(q) + 1
        /\ DOMAIN q = 1..Len(q) /\ DOMAIN q2 = 1..(Len(q) + 1)
        /\ \A i \in DOMAIN q : q2[i] = q[i] /\ i \in DOMAIN q2
        /\ q2[Len(q) + 1] = b /\ Len(q) + 1 \in DOMAIN q2
    <2>1. /\ q2 \in Seq(Batches) /\ Len(q) \in Nat /\ Len(q2) = Len(q) + 1
          /\ \A i \in 1..Len(q) : q2[i] = q[i]
          /\ q2[Len(q) + 1] = b
      BY <1>2, <1>5, AppendFacts
    <2>2. DOMAIN q2 = 1..Len(q2) /\ DOMAIN q = 1..Len(q)
      BY <1>2, <2>1
    <2>. QED
      BY <2>1, <2>2
  <1>. HIDE DEF q2, b
  <1>7. /\ queue' \in [Owners -> Seq(Batches)] /\ queue'[user] = q2
        /\ \A o \in Owners : o # user => queue'[o] = queue[o]
        /\ callbacks' \in [Owners -> SUBSET Batches]
        /\ callbacks'[user] = callbacks[user] \cup {b}
        /\ \A o \in Owners : o # user => callbacks'[o] = callbacks[o]
    BY <1>1, <1>2, <1>5, <1>6
  <1>8. /\ HistoryGood(writes, clock) /\ \A o \in Owners : QueueGood(writes, o, queue[o])
        /\ Filled(pipeline, q) /\ QueueGood(writes, user, q)
    BY <1>2, HistoryIsGood
  <1>9. \A d \in DOMAIN writes : Before(writes', d) = Before(writes, d) /\ Before(writes, d) \subseteq DOMAIN writes
    <2>1. ASSUME NEW d \in DOMAIN writes PROVE 1..(d - 1) \subseteq DOMAIN writes
      BY <1>4
    <2>. QED
      BY <1>4, <2>1 DEF Before
  <1>10. HistoryGood(writes', clock)
    <2>1. ASSUME NEW d \in DOMAIN writes'
          PROVE  /\ writes'[d].stamp <= clock
                 /\ writes'[d].outcome # "open" =>
                      \A a \in Before(writes', d) : writes'[a].outcome # "open"
                 /\ writes'[d].outcome = "ok" =>
                      writes'[d].stamp > 0
                      /\ \A a \in Before(writes', d) : StaysBelow(writes', a, d)
                 /\ writes'[d].outcome = "failed" => Seen(writes'[d])
      <3>1. CASE d = b
        BY <1>2, <1>3, <1>4, <3>1
      <3>2. CASE d \in DOMAIN writes
        <4>1. writes'[d] = writes[d] /\ Before(writes', d) = Before(writes, d)
              /\ \A a \in Before(writes, d) : writes'[a] = writes[a]
          BY <1>4, <1>9, <3>2
        <4>. QED
          BY <1>8, <3>2, <4>1 DEF HistoryGood, StaysBelow
      <3>. QED
        BY <1>4, <3>1, <3>2
    <2>. QED
      BY <2>1 DEF HistoryGood
  <1>11. ASSUME NEW o \in Owners PROVE QueueGood(writes', o, queue'[o])
    <2>1. CASE o = user
      <3>1. \A i \in DOMAIN q2 : i = Len(q) + 1 \/ i \in DOMAIN q
        BY <1>6
      <3>2. ASSUME NEW i \in DOMAIN q2
            PROVE  /\ q2[i] \in DOMAIN writes' /\ writes'[q2[i]].owner = user
                   /\ writes'[q2[i]].outcome = "open"
        <4>1. CASE i = Len(q) + 1
          <5>1. b \in DOMAIN writes'
            BY <1>4, <1>5 DEF b
          <5>. QED
            BY <1>3, <1>4, <1>6, <4>1, <5>1
        <4>2. CASE i \in DOMAIN q
          BY <1>4, <1>6, <1>8, <4>2 DEF QueueGood
        <4>. QED
          BY <3>1, <4>1, <4>2
      <3>3. ASSUME NEW d \in DOMAIN writes', writes'[d].owner = user, writes'[d].outcome = "open"
            PROVE  InQueue(q2, d)
        <4>1. CASE d = b
          BY <1>6, <4>1 DEF InQueue
        <4>2. CASE d \in DOMAIN writes
          <5>1. writes[d].owner = user /\ writes[d].outcome = "open"
            BY <1>4, <3>3, <4>2
          <5>2. PICK i \in DOMAIN q : q[i] = d
            BY <1>8, <4>2, <5>1 DEF QueueGood, InQueue
          <5>. QED
            BY <1>6, <5>2 DEF InQueue
        <4>. QED
          BY <1>4, <4>1, <4>2
      <3>4. ASSUME NEW i \in DOMAIN q2, NEW j \in DOMAIN q2, i < j PROVE q2[i] < q2[j]
        <4>1. i \in DOMAIN q
          BY <1>6, <3>4
        <4>2. CASE j \in DOMAIN q
          BY <1>6, <1>8, <3>4, <4>1, <4>2 DEF QueueGood, Increasing
        <4>3. CASE j = Len(q) + 1
          <5>1. q[i] \in DOMAIN writes
            BY <1>8, <4>1 DEF QueueGood
          <5>. QED
            BY <1>4, <1>6, <4>1, <4>3, <5>1
        <4>. QED
          BY <3>1, <4>2, <4>3
      <3>5. QueueGood(writes', user, q2)
        BY <3>2, <3>3, <3>4 DEF QueueGood, Increasing
      <3>. QED
        BY <1>7, <2>1, <3>5
    <2>2. CASE o # user
      <3>1. queue'[o] = queue[o] /\ QueueGood(writes, o, queue[o])
        BY <1>7, <1>8, <2>2
      <3>2. \A d \in DOMAIN writes' : writes'[d].owner = o => d \in DOMAIN writes /\ writes[d] = writes'[d]
        BY <1>3, <1>4, <2>2
      <3>. QED
        BY <1>4, <3>1, <3>2 DEF QueueGood
    <2>. QED
      BY <2>1, <2>2
  <1>12. CallbacksWait'
    <2>1. ASSUME NEW o \in Owners, NEW d \in callbacks'[o] PROVE InQueue(queue'[o], d)
      <3>1. CASE o # user
        BY <1>7, <2>1, <3>1 DEF PipelineInv, CallbacksWait
      <3>2. CASE o = user /\ d = b
        BY <1>6, <1>7, <3>2 DEF InQueue
      <3>3. CASE o = user /\ d # b
        <4>1. InQueue(q, d)
          BY <1>7, <2>1, <3>3 DEF PipelineInv, CallbacksWait
        <4>2. InQueue(q2, d)
          BY <1>6, <4>1 DEF InQueue
        <4>. QED
          BY <1>7, <3>3, <4>2
      <3>. QED
        BY <3>1, <3>2, <3>3
    <2>. QED
      BY <2>1 DEF CallbacksWait, InQueue
  <1>13. Front(pipeline, q2)
    <2>1. Len(pipeline) \in Nat /\ DOMAIN pipeline = 1..Len(pipeline)
      BY <1>2
    <2>2. Len(pipeline) = Least(Len(q), MaxPipeline) /\ \A i \in DOMAIN pipeline : pipeline[i] = q[i]
      BY <1>8 DEF Filled
    <2>3. Len(pipeline) <= Len(q) /\ Len(pipeline) <= Least(Len(q2), MaxPipeline)
      BY <1>6, <2>1, <2>2, WritePipelineAssumption DEF Least
    <2>4. \A i \in DOMAIN pipeline : i \in DOMAIN q
      BY <1>6, <2>1, <2>3
    <2>. QED
      BY <1>6, <2>2, <2>3, <2>4 DEF Front
  <1>14. StreamGood(writes', user, pipeline, stream, call)
    <2>1. \A d \in DOMAIN writes : /\ writes'[d].owner = writes[d].owner
                                   /\ writes'[d].stamp = writes[d].stamp
                                   /\ writes[d].refused => writes'[d].refused
      BY <1>4
    <2>2. DOMAIN writes \subseteq DOMAIN writes'
      BY <1>4
    <2>. QED
      BY <1>2, <1>4, <2>1, <2>2, PipelineIsKnown, StreamIsGood, GoodWithMore
  <1>15. /\ Filled(pipeline', q2)
         /\ StreamGood(writes', user, pipeline', stream', call')
         /\ pipeline' # <<>> => IsStarted(stream')
    <2>1. QueueGood(writes', user, q2)
      BY <1>2, <1>7, <1>11
    <2>2. QueueOf(writes', user, q2)
      BY <1>6, <2>1, QueueGoodIsQueueOf
    <2>3. FillWritePipeline(pipeline, q2, stream, call)
      BY <1>1, <1>7
    <2>. QED
      BY <1>2, <1>6, <1>13, <1>14, <2>2, <2>3, FillKeepsGood
  <1>16. DataTypeOK'
    BY <1>1, <1>4, <1>5, <1>7, DataIsTyped DEF DataTypeOK
  <1>. QED
    BY <1>1, <1>7, <1>10, <1>11, <1>12, <1>15, <1>16, InvOfPieces

-----------------------------------------------------------------------------
(* The outbox, and what went astray.                                       *)

\* When the server gets to a write, what its account wrote before is settled or
\* was seen.
LEMMA SeenBefore ==
    ASSUME PipelineInv, Takes, Head(call.requests) # 0
    PROVE  \A a \in Before(writes, Head(call.requests)) :
              writes[a].outcome # "open" \/ Seen(writes[a])
  <1>. DEFINE b == Head(call.requests)
              n == Len(call.replies) + 1
              q == queue[user]
  <1>1. /\ n \in DOMAIN pipeline /\ n \in DOMAIN q /\ b = q[n] /\ stream.handshake
    BY RequestOfWrite
  <1>2. /\ writes \in Seq(Writes) /\ q \in Seq(Batches) /\ QueueGood(writes, user, q)
        /\ pipeline \in Seq(Batches) /\ call.replies \in Seq(Nat)
        /\ Filled(pipeline, q) /\ RepliesGood(writes, pipeline, call)
    BY <1>1, HistoryIsGood, StreamIsGood DEF PipelineInv, TypeOK, Batches, Calls, StreamGood
  <1>3. ASSUME NEW a \in Before(writes, b), writes[a].outcome = "open"
        PROVE  Seen(writes[a])
    <2>4. a \in Before(writes, q[n])
      BY <1>1, <1>3, Zenon
    <2>. HIDE DEF n, q
    <2>1. PICK i \in 1..(n - 1) : q[i] = a
      BY <1>1, <1>2, <1>3, <2>4, OpenBefore
    <2>. USE DEF n, q
    <2>2. i \in DOMAIN call.replies /\ i \in DOMAIN pipeline
      <3>1. Len(call.replies) \in Nat /\ DOMAIN call.replies = 1..Len(call.replies)
            /\ DOMAIN pipeline = 1..Len(pipeline) /\ Len(pipeline) \in Nat
            /\ Len(call.replies) <= Len(pipeline)
        BY <1>2 DEF RepliesGood
      <3>. QED
        BY <3>1
    <2>3. pipeline[i] = a /\ writes[pipeline[i]].stamp > 0
      BY <1>2, <2>1, <2>2 DEF Filled, RepliesGood
    <2>. QED
      BY <2>3 DEF Seen
  <1>. QED
    BY <1>3

\* When the first write is settled, what its account wrote before already is.
LEMMA FirstIsNext ==
    ASSUME PipelineInv, pipeline # <<>>
    PROVE  LET b == Head(pipeline)
           IN  /\ b \in DOMAIN writes /\ writes[b].outcome = "open"
               /\ \A a \in Before(writes, b) : writes[a].outcome # "open"
  <1>. DEFINE b == Head(pipeline)
              q == queue[user]
  <1>1. /\ writes \in Seq(Writes) /\ q \in Seq(Batches) /\ QueueGood(writes, user, q)
        /\ pipeline \in Seq(Batches) /\ Filled(pipeline, q)
    BY HistoryIsGood DEF PipelineInv, TypeOK, Batches
  <1>2. q # <<>>
    <2>1. Len(pipeline) >= 1 /\ Len(pipeline) \in Nat
      BY <1>1, TailFacts
    <2>2. Len(q) >= 1
      BY <1>1, <2>1, WritePipelineAssumption DEF Filled, Least
    <2>. QED
      BY <2>2
  <1>3. b = q[1]
    BY <1>1, <1>2, TailOfQueue
  <1>4. 1 \in DOMAIN q
    BY <1>1, <1>2
  <1>. QED
    BY <1>1, <1>2, <1>3, <1>4, NoneBeforeFirst DEF QueueGood

\* So it is with the first request of a call that was given up.
LEMMA AstrayHead ==
    ASSUME PipelineInv, NEW n \in 1..MaxTrouble, astray[n] # <<>>
    PROVE  Head(astray[n]) \in DOMAIN writes /\ Box!InTurn(Head(astray[n]))
  <1>1. CallInOrder(writes, astray[n])
    BY AstrayIsGood DEF AstrayGood
  <1>2. astray[n] \in Seq(Batches) /\ 1 \in DOMAIN astray[n] /\ Head(astray[n]) = astray[n][1]
    BY <1>1 DEF CallInOrder
  <1>. QED
    BY <1>1, <1>2 DEF CallInOrder, Box!InTurn, Box!Settled, Box!Seen, Box!Before, Before, Seen

\* Every step is a step of the outbox, or none of its business.
LEMMA BoxStep == PipelineInv /\ [Next]_vars => [Box!Next]_(Box!vars)
  <1>. SUFFICES ASSUME PipelineInv, [Next]_vars, ~ UNCHANGED Box!vars
                PROVE  Box!Next
    OBVIOUS
  <1>1. CASE WriteMutations
    <2>1. /\ writes' = Append(writes,
               [owner |-> user, outcome |-> "open", stamp |-> 0, refused |-> FALSE,
              late |-> FALSE])
          /\ UNCHANGED clock
      BY <1>1 DEF WriteMutations
    <2>2. user \in Owners
      BY DEF PipelineInv, TypeOK
    <2>. QED
      BY <2>1, <2>2 DEF Box!Next, Box!Write
  <1>2. CASE ReadResult
    <2>1. /\ stream.state = "Open" /\ stream.handshake /\ call.replies # <<>>
          /\ writes' = [writes EXCEPT ![Head(pipeline)] = [@ EXCEPT !.outcome = "ok"]]
          /\ UNCHANGED clock
      BY <1>2 DEF ReadResult, Settle
    <2>2. pipeline \in Seq(Batches)
      BY DEF PipelineInv, TypeOK, Batches
    <2>3. /\ pipeline # <<>> /\ writes[Head(pipeline)].stamp > 0
          /\ \A a \in Before(writes, Head(pipeline)) : StaysBelow(writes, a, Head(pipeline))
      BY <2>1, <2>2, StreamIsGood, GoodWithoutFirst
    <2>4. Box!Succeed(Head(pipeline))
      BY <2>1, <2>3, FirstIsNext DEF Box!Succeed, Box!Settled, Box!Before, Before, StaysBelow
    <2>. QED
      BY <2>3, <2>4, FirstIsNext DEF Box!Next
  <1>3. CASE HandleWriteError
    <2>1. /\ call.end = "permanent" /\ call.replies = <<>> /\ stream.handshake /\ pipeline # <<>>
          /\ writes' = [writes EXCEPT ![Head(pipeline)] = [@ EXCEPT !.outcome = "failed"]]
          /\ UNCHANGED clock
      BY <1>3 DEF HandleWriteError, Finished, ConcernsWrite, Settle
    <2>2. Seen(writes[Head(pipeline)])
      <3>1. BlameGood(writes, pipeline, call)
        BY <2>1, StreamIsGood DEF StreamGood
      <3>2. Len(call.replies) = 0 /\ Head(pipeline) = pipeline[1]
        BY <2>1
      <3>. QED
        BY <3>1, <3>2 DEF BlameGood
    <2>3. Box!Fail(Head(pipeline))
      BY <2>1, <2>2, FirstIsNext DEF Box!Fail, Box!Settled, Box!Seen, Box!Before, Before, Seen
    <2>. QED
      BY <2>1, <2>3, FirstIsNext DEF Box!Next
  <1>4. CASE ServerAccepts
    <2>. DEFINE b == Head(call.requests)
    <2>1. Takes /\ b # 0
      BY <1>4 DEF ServerAccepts, Box!vars
    <2>2. /\ writes' = [writes EXCEPT ![b] = [@ EXCEPT !.stamp = clock + 1, !.late = FALSE]]
          /\ clock' = clock + 1
      BY <1>4, <2>1 DEF ServerAccepts, Apply
    <2>3. b \in DOMAIN writes /\ writes[b].outcome = "open"
      BY <2>1, RequestOfWrite
    <2>4. Box!Apply(b, FALSE)
      BY <2>1, <2>2, <2>3, SeenBefore DEF Box!Apply, Box!InTurn, Box!Settled, Box!Seen, Box!Before, Before, Seen
    <2>. QED
      BY <2>3, <2>4 DEF Box!Next
  <1>5. CASE ServerRefuses
    <2>. DEFINE b == Head(call.requests)
    <2>1. Takes /\ b # 0
      BY <1>5 DEF ServerRefuses, Box!vars
    <2>2. /\ writes' = [writes EXCEPT ![b] = [@ EXCEPT !.refused = TRUE]]
          /\ UNCHANGED clock
      BY <1>5, <2>1 DEF ServerRefuses, Refuse
    <2>3. b \in DOMAIN writes /\ writes[b].outcome = "open"
      BY <2>1, RequestOfWrite
    <2>4. Box!Refuse(b)
      BY <2>1, <2>2, <2>3, SeenBefore DEF Box!Refuse, Box!InTurn, Box!Settled, Box!Seen, Box!Before, Before, Seen
    <2>. QED
      BY <2>3, <2>4 DEF Box!Next
  <1>6. CASE \/ \E u \in Owners : HandleCredentialChange(u) \/ Relaunch(u)
             \/ ResumeStart \/ ResumeFails \/ BackoffElapses \/ ReadHandshake
             \/ StreamFails \/ IdleTimeout \/ ConnectionLost \/ WriteFailsFirst
             \/ UNCHANGED vars
    <2>1. UNCHANGED <<writes, clock>>
      BY <1>6 DEF HandleCredentialChange, Relaunch, ResumeStart, ResumeFails, BackoffElapses,
        ReadHandshake, StreamFails, IdleTimeout, ConnectionLost, WriteFailsFirst, vars
    <2>. QED
      BY <2>1 DEF Box!vars
  <1>7. ASSUME NEW n \in 1..MaxTrouble, ServerAcceptsLate(n) PROVE Box!Next
    <2>1. Box!Apply(Head(astray[n]), TRUE)
      BY <1>7, AstrayHead DEF ServerAcceptsLate, Apply, Box!Apply
    <2>. QED
      BY <1>7, <2>1, AstrayHead DEF ServerAcceptsLate, Box!Next
  <1>8. ASSUME NEW n \in 1..MaxTrouble, ServerRefusesLate(n) PROVE Box!Next
    <2>1. Box!Refuse(Head(astray[n]))
      BY <1>8, AstrayHead DEF ServerRefusesLate, Refuse, Box!Refuse
    <2>. QED
      BY <1>8, <2>1, AstrayHead DEF ServerRefusesLate, Box!Next
  <1>. QED
    BY <1>1, <1>2, <1>3, <1>4, <1>5, <1>6, <1>7, <1>8 DEF Next

\* What is settled stays settled, what was seen was seen.
HistoryGrows(w, w2) ==
    /\ DOMAIN w \subseteq DOMAIN w2
    /\ \A b \in DOMAIN w :
          /\ w2[b].owner = w[b].owner
          /\ w[b].outcome # "open" => w2[b].outcome # "open"
          /\ Seen(w[b]) => Seen(w2[b])

LEMMA CallStaysInOrder ==
    ASSUME NEW w \in Seq(Writes), NEW w2, HistoryGrows(w, w2), NEW r, CallInOrder(w, r)
    PROVE  CallInOrder(w2, r)
  <1>. SUFFICES ASSUME NEW i \in DOMAIN r, NEW a \in Before(w2, r[i])
                PROVE  /\ r[i] \in DOMAIN w2
                       /\ \/ w2[a].outcome # "open"
                          \/ Seen(w2[a])
                          \/ \E j \in 1..(i - 1) : r[j] = a
    BY DEF CallInOrder, HistoryGrows
  <1>. DEFINE b == r[i]
  <1>1. b \in DOMAIN w /\ DOMAIN w = 1..Len(w) /\ Len(w) \in Nat
    BY DEF CallInOrder
  <1>2. a \in 1..(b - 1) /\ w2[a].owner = w2[b].owner
    BY DEF Before
  <1>3. a \in DOMAIN w
    BY <1>1, <1>2
  <1>4. a \in Before(w, b)
    BY <1>1, <1>2, <1>3 DEF HistoryGrows, Before
  <1>5. w[a].outcome # "open" \/ Seen(w[a]) \/ \E j \in 1..(i - 1) : r[j] = a
    BY <1>4 DEF CallInOrder
  <1>. QED
    BY <1>1, <1>3, <1>5 DEF HistoryGrows

LEMMA StepGrows ==
    ASSUME PipelineInv, [Next]_vars
    PROVE  HistoryGrows(writes, writes')
  <1>1. writes \in Seq(Writes) /\ clock \in Nat
    BY DEF PipelineInv, TypeOK
  <1>2. [Box!Next]_(Box!vars)
    BY BoxStep
  <1>3. ASSUME NEW c \in DOMAIN writes, NEW e \in Writes, writes' = [writes EXCEPT ![c] = e],
               e.owner = writes[c].owner, writes[c].outcome # "open" => e.outcome # "open",
               Seen(writes[c]) => Seen(e)
        PROVE  HistoryGrows(writes, writes')
    BY <1>1, <1>3, ReplacedFacts DEF HistoryGrows
  <1>4. ASSUME NEW o \in Owners, Box!Write(o)
        PROVE  HistoryGrows(writes, writes')
    BY <1>1, <1>4 DEF Box!Write, HistoryGrows, Writes, Outcomes
  <1>5. ASSUME NEW c \in DOMAIN writes, NEW late \in BOOLEAN, Box!Apply(c, late)
        PROVE  HistoryGrows(writes, writes')
    <2>. DEFINE e == [writes[c] EXCEPT !.stamp = clock + 1, !.late = late]
    <2>1. PICK old \in Writes : old = writes[c]
      BY <1>1
    <2>2. /\ e \in Writes /\ e.owner = writes[c].owner /\ e.outcome = writes[c].outcome
          /\ e.stamp = clock + 1
      <3>1. PICK t \in Nat : t = clock + 1
        BY <1>1
      <3>2. e = [old EXCEPT !.stamp = t, !.late = late]
        BY <2>1, <3>1
      <3>. QED
        BY <2>1, <3>1, <3>2 DEF Writes
    <2>4. Seen(e)
      BY <1>1, <2>2 DEF Seen
    <2>3. writes' = [writes EXCEPT ![c] = e]
      BY <1>5 DEF Box!Apply
    <2>. HIDE DEF e
    <2>. QED
      BY <1>3, <2>2, <2>3, <2>4
  <1>6. ASSUME NEW c \in DOMAIN writes, Box!Refuse(c)
        PROVE  HistoryGrows(writes, writes')
    <2>. DEFINE e == [writes[c] EXCEPT !.refused = TRUE]
    <2>1. PICK old \in Writes : old = writes[c]
      BY <1>1
    <2>2. /\ e \in Writes /\ e.owner = writes[c].owner /\ e.outcome = writes[c].outcome
          /\ e.refused = TRUE
      BY <2>1 DEF Writes
    <2>4. Seen(e)
      BY <2>2 DEF Seen
    <2>3. writes' = [writes EXCEPT ![c] = e]
      BY <1>6 DEF Box!Refuse
    <2>. HIDE DEF e
    <2>. QED
      BY <1>3, <2>2, <2>3, <2>4
  <1>7. ASSUME NEW c \in DOMAIN writes, NEW outcome \in {"ok", "failed"},
               writes' = [writes EXCEPT ![c] = [@ EXCEPT !.outcome = outcome]]
        PROVE  HistoryGrows(writes, writes')
    <2>. DEFINE e == [writes[c] EXCEPT !.outcome = outcome]
    <2>1. writes[c] \in Writes
      BY <1>1
    <2>2. /\ e \in Writes /\ e.owner = writes[c].owner /\ e.outcome # "open"
          /\ Seen(writes[c]) => Seen(e)
      BY <2>1 DEF Writes, Outcomes, Seen
    <2>3. writes' = [writes EXCEPT ![c] = e]
      BY <1>7
    <2>. HIDE DEF e
    <2>. QED
      BY <1>3, <2>2, <2>3
  <1>8. ASSUME NEW c \in DOMAIN writes, Box!Succeed(c) \/ Box!Fail(c)
        PROVE  HistoryGrows(writes, writes')
    BY <1>7, <1>8 DEF Box!Succeed, Box!Fail
  <1>9. CASE UNCHANGED Box!vars
    BY <1>9 DEF Box!vars, HistoryGrows
  <1>. QED
    BY <1>2, <1>4, <1>5, <1>6, <1>8, <1>9 DEF Box!Next

\* The requests of a live call are each in its turn.
LEMMA GivenUpInOrder ==
    ASSUME PipelineInv
    PROVE  CallInOrder(writes, IF stream.handshake /\ call.end = "none"
                               THEN call.requests ELSE <<>>)
  <1>1. CASE ~(stream.handshake /\ call.end = "none")
    BY <1>1 DEF CallInOrder
  <1>2. CASE stream.handshake /\ call.end = "none"
    <2>. DEFINE q == queue[user]
                p == pipeline
                r == call.requests
                n == Len(call.replies)
    <2>1. /\ writes \in Seq(Writes) /\ q \in Seq(Batches) /\ QueueGood(writes, user, q)
          /\ p \in Seq(Batches) /\ call.replies \in Seq(Nat) /\ r \in Seq(Nat)
          /\ Filled(p, q) /\ RepliesGood(writes, p, call) /\ RequestsGood(p, call)
      BY <1>2, HistoryIsGood, StreamIsGood DEF PipelineInv, TypeOK, Batches, Calls, StreamGood
    <2>2. /\ n \in Nat /\ DOMAIN call.replies = 1..n
          /\ Len(p) \in Nat /\ DOMAIN p = 1..Len(p)
          /\ Len(r) \in Nat /\ DOMAIN r = 1..Len(r)
          /\ Len(q) \in Nat /\ DOMAIN q = 1..Len(q)
      BY <2>1
    <2>3. n + Len(r) = Len(p)
      BY <1>2, <2>1 DEF RequestsGood
    <2>4. Len(p) <= Len(q)
      BY <2>1, <2>2, WritePipelineAssumption DEF Filled, Least
    <2>5. \A i \in DOMAIN r : r[i] = p[n + i]
      BY <1>2, <2>1 DEF RequestsGood
    <2>6. \A i \in DOMAIN p : p[i] = q[i]
      BY <2>1 DEF Filled
    <2>7. \A i \in DOMAIN call.replies : writes[p[i]].stamp > 0
      BY <2>1 DEF RepliesGood
    <2>. HIDE DEF q, p, r, n
    <2>8. ASSUME NEW i \in DOMAIN r
          PROVE  i \in Nat /\ n + i \in 1..Len(p) /\ n + i \in DOMAIN p /\ n + i \in DOMAIN q
                 /\ r[i] = q[n + i]
      <3>1. i \in Nat /\ n + i \in 1..Len(p) /\ n + i \in 1..Len(q)
        BY <2>2, <2>3, <2>4
      <3>. QED
        BY <2>2, <2>5, <2>6, <3>1
    <2>9. r \in Seq(Batches)
      <3>1. \A i \in 1..Len(r) : r[i] \in Batches
        <4>1. \A i \in DOMAIN q : q[i] \in Batches
          BY <2>1
        <4>. QED
          BY <2>2, <2>8, <4>1
      <3>2. r = [i \in 1..Len(r) |-> r[i]]
        BY <2>1
      <3>3. [i \in 1..Len(r) |-> r[i]] \in Seq(Batches)
        <4>. DEFINE m == Len(r)
                    f == [i \in 1..m |-> r[i]]
        <4>1. f \in [1..m -> Batches] /\ m \in Nat
          BY <2>2, <3>1
        <4>. HIDE DEF f, m
        <4>2. f \in Seq(Batches)
          BY <4>1
        <4>. QED
          BY <4>2 DEF f, m
      <3>. QED
        BY <3>2, <3>3
    <2>10. ASSUME NEW i \in DOMAIN r
           PROVE  /\ r[i] \in DOMAIN writes
                  /\ \A a \in Before(writes, r[i]) :
                        \/ writes[a].outcome # "open"
                        \/ Seen(writes[a])
                        \/ \E j \in 1..(i - 1) : r[j] = a
      <3>1. PICK m \in DOMAIN q : m = n + i
        BY <2>8
      <3>2. r[i] = q[m] /\ m \in 1..Len(p)
        BY <2>8, <3>1
      <3>3. r[i] \in DOMAIN writes
        BY <2>1, <3>1, <3>2 DEF QueueGood
      <3>4. ASSUME NEW a \in Before(writes, r[i]), writes[a].outcome = "open"
            PROVE  Seen(writes[a]) \/ \E j \in 1..(i - 1) : r[j] = a
        <4>1. a \in Before(writes, q[m])
          BY <3>2, <3>4
        <4>2. PICK k \in 1..(m - 1) : q[k] = a
          BY <2>1, <3>4, <4>1, OpenBefore
        <4>3. k \in DOMAIN p /\ p[k] = a
          <5>1. k \in 1..Len(p)
            BY <2>2, <3>2, <4>2
          <5>. QED
            BY <2>2, <2>6, <4>2, <5>1
        <4>4. CASE k <= n
          <5>1. k \in DOMAIN call.replies
            BY <2>2, <4>2, <4>4
          <5>. QED
            BY <2>7, <4>3, <5>1 DEF Seen
        <4>5. CASE k > n
          <5>1. PICK j \in 1..(i - 1) : k = n + j
            <6>1. k - n \in 1..(i - 1) /\ k = n + (k - n)
              BY <2>2, <2>8, <3>1, <4>2, <4>5
            <6>. QED
              BY <6>1
          <5>2. j \in DOMAIN r
            BY <2>2, <2>8, <5>1
          <5>3. r[j] = a
            BY <2>5, <4>3, <5>1, <5>2
          <5>. QED
            BY <5>1, <5>3
        <4>. QED
          BY <2>2, <4>2, <4>4, <4>5
      <3>. QED
        BY <3>3, <3>4
    <2>11. CallInOrder(writes, r)
      BY <2>9, <2>10 DEF CallInOrder
    <2>. QED
      BY <1>2, <2>11 DEF r
  <1>. QED
    BY <1>1, <1>2

\* What went astray stays in order, whatever happens.
LEMMA AstrayStays ==
    ASSUME PipelineInv, [Next]_vars
    PROVE  AstrayGood(writes', astray')
  <1>1. writes \in Seq(Writes) /\ AstrayGood(writes, astray) /\ HistoryGrows(writes, writes')
    BY AstrayIsGood, StepGrows DEF PipelineInv, TypeOK
  <1>2. \A n \in 1..MaxTrouble : CallInOrder(writes', astray[n])
    BY <1>1, CallStaysInOrder DEF AstrayGood
  <1>3. CASE UNCHANGED astray
    BY <1>1, <1>2, <1>3 DEF AstrayGood
  <1>4. ASSUME NEW n \in 1..MaxTrouble, NEW r, CallInOrder(writes', r),
               astray' = [astray EXCEPT ![n] = r]
        PROVE  AstrayGood(writes', astray')
    <2>1. r \in Seq(Batches)
      BY <1>4 DEF CallInOrder
    <2>2. astray' \in [1..MaxTrouble -> Seq(Batches)]
          /\ \A m \in 1..MaxTrouble : astray'[m] = IF m = n THEN r ELSE astray[m]
      BY <1>1, <1>4, <2>1 DEF AstrayGood
    <2>. QED
      BY <1>2, <1>4, <2>2 DEF AstrayGood
  <1>5. CASE GiveUpCall /\ Trouble
    <2>. DEFINE r == IF stream.handshake /\ call.end = "none" THEN call.requests ELSE <<>>
    <2>1. CallInOrder(writes, r)
      BY GivenUpInOrder
    <2>2. astray' = [astray EXCEPT ![trouble + 1] = r]
      BY <1>5 DEF GiveUpCall
    <2>3. trouble + 1 \in 1..MaxTrouble
      BY <1>5, WritePipelineAssumption DEF Trouble, PipelineInv, TypeOK
    <2>. HIDE DEF r
    <2>4. CallInOrder(writes', r)
      BY <1>1, <2>1, CallStaysInOrder
    <2>. QED
      BY <1>4, <2>2, <2>3, <2>4
  <1>6. ASSUME NEW n \in 1..MaxTrouble, ServerAcceptsLate(n)
        PROVE  AstrayGood(writes', astray')
    <2>. DEFINE r == astray[n]
                b == Head(r)
    <2>1. /\ r # <<>> /\ astray' = [astray EXCEPT ![n] = Tail(r)]
          /\ writes' = [writes EXCEPT ![b] = [@ EXCEPT !.stamp = clock + 1, !.late = TRUE]]
      BY <1>6 DEF ServerAcceptsLate, Apply
    <2>2. r \in Seq(Batches) /\ CallInOrder(writes, r) /\ CallInOrder(writes', r)
      BY <1>1, <1>2 DEF AstrayGood
    <2>. HIDE DEF r
    <2>3. /\ Tail(r) \in Seq(Batches) /\ b = r[1] /\ Len(r) \in Nat /\ Len(r) >= 1
          /\ DOMAIN r = 1..Len(r) /\ DOMAIN Tail(r) = 1..(Len(r) - 1)
          /\ \A i \in 1..(Len(r) - 1) : Tail(r)[i] = r[i + 1]
      <3>1. DOMAIN r = 1..Len(r) /\ DOMAIN Tail(r) = 1..Len(Tail(r))
        BY <2>1, <2>2
      <3>. QED
        BY <2>1, <2>2, <3>1, TailFacts
    <2>4. b \in DOMAIN writes
      BY <2>2, <2>3 DEF CallInOrder
    <2>5. Seen(writes'[b])
      <3>1. writes[b] \in Writes /\ clock \in Nat
        BY <1>1, <2>4 DEF PipelineInv, TypeOK
      <3>2. writes'[b] = [writes[b] EXCEPT !.stamp = clock + 1, !.late = TRUE]
        BY <2>1, <2>4
      <3>. QED
        BY <3>1, <3>2 DEF Writes, Seen
    <2>6. ASSUME NEW i \in DOMAIN Tail(r)
          PROVE  /\ Tail(r)[i] \in DOMAIN writes'
                 /\ \A a \in Before(writes', Tail(r)[i]) :
                       \/ writes'[a].outcome # "open"
                       \/ Seen(writes'[a])
                       \/ \E j \in 1..(i - 1) : Tail(r)[j] = a
      <3>1. i \in Nat /\ i + 1 \in DOMAIN r /\ Tail(r)[i] = r[i + 1]
        BY <2>3
      <3>2. r[i + 1] \in DOMAIN writes'
        BY <2>2, <3>1 DEF CallInOrder
      <3>3. ASSUME NEW a \in Before(writes', r[i + 1]), writes'[a].outcome = "open",
                   ~Seen(writes'[a])
            PROVE  \E j \in 1..(i - 1) : Tail(r)[j] = a
        <4>1. PICK j \in 1..((i + 1) - 1) : r[j] = a
          BY <2>2, <3>1, <3>3 DEF CallInOrder
        <4>2. j # 1
          BY <2>3, <2>5, <3>3, <4>1
        <4>3. j - 1 \in 1..(i - 1) /\ j - 1 \in 1..(Len(r) - 1) /\ (j - 1) + 1 = j
          BY <2>3, <3>1, <4>1, <4>2
        <4>. QED
          BY <2>3, <4>1, <4>3
      <3>. QED
        BY <3>1, <3>2, <3>3
    <2>7. CallInOrder(writes', Tail(r))
      BY <2>3, <2>6 DEF CallInOrder
    <2>. QED
      BY <1>4, <2>1, <2>7
  <1>7. ASSUME NEW n \in 1..MaxTrouble, ServerRefusesLate(n)
        PROVE  AstrayGood(writes', astray')
    <2>1. CallInOrder(writes', <<>>)
      BY DEF CallInOrder
    <2>. QED
      BY <1>4, <1>7, <2>1 DEF ServerRefusesLate
  <1>8. CASE \/ WriteMutations \/ ResumeStart \/ ResumeFails \/ BackoffElapses
             \/ ReadHandshake \/ ReadResult \/ HandleWriteError \/ StreamFails \/ IdleTimeout
             \/ ServerAccepts \/ ServerRefuses \/ WriteFailsFirst \/ UNCHANGED vars
    BY <1>3, <1>8 DEF WriteMutations, ResumeStart, ResumeFails, BackoffElapses, ReadHandshake,
      ReadResult, HandleWriteError, StreamFails, IdleTimeout, ServerAccepts, ServerRefuses,
      WriteFailsFirst, vars
  <1>9. CASE (\E u \in Owners : HandleCredentialChange(u) \/ Relaunch(u)) \/ ConnectionLost
    BY <1>5, <1>9 DEF HandleCredentialChange, Relaunch, RestartNetwork, ConnectionLost
  <1>. QED
    BY <1>6, <1>7, <1>8, <1>9 DEF Next

\* A server that takes a request late disturbs no other piece.
LEMMA LateKeeps ==
    ASSUME PipelineInv, AstrayGood(writes', astray'),
           NEW c \in DOMAIN writes, NEW e \in Writes, writes' = [writes EXCEPT ![c] = e],
           e.owner = writes[c].owner, e.outcome = writes[c].outcome,
           e.stamp >= writes[c].stamp, e.stamp # writes[c].stamp => e.late,
           writes[c].late => e.late, writes[c].refused => e.refused,
           clock' \in Nat, clock' >= clock, e.stamp <= clock',
           UNCHANGED <<queue, user, callbacks, pipeline, stream, call, trouble>>
    PROVE  PipelineInv'
  <1>1. /\ writes \in Seq(Writes) /\ writes' \in Seq(Writes) /\ clock \in Nat
        /\ DOMAIN writes' = DOMAIN writes /\ Len(writes') = Len(writes)
        /\ Len(writes) \in Nat /\ DOMAIN writes = 1..Len(writes)
        /\ writes'[c] = e /\ \A d \in DOMAIN writes : d # c => writes'[d] = writes[d]
    BY ReplacedFacts DEF PipelineInv, TypeOK
  <1>2. \A d \in DOMAIN writes :
            /\ writes[d].stamp \in Nat /\ writes'[d].stamp \in Nat
            /\ writes'[d].owner = writes[d].owner /\ writes'[d].outcome = writes[d].outcome
            /\ writes'[d].stamp >= writes[d].stamp
            /\ writes'[d].stamp # writes[d].stamp => writes'[d].late
            /\ writes[d].late => writes'[d].late
            /\ Seen(writes[d]) => Seen(writes'[d])
            /\ writes[d].stamp <= clock => writes'[d].stamp <= clock'
    <2>1. \A d \in DOMAIN writes : writes[d] \in Writes /\ writes'[d] \in Writes
      BY <1>1
    <2>2. \A d \in DOMAIN writes : writes[d].stamp \in Nat /\ writes'[d].stamp \in Nat
      BY <2>1 DEF Writes
    <2>3. ASSUME NEW d \in DOMAIN writes, d # c
          PROVE  writes'[d] = writes[d] /\ (writes[d].stamp <= clock => writes'[d].stamp <= clock')
      BY <1>1, <2>2, <2>3
    <2>4. Seen(writes[c]) => Seen(writes'[c])
      BY <1>1, <2>2 DEF Seen
    <2>. QED
      BY <1>1, <2>2, <2>3, <2>4
  <1>3. \A b \in DOMAIN writes : Before(writes', b) = Before(writes, b)
                                 /\ Before(writes, b) \subseteq DOMAIN writes
    <2>1. \A b \in DOMAIN writes : 1..(b - 1) \subseteq DOMAIN writes
      BY <1>1
    <2>. QED
      BY <1>2, <2>1 DEF Before
  <1>4. \A a, b \in DOMAIN writes : StaysBelow(writes, a, b) => StaysBelow(writes', a, b)
    BY <1>2 DEF StaysBelow
  <1>5. HistoryGood(writes', clock')
    <2>1. HistoryGood(writes, clock)
      BY HistoryIsGood
    <2>2. \A d \in DOMAIN writes : writes'[d].stamp <= clock'
      BY <1>2, <2>1 DEF HistoryGood
    <2>3. ASSUME NEW d \in DOMAIN writes
          PROVE  /\ writes'[d].outcome # "open" =>
                      \A a \in Before(writes', d) : writes'[a].outcome # "open"
                 /\ writes'[d].outcome = "ok" =>
                      writes'[d].stamp > 0
                      /\ \A a \in Before(writes', d) : StaysBelow(writes', a, d)
                 /\ writes'[d].outcome = "failed" => Seen(writes'[d])
      <3>1. /\ Before(writes', d) = Before(writes, d) /\ Before(writes, d) \subseteq DOMAIN writes
            /\ writes'[d].outcome = writes[d].outcome
        BY <1>2, <1>3
      <3>2. writes'[d].outcome # "open" =>
               \A a \in Before(writes', d) : writes'[a].outcome # "open"
        BY <1>2, <2>1, <3>1 DEF HistoryGood
      <3>3. ASSUME writes'[d].outcome = "ok" PROVE writes'[d].stamp > 0
        <4>1. writes[d].stamp > 0
          BY <2>1, <3>1, <3>3 DEF HistoryGood
        <4>. QED
          BY <1>2, <4>1
      <3>4. ASSUME writes'[d].outcome = "ok", NEW a \in Before(writes', d)
            PROVE  StaysBelow(writes', a, d)
        <4>1. StaysBelow(writes, a, d) /\ a \in DOMAIN writes
          BY <2>1, <3>1, <3>4 DEF HistoryGood
        <4>. QED
          BY <1>4, <4>1
      <3>5. writes'[d].outcome = "failed" => Seen(writes'[d])
        BY <1>2, <2>1, <3>1 DEF HistoryGood
      <3>. QED
        BY <3>2, <3>3, <3>4, <3>5
    <2>. QED
      BY <1>1, <2>2, <2>3 DEF HistoryGood
  <1>6. \A o \in Owners : QueueGood(writes', o, queue'[o])
    BY <1>1, <1>2, HistoryIsGood DEF QueueGood
  <1>7. StreamGood(writes, user, pipeline, stream, call)
    BY StreamIsGood
  <1>8. \A i \in DOMAIN pipeline : pipeline[i] \in DOMAIN writes
    <2>1. /\ Filled(pipeline, queue[user]) /\ QueueGood(writes, user, queue[user])
          /\ pipeline \in Seq(Batches) /\ queue[user] \in Seq(Batches)
      BY HistoryIsGood DEF PipelineInv, TypeOK, Batches
    <2>2. DOMAIN pipeline \subseteq DOMAIN queue[user]
      BY <2>1, WritePipelineAssumption DEF Filled, Least
    <2>. QED
      BY <2>1, <2>2 DEF Filled, QueueGood
  <1>9. pipeline \in Seq(Batches)
    BY DEF PipelineInv, TypeOK, Batches
  <1>10. stream.handshake =>
            /\ RepliesGood(writes', pipeline, call) /\ OwnedBy(writes', user, call)
            /\ call.end = "permanent" => BlameGood(writes', pipeline, call)
    <2>. SUFFICES ASSUME stream.handshake
                  PROVE  /\ RepliesGood(writes', pipeline, call) /\ OwnedBy(writes', user, call)
                         /\ call.end = "permanent" => BlameGood(writes', pipeline, call)
      OBVIOUS
    <2>1. /\ RepliesGood(writes, pipeline, call) /\ OwnedBy(writes, user, call)
          /\ call.end = "permanent" => BlameGood(writes, pipeline, call)
          /\ call.replies \in Seq(Nat)
      BY <1>7 DEF StreamGood, Calls
    <2>2. /\ Len(call.replies) \in Nat /\ DOMAIN call.replies = 1..Len(call.replies)
          /\ Len(pipeline) \in Nat /\ DOMAIN pipeline = 1..Len(pipeline)
      BY <1>9, <2>1
    <2>3. RepliesGood(writes', pipeline, call)
      <3>1. ASSUME NEW i \in DOMAIN call.replies
            PROVE  /\ call.replies[i] = pipeline[i]
                   /\ writes'[pipeline[i]].stamp > 0
                   /\ \A a \in Before(writes', pipeline[i]) : StaysBelow(writes', a, pipeline[i])
        <4>1. pipeline[i] \in DOMAIN writes
          BY <1>8, <2>1, <2>2 DEF RepliesGood
        <4>2. writes'[pipeline[i]].stamp > 0
          BY <1>2, <2>1, <4>1 DEF RepliesGood
        <4>. QED
          BY <1>3, <1>4, <2>1, <4>1, <4>2 DEF RepliesGood
      <3>. QED
        BY <2>1, <3>1 DEF RepliesGood
    <2>4. OwnedBy(writes', user, call)
      BY <1>1, <1>2, <2>1 DEF OwnedBy
    <2>5. ASSUME call.end = "permanent" PROVE BlameGood(writes', pipeline, call)
      <3>1. BlameGood(writes, pipeline, call)
        BY <2>1, <2>5
      <3>2. Len(call.replies) + 1 \in DOMAIN pipeline
        BY <2>2, <3>1 DEF BlameGood
      <3>. QED
        BY <1>2, <1>8, <3>1, <3>2 DEF BlameGood
    <2>. QED
      BY <2>3, <2>4, <2>5
  <1>11. StreamGood(writes', user', pipeline', stream', call')
    BY <1>7, <1>10 DEF StreamGood
  <1>12. DataTypeOK'
    BY <1>1, DataIsTyped DEF DataTypeOK
  <1>13. CallbacksWait' /\ (pipeline' # <<>> => IsStarted(stream'))
         /\ Filled(pipeline', queue'[user'])
    BY HistoryIsGood DEF PipelineInv, CallbacksWait, NeverForgotten
  <1>. QED
    BY <1>5, <1>6, <1>11, <1>12, <1>13, InvOfPieces

LEMMA AcceptsLateKeeps ==
    ASSUME PipelineInv, AstrayGood(writes', astray'), NEW n \in 1..MaxTrouble,
           ServerAcceptsLate(n)
    PROVE  PipelineInv'
  <1>. DEFINE c == Head(astray[n])
              e == [writes[c] EXCEPT !.stamp = clock + 1, !.late = TRUE]
  <1>1. c \in DOMAIN writes
    BY AstrayHead DEF ServerAcceptsLate
  <1>2. writes[c] \in Writes /\ clock \in Nat /\ writes[c].stamp <= clock
    BY <1>1 DEF PipelineInv, TypeOK, History
  <1>3. /\ e \in Writes /\ e.owner = writes[c].owner /\ e.outcome = writes[c].outcome
        /\ e.stamp = clock + 1 /\ e.late = TRUE /\ e.refused = writes[c].refused
        /\ writes[c].stamp \in Nat
    <2>1. PICK old \in Writes : old = writes[c]
      BY <1>2
    <2>2. PICK t \in Nat : t = clock + 1
      BY <1>2
    <2>3. e = [old EXCEPT !.stamp = t, !.late = TRUE]
      BY <2>1, <2>2
    <2>. QED
      BY <2>1, <2>2, <2>3 DEF Writes
  <1>4. writes' = [writes EXCEPT ![c] = e] /\ clock' = clock + 1
        /\ UNCHANGED <<queue, user, callbacks, pipeline, stream, call, trouble>>
    BY DEF ServerAcceptsLate, Apply
  <1>. HIDE DEF c, e
  <1>5. e.stamp >= writes[c].stamp /\ clock' \in Nat /\ clock' >= clock /\ e.stamp <= clock'
    BY <1>2, <1>3, <1>4
  <1>. QED
    BY <1>1, <1>3, <1>4, <1>5, LateKeeps

LEMMA RefusesLateKeeps ==
    ASSUME PipelineInv, AstrayGood(writes', astray'), NEW n \in 1..MaxTrouble,
           ServerRefusesLate(n)
    PROVE  PipelineInv'
  <1>. DEFINE c == Head(astray[n])
              e == [writes[c] EXCEPT !.refused = TRUE]
  <1>1. c \in DOMAIN writes
    BY AstrayHead DEF ServerRefusesLate
  <1>2. writes[c] \in Writes /\ clock \in Nat /\ writes[c].stamp <= clock
    BY <1>1 DEF PipelineInv, TypeOK, History
  <1>3. /\ e \in Writes /\ e.owner = writes[c].owner /\ e.outcome = writes[c].outcome
        /\ e.stamp = writes[c].stamp /\ e.late = writes[c].late /\ e.refused = TRUE
        /\ writes[c].stamp \in Nat
    <2>1. PICK old \in Writes : old = writes[c]
      BY <1>2
    <2>2. e = [old EXCEPT !.refused = TRUE]
      BY <2>1
    <2>. QED
      BY <2>1, <2>2 DEF Writes
  <1>4. writes' = [writes EXCEPT ![c] = e] /\ clock' = clock
        /\ UNCHANGED <<queue, user, callbacks, pipeline, stream, call, trouble>>
    BY DEF ServerRefusesLate, Refuse
  <1>. HIDE DEF c, e
  <1>5. e.stamp >= writes[c].stamp /\ clock' \in Nat /\ clock' >= clock /\ e.stamp <= clock'
    BY <1>2, <1>3, <1>4
  <1>. QED
    BY <1>1, <1>3, <1>4, <1>5, LateKeeps

-----------------------------------------------------------------------------
(* The invariant.                                                          *)

LEMMA StutterKeeps ==
    ASSUME PipelineInv, AstrayGood(writes', astray'), UNCHANGED vars
    PROVE  PipelineInv'
  <1>1. /\ UNCHANGED <<writes, clock, queue, user, callbacks, pipeline, stream, call, astray, trouble>>
        /\ trouble' \in 0..MaxTrouble /\ (pipeline # <<>> => IsStarted(stream'))
    BY DEF vars, PipelineInv, TypeOK, NeverForgotten
  <1>2. StreamGood(writes, user, pipeline, stream', call')
    BY <1>1, StreamIsGood
  <1>. QED
    BY <1>1, <1>2, StreamSteps

\* Queue, pipeline, replies and requests stay pieces of one sequence, whatever
\* the client, the server and the network do.
THEOREM PipelineCorrect == Spec => []PipelineInv
  <1>1. PipelineInv /\ [Next]_vars => PipelineInv'
    <2>. SUFFICES ASSUME PipelineInv, [Next]_vars
                  PROVE  PipelineInv'
      OBVIOUS
    <2>. AstrayGood(writes', astray')
      BY AstrayStays
    <2>1. CASE WriteMutations
      BY <2>1, WriteMutationsKeeps
    <2>2. ASSUME NEW u \in Owners, HandleCredentialChange(u) PROVE PipelineInv'
      BY <2>2, HandleCredentialChangeKeeps
    <2>3. ASSUME NEW u \in Owners, Relaunch(u) PROVE PipelineInv'
      BY <2>3, RelaunchKeeps
    <2>4. CASE ResumeStart
      BY <2>4, ResumeStartKeeps
    <2>5. CASE ResumeFails
      BY <2>5, ResumeFailsKeeps
    <2>6. CASE BackoffElapses
      BY <2>6, BackoffElapsesKeeps
    <2>7. CASE ReadHandshake
      BY <2>7, ReadHandshakeKeeps
    <2>8. CASE ReadResult
      BY <2>8, ReadResultKeeps
    <2>9. CASE HandleWriteError
      BY <2>9, HandleWriteErrorKeeps
    <2>10. CASE StreamFails
      BY <2>10, StreamFailsKeeps
    <2>11. CASE IdleTimeout
      BY <2>11, IdleTimeoutKeeps
    <2>12. CASE ServerAccepts
      BY <2>12, AcceptsKeeps, AcceptsHandshakeKeeps
    <2>13. CASE ServerRefuses
      BY <2>13, RefusesKeeps, RefusesHandshakeKeeps
    <2>14. CASE ConnectionLost
      BY <2>14, ConnectionLostKeeps
    <2>15. CASE WriteFailsFirst
      BY <2>15, WriteFailsFirstKeeps
    <2>16. CASE UNCHANGED vars
      BY <2>16, StutterKeeps
    <2>17. ASSUME NEW n \in 1..MaxTrouble, ServerAcceptsLate(n) PROVE PipelineInv'
      BY <2>17, AcceptsLateKeeps
    <2>18. ASSUME NEW n \in 1..MaxTrouble, ServerRefusesLate(n) PROVE PipelineInv'
      BY <2>18, RefusesLateKeeps
    <2>. QED
      BY <2>1, <2>2, <2>3, <2>4, <2>5, <2>6, <2>7, <2>8, <2>9, <2>10, <2>11, <2>12, <2>13,
         <2>14, <2>15, <2>16, <2>17, <2>18 DEF Next
  <1>. QED
    BY <1>1, InitialIsGood, PTL DEF Spec

\* Types and bounds hold in every reachable state, whatever the bounds are.
THEOREM PipelineTypes == Spec => []TypeOK
  <1>1. PipelineInv => TypeOK
    BY DEF PipelineInv
  <1>. QED
    BY <1>1, PipelineCorrect, PTL

\* OnWriteStreamMutationResult takes every reply to be about the first write of
\* the pipeline; it always is.
THEOREM RepliesAnswerTheFirst == Spec => []AnswersTheFirst
  <1>1. PipelineInv => AnswersTheFirst
    <2>. SUFFICES ASSUME PipelineInv, stream.handshake, call.replies # <<>>
                  PROVE  pipeline # <<>> /\ Head(call.replies) = Head(pipeline)
      BY DEF AnswersTheFirst
    <2>1. pipeline \in Seq(Batches) /\ call.replies \in Seq(Nat) /\ stream.state = "Open"
      BY DEF PipelineInv, TypeOK, Batches, Calls, ClosedIsFresh, Fresh
    <2>2. RepliesGood(writes, pipeline, call) /\ pipeline # <<>>
      BY <2>1, StreamIsGood, GoodWithoutFirst DEF StreamGood
    <2>3. 1 \in DOMAIN call.replies /\ Head(call.replies) = call.replies[1] /\ Head(pipeline) = pipeline[1]
      BY <2>1, <2>2
    <2>. QED
      BY <2>2, <2>3 DEF RepliesGood
  <1>. QED
    BY <1>1, PipelineCorrect, PTL

\* No write leaves the queue before the server has seen it.
THEOREM ServerSettles == Spec => []SettledByServer
  <1>1. PipelineInv => SettledByServer
    BY DEF PipelineInv
  <1>. QED
    BY <1>1, PipelineCorrect, PTL

\* A write that is sent again never lands on one that was reported as done.
THEOREM DoneWritesStand == Spec => []LastWriteStands
  <1>1. PipelineInv => LastWriteStands
    BY DEF PipelineInv
  <1>. QED
    BY <1>1, PipelineCorrect, PTL

\* A call only carries writes of the account its token is for.
THEOREM OwnWritesOnly == Spec => []OwnAccount
  <1>1. PipelineInv => OwnAccount
    BY DEF PipelineInv
  <1>. QED
    BY <1>1, PipelineCorrect, PTL

\* The idle timer never closes a stream that has something to send.
THEOREM IdleIsEmpty == Spec => []IdleOnlyWhenEmpty
  <1>1. PipelineInv => IdleOnlyWhenEmpty
    BY DEF PipelineInv
  <1>. QED
    BY <1>1, PipelineCorrect, PTL

\* What is to be sent is in the pipeline, and a stream is there for it.
THEOREM NothingForgotten == Spec => []NeverForgotten
  <1>1. PipelineInv => NeverForgotten
    BY DEF PipelineInv
  <1>. QED
    BY <1>1, PipelineCorrect, PTL

\* No callback is left for a write that is settled.
THEOREM NobodyWaitsInVain == Spec => []CallbacksWait
  <1>1. PipelineInv => CallbacksWait
    BY DEF PipelineInv
  <1>. QED
    BY <1>1, PipelineCorrect, PTL

\* The queues hold the writes that are open, and nothing else.
THEOREM QueueIsOpenWrites == Spec => []OpenInQueue
  <1>1. PipelineInv => OpenInQueue
    BY DEF PipelineInv
  <1>. QED
    BY <1>1, PipelineCorrect, PTL

-----------------------------------------------------------------------------
(* The pipeline implements the outbox.                                     *)

\* Queue, pipeline, stream and server keep the promises of Outbox: whatever is
\* lost, the writes of an account are applied and settled in the order they
\* were made.
THEOREM PipelineIsOutbox == Spec => ImplementsOutbox
  <1>1. Init => Box!Init
    BY DEF Init, Box!Init
  <1>. QED
    BY <1>1, BoxStep, PipelineCorrect, PTL DEF Spec, ImplementsOutbox, Box!Spec

-----------------------------------------------------------------------------
(* The write stream goes through the states of StreamLifecycle.            *)

\* The pipeline is empty when the queue is.
LEMMA EmptyTogether ==
    ASSUME NEW p \in Seq(Batches), NEW q \in Seq(Batches),
           Len(p) = Least(Len(q), MaxPipeline)
    PROVE  p # <<>> <=> q # <<>>
  <1>1. /\ Len(p) \in Nat /\ Len(q) \in Nat
        /\ p = <<>> <=> Len(p) = 0
        /\ q = <<>> <=> Len(q) = 0
    OBVIOUS
  <1>. QED
    BY <1>1, WritePipelineAssumption DEF Least

LEMMA NeededForPipeline ==
    ASSUME PipelineInv
    PROVE  /\ queue[user] # <<>> <=> pipeline # <<>>
           /\ stream \in Streams /\ (pipeline # <<>> => IsStarted(stream))
  <1>1. /\ pipeline \in Seq(Batches) /\ queue[user] \in Seq(Batches)
        /\ Len(pipeline) = Least(Len(queue[user]), MaxPipeline)
    BY DEF PipelineInv, TypeOK, NeverForgotten, Batches
  <1>2. queue[user] # <<>> <=> pipeline # <<>>
    BY <1>1, EmptyTogether
  <1>. QED
    BY <1>2 DEF PipelineInv, TypeOK, NeverForgotten

LEMMA NeededAfterwards ==
    ASSUME PipelineInv'
    PROVE  queue'[user'] # <<>> <=> pipeline' # <<>>
  <1>1. /\ pipeline' \in Seq(Batches) /\ queue'[user'] \in Seq(Batches)
        /\ Len(pipeline') = Least(Len(queue'[user']), MaxPipeline)
    BY DEF PipelineInv, TypeOK, NeverForgotten, Batches
  <1>. QED
    BY <1>1, EmptyTogether

\* What FillWritePipeline makes of the stream: a started one stays as it is.
LEMMA FilledStream ==
    ASSUME NEW pipe, NEW q, NEW s \in Streams, NEW c, FillWritePipeline(pipe, q, s, c)
    PROVE  stream'.state = IF pipeline' = <<>> \/ IsStarted(s) THEN s.state
                           ELSE IF s.state = "Error" THEN "Backoff" ELSE "Starting"
  <1>1. PICK sent \in BOOLEAN :
           stream' = IF pipeline' = <<>> THEN MarkIdle(s)
                     ELSE IF IsStarted(s) THEN Stir(s, sent) ELSE Start(s)
    <2>1. stream' = IF pipeline' = <<>> THEN MarkIdle(s)
                    ELSE IF IsStarted(s) THEN Stir(s, Sends(s) /\ Additions(pipe, q) # <<>>)
                    ELSE Start(s)
      BY Zenon DEF FillWritePipeline
    <2>2. (Sends(s) /\ Additions(pipe, q) # <<>>) \in BOOLEAN
      OBVIOUS
    <2>. QED
      BY <2>1, <2>2, Zenon
  <1>2. MarkIdle(s).state = s.state
    BY DEF MarkIdle, Streams
  <1>3. Stir(s, sent).state = s.state
    BY DEF Stir, Streams
  <1>4. Start(s).state = IF s.state = "Error" THEN "Backoff" ELSE "Starting"
    BY DEF Start, Streams
  <1>. QED
    BY <1>1, <1>2, <1>3, <1>4

\* A restart, for the writes of whoever is in effect then.
LEMMA RestartRestarts ==
    ASSUME PipelineInv', NEW pipe, NEW q, FillWritePipeline(pipe, q, Fresh("Initial"), NoCall)
    PROVE  Lifecycle!Restart
  <1>1. /\ Fresh("Initial") \in Streams /\ Fresh("Initial").state = "Initial"
        /\ ~IsStarted(Fresh("Initial"))
    BY DEF Fresh, Streams, States, IsStarted
  <1>2. stream'.state = IF pipeline' = <<>> THEN "Initial" ELSE "Starting"
    BY <1>1, FilledStream
  <1>. QED
    BY <1>2, NeededAfterwards DEF Lifecycle!Restart, Lifecycle!Due

\* A close with an error, whatever caused it.
LEMMA CloseFails ==
    ASSUME PipelineInv, CloseOnError, UNCHANGED <<queue, user>>,
           stream.state \in {"Starting", "Open"}
    PROVE  Lifecycle!Fail
  <1>1. stream'.state = IF pipeline # <<>> THEN "Backoff" ELSE "Error"
    BY DEF CloseOnError, Start, Fresh
  <1>. QED
    BY <1>1, NeededForPipeline DEF Lifecycle!Fail

\* ImplementsLifecycle: whatever ends the write stream, it is tried again while
\* the queue of the account in effect holds a write, and let go otherwise.
THEOREM WriteStreamLives == Spec => ImplementsLifecycle
  <1>1. Init => Lifecycle!Init
    BY DEF Init, Fresh, Lifecycle!Init
  <1>2. ASSUME PipelineInv, PipelineInv', [Next]_vars
        PROVE  [Lifecycle!Next]_(Lifecycle!vars)
    <2>. USE DEF Lifecycle!Next, Lifecycle!vars
    <2>0. /\ queue[user] # <<>> <=> pipeline # <<>>
          /\ queue'[user'] # <<>> <=> pipeline' # <<>>
          /\ stream \in Streams /\ (pipeline # <<>> => IsStarted(stream))
      BY <1>2, NeededForPipeline, NeededAfterwards
    <2>1. CASE WriteMutations
      <3>1. FillWritePipeline(pipeline, queue'[user], stream, call) /\ user' = user
        BY <2>1 DEF WriteMutations
      <3>2. queue'[user'] # <<>>
        <4>1. queue' = [queue EXCEPT ![user] = Append(queue[user], Len(writes) + 1)]
          BY <2>1 DEF WriteMutations
        <4>2. /\ queue[user] \in Seq(Batches) /\ user \in Owners /\ DOMAIN queue = Owners
          BY <1>2 DEF PipelineInv, TypeOK, Batches
        <4>3. queue'[user'] = Append(queue[user], Len(writes) + 1)
          BY <3>1, <4>1, <4>2
        <4>4. Len(Append(queue[user], Len(writes) + 1)) = Len(queue[user]) + 1
          BY <4>2
        <4>. QED
          BY <4>2, <4>3, <4>4
      <3>3. stream'.state = IF IsStarted(stream) THEN stream.state
                            ELSE IF stream.state = "Error" THEN "Backoff" ELSE "Starting"
        BY <2>0, <3>1, <3>2, FilledStream
      <3>4. CASE queue[user] # <<>>
        BY <2>0, <3>2, <3>3, <3>4
      <3>5. CASE queue[user] = <<>>
        BY <3>2, <3>3, <3>5 DEF Lifecycle!Need, Lifecycle!IsStarted, IsStarted
      <3>. QED
        BY <3>4, <3>5
    <2>2. ASSUME NEW u \in Owners, HandleCredentialChange(u) \/ Relaunch(u)
          PROVE  [Lifecycle!Next]_(Lifecycle!vars)
      <3>1. FillWritePipeline(<<>>, queue[u], Fresh("Initial"), NoCall)
        BY <2>2, Zenon DEF HandleCredentialChange, Relaunch, RestartNetwork
      <3>. QED
        BY <1>2, <3>1, RestartRestarts
    <2>3. CASE ResumeStart
      <3>1. stream.state = "Starting" /\ stream'.state = "Open" /\ UNCHANGED <<queue, user>>
        BY <2>0, <2>3 DEF ResumeStart, Streams
      <3>. QED
        BY <3>1 DEF Lifecycle!Open
    <2>4. CASE ResumeFails
      BY <1>2, <2>4, CloseFails DEF ResumeFails
    <2>5. CASE BackoffElapses
      <3>1. stream.state = "Backoff" /\ UNCHANGED <<queue, user>>
        BY <2>5 DEF BackoffElapses
      <3>2. stream'.state = "Starting"
        BY <2>0, <2>5 DEF BackoffElapses, Start, Streams, States
      <3>. QED
        BY <3>1, <3>2 DEF Lifecycle!Elapse
    <2>6. CASE ReadHandshake
      <3>1. UNCHANGED <<queue, user>>
        BY <2>6 DEF ReadHandshake
      <3>2. stream'.state = stream.state
        BY <2>0, <2>6 DEF ReadHandshake, Stir, Streams
      <3>. QED
        BY <3>1, <3>2
    <2>7. CASE ReadResult
      <3>1. /\ stream.state = "Open" /\ stream.handshake /\ call.replies # <<>>
            /\ FillWritePipeline(Tail(pipeline), queue'[user], stream,
                                 [call EXCEPT !.replies = Tail(call.replies)])
        BY <2>7, Zenon DEF ReadResult
      <3>2. pipeline # <<>>
        BY <1>2, <3>1, StreamIsGood, GoodWithoutFirst DEF PipelineInv, TypeOK, Batches
      <3>3. stream'.state = stream.state
        BY <2>0, <3>1, FilledStream DEF IsStarted
      <3>. QED
        BY <2>0, <3>2, <3>3 DEF Lifecycle!Release
    <2>8. CASE HandleWriteError
      <3>1. FillWritePipeline(Tail(pipeline), queue'[user], Fresh("Initial"), NoCall)
        BY <2>8, Zenon DEF HandleWriteError
      <3>. QED
        BY <1>2, <3>1, RestartRestarts
    <2>9. CASE StreamFails
      BY <1>2, <2>9, CloseFails DEF StreamFails, Finished
    <2>10. CASE IdleTimeout
      <3>1. stream.state = "Open" /\ pipeline = <<>>
        BY <1>2, <2>10 DEF IdleTimeout, PipelineInv, IdleOnlyWhenEmpty
      <3>2. stream'.state = "Initial" /\ UNCHANGED <<queue, user>>
        BY <2>10 DEF IdleTimeout, Fresh
      <3>. QED
        BY <2>0, <3>1, <3>2 DEF Lifecycle!Idle
    <2>11. CASE ServerAccepts \/ ServerRefuses \/ ConnectionLost \/ WriteFailsFirst
      BY <2>11 DEF ServerAccepts, ServerRefuses, ConnectionLost, WriteFailsFirst
    <2>12. CASE UNCHANGED vars
      BY <2>12 DEF vars
    <2>13. ASSUME NEW n \in 1..MaxTrouble, ServerAcceptsLate(n) \/ ServerRefusesLate(n)
           PROVE  [Lifecycle!Next]_(Lifecycle!vars)
      BY <2>13 DEF ServerAcceptsLate, ServerRefusesLate
    <2>. QED
      BY <1>2, <2>1, <2>2, <2>3, <2>4, <2>5, <2>6, <2>7, <2>8, <2>9, <2>10, <2>11, <2>12, <2>13
         DEF Next
  <1>. QED
    BY <1>1, <1>2, PipelineCorrect, PTL DEF Spec, ImplementsLifecycle, Lifecycle!Spec

-----------------------------------------------------------------------------
(* No write waits for nothing.                                             *)

\* The reply to the handshake is on its way, or the call has ended.
HandshakeContinues == stream.state = "Open" /\ ~stream.handshake => Continues

\* FillWritePipeline shakes no hands; a stream it found fresh has no call yet.
LEMMA FillContinues ==
    ASSUME stream \in Streams, HandshakeContinues, NEW pipe, NEW q,
           FillWritePipeline(pipe, q, stream, call)
    PROVE  HandshakeContinues'
  <1>1. CASE stream'.state # "Open" \/ stream'.handshake
    BY <1>1 DEF HandshakeContinues
  <1>2. CASE stream'.state = "Open" /\ ~stream'.handshake
    <2>1. stream.state = "Open"
      BY <1>2, FilledStream
    <2>2. IsStarted(stream)
      BY <2>1 DEF IsStarted
    <2>3. PICK sent \in BOOLEAN :
             stream' = IF pipeline' = <<>> THEN MarkIdle(stream) ELSE Stir(stream, sent)
      <3>1. stream' = IF pipeline' = <<>> THEN MarkIdle(stream)
                      ELSE Stir(stream, Sends(stream) /\ Additions(pipe, q) # <<>>)
        BY <2>2, Zenon DEF FillWritePipeline
      <3>. QED
        BY <3>1, Zenon
    <2>4. stream'.handshake = stream.handshake
      BY <2>3 DEF MarkIdle, Stir, Streams
    <2>5. ~Sends(stream)
      BY <1>2, <2>4 DEF Sends
    <2>6. call' = call
      BY <2>5, Zenon DEF FillWritePipeline
    <2>. QED
      BY <1>2, <2>1, <2>4, <2>6 DEF HandshakeContinues, Continues
  <1>. QED
    BY <1>1, <1>2

\* After a restart the stream has no call.
LEMMA RestartContinues ==
    ASSUME NEW pipe, NEW q, FillWritePipeline(pipe, q, Fresh("Initial"), NoCall)
    PROVE  HandshakeContinues'
  <1>1. Fresh("Initial") \in Streams /\ Fresh("Initial").state = "Initial"
    BY DEF Fresh, Streams, States
  <1>2. stream'.state # "Open"
    BY <1>1, FilledStream
  <1>. QED
    BY <1>2 DEF HandshakeContinues

LEMMA CloseContinues ==
    ASSUME CloseOnError
    PROVE  HandshakeContinues'
  <1>1. stream'.state # "Open"
    BY DEF CloseOnError, Start, Fresh
  <1>. QED
    BY <1>1 DEF HandshakeContinues

LEMMA HandshakeContinuesNext ==
    ASSUME PipelineInv, PipelineInv', HandshakeContinues, [Next]_vars
    PROVE  HandshakeContinues'
  <1>0. stream \in Streams /\ call \in Calls /\ stream' \in Streams
    BY DEF PipelineInv, TypeOK
  <1>1. CASE WriteMutations
    <2>1. FillWritePipeline(pipeline, queue'[user], stream, call)
      BY <1>1 DEF WriteMutations
    <2>. QED
      BY <1>0, <2>1, FillContinues
  <1>2. ASSUME NEW u \in Owners, HandleCredentialChange(u) \/ Relaunch(u)
        PROVE  HandshakeContinues'
    <2>1. FillWritePipeline(<<>>, queue[u], Fresh("Initial"), NoCall)
      BY <1>2, Zenon DEF HandleCredentialChange, Relaunch, RestartNetwork
    <2>. QED
      BY <2>1, RestartContinues
  <1>3. CASE ResumeStart
    <2>1. call' = [NoCall EXCEPT !.requests = <<0>>]
      BY <1>3 DEF ResumeStart
    <2>2. call'.requests # <<>>
      BY <2>1 DEF NoCall
    <2>. QED
      BY <2>2 DEF HandshakeContinues, Continues
  <1>4. CASE ResumeFails \/ StreamFails
    BY <1>4, CloseContinues DEF ResumeFails, StreamFails
  <1>5. CASE BackoffElapses
    <2>1. stream'.state = "Starting"
      BY <1>0, <1>5 DEF BackoffElapses, Start, Streams, States
    <2>. QED
      BY <2>1 DEF HandshakeContinues
  <1>6. CASE ReadHandshake
    <2>1. stream'.handshake
      BY <1>0, <1>6 DEF ReadHandshake, Stir, Streams
    <2>. QED
      BY <2>1 DEF HandshakeContinues
  <1>7. CASE ReadResult
    \* A stream that read a result has shaken hands.
    <2>1. stream.state = "Open" /\ stream.handshake
          /\ FillWritePipeline(Tail(pipeline), queue'[user], stream,
                               [call EXCEPT !.replies = Tail(call.replies)])
      BY <1>7, Zenon DEF ReadResult
    <2>2. IsStarted(stream)
      BY <2>1 DEF IsStarted
    <2>3. PICK sent \in BOOLEAN :
             stream' = IF pipeline' = <<>> THEN MarkIdle(stream) ELSE Stir(stream, sent)
      <3>1. \E new : stream' = IF pipeline' = <<>> THEN MarkIdle(stream)
                               ELSE Stir(stream, Sends(stream) /\ new # <<>>)
        BY <2>1, <2>2, Zenon DEF FillWritePipeline
      <3>. QED
        BY <3>1, Zenon
    <2>4. stream'.handshake
      BY <1>0, <2>1, <2>3 DEF MarkIdle, Stir, Streams
    <2>. QED
      BY <2>4 DEF HandshakeContinues
  <1>8. CASE HandleWriteError
    <2>1. FillWritePipeline(Tail(pipeline), queue'[user], Fresh("Initial"), NoCall)
      BY <1>8, Zenon DEF HandleWriteError
    <2>. QED
      BY <2>1, RestartContinues
  <1>9. CASE IdleTimeout
    <2>1. stream'.state = "Initial"
      BY <1>9 DEF IdleTimeout, Fresh
    <2>. QED
      BY <2>1 DEF HandshakeContinues
  <1>10. CASE ServerAccepts
    <2>1. /\ call' = [call EXCEPT !.requests = Tail(call.requests),
                                  !.replies = Append(call.replies, Head(call.requests))]
          /\ call.requests # <<>>
      BY <1>10, Zenon DEF ServerAccepts, Takes
    <2>2. call.requests \in Seq(Nat) /\ call.replies \in Seq(Nat)
      BY <1>0 DEF Calls
    <2>3. PICK b \in Nat : b = Head(call.requests)
      BY <2>1, <2>2, TailFacts
    <2>r. PICK rest \in Seq(Nat) : rest = Tail(call.requests)
      BY <2>1, <2>2, TailFacts
    <2>o. PICK old \in Seq(Nat) : old = call.replies
      BY <2>2
    <2>a. /\ Append(old, b) \in Seq(Nat) /\ Len(old) \in Nat
          /\ Len(Append(old, b)) = Len(old) + 1
      BY AppendFacts
    <2>n. Len(Append(old, b)) # 0
      BY <2>a
    <2>s. PICK r \in Seq(Nat) : r = Append(old, b) /\ Len(r) # 0
      BY <2>a, <2>n, Zenon
    <2>c. call' = [call EXCEPT !.requests = rest, !.replies = r]
      BY <2>1, <2>3, <2>r, <2>o, <2>s
    <2>e. call'.replies = r
      BY <1>0, <2>c DEF Calls
    <2>4. call'.replies # <<>>
      BY <2>s, <2>e
    <2>. QED
      BY <2>4 DEF HandshakeContinues, Continues
  <1>11. CASE ServerRefuses \/ ConnectionLost \/ WriteFailsFirst
    <2>1. call'.end # "none"
      BY <1>0, <1>11 DEF ServerRefuses, ConnectionLost, WriteFailsFirst, Calls
    <2>. QED
      BY <2>1 DEF HandshakeContinues, Continues
  <1>12. CASE UNCHANGED vars
    BY <1>12 DEF vars, HandshakeContinues, Continues
  <1>13. ASSUME NEW n \in 1..MaxTrouble, ServerAcceptsLate(n) \/ ServerRefusesLate(n)
         PROVE  HandshakeContinues'
    BY <1>13 DEF ServerAcceptsLate, ServerRefusesLate, HandshakeContinues, Continues
  <1>. QED
    BY <1>1, <1>2, <1>3, <1>4, <1>5, <1>6, <1>7, <1>8, <1>9, <1>10, <1>11, <1>12, <1>13 DEF Next

\* A write of the pipeline always has something to come: the token or the end of
\* the backoff of a stream that starts, and on an open one the server's answer, its
\* reply or the end of the call.
THEOREM WritesNeverStall == Spec => []NeverStalls
  <1>1. Init => HandshakeContinues
    BY DEF Init, Fresh, HandshakeContinues
  <1>2. PipelineInv /\ PipelineInv' /\ HandshakeContinues /\ [Next]_vars => HandshakeContinues'
    BY HandshakeContinuesNext
  <1>3. ASSUME PipelineInv, HandshakeContinues
        PROVE  NeverStalls
    <2>1. SUFFICES ASSUME pipeline # <<>>, stream.state = "Open", stream.handshake,
                          call.end = "none", call.replies = <<>>
                   PROVE  call.requests # <<>>
      BY <1>3 DEF NeverStalls, PipelineInv, NeverForgotten, IsStarted, HandshakeContinues, Continues
    <2>2. /\ Len(call.replies) + Len(call.requests) = Len(pipeline)
          /\ pipeline \in Seq(Batches) /\ call.requests \in Seq(Nat)
      BY <1>3, <2>1 DEF PipelineInv, TypeOK, RequestsAreRest, Calls, Batches
    <2>3. Len(pipeline) # 0 /\ Len(call.replies) = 0
      BY <2>1, <2>2
    <2>. QED
      BY <2>2, <2>3
  <1>. QED
    BY <1>1, <1>2, <1>3, PipelineCorrect, PTL DEF Spec

-----------------------------------------------------------------------------
(* What the outbox promises holds of the pipeline                          *)

\* The steps of the outbox settle in order and leave what is settled alone.
Stays(b) ==
    /\ b \in DOMAIN writes'
    /\ writes'[b].owner = writes[b].owner
    /\ writes'[b].outcome = writes[b].outcome
    /\ writes'[b].stamp # writes[b].stamp => writes'[b].late

LEMMA OutboxStep ==
    ASSUME writes \in Seq(Writes), [Box!Next]_(Box!vars)
    PROVE  /\ Box!SettledInOrder => Box!SettledInOrder'
           /\ \A b \in DOMAIN writes : Box!Settled(b) => Stays(b)
  <1>. DEFINE n == Len(writes)
  <1>1. n \in Nat /\ DOMAIN writes = 1 .. n
    OBVIOUS
  <1>2. ASSUME NEW o \in Owners, Box!Write(o)
        PROVE  /\ Box!SettledInOrder => Box!SettledInOrder'
               /\ \A b \in 1 .. n : Stays(b)
    <2>1. /\ Len(writes') = n + 1 /\ DOMAIN writes' = 1 .. (n + 1)
          /\ \A b \in 1 .. n : writes'[b] = writes[b]
          /\ writes'[n + 1].outcome = "open"
      BY <1>2 DEF Box!Write
    <2>2. ASSUME Box!SettledInOrder, NEW b \in 1 .. (n + 1), writes'[b].outcome # "open",
                 NEW a \in 1 .. (b - 1), writes'[a].owner = writes'[b].owner
          PROVE  writes'[a].outcome # "open"
      <3>1. b \in 1 .. n /\ a \in 1 .. n
        BY <1>1, <2>1, <2>2
      <3>. QED
        BY <1>1, <2>1, <2>2, <3>1 DEF Box!SettledInOrder, Box!Settled, Box!Before
    <2>3. \A b \in 1 .. n : b \in DOMAIN writes'
      BY <1>1, <2>1
    <2>. QED
      BY <2>1, <2>2, <2>3 DEF Box!SettledInOrder, Box!Settled, Box!Before, Stays
  <1>3. ASSUME NEW k \in 1 .. n, NEW r, writes' = [writes EXCEPT ![k] = r],
               r.owner = writes[k].owner,
               Box!Settled(k) => r.outcome = writes[k].outcome
                                 /\ (r.stamp # writes[k].stamp => r.late),
               ~Box!Settled(k) /\ r.outcome # "open" =>
                    \A a \in Box!Before(k) : Box!Settled(a)
        PROVE  /\ Box!SettledInOrder => Box!SettledInOrder'
               /\ \A b \in 1 .. n : Box!Settled(b) => Stays(b)
    <2>1. DOMAIN writes' = 1 .. n /\ writes'[k] = r
          /\ \A b \in 1 .. n : b # k => writes'[b] = writes[b]
      BY <1>1, <1>3
    <2>2. \A b \in 1 .. n : writes'[b].owner = writes[b].owner
                            /\ (writes[b].outcome # "open" => writes'[b].outcome # "open")
      BY <1>3, <2>1 DEF Box!Settled
    <2>3. ASSUME Box!SettledInOrder, NEW b \in 1 .. n, writes'[b].outcome # "open",
                 NEW a \in 1 .. (b - 1), writes'[a].owner = writes'[b].owner
          PROVE  writes'[a].outcome # "open"
      <3>1. a \in 1 .. n /\ writes[a].owner = writes[b].owner
        BY <1>1, <2>2, <2>3
      <3>2. writes[a].outcome # "open"
        <4>1. CASE b = k
          BY <1>1, <1>3, <2>1, <2>3, <3>1, <4>1 DEF Box!SettledInOrder, Box!Settled, Box!Before
        <4>2. CASE b # k
          BY <1>1, <2>1, <2>3, <3>1, <4>2 DEF Box!SettledInOrder, Box!Settled, Box!Before
        <4>. QED
          BY <4>1, <4>2
      <3>. QED
        BY <2>2, <3>1, <3>2
    <2>. QED
      BY <1>3, <2>1, <2>3 DEF Box!SettledInOrder, Box!Settled, Box!Before, Stays
  <1>4. ASSUME NEW k \in 1 .. n, \/ Box!Apply(k, TRUE) \/ Box!Apply(k, FALSE)
                                 \/ Box!Refuse(k) \/ Box!Succeed(k) \/ Box!Fail(k)
        PROVE  \E r : /\ writes' = [writes EXCEPT ![k] = r]
                      /\ r.owner = writes[k].owner
                      /\ Box!Settled(k) => r.outcome = writes[k].outcome
                                           /\ (r.stamp # writes[k].stamp => r.late)
                      /\ ~Box!Settled(k) /\ r.outcome # "open" =>
                            \A a \in Box!Before(k) : Box!Settled(a)
    <2>1. writes[k] \in Writes
      BY <1>1
    <2>2. ASSUME NEW late \in BOOLEAN, Box!Apply(k, late)
          PROVE  \E r : /\ writes' = [writes EXCEPT ![k] = r]
                        /\ r.owner = writes[k].owner
                        /\ Box!Settled(k) => r.outcome = writes[k].outcome
                                             /\ (r.stamp # writes[k].stamp => r.late)
                        /\ ~Box!Settled(k) /\ r.outcome # "open" =>
                              \A a \in Box!Before(k) : Box!Settled(a)
      <3>. WITNESS [writes[k] EXCEPT !.stamp = clock + 1, !.late = late]
      <3>. QED
        BY <2>1, <2>2 DEF Box!Apply, Box!Settled, Writes
    <2>3. CASE Box!Refuse(k)
      <3>. WITNESS [writes[k] EXCEPT !.refused = TRUE]
      <3>. QED
        BY <2>1, <2>3 DEF Box!Refuse, Box!Settled, Writes
    <2>4. CASE Box!Succeed(k)
      <3>. WITNESS [writes[k] EXCEPT !.outcome = "ok"]
      <3>. QED
        BY <2>1, <2>4 DEF Box!Succeed, Box!Settled, Writes
    <2>5. CASE Box!Fail(k)
      <3>. WITNESS [writes[k] EXCEPT !.outcome = "failed"]
      <3>. QED
        BY <2>1, <2>5 DEF Box!Fail, Box!Settled, Writes
    <2>. QED
      BY <1>4, <2>2, <2>3, <2>4, <2>5
  <1>5. CASE UNCHANGED Box!vars
    BY <1>5 DEF Box!vars, Box!SettledInOrder, Box!Settled, Box!Before, Stays
  <1>. QED
    BY <1>1, <1>2, <1>3, <1>4, <1>5 DEF Box!Next

\* The writes of an account are settled in the order they were made, through
\* lost streams, changes of account and ends of the process.
THEOREM SettledAsWritten == Spec => []Box!SettledInOrder
  <1>1. Box!Init => Box!SettledInOrder
    BY DEF Box!Init, Box!SettledInOrder
  <1>2. TypeOK => writes \in Seq(Writes)
    BY DEF TypeOK
  <1>3. Box!SettledInOrder /\ TypeOK /\ [Box!Next]_(Box!vars) => Box!SettledInOrder'
    BY <1>2, OutboxStep
  <1>. QED
    BY <1>1, <1>3, PipelineIsOutbox, PipelineTypes, PTL DEF ImplementsOutbox, Box!Spec

\* A settled write keeps its outcome, and the client does not make the server
\* apply it again: only a request it had given up before can.
THEOREM SettledStays == Spec => Box!SettledForGood
  <1>1. TypeOK /\ [Box!Next]_(Box!vars) =>
            [\A b \in DOMAIN writes : Box!Settled(b) =>
                /\ b \in DOMAIN writes'
                /\ writes'[b].owner = writes[b].owner
                /\ writes'[b].outcome = writes[b].outcome
                /\ writes'[b].stamp # writes[b].stamp => writes'[b].late]_(Box!vars)
    BY OutboxStep DEF TypeOK, Stays
  <1>. QED
    BY <1>1, PipelineIsOutbox, PipelineTypes, PTL
       DEF ImplementsOutbox, Box!Spec, Box!SettledForGood

=============================================================================
