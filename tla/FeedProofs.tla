----------------------------- MODULE FeedProofs -----------------------------
(***************************************************************************)
(* Proofs about Feed, for any documents, any number of view models, of     *)
(* listeners and of changes.                                               *)
(***************************************************************************)
EXTENDS Feed, SequenceTheorems, FiniteSetTheorems, TLAPS

-----------------------------------------------------------------------------
(* What Raised adds to the queues                                          *)

LEMMA CallbackTypes ==
    /\ \A D \in SUBSET Docs, n \in Nat : Snapshot(D, n) \in Callbacks
    /\ version \in Nat => Failure \in Callbacks
  BY DEF Snapshot, Failure, Callbacks

\* A queue keeps what it had and gets the event behind it, once at least if m
\* has a listener in S.
LEMMA RaisedFacts ==
    ASSUME TypeOK, NEW S \in SUBSET Listeners, NEW event \in Callbacks, NEW m \in Models
    PROVE  LET q == mainQueue[m]
               r == Raised(S, event)[m]
           IN  /\ r \in Seq(Callbacks)
               /\ Len(q) \in Nat /\ Len(r) \in Nat /\ Len(q) <= Len(r)
               /\ \A i \in 1 .. Len(q) : r[i] = q[i]
               /\ \A i \in 1 .. Len(r) : i > Len(q) => r[i] = event
               /\ (\E l \in S : listeners[l].model = m) => Len(q) < Len(r)
  <1>. DEFINE called == {l \in S : listeners[l].model = m}
              k == Cardinality(called)
              copies == [i \in 1 .. k |-> event]
              q == mainQueue[m]
  <1>1. IsFiniteSet(called)
    <2>1. called \in SUBSET Listeners
      OBVIOUS
    <2>. QED
      BY <2>1, FS_Subset, FeedAssumption
  <1>2. k \in Nat
    BY <1>1, FS_CardinalityType
  <1>3. called # {} => k > 0
    <2>1. k = 0 <=> called = {}
      BY <1>1, FS_EmptySet
    <2>. QED
      BY <1>2, <2>1
  <1>. HIDE DEF k
  <1>4. copies \in Seq(Callbacks) /\ Len(copies) = k
    BY <1>2
  <1>5. \A i \in 1 .. k : copies[i] = event
    OBVIOUS
  <1>6. q \in Seq(Callbacks)
    BY DEF TypeOK
  <1>. HIDE DEF copies
  <1>7. Raised(S, event)[m] = q \o copies
    BY DEF Raised, copies, k
  <1>8. /\ q \o copies \in Seq(Callbacks)
        /\ Len(q \o copies) = Len(q) + k
        /\ \A i \in 1 .. Len(q) + k :
              (q \o copies)[i] = IF i <= Len(q) THEN q[i] ELSE copies[i - Len(q)]
    BY <1>4, <1>6, ConcatProperties
  <1>9. Len(q) \in Nat
    BY <1>6, LenProperties
  <1>10. \A i \in 1 .. Len(q) : (q \o copies)[i] = q[i]
    BY <1>2, <1>8, <1>9
  <1>11. \A i \in 1 .. Len(q) + k : i > Len(q) => (q \o copies)[i] = event
    <2>. SUFFICES ASSUME NEW i \in 1 .. Len(q) + k, i > Len(q)
                  PROVE  (q \o copies)[i] = event
      OBVIOUS
    <2>1. i - Len(q) \in 1 .. k
      BY <1>2, <1>9
    <2>. QED
      BY <1>2, <1>5, <1>8, <1>9, <2>1
  <1>12. (\E l \in S : listeners[l].model = m) => Len(q) < Len(q) + k
    BY <1>2, <1>3, <1>9
  <1>. QED
    BY <1>2, <1>7, <1>8, <1>9, <1>10, <1>11, <1>12

-----------------------------------------------------------------------------
(* A step of the worker queue                                              *)

\* The listeners in S are called with an event of version n, which is the
\* current one or, when the documents change, the next.
LEMMA RaisingKeeps ==
    ASSUME FeedInv, NEW S \in SUBSET Listeners, NEW event \in Callbacks,
           mainQueue' = Raised(S, event), UNCHANGED <<foodEvents, shown>>,
           event.version = version', ~event.error => event.docs = docs',
           \/ version' = version /\ docs' = docs
           \/ version' = version + 1
    PROVE  /\ mainQueue' \in [Models -> Seq(Callbacks)]
           /\ \A m \in Models : QueueOrdered(m)' /\ QueueTrue(m)'
           /\ \A m \in Models :
                 \/ version' = version /\ Served(m)
                 \/ ~event.error /\ \E l \in S : listeners[l].model = m
                 => Served(m)'
  <1>0. TypeOK /\ version \in Nat /\ version' \in Nat /\ version <= version'
    BY DEF FeedInv, TypeOK
  <1>1. mainQueue' \in [Models -> Seq(Callbacks)]
    <2>1. \A m \in Models : Raised(S, event)[m] \in Seq(Callbacks)
      BY <1>0, RaisedFacts
    <2>. QED
      BY <2>1 DEF Raised
  <1>2. ASSUME NEW m \in Models
        PROVE  /\ QueueOrdered(m)'
               /\ QueueTrue(m)'
               /\ version' = version /\ Served(m) => Served(m)'
               /\ ~event.error /\ (\E l \in S : listeners[l].model = m) => Served(m)'
    <2>. DEFINE q == mainQueue[m]
                r == mainQueue'[m]
    <2>1. /\ Len(q) \in Nat /\ Len(r) \in Nat /\ Len(q) <= Len(r)
          /\ \A i \in 1 .. Len(q) : r[i] = q[i]
          /\ \A i \in 1 .. Len(r) : i > Len(q) => r[i] = event
          /\ (\E l \in S : listeners[l].model = m) => Len(q) < Len(r)
      <3>1. r = Raised(S, event)[m]
        OBVIOUS
      <3>2. TypeOK
        BY <1>0
      <3>. HIDE DEF q, r
      <3>3. LET p == mainQueue[m]
                s == Raised(S, event)[m]
            IN  /\ s \in Seq(Callbacks)
                /\ Len(p) \in Nat /\ Len(s) \in Nat /\ Len(p) <= Len(s)
                /\ \A i \in 1 .. Len(p) : s[i] = p[i]
                /\ \A i \in 1 .. Len(s) : i > Len(p) => s[i] = event
                /\ (\E l \in S : listeners[l].model = m) => Len(p) < Len(s)
        BY <3>2, RaisedFacts
      <3>. QED
        BY <3>1, <3>3 DEF q
    <2>2. /\ shown[m] \in Nat /\ shown[m] <= version
          /\ \A i \in 1 .. Len(q) : shown[m] <= q[i].version /\ q[i].version <= version
          /\ \A i, j \in 1 .. Len(q) : i <= j => q[i].version <= q[j].version
          /\ shown[m] = version => foodEvents[m] = docs \cap Decodable
          /\ \A i \in 1 .. Len(q) :
                ~q[i].error /\ q[i].version = version => q[i].docs = docs
      BY DEF FeedInv, TypeOK, QueueOrdered, QueueTrue
    <2>3. \A i \in 1 .. Len(q) : q[i].version \in Nat
      <3>1. q \in Seq(Callbacks)
        BY <1>0 DEF TypeOK
      <3>2. \A i \in 1 .. Len(q) : q[i] \in Callbacks
        BY <3>1
      <3>. QED
        BY <3>2 DEF Callbacks
    <2>. HIDE DEF q, r
    <2>4. \A i \in 1 .. Len(r) :
             \/ i \in 1 .. Len(q) /\ r[i] = q[i]
             \/ i > Len(q) /\ r[i] = event
      BY <2>1
    <2>5. shown[m] <= version'
      BY <1>0, <2>2
    <2>6. \A i \in 1 .. Len(r) : shown[m] <= r[i].version /\ r[i].version <= version'
      BY <1>0, <2>2, <2>3, <2>4, <2>5
    <2>7. \A i, j \in 1 .. Len(r) : i <= j => r[i].version <= r[j].version
      <3>. SUFFICES ASSUME NEW i \in 1 .. Len(r), NEW j \in 1 .. Len(r), i <= j
                    PROVE  r[i].version <= r[j].version
        OBVIOUS
      <3>1. CASE j \in 1 .. Len(q)
        <4>1. i \in 1 .. Len(q)
          BY <2>1, <3>1
        <4>2. r[i] = q[i] /\ r[j] = q[j]
          BY <2>1, <3>1, <4>1
        <4>. QED
          BY <2>2, <3>1, <4>1, <4>2
      <3>2. CASE j > Len(q)
        <4>1. r[j].version = version'
          BY <2>1, <3>2
        <4>. QED
          BY <2>6, <4>1
      <3>. QED
        BY <2>1, <3>1, <3>2
    <2>8. shown[m] = version' => foodEvents[m] = docs' \cap Decodable
      BY <1>0, <2>2
    <2>9. \A i \in 1 .. Len(r) :
             ~r[i].error /\ r[i].version = version' => r[i].docs = docs'
      BY <1>0, <2>2, <2>3, <2>4
    <2>10. ASSUME version' = version, Served(m)
           PROVE  Served(m)'
      <3>1. CASE shown[m] = version
        BY <3>1, <2>10 DEF Served
      <3>2. CASE \E i \in 1 .. Len(q) : ~q[i].error /\ q[i].version = version
        <4>1. PICK i \in 1 .. Len(q) : ~q[i].error /\ q[i].version = version
          BY <3>2
        <4>2. i \in 1 .. Len(r) /\ ~r[i].error /\ r[i].version = version'
          BY <2>1, <2>10, <4>1
        <4>. QED
          BY <4>2 DEF Served, r
      <3>. QED
        BY <2>10, <3>1, <3>2 DEF Served, q
    <2>11. ASSUME ~event.error, \E l \in S : listeners[l].model = m
           PROVE  Served(m)'
      <3>1. Len(r) \in 1 .. Len(r) /\ r[Len(r)] = event
        BY <2>1, <2>11
      <3>. QED
        BY <2>11, <3>1 DEF Served, r
    <2>. QED
      BY <2>5, <2>6, <2>7, <2>8, <2>9, <2>10, <2>11 DEF QueueOrdered, QueueTrue, r
  <1>. QED
    BY <1>1, <1>2

-----------------------------------------------------------------------------
(* The inductive invariant                                                 *)

\* A request touches no queue and no list.
LEMMA RequestKeeps ==
    ASSUME FeedInv, NEW m \in Models, NEW l \in Listeners,
           FoodEventViewModel(m, l) \/ getEvents(m, l)
    PROVE  FeedInv'
  <1>1. /\ TypeOK /\ Requested(l, m)
        /\ UNCHANGED <<docs, version, online, synced, mainQueue, foodEvents, shown>>
    BY DEF FeedInv, FoodEventViewModel, getEvents
  <1>2. TypeOK'
    BY <1>1 DEF TypeOK, Requested, ListenerStates
  <1>3. \A n \in Models : QueueOrdered(n)' /\ QueueTrue(n)'
    BY <1>1 DEF FeedInv, QueueOrdered, QueueTrue
  <1>4. ListenersServed'
    <2>1. ASSUME NEW k \in Listeners
          PROVE  /\ listeners'[k].state # "unused" => listeners'[k].model \in Models
                 /\ listeners'[k].state = "raised" =>
                        listeners'[k] = listeners[k]
      BY <1>1 DEF TypeOK, Requested, FeedInv, ListenersServed
    <2>2. \A n : Served(n) => Served(n)'
      BY <1>1 DEF Served
    <2>. QED
      BY <2>1, <2>2 DEF FeedInv, ListenersServed
  <1>. QED
    BY <1>1, <1>2, <1>3, <1>4 DEF FeedInv

\* The callback takes the oldest event: the list moves to its version, and what
\* still waits is no older.
LEMMA CallbackKeeps ==
    ASSUME FeedInv, NEW m \in Models, Callback(m)
    PROVE  FeedInv' /\ \A n \in Models : shown'[n] >= shown[n]
  <1>. DEFINE q == mainQueue[m]
              event == Head(q)
  <1>1. /\ TypeOK /\ version \in Nat
        /\ q \in Seq(Callbacks) /\ q # << >>
        /\ UNCHANGED <<docs, version, online, synced, listeners>>
        /\ mainQueue' = [mainQueue EXCEPT ![m] = Tail(@)]
        /\ IF event.error
           THEN UNCHANGED <<foodEvents, shown>>
           ELSE /\ foodEvents' = [foodEvents EXCEPT ![m] = event.docs \cap Decodable]
                /\ shown' = [shown EXCEPT ![m] = event.version]
    BY DEF FeedInv, TypeOK, Callback
  <1>2. /\ event = q[1] /\ event \in Callbacks
        /\ Tail(q) \in Seq(Callbacks)
        /\ Len(q) \in Nat /\ Len(q) >= 1
        /\ Len(Tail(q)) = Len(q) - 1
        /\ \A i \in 1 .. Len(Tail(q)) : Tail(q)[i] = q[i + 1]
    BY <1>1, HeadTailProperties, LenProperties
  <1>3. /\ shown[m] \in Nat /\ shown[m] <= version
        /\ \A i \in 1 .. Len(q) : shown[m] <= q[i].version /\ q[i].version <= version
        /\ \A i, j \in 1 .. Len(q) : i <= j => q[i].version <= q[j].version
        /\ shown[m] = version => foodEvents[m] = docs \cap Decodable
        /\ \A i \in 1 .. Len(q) :
              ~q[i].error /\ q[i].version = version => q[i].docs = docs
    BY DEF FeedInv, TypeOK, QueueOrdered, QueueTrue
  <1>4. event.version \in Nat /\ event.docs \in SUBSET Docs /\ event.error \in BOOLEAN
    BY <1>2 DEF Callbacks
  <1>5. /\ mainQueue'[m] = Tail(q)
        /\ shown'[m] = IF event.error THEN shown[m] ELSE event.version
        /\ foodEvents'[m] = IF event.error THEN foodEvents[m]
                                           ELSE event.docs \cap Decodable
        /\ \A n \in Models : n # m => /\ mainQueue'[n] = mainQueue[n]
                                      /\ shown'[n] = shown[n]
                                      /\ foodEvents'[n] = foodEvents[n]
    BY <1>1 DEF TypeOK
  <1>6. TypeOK'
    <2>1. mainQueue' \in [Models -> Seq(Callbacks)]
      BY <1>1, <1>2 DEF TypeOK
    <2>2. foodEvents' \in [Models -> SUBSET Decodable] /\ shown' \in [Models -> Nat]
      BY <1>1, <1>4 DEF TypeOK
    <2>. QED
      BY <1>1, <2>1, <2>2 DEF TypeOK
  <1>. HIDE DEF event, q
  <1>7. 1 \in 1 .. Len(q) /\ shown[m] <= event.version /\ event.version <= version
    <2>1. 1 \in 1 .. Len(q)
      BY <1>2
    <2>. QED
      BY <1>2, <1>3, <2>1
  <1>8. \A n \in Models : shown'[n] >= shown[n]
    <2>1. \A n \in Models : shown[n] \in Nat
      BY <1>1 DEF TypeOK
    <2>2. shown'[m] >= shown[m]
      BY <1>3, <1>4, <1>5, <1>7
    <2>. QED
      BY <1>5, <2>1, <2>2
  <1>9. \A i \in 1 .. Len(Tail(q)) : i + 1 \in 1 .. Len(q)
    BY <1>2
  <1>10. \A i \in 1 .. Len(q) : q[i].version \in Nat
    <2>1. \A i \in 1 .. Len(q) : q[i] \in Callbacks
      BY <1>1
    <2>. QED
      BY <2>1 DEF Callbacks
  <1>11. QueueOrdered(m)'
    <2>1. shown'[m] <= version
      BY <1>3, <1>5, <1>7
    <2>2. ASSUME NEW i \in 1 .. Len(Tail(q))
          PROVE  shown'[m] <= Tail(q)[i].version /\ Tail(q)[i].version <= version
      <3>1. Tail(q)[i] = q[i + 1] /\ i + 1 \in 1 .. Len(q) /\ 1 <= i + 1
        BY <1>2, <1>9
      <3>2. q[1].version <= q[i + 1].version
        BY <1>3, <1>7, <3>1
      <3>. QED
        BY <1>2, <1>3, <1>5, <3>1, <3>2
    <2>3. ASSUME NEW i \in 1 .. Len(Tail(q)), NEW j \in 1 .. Len(Tail(q)), i <= j
          PROVE  Tail(q)[i].version <= Tail(q)[j].version
      <3>1. i + 1 \in 1 .. Len(q) /\ j + 1 \in 1 .. Len(q) /\ i + 1 <= j + 1
        BY <1>9, <2>3
      <3>. QED
        BY <1>2, <1>3, <3>1
    <2>. QED
      BY <1>1, <1>5, <2>1, <2>2, <2>3 DEF QueueOrdered
  <1>12. QueueTrue(m)'
    <2>1. shown'[m] = version => foodEvents'[m] = docs \cap Decodable
      BY <1>2, <1>3, <1>5, <1>7
    <2>2. ASSUME NEW i \in 1 .. Len(Tail(q)),
                 ~Tail(q)[i].error, Tail(q)[i].version = version
          PROVE  Tail(q)[i].docs = docs
      BY <1>2, <1>3, <1>9, <2>2
    <2>. QED
      BY <1>1, <1>5, <2>1, <2>2 DEF QueueTrue
  <1>13. ASSUME NEW n \in Models, n # m
         PROVE  QueueOrdered(n)' /\ QueueTrue(n)' /\ (Served(n) => Served(n)')
    BY <1>1, <1>5, <1>13 DEF FeedInv, QueueOrdered, QueueTrue, Served
  <1>14. Served(m) => Served(m)'
    <2>1. CASE shown[m] = version
      <3>1. shown'[m] = version
        BY <1>1, <1>4, <1>5, <1>7, <2>1
      <3>. QED
        BY <1>1, <3>1 DEF Served
    <2>2. CASE \E i \in 1 .. Len(q) : ~q[i].error /\ q[i].version = version
      <3>1. PICK i \in 1 .. Len(q) : ~q[i].error /\ q[i].version = version
        BY <2>2
      <3>2. CASE i = 1
        <4>1. shown'[m] = version
          BY <1>2, <1>5, <3>1, <3>2
        <4>. QED
          BY <1>1, <4>1 DEF Served
      <3>3. CASE i # 1
        <4>1. i - 1 \in 1 .. Len(Tail(q)) /\ (i - 1) + 1 = i
          BY <1>2, <3>1, <3>3
        <4>2. Tail(q)[i - 1] = q[i]
          BY <1>2, <4>1
        <4>. QED
          BY <1>1, <1>5, <3>1, <4>1, <4>2, ZenonT(60) DEF Served
      <3>. QED
        BY <3>2, <3>3
    <2>. QED
      BY <2>1, <2>2 DEF Served, q
  <1>15. ListenersServed'
    BY <1>1, <1>13, <1>14 DEF FeedInv, ListenersServed
  <1>. QED
    BY <1>1, <1>6, <1>8, <1>11, <1>12, <1>13, <1>15 DEF FeedInv

\* What the steps of the worker queue have in common: a listener that counts as
\* raised afterwards has just been called with what is stored, or it was before
\* and nothing has changed.
LEMMA WorkerKeeps ==
    ASSUME FeedInv, NEW S \in SUBSET Listeners, NEW event \in Callbacks,
           mainQueue' = Raised(S, event), UNCHANGED <<foodEvents, shown>>,
           event.version = version', ~event.error => event.docs = docs',
           \/ version' = version /\ docs' = docs
           \/ version' = version + 1,
           docs' \in SUBSET Docs, online' \in OnlineStates, synced' \in BOOLEAN,
           listeners' \in [Listeners -> ListenerStates],
           \A l \in Listeners :
                /\ listeners'[l].model = listeners[l].model
                /\ listeners'[l].state # "unused" => listeners[l].state # "unused"
                /\ listeners'[l].state = "raised" =>
                        \/ version' = version /\ listeners[l].state = "raised"
                        \/ ~event.error /\ l \in S
    PROVE  FeedInv' /\ \A m \in Models : shown'[m] >= shown[m]
  <1>1. /\ mainQueue' \in [Models -> Seq(Callbacks)]
        /\ \A m \in Models : QueueOrdered(m)' /\ QueueTrue(m)'
        /\ \A m \in Models :
              \/ version' = version /\ Served(m)
              \/ ~event.error /\ \E l \in S : listeners[l].model = m
              => Served(m)'
    BY RaisingKeeps
  <1>2. TypeOK' /\ version' >= 1
    BY <1>1 DEF FeedInv, TypeOK
  <1>3. ListenersServed'
    <2>. SUFFICES ASSUME NEW l \in Listeners
                  PROVE  /\ listeners'[l].state # "unused" => listeners'[l].model \in Models
                         /\ listeners'[l].state = "raised" => Served(listeners[l].model)'
      BY DEF ListenersServed, Served
    <2>1. listeners'[l].state # "unused" => listeners[l].model \in Models
      BY DEF FeedInv, ListenersServed
    <2>2. ASSUME listeners'[l].state = "raised"
          PROVE  Served(listeners[l].model)'
      <3>. DEFINE m == listeners[l].model
      <3>1. m \in Models
        BY <2>1, <2>2
      <3>2. CASE version' = version /\ listeners[l].state = "raised"
        <4>1. Served(m)
          BY <3>2 DEF FeedInv, ListenersServed
        <4>. QED
          BY <1>1, <3>1, <3>2, <4>1
      <3>3. CASE ~event.error /\ l \in S
        BY <1>1, <3>1, <3>3
      <3>. QED
        BY <2>2, <3>2, <3>3
    <2>. QED
      BY <2>1, <2>2
  <1>4. \A m \in Models : shown'[m] >= shown[m]
    BY DEF FeedInv, TypeOK
  <1>. QED
    BY <1>1, <1>2, <1>3, <1>4 DEF FeedInv

LEMMA AddKeeps ==
    ASSUME FeedInv, NEW k \in Listeners, AddQueryListener(k)
    PROVE  FeedInv' /\ \A m \in Models : shown'[m] >= shown[m]
  <1>. DEFINE isSynced == Listening /\ synced
              raises == ShouldRaiseInitialEvent(docs, isSynced, online)
              S == IF raises THEN {k} ELSE {}
              event == Snapshot(docs, version)
  <1>1. /\ listeners[k].state = "requested"
        /\ synced' = isSynced
        /\ listeners' = [listeners EXCEPT ![k].state = IF raises THEN "raised" ELSE "waiting"]
        /\ mainQueue' = Raised(S, event)
        /\ UNCHANGED <<docs, version, online, foodEvents, shown>>
    BY DEF AddQueryListener
  <1>2. TypeOK
    BY DEF FeedInv
  <1>3. event \in Callbacks /\ event.version = version' /\ event.docs = docs'
    BY <1>1, <1>2, CallbackTypes DEF TypeOK, Snapshot
  <1>4. S \in SUBSET Listeners
    OBVIOUS
  <1>5. synced' \in BOOLEAN
    BY <1>1, <1>2 DEF TypeOK, Listening
  <1>6. raises => k \in S
    OBVIOUS
  <1>7. raises \in BOOLEAN
    BY <1>2 DEF ShouldRaiseInitialEvent, TypeOK, Listening
  <1>8. ~event.error
    BY DEF Snapshot
  <1>. HIDE DEF raises, S, event, isSynced
  <1>9. listeners' \in [Listeners -> ListenerStates]
    BY <1>1, <1>2, <1>7 DEF TypeOK, ListenerStates
  <1>10. \A l \in Listeners :
            /\ listeners'[l].model = listeners[l].model
            /\ listeners'[l].state # "unused" => listeners[l].state # "unused"
            /\ listeners'[l].state = "raised" =>
                    \/ version' = version /\ listeners[l].state = "raised"
                    \/ ~event.error /\ l \in S
    BY <1>1, <1>2, <1>6, <1>8 DEF TypeOK, ListenerStates
  <1>11. docs' \in SUBSET Docs /\ online' \in OnlineStates
    BY <1>1, <1>2 DEF TypeOK
  <1>. QED
    BY <1>1, <1>3, <1>4, <1>5, <1>9, <1>10, <1>11, WorkerKeeps

LEMMA ViewSnapshotsKeep ==
    ASSUME FeedInv, NEW D \in SUBSET Docs, NEW isSynced \in BOOLEAN,
           OnViewSnapshots(D, isSynced)
    PROVE  FeedInv' /\ \A m \in Models : shown'[m] >= shown[m]
  <1>. DEFINE waiting == {l \in Listeners : listeners[l].state = "waiting"}
              raised == {l \in Listeners : listeners[l].state = "raised"}
              initial == IF ShouldRaiseInitialEvent(D, isSynced, online) THEN waiting ELSE {}
              S == IF D = docs THEN initial ELSE initial \cup raised
              n == IF D = docs THEN version ELSE version + 1
              event == Snapshot(D, n)
  <1>1. /\ docs' = D
        /\ version' = n
        /\ synced' = isSynced
        /\ listeners' = [l \in Listeners |->
                IF l \in initial THEN [listeners[l] EXCEPT !.state = "raised"] ELSE listeners[l]]
        /\ mainQueue' = Raised(S, event)
        /\ UNCHANGED <<online, foodEvents, shown>>
    BY DEF OnViewSnapshots
  <1>2. TypeOK /\ n \in Nat
    BY DEF FeedInv, TypeOK
  <1>3. event \in Callbacks /\ event.version = version' /\ event.docs = docs' /\ ~event.error
    BY <1>1, <1>2, CallbackTypes DEF Snapshot
  <1>4. S \in SUBSET Listeners /\ initial \subseteq S /\ initial \subseteq waiting
    OBVIOUS
  <1>5. \/ version' = version /\ docs' = docs
        \/ version' = version + 1 /\ raised \subseteq S
    BY <1>1
  <1>6. \A l \in Listeners : l \in raised <=> listeners[l].state = "raised"
    OBVIOUS
  <1>7. \A l \in initial : listeners[l].state = "waiting"
    BY <1>4
  <1>. HIDE DEF initial, raised, S, event, n
  <1>8. listeners' \in [Listeners -> ListenerStates]
    BY <1>1, <1>2 DEF TypeOK, ListenerStates
  <1>9. \A l \in Listeners :
            /\ listeners'[l].model = listeners[l].model
            /\ listeners'[l].state # "unused" => listeners[l].state # "unused"
            /\ listeners'[l].state = "raised" =>
                    \/ version' = version /\ listeners[l].state = "raised"
                    \/ ~event.error /\ l \in S
    <2>. SUFFICES ASSUME NEW l \in Listeners
                  PROVE  /\ listeners'[l].model = listeners[l].model
                         /\ listeners'[l].state # "unused" => listeners[l].state # "unused"
                         /\ listeners'[l].state = "raised" =>
                                \/ version' = version /\ listeners[l].state = "raised"
                                \/ ~event.error /\ l \in S
      OBVIOUS
    <2>1. CASE l \in initial
      BY <1>1, <1>2, <1>3, <1>4, <1>7, <2>1 DEF TypeOK, ListenerStates
    <2>2. CASE l \notin initial
      BY <1>1, <1>3, <1>5, <1>6, <2>2
    <2>. QED
      BY <2>1, <2>2
  <1>10. docs' \in SUBSET Docs /\ online' \in OnlineStates /\ synced' \in BOOLEAN
    BY <1>1, <1>2 DEF TypeOK
  <1>11. \/ version' = version /\ docs' = docs
         \/ version' = version + 1
    BY <1>5
  <1>. QED
    BY <1>1, <1>3, <1>4, <1>8, <1>9, <1>10, <1>11, WorkerKeeps

LEMMA OnlineStateKeeps ==
    ASSUME FeedInv, NEW state \in OnlineStates, HandleOnlineStateChange(state)
    PROVE  FeedInv' /\ \A m \in Models : shown'[m] >= shown[m]
  <1>. DEFINE S == IF state = "offline"
                   THEN {l \in Listeners : listeners[l].state = "waiting"} ELSE {}
              event == Snapshot(docs, version)
  <1>1. /\ online' = state
        /\ synced' = (synced /\ state # "offline")
        /\ listeners' = [l \in Listeners |->
                IF l \in S THEN [listeners[l] EXCEPT !.state = "raised"] ELSE listeners[l]]
        /\ mainQueue' = Raised(S, event)
        /\ UNCHANGED <<docs, version, foodEvents, shown>>
    BY DEF HandleOnlineStateChange
  <1>2. TypeOK
    BY DEF FeedInv
  <1>3. event \in Callbacks /\ event.version = version' /\ event.docs = docs' /\ ~event.error
    BY <1>1, <1>2, CallbackTypes DEF TypeOK, Snapshot
  <1>4. S \in SUBSET Listeners /\ \A l \in S : listeners[l].state = "waiting"
    OBVIOUS
  <1>. HIDE DEF S, event
  <1>5. listeners' \in [Listeners -> ListenerStates]
    BY <1>1, <1>2 DEF TypeOK, ListenerStates
  <1>6. \A l \in Listeners :
            /\ listeners'[l].model = listeners[l].model
            /\ listeners'[l].state # "unused" => listeners[l].state # "unused"
            /\ listeners'[l].state = "raised" =>
                    \/ version' = version /\ listeners[l].state = "raised"
                    \/ ~event.error /\ l \in S
    BY <1>1, <1>2, <1>3, <1>4 DEF TypeOK, ListenerStates
  <1>7. docs' \in SUBSET Docs /\ online' \in OnlineStates /\ synced' \in BOOLEAN
    BY <1>1, <1>2 DEF TypeOK
  <1>. QED
    BY <1>1, <1>3, <1>4, <1>5, <1>6, <1>7, WorkerKeeps

LEMMA ErrorKeeps ==
    ASSUME FeedInv, OnError
    PROVE  FeedInv' /\ \A m \in Models : shown'[m] >= shown[m]
  <1>. DEFINE S == {l \in Listeners : Live(l)}
  <1>1. /\ listeners' = [l \in Listeners |->
                IF l \in S THEN [listeners[l] EXCEPT !.state = "dead"] ELSE listeners[l]]
        /\ mainQueue' = Raised(S, Failure)
        /\ synced' = FALSE
        /\ UNCHANGED <<docs, version, online, foodEvents, shown>>
    BY DEF OnError
  <1>2. TypeOK
    BY DEF FeedInv
  <1>3. Failure \in Callbacks /\ Failure.version = version' /\ Failure.error
    BY <1>1, <1>2, CallbackTypes DEF TypeOK, Failure
  <1>4. S \in SUBSET Listeners /\ \A l \in S : listeners[l].state # "unused"
    BY DEF Live
  <1>5. \A l \in Listeners : listeners[l].state = "raised" => l \in S
    BY DEF Live
  <1>. HIDE DEF S
  <1>6. listeners' \in [Listeners -> ListenerStates]
    BY <1>1, <1>2 DEF TypeOK, ListenerStates
  <1>7. \A l \in Listeners :
            /\ listeners'[l].model = listeners[l].model
            /\ listeners'[l].state # "unused" => listeners[l].state # "unused"
            /\ listeners'[l].state # "raised"
    BY <1>1, <1>2, <1>4, <1>5 DEF TypeOK, ListenerStates
  <1>8. docs' \in SUBSET Docs /\ online' \in OnlineStates /\ synced' \in BOOLEAN
    BY <1>1, <1>2 DEF TypeOK
  <1>. QED
    BY <1>1, <1>3, <1>4, <1>6, <1>7, <1>8, WorkerKeeps

LEMMA InitFeed == Init => FeedInv
  <1>. SUFFICES ASSUME Init PROVE FeedInv
    OBVIOUS
  <1>1. \A m \in Models : mainQueue[m] = << >> /\ Len(mainQueue[m]) = 0
    BY DEF Init
  <1>2. mainQueue \in [Models -> Seq(Callbacks)]
    BY DEF Init
  <1>3. TypeOK
    BY <1>2 DEF Init, TypeOK, OnlineStates, ListenerStates, Unused
  <1>4. \A m \in Models : QueueOrdered(m) /\ QueueTrue(m)
    BY <1>1 DEF Init, QueueOrdered, QueueTrue
  <1>5. ListenersServed
    BY DEF Init, ListenersServed, Unused
  <1>. QED
    BY <1>3, <1>4, <1>5 DEF FeedInv, Init

LEMMA FeedStep ==
    ASSUME FeedInv, [Next]_vars
    PROVE  FeedInv' /\ \A m \in Models : shown'[m] >= shown[m]
  <1>0. \A m \in Models : shown[m] \in Nat
    BY DEF FeedInv, TypeOK
  <1>1. ASSUME NEW m \in Models, NEW l \in Listeners,
               FoodEventViewModel(m, l) \/ getEvents(m, l)
        PROVE  FeedInv' /\ \A n \in Models : shown'[n] >= shown[n]
    <2>1. FeedInv'
      BY <1>1, RequestKeeps
    <2>2. shown' = shown
      BY <1>1 DEF FoodEventViewModel, getEvents
    <2>. QED
      BY <1>0, <2>1, <2>2
  <1>2. CASE UNCHANGED vars
    <2>1. FeedInv'
      BY <1>2 DEF vars, FeedInv, TypeOK, QueueOrdered, QueueTrue, ListenersServed, Served
    <2>2. shown' = shown
      BY <1>2 DEF vars
    <2>. QED
      BY <1>0, <2>1, <2>2
  <1>. QED
    BY <1>1, <1>2, CallbackKeeps, AddKeeps, ViewSnapshotsKeep, OnlineStateKeeps,
       ErrorKeeps DEF Next

-----------------------------------------------------------------------------
(* Theorems                                                                *)

\* The inductive invariant: queues are in order and true, and the documents have
\* reached, or are on their way to, whoever listens.
THEOREM FeedCorrect == Spec => []FeedInv
  <1>1. Init => FeedInv
    BY InitFeed
  <1>2. FeedInv /\ [Next]_vars => FeedInv'
    BY FeedStep
  <1>. QED
    BY <1>1, <1>2, PTL DEF Spec

\* Every variable keeps its type; in particular the lists hold only events.
THEOREM FeedTypes == Spec => []TypeOK
  <1>1. FeedInv => TypeOK
    BY DEF FeedInv
  <1>. QED
    BY <1>1, FeedCorrect, PTL

\* FeedIsCurrent: no change is lost between the store and a list, whenever its
\* listeners were added and however late its callbacks run.
THEOREM FeedShowsWhatIsStored == Spec => []FeedIsCurrent
  <1>1. FeedInv => FeedIsCurrent
    <2>. SUFFICES ASSUME FeedInv, NEW l \in Listeners,
                         listeners[l].state = "raised",
                         mainQueue[listeners[l].model] = << >>
                  PROVE  foodEvents[listeners[l].model] = docs \cap Decodable
      BY DEF FeedIsCurrent
    <2>. DEFINE m == listeners[l].model
    <2>1. m \in Models /\ Served(m)
      BY DEF FeedInv, ListenersServed
    <2>2. 1 .. Len(mainQueue[m]) = {}
      OBVIOUS
    <2>3. shown[m] = version
      BY <2>1, <2>2 DEF Served
    <2>. QED
      BY <2>1, <2>3 DEF FeedInv, QueueTrue
  <1>. QED
    BY <1>1, FeedCorrect, PTL

\* NeverOlder: however many listeners fill a list, no callback takes it back.
THEOREM ListsNeverGoBack == Spec => NeverOlder
  <1>1. FeedInv /\ [Next]_vars => [\A m \in Models : shown'[m] >= shown[m]]_vars
    BY FeedStep
  <1>. QED
    BY <1>1, FeedCorrect, PTL DEF Spec, NeverOlder

-----------------------------------------------------------------------------
(* Requests do not stall                                                   *)

\* A listener waits only for the server, and was requested no later than now.
Awaiting ==
    \A l \in Listeners :
        /\ listeners[l].state = "waiting" => ~synced /\ docs = {} /\ online # "offline"
        /\ listeners[l].since <= version

LEMMA AwaitingInit == Init => Awaiting
  BY DEF Init, Awaiting, Unused

LEMMA RequestedAwaits ==
    ASSUME TypeOK, Awaiting, NEW m \in Models, NEW k \in Listeners, Requested(k, m),
           UNCHANGED <<docs, version, online, synced>>
    PROVE  Awaiting'
  <1>. SUFFICES ASSUME NEW l \in Listeners
                PROVE  /\ listeners'[l].state = "waiting" =>
                                ~synced /\ docs = {} /\ online # "offline"
                       /\ listeners'[l].since <= version
    BY DEF Awaiting
  <1>1. listeners' = [listeners EXCEPT ![k] =
                [state |-> "requested", model |-> m, since |-> version]]
    BY DEF Requested
  <1>2. version \in Nat /\ listeners \in [Listeners -> ListenerStates]
    BY DEF TypeOK
  <1>3. CASE l = k
    BY <1>1, <1>2, <1>3
  <1>4. CASE l # k
    BY <1>1, <1>2, <1>4 DEF Awaiting
  <1>. QED
    BY <1>3, <1>4

LEMMA AddAwaits ==
    ASSUME TypeOK, Awaiting, NEW k \in Listeners, AddQueryListener(k)
    PROVE  Awaiting'
  <1>. DEFINE isSynced == Listening /\ synced
              raises == ShouldRaiseInitialEvent(docs, isSynced, online)
  <1>. SUFFICES ASSUME NEW l \in Listeners
                PROVE  /\ listeners'[l].state = "waiting" =>
                                ~synced' /\ docs = {} /\ online # "offline"
                       /\ listeners'[l].since <= version
    BY DEF Awaiting, AddQueryListener
  <1>1. /\ listeners' = [listeners EXCEPT ![k].state = IF raises THEN "raised" ELSE "waiting"]
        /\ synced' = isSynced
    BY DEF AddQueryListener
  <1>2. listeners \in [Listeners -> ListenerStates]
    BY DEF TypeOK
  <1>3. ~raises => ~isSynced /\ docs = {} /\ online # "offline"
    BY DEF ShouldRaiseInitialEvent
  <1>4. isSynced => synced
    OBVIOUS
  <1>. HIDE DEF raises, isSynced
  <1>5. /\ l # k => listeners'[l] = listeners[l]
        /\ listeners'[k].since = listeners[k].since
        /\ listeners'[k].state = "waiting" => ~raises
    BY <1>1, <1>2 DEF ListenerStates
  <1>. QED
    BY <1>1, <1>3, <1>4, <1>5 DEF Awaiting

\* Whoever waited and is not called by a change of the view still has a reason to.
LEMMA ViewSnapshotsAwait ==
    ASSUME TypeOK, Awaiting, NEW D \in SUBSET Docs, NEW isSynced \in BOOLEAN,
           OnViewSnapshots(D, isSynced)
    PROVE  Awaiting'
  <1>. DEFINE waiting == {l \in Listeners : listeners[l].state = "waiting"}
              initial == IF ShouldRaiseInitialEvent(D, isSynced, online) THEN waiting ELSE {}
              n == IF D = docs THEN version ELSE version + 1
  <1>. SUFFICES ASSUME NEW l \in Listeners
                PROVE  /\ listeners'[l].state = "waiting" =>
                                ~synced' /\ docs' = {} /\ online' # "offline"
                       /\ listeners'[l].since <= version'
    BY DEF Awaiting
  <1>1. /\ docs' = D /\ version' = n /\ synced' = isSynced /\ online' = online
        /\ listeners' = [k \in Listeners |->
                IF k \in initial THEN [listeners[k] EXCEPT !.state = "raised"] ELSE listeners[k]]
    BY DEF OnViewSnapshots
  <1>2. listeners \in [Listeners -> ListenerStates] /\ version \in Nat /\ version <= n
    BY DEF TypeOK
  <1>3. \/ initial = waiting
        \/ ~isSynced /\ D = {} /\ online # "offline"
    BY DEF ShouldRaiseInitialEvent
  <1>4. listeners[l].state = "waiting" => l \in waiting
    OBVIOUS
  <1>. HIDE DEF initial, waiting, n
  <1>5. n \in Nat
    BY <1>2 DEF n
  <1>6. listeners[l].since \in Nat /\ listeners[l].since <= version
    BY <1>2 DEF Awaiting, ListenerStates
  <1>7. /\ listeners'[l].since = listeners[l].since
        /\ listeners'[l].state = "waiting" => l \notin initial /\ listeners[l].state = "waiting"
    BY <1>1, <1>2 DEF ListenerStates
  <1>8. listeners'[l].since <= version'
    BY <1>1, <1>2, <1>5, <1>6, <1>7
  <1>9. listeners'[l].state = "waiting" => ~isSynced /\ D = {} /\ online # "offline"
    BY <1>3, <1>4, <1>7
  <1>. QED
    BY <1>1, <1>8, <1>9

LEMMA OnlineStateAwaits ==
    ASSUME TypeOK, Awaiting, NEW state \in OnlineStates, HandleOnlineStateChange(state)
    PROVE  Awaiting'
  <1>. DEFINE initial == IF state = "offline"
                   THEN {l \in Listeners : listeners[l].state = "waiting"} ELSE {}
  <1>. SUFFICES ASSUME NEW l \in Listeners
                PROVE  /\ listeners'[l].state = "waiting" =>
                                ~synced' /\ docs = {} /\ online' # "offline"
                       /\ listeners'[l].since <= version
    BY DEF Awaiting, HandleOnlineStateChange
  <1>1. /\ online' = state /\ synced' = (synced /\ state # "offline")
        /\ listeners' = [k \in Listeners |->
                IF k \in initial THEN [listeners[k] EXCEPT !.state = "raised"] ELSE listeners[k]]
    BY DEF HandleOnlineStateChange
  <1>2. listeners \in [Listeners -> ListenerStates]
    BY DEF TypeOK
  <1>3. state = "offline" /\ listeners[l].state = "waiting" => l \in initial
    OBVIOUS
  <1>. HIDE DEF initial
  <1>4. /\ listeners'[l].since = listeners[l].since
        /\ listeners'[l].state = "waiting" => l \notin initial /\ listeners[l].state = "waiting"
    BY <1>1, <1>2 DEF ListenerStates
  <1>. QED
    BY <1>1, <1>3, <1>4 DEF Awaiting

LEMMA ErrorAwaits ==
    ASSUME TypeOK, Awaiting, OnError
    PROVE  Awaiting'
  <1>. SUFFICES ASSUME NEW l \in Listeners
                PROVE  /\ listeners'[l].state # "waiting"
                       /\ listeners'[l].since <= version
    BY DEF Awaiting, OnError
  <1>1. /\ Live(l) => listeners'[l] = [listeners[l] EXCEPT !.state = "dead"]
        /\ ~Live(l) => listeners'[l] = listeners[l]
    BY DEF OnError
  <1>2. listeners[l] \in ListenerStates
    BY DEF TypeOK
  <1>. QED
    BY <1>1, <1>2 DEF Awaiting, Live, ListenerStates

LEMMA AwaitingNext ==
    ASSUME TypeOK, Awaiting, [Next]_vars
    PROVE  Awaiting'
  <1>1. ASSUME NEW m \in Models, NEW l \in Listeners,
               FoodEventViewModel(m, l) \/ getEvents(m, l)
        PROVE  Awaiting'
    BY <1>1, RequestedAwaits DEF FoodEventViewModel, getEvents
  <1>2. ASSUME NEW m \in Models, Callback(m)
        PROVE  Awaiting'
    BY <1>2 DEF Callback, Awaiting
  <1>3. CASE UNCHANGED vars
    BY <1>3 DEF vars, Awaiting
  <1>. QED
    BY <1>1, <1>2, <1>3, AddAwaits, ViewSnapshotsAwait, OnlineStateAwaits, ErrorAwaits DEF Next

\* RequestsNeverStall: a getEvents that the worker has taken has its answer, has
\* it in the queue, or waits for a server that may still speak.
THEOREM RequestsAreOnTheirWay == Spec => []RequestsNeverStall
  <1>1. FeedInv /\ Awaiting => RequestsNeverStall
    <2>. SUFFICES ASSUME FeedInv, Awaiting, NEW l \in Listeners
                  PROVE  LET m == listeners[l].model
                             since == listeners[l].since
                         IN
                         /\ listeners[l].state = "waiting" =>
                                ~synced /\ docs = {} /\ online # "offline"
                         /\ listeners[l].state = "raised" =>
                                \/ shown[m] >= since
                                \/ \E i \in 1 .. Len(mainQueue[m]) :
                                        ~mainQueue[m][i].error /\ mainQueue[m][i].version >= since
      BY DEF RequestsNeverStall, NothingToShow
    <2>1. listeners[l].since \in Nat /\ version \in Nat /\ listeners[l].since <= version
      BY DEF FeedInv, TypeOK, Awaiting, ListenerStates
    <2>2. listeners[l].state = "raised" => Served(listeners[l].model)
      BY DEF FeedInv, ListenersServed
    <2>. QED
      BY <2>1, <2>2 DEF Served, Awaiting
  <1>2. FeedInv => TypeOK
    BY DEF FeedInv
  <1>3. Awaiting /\ TypeOK /\ [Next]_vars => Awaiting'
    BY AwaitingNext
  <1>. QED
    BY <1>1, <1>2, <1>3, AwaitingInit, FeedCorrect, PTL DEF Spec

=============================================================================
