-------------------------- MODULE CredentialsProofs --------------------------
(* Proofs about Credentials, for any accounts and any bounds: a stream that is *)
(* open carries the token of the account whose writes are sent on it.          *)
EXTENDS Credentials, TLAPS

-----------------------------------------------------------------------------
(* Queues.                                                                 *)

LEMMA TailFacts ==
    ASSUME NEW S, NEW q \in Seq(S), q # <<>>
    PROVE  /\ Head(q) \in S /\ Head(q) = q[1]
           /\ Tail(q) \in Seq(S)
           /\ Len(q) \in Nat /\ Len(q) >= 1 /\ Len(Tail(q)) = Len(q) - 1
           /\ \A i \in 1..(Len(q) - 1) : Tail(q)[i] = q[i + 1]
  OBVIOUS

LEMMA AppendFacts ==
    ASSUME NEW S, NEW q \in Seq(S), NEW e \in S
    PROVE  /\ Append(q, e) \in Seq(S)
           /\ Len(q) \in Nat /\ Len(Append(q, e)) = Len(q) + 1
           /\ \A i \in 1..Len(q) : Append(q, e)[i] = q[i]
           /\ Append(q, e)[Len(q) + 1] = e
  OBVIOUS

LEMMA ReplacedFacts ==
    ASSUME NEW S, NEW q \in Seq(S), NEW c \in DOMAIN q, NEW e \in S
    PROVE  LET r == [q EXCEPT ![c] = e]
           IN  /\ r \in Seq(S) /\ DOMAIN r = DOMAIN q /\ Len(r) = Len(q)
               /\ Len(q) \in Nat /\ DOMAIN q = 1..Len(q)
               /\ r[c] = e /\ \A d \in DOMAIN q : d # c => r[d] = q[d]
  OBVIOUS

\* What was the latest entry before a place stays so when others come behind.
LEMMA LatestBehind ==
    ASSUME NEW S, NEW q \in Seq(S), NEW e \in S, NEW kind, NEW first, NEW u,
           NEW i \in 1..(Len(q) + 1), Latest(q, kind, first, u, i)
    PROVE  Latest(Append(q, e), kind, first, u, i)
  <1>1. \A j \in 1..(i - 1) : Append(q, e)[j] = q[j]
    BY AppendFacts
  <1>. QED
    BY <1>1 DEF Latest, NoneBefore

\* The new entry is the latest, or what was the latest still is.
LEMMA LatestAppended ==
    ASSUME NEW S, NEW q \in Seq(S), NEW e \in S, NEW kind, NEW first, NEW u,
           \/ e.kind = kind /\ e.user = u
           \/ e.kind # kind /\ Latest(q, kind, first, u, Len(q) + 1)
    PROVE  Latest(Append(q, e), kind, first, u, Len(q) + 2)
  <1>1. /\ \A j \in 1..Len(q) : Append(q, e)[j] = q[j]
        /\ Append(q, e)[Len(q) + 1] = e /\ Len(q) \in Nat
    BY AppendFacts
  <1>2. CASE e.kind = kind /\ e.user = u
    <2>1. Len(q) + 1 \in 1..(Len(q) + 2 - 1)
      BY <1>1
    <2>2. \A k \in (Len(q) + 1 + 1)..(Len(q) + 2 - 1) : FALSE
      BY <1>1
    <2>. QED
      BY <1>1, <1>2, <2>1, <2>2 DEF Latest
  <1>3. CASE e.kind # kind /\ Latest(q, kind, first, u, Len(q) + 1)
    BY <1>1, <1>3 DEF Latest, NoneBefore
  <1>. QED
    BY <1>2, <1>3

\* The head leaves, and is the first from then on if it is of the kind.
LEMMA LatestOfTail ==
    ASSUME NEW S, NEW q \in Seq(S), q # <<>>, NEW kind, NEW first, NEW u,
           NEW i \in 1..Len(q), Latest(q, kind, first, u, i + 1)
    PROVE  Latest(Tail(q), kind, IF Head(q).kind = kind THEN Head(q).user ELSE first, u, i)
  <1>. DEFINE new == IF Head(q).kind = kind THEN Head(q).user ELSE first
  <1>1. /\ Head(q) = q[1] /\ Len(q) \in Nat /\ Len(q) >= 1
        /\ \A j \in 1..(i - 1) : Tail(q)[j] = q[j + 1]
    BY TailFacts
  <1>2. CASE NoneBefore(q, kind, i + 1) /\ u = first
    <2>1. Head(q).kind # kind
      BY <1>1, <1>2 DEF NoneBefore
    <2>2. NoneBefore(Tail(q), kind, i)
      BY <1>1, <1>2 DEF NoneBefore
    <2>. QED
      BY <1>2, <2>1, <2>2 DEF Latest
  <1>3. ASSUME NEW j \in 1..(i + 1 - 1), q[j].kind = kind, q[j].user = u,
               \A k \in (j + 1)..(i + 1 - 1) : q[k].kind # kind
        PROVE  Latest(Tail(q), kind, new, u, i)
    <2>1. CASE j = 1
      <3>1. NoneBefore(Tail(q), kind, i)
        BY <1>1, <1>3, <2>1 DEF NoneBefore
      <3>. QED
        BY <1>1, <1>3, <2>1, <3>1 DEF Latest
    <2>2. CASE j # 1
      <3>1. j - 1 \in 1..(i - 1) /\ Tail(q)[j - 1] = q[j]
        BY <1>1, <2>2
      <3>2. \A k \in ((j - 1) + 1)..(i - 1) : Tail(q)[k].kind # kind
        BY <1>1, <1>3, <2>2
      <3>. QED
        BY <1>3, <3>1, <3>2 DEF Latest
    <2>. QED
      BY <2>1, <2>2
  <1>. QED
    BY <1>2, <1>3 DEF Latest


-----------------------------------------------------------------------------
(* The main queue.                                                         *)

\* A step that leaves the main queue and the requests on it alone.
LEMMA MainStays ==
    ASSUME CredentialsInv, UNCHANGED <<authUser, mainQueue, tokenUser, counter>>,
           requests' \in Seq(Requests),
           \A c \in DOMAIN requests : requests[c].stage = "main" =>
              c \in DOMAIN requests' /\ requests'[c] = requests[c],
           \A c \in DOMAIN requests' : requests'[c].counter <= counter,
           \A c \in DOMAIN requests' : requests'[c].stage = "fetching" =>
              \/ c \in DOMAIN requests /\ requests'[c] = requests[c]
              \/ requests'[c].user = authUser
    PROVE  MainInOrder'
  <1>1. TypeOK /\ MainInOrder
    BY DEF CredentialsInv
  <1>2. NoneBefore(mainQueue, "notice", Len(mainQueue) + 1) => tokenUser = authUser
    BY <1>1 DEF TypeOK, MainInOrder, Told, NoNoticeBefore, Latest, NoneBefore
  <1>3. Latest(mainQueue', "notice", tokenUser', authUser', Len(mainQueue') + 1)
    BY <1>1 DEF MainInOrder, Told, NoNoticeBefore, Latest, NoneBefore
  <1>4. \A i : NoneBefore(mainQueue', "notice", i) <=> NoneBefore(mainQueue, "notice", i)
    BY DEF NoneBefore
  <1>5. ASSUME NEW c \in DOMAIN requests'
        PROVE  /\ requests'[c].counter <= counter'
               /\ requests'[c].stage = "fetching" /\ requests'[c].counter = counter'
                  /\ NoneBefore(mainQueue', "notice", Len(mainQueue') + 1)
                     => requests'[c].user = tokenUser'
    BY <1>1, <1>2, <1>4 DEF MainInOrder, Told, NoNoticeBefore
  <1>6. ASSUME NEW i \in DOMAIN mainQueue, mainQueue[i].kind = "token"
        PROVE  /\ mainQueue[i].request \in DOMAIN requests'
               /\ requests'[mainQueue[i].request] = requests[mainQueue[i].request]
    BY <1>1, <1>6 DEF MainInOrder, Told, NoNoticeBefore
  <1>. QED
    BY <1>1, <1>3, <1>4, <1>5, <1>6 DEF MainInOrder, Told, NoNoticeBefore

\* FIRAuth posts a notice.
LEMMA NoticePosted ==
    ASSUME CredentialsInv, NEW u \in Owners, AuthChanges(u)
    PROVE  MainInOrder'
  <1>. DEFINE b == [kind |-> "notice", user |-> u]
  <1>1. TypeOK /\ MainInOrder
    BY DEF CredentialsInv
  <1>2. /\ mainQueue \in Seq(Blocks) /\ b \in Blocks /\ mainQueue' = Append(mainQueue, b)
        /\ authUser' = u /\ UNCHANGED <<tokenUser, counter, requests>>
    BY <1>1 DEF TypeOK, AuthChanges, Posted, Blocks
  <1>3. /\ Len(mainQueue) \in Nat /\ Len(mainQueue') = Len(mainQueue) + 1
        /\ \A i \in 1..Len(mainQueue) : mainQueue'[i] = mainQueue[i]
        /\ mainQueue'[Len(mainQueue) + 1] = b /\ mainQueue' \in Seq(Blocks)
    BY <1>2, AppendFacts
  <1>4. Latest(mainQueue', "notice", tokenUser', authUser', Len(mainQueue') + 1)
    <2>1. Latest(Append(mainQueue, b), "notice", tokenUser, u, Len(mainQueue) + 2)
      BY <1>2, LatestAppended
    <2>2. Len(mainQueue') + 1 = Len(mainQueue) + 2
      BY <1>3
    <2>. QED
      BY <1>2, <2>1, <2>2
  <1>5. ~NoneBefore(mainQueue', "notice", Len(mainQueue') + 1)
    <2>1. Len(mainQueue) + 1 \in 1..(Len(mainQueue') + 1 - 1)
      BY <1>3
    <2>. QED
      BY <1>3, <2>1 DEF NoneBefore
  <1>6. \A i \in 1..Len(mainQueue) :
           NoneBefore(mainQueue', "notice", i) => NoneBefore(mainQueue, "notice", i)
    BY <1>3 DEF NoneBefore
  <1>7. ASSUME NEW i \in DOMAIN mainQueue', mainQueue'[i].kind = "token"
        PROVE  i \in DOMAIN mainQueue /\ i \in 1..Len(mainQueue) /\ mainQueue'[i] = mainQueue[i]
    BY <1>2, <1>3, <1>7
  <1>. QED
    BY <1>1, <1>2, <1>4, <1>5, <1>6, <1>7 DEF MainInOrder, Told, NoNoticeBefore

\* FIRAuth answers: behind every notice of a change before it read the user.
LEMMA TokenDelivered ==
    ASSUME CredentialsInv, NEW c \in DOMAIN requests, NEW ok \in BOOLEAN, AuthAnswers(c, ok)
    PROVE  MainInOrder'
  <1>. DEFINE b == [kind |-> "token", request |-> c]
  <1>1. TypeOK /\ MainInOrder
    BY DEF CredentialsInv
  <1>2. /\ mainQueue \in Seq(Blocks) /\ b \in Blocks /\ mainQueue' = Append(mainQueue, b)
        /\ requests \in Seq(Requests)
        /\ requests' = [requests EXCEPT ![c] =
                            [requests[c] EXCEPT !.stage = "main", !.ok = ok]]
        /\ requests[c].stage = "fetching" /\ UNCHANGED <<authUser, tokenUser, counter>>
    BY <1>1 DEF TypeOK, AuthAnswers, Blocks
  <1>3. /\ Len(mainQueue) \in Nat /\ Len(mainQueue') = Len(mainQueue) + 1
        /\ \A i \in 1..Len(mainQueue) : mainQueue'[i] = mainQueue[i]
        /\ mainQueue'[Len(mainQueue) + 1] = b /\ mainQueue' \in Seq(Blocks)
    BY <1>2, AppendFacts
  <1>4. /\ DOMAIN requests' = DOMAIN requests
        /\ \A d \in DOMAIN requests : d # c => requests'[d] = requests[d]
        /\ requests'[c].stage = "main" /\ requests'[c].user = requests[c].user
        /\ requests'[c].counter = requests[c].counter
    <2>. DEFINE r == [requests[c] EXCEPT !.stage = "main", !.ok = ok]
    <2>0. requests[c] \in Requests
      BY <1>2
    <2>1. /\ r \in Requests /\ r.stage = "main" /\ r.user = requests[c].user
          /\ r.counter = requests[c].counter
      BY <2>0, <1>2 DEF Requests
    <2>2. requests' = [requests EXCEPT ![c] = r]
      BY <1>2
    <2>. HIDE DEF r
    <2>. QED
      BY <1>2, <2>1, <2>2, ReplacedFacts
  <1>5. Latest(mainQueue', "notice", tokenUser', authUser', Len(mainQueue') + 1)
    <2>1. Latest(Append(mainQueue, b), "notice", tokenUser, authUser, Len(mainQueue) + 2)
      BY <1>1, <1>2, LatestAppended DEF MainInOrder, Told, NoNoticeBefore
    <2>2. Len(mainQueue') + 1 = Len(mainQueue) + 2
      BY <1>3
    <2>. QED
      BY <1>2, <2>1, <2>2
  <1>6. \A i \in 1..(Len(mainQueue) + 1) :
           NoneBefore(mainQueue', "notice", i) => NoneBefore(mainQueue, "notice", i)
    <2>. SUFFICES ASSUME NEW i \in 1..(Len(mainQueue) + 1), NEW j \in 1..(i - 1)
                  PROVE  mainQueue'[j] = mainQueue[j]
      BY DEF NoneBefore
    <2>1. j \in 1..Len(mainQueue)
      BY <1>3
    <2>. QED
      BY <1>3, <2>1
  <1>7. NoneBefore(mainQueue', "notice", Len(mainQueue') + 1)
        => NoneBefore(mainQueue, "notice", Len(mainQueue) + 1)
    BY <1>3 DEF NoneBefore
  <1>8. ASSUME NEW d \in DOMAIN requests'
        PROVE  /\ requests'[d].counter <= counter'
               /\ requests'[d].stage = "fetching" /\ requests'[d].counter = counter'
                  /\ NoneBefore(mainQueue', "notice", Len(mainQueue') + 1)
                     => requests'[d].user = tokenUser'
    BY <1>1, <1>2, <1>4, <1>7 DEF MainInOrder, Told, NoNoticeBefore
  <1>9. ASSUME NEW i \in DOMAIN mainQueue', i # Len(mainQueue) + 1
        PROVE  /\ i \in DOMAIN mainQueue /\ i \in 1..(Len(mainQueue) + 1)
               /\ mainQueue'[i] = mainQueue[i]
               /\ mainQueue[i].kind = "token" =>
                     /\ mainQueue[i].request \in DOMAIN requests
                     /\ mainQueue[i].request # c
    BY <1>1, <1>2, <1>3, <1>9 DEF MainInOrder, Told, NoNoticeBefore
  <1>10. ASSUME NEW i \in DOMAIN mainQueue', mainQueue'[i].kind = "token"
         PROVE  /\ mainQueue'[i].request \in DOMAIN requests'
                /\ requests'[mainQueue'[i].request].stage = "main"
                /\ requests'[mainQueue'[i].request].counter = counter' /\ NoneBefore(mainQueue', "notice", i)
                   => requests'[mainQueue'[i].request].user = tokenUser'
                /\ \A j \in DOMAIN mainQueue' :
                      mainQueue'[j].kind = "token"
                      /\ mainQueue'[j].request = mainQueue'[i].request => j = i
    <2>1. CASE i = Len(mainQueue) + 1
      <3>1. mainQueue'[i].request = c /\ i \in 1..(Len(mainQueue) + 1)
        BY <1>3, <2>1
      <3>2. \A j \in DOMAIN mainQueue' :
               mainQueue'[j].kind = "token" /\ mainQueue'[j].request = c => j = i
        BY <1>9, <2>1
      <3>. QED
        BY <1>1, <1>2, <1>4, <1>6, <2>1, <3>1, <3>2, SMTT(60) DEF MainInOrder, Told, NoNoticeBefore
    <2>2. CASE i # Len(mainQueue) + 1
      <3>1. \A j \in DOMAIN mainQueue' :
               mainQueue'[j].kind = "token" /\ mainQueue'[j].request = mainQueue'[i].request
               => j = i
        <4>1. mainQueue'[Len(mainQueue) + 1].request = c
          BY <1>3
        <4>. QED
          BY <1>1, <1>9, <1>10, <2>2, <4>1 DEF MainInOrder, Told, NoNoticeBefore
      <3>. QED
        BY <1>1, <1>2, <1>4, <1>6, <1>9, <1>10, <2>2, <3>1 DEF MainInOrder, Told, NoNoticeBefore
    <2>. QED
      BY <2>1, <2>2
  <1>. QED
    BY <1>5, <1>8, <1>10 DEF MainInOrder, Told, NoNoticeBefore

\* The head of the main queue runs: after a notice, no token asked for before
\* will be accepted.
LEMMA MainPops ==
    ASSUME CredentialsInv, mainQueue # <<>>, mainQueue' = Tail(mainQueue),
           UNCHANGED authUser, DOMAIN requests' = DOMAIN requests,
           \/ /\ Head(mainQueue).kind = "notice" /\ UNCHANGED requests
              /\ tokenUser' = Head(mainQueue).user /\ counter' = counter + 1
           \/ /\ Head(mainQueue).kind = "token" /\ UNCHANGED <<tokenUser, counter>>
              /\ \A c \in DOMAIN requests :
                    /\ c # Head(mainQueue).request => requests'[c] = requests[c]
                    /\ requests'[c].counter <= counter
                    /\ c = Head(mainQueue).request => requests'[c].stage # "fetching"
    PROVE  MainInOrder'
  <1>1. TypeOK /\ MainInOrder
    BY DEF CredentialsInv
  <1>2. mainQueue \in Seq(Blocks) /\ counter \in Nat /\ requests \in Seq(Requests)
    BY <1>1 DEF TypeOK
  <1>3. /\ Head(mainQueue) = mainQueue[1] /\ Len(mainQueue) \in Nat /\ Len(mainQueue) >= 1
        /\ Len(mainQueue') = Len(mainQueue) - 1 /\ mainQueue' \in Seq(Blocks)
        /\ \A i \in 1..(Len(mainQueue) - 1) : mainQueue'[i] = mainQueue[i + 1]
    BY <1>2, TailFacts
  <1>4. Latest(mainQueue', "notice", tokenUser', authUser', Len(mainQueue') + 1)
    <2>1. Latest(Tail(mainQueue), "notice", IF Head(mainQueue).kind = "notice"
                 THEN Head(mainQueue).user ELSE tokenUser, authUser, Len(mainQueue))
      <3>1. Latest(mainQueue, "notice", tokenUser, authUser, Len(mainQueue) + 1)
        BY <1>1 DEF MainInOrder, Told, NoNoticeBefore
      <3>2. Len(mainQueue) \in 1..Len(mainQueue)
        BY <1>3
      <3>. QED
        BY <1>2, <3>1, <3>2, LatestOfTail
    <2>2. tokenUser' = IF Head(mainQueue).kind = "notice"
                       THEN Head(mainQueue).user ELSE tokenUser
      OBVIOUS
    <2>3. Len(mainQueue') + 1 = Len(mainQueue)
      BY <1>3
    <2>. QED
      BY <2>1, <2>2, <2>3
  <1>5. \A i \in 1..Len(mainQueue) :
           Head(mainQueue).kind = "token" /\ NoneBefore(mainQueue', "notice", i)
           => NoneBefore(mainQueue, "notice", i + 1)
    <2>. SUFFICES ASSUME NEW i \in 1..Len(mainQueue), Head(mainQueue).kind = "token",
                         NoneBefore(mainQueue', "notice", i), NEW j \in 1..(i + 1 - 1)
                  PROVE  mainQueue[j].kind # "notice"
      BY DEF NoneBefore
    <2>1. CASE j = 1
      BY <1>3, <2>1
    <2>2. CASE j # 1
      <3>1. j - 1 \in 1..(i - 1) /\ mainQueue'[j - 1] = mainQueue[j]
        BY <1>3, <2>2
      <3>. QED
        BY <3>1 DEF NoneBefore
    <2>. QED
      BY <2>1, <2>2
  <1>6. ASSUME NEW c \in DOMAIN requests'
        PROVE  /\ requests'[c].counter <= counter'
               /\ requests'[c].stage = "fetching" /\ requests'[c].counter = counter'
                  /\ NoneBefore(mainQueue', "notice", Len(mainQueue') + 1)
                     => requests'[c].user = tokenUser'
    <2>1. requests[c].counter <= counter /\ requests[c].counter \in Nat
      <3>1. requests[c] \in Requests
        BY <1>2
      <3>. QED
        BY <1>1, <3>1 DEF MainInOrder, Requests
    <2>2. CASE Head(mainQueue).kind = "notice"
      BY <1>2, <2>1, <2>2
    <2>3. CASE Head(mainQueue).kind = "token"
      <3>1. Len(mainQueue') + 1 = Len(mainQueue) /\ Len(mainQueue) \in 1..Len(mainQueue)
        BY <1>3
      <3>2. NoneBefore(mainQueue', "notice", Len(mainQueue') + 1)
            => NoneBefore(mainQueue, "notice", Len(mainQueue) + 1)
        BY <1>5, <2>3, <3>1
      <3>. QED
        BY <1>1, <2>1, <2>3, <3>2 DEF MainInOrder, Told, NoNoticeBefore
    <2>. QED
      BY <2>2, <2>3
  <1>7. ASSUME NEW i \in DOMAIN mainQueue'
        PROVE  /\ i \in 1..Len(mainQueue) /\ i + 1 \in DOMAIN mainQueue /\ i + 1 # 1
               /\ mainQueue'[i] = mainQueue[i + 1]
    BY <1>2, <1>3
  <1>8. ASSUME NEW i \in DOMAIN mainQueue', mainQueue'[i].kind = "token"
        PROVE  /\ mainQueue'[i].request \in DOMAIN requests'
               /\ requests'[mainQueue'[i].request].stage = "main"
               /\ requests'[mainQueue'[i].request].counter = counter' /\ NoneBefore(mainQueue', "notice", i)
                  => requests'[mainQueue'[i].request].user = tokenUser'
               /\ \A j \in DOMAIN mainQueue' :
                     mainQueue'[j].kind = "token"
                     /\ mainQueue'[j].request = mainQueue'[i].request => j = i
    <2>. DEFINE c == mainQueue[i + 1].request
    <2>1. /\ mainQueue[i + 1].kind = "token" /\ c \in DOMAIN requests
          /\ requests[c].stage = "main" /\ requests[c].counter <= counter
          /\ requests[c].counter = counter /\ NoneBefore(mainQueue, "notice", i + 1)
             => requests[c].user = tokenUser
          /\ \A j \in DOMAIN mainQueue :
                mainQueue[j].kind = "token" /\ mainQueue[j].request = c => j = i + 1
      BY <1>1, <1>7, <1>8 DEF MainInOrder, Told, NoNoticeBefore
    <2>2. Head(mainQueue).kind = "token" => Head(mainQueue).request # c
      <3>1. 1 \in DOMAIN mainQueue
        BY <1>2, <1>3
      <3>. QED
        BY <1>3, <1>7, <2>1, <3>1
    <2>3. requests'[c] = requests[c]
      BY <2>1, <2>2
    <2>4. requests[c].counter \in Nat
      <3>1. requests[c] \in Requests
        BY <1>2, <2>1
      <3>. QED
        BY <3>1 DEF Requests
    <2>5. requests'[c].counter = counter' /\ NoneBefore(mainQueue', "notice", i)
           => requests'[c].user = tokenUser'
      <3>1. CASE Head(mainQueue).kind = "notice"
        BY <1>2, <2>1, <2>3, <2>4, <3>1
      <3>2. CASE Head(mainQueue).kind = "token"
        BY <1>5, <1>7, <2>1, <2>3, <3>2
      <3>. QED
        BY <3>1, <3>2
    <2>6. ASSUME NEW j \in DOMAIN mainQueue', mainQueue'[j].kind = "token",
                 mainQueue'[j].request = mainQueue'[i].request
          PROVE  j = i
      BY <1>7, <2>1, <2>6
    <2>. QED
      BY <1>7, <2>1, <2>3, <2>5, <2>6
  <1>. QED
    BY <1>4, <1>6, <1>8 DEF MainInOrder, Told, NoNoticeBefore

-----------------------------------------------------------------------------
(* The worker queue.                                                       *)

\* A step that leaves the worker queue and the requests on it alone.
LEMMA WorkerStays ==
    ASSUME CredentialsInv, UNCHANGED <<worker, engineUser, tokenUser>>,
           \A c \in DOMAIN requests : requests[c].stage = "worker" =>
              c \in DOMAIN requests' /\ requests'[c] = requests[c]
    PROVE  WorkerInOrder'
  <1>1. WorkerInOrder
    BY DEF CredentialsInv
  <1>2. \A u, i : Latest(worker', "credential", engineUser', u, i)
                <=> Latest(worker, "credential", engineUser, u, i)
    BY DEF Latest, NoneBefore
  <1>3. ASSUME NEW i \in DOMAIN worker, worker[i].kind = "resume"
        PROVE  /\ worker[i].request \in DOMAIN requests'
               /\ requests'[worker[i].request] = requests[worker[i].request]
    BY <1>1, <1>3 DEF WorkerInOrder, InEffect
  <1>. QED
    BY <1>1, <1>2, <1>3 DEF WorkerInOrder, InEffect

\* The head of the worker queue is handled.
LEMMA WorkerPops ==
    ASSUME CredentialsInv, worker # <<>>, worker' = Tail(worker), UNCHANGED tokenUser,
           engineUser' = IF Head(worker).kind = "credential"
                         THEN Head(worker).user ELSE engineUser,
           \A c \in DOMAIN requests :
              requests[c].stage = "worker"
              /\ ~(Head(worker).kind = "resume" /\ Head(worker).request = c) =>
                 c \in DOMAIN requests' /\ requests'[c] = requests[c]
    PROVE  WorkerInOrder'
  <1>1. TypeOK /\ WorkerInOrder
    BY DEF CredentialsInv
  <1>2. worker \in Seq(Tasks)
    BY <1>1 DEF TypeOK
  <1>3. /\ Head(worker) = worker[1] /\ Len(worker) \in Nat /\ Len(worker) >= 1
        /\ Len(worker') = Len(worker) - 1 /\ worker' \in Seq(Tasks)
        /\ \A i \in 1..(Len(worker) - 1) : worker'[i] = worker[i + 1]
    BY <1>2, TailFacts
  <1>4. ASSUME NEW u, NEW i \in 1..Len(worker), Latest(worker, "credential", engineUser, u, i + 1)
        PROVE  Latest(worker', "credential", engineUser', u, i)
    <2>1. Latest(Tail(worker), "credential", IF Head(worker).kind = "credential"
                       THEN Head(worker).user ELSE engineUser, u, i)
      BY <1>2, <1>4, LatestOfTail
    <2>. QED
      BY <2>1
  <1>5. Latest(worker', "credential", engineUser', tokenUser', Len(worker') + 1)
    <2>1. Len(worker') + 1 = Len(worker) /\ Len(worker) \in 1..Len(worker)
      BY <1>3
    <2>2. Latest(worker, "credential", engineUser, tokenUser, Len(worker) + 1)
      BY <1>1 DEF WorkerInOrder, InEffect
    <2>3. Latest(worker', "credential", engineUser', tokenUser', Len(worker))
      BY <1>4, <2>1, <2>2
    <2>. QED
      BY <2>1, <2>3
  <1>6. ASSUME NEW i \in DOMAIN worker'
        PROVE  /\ i \in 1..Len(worker) /\ i + 1 \in DOMAIN worker /\ i + 1 # 1
               /\ worker'[i] = worker[i + 1]
    BY <1>2, <1>3
  <1>7. ASSUME NEW i \in DOMAIN worker', worker'[i].kind = "write"
        PROVE  Latest(worker', "credential", engineUser', worker'[i].user, i)
    BY <1>1, <1>4, <1>6, <1>7 DEF WorkerInOrder, InEffect
  <1>8. ASSUME NEW i \in DOMAIN worker', worker'[i].kind = "resume"
        PROVE  /\ worker'[i].request \in DOMAIN requests'
               /\ requests'[worker'[i].request].stage = "worker"
              
          /\ Latest(worker', "credential", engineUser', requests'[worker'[i].request].user, i)
               /\ \A j \in DOMAIN worker' :
                     worker'[j].kind = "resume" /\ worker'[j].request = worker'[i].request
                     => j = i
    <2>. DEFINE c == worker[i + 1].request
    <2>1. /\ worker[i + 1].kind = "resume" /\ c \in DOMAIN requests
          /\ requests[c].stage = "worker"
          /\ Latest(worker, "credential", engineUser, requests[c].user, i + 1)
          /\ \A j \in DOMAIN worker :
                worker[j].kind = "resume" /\ worker[j].request = c => j = i + 1
      BY <1>1, <1>6, <1>8 DEF WorkerInOrder, InEffect
    <2>2. ~(Head(worker).kind = "resume" /\ Head(worker).request = c)
      <3>1. 1 \in DOMAIN worker
        BY <1>2, <1>3
      <3>. QED
        BY <1>3, <1>6, <2>1, <3>1
    <2>3. c \in DOMAIN requests' /\ requests'[c] = requests[c]
      BY <2>1, <2>2
    <2>4. Latest(worker', "credential", engineUser', requests[c].user, i)
      BY <1>4, <1>6, <2>1
    <2>5. ASSUME NEW j \in DOMAIN worker', worker'[j].kind = "resume",
                 worker'[j].request = worker'[i].request
          PROVE  j = i
      BY <1>6, <2>1, <2>5
    <2>. QED
      BY <1>6, <2>1, <2>3, <2>4, <2>5
  <1>. QED
    BY <1>5, <1>7, <1>8 DEF WorkerInOrder, InEffect

\* A task comes to the end of the worker queue from the main thread.
LEMMA WorkerGrows ==
    ASSUME CredentialsInv, NEW t \in Tasks, worker' = Append(worker, t),
           UNCHANGED engineUser,
           \/ t.kind = "credential" /\ tokenUser' = t.user
           \/ t.kind = "write" /\ t.user = tokenUser /\ UNCHANGED tokenUser
           \/ /\ t.kind = "resume" /\ UNCHANGED tokenUser
              /\ t.request \in DOMAIN requests /\ requests[t.request].stage # "worker"
              /\ t.request \in DOMAIN requests' /\ requests'[t.request].stage = "worker"
              /\ requests'[t.request].user = tokenUser,
           \A c \in DOMAIN requests : requests[c].stage = "worker" =>
              c \in DOMAIN requests' /\ requests'[c] = requests[c]
    PROVE  WorkerInOrder'
  <1>1. TypeOK /\ WorkerInOrder
    BY DEF CredentialsInv
  <1>2. worker \in Seq(Tasks)
    BY <1>1 DEF TypeOK
  <1>3. /\ Len(worker) \in Nat /\ Len(worker') = Len(worker) + 1
        /\ \A i \in 1..Len(worker) : worker'[i] = worker[i]
        /\ worker'[Len(worker) + 1] = t /\ worker' \in Seq(Tasks)
    BY <1>2, AppendFacts
  <1>4. ASSUME NEW u, NEW i \in 1..(Len(worker) + 1), Latest(worker, "credential", engineUser, u, i)
        PROVE  Latest(worker', "credential", engineUser', u, i)
    <2>1. Latest(Append(worker, t), "credential", engineUser, u, i)
      BY <1>2, <1>4, LatestBehind
    <2>. QED
      BY <2>1
  <1>5. Latest(worker, "credential", engineUser, tokenUser, Len(worker) + 1)
    BY <1>1 DEF WorkerInOrder, InEffect
  <1>6. Latest(worker', "credential", engineUser', tokenUser', Len(worker') + 1)
    <2>1. Latest(Append(worker, t), "credential", engineUser, tokenUser', Len(worker) + 2)
      BY <1>2, <1>5, LatestAppended
    <2>2. Len(worker') + 1 = Len(worker) + 2
      BY <1>3
    <2>. QED
      BY <2>1, <2>2
  <1>7. ASSUME NEW i \in DOMAIN worker', i # Len(worker) + 1
        PROVE  i \in DOMAIN worker /\ i \in 1..(Len(worker) + 1) /\ worker'[i] = worker[i]
    BY <1>2, <1>3, <1>7
  <1>8. ASSUME NEW i \in DOMAIN worker', worker'[i].kind = "write"
        PROVE  Latest(worker', "credential", engineUser', worker'[i].user, i)
    <2>1. CASE i = Len(worker) + 1
      <3>1. /\ Latest(worker, "credential", engineUser, tokenUser, i)
            /\ i \in 1..(Len(worker) + 1) /\ worker'[i].user = tokenUser
        BY <1>3, <1>5, <1>8, <2>1
      <3>. QED
        BY <1>4, <3>1
    <2>2. CASE i # Len(worker) + 1
      BY <1>1, <1>4, <1>7, <1>8, <2>2 DEF WorkerInOrder, InEffect
    <2>. QED
      BY <2>1, <2>2
  <1>9. ASSUME NEW i \in DOMAIN worker, worker[i].kind = "resume"
        PROVE  /\ worker[i].request \in DOMAIN requests'
               /\ requests'[worker[i].request] = requests[worker[i].request]
               /\ requests[worker[i].request].stage = "worker"
               /\ Latest(worker, "credential", engineUser, requests[worker[i].request].user, i)
               /\ t.kind = "resume" => worker[i].request # t.request
               /\ \A j \in DOMAIN worker :
                     worker[j].kind = "resume" /\ worker[j].request = worker[i].request
                     => j = i
    BY <1>1, <1>9 DEF WorkerInOrder, InEffect
  <1>10. ASSUME NEW i \in DOMAIN worker', worker'[i].kind = "resume"
         PROVE  /\ worker'[i].request \in DOMAIN requests'
                /\ requests'[worker'[i].request].stage = "worker"
               
          /\ Latest(worker', "credential", engineUser', requests'[worker'[i].request].user, i)
                /\ \A j \in DOMAIN worker' :
                      worker'[j].kind = "resume" /\ worker'[j].request = worker'[i].request
                      => j = i
    <2>1. CASE i = Len(worker) + 1
      <3>1. /\ worker'[i] = t /\ t.kind = "resume" /\ i \in 1..(Len(worker) + 1)
            /\ t.request \in DOMAIN requests' /\ requests'[t.request].stage = "worker"
            /\ requests'[t.request].user = tokenUser
        BY <1>3, <1>10, <2>1
      <3>2. Latest(worker', "credential", engineUser', requests'[t.request].user, i)
        BY <1>4, <1>5, <2>1, <3>1
      <3>3. ASSUME NEW j \in DOMAIN worker', worker'[j].kind = "resume",
                   worker'[j].request = t.request, j # i
            PROVE  FALSE
        BY <1>7, <1>9, <2>1, <3>1, <3>3
      <3>. QED
        BY <3>1, <3>2, <3>3
    <2>2. CASE i # Len(worker) + 1
      <3>1. i \in DOMAIN worker /\ worker'[i] = worker[i] /\ i \in 1..(Len(worker) + 1)
        BY <1>7, <2>2
      <3>2. ASSUME NEW j \in DOMAIN worker', worker'[j].kind = "resume",
                   worker'[j].request = worker[i].request, j # i
            PROVE  FALSE
        <4>1. CASE j = Len(worker) + 1
          BY <1>3, <1>9, <1>10, <3>1, <3>2, <4>1
        <4>2. CASE j # Len(worker) + 1
          BY <1>7, <1>9, <1>10, <3>1, <3>2, <4>2
        <4>. QED
          BY <4>1, <4>2
      <3>. QED
        BY <1>4, <1>9, <1>10, <3>1, <3>2
    <2>. QED
      BY <2>1, <2>2
  <1>. QED
    BY <1>3, <1>6, <1>8, <1>10 DEF WorkerInOrder, InEffect

-----------------------------------------------------------------------------
(* The stream.                                                             *)

\* A step of the stream asks for a token, or begins a close count, and leaves
\* every request that was made alone.
Kept ==
    /\ requests' \in Seq(Requests) /\ requests' # <<>>
    /\ \A c \in DOMAIN requests : requests[c].stage # "none" =>
          c \in DOMAIN requests' /\ requests'[c] = requests[c]
    /\ \A c \in DOMAIN requests' :
          \/ c \in DOMAIN requests /\ requests'[c] = requests[c]
          \/ requests'[c].stage \in {"none", "asked"} /\ requests'[c].counter <= counter

LEMMA NewRequests ==
    ASSUME TypeOK
    PROVE  /\ NoRequest \in Requests /\ NoRequest.stage = "none" /\ NoRequest.counter <= counter
           /\ Asked \in Requests /\ Asked.stage = "asked" /\ Asked.counter <= counter
           /\ CloseCount \in DOMAIN requests /\ CloseCount \in Nat
  <1>1. None \in Owners /\ counter \in Nat
    BY DEF TypeOK, Owners
  <1>2. requests \in Seq(Requests) /\ requests # <<>>
    BY DEF TypeOK
  <1>. QED
    <2>1. NoRequest \in Requests /\ NoRequest.stage = "none" /\ NoRequest.counter = 0
      BY <1>1 DEF NoRequest, Requests
    <2>2. Asked \in Requests /\ Asked.stage = "asked" /\ Asked.counter = counter
      BY <1>1 DEF NoRequest, Asked, Requests
    <2>3. Len(requests) \in DOMAIN requests /\ Len(requests) \in Nat
      BY <1>2
    <2>. QED
      BY <1>1, <2>1, <2>2, <2>3 DEF CloseCount

LEMMA ToKeeps ==
    ASSUME CredentialsInv, NEW state \in {"Initial", "Starting", "Backoff", "Error"},
           To(state), stream.state \in {"Initial", "Error", "Backoff"}
    PROVE  Kept /\ StageOfState' /\ stream' \in Streams /\ stream'.state = state
  <1>1. TypeOK /\ StageOfState
    BY DEF CredentialsInv
  <1>2. requests[CloseCount].stage = "none" /\ requests \in Seq(Requests) /\ requests # <<>>
    BY <1>1 DEF StageOfState, TypeOK
  <1>3. stream' = [state |-> state, user |-> None] /\ stream' \in Streams
    BY DEF To, Streams, Owners
  <1>4. requests' \in Seq(Requests) /\ DOMAIN requests' = DOMAIN requests
        /\ Len(requests') = Len(requests)
        /\ (\A c \in DOMAIN requests : c # CloseCount => requests'[c] = requests[c])
        /\ requests'[CloseCount] = IF state = "Starting" THEN Asked ELSE requests[CloseCount]
    BY <1>1, <1>2, NewRequests DEF To
  <1>5. Kept
    BY <1>1, <1>2, <1>4, NewRequests DEF Kept
  <1>6. StageOfState'
    BY <1>1, <1>2, <1>3, <1>4, NewRequests DEF StageOfState, CloseCount
  <1>. QED
    BY <1>3, <1>5, <1>6

LEMMA CloseToKeeps ==
    ASSUME CredentialsInv, NEW state \in {"Initial", "Starting", "Backoff", "Error"},
           CloseTo(state)
    PROVE  Kept /\ StageOfState' /\ stream' \in Streams /\ stream'.state = state
  <1>1. TypeOK /\ requests \in Seq(Requests) /\ requests # <<>>
    BY DEF CredentialsInv, TypeOK
  <1>. DEFINE new == IF state = "Starting" THEN Asked ELSE NoRequest
  <1>2. stream' = [state |-> state, user |-> None] /\ stream' \in Streams
    BY DEF CloseTo, Streams, Owners
  <1>3. new \in Requests /\ requests' = Append(requests, new)
    BY <1>1, NewRequests DEF CloseTo
  <1>4. /\ requests' \in Seq(Requests) /\ Len(requests') = Len(requests) + 1
        /\ Len(requests) \in Nat /\ requests'[Len(requests) + 1] = new
        /\ \A c \in 1..Len(requests) : requests'[c] = requests[c]
    BY <1>1, <1>3, AppendFacts
  <1>5. DOMAIN requests = 1..Len(requests) /\ DOMAIN requests' = 1..(Len(requests) + 1)
    BY <1>1, <1>4
  <1>6. Kept
    <2>1. requests' # <<>>
      BY <1>4
    <2>2. ASSUME NEW c \in DOMAIN requests', c \notin DOMAIN requests
          PROVE  c = Len(requests) + 1
      BY <1>4, <1>5, <2>2
    <2>. QED
      BY <1>1, <1>4, <1>5, <2>1, <2>2, NewRequests DEF Kept
  <1>7. StageOfState'
    BY <1>1, <1>2, <1>4, NewRequests DEF StageOfState, CloseCount
  <1>. QED
    BY <1>2, <1>6, <1>7

\* RestartNetwork leaves the stream started exactly if u has writes.
LEMMA RestartKeeps ==
    ASSUME CredentialsInv, NEW u, RestartNetwork(u)
    PROVE  /\ Kept /\ StageOfState' /\ stream' \in Streams
           /\ stream'.state = IF u \in pending THEN "Starting" ELSE "Initial"
  <1>. DEFINE next == IF u \in pending THEN "Starting" ELSE "Initial"
  <1>1. CASE IsStarted
    <2>1. CloseTo(next)
      BY <1>1 DEF RestartNetwork
    <2>. QED
      BY <2>1, CloseToKeeps
  <1>2. CASE ~IsStarted
    <2>1. To(next)
      BY <1>2 DEF RestartNetwork
    <2>2. stream.state \in {"Initial", "Error", "Backoff"}
      BY <1>2 DEF CredentialsInv, TypeOK, Streams, IsStarted
    <2>. QED
      BY <2>1, <2>2, ToKeeps
  <1>. QED
    BY <1>1, <1>2

\* A step of the stream alone, and one that takes a task, keep the queues.
LEMMA StreamSteps ==
    ASSUME CredentialsInv, Kept, UNCHANGED <<authUser, mainQueue, tokenUser, counter>>,
           \/ UNCHANGED <<worker, engineUser>>
           \/ /\ worker # <<>> /\ worker' = Tail(worker)
              /\ engineUser' = IF Head(worker).kind = "credential"
                               THEN Head(worker).user ELSE engineUser
    PROVE  MainInOrder' /\ WorkerInOrder' /\ worker' \in Seq(Tasks)
  <1>1. TypeOK /\ worker \in Seq(Tasks)
    BY DEF CredentialsInv, TypeOK
  <1>2. \A c \in DOMAIN requests : requests[c].counter <= counter
    BY DEF CredentialsInv, MainInOrder, Told, NoNoticeBefore
  <1>3. MainInOrder'
    BY <1>2, MainStays DEF Kept
  <1>4. WorkerInOrder'
    <2>1. CASE UNCHANGED <<worker, engineUser>>
      BY <2>1, WorkerStays DEF Kept
    <2>2. CASE /\ worker # <<>> /\ worker' = Tail(worker)
               /\ engineUser' = IF Head(worker).kind = "credential"
                                THEN Head(worker).user ELSE engineUser
      BY <2>2, WorkerPops DEF Kept
    <2>. QED
      BY <2>1, <2>2
  <1>5. worker' \in Seq(Tasks)
    BY <1>1, TailFacts
  <1>. QED
    BY <1>3, <1>4, <1>5

-----------------------------------------------------------------------------
(* One lemma per group of actions.                                         *)

\* The provider accepts no token of another user in this step.
NoWrongToken ==
    \A c \in 1..CloseCount : requests[c].stage = "main" /\ requests'[c].stage = "worker"
                             => requests[c].user = tokenUser

LEMMA KeptTokens ==
    ASSUME CredentialsInv, Kept PROVE NoWrongToken
  <1>1. requests \in Seq(Requests)
    BY DEF CredentialsInv, TypeOK
  <1>. QED
    BY <1>1 DEF Kept, NoWrongToken, CloseCount

LEMMA AuthKeeps ==
    ASSUME CredentialsInv, NEW u \in Owners, AuthChanges(u)
    PROVE  CredentialsInv' /\ NoWrongToken
  <1>1. TypeOK
    BY DEF CredentialsInv
  <1>2. /\ authUser' = u /\ notices' = notices + 1
        /\ mainQueue' = Append(mainQueue, [kind |-> "notice", user |-> u])
        /\ UNCHANGED <<tokenUser, counter, requests, worker, engineUser, stream, pending>>
    BY DEF AuthChanges, Posted
  <1>3. TypeOK'
    <2>1. [kind |-> "notice", user |-> u] \in Blocks
      BY DEF Blocks
    <2>2. mainQueue' \in Seq(Blocks)
      BY <1>1, <1>2, <2>1, AppendFacts DEF TypeOK
    <2>. QED
      BY <1>1, <1>2, <2>2 DEF TypeOK
  <1>4. MainInOrder'
    BY NoticePosted
  <1>5. WorkerInOrder'
    BY <1>2, WorkerStays
  <1>. QED
    BY <1>2, <1>3, <1>4, <1>5
    DEF CredentialsInv, StageOfState, StreamOfEngineUser, NeverForgotten, CloseCount,
        IsStarted, NoWrongToken

LEMMA ReadKeeps ==
    ASSUME CredentialsInv, NEW c \in DOMAIN requests, AuthReads(c)
    PROVE  CredentialsInv' /\ NoWrongToken
  <1>1. TypeOK /\ requests \in Seq(Requests) /\ authUser \in Owners
    BY DEF CredentialsInv, TypeOK
  <1>2. /\ requests[c].stage = "asked"
        /\ requests' = [requests EXCEPT ![c] =
                            [requests[c] EXCEPT !.stage = "fetching", !.user = authUser]]
        /\ UNCHANGED <<authUser, notices, mainQueue, tokenUser, counter, worker,
                       engineUser, stream, pending>>
    BY DEF AuthReads
  <1>3. /\ requests' \in Seq(Requests) /\ Len(requests') = Len(requests)
        /\ DOMAIN requests' = DOMAIN requests
        /\ \A d \in DOMAIN requests : d # c => requests'[d] = requests[d]
        /\ requests'[c].stage = "fetching" /\ requests'[c].user = authUser
        /\ requests'[c].counter = requests[c].counter
    <2>. DEFINE r == [requests[c] EXCEPT !.stage = "fetching", !.user = authUser]
    <2>0. requests[c] \in Requests
      BY <1>1
    <2>1. /\ r \in Requests /\ r.stage = "fetching" /\ r.user = authUser
          /\ r.counter = requests[c].counter
      BY <2>0, <1>1 DEF Requests
    <2>2. requests' = [requests EXCEPT ![c] = r]
      BY <1>2
    <2>. HIDE DEF r
    <2>. QED
      BY <1>1, <2>1, <2>2, ReplacedFacts
  <1>4. TypeOK'
    BY <1>1, <1>2, <1>3 DEF TypeOK
  <1>5. \A d \in DOMAIN requests : requests[d].counter <= counter
    BY DEF CredentialsInv, MainInOrder, Told, NoNoticeBefore
  <1>6. MainInOrder'
    BY <1>2, <1>3, <1>5, MainStays
  <1>7. WorkerInOrder'
    BY <1>2, <1>3, WorkerStays
  <1>8. StageOfState'
    BY <1>1, <1>2, <1>3 DEF CredentialsInv, StageOfState, CloseCount
  <1>. QED
    BY <1>1, <1>2, <1>3, <1>4, <1>6, <1>7, <1>8
    DEF CredentialsInv, StreamOfEngineUser, NeverForgotten, IsStarted, NoWrongToken, CloseCount

LEMMA AnswerKeeps ==
    ASSUME CredentialsInv, NEW c \in DOMAIN requests, NEW ok \in BOOLEAN, AuthAnswers(c, ok)
    PROVE  CredentialsInv' /\ NoWrongToken
  <1>1. TypeOK /\ requests \in Seq(Requests) /\ mainQueue \in Seq(Blocks)
    BY DEF CredentialsInv, TypeOK
  <1>2. /\ requests[c].stage = "fetching"
        /\ requests' = [requests EXCEPT ![c] =
                            [requests[c] EXCEPT !.stage = "main", !.ok = ok]]
        /\ mainQueue' = Append(mainQueue, [kind |-> "token", request |-> c])
        /\ UNCHANGED <<authUser, notices, tokenUser, counter, worker, engineUser,
                       stream, pending>>
    BY DEF AuthAnswers
  <1>3. /\ requests' \in Seq(Requests) /\ Len(requests') = Len(requests)
        /\ DOMAIN requests' = DOMAIN requests
        /\ \A d \in DOMAIN requests : d # c => requests'[d] = requests[d]
        /\ requests'[c].stage = "main"
    <2>. DEFINE r == [requests[c] EXCEPT !.stage = "main", !.ok = ok]
    <2>0. requests[c] \in Requests
      BY <1>1
    <2>1. r \in Requests /\ r.stage = "main"
      BY <2>0, <1>1 DEF Requests
    <2>2. requests' = [requests EXCEPT ![c] = r]
      BY <1>2
    <2>. HIDE DEF r
    <2>. QED
      BY <1>1, <2>1, <2>2, ReplacedFacts
  <1>4. TypeOK'
    <2>1. [kind |-> "token", request |-> c] \in Blocks
      BY <1>1 DEF Blocks
    <2>2. mainQueue' \in Seq(Blocks)
      BY <1>1, <1>2, <2>1, AppendFacts
    <2>. QED
      BY <1>1, <1>2, <1>3, <2>2 DEF TypeOK
  <1>5. MainInOrder'
    BY TokenDelivered
  <1>6. WorkerInOrder'
    BY <1>2, <1>3, WorkerStays
  <1>7. StageOfState'
    BY <1>1, <1>2, <1>3 DEF CredentialsInv, StageOfState, CloseCount
  <1>. QED
    BY <1>1, <1>2, <1>3, <1>4, <1>5, <1>6, <1>7
    DEF CredentialsInv, StreamOfEngineUser, NeverForgotten, IsStarted, NoWrongToken, CloseCount

LEMMA NoticeKeeps ==
    ASSUME CredentialsInv, TakeNotice
    PROVE  CredentialsInv' /\ NoWrongToken
  <1>. DEFINE t == [kind |-> "credential", user |-> Head(mainQueue).user]
  <1>1. TypeOK /\ mainQueue \in Seq(Blocks) /\ worker \in Seq(Tasks) /\ counter \in Nat
    BY DEF CredentialsInv, TypeOK
  <1>2. /\ mainQueue # <<>> /\ Head(mainQueue).kind = "notice"
        /\ mainQueue' = Tail(mainQueue) /\ tokenUser' = Head(mainQueue).user
        /\ counter' = counter + 1 /\ worker' = Append(worker, t)
        /\ UNCHANGED <<authUser, notices, requests, engineUser, stream, pending>>
    BY DEF TakeNotice
  <1>3. Head(mainQueue).user \in Owners /\ t \in Tasks /\ Tail(mainQueue) \in Seq(Blocks)
    <2>1. Head(mainQueue) \in Blocks /\ Tail(mainQueue) \in Seq(Blocks)
      BY <1>1, <1>2, TailFacts
    <2>. QED
      BY <1>2, <2>1 DEF Blocks, Tasks
  <1>4. TypeOK'
    <2>1. worker' \in Seq(Tasks)
      BY <1>1, <1>2, <1>3, AppendFacts
    <2>. QED
      BY <1>1, <1>2, <1>3, <2>1 DEF TypeOK
  <1>5. MainInOrder'
    BY <1>2, MainPops
  <1>6. WorkerInOrder'
    BY <1>2, <1>3, WorkerGrows
  <1>. QED
    BY <1>2, <1>4, <1>5, <1>6
    DEF CredentialsInv, StageOfState, StreamOfEngineUser, NeverForgotten, CloseCount,
        IsStarted, NoWrongToken

LEMMA TokenKeeps ==
    ASSUME CredentialsInv, TakeToken
    PROVE  CredentialsInv' /\ NoWrongToken
  <1>. DEFINE c == Head(mainQueue).request
              t == [kind |-> "resume", request |-> c]
  <1>1. /\ TypeOK /\ mainQueue \in Seq(Blocks) /\ worker \in Seq(Tasks)
        /\ requests \in Seq(Requests) /\ counter \in Nat
    BY DEF CredentialsInv, TypeOK
  <1>2. /\ mainQueue # <<>> /\ Head(mainQueue).kind = "token"
        /\ mainQueue' = Tail(mainQueue)
        /\ UNCHANGED <<authUser, notices, tokenUser, counter, engineUser, stream, pending>>
    BY DEF TakeToken
  <1>3. /\ Head(mainQueue) = mainQueue[1] /\ 1 \in DOMAIN mainQueue
        /\ Tail(mainQueue) \in Seq(Blocks)
    BY <1>1, <1>2, TailFacts
  <1>4. /\ c \in DOMAIN requests /\ requests[c].stage = "main"
        /\ requests[c].counter = counter => requests[c].user = tokenUser
    <2>1. NoneBefore(mainQueue, "notice", 1)
      BY DEF NoneBefore
    <2>. QED
      BY <1>2, <1>3, <2>1 DEF CredentialsInv, MainInOrder, Told, NoNoticeBefore
  <1>5. \A d \in DOMAIN requests : requests[d].counter <= counter
    BY DEF CredentialsInv, MainInOrder, Told, NoNoticeBefore
  <1>6. CASE Stale(c)
    <2>1. requests' = [requests EXCEPT ![c] = Asked] /\ worker' = worker
      BY <1>6 DEF TakeToken
    <2>2. /\ requests' \in Seq(Requests) /\ DOMAIN requests' = DOMAIN requests
          /\ Len(requests') = Len(requests)
          /\ \A d \in DOMAIN requests : d # c => requests'[d] = requests[d]
          /\ requests'[c] = Asked
      BY <1>1, <1>4, <2>1, NewRequests
    <2>3. TypeOK'
      BY <1>1, <1>2, <1>3, <2>1, <2>2 DEF TypeOK
    <2>4. MainInOrder'
      BY <1>1, <1>2, <1>4, <1>5, <2>2, NewRequests, MainPops
    <2>5. WorkerInOrder'
      BY <1>2, <1>4, <2>1, <2>2, WorkerStays
    <2>6. StageOfState'
      BY <1>1, <1>2, <1>4, <2>2, NewRequests DEF CredentialsInv, StageOfState, CloseCount
    <2>. QED
      BY <1>1, <1>2, <2>2, <2>3, <2>4, <2>5, <2>6, NewRequests, SMTT(60)
      DEF CredentialsInv, StreamOfEngineUser, NeverForgotten, IsStarted, NoWrongToken,
          CloseCount
  <1>7. CASE ~Stale(c)
    <2>1. /\ requests' = [requests EXCEPT ![c] = [requests[c] EXCEPT !.stage = "worker"]]
          /\ worker' = Append(worker, t)
      BY <1>7 DEF TakeToken
    <2>2. /\ requests' \in Seq(Requests) /\ DOMAIN requests' = DOMAIN requests
          /\ Len(requests') = Len(requests)
          /\ \A d \in DOMAIN requests : d # c => requests'[d] = requests[d]
          /\ requests'[c].stage = "worker" /\ requests'[c].user = requests[c].user
          /\ requests'[c].counter = requests[c].counter
      <3>. DEFINE r == [requests[c] EXCEPT !.stage = "worker"]
      <3>0. requests[c] \in Requests
        BY <1>1, <1>4
      <3>1. /\ r \in Requests /\ r.stage = "worker" /\ r.user = requests[c].user
            /\ r.counter = requests[c].counter
        BY <3>0, <1>1, <1>4 DEF Requests
      <3>2. requests' = [requests EXCEPT ![c] = r]
        BY <2>1
      <3>. HIDE DEF r
      <3>. QED
        BY <1>1, <1>4, <3>1, <3>2, ReplacedFacts
    <2>3. requests[c].user = tokenUser
      BY <1>4, <1>7 DEF Stale
    <2>4. t \in Tasks
      BY <1>1, <1>4 DEF Tasks
    <2>5. TypeOK'
      <3>1. worker' \in Seq(Tasks)
        BY <1>1, <2>1, <2>4, AppendFacts
      <3>. QED
        BY <1>1, <1>2, <1>3, <2>2, <3>1 DEF TypeOK
    <2>6. MainInOrder'
      BY <1>2, <1>4, <1>5, <2>2, MainPops
    <2>7. WorkerInOrder'
      BY <1>2, <1>4, <2>1, <2>2, <2>3, <2>4, WorkerGrows
    <2>8. StageOfState'
      <3>1. CloseCount' = CloseCount /\ CloseCount \in DOMAIN requests
        BY <1>1, <2>2, NewRequests DEF CloseCount
      <3>2. \A s \in {"none", "done"} :
               requests'[CloseCount].stage = s <=> requests[CloseCount].stage = s
        BY <1>4, <2>2, <3>1
      <3>. QED
        BY <1>2, <3>1, <3>2 DEF CredentialsInv, StageOfState
    <2>9. NoWrongToken
      <3>. SUFFICES ASSUME NEW d \in DOMAIN requests, requests[d].stage = "main",
                           requests'[d].stage = "worker"
                    PROVE  requests[d].user = tokenUser
        BY <1>1 DEF NoWrongToken, CloseCount
      <3>. QED
        BY <2>2, <2>3
    <2>. QED
      BY <1>2, <2>5, <2>6, <2>7, <2>8, <2>9
      DEF CredentialsInv, StreamOfEngineUser, NeverForgotten, IsStarted
  <1>. QED
    BY <1>6, <1>7

LEMMA AppKeeps ==
    ASSUME CredentialsInv, AppWrites
    PROVE  CredentialsInv' /\ NoWrongToken
  <1>. DEFINE t == [kind |-> "write", user |-> tokenUser]
  <1>1. TypeOK /\ worker \in Seq(Tasks) /\ tokenUser \in Owners
    BY DEF CredentialsInv, TypeOK
  <1>2. /\ worker' = Append(worker, t)
        /\ UNCHANGED <<authUser, notices, mainQueue, tokenUser, counter, requests,
                       engineUser, stream, pending>>
    BY DEF AppWrites
  <1>3. t \in Tasks
    BY <1>1 DEF Tasks
  <1>4. TypeOK'
    <2>1. worker' \in Seq(Tasks)
      BY <1>1, <1>2, <1>3, AppendFacts
    <2>. QED
      BY <1>1, <1>2, <2>1 DEF TypeOK
  <1>5. WorkerInOrder'
    BY <1>2, <1>3, WorkerGrows
  <1>6. MainInOrder'
    BY <1>2 DEF CredentialsInv, MainInOrder, Told, NoNoticeBefore, Latest, NoneBefore
  <1>. QED
    BY <1>2, <1>4, <1>5, <1>6
    DEF CredentialsInv, StageOfState, StreamOfEngineUser, NeverForgotten, CloseCount,
        IsStarted, NoWrongToken

\* What a step of the stream has to show beyond the queues.
LEMMA StreamStepKeeps ==
    ASSUME CredentialsInv, Kept, StageOfState', stream' \in Streams,
           UNCHANGED <<authUser, notices, mainQueue, tokenUser, counter>>,
           pending' \in SUBSET Owners, engineUser' \in Owners,
           \/ UNCHANGED <<worker, engineUser>>
           \/ /\ worker # <<>> /\ worker' = Tail(worker)
              /\ engineUser' = IF Head(worker).kind = "credential"
                               THEN Head(worker).user ELSE engineUser,
           stream'.state = "Open" => stream'.user = engineUser',
           engineUser' \in pending' => stream'.state \in {"Starting", "Backoff", "Open"}
    PROVE  CredentialsInv' /\ NoWrongToken
  <1>1. MainInOrder' /\ WorkerInOrder' /\ worker' \in Seq(Tasks)
    BY StreamSteps
  <1>2. TypeOK'
    BY <1>1 DEF CredentialsInv, TypeOK, Kept
  <1>3. NoWrongToken
    BY KeptTokens
  <1>. QED
    BY <1>1, <1>2, <1>3 DEF CredentialsInv, StreamOfEngineUser, NeverForgotten, IsStarted

\* Nothing happens to the stream.
LEMMA NothingKept ==
    ASSUME CredentialsInv, UNCHANGED <<stream, requests>>
    PROVE  Kept /\ StageOfState'
  BY DEF CredentialsInv, TypeOK, Kept, StageOfState, CloseCount

LEMMA WriteKeeps ==
    ASSUME CredentialsInv, HandleWrite
    PROVE  CredentialsInv' /\ NoWrongToken
  <1>1. /\ TypeOK /\ StreamOfEngineUser /\ pending \in SUBSET Owners
        /\ engineUser \in Owners /\ stream \in Streams
    BY DEF CredentialsInv, TypeOK
  <1>2. /\ worker # <<>> /\ Head(worker).kind = "write" /\ worker' = Tail(worker)
        /\ pending' = pending \cup {engineUser}
        /\ UNCHANGED <<authUser, notices, mainQueue, tokenUser, counter, engineUser>>
    BY DEF HandleWrite
  <1>3. CASE IsStarted
    <2>1. UNCHANGED <<stream, requests>>
      BY <1>3 DEF HandleWrite
    <2>2. Kept /\ StageOfState'
      BY <2>1, NothingKept
    <2>. QED
      BY <1>1, <1>2, <1>3, <2>1, <2>2, StreamStepKeeps DEF StreamOfEngineUser, IsStarted
  <1>4. CASE ~IsStarted
    <2>. DEFINE next == IF stream.state = "Error" THEN "Backoff" ELSE "Starting"
    <2>1. To(next) /\ stream.state \in {"Initial", "Error", "Backoff"}
      BY <1>1, <1>4 DEF HandleWrite, Start, IsStarted, Streams
    <2>2. Kept /\ StageOfState' /\ stream' \in Streams /\ stream'.state = next
      BY <2>1, ToKeeps
    <2>. QED
      BY <1>1, <1>2, <2>2, StreamStepKeeps
  <1>. QED
    BY <1>3, <1>4

LEMMA CredentialKeeps ==
    ASSUME CredentialsInv, HandleCredentialChange
    PROVE  CredentialsInv' /\ NoWrongToken
  <1>1. TypeOK /\ pending \in SUBSET Owners /\ worker \in Seq(Tasks)
    BY DEF CredentialsInv, TypeOK
  <1>2. /\ worker # <<>> /\ Head(worker).kind = "credential" /\ worker' = Tail(worker)
        /\ engineUser' = Head(worker).user /\ RestartNetwork(engineUser')
        /\ UNCHANGED <<authUser, notices, mainQueue, tokenUser, counter, pending>>
    BY DEF HandleCredentialChange, Captured
  <1>3. engineUser' \in Owners
    <2>1. Head(worker) \in Tasks
      BY <1>1, <1>2, TailFacts
    <2>. QED
      BY <1>2, <2>1 DEF Tasks
  <1>4. /\ Kept /\ StageOfState' /\ stream' \in Streams
        /\ stream'.state = IF engineUser' \in pending THEN "Starting" ELSE "Initial"
    BY <1>2, RestartKeeps
  <1>. QED
    BY <1>1, <1>2, <1>3, <1>4, StreamStepKeeps

\* The token of this close count is in effect when it comes to the head.
LEMMA ResumeKeeps ==
    ASSUME CredentialsInv, ResumeStart
    PROVE  CredentialsInv' /\ NoWrongToken
  <1>. DEFINE c == Head(worker).request
              done == [requests EXCEPT ![c] = [requests[c] EXCEPT !.stage = "done"]]
  <1>1. /\ TypeOK /\ worker \in Seq(Tasks) /\ requests \in Seq(Requests)
        /\ engineUser \in Owners /\ stream \in Streams /\ pending \in SUBSET Owners
    BY DEF CredentialsInv, TypeOK
  <1>2. /\ worker # <<>> /\ Head(worker).kind = "resume" /\ worker' = Tail(worker)
        /\ UNCHANGED <<authUser, notices, mainQueue, tokenUser, counter, engineUser, pending>>
    BY DEF ResumeStart
  <1>3. Head(worker) = worker[1] /\ 1 \in DOMAIN worker /\ Tail(worker) \in Seq(Tasks)
    BY <1>1, <1>2, TailFacts
  <1>4. /\ c \in DOMAIN requests /\ requests[c].stage = "worker"
        /\ requests[c].user = engineUser
    BY <1>2, <1>3 DEF CredentialsInv, WorkerInOrder, InEffect, Latest, NoneBefore
  <1>5. /\ done \in Seq(Requests) /\ DOMAIN done = DOMAIN requests
        /\ Len(done) = Len(requests) /\ Len(requests) \in Nat
        /\ DOMAIN requests = 1..Len(requests)
        /\ \A d \in DOMAIN requests : d # c => done[d] = requests[d]
        /\ done[c].stage = "done" /\ done[c].counter = requests[c].counter
    <2>. DEFINE r == [requests[c] EXCEPT !.stage = "done"]
    <2>0. requests[c] \in Requests
      BY <1>1, <1>4
    <2>1. r \in Requests /\ r.stage = "done" /\ r.counter = requests[c].counter
      BY <2>0, <1>1, <1>4 DEF Requests
    <2>2. done = [requests EXCEPT ![c] = r]
      OBVIOUS
    <2>. HIDE DEF r, done
    <2>. QED
      BY <1>1, <1>4, <2>1, <2>2, ReplacedFacts
  <1>6. /\ requests' \in Seq(Requests) /\ requests' # <<>>
        /\ \A d \in DOMAIN requests : d \in DOMAIN requests' /\ requests'[d] = done[d]
        /\ \A d \in DOMAIN requests' : d \notin DOMAIN requests => requests'[d] = NoRequest
        /\ \/ c # CloseCount /\ requests' = done /\ UNCHANGED stream
           \/ /\ c = CloseCount /\ requests' = done
              /\ stream' = [state |-> "Open", user |-> requests[c].user]
           \/ /\ c = CloseCount /\ Len(requests') = Len(requests) + 1
              /\ requests'[Len(requests) + 1] = NoRequest
              /\ stream' = [state |-> IF engineUser \in pending THEN "Backoff" ELSE "Error",
                            user |-> None]
    <2>1. \/ c # CloseCount /\ requests' = done /\ UNCHANGED stream
          \/ /\ c = CloseCount /\ requests' = done
             /\ stream' = [state |-> "Open", user |-> requests[c].user]
          \/ /\ c = CloseCount /\ requests' = Append(done, NoRequest)
             /\ stream' = [state |-> IF engineUser \in pending THEN "Backoff" ELSE "Error",
                           user |-> None]
      BY DEF ResumeStart, Overtaken
    <2>2. CASE requests' = done
      <3>1. \/ c # CloseCount /\ UNCHANGED stream
            \/ c = CloseCount /\ stream' = [state |-> "Open", user |-> requests[c].user]
        <4>1. Len(Append(done, NoRequest)) = Len(done) + 1 /\ Len(done) \in Nat
          BY <1>1, <1>5, NewRequests, AppendFacts
        <4>2. Append(done, NoRequest) # done
          BY <4>1
        <4>. HIDE DEF done
        <4>. QED
          BY <2>1, <2>2, <4>2
      <3>2. requests' \in Seq(Requests) /\ requests' # <<>> /\ DOMAIN requests' = DOMAIN requests
        BY <1>4, <1>5, <2>2
      <3>. HIDE DEF done
      <3>. QED
        BY <1>4, <1>5, <2>2, <3>1, <3>2
    <2>3. CASE requests' # done
      <3>1. /\ c = CloseCount /\ requests' = Append(done, NoRequest)
            /\ stream' = [state |-> IF engineUser \in pending THEN "Backoff" ELSE "Error",
                          user |-> None]
        BY <2>1, <2>3
      <3>. HIDE DEF done
      <3>2. /\ requests' \in Seq(Requests) /\ Len(requests') = Len(done) + 1
            /\ \A d \in 1..Len(done) : requests'[d] = done[d]
            /\ requests'[Len(done) + 1] = NoRequest
        BY <1>1, <1>5, <3>1, NewRequests, AppendFacts, SMTT(60)
      <3>3. DOMAIN requests' = 1..(Len(requests) + 1) /\ requests' # <<>>
        BY <1>5, <3>2
      <3>4. /\ \A d \in DOMAIN requests : d \in DOMAIN requests' /\ requests'[d] = done[d]
            /\ \A d \in DOMAIN requests' : d \notin DOMAIN requests => d = Len(requests) + 1
        BY <1>5, <3>2, <3>3
      <3>. QED
        BY <1>5, <3>1, <3>2, <3>3, <3>4
    <2>. QED
      BY <2>2, <2>3
  <1>7. \A d \in DOMAIN requests : requests[d].counter <= counter
    BY DEF CredentialsInv, MainInOrder, Told, NoNoticeBefore
  <1>8. TypeOK'
    <2>1. stream' \in Streams
      BY <1>1, <1>4, <1>6 DEF Streams, Owners
    <2>. QED
      BY <1>1, <1>2, <1>3, <1>6, <2>1 DEF TypeOK
  <1>9. MainInOrder'
    <2>1. \A d \in DOMAIN requests' : requests'[d].counter <= counter
      BY <1>1, <1>4, <1>5, <1>6, <1>7, NewRequests
    <2>2. \A d \in DOMAIN requests' : requests'[d].stage = "fetching" =>
             d \in DOMAIN requests /\ requests'[d] = requests[d]
      BY <1>1, <1>4, <1>5, <1>6, NewRequests
    <2>3. \A d \in DOMAIN requests : requests[d].stage = "main" =>
             d \in DOMAIN requests' /\ requests'[d] = requests[d]
      BY <1>4, <1>5, <1>6
    <2>. QED
      BY <1>2, <1>6, <2>1, <2>2, <2>3, MainStays
  <1>10. WorkerInOrder'
    BY <1>2, <1>4, <1>5, <1>6, WorkerPops
  <1>11. StageOfState'
    <2>. HIDE DEF done
    <2>1. CloseCount = Len(requests) /\ CloseCount \in DOMAIN requests /\ StageOfState
      BY <1>1, NewRequests DEF CredentialsInv, CloseCount
    <2>2. CASE c # CloseCount /\ requests' = done /\ UNCHANGED stream
      <3>1. CloseCount' = CloseCount /\ requests'[CloseCount'] = requests[CloseCount]
        BY <1>5, <2>1, <2>2 DEF CloseCount
      <3>. QED
        BY <2>1, <2>2, <3>1 DEF StageOfState
    <2>3. CASE /\ c = CloseCount /\ requests' = done
               /\ stream' = [state |-> "Open", user |-> requests[c].user]
      <3>1. CloseCount' = c /\ requests'[CloseCount'].stage = "done"
        BY <1>5, <2>1, <2>3 DEF CloseCount
      <3>. QED
        BY <2>3, <3>1 DEF StageOfState
    <2>4. CASE /\ c = CloseCount /\ Len(requests') = Len(requests) + 1
               /\ requests'[Len(requests) + 1] = NoRequest
               /\ stream' = [state |-> IF engineUser \in pending THEN "Backoff" ELSE "Error",
                             user |-> None]
      <3>1. requests'[CloseCount'].stage = "none"
        BY <1>1, <2>4, NewRequests DEF CloseCount
      <3>. QED
        BY <2>4, <3>1 DEF StageOfState
    <2>. QED
      BY <1>6, <2>2, <2>3, <2>4
  <1>12. stream'.state = "Open" => stream'.user = engineUser'
    BY <1>2, <1>4, <1>6 DEF CredentialsInv, StreamOfEngineUser
  <1>13. engineUser' \in pending' => stream'.state \in {"Starting", "Backoff", "Open"}
    BY <1>2, <1>6 DEF CredentialsInv, NeverForgotten, IsStarted
  <1>14. NoWrongToken
    BY <1>1, <1>4, <1>5, <1>6 DEF NoWrongToken, CloseCount
  <1>. QED
    BY <1>8, <1>9, <1>10, <1>11, <1>12, <1>13, <1>14
    DEF CredentialsInv, StreamOfEngineUser, NeverForgotten, IsStarted

LEMMA StreamKeeps ==
    ASSUME CredentialsInv,
           \/ BackoffElapses \/ LastWriteAcknowledged \/ StreamFails \/ IdleTimeout
           \/ ConnectivityChanges
    PROVE  CredentialsInv' /\ NoWrongToken
  <1>1. /\ TypeOK /\ StreamOfEngineUser /\ pending \in SUBSET Owners
        /\ engineUser \in Owners /\ stream \in Streams
    BY DEF CredentialsInv, TypeOK
  <1>2. UNCHANGED <<authUser, notices, mainQueue, tokenUser, counter, worker, engineUser>>
    BY DEF BackoffElapses, LastWriteAcknowledged, StreamFails, IdleTimeout, ConnectivityChanges
  <1>3. CASE BackoffElapses
    <2>1. To("Starting") /\ stream.state = "Backoff" /\ pending' = pending
      BY <1>3 DEF BackoffElapses
    <2>2. Kept /\ StageOfState' /\ stream' \in Streams /\ stream'.state = "Starting"
      BY <2>1, ToKeeps
    <2>. QED
      BY <1>1, <1>2, <2>1, <2>2, StreamStepKeeps
  <1>4. CASE LastWriteAcknowledged
    <2>1. /\ UNCHANGED <<stream, requests>> /\ stream.state = "Open"
          /\ pending' = pending \ {engineUser}
      BY <1>4 DEF LastWriteAcknowledged
    <2>2. Kept /\ StageOfState'
      BY <2>1, NothingKept
    <2>. QED
      BY <1>1, <1>2, <2>1, <2>2, StreamStepKeeps DEF StreamOfEngineUser
  <1>5. CASE StreamFails
    <2>1. \E state \in {"Initial", "Starting", "Backoff", "Error"} :
             /\ CloseTo(state)
             /\ pending' = pending \/ pending' = pending \ {engineUser}
             /\ engineUser \in pending' => state \in {"Starting", "Backoff"}
      BY <1>5 DEF StreamFails, CloseOnError
    <2>2. PICK state \in {"Initial", "Starting", "Backoff", "Error"} :
             /\ CloseTo(state)
             /\ pending' = pending \/ pending' = pending \ {engineUser}
             /\ engineUser \in pending' => state \in {"Starting", "Backoff"}
      BY <2>1
    <2>3. Kept /\ StageOfState' /\ stream' \in Streams /\ stream'.state = state
      BY <2>2, CloseToKeeps
    <2>4. stream'.state # "Open" /\ pending' \in SUBSET Owners
      BY <1>1, <2>2, <2>3
    <2>. QED
      BY <1>1, <1>2, <2>2, <2>3, <2>4, StreamStepKeeps
  <1>6. CASE IdleTimeout
    <2>1. CloseTo("Initial") /\ pending' = pending /\ engineUser \notin pending
      BY <1>6 DEF IdleTimeout
    <2>2. Kept /\ StageOfState' /\ stream' \in Streams /\ stream'.state = "Initial"
      BY <2>1, CloseToKeeps
    <2>. QED
      BY <1>1, <1>2, <2>1, <2>2, StreamStepKeeps
  <1>7. CASE ConnectivityChanges
    <2>1. RestartNetwork(engineUser) /\ pending' = pending
      BY <1>7 DEF ConnectivityChanges
    <2>2. /\ Kept /\ StageOfState' /\ stream' \in Streams
          /\ stream'.state = IF engineUser \in pending THEN "Starting" ELSE "Initial"
      BY <2>1, RestartKeeps
    <2>. QED
      BY <1>1, <1>2, <2>1, <2>2, StreamStepKeeps
  <1>. QED
    BY <1>3, <1>4, <1>5, <1>6, <1>7

-----------------------------------------------------------------------------
(* The theorems.                                                           *)

LEMMA CredentialsStep ==
    ASSUME CredentialsInv, [Next]_vars
    PROVE  CredentialsInv' /\ (UNCHANGED vars \/ NoWrongToken)
  <1>1. 1..CloseCount = DOMAIN requests
    BY DEF CredentialsInv, TypeOK, CloseCount
  <1>2. ASSUME NEW u \in Owners, AuthChanges(u) PROVE CredentialsInv' /\ NoWrongToken
    BY <1>2, AuthKeeps
  <1>3. ASSUME NEW c \in 1..CloseCount, AuthReads(c) PROVE CredentialsInv' /\ NoWrongToken
    BY <1>1, <1>3, ReadKeeps
  <1>4. ASSUME NEW c \in 1..CloseCount, NEW ok \in BOOLEAN, AuthAnswers(c, ok)
        PROVE  CredentialsInv' /\ NoWrongToken
    BY <1>1, <1>4, AnswerKeeps
  <1>5. CASE TakeNotice
    BY <1>5, NoticeKeeps
  <1>6. CASE TakeToken
    BY <1>6, TokenKeeps
  <1>7. CASE AppWrites
    BY <1>7, AppKeeps
  <1>8. CASE HandleWrite
    BY <1>8, WriteKeeps
  <1>9. CASE HandleCredentialChange
    BY <1>9, CredentialKeeps
  <1>10. CASE ResumeStart
    BY <1>10, ResumeKeeps
  <1>11. CASE BackoffElapses \/ LastWriteAcknowledged \/ StreamFails \/ IdleTimeout
              \/ ConnectivityChanges
    BY <1>11, StreamKeeps
  <1>12. CASE UNCHANGED vars
    <2>1. TypeOK' /\ StageOfState' /\ StreamOfEngineUser' /\ NeverForgotten'
      BY <1>12
      DEF vars, CredentialsInv, TypeOK, StageOfState, StreamOfEngineUser, NeverForgotten,
          CloseCount, IsStarted
    <2>2. MainInOrder'
      BY <1>12 DEF vars, CredentialsInv, MainInOrder, Told, NoNoticeBefore, Latest, NoneBefore
    <2>3. WorkerInOrder'
      BY <1>12 DEF vars, CredentialsInv, WorkerInOrder, InEffect, Latest, NoneBefore
    <2>. QED
      BY <1>12, <2>1, <2>2, <2>3 DEF CredentialsInv
  <1>. QED
    BY <1>2, <1>3, <1>4, <1>5, <1>6, <1>7, <1>8, <1>9, <1>10, <1>11, <1>12 DEF Next

\* A token that is not dropped finds the stream Starting.
LEMMA ResumeWhileStarting == CredentialsInv => ResumeIsExpected
  <1>. SUFFICES ASSUME CredentialsInv, worker # <<>>, Head(worker).kind = "resume",
                       Head(worker).request = CloseCount
                PROVE  stream.state = "Starting"
    BY DEF ResumeIsExpected
  <1>1. worker \in Seq(Tasks) /\ stream \in Streams
    BY DEF CredentialsInv, TypeOK
  <1>2. Head(worker) = worker[1] /\ 1 \in DOMAIN worker
    BY <1>1, TailFacts
  <1>3. requests[CloseCount].stage = "worker"
    BY <1>2 DEF CredentialsInv, WorkerInOrder, InEffect
  <1>. QED
    BY <1>1, <1>3 DEF CredentialsInv, StageOfState, Streams

LEMMA InitCredentials == Init => CredentialsInv
  <1>. SUFFICES ASSUME Init PROVE CredentialsInv
    OBVIOUS
  <1>1. NoRequest \in Requests
    BY DEF NoRequest, Requests, Owners
  <1>2. TypeOK
    BY <1>1 DEF Init, TypeOK, Streams, Owners
  <1>3. Len(requests) = 1 /\ requests[1] = NoRequest /\ DOMAIN requests = {1}
    BY DEF Init
  <1>4. /\ MainInOrder /\ WorkerInOrder
    BY <1>3
    DEF Init, MainInOrder, WorkerInOrder, Told, NoNoticeBefore, InEffect, Latest,
        NoneBefore, NoRequest
  <1>. QED
    BY <1>2, <1>3, <1>4
    DEF Init, CredentialsInv, StageOfState, StreamOfEngineUser, NeverForgotten,
        CloseCount, NoRequest

\* The inductive invariant: the three queues are in order, and the request of
\* the current close count is where the stream's state says.
THEOREM CredentialsCorrect == Spec => []CredentialsInv
  <1>1. CredentialsInv /\ [Next]_vars => CredentialsInv'
    BY CredentialsStep
  <1>. QED
    BY <1>1, InitCredentials, PTL DEF Spec

\* StreamOfEngineUser: nobody's writes are sent on a stream opened with the
\* token of somebody else.
THEOREM StreamsCarryTheirUser == Spec => []StreamOfEngineUser
  <1>1. CredentialsInv => StreamOfEngineUser
    BY DEF CredentialsInv
  <1>. QED
    BY <1>1, CredentialsCorrect, PTL

\* TypeOK: types of the queues, the requests and the stream.
THEOREM CredentialsTypes == Spec => []TypeOK
  <1>1. CredentialsInv => TypeOK
    BY DEF CredentialsInv
  <1>. QED
    BY <1>1, CredentialsCorrect, PTL

\* NeverForgotten: a started stream for every account in effect with writes.
THEOREM WritesAreNotForgotten == Spec => []NeverForgotten
  <1>1. CredentialsInv => NeverForgotten
    BY DEF CredentialsInv
  <1>. QED
    BY <1>1, CredentialsCorrect, PTL

\* ResumeIsExpected: the assertion in ResumeStartWithCredentials never fails.
THEOREM ResumeNeverAsserts == Spec => []ResumeIsExpected
  <1>. QED
    BY ResumeWhileStarting, CredentialsCorrect, PTL

\* WriteOfItsCaller: a write never lands in the queue of another account.
THEOREM WritesKeepTheirCaller == Spec => []WriteOfItsCaller
  <1>1. CredentialsInv => WriteOfItsCaller
    <2>. SUFFICES ASSUME CredentialsInv, worker # <<>>, Head(worker).kind = "write"
                  PROVE  Head(worker).user = engineUser
      BY DEF WriteOfItsCaller
    <2>1. Head(worker) = worker[1] /\ 1 \in DOMAIN worker
      BY TailFacts DEF CredentialsInv, TypeOK
    <2>. QED
      BY <2>1 DEF CredentialsInv, WorkerInOrder, InEffect, Latest, NoneBefore
  <1>. QED
    BY <1>1, CredentialsCorrect, PTL

\* AllAgree: with no notice on its way, all three know the same user.
THEOREM UsersAgree == Spec => []AllAgree
  <1>1. CredentialsInv => AllAgree
    <2>. SUFFICES ASSUME CredentialsInv PROVE AllAgree
      OBVIOUS
    <2>1. mainQueue \in Seq(Blocks) /\ worker \in Seq(Tasks)
      BY DEF CredentialsInv, TypeOK
    <2>. QED
      BY <2>1
      DEF AllAgree, CredentialsInv, MainInOrder, WorkerInOrder, Told, NoNoticeBefore,
          InEffect, Latest, NoneBefore
  <1>. QED
    BY <1>1, CredentialsCorrect, PTL

\* TokenOfTheUser: the counters tell whose token it is.
THEOREM TokensAreTheUsers == Spec => TokenOfTheUser
  <1>1. CredentialsInv /\ [Next]_vars =>
           [\A c \in 1..CloseCount :
               requests[c].stage = "main" /\ requests'[c].stage = "worker"
               => requests[c].user = tokenUser]_vars
    BY CredentialsStep DEF NoWrongToken
  <1>. QED
    BY <1>1, CredentialsCorrect, PTL DEF Spec, TokenOfTheUser

-----------------------------------------------------------------------------
(* The refinement of StreamLifecycle.                                      *)

\* RestartNetwork for the account then in effect.
LEMMA RestartRestarts ==
    ASSUME RestartNetwork(engineUser'), UNCHANGED pending
    PROVE  Lifecycle!Restart
  <1>1. stream'.state = IF engineUser' \in pending THEN "Starting" ELSE "Initial"
    BY DEF RestartNetwork, To, CloseTo
  <1>. QED
    BY <1>1 DEF Lifecycle!Restart, Lifecycle!Due

\* ImplementsLifecycle: whatever the accounts do, the write stream goes through
\* the states of stream.h as the writes of the account in effect need it.
THEOREM CredentialsLive == Spec => ImplementsLifecycle
  <1>1. Init => Lifecycle!Init
    BY DEF Init, Lifecycle!Init
  <1>2. ASSUME CredentialsInv, [Next]_vars PROVE [Lifecycle!Next]_(Lifecycle!vars)
    <2>. USE DEF Lifecycle!Next, Lifecycle!vars
    <2>0. /\ engineUser \in Owners /\ stream \in Streams /\ pending \in SUBSET Owners
          /\ engineUser \in pending => IsStarted
      BY <1>2 DEF CredentialsInv, TypeOK, NeverForgotten
    <2>1. CASE UNCHANGED <<engineUser, stream, pending>>
      BY <2>1
    <2>2. CASE HandleWrite
      <3>1. engineUser' = engineUser /\ pending' = pending \cup {engineUser}
        BY <2>2 DEF HandleWrite
      <3>2. CASE IsStarted
        <4>1. stream' = stream
          BY <2>2, <3>2 DEF HandleWrite
        <4>. QED
          BY <3>1, <3>2, <4>1 DEF Lifecycle!Need, Lifecycle!IsStarted, IsStarted
      <3>3. CASE ~IsStarted
        <4>1. stream'.state = IF stream.state = "Error" THEN "Backoff" ELSE "Starting"
          BY <2>2, <3>3 DEF HandleWrite, Start, To
        <4>2. engineUser \notin pending
          BY <2>0, <3>3
        <4>. QED
          BY <3>1, <3>3, <4>1, <4>2 DEF Lifecycle!Need, Lifecycle!IsStarted, IsStarted
      <3>. QED
        BY <3>2, <3>3
    <2>3. CASE HandleCredentialChange
      BY <2>3, RestartRestarts DEF HandleCredentialChange
    <2>4. CASE ResumeStart
      <3>1. engineUser' = engineUser /\ pending' = pending
        BY <2>4 DEF ResumeStart
      <3>2. CASE Overtaken(Head(worker).request)
        BY <2>1, <2>4, <3>1, <3>2 DEF ResumeStart
      <3>3. CASE ~Overtaken(Head(worker).request)
        <4>1. stream.state = "Starting"
          BY <1>2, <2>4, <3>3, ResumeWhileStarting DEF ResumeStart, Overtaken, ResumeIsExpected
        <4>2. \/ stream'.state = "Open"
              \/ stream'.state = IF engineUser \in pending THEN "Backoff" ELSE "Error"
          BY <2>4, <3>3 DEF ResumeStart
        <4>. QED
          BY <3>1, <4>1, <4>2 DEF Lifecycle!Open, Lifecycle!Fail
      <3>. QED
        BY <3>2, <3>3
    <2>5. CASE BackoffElapses
      BY <2>5 DEF BackoffElapses, To, Lifecycle!Elapse
    <2>6. CASE LastWriteAcknowledged
      BY <2>6 DEF LastWriteAcknowledged, Lifecycle!Release
    <2>7. CASE StreamFails
      <3>1. engineUser' = engineUser /\ stream.state = "Open"
        BY <2>7 DEF StreamFails
      <3>2. CASE CloseOnError(pending) /\ UNCHANGED pending
        BY <3>1, <3>2 DEF CloseOnError, CloseTo, Lifecycle!Fail
      <3>3. CASE engineUser \in pending /\ CloseTo("Starting") /\ UNCHANGED pending
        BY <3>1, <3>3 DEF CloseTo, Lifecycle!Restart, Lifecycle!Due
      <3>4. CASE engineUser \in pending /\ CloseTo("Initial") /\ pending' = pending \ {engineUser}
        BY <3>1, <3>4 DEF CloseTo, Lifecycle!Restart, Lifecycle!Due
      <3>. QED
        BY <2>7, <3>2, <3>3, <3>4 DEF StreamFails
    <2>8. CASE IdleTimeout
      BY <2>8 DEF IdleTimeout, CloseTo, Lifecycle!Idle
    <2>9. CASE ConnectivityChanges
      BY <2>9, RestartRestarts DEF ConnectivityChanges
    <2>10. CASE TakeNotice \/ TakeToken \/ AppWrites
      BY <2>1, <2>10 DEF TakeNotice, TakeToken, AppWrites
    <2>11. CASE \/ \E u \in Owners : AuthChanges(u)
                \/ \E c \in 1..CloseCount : AuthReads(c) \/ \E ok \in BOOLEAN : AuthAnswers(c, ok)
      BY <2>1, <2>11 DEF AuthChanges, AuthReads, AuthAnswers
    <2>12. CASE UNCHANGED vars
      BY <2>1, <2>12 DEF vars
    <2>. QED
      BY <1>2, <2>2, <2>3, <2>4, <2>5, <2>6, <2>7, <2>8, <2>9, <2>10, <2>11, <2>12 DEF Next
  <1>. QED
    BY <1>1, <1>2, CredentialsCorrect, PTL DEF Spec, ImplementsLifecycle, Lifecycle!Spec

-----------------------------------------------------------------------------
(* No request gets lost on the way.                                        *)

\* A request that says it is on a queue is there.
RequestsTravel ==
    \A c \in DOMAIN requests :
        /\ requests[c].stage = "main" => Queued(mainQueue, "token", c)
        /\ requests[c].stage = "worker" => Queued(worker, "resume", c)

\* An entry stays when another comes behind it.
LEMMA QueuedBehind ==
    ASSUME NEW S, NEW q \in Seq(S), NEW e \in S, NEW kind, NEW c
    PROVE  /\ Queued(q, kind, c) => Queued(Append(q, e), kind, c)
           /\ e.kind = kind /\ e.request = c => Queued(Append(q, e), kind, c)
  <1>1. /\ \A i \in 1..Len(q) : Append(q, e)[i] = q[i]
        /\ Append(q, e)[Len(q) + 1] = e /\ Len(q) \in Nat
        /\ DOMAIN q = 1..Len(q) /\ DOMAIN Append(q, e) = 1..(Len(q) + 1)
    BY AppendFacts
  <1>2. DOMAIN q \subseteq DOMAIN Append(q, e) /\ Len(q) + 1 \in DOMAIN Append(q, e)
    BY <1>1
  <1>. QED
    BY <1>1, <1>2 DEF Queued

\* It stays when one that is not about the request is taken off the front.
LEMMA QueuedInTail ==
    ASSUME NEW S, NEW q \in Seq(S), q # <<>>, NEW kind, NEW c, Queued(q, kind, c),
           Head(q).kind # kind \/ Head(q).request # c
    PROVE  Queued(Tail(q), kind, c)
  <1>1. PICK i \in DOMAIN q : q[i].kind = kind /\ q[i].request = c
    BY DEF Queued
  <1>2. i # 1 /\ i \in 1..Len(q) /\ Len(q) \in Nat
    BY <1>1, TailFacts
  <1>3. i - 1 \in 1..(Len(q) - 1) /\ DOMAIN Tail(q) = 1..(Len(q) - 1)
    BY <1>2, TailFacts
  <1>4. Tail(q)[i - 1] = q[i]
    BY <1>2, <1>3, TailFacts
  <1>. QED
    BY <1>1, <1>3, <1>4 DEF Queued

\* A step of the stream, which may take a task that is no token.
LEMMA StreamStepsTravel ==
    ASSUME CredentialsInv, RequestsTravel, Kept, UNCHANGED mainQueue,
           \/ UNCHANGED worker
           \/ /\ worker # <<>> /\ Head(worker).kind # "resume" /\ worker' = Tail(worker)
    PROVE  RequestsTravel'
  <1>1. worker \in Seq(Tasks)
    BY DEF CredentialsInv, TypeOK
  <1>2. ASSUME NEW c \in DOMAIN requests', requests'[c].stage \in {"main", "worker"}
        PROVE  c \in DOMAIN requests /\ requests'[c] = requests[c]
    BY <1>2 DEF Kept
  <1>3. \A c : Queued(worker, "resume", c) => Queued(worker', "resume", c)
    BY <1>1, QueuedInTail
  <1>. QED
    BY <1>2, <1>3 DEF RequestsTravel

\* A step of one request, or of none, that takes nothing off a queue.
LEMMA RequestStepTravels ==
    ASSUME CredentialsInv, RequestsTravel, NEW c \in DOMAIN requests, NEW r,
           requests' = requests \/ requests' = [requests EXCEPT ![c] = r],
           UNCHANGED mainQueue \/ \E e \in Blocks : mainQueue' = Append(mainQueue, e),
           UNCHANGED worker \/ \E e \in Tasks : worker' = Append(worker, e),
           r.stage \in {"main", "worker"} /\ requests' # requests =>
              /\ r.stage = "main" /\ mainQueue' = Append(mainQueue, [kind |-> "token", request |-> c])
              /\ [kind |-> "token", request |-> c] \in Blocks
    PROVE  RequestsTravel'
  <1>1. worker \in Seq(Tasks) /\ mainQueue \in Seq(Blocks) /\ requests \in Seq(Requests)
    BY DEF CredentialsInv, TypeOK
  <1>w. ASSUME NEW d, Queued(worker, "resume", d) PROVE Queued(worker', "resume", d)
    <2>1. CASE UNCHANGED worker
      BY <1>w, <2>1
    <2>2. ASSUME NEW e \in Tasks, worker' = Append(worker, e)
          PROVE  Queued(worker', "resume", d)
      BY <1>1, <1>w, <2>2, QueuedBehind
    <2>. QED
      BY <2>1, <2>2
  <1>m. ASSUME NEW d, Queued(mainQueue, "token", d) PROVE Queued(mainQueue', "token", d)
    <2>1. CASE UNCHANGED mainQueue
      BY <1>m, <2>1
    <2>2. ASSUME NEW e \in Blocks, mainQueue' = Append(mainQueue, e)
          PROVE  Queued(mainQueue', "token", d)
      BY <1>1, <1>m, <2>2, QueuedBehind
    <2>. QED
      BY <2>1, <2>2
  <1>2. /\ \A d : Queued(worker, "resume", d) => Queued(worker', "resume", d)
        /\ \A d : Queued(mainQueue, "token", d) => Queued(mainQueue', "token", d)
    BY <1>w, <1>m
  <1>3. DOMAIN requests' = DOMAIN requests
    BY <1>1
  <1>4. ASSUME NEW d \in DOMAIN requests, requests'[d] = requests[d]
        PROVE  /\ requests'[d].stage = "main" => Queued(mainQueue', "token", d)
               /\ requests'[d].stage = "worker" => Queued(worker', "resume", d)
    BY <1>2, <1>4 DEF RequestsTravel
  <1>5. CASE requests' # requests
    <2>1. requests' = [requests EXCEPT ![c] = r]
      BY <1>5
    <2>2. requests'[c] = r /\ \A d \in DOMAIN requests : d # c => requests'[d] = requests[d]
      BY <1>1, <2>1
    <2>3. /\ r.stage = "main" => Queued(mainQueue', "token", c)
          /\ r.stage # "worker"
      <3>1. [kind |-> "token", request |-> c].kind = "token"
            /\ [kind |-> "token", request |-> c].request = c
        OBVIOUS
      <3>2. [kind |-> "token", request |-> c] \in Blocks =>
               Queued(Append(mainQueue, [kind |-> "token", request |-> c]), "token", c)
        BY <1>1, <3>1, QueuedBehind
      <3>. QED
        BY <1>5, <3>2
    <2>. QED
      BY <1>3, <1>4, <2>2, <2>3 DEF RequestsTravel
  <1>6. CASE requests' = requests
    BY <1>4, <1>6 DEF RequestsTravel
  <1>. QED
    BY <1>5, <1>6

\* The provider takes a block of the main queue.
LEMMA TakeTravels ==
    ASSUME CredentialsInv, RequestsTravel, TakeNotice \/ TakeToken
    PROVE  RequestsTravel'
  <1>1. worker \in Seq(Tasks) /\ mainQueue \in Seq(Blocks) /\ requests \in Seq(Requests)
    BY DEF CredentialsInv, TypeOK
  <1>2. CASE TakeNotice
    <2>. DEFINE t == [kind |-> "credential", user |-> Head(mainQueue).user]
    <2>1. /\ mainQueue # <<>> /\ Head(mainQueue).kind = "notice" /\ mainQueue' = Tail(mainQueue)
          /\ worker' = Append(worker, t) /\ UNCHANGED requests
      BY <1>2 DEF TakeNotice
    <2>2. Head(mainQueue) \in Blocks
      BY <1>1, <2>1, TailFacts
    <2>3. t \in Tasks
      BY <2>1, <2>2 DEF Blocks, Tasks
    <2>. HIDE DEF t
    <2>4. \A c : Queued(worker, "resume", c) => Queued(worker', "resume", c)
      BY <1>1, <2>1, <2>3, QueuedBehind
    <2>5. \A c : Queued(mainQueue, "token", c) => Queued(mainQueue', "token", c)
      BY <1>1, <2>1, QueuedInTail
    <2>. QED
      BY <2>1, <2>4, <2>5 DEF RequestsTravel
  <1>3. CASE TakeToken
    <2>. DEFINE h == Head(mainQueue).request
                t == [kind |-> "resume", request |-> h]
    <2>1. mainQueue # <<>> /\ Head(mainQueue).kind = "token" /\ mainQueue' = Tail(mainQueue)
      BY <1>3 DEF TakeToken
    <2>2. h \in DOMAIN requests
      BY <1>1, <2>1, TailFacts DEF CredentialsInv, MainInOrder, Told, NoNoticeBefore
    <2>3. \A c : Queued(mainQueue, "token", c) /\ c # h => Queued(mainQueue', "token", c)
      BY <1>1, <2>1, QueuedInTail
    <2>4. t \in Tasks /\ t.kind = "resume" /\ t.request = h
      BY <1>1, <2>2 DEF Tasks
    <2>5. \/ requests' = [requests EXCEPT ![h] = Asked] /\ worker' = worker
          \/ /\ requests' = [requests EXCEPT ![h] = [requests[h] EXCEPT !.stage = "worker"]]
             /\ worker' = Append(worker, t)
      BY <1>3 DEF TakeToken
    <2>6. Asked.stage = "asked" /\ [requests[h] EXCEPT !.stage = "worker"].stage = "worker"
      <3>1. requests[h] \in Requests
        BY <1>1, <2>2
      <3>2. Asked.stage = "asked"
        BY NewRequests DEF CredentialsInv
      <3>. QED
        BY <3>1, <3>2 DEF Requests
    <2>. HIDE DEF t, h
    <2>7. /\ DOMAIN requests' = DOMAIN requests
          /\ \A c \in DOMAIN requests : c # h => requests'[c] = requests[c]
          /\ \/ requests'[h].stage = "asked" /\ worker' = worker
             \/ requests'[h].stage = "worker" /\ worker' = Append(worker, t)
      BY <1>1, <2>2, <2>5, <2>6
    <2>8. /\ \A c : Queued(worker, "resume", c) => Queued(worker', "resume", c)
          /\ requests'[h].stage = "worker" => Queued(worker', "resume", h)
      BY <1>1, <2>4, <2>7, QueuedBehind
    <2>. QED
      BY <2>3, <2>7, <2>8 DEF RequestsTravel
  <1>. QED
    BY <1>2, <1>3

\* The worker takes a token.
LEMMA ResumeTravels ==
    ASSUME CredentialsInv, RequestsTravel, ResumeStart
    PROVE  RequestsTravel'
  <1>. DEFINE h == Head(worker).request
              done == [requests EXCEPT ![h] = [requests[h] EXCEPT !.stage = "done"]]
  <1>1. worker \in Seq(Tasks) /\ mainQueue' = mainQueue /\ requests \in Seq(Requests)
    BY DEF CredentialsInv, TypeOK, ResumeStart
  <1>2. worker # <<>> /\ Head(worker).kind = "resume" /\ worker' = Tail(worker)
    BY DEF ResumeStart
  <1>3. h \in DOMAIN requests
    BY <1>1, <1>2, TailFacts DEF CredentialsInv, WorkerInOrder, InEffect
  <1>4. \A c : Queued(worker, "resume", c) /\ c # h => Queued(worker', "resume", c)
    BY <1>1, <1>2, QueuedInTail
  <1>5. requests' = done \/ requests' = Append(done, NoRequest)
    BY DEF ResumeStart
  <1>6. /\ done \in Seq(Requests) /\ DOMAIN done = DOMAIN requests /\ done[h].stage = "done"
        /\ \A c \in DOMAIN requests : c # h => done[c] = requests[c]
    <2>0. requests[h] \in Requests
      BY <1>1, <1>3
    <2>. DEFINE r == [requests[h] EXCEPT !.stage = "done"]
    <2>1. r \in Requests /\ r.stage = "done"
      BY <2>0 DEF Requests
    <2>2. done = [requests EXCEPT ![h] = r]
      OBVIOUS
    <2>. HIDE DEF r, done
    <2>. QED
      BY <1>1, <1>3, <2>1, <2>2, ReplacedFacts
  <1>7. NoRequest \in Requests /\ NoRequest.stage = "none"
    BY NewRequests DEF CredentialsInv
  <1>. HIDE DEF h, done
  <1>8. ASSUME NEW c \in DOMAIN requests'
        PROVE  \/ c \in DOMAIN requests /\ c # h /\ requests'[c] = requests[c]
               \/ requests'[c].stage \in {"done", "none"}
    <2>1. CASE requests' = done
      BY <1>6, <1>8, <2>1
    <2>2. CASE requests' = Append(done, NoRequest)
      <3>1. /\ Len(done) \in Nat /\ DOMAIN done = 1..Len(done)
            /\ DOMAIN requests' = 1..(Len(done) + 1)
            /\ \A i \in 1..Len(done) : requests'[i] = done[i]
            /\ requests'[Len(done) + 1] = NoRequest
        BY <1>6, <1>7, <2>2, AppendFacts
      <3>2. c \in DOMAIN done \/ c = Len(done) + 1
        BY <1>8, <3>1
      <3>. QED
        BY <1>6, <1>7, <3>1, <3>2
    <2>. QED
      BY <1>5, <2>1, <2>2
  <1>. QED
    BY <1>1, <1>4, <1>8 DEF RequestsTravel

LEMMA RequestsTravelNext ==
    ASSUME CredentialsInv, RequestsTravel, [Next]_vars
    PROVE  RequestsTravel'
  <1>1. /\ requests \in Seq(Requests) /\ 1..CloseCount = DOMAIN requests
        /\ CloseCount \in DOMAIN requests
    BY NewRequests DEF CredentialsInv, TypeOK, CloseCount
  <1>2. ASSUME NEW u \in Owners, AuthChanges(u) PROVE RequestsTravel'
    <2>1. [kind |-> "notice", user |-> u] \in Blocks
      BY DEF Blocks
    <2>2. /\ UNCHANGED <<requests, worker>>
          /\ \E e \in Blocks : mainQueue' = Append(mainQueue, e)
      BY <1>2, <2>1 DEF AuthChanges, Posted
    <2>. QED
      BY <1>1, <2>2, RequestStepTravels
  <1>3. ASSUME NEW c \in DOMAIN requests, AuthReads(c) PROVE RequestsTravel'
    <2>. DEFINE r == [requests[c] EXCEPT !.stage = "fetching", !.user = authUser]
    <2>1. requests' = [requests EXCEPT ![c] = r] /\ UNCHANGED <<mainQueue, worker>>
      BY <1>3 DEF AuthReads
    <2>2. r.stage = "fetching"
      BY <1>1 DEF Requests
    <2>. HIDE DEF r
    <2>. QED
      BY <2>1, <2>2, RequestStepTravels
  <1>4. ASSUME NEW c \in DOMAIN requests, NEW ok \in BOOLEAN, AuthAnswers(c, ok)
        PROVE  RequestsTravel'
    <2>. DEFINE r == [requests[c] EXCEPT !.stage = "main", !.ok = ok]
                b == [kind |-> "token", request |-> c]
    <2>1. /\ requests' = [requests EXCEPT ![c] = r] /\ mainQueue' = Append(mainQueue, b)
          /\ UNCHANGED worker
      BY <1>4 DEF AuthAnswers
    <2>2. r.stage = "main"
      BY <1>1 DEF Requests
    <2>3. b \in Blocks
      BY <1>1 DEF Blocks
    <2>. HIDE DEF r
    <2>. QED
      BY <2>1, <2>2, <2>3, RequestStepTravels
  <1>5. CASE TakeNotice \/ TakeToken
    BY <1>5, TakeTravels
  <1>6. CASE AppWrites
    <2>1. [kind |-> "write", user |-> tokenUser] \in Tasks
      BY DEF Tasks, CredentialsInv, TypeOK
    <2>2. /\ UNCHANGED <<requests, mainQueue>>
          /\ \E e \in Tasks : worker' = Append(worker, e)
      BY <1>6, <2>1 DEF AppWrites
    <2>. QED
      BY <1>1, <2>2, RequestStepTravels
  <1>7. CASE HandleWrite
    <2>1. /\ worker # <<>> /\ Head(worker).kind = "write" /\ worker' = Tail(worker)
          /\ UNCHANGED mainQueue
      BY <1>7 DEF HandleWrite
    <2>2. Kept
      <3>1. CASE IsStarted
        BY <1>7, <3>1, NothingKept DEF HandleWrite
      <3>2. CASE ~IsStarted
        <4>1. stream.state \in {"Initial", "Error", "Backoff"}
          BY <3>2 DEF CredentialsInv, TypeOK, Streams, IsStarted
        <4>2. To(IF stream.state = "Error" THEN "Backoff" ELSE "Starting")
          BY <1>7, <3>2 DEF HandleWrite, Start
        <4>. QED
          BY <4>1, <4>2, ToKeeps
      <3>. QED
        BY <3>1, <3>2
    <2>. QED
      BY <2>1, <2>2, StreamStepsTravel
  <1>8. CASE HandleCredentialChange
    <2>1. /\ worker # <<>> /\ Head(worker).kind = "credential" /\ worker' = Tail(worker)
          /\ UNCHANGED mainQueue /\ RestartNetwork(engineUser')
      BY <1>8 DEF HandleCredentialChange
    <2>2. Kept
      BY <2>1, RestartKeeps
    <2>. QED
      BY <2>1, <2>2, StreamStepsTravel
  <1>9. CASE ResumeStart
    BY <1>9, ResumeTravels
  <1>10. CASE BackoffElapses \/ LastWriteAcknowledged \/ StreamFails \/ IdleTimeout
              \/ ConnectivityChanges
    <2>1. UNCHANGED <<mainQueue, worker>>
      BY <1>10 DEF BackoffElapses, LastWriteAcknowledged, StreamFails, IdleTimeout,
        ConnectivityChanges
    <2>2. Kept
      <3>1. CASE BackoffElapses
        BY <3>1, ToKeeps DEF BackoffElapses
      <3>2. CASE LastWriteAcknowledged
        BY <3>2, NothingKept DEF LastWriteAcknowledged
      <3>3. CASE StreamFails
        <4>1. \E state \in {"Initial", "Starting", "Backoff", "Error"} : CloseTo(state)
          BY <3>3 DEF StreamFails, CloseOnError
        <4>. QED
          BY <4>1, CloseToKeeps
      <3>4. CASE IdleTimeout
        BY <3>4, CloseToKeeps DEF IdleTimeout
      <3>5. CASE ConnectivityChanges
        BY <3>5, RestartKeeps DEF ConnectivityChanges
      <3>. QED
        BY <1>10, <3>1, <3>2, <3>3, <3>4, <3>5
    <2>. QED
      BY <2>1, <2>2, StreamStepsTravel
  <1>11. CASE UNCHANGED vars
    BY <1>11 DEF vars, RequestsTravel, Queued
  <1>. QED
    BY <1>1, <1>2, <1>3, <1>4, <1>5, <1>6, <1>7, <1>8, <1>9, <1>10, <1>11 DEF Next

\* A stream that waits for its token waits for one that is on its way: FIRAuth is
\* asked, or the answer to this start lies on the main queue or on the worker's.
THEOREM StartsAreAnswered == Spec => []StartsNeverStall
  <1>1. Init => RequestsTravel
    <2>. SUFFICES ASSUME Init PROVE RequestsTravel
      OBVIOUS
    <2>1. DOMAIN requests = {1} /\ requests[1].stage = "none"
      BY DEF Init, NoRequest
    <2>. QED
      BY <2>1 DEF RequestsTravel
  <1>2. CredentialsInv /\ RequestsTravel /\ [Next]_vars => RequestsTravel'
    BY RequestsTravelNext
  <1>3. CredentialsInv /\ RequestsTravel => StartsNeverStall
    <2>. SUFFICES ASSUME CredentialsInv, RequestsTravel, stream.state = "Starting"
                  PROVE  \/ requests[CloseCount].stage \in {"asked", "fetching"}
                         \/ Queued(mainQueue, "token", CloseCount)
                         \/ Queued(worker, "resume", CloseCount)
      BY DEF StartsNeverStall
    <2>1. requests[CloseCount].stage \notin {"none", "done"}
      BY DEF CredentialsInv, StageOfState
    <2>2. CloseCount \in DOMAIN requests /\ requests[CloseCount] \in Requests
      BY NewRequests DEF CredentialsInv, TypeOK
    <2>3. requests[CloseCount].stage \in {"asked", "fetching", "main", "worker"}
      BY <2>1, <2>2 DEF Requests
    <2>. QED
      BY <2>2, <2>3 DEF RequestsTravel
  <1>. QED
    BY <1>1, <1>2, <1>3, CredentialsCorrect, PTL DEF Spec

=============================================================================
