---------------------------- MODULE Credentials ----------------------------
(***************************************************************************)
(* Under whose account the Firestore client talks to the server.  Three    *)
(* queues carry the answer: FIRAuth changes its current user on a work     *)
(* queue of its own and posts a notice to the main queue; the credentials  *)
(* provider (auth/firebase_credentials_provider_apple.mm) takes the notice *)
(* on the main queue and tells the client through the worker queue; the    *)
(* worker restarts its streams.  The token of a stream goes the same way   *)
(* round: asked for by the worker, read by FIRAuth, delivered on the main  *)
(* queue, and enqueued on the worker, where the stream starts with it.     *)
(* A token request never ends with the token of another account than the   *)
(* one whose writes the worker sends, although nobody waits for anybody.   *)
(*                                                                         *)
(* The stream is the write stream (remote/stream.cc), reduced to whether   *)
(* it is started; WritePipeline models what it carries.                    *)
(***************************************************************************)
EXTENDS Naturals, Sequences

CONSTANTS
    Users,       \* accounts
    None,        \* nobody is signed in
    MaxNotices,  \* bound on the changes FIRAuth posts
    MaxCloses,   \* bound on the closes that are not due to a notice
    MaxTasks     \* bound on the worker tasks under which the app writes

ASSUME CredentialsAssumption ==
    /\ None \notin Users
    /\ MaxNotices \in Nat
    /\ MaxCloses \in Nat
    /\ MaxTasks \in Nat

Owners == Users \cup {None}

VARIABLES
    authUser,    \* FIRAuth's _currentUser
    notices,     \* how many changes FIRAuth has posted
    mainQueue,   \* blocks on the main queue: notices and tokens
    tokenUser,   \* the provider's current_user
    counter,     \* the provider's token_counter
    requests,    \* for each close count so far, the token request made at it
    worker,      \* tasks on the worker queue
    engineUser,  \* SyncEngine's current_user_
    stream,      \* the write stream: state_, and the account of its token
    pending      \* the accounts whose mutation queue is not empty

vars == <<authUser, notices, mainQueue, tokenUser, counter, requests, worker,
          engineUser, stream, pending>>

-----------------------------------------------------------------------------
\* A request is being asked, then with FIRAuth, then on the main queue, then on
\* the worker; asked again when the account changed meanwhile.
Requests ==
    [stage : {"none", "asked", "fetching", "main", "worker", "done"},
     counter : Nat, user : Owners, ok : BOOLEAN]

NoRequest == [stage |-> "none", counter |-> 0, user |-> None, ok |-> FALSE]

\* GetToken: the request remembers the provider's counter.
Asked == [NoRequest EXCEPT !.stage = "asked", !.counter = counter]

\* close_count_, from 1.
CloseCount == Len(requests)

\* request: the close count a token was asked at.
Blocks == [kind : {"notice"}, user : Owners] \cup [kind : {"token"}, request : Nat]

\* The user of a write is the account the provider knew when the app called.
Tasks ==
    [kind : {"credential", "write"}, user : Owners] \cup [kind : {"resume"}, request : Nat]

Streams == [state : {"Initial", "Starting", "Backoff", "Open", "Error"}, user : Owners]

IsStarted == stream.state \in {"Starting", "Backoff", "Open"}

Init ==
    /\ authUser \in Owners
    /\ notices = 0
    /\ mainQueue = <<>>
    /\ tokenUser = authUser
    /\ counter = 0
    /\ requests = <<NoRequest>>
    /\ worker = <<>>
    /\ engineUser = authUser
    /\ stream = [state |-> "Initial", user |-> None]
    /\ pending = {}

-----------------------------------------------------------------------------
(* The stream.  To is the state, and Starting asks for a token; a close    *)
(* begins a new close count.                                               *)

To(state) ==
    /\ stream' = [state |-> state, user |-> None]
    /\ requests' = IF state = "Starting"
                   THEN [requests EXCEPT ![CloseCount] = Asked] ELSE requests

CloseTo(state) ==
    /\ stream' = [state |-> state, user |-> None]
    /\ requests' = Append(requests, IF state = "Starting" THEN Asked ELSE NoRequest)

\* Start after an error backs off first.
Start == To(IF stream.state = "Error" THEN "Backoff" ELSE "Starting")

CloseOnErrorForGood(left) == CloseTo("Error")

\* The stream ends with an error and is started again while writes remain.
CloseOnError(left) == CloseTo(IF engineUser \in left THEN "Backoff" ELSE "Error")

RestartNetworkIfStopped(u) ==
    IF IsStarted THEN UNCHANGED <<stream, requests>>
    ELSE To(IF u \in pending THEN "Starting" ELSE "Initial")
\* RestartNetwork for account u: the streams stop without an error, forget the
\* last one and start again if u has writes.
RestartNetwork(u) ==
    LET next == IF u \in pending THEN "Starting" ELSE "Initial"
    IN  IF IsStarted THEN CloseTo(next) ELSE To(next)

-----------------------------------------------------------------------------
(* FIRAuth's work queue and the main queue.                                *)

\* possiblyPostAuthStateChangeNotification.
Posted(u) == Append(mainQueue, [kind |-> "notice", user |-> u])

\* Sign in, sign out, or a new token for the same account: the user changes
\* and the notice is posted in one block.
AuthChanges(u) ==
    /\ notices < MaxNotices
    /\ u # None \/ authUser # None
    /\ authUser' = u
    /\ notices' = notices + 1
    /\ mainQueue' = Posted(u)
    /\ UNCHANGED <<tokenUser, counter, requests, worker, engineUser, stream, pending>>

\* getTokenForcingRefresh reads the current user on the work queue.
AuthReads(c) ==
    /\ requests[c].stage = "asked"
    /\ requests' = [requests EXCEPT ![c] = [@ EXCEPT !.stage = "fetching", !.user = authUser]]
    /\ UNCHANGED <<authUser, notices, mainQueue, tokenUser, counter, worker,
                   engineUser, stream, pending>>

\* Its callback is dispatched to the main queue, with a token or an error.
AuthAnswers(c, ok) ==
    /\ requests[c].stage = "fetching"
    /\ ok \/ CloseCount <= MaxCloses
    /\ requests' = [requests EXCEPT ![c] = [@ EXCEPT !.stage = "main", !.ok = ok]]
    /\ mainQueue' = Append(mainQueue, [kind |-> "token", request |-> c])
    /\ UNCHANGED <<authUser, notices, tokenUser, counter, worker, engineUser,
                   stream, pending>>

\* The provider's observer of the notice.
TakeNotice ==
    /\ mainQueue # <<>>
    /\ Head(mainQueue).kind = "notice"
    /\ mainQueue' = Tail(mainQueue)
    /\ tokenUser' = Head(mainQueue).user
    /\ counter' = counter + 1
    /\ worker' = Append(worker, [kind |-> "credential", user |-> tokenUser'])
    /\ UNCHANGED <<authUser, notices, requests, engineUser, stream, pending>>

StaleNever(c) == FALSE
\* The account may have changed while the request was outstanding.
Stale(c) == requests[c].counter # counter

\* get_token_callback: a token that may be another account's is asked for again.
TakeToken ==
    /\ mainQueue # <<>>
    /\ Head(mainQueue).kind = "token"
    /\ mainQueue' = Tail(mainQueue)
    /\ LET c == Head(mainQueue).request
       IN  IF Stale(c)
           THEN /\ requests' = [requests EXCEPT ![c] = Asked]
                /\ UNCHANGED worker
           ELSE /\ requests' = [requests EXCEPT ![c] = [@ EXCEPT !.stage = "worker"]]
                /\ worker' = Append(worker, [kind |-> "resume", request |-> c])
    /\ UNCHANGED <<authUser, notices, tokenUser, counter, engineUser, stream, pending>>

\* The app writes on the main thread.
AppWrites ==
    /\ Len(worker) < MaxTasks
    /\ worker' = Append(worker, [kind |-> "write", user |-> tokenUser])
    /\ UNCHANGED <<authUser, notices, mainQueue, tokenUser, counter, requests,
                   engineUser, stream, pending>>

-----------------------------------------------------------------------------
(* Tasks of the worker queue.                                              *)

\* WriteMutations puts the write into the current user's queue.
HandleWrite ==
    /\ worker # <<>>
    /\ Head(worker).kind = "write"
    /\ worker' = Tail(worker)
    /\ pending' = pending \cup {engineUser}
    /\ IF IsStarted THEN UNCHANGED <<stream, requests>> ELSE Start
    /\ UNCHANGED <<authUser, notices, mainQueue, tokenUser, counter, engineUser>>

CapturedLate == tokenUser
\* The account a credential task carries.
Captured == Head(worker).user

HandleCredentialChange ==
    /\ worker # <<>>
    /\ Head(worker).kind = "credential"
    /\ worker' = Tail(worker)
    /\ engineUser' = Captured
    /\ RestartNetwork(engineUser')
    /\ UNCHANGED <<authUser, notices, mainQueue, tokenUser, counter, pending>>

OvertakenAtOnce(c) == c >= CloseCount
OvertakenNever(c) == FALSE
\* The stream was stopped while it waited for the token.
Overtaken(c) == c # CloseCount

\* A token for an earlier close count is dropped; the stream opens as soon as
\* the call is created, without waiting for the server.
ResumeStart ==
    /\ worker # <<>>
    /\ Head(worker).kind = "resume"
    /\ worker' = Tail(worker)
    /\ LET c == Head(worker).request
           done == [requests EXCEPT ![c] = [@ EXCEPT !.stage = "done"]]
       IN  IF Overtaken(c)
           THEN requests' = done /\ UNCHANGED stream
           ELSE IF requests[c].ok
                THEN /\ requests' = done
                     /\ stream' = [state |-> "Open", user |-> requests[c].user]
                ELSE /\ requests' = Append(done, NoRequest)
                     /\ stream' = [state |-> IF engineUser \in pending
                                             THEN "Backoff" ELSE "Error",
                                   user |-> None]
    /\ UNCHANGED <<authUser, notices, mainQueue, tokenUser, counter, engineUser, pending>>

BackoffElapses ==
    /\ stream.state = "Backoff"
    /\ To("Starting")
    /\ UNCHANGED <<authUser, notices, mainQueue, tokenUser, counter, worker,
                   engineUser, pending>>

\* The last write of the queue is answered, and the stream stays open.
LastWriteAcknowledged ==
    /\ stream.state = "Open"
    /\ engineUser \in pending
    /\ pending' = pending \ {engineUser}
    /\ UNCHANGED <<authUser, notices, mainQueue, tokenUser, counter, requests,
                   worker, engineUser, stream>>

\* The server or the network ends the stream; a refusal takes the first write
\* out of the queue, perhaps the last, and skips the backoff.
StreamFails ==
    /\ stream.state = "Open"
    /\ CloseCount <= MaxCloses
    /\ \/ CloseOnError(pending) /\ UNCHANGED pending
       \/ engineUser \in pending /\ CloseTo("Starting") /\ UNCHANGED pending
       \/ /\ engineUser \in pending
          /\ CloseTo("Initial")
          /\ pending' = pending \ {engineUser}
    /\ UNCHANGED <<authUser, notices, mainQueue, tokenUser, counter, worker, engineUser>>

IdleTimeout ==
    /\ stream.state = "Open"
    /\ engineUser \notin pending
    /\ CloseCount <= MaxCloses
    /\ CloseTo("Initial")
    /\ UNCHANGED <<authUser, notices, mainQueue, tokenUser, counter, worker,
                   engineUser, pending>>

ConnectivityChanges ==
    /\ CloseCount <= MaxCloses
    /\ RestartNetwork(engineUser)
    /\ UNCHANGED <<authUser, notices, mainQueue, tokenUser, counter, worker,
                   engineUser, pending>>

-----------------------------------------------------------------------------
Next ==
    \/ \E u \in Owners : AuthChanges(u)
    \/ \E c \in 1..CloseCount : AuthReads(c) \/ \E ok \in BOOLEAN : AuthAnswers(c, ok)
    \/ TakeNotice \/ TakeToken \/ AppWrites
    \/ HandleWrite \/ HandleCredentialChange \/ ResumeStart
    \/ BackoffElapses \/ LastWriteAcknowledged \/ StreamFails \/ IdleTimeout
    \/ ConnectivityChanges

Spec == Init /\ [][Next]_vars

\* Queues run, FIRAuth answers and backoffs end; nobody signs in, writes, or
\* loses a connection by necessity.
Fairness ==
    /\ WF_vars(TakeNotice) /\ WF_vars(TakeToken)
    /\ WF_vars(HandleWrite) /\ WF_vars(HandleCredentialChange) /\ WF_vars(ResumeStart)
    /\ WF_vars(BackoffElapses)
    /\ \A c \in 1..(MaxCloses + MaxNotices + 1) :
          /\ WF_vars(c <= CloseCount /\ AuthReads(c))
          /\ WF_vars(c <= CloseCount /\ \E ok \in BOOLEAN : AuthAnswers(c, ok))

FairSpec == Spec /\ Fairness

-----------------------------------------------------------------------------
\* Types of the state.
TypeOK ==
    /\ authUser \in Owners /\ tokenUser \in Owners /\ engineUser \in Owners
    /\ notices \in Nat /\ counter \in Nat
    /\ mainQueue \in Seq(Blocks)
    /\ requests \in Seq(Requests) /\ requests # <<>>
    /\ worker \in Seq(Tasks)
    /\ stream \in Streams
    /\ pending \in SUBSET Owners

\* An open stream carries the token of the account whose mutation queue the
\* sync engine sends from (HandleCredentialChange, GetToken): no write reaches
\* the server under another account, whatever the three queues overlap.
StreamOfEngineUser == stream.state = "Open" => stream.user = engineUser

\* When a token that is not dropped reaches the worker, the stream is still
\* Starting: the assertion of ResumeStartWithCredentials, stream.cc:126.
ResumeIsExpected ==
    /\ worker # <<>>
    /\ Head(worker).kind = "resume"
    /\ Head(worker).request = CloseCount
    => stream.state = "Starting"

\* A write is put into the queue of the account that was signed in, as far as
\* the app had been told, when the app called, not of the one that is when the
\* worker gets to it (FirestoreClient::WriteMutations, HandleCredentialChange).
WriteOfItsCaller ==
    worker # <<>> /\ Head(worker).kind = "write" => Head(worker).user = engineUser

\* Once the notices are through, everyone agrees who is signed in.
AllAgree ==
    /\ (\A i \in DOMAIN mainQueue : mainQueue[i].kind # "notice") => tokenUser = authUser
    /\ (\A i \in DOMAIN worker : worker[i].kind # "credential") => engineUser = tokenUser

\* While the account has writes to send, the stream is started: the sync engine
\* never forgets them (ShouldStartWriteStream after every close).
NeverForgotten == engineUser \in pending => IsStarted

\* An entry about request c is on the queue.
Queued(queue, kind, c) ==
    \E i \in DOMAIN queue : queue[i].kind = kind /\ queue[i].request = c

\* A stream that waits for its token has one coming: FIRAuth is asked, or the
\* answer to this very start is on the main queue or on the worker, through
\* every change of account, close and repeated request.
StartsNeverStall ==
    stream.state = "Starting" =>
        \/ requests[CloseCount].stage \in {"asked", "fetching"}
        \/ Queued(mainQueue, "token", CloseCount)
        \/ Queued(worker, "resume", CloseCount)

Lifecycle == INSTANCE StreamLifecycle WITH
    state <- stream.state, needed <- engineUser \in pending

\* The write stream goes through the states of stream.h as the writes of the
\* account in effect need it, whoever that is by then.
ImplementsLifecycle == Lifecycle!Spec

\* Writes of an account that stays signed in get a stream: every token request
\* is answered or made again, and every failed start is retried.
WritesReachAStream ==
    \A u \in Owners :
        engineUser = u /\ u \in pending ~> stream.state = "Open" \/ engineUser # u

\* The provider hands out a token only of the account it believes signed in:
\* get_token_callback cannot tell whose token it holds, and compares counters.
TokenOfTheUser ==
    [][\A c \in 1..CloseCount :
          requests[c].stage = "main" /\ requests'[c].stage = "worker"
          => requests[c].user = tokenUser]_vars

-----------------------------------------------------------------------------
(* The inductive invariant.                                                *)

NoneBefore(queue, kind, i) == \A j \in 1..(i - 1) : queue[j].kind # kind

\* u is the user of the last entry of that kind before place i of the queue, or
\* first where there is none.
Latest(queue, kind, first, u, i) ==
    \/ NoneBefore(queue, kind, i) /\ u = first
    \/ \E j \in 1..(i - 1) : /\ queue[j].kind = kind /\ queue[j].user = u
                             /\ \A k \in (j + 1)..(i - 1) : queue[k].kind # kind

\* Who the provider believes signed in, and whose writes the engine sends, once
\* the entries before i have run.
Told(u, i) == Latest(mainQueue, "notice", tokenUser, u, i)
InEffect(u, i) == Latest(worker, "credential", engineUser, u, i)
NoNoticeBefore(i) == NoneBefore(mainQueue, "notice", i)

\* A token that will be accepted is of the user the provider has then.
MainInOrder ==
    /\ Told(authUser, Len(mainQueue) + 1)
    /\ \A c \in DOMAIN requests :
          /\ requests[c].counter <= counter
          /\ requests[c].stage = "fetching" /\ requests[c].counter = counter
             /\ NoNoticeBefore(Len(mainQueue) + 1) => requests[c].user = tokenUser
    /\ \A i \in DOMAIN mainQueue : mainQueue[i].kind = "token" =>
          /\ mainQueue[i].request \in DOMAIN requests
          /\ requests[mainQueue[i].request].stage = "main"
          /\ requests[mainQueue[i].request].counter = counter /\ NoNoticeBefore(i)
             => requests[mainQueue[i].request].user = tokenUser
          /\ \A j \in DOMAIN mainQueue :
                mainQueue[j].kind = "token" /\ mainQueue[j].request = mainQueue[i].request
                => j = i

\* A task finds the engine's account to be its own.
WorkerInOrder ==
    /\ InEffect(tokenUser, Len(worker) + 1)
    /\ \A i \in DOMAIN worker :
          /\ worker[i].kind = "write" => InEffect(worker[i].user, i)
          /\ worker[i].kind = "resume" =>
                /\ worker[i].request \in DOMAIN requests
                /\ requests[worker[i].request].stage = "worker"
                /\ InEffect(requests[worker[i].request].user, i)
                /\ \A j \in DOMAIN worker :
                      worker[j].kind = "resume" /\ worker[j].request = worker[i].request
                      => j = i

\* The state says how far the token of this close count has come.
StageOfState ==
    LET stage == requests[CloseCount].stage
    IN  /\ stream.state \in {"Initial", "Error", "Backoff"} <=> stage = "none"
        /\ stream.state = "Open" <=> stage = "done"

CredentialsInv ==
    /\ TypeOK /\ MainInOrder /\ WorkerInOrder /\ StageOfState
    /\ StreamOfEngineUser /\ NeverForgotten

=============================================================================
