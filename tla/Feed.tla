-------------------------------- MODULE Feed --------------------------------
(***************************************************************************)
(* The list of food events on the screens of one device: the view models   *)
(* (ViewModels/FoodEventViewModel.swift), the views that create them and   *)
(* ask them again (Views/Find/Feed/FoodFeedView.swift, the map, the        *)
(* submission sheet), and the part of the Firestore client that feeds      *)
(* them.                                                                   *)
(*                                                                         *)
(* Every view model runs the same query, and getEvents adds one more       *)
(* listener to it each time; none is ever removed.  Firestore keeps one    *)
(* view of the query for all listeners, on its worker queue, and calls     *)
(* them back on the main thread in the order the events were raised.  An   *)
(* error of the query ends every listener at once.  Callbacks of different *)
(* view models touch different lists, so only the order of one model's is  *)
(* kept.                                                                   *)
(*                                                                         *)
(* One behaviour is one process: Firestore's cache is what it finds and    *)
(* nothing else is left of the process before.                             *)
(***************************************************************************)
EXTENDS Naturals, Sequences, FiniteSets

CONSTANTS
    Docs,        \* documents of "Food Submissions"
    Decodable,   \* those that decode as a FoodEvent
    Models,      \* view models; bounds how many are created
    Listeners,   \* snapshot listeners; bounds how many are added
    MaxVersion,  \* bound on the number of changes to the documents
    None         \* no view model

ASSUME FeedAssumption ==
    /\ Decodable \subseteq Docs
    /\ None \notin Models
    /\ IsFiniteSet(Listeners)
    /\ MaxVersion \in Nat

VARIABLES
    docs,        \* the query's documents as the local store has them
    version,     \* history: how often docs has changed, from 1
    online,      \* what the client thinks of its connection
    synced,      \* the view is up to date with the server (not from_cache)
    listeners,   \* listener -> its state
    mainQueue,   \* view model -> the callbacks that wait for the main thread
    foodEvents,  \* FoodEventViewModel.foodEvents, as a set
    shown        \* history: the version of docs that foodEvents shows, 0 for none

vars == <<docs, version, online, synced, listeners, mainQueue, foodEvents, shown>>

-----------------------------------------------------------------------------
OnlineStates == {"unknown", "online", "offline"}

\* requested: on the way to the worker queue; waiting: it has not raised its
\* initial event; raised: it has; dead: the query failed.
\* since: history, the version at the request.
ListenerStates ==
    [state : {"unused", "requested", "waiting", "raised", "dead"},
     model : Models \cup {None}, since : Nat]

Unused == [state |-> "unused", model |-> None, since |-> 0]

\* What a callback is called with: a snapshot or an error.
Callbacks == [error : BOOLEAN, docs : SUBSET Docs, version : Nat]

Snapshot(D, n) == [error |-> FALSE, docs |-> D, version |-> n]

Failure == [error |-> TRUE, docs |-> {}, version |-> version]

Live(l) == listeners[l].state \in {"waiting", "raised"}

Listening == \E l \in Listeners : Live(l)

\* The callbacks of m once each of the listeners in S, where they are m's, has
\* been called with the same event.
Raised(S, event) ==
    [m \in Models |->
        mainQueue[m] \o [i \in 1 .. Cardinality({l \in S : listeners[l].model = m}) |-> event]]

\* A first snapshot is held back while the client is waiting for the server and
\* the cache has nothing.
ShouldRaiseInitialEvent(D, isSynced, state) == isSynced \/ D # {} \/ state = "offline"

-----------------------------------------------------------------------------
(* The view models                                                         *)

\* ref.addSnapshotListener
Requested(l, m) ==
    /\ listeners[l].state = "unused"
    /\ listeners' = [listeners EXCEPT ![l] =
            [state |-> "requested", model |-> m, since |-> version]]

Created(m) == \E l \in Listeners : listeners[l].model = m

\* A view model is created, by the app or by a view whose parent is redrawn;
\* init calls getEvents.
FoodEventViewModel(m, l) ==
    /\ ~Created(m)
    /\ Requested(l, m)
    /\ UNCHANGED <<docs, version, online, synced, mainQueue, foodEvents, shown>>

\* onAppear of the feed or of the map: one more listener.
getEvents(m, l) ==
    /\ Created(m)
    /\ Requested(l, m)
    /\ UNCHANGED <<docs, version, online, synced, mainQueue, foodEvents, shown>>

CallbackOutOfOrder(m) ==
    LET event == mainQueue[m][Len(mainQueue[m])] IN
    /\ mainQueue[m] # << >>
    /\ mainQueue' = [mainQueue EXCEPT ![m] = SubSeq(@, 1, Len(@) - 1)]
    /\ IF event.error
       THEN UNCHANGED <<foodEvents, shown>>
       ELSE /\ foodEvents' = [foodEvents EXCEPT ![m] = event.docs \cap Decodable]
            /\ shown' = [shown EXCEPT ![m] = event.version]
    /\ UNCHANGED <<docs, version, online, synced, listeners>>
CallbackAllOrNothing(m) ==
    LET event == Head(mainQueue[m]) IN
    /\ mainQueue[m] # << >>
    /\ mainQueue' = [mainQueue EXCEPT ![m] = Tail(@)]
    /\ IF event.error \/ ~(event.docs \subseteq Decodable)
       THEN UNCHANGED <<foodEvents, shown>>
       ELSE /\ foodEvents' = [foodEvents EXCEPT ![m] = event.docs]
            /\ shown' = [shown EXCEPT ![m] = event.version]
    /\ UNCHANGED <<docs, version, online, synced, listeners>>
\* The callback at the head of m's queue runs.  An error has no documents and
\* returns; a snapshot replaces the list by what decodes of it.
Callback(m) ==
    LET event == Head(mainQueue[m]) IN
    /\ mainQueue[m] # << >>
    /\ mainQueue' = [mainQueue EXCEPT ![m] = Tail(@)]
    /\ IF event.error
       THEN UNCHANGED <<foodEvents, shown>>
       ELSE /\ foodEvents' = [foodEvents EXCEPT ![m] = event.docs \cap Decodable]
            /\ shown' = [shown EXCEPT ![m] = event.version]
    /\ UNCHANGED <<docs, version, online, synced, listeners>>

-----------------------------------------------------------------------------
(* The worker queue of Firestore                                           *)

AddQueryListenerSilently(l) ==
    /\ listeners[l].state = "requested"
    /\ synced' = (Listening /\ synced)
    /\ listeners' = [listeners EXCEPT ![l].state = "raised"]
    /\ UNCHANGED <<docs, version, online, mainQueue, foodEvents, shown>>
\* The first listener initialises the view from the cache; a later one gets
\* the view's last snapshot.
AddQueryListener(l) ==
    LET isSynced == Listening /\ synced
        raises == ShouldRaiseInitialEvent(docs, isSynced, online)
    IN
    /\ listeners[l].state = "requested"
    /\ synced' = isSynced
    /\ listeners' = [listeners EXCEPT ![l].state = IF raises THEN "raised" ELSE "waiting"]
    /\ mainQueue' = Raised(IF raises THEN {l} ELSE {}, Snapshot(docs, version))
    /\ UNCHANGED <<docs, version, online, foodEvents, shown>>

\* The local store changes (a write of this device, its acknowledgement or
\* rejection, a change of user, an event of the server) or the server says that
\* the view is complete, which it stays while the client is not offline.  A
\* listener that has raised its initial event is called only if documents changed.
OnViewSnapshots(D, isSynced) ==
    LET waiting == {l \in Listeners : listeners[l].state = "waiting"}
        raised == {l \in Listeners : listeners[l].state = "raised"}
        initial == IF ShouldRaiseInitialEvent(D, isSynced, online) THEN waiting ELSE {}
        called == IF D = docs THEN initial ELSE initial \cup raised
        n == IF D = docs THEN version ELSE version + 1
    IN
    /\ D # docs \/ isSynced # synced
    /\ isSynced => synced \/ (Listening /\ online = "online")
    /\ n <= MaxVersion
    /\ docs' = D
    /\ version' = n
    /\ synced' = isSynced
    /\ listeners' = [l \in Listeners |->
            IF l \in initial THEN [listeners[l] EXCEPT !.state = "raised"] ELSE listeners[l]]
    /\ mainQueue' = Raised(called, Snapshot(D, n))
    /\ UNCHANGED <<online, foodEvents, shown>>

HandleOnlineStateChangeSilently(state) ==
    /\ state # online
    /\ online' = state
    /\ synced' = (synced /\ state # "offline")
    /\ UNCHANGED <<docs, version, listeners, mainQueue, foodEvents, shown>>
\* Going offline ends the wait for the server.
HandleOnlineStateChange(state) ==
    LET initial == IF state = "offline"
                   THEN {l \in Listeners : listeners[l].state = "waiting"} ELSE {}
    IN
    /\ state # online
    /\ online' = state
    /\ synced' = (synced /\ state # "offline")
    /\ listeners' = [l \in Listeners |->
            IF l \in initial THEN [listeners[l] EXCEPT !.state = "raised"] ELSE listeners[l]]
    /\ mainQueue' = Raised(initial, Snapshot(docs, version))
    /\ UNCHANGED <<docs, version, foodEvents, shown>>

\* The server refuses the query (the user was signed out, an index is missing):
\* every listener is told and dropped, and the view with them.
OnError ==
    LET live == {l \in Listeners : Live(l)} IN
    /\ Listening
    /\ listeners' = [l \in Listeners |->
            IF l \in live THEN [listeners[l] EXCEPT !.state = "dead"] ELSE listeners[l]]
    /\ mainQueue' = Raised(live, Failure)
    /\ synced' = FALSE
    /\ UNCHANGED <<docs, version, online, foodEvents, shown>>

-----------------------------------------------------------------------------
Init ==
    /\ docs \in SUBSET Docs
    /\ version = 1
    /\ online = "unknown"
    /\ synced = FALSE
    /\ listeners = [l \in Listeners |-> Unused]
    /\ mainQueue = [m \in Models |-> << >>]
    /\ foodEvents = [m \in Models |-> {}]
    /\ shown = [m \in Models |-> 0]

Next ==
    \/ \E m \in Models, l \in Listeners : FoodEventViewModel(m, l) \/ getEvents(m, l)
    \/ \E m \in Models : Callback(m)
    \/ \E l \in Listeners : AddQueryListener(l)
    \/ \E D \in SUBSET Docs, isSynced \in BOOLEAN : OnViewSnapshots(D, isSynced)
    \/ \E state \in OnlineStates : HandleOnlineStateChange(state)
    \/ OnError

Spec == Init /\ [][Next]_vars

\* Both queues run what is on them.  Nothing is assumed of the server, and not
\* that the client ever calls itself offline.
FairSpec ==
    /\ Spec
    /\ \A m \in Models : WF_vars(Callback(m))
    /\ \A l \in Listeners : WF_vars(AddQueryListener(l))

-----------------------------------------------------------------------------
(* Properties                                                              *)

TypeOK ==
    /\ docs \in SUBSET Docs
    /\ version \in Nat
    /\ online \in OnlineStates
    /\ synced \in BOOLEAN
    /\ listeners \in [Listeners -> ListenerStates]
    /\ mainQueue \in [Models -> Seq(Callbacks)]
    /\ foodEvents \in [Models -> SUBSET Decodable]
    /\ shown \in [Models -> Nat]

\* A list never goes back to older documents, although a view model has several
\* listeners, added and ended at any time, that all replace the whole list.
NeverOlder == [][\A m \in Models : shown'[m] >= shown[m]]_vars

\* Once its callbacks have run, a view model with a listener that has raised its
\* initial event shows what is stored, less what does not decode: no listener
\* misses a change, whenever it was added.
FeedIsCurrent ==
    \A l \in Listeners :
        LET m == listeners[l].model IN
        listeners[l].state = "raised" /\ mainQueue[m] = << >>
            => foodEvents[m] = docs \cap Decodable

\* There is nothing to show: the server has not spoken, the cache is empty and
\* the client does not think itself offline.
NothingToShow == ~synced /\ docs = {} /\ online # "offline"

\* Every getEvents is answered with documents at least as new as the request,
\* unless the query is refused, or from some moment on its listener waits for a
\* server that stays silent, with nothing else to show.
RequestIsAnswered ==
    \A l \in Listeners, m \in Models, n \in 1 .. MaxVersion :
        listeners[l] = [state |-> "requested", model |-> m, since |-> n]
            ~> \/ listeners[l].state = "dead" \/ shown[m] >= n
               \/ [](listeners[l].state = "waiting" /\ NothingToShow)

\* A listener that the worker has added waits only while there is nothing to
\* show: going offline, an answer of the server and documents that appear in the
\* cache end the wait of all that wait.  Once its first event is raised,
\* documents at least as new as the request are shown or their callback waits.
RequestsNeverStall ==
    \A l \in Listeners :
        LET m == listeners[l].model
            since == listeners[l].since
        IN
        /\ listeners[l].state = "waiting" => NothingToShow
        /\ listeners[l].state = "raised" =>
                \/ shown[m] >= since
                \/ \E i \in 1 .. Len(mainQueue[m]) :
                        ~mainQueue[m][i].error /\ mainQueue[m][i].version >= since

-----------------------------------------------------------------------------
(* The inductive invariant                                                 *)

\* What waits for m is no older than what m shows, in order, and no newer than
\* the documents are.
QueueOrdered(m) ==
    /\ shown[m] <= version
    /\ \A i \in 1 .. Len(mainQueue[m]) :
            shown[m] <= mainQueue[m][i].version /\ mainQueue[m][i].version <= version
    /\ \A i, j \in 1 .. Len(mainQueue[m]) :
            i <= j => mainQueue[m][i].version <= mainQueue[m][j].version

\* What claims to be of the current version is what is stored.
QueueTrue(m) ==
    /\ shown[m] = version => foodEvents[m] = docs \cap Decodable
    /\ \A i \in 1 .. Len(mainQueue[m]) :
            ~mainQueue[m][i].error /\ mainQueue[m][i].version = version
                => mainQueue[m][i].docs = docs

\* The current version has reached m or is on its way.
Served(m) ==
    \/ shown[m] = version
    \/ \E i \in 1 .. Len(mainQueue[m]) :
            ~mainQueue[m][i].error /\ mainQueue[m][i].version = version

ListenersServed ==
    \A l \in Listeners :
        /\ listeners[l].state # "unused" => listeners[l].model \in Models
        /\ listeners[l].state = "raised" => Served(listeners[l].model)

FeedInv ==
    /\ TypeOK
    /\ version >= 1
    /\ \A m \in Models : QueueOrdered(m) /\ QueueTrue(m)
    /\ ListenersServed

=============================================================================
