# Free Eats in TLA+

Free Eats (`FreeFood/FreeFood/`, Swift and SwiftUI, with Firebase Auth and
Firestore under `FreeFood/Pods/`) lets students sign up, announce left-over
food and see what others announced. There are no tests in the repository. The
program is small, but almost everything it does is asynchronous: a tap sends a
call, the screen goes on living, and a completion handler runs later against
whatever screen, user and collection it then finds. These modules describe
that, TLC checks it on small instances and TLAPS proves the safety properties
for all values of the constants.

## The system

| Part | Source | State | Operations | Interacts with |
|---|---|---|---|---|
| Sign-up and sign-in screens | `Views/HomeView.swift`, `ContentView`, `FreeFoodApp` | the navigation stack; per screen: fields, `didError`, `errorInfo`, `isRegistered` / `loginSuccess` | open, back, Submit, alert Close, sign out | SimpleAuthModel (calls, callbacks) |
| SimpleAuthModel | `Models/SignInModel.swift` | `userState` (never updated), `recentlyRegistered` | `signIn`, `register`, `signOut` | Firebase Auth |
| Registration form | `Views/RegistrationView.swift` | fields, `incomplete`, `formError`, chosen foods | Submit, `storeUserDetails` | `currentUser`, collection `users` |
| Food submission form | `Views/Find/Submit Eat/FoodSubmissionView.swift`, `Views/Tabs/FindView.swift` | `showSheet` and the form's `@State` | open, cancel, edit, Submit, `storeFoodSubmission` | place search, username query, `Food Submissions` |
| Place search | `Views/Find/Submit Eat/LocationSearchView.swift` | `landmarks`, `listItemSelected` | search, answer, choose | MapKit |
| Username query | `Models/DataFetch.swift` | none of its own | `fetchUsername` | collection `users` |
| Food feed | `ViewModels/FoodEventViewModel.swift`, `Views/Find/Feed/` | `foodEvents`, the listeners | `getEvents`, a callback per snapshot | `Food Submissions` |
| FoodEvent codec | `Models/FoodEventModel.swift` | none | `encode`, `init(from:)` | feed and form |
| Food map | `Views/Find/Food Map/` | the region | draws the feed's events | feed, location |
| Location | `Models/LocationManager.swift` | last location | authorization, updates | CoreLocation |
| User and food data | `Models/Model.swift` | `userId` counter | `generateUserId`, `getFoods` | the list of foods only |
| Firebase Auth client (vendored) | `Pods/FirebaseAuth` | `currentUser`, kept in the keychain | create, sign in, sign out, forced sign-out | the screens, through callbacks on the main queue |
| Firestore client (vendored) | `Pods/FirebaseFirestore` | collections, listeners, local cache | query, set, listen | all that stores or reads |
| ... credentials | `auth/firebase_credentials_provider_apple.mm`, `remote/stream.cc`, `core/firestore_client.cc` | the account in `FIRAuth`, in the provider and in the sync engine; `token_counter`, `close_count_` | notices, token requests, start and close of a stream | main queue, worker queue, FIRAuth's queue |
| ... write pipeline | `remote/remote_store.cc`, `remote/write_stream.cc`, `core/sync_engine.cc`, `local/` | the mutation queues, `write_pipeline_`, `mutation_callbacks_`, the write stream | write, fill, read a reply, restart, relaunch | the server, through one gRPC call |
| ... watch stream and online state | `remote/remote_store.cc`, `remote/watch_stream.cc`, `remote/online_state_tracker.cc` | `listen_targets_`, the stream, the tracker and its timer | listen, stop listening, open, fail, time out | the listeners of the feed, the server |
| ... gRPC stream | `remote/grpc_stream.cc`, `remote/grpc_completion.cc` | operations on gRPC's queue, completions, tasks, the write buffer | start, write, finish in three ways, a completion's task | both streams, gRPC's thread |

What is hard in it:

* A completion handler runs after any number of other taps: its screen may be
  gone, or another account signed in.
* Nothing prevents a second tap on Submit while the first is unanswered, since
  the guard in `signIn` and `register` reads a `userState` that no code sets.
* `storeUserDetails` and `storeFoodSubmission` read `currentUser` at the moment
  of the tap; one uses it at once, the other after a query.
* The submission sheet closes before the event is written, and the write may
  never happen: the query fails, its answer comes from a cache without the
  profile, or the process ends.
* Signing out pushes a new `HomeView` over the signed-in screens; they stay
  below it. A failed sign-out is ignored (`try?`).
* A view model adds a snapshot listener at every `getEvents` and removes none;
  the listeners of all view models share one view of the query, start at
  different moments and are ended by one error, all at once.
* A write is a success on the screen once it is in the local queue. What brings
  it to the server loses its network, its account and its process in between,
  and the server's replies do not say what they are about.
* Firestore's worker, the main queue, FIRAuth's queue and gRPC's thread hand one
  another tasks; the account, the stream or the call a task was made for may be
  another one by the time it runs.
* The keychain and the collections survive the process, the screens do not.

What makes each part correct: a signed-in screen belongs to the signed-in
account; a profile holds its own account's details; an alert has something to
say; each tap on Submit is answered; an event is written once, complete and
under the name of whoever tapped, or lost for a known cause; the feed shows the
collection as it is and never goes back; a write reaches the server under the
account it was made under, in order, and is reported for what the server did; a
stream always watches what is listened to, its owner is told of its end, and
destroying it leaves nothing behind.
`PROJECT.json` lists the hazards at their lines, with the property aimed at
each.

## Modules

| Module | What it is |
|---|---|
| `Session` | the screens from launch to sign-out, SimpleAuthModel, the registration form and the part of Firebase Auth that answers |
| `MCSession` | `Session` for TLC, with its symmetry set |
| `SessionProofs` | theorems about `Session` |
| `Submission` | the submission sheet, the place search and the username query |
| `FoodBoard` | abstract: what submitting food promises |
| `MCSubmission` | `Submission` for TLC |
| `Feed` | the view models of the food events, their snapshot listeners and the part of the Firestore client that serves them |
| `MCFeed` | `Feed` for TLC |
| `FeedProofs` | theorems about `Feed` |
| `Credentials`, `MCCredentials`, `CredentialsProofs` | how a change of account and the token of a stream overtake each other |
| `WritePipeline`, `MCWritePipeline`, `WritePipelineProofs` | a write from the app to the server and the reply back |
| `Outbox` | abstract: what the client promises about writes |
| `StreamLifecycle` | abstract: the states of a Firestore stream, and that it is tried for as long as it is needed |
| `WatchStream`, `MCWatchStream`, `WatchStreamProofs` | the watch stream, its targets and the online state |
| `GrpcStream`, `MCGrpcStream`, `GrpcStreamProofs` | one gRPC call from its start to its destruction |
| `SubmissionProofs` | theorems about `Submission`, the refinement of `FoodBoard` among them |

In every module a definition whose name ends a list of alternatives such as
`PoppedOneTooMany` / `Popped` or `BusyNever` / `BusyUntilSent` / `Busy` comes in several forms:
the last is the code, those before it the same code with a plausible mistake.
No action uses the mistaken forms; they exist to show that a property notices.

### Session

Every tap runs on the main thread and is one action. A call to Firebase Auth is
three: the tap that sends it (`register`, `signIn`), the answer (`CreateOk`,
`CreateLost`, `SignInOk`, `CallFails`: `currentUser` changes here, on the
library's work queue) and the completion handler (`RegisterSucceeded` and its
siblings, in the order of `mainQueue`). `CreateLost` is an account that was
made although the client sees an error.

Screens are a stack, as `NavigationView` keeps them. The `isActive` flags
(`showSignUp`, `showSignIn`, `isRegistered`, `loginSuccess`, `showAppView`) are
not variables: such a flag is true exactly while a screen is above, so setting
one to true pushes (`Activated`) and setting it to false pops everything above
(`Popped`). A handler whose screen was popped writes to state nobody shows:
its call has `view = 0` (`Detached`). The alert of a screen that another screen
covers may be closed at any time or never.

`recentlyRegistered` is written as in the code; nothing reads it but `signOut`.
An account is its email, which also stands for its uid. A text field is an
input of the action that reads it; of a password only the length counts.
`Revoke` is the library's own sign-out when a token refresh is refused.
`storeUserDetailsAborts` is the failed assertion of `document("")`; it ends the
process. `Relaunch` ends the process at any other moment: calls that were sent
may still reach the server, their answers reach nobody.

`revoked`, `overlap`, `aborted` and a screen's `owner` are history: no guard
reads them, except that the action that aborts sets `aborted`.

`SignedInAsOwner`, `ProfileIsOwners` and `RegistrationOnlyOnce` are stated for
behaviours in which no call is sent while another is outstanding
(`~overlap`). That is not modesty but the limit of the code: with two calls
outstanding the second answer signs another account in under a
`RegistrationView`, and the form then overwrites that account's profile.
`AlertHasMessage`, `TypeOK`, `SignedInStays`, `SubmitIsAnswered` and the two
properties below it, `AnswersAreQueued` and `AnswersAreSeen`, hold with overlapping
calls, too.

`SignedInStays` is about every step: what may take a `RegistrationView` or an
`AppView` away. The code has two ways that nobody can have wanted, and the property
names them. "Close" on the alert of a sign-up form pops what stands above the form,
the registration form with what was typed (`HomeView.swift:170`): the second of two
answers, or a Submit with a short password while the call was under way, raised the
alert, and the success came all the same. And once calls have overlapped, the late
failure of one sign-in takes away the `AppView` that the success of another opened
(`HomeView.swift:233`). Besides these only the end of the process does: no other
answer, tap or sign-out pops a signed-in screen. `SubmitIsAnswered` sees neither
case, since a screen that is gone needs no answer.

A property that a module defines and no run checks is proved, as part
of an inductive invariant or in a theorem of its own.

### Submission and FoodBoard

The sheet, its fields and the alert are `sheet` and `form`; a field is
represented by what the checks tell apart (empty, typed, the name of a place,
the placeholder). Room and restaurant are inputs of Submit, as nothing else
reads them. A tap on Submit that passes the checks (`storeFoodSubmission`)
captures the uid and the form in `fetches[t]` and closes the sheet; the query is
answered later (`fetchAnswered`, `fetchFails`), and its callback writes one
event per document found (`usernameFetched`), in any order: `events` is the sequence
of documents written, so that two events of one tap are two elements of it. A write counts when the local
Firestore cache has accepted it. Answers to searches arrive in any order;
those of a sheet that has closed are dropped.

`userChanges` and `storeUserDetails` are what the rest of the app, that is
`Session`, may do to `currentUser` and `users` meanwhile: anything, except that
a profile is written only while the sheet is not shown.

`FoodBoard` says the same without sheets and queries: a submission has one
author and is then posted once under that author, or lost. Under the mapping
`author <- authors`, `board <- posts`, `lost <- losses`, `Submission` implements
it (`ImplementsBoard`). Posts are a sequence on both sides, so that a callback that
wrote twice, for a user with two profiles, would be no step of `FoodBoard`. What a
reader would ask of it follows without mention of a sheet: posts stay, are their
authors' and are single (`OutcomesStand`, `PostsAreOwn`, `PostedOnce`).

### Feed

A view model comes into being (`FoodEventViewModel`) and its `init` calls
`getEvents`; the feed calls it again at every `onAppear` (`getEvents`). Both
request one more listener. A view whose parent is redrawn gets a new view model
(`@ObservedObject` with an initial value); its listeners keep the old one alive,
so that this is one more creation. Firestore's worker queue then takes the steps
`AddQueryListener` (the view starts from the cache for the first listener, a
later one gets the last snapshot), `OnViewSnapshots` (documents change, or the
server says that the view is complete), `HandleOnlineStateChange` and `OnError`.
Each of them puts callbacks on the main queue, where `Callback` runs them: an
error has no documents and returns, a snapshot replaces `foodEvents` by what
decodes.

`docs` is the query's result in the local store; whatever changes it (a write of
this device, another device, a change of user) is an `OnViewSnapshots`. A list
is a set: its order is the query's order by date, which every snapshot carries
and no property is about. `mainQueue` is kept per view model, since callbacks of
different view models write different lists. `version`, `shown` and a listener's
`since` are history; only the bound on `version` is read by a guard. One
behaviour is one process.

What the code does after an error is part of the model: all listeners are dead,
the lists stay as they are, and only a new `getEvents` makes them follow again.
`FeedIsCurrent` and `RequestIsAnswered` therefore speak of listeners the query
was not refused to.

`HandleOnlineStateChange` to offline ends the wait for a server. Whether it comes is
not up to this module: `WatchStream` has it, and shows that with a server that stays
silent it need not come (`watch_stream_silent`). Nothing of it is assumed here.
`RequestIsAnswered` therefore leaves one way out, a listener that from some moment on
waits for ever with nothing to show (`NothingToShow`: the server has not spoken, the
cache is empty and the client does not think itself offline), and
`RequestsNeverStall` says that a listener never waits for anything else.

### Credentials

`mainQueue` and `worker` are the two queues as sequences of blocks and tasks.
FIRAuth changes its user and posts the notice in one block of its own queue
(`AuthChanges`); the provider's observer takes it on the main queue
(`TakeNotice`: user, `token_counter`, a task for the worker); the worker's task
is `HandleCredentialChange`. A token request is a record of `requests`, one for
each value of `close_count_`: `Asked` remembers the counter, `AuthReads` reads
FIRAuth's user on its queue, `AuthAnswers` dispatches to the main queue,
`TakeToken` compares counters and either asks again or puts the token on the
worker queue, where `ResumeStart` drops it if the stream was closed meanwhile.
The write stream is reduced to its state and, when open, the account of its token.
`pending` says whose mutation queue is not empty. An acknowledged, refused, lost,
idle or restarted stream is one action each; what they do to the queue in detail
is in `WritePipeline`.

The counter is read at the call of `GetToken`, on the worker, without the lock
the observer holds. The model reads it in the same step; reading it a moment
earlier or later gives a request that is good or one that is asked again.

### WritePipeline and Outbox

Each task of the worker queue that touches the mutation queue, the pipeline or
the write stream is an action. `FillWritePipeline` is what ends most of them: it
copies the front of the queue while there is room, writes it to the stream if
the handshake is over, and starts the stream, or marks it idle. A call is the
requests on their way, the replies on their way and how the call ended; the
server takes requests in order, applies one and replies (`ServerAccepts`), or
refuses it and ends the call (`ServerRefuses`). `ConnectionLost` keeps any
prefix of the replies. `WriteFailsFirst` is `OnOperationFailed` of a write,
which finishes the call and cancels the reads that completed (`GrpcStream` has
the operations). `HandleCredentialChange` with the same account is also the
connectivity callback; `Relaunch` ends the process: the queues are in LevelDB,
the callbacks are gone. An end of the process between the callback of a write
(`NotifyUser`) and its removal from the queue is a relaunch before either, since
the queue is what survives.

A call that the client gives up, because the connection breaks, the network is
restarted, the account changes or the process ends, leaves its requests on their way
(`GiveUpCall` puts them in `astray`). The server may take them, in their order, at
any later time or never (`ServerAcceptsLate`, `ServerRefusesLate`), also after the client has
sent the same writes again on the next call: its handshake carries no stream token
that would prevent it (`write_stream.cc:73-74`). Nobody hears of it, so that it changes
`writes`, `clock` and `astray` only. Such an application is marked `late`, and the
two promises it breaks exempt it: `LastWriteStands` says that the client never makes
the server put an old write over a done one, not that the server never does
(`StaysBelow`), and `Outbox` lets a settled write be applied only late. Everything
else, attribution of replies, order of settlement, what is reported as done or
failed, holds without exemption.

`writes` and `clock` are history: what became of each write, and when the server
applied it last. `Outbox` says over these two alone what the client promises,
and `WritePipeline` implements it with the identity as mapping (`Box`). That writes
are settled in order and for good (`SettledInOrder`, `SettledForGood`: applied again
only at a request given up before) follows from `Outbox` alone.

### WatchStream

`targets` is `listen_targets_`, `asked` what the server was asked for on this
stream, `tracker` the `OnlineStateTracker`. Each task is an action together with
the tracker's part in it (`AfterStart`, `AfterFailure`, `UpdateState`). The
failure counter stops at its maximum, past which no code distinguishes values.
The timer of the online state may fire at any time while it is set; nothing
compares clocks. An open stream may answer though it was asked for nothing,
which is more than a server does and costs no property anything.

### GrpcStream

`ops` lists the operations in the order they were issued; a completion is the
number of its operation and is on gRPC's queue (`pending`), held by the stream
(`completions`), with its callback emptied (`cancelled`) or waiting for the
worker (`tasks`). A worker task that blocks is cut in two: `worker` says where it
waits, and no other task runs meanwhile. `LastWriteOver` is the half second of
`WriteAndFinish` running out, or the write coming back. gRPC returns reads that
have a message, writes on an open call, and everything once the call is over
(`Ends`). The observer is a `Stream`, which lets go of the `GrpcStream` in the
task in which it loses its observer, so that one variable stands for both.

After a failed operation has issued "finish" the owner, who does not know yet, may
still write. `Shutdown` has a comment that the only completion left is then
"finish" (`grpc_stream.cc:204-208`); it is not, and the properties hold because
the code waits for whatever is left.

### StreamLifecycle

The class `Stream` has five states, drawn in `remote/stream.h`, and its owner
starts it while it has writes to send or targets to watch
(`ShouldStartWriteStream`, `ShouldStartWatchStream`). The abstract module says just
that, of `state` and `needed`: an end that comes while the stream is needed is
followed by a backoff or a start, and the stream is let go as idle only while
it is not needed. Three modules see a stream from different sides, and all
implement it with their `stream.state` as `state`:

| Module | `needed` |
|---|---|
| `Credentials` | the account the engine has in effect has writes (`engineUser \in pending`) |
| `WritePipeline` | the queue of that account is not empty (`queue[user] # <<>>`) |
| `WatchStream` | there is a target (`targets # {}`) |

`Restart` is the one step in which state and need may both change: another account
comes into effect, or the write that ended the stream is given up, and the stream
then is what the queue in effect asks for.

## Runs

| Run | Checks | Bounds |
|---|---|---|
| `session` | `TypeOK`, `SignedInAsOwner`, `ProfileIsOwners`, `RegistrationOnlyOnce`, `SignedInStays` | 2 accounts, 2 calls, passwords of 6 and 7, depth 7 |
| `session_live` | `SubmitIsAnswered` | 1 account, 2 calls, depth 4 |
| `session_path` | `EvenPathSegments`, refuted | 1 account, 1 call, depth 4 |
| `submission` | `Attribution`, `LossHasACause`, `ImplementsBoard` | 2 users, 2 names, 1 place, 1 search, 1 tap |
| `submission_form` | `EventsComplete` | 1 user, 2 places (1 outside College Park), 1 search, 1 tap |
| `feed` | `FeedIsCurrent`, `RequestsNeverStall`, `NeverOlder`, `RequestIsAnswered` | 2 documents (1 decodes), 2 view models, 2 listeners, 2 versions |
| `credentials` | `ImplementsLifecycle`, `StreamOfEngineUser`, `ResumeIsExpected`, `WriteOfItsCaller`, `TokenOfTheUser`, `WritesReachAStream` | 1 account or nobody, 2 notices, 1 close, 2 tasks under which the app writes |
| `write_pipeline` | `TypeOK`, `AnswersTheFirst`, `SettledByServer`, `LastWriteStands`, `IdleOnlyWhenEmpty`, `OpenInQueue`, `ImplementsOutbox`, `ImplementsLifecycle`, `WriteResolves` | 2 accounts, pipeline of 2, 3 writes, 2 troubles |
| `write_pipeline_rejected` | `RejectedWasRefused`, refuted | 1 account, pipeline of 3, 3 writes, 1 trouble |
| `watch_stream` | `TimerWhileTrying`, `IdleMeansUnused`, `WatchesItsTargets`, `ImplementsLifecycle`, `OnlineStateSettles` | 3 targets, 2 failures to Offline, 2 restarts |
| `watch_stream_silent` | `OnlineStateSettles` with a silent server, refuted | 1 target, 1 failure to Offline, no restart |
| `grpc_stream` | `RunsWhatItHolds`, `NothingOutlives`, `InOrder`, `OneWriteAtATime`, `EndIsReported`, `WaitsEnd` | 3 writes, 2 replies |

Bounds. `Calls` limits how many calls are in flight, not how many are ever
made: a token is free again when its handler has run. Two calls and two
accounts are what it takes for one answer to disturb another. `MaxDepth` limits
the navigation stack, which grows by three screens with every sign-up and
sign-out; seven screens hold two rounds, so that a second account registers on
top of the first one's screens. `OpenSignUp` and `OpenSignIn` are taken only if
the screens they lead to fit, and `signOut` if there is room for one more.
Password lengths 6 and 7 lie on both sides of the comparison. `Taps` limits
how many submissions are ever accepted: one submission meets every change of
user and profile, every failure and every relaunch; two submissions share
nothing but the collection, and the proofs cover any number. A landmark outside
College Park is what the filter is for. `Listeners` limits how many are ever
added: two let two view models have one each, or one have two, of which the second
is added while the first is served or after an error ended it. `MaxVersion` limits
how often documents change; two versions tell an old snapshot from a new one, and
the change may come before, between and after the steps of every listener.
`credentials` has one account and nobody: signing out and in again is the hard
case, in which the account is right and the token is of the wrong sign-in; two
notices let it happen while a request is under way, and the theorems cover any
accounts. `MaxPipeline` is 10 in the code; with 2 the pipeline is full, is
refilled after each reply and leaves a write waiting in the queue. A trouble is a
broken call, a missing token, a restart or a relaunch; two of them let one
interrupt the recovery from another, with the requests that either left still on
their way. `kMaxWatchStreamFailures` is 1 in the code,
so that its comparison has one outcome; `watch_stream` takes 2 to reach the other
as well, `watch_stream_silent` 1, and the theorems hold for any. Three targets let
one go while another stays and a third comes. Three writes on a gRPC call are one
that gRPC has, one that is buffered and the last one of `WriteAndFinish`; two
replies let one be read while another is cancelled.
The depth is a bound of the guards, so
TLC stops nowhere for lack of it. Deadlock is checked in every run but those of
`Credentials`, `WritePipeline` and `GrpcStream`: the first two are at rest when
their bounds are used up and nothing is left to send, the last when the stream
is destroyed.

Fairness. `Session` assumes that Firebase answers each call, if only with an
error or a time-out (the library gives every request a deadline), and that the
main queue runs what is queued. `Submission` assumes nothing. `Feed` assumes that
both queues run what is on them, and nothing of the server or of the online state.
`Credentials`: the queues run, FIRAuth answers (with a token or an error) and
backoffs end. `WritePipeline`: the worker runs its tasks, a token request is
answered, and the server takes what it gets on a live call, while it need not take
what a given-up call left; connections break, accounts change and
apps are relaunched at will but a bounded number of times, as no write gets
through a network that breaks at every attempt. `WatchStream`: tokens are answered
and timers go off. `GrpcStream`: the worker runs tasks, is woken when what it
waits for has come, and gRPC returns the operations of a call that is over; no
message need ever arrive. Nobody is assumed to tap, to sign in or to write,
searches need not be answered, and nothing is assumed of `Revoke` or `Relaunch`.

Assumed of what is outside: the server takes the requests of a call in order, of a
call that was given up as well, and answers each of a live one, ends a call with a permanent status only when it refuses a request,
never ends one with OK, and its replies decode; "finish" always succeeds in gRPC, and the
operations of a call that is over, cancelled or not, all come back.

### What the refuted statements show

* `EvenPathSegments`: with nobody signed in, `storeUserDetails` only prints and
  goes on to `document("")`; Firestore's assertion "Document references must
  have an even number of segments" (`document_reference.cc:65`) fails.
* `RejectedWasRefused`: "the request itself was the problem so it's not going to
  succeed if we resend it" (`remote_store.cc:513-514`). The server applies the
  first write and refuses the second; a third, written on the call that has ended,
  fails before the reply to the first is read, and the reads are cancelled with it.
  The first write is reported as failed though it was applied, the second is sent
  again. What does hold, and is proved, is `SettledByServer`.
* `OnlineStateSettles` with a silent server: "rather than waiting indefinitely"
  (`online_state_tracker.cc:44-46`). A target is added and dropped while the stream
  starts, which clears the timer and leaves the stream; the next target finds the
  stream started and sets no timer. If the server then says nothing the state is
  Unknown for ever, and a listener with an empty cache waits with it.

## Proofs

All theorems are of the form `Spec => ...` for arbitrary constants that satisfy
the `ASSUME` of their module (`nil` is not an account, a depth
of at least one, the places of College Park are places, what decodes is a
document, finitely many listeners, some account or nobody, a pipeline with room
for one write, one failure until Offline, bounds that are numbers).

`SessionProofs`. `TypeOK` is not inductive alone: a pop needs to know that a
screen's call refers to a screen below the top, and a push that there is room.
The proof goes in two layers.

1. `LowInv` holds with overlapping calls and is inductive on its own: types,
   `ScreensLinked` (a sign-up or sign-in screen stands on a `HomeView` and has
   room above), `AccountsKnown`, `CallsWellFormed` (with
   `CallsKnowTheirScreen`) and `AlertHasMessage`. It is cut into what concerns
   the accounts, the calls, the flags and the stack, so that each action proves
   only what it touches. `TypeCorrect` and `AlertsHaveMessages` follow.
2. `HighInv` says that, until calls overlap, `Serial` holds: at most one call is
   outstanding, none while a signed-in screen is on top, and what an answer did
   to `currentUser` and `users` is still so when its handler runs
   (`SerialCalls`); with it `SignedInAsOwner`, `ProfileIsOwners` and
   `RegistrationOnlyOnce`, none of which is inductive without `SerialCalls`.
   `SessionCorrect`, `OwnerStaysSignedIn`, `ProfilesAreOwn` and
   `RegistrationIsOnce` follow.

On top of `LowInv` alone, so with overlapping calls, stand `AnswersAreHandled` and
`NoAnswerIsSilent`. `AnswersAreQueued` is inductive over `LowInv`: each answer joins
the queue of handlers once, and only the head leaves it. `AnswersAreSeen` is about
one step: a handler that fails sets the alert of the very screen its call refers
to (`CallsWellFormed`), and one that succeeds covers it, unless it is gone.
`SignedInScreensStay` needs two facts more: a covered sign-in screen has no alert to
close (`CoveredLoginIsQuiet`), and until calls overlap the screen of an outstanding
call is on top or gone (`CallerIsOnTop`). A lemma about the shape of a step, which
keeps the lower screens, pops the others for a cause and pushes one at most, serves
all actions.

`SubmissionProofs`. `SubmissionInv` is inductive: profiles are keyed by uid
(`KeyedByUid`), the form and every fetch hold only what passed the checks
(`FormInCollegePark`, `FetchOK`), an event is what its fetch found
(`EventsFromFetches`). `Attribution`, `OneEventPerTap` and `EventsComplete`
follow without induction. `SubmissionImplementsBoard` proves that the initial
state maps to `FoodBoard`'s and that every step maps to a step of it or to a
stutter: the callback posts one event or loses the tap, depending on the
documents found, where `KeyedByUid` says that there is one at most, and `Relaunch`
loses several taps at once. `SubmissionsStand`, `PostsHaveTheirAuthor` and
`PostsAreSingle` are then proved of `FoodBoard` and carried over through the refinement.

`FeedProofs`. `FeedIsCurrent` is not inductive, as it says nothing while
callbacks wait. `FeedInv` adds what the queue of a view model holds: versions in
order and between what is shown and what is stored (`QueueOrdered`), the stored
documents where it claims the current version (`QueueTrue`), and the current
version itself, shown or queued, for whoever has a listener that was called
(`ListenersServed`). The four worker steps differ only in whom they call with
what, so that one lemma (`WorkerKeeps`) does the work and each step shows that
it fits. Besides `FeedInv'` every step lemma gives `shown'[m] >= shown[m]`, from
which `NeverOlder` follows. `RequestsAreOnTheirWay` has an invariant of its own
(`Awaiting`: whoever waits has not been overlooked by a step after which there is
nothing to wait for) and takes from `FeedInv` that a listener that was called has
what it asked for, shown or queued.

`CredentialsProofs`. `CredentialsInv` reads the queues as a schedule: `Told(u, i)`
is who the provider will believe signed in when block i of the main queue runs,
`InEffect(u, i)` whose writes the engine will send when task i of the worker runs.
`MainInOrder` says that the last of the notices ends at FIRAuth's user and that a
request whose counter is still good when it is taken has the provider's user;
`WorkerInOrder` that a write or a token on the worker queue meets its own account
there; `StageOfState` which stage the request of the current close count has in
each state of the stream, from which `ResumeIsExpected` follows. Three lemmas about
`Latest` under `Append` and `Tail` carry the argument, and each action shows only
which of the two queues it moves. `StartsAreAnswered` adds `RequestsTravel`: a request
whose stage is "main" or "worker" has its entry on that queue. With `StageOfState`
the request of a starting stream is then somewhere on its way.
`CredentialsLive` maps each action to a step of `StreamLifecycle`; it takes from the
invariant that a write never finds its stream stopped with others waiting
(`NeverForgotten`) and that a token that is used finds its stream starting
(`ResumeIsExpected`).

`WritePipelineProofs`. `PipelineInv` says that the queue, the pipeline, the replies
and the requests are pieces of one sequence: the pipeline is the front of the
queue (`PipelineIsFront`), the replies its front (`RepliesAreFront`), while the call
lives the requests its rest (`RequestsAreRest`), and after a refusal the write
behind the replies is the one the server refused, or saw (`BlamedWasSeen`).
Without `RepliesAreFront` `AnswersTheFirst` does not survive a step. The lemmas are about `Additions`,
`Without` and `FillWritePipeline`, once for each of what they are used on.
`AstrayInOrder` says of what given-up calls left that each request is in its turn:
whatever its account wrote before is settled, was seen by the server or is ahead of
it there. A live call satisfies it when it is given up (`GivenUpInOrder`), and the
history only grows (`StepGrows`), so that it stays. A late application changes stamps
only upwards and marks them, which `StaysBelow` survives (`LateKeeps`).
`PipelineIsOutbox` shows that every step is a step of `Outbox` or leaves `writes`
and `clock` alone (`BoxStep`, which the proof of the invariant uses as well); `SettledAsWritten` and `SettledStays` are proved of `Outbox` and
carried over. `WritesNeverStall` needs one fact more than `PipelineInv` has: an open
stream whose handshake is unanswered has the reply or the end of the call to come
(`HandshakeContinues`); afterwards `RequestsAreRest` and `RepliesAreFront` say where
the first write of the pipeline is. `WriteStreamLives` is the refinement of
`StreamLifecycle`.

`WatchStreamProofs`. `WatchInv` is the conjunction of the three safety properties
and the types; it is inductive, as the tracker's two transformers keep a tracker
sound whatever the stream does. `WatchStreamLives`, the refinement of
`StreamLifecycle`, rests on `WatchesItsTargets`.

`GrpcStreamProofs`. `GrpcInv` adds to the types whose each operation is (`Held`:
what is on gRPC's queue or can still run is held, and nothing is on two queues), what
is true while the worker blocks (`Blocked`: all that it waits for was cancelled), where
each written message is (`Writing`: out, on gRPC's queue, or in the buffer, in this
order), where each reply is (`Reading`), and that "finish" comes last. The lemmas are about the shapes steps have, issuing an
operation, cancelling, completing, so that an action says which shape it is. A
second layer, `Ending`, relates failed operations to the call: an operation
fails only when the call is no longer open, and the worker blocks only once "finish"
is issued or nothing is left. `EndsAreHeeded` and `WaitsEndInPrinciple` need it.

Behind the liveness properties. A prover without liveness can approach "eventually"
from one side: in no reachable state is what is waited for without something that
will bring it. Each of the following says so and is proved for all constants; with
the fairness of the queues it is why the liveness property holds, and code that
loses a task, a callback or a request violates it. TLC evaluated each on
its run's instance before it was proved. But for `RequestsNeverStall` they are not
among the runs' properties, since the theorem says more and the run has the liveness
property itself.

| Liveness property (TLC) | What never stalls (TLAPS) | Theorem |
|---|---|---|
| `SubmitIsAnswered` | `AnswersAreQueued`, `AnswersAreSeen` | `AnswersAreHandled`, `NoAnswerIsSilent` |
| `RequestIsAnswered` | `RequestsNeverStall` | `RequestsAreOnTheirWay` |
| `WritesReachAStream` | `StartsNeverStall` | `StartsAreAnswered` |
| `WriteResolves` | `NeverStalls` | `WritesNeverStall` |
| `EndIsReported` | `EndIsHeeded` | `EndsAreHeeded` |
| `WaitsEnd` | `WaitsForWhatReturns` | `WaitsEndInPrinciple` |

`OnlineStateSettles` has none beyond `WatchesItsTargets`: that something is always
under way is false of it, as `watch_stream_silent` shows.

The inductive invariants are not among the runs' properties, since their theorems say
more; the properties of the runs that are invariants follow from them. `TypeOK` of
`Submission`, `Feed`, `Credentials`, `WatchStream` and `GrpcStream` is proved as a
part of them and not run.

Model-checked only: `SubmitIsAnswered`, `RequestIsAnswered`,
`WritesReachAStream`, `WriteResolves`, `OnlineStateSettles`, `EndIsReported` and
`WaitsEnd` (liveness under fairness, and ENABLED, are out of the prover's reach), and
the three refuted statements.

## Not modelled

* Layout, wording, the password fields' eye buttons, the location prompt that
  the registration form raises, and the tab bar with its placeholder screens.
* The list of favourite foods: a tap adds or removes one, and Submit stores the
  list as it is; nothing else reads it.
* FoodEvent codec: `encode` and `init(from:)` go field by field over nested
  containers with the same keys; a model would be the list of keys again. `Feed` has
  which documents decode as a constant.
* The building's name: it is filled in only while it is empty, so that it keeps
  the name of the first place when another is chosen (`FoodSubmissionView.swift:87`).
  Nothing in the repository says what it should be.
* `Landmark.id`, a new UUID at each access (`Landmark.swift:15`): a model value has
  no such identity.
* Map, location and `Model`: no screen depends on their state beyond drawing.
* Of the Firestore client: what watch changes say about documents
  (`WatchChangeAggregator`, existence filters, resume tokens), limbo resolution, the
  computation of views, the caches and their garbage collection, contents of
  mutations, forced refreshes of tokens, unary calls, transactions, and enabling
  or disabling the network, which the app does not do. Of gRPC, BoringSSL, abseil,
  LevelDB and the other pods: nothing but what the code above uses of them.

## Plan

Done: the screens (`Session`), the form and its refinement (`Submission`,
`FoodBoard`), the feed (`Feed`), the credentials, the write pipeline and its
refinement (`Outbox`), the watch stream with the online state, the gRPC stream,
the life of a stream seen from three sides (`StreamLifecycle`), the proofs about
each, and the safety halves of the liveness properties. Left, in this order:

1. `FreeEats`: `Session`, `Submission` and `Feed` composed, with `userChanges`
   and `storeUserDetails` of `Submission` bound to the actions of `Session` and
   the documents of `Feed` to the events of `Submission`, so that the environment
   each assumes is shown to be one that the others really are.
2. Limbo resolution and the target states of `WatchChangeAggregator`: when a
   document of a view is trusted, and when a listener hears that it is current.
3. `WritePipeline` over `GrpcStream`: that a call of the former is what the latter
   gives its owner, `WriteFailsFirst` included.
4. An abstract `Feed`: each list is a view of a growing log of document sets,
   and `Feed` implements it.
