------------------------------ MODULE Session ------------------------------
(***************************************************************************)
(* One device of Free Eats from launch to sign-out: the screens that sign  *)
(* a user up or in (Views/HomeView.swift), the registration form that      *)
(* writes the user's profile (Views/RegistrationView.swift), the class     *)
(* they call (SimpleAuthModel in Models/SignInModel.swift) and the part of *)
(* Firebase Auth that answers it.                                          *)
(*                                                                         *)
(* Every tap runs on the main thread and is one action.  A call to         *)
(* Firebase Auth is three: the tap that sends it, the answer (taken on the *)
(* library's work queue, where currentUser changes) and the completion     *)
(* handler (run later, in answer order, on the main queue).                *)
(*                                                                         *)
(* Screens are a stack, as NavigationView keeps them.  A screen's isActive *)
(* flag is "there is a screen above me", so setting it to true pushes and  *)
(* setting it to false pops everything above.  A handler whose screen was  *)
(* popped writes to @State that nothing shows: its call has view 0.        *)
(***************************************************************************)
EXTENDS Naturals, Sequences, FiniteSets

CONSTANTS
    Emails,          \* the accounts people may create; an email is also the uid
    Calls,           \* tokens for Firebase Auth calls in flight; bounds their number
    PasswordCounts,  \* the password lengths people type
    MaxDepth,        \* bound on the number of screens on the navigation stack
    None             \* nil

ASSUME SessionAssumption ==
    /\ None \notin Emails
    /\ PasswordCounts \subseteq Nat
    /\ MaxDepth \in Nat
    /\ MaxDepth >= 1

VARIABLES
    accounts,            \* the accounts Firebase Auth has
    users,               \* "users" collection: uid -> whose details the document holds
    currentUser,         \* Auth.auth().currentUser, kept in the keychain
    calls,               \* call token -> the call it stands for
    mainQueue,           \* answered calls whose handler has not run yet, oldest first
    stack,               \* the screens, bottom first
    recentlyRegistered,  \* SimpleAuthModel.recentlyRegistered
    revoked,             \* history: currentUser is nil because its token was refused
    overlap,             \* history: a call was sent while another was outstanding
    aborted              \* history: the process was stopped by a failed assertion

vars == <<accounts, users, currentUser, calls, mainQueue, stack,
          recentlyRegistered, revoked, overlap, aborted>>

AuthVars == <<accounts, users, currentUser, revoked>>
CallVars == <<calls, mainQueue, overlap>>

-----------------------------------------------------------------------------
(* Screens and calls                                                       *)

Kinds == {"Home", "Register", "Login", "Registration", "App"}

Errors == {"none", "passwordTooShort", "passwordMismatch", "otherError",
           "usernameMissing", "nameMissing"}

\* alert: didError / incomplete; error: errorInfo / formError; count: the
\* length of the password field; owner: history, whose success opened it.
Views == [kind : Kinds, alert : BOOLEAN, error : Errors,
          count : PasswordCounts \cup {0}, owner : Emails \cup {None}]

NewView(kind, owner) ==
    [kind |-> kind, alert |-> FALSE, error |-> "none", count |-> 0, owner |-> owner]

CallRecords == [op : {"none", "register", "signIn"}, email : Emails \cup {None},
                view : 0 .. MaxDepth, phase : {"idle", "sent", "ok", "failed"}]

Idle == [op |-> "none", email |-> None, view |-> 0, phase |-> "idle"]

Top == stack[Len(stack)]

\* The screen on top takes taps unless its alert is up.
Ready(kind) == Top.kind = kind /\ ~Top.alert

\* What is left when every screen above n is popped.
PoppedOneTooMany(n) == SubSeq(stack, 1, n - 1)
Popped(n) == SubSeq(stack, 1, n)

\* The calls once the screens above n are gone.
Detached(n) ==
    [c \in Calls |-> IF calls[c].view > n THEN [calls[c] EXCEPT !.view = 0]
                                          ELSE calls[c]]

\* isActive of screen v becomes true: its destination is pushed, unless it is
\* already there.
Activated(v, screens, destination) ==
    IF v = Len(screens) THEN Append(screens, destination) ELSE screens

\* The alert of screen v comes up with the given error.
Alerted(v, screens, error) ==
    [screens EXCEPT ![v] = [@ EXCEPT !.alert = TRUE, !.error = error]]

-----------------------------------------------------------------------------
(* HomeView, and the back button of its two destinations                   *)

OpenSignUp ==
    /\ Ready("Home")
    /\ Len(stack) + 3 <= MaxDepth
    /\ stack' = Append(stack, NewView("Register", None))
    /\ UNCHANGED <<AuthVars, CallVars, recentlyRegistered, aborted>>

OpenSignIn ==
    /\ Ready("Home")
    /\ Len(stack) + 2 <= MaxDepth
    /\ stack' = Append(stack, NewView("Login", None))
    /\ UNCHANGED <<AuthVars, CallVars, recentlyRegistered, aborted>>

BackFromAppView ==
    /\ Ready("Register") \/ Ready("Login") \/ Ready("App")
    /\ stack' = Popped(Len(stack) - 1)
    /\ calls' = Detached(Len(stack) - 1)
    /\ UNCHANGED <<AuthVars, mainQueue, overlap, recentlyRegistered, aborted>>
Back ==
    /\ Ready("Register") \/ Ready("Login")
    /\ stack' = Popped(Len(stack) - 1)
    /\ calls' = Detached(Len(stack) - 1)
    /\ UNCHANGED <<AuthVars, mainQueue, overlap, recentlyRegistered, aborted>>

-----------------------------------------------------------------------------
(* Taps on "Submit" of SimpleRegisterView and SimpleLoginView              *)

\* userState leaves .undefined only in the listener that didUserStatusChange
\* installs, and no code calls didUserStatusChange.
UserState == "undefined"

MayCall == UserState = "signedOut" \/ UserState = "undefined"

LongEnough(n) == n > 6

\* Call c was sent and its handler has not run.
Outstanding(c) == calls[c].phase # "idle"

\* Call c goes out from the screen on top.
Send(c, op, e) ==
    /\ MayCall
    /\ ~Outstanding(c)
    /\ calls' = [calls EXCEPT ![c] = [op |-> op, email |-> e,
                                      view |-> Len(stack), phase |-> "sent"]]
    /\ overlap' = (overlap \/ \E d \in Calls : Outstanding(d))
    /\ UNCHANGED mainQueue

RegisterTooShort(n) ==
    /\ Ready("Register")
    /\ ~LongEnough(n)
    /\ stack' = Alerted(Len(stack), [stack EXCEPT ![Len(stack)].count = n],
                        "passwordTooShort")
    /\ UNCHANGED <<AuthVars, CallVars, recentlyRegistered, aborted>>

RegisterMismatch(n) ==
    /\ Ready("Register")
    /\ LongEnough(n)
    /\ stack' = Alerted(Len(stack), [stack EXCEPT ![Len(stack)].count = n],
                        "passwordMismatch")
    /\ UNCHANGED <<AuthVars, CallVars, recentlyRegistered, aborted>>

register(c, e, n) ==
    /\ Ready("Register")
    /\ LongEnough(n)
    /\ Send(c, "register", e)
    /\ stack' = [stack EXCEPT ![Len(stack)].count = n]
    /\ UNCHANGED <<AuthVars, recentlyRegistered, aborted>>

signIn(c, e) ==
    /\ Ready("Login")
    /\ Send(c, "signIn", e)
    /\ UNCHANGED <<AuthVars, stack, recentlyRegistered, aborted>>

-----------------------------------------------------------------------------
(* Firebase Auth answers a call                                            *)

\* The answer is in: the handler is queued on the main thread.
Answer(c, phase) ==
    /\ calls[c].phase = "sent"
    /\ calls' = [calls EXCEPT ![c].phase = phase]
    /\ mainQueue' = Append(mainQueue, c)

\* createUser signs the new account in before it answers.
CreateOkKeepsOldUser(c) ==
    /\ calls[c].op = "register"
    /\ calls[c].email \notin accounts
    /\ Answer(c, "ok")
    /\ accounts' = accounts \cup {calls[c].email}
    /\ currentUser' = IF currentUser = None THEN calls[c].email ELSE currentUser
    /\ revoked' = FALSE
    /\ UNCHANGED <<users, stack, overlap, recentlyRegistered, aborted>>
CreateOk(c) ==
    /\ calls[c].op = "register"
    /\ calls[c].email \notin accounts
    /\ Answer(c, "ok")
    /\ accounts' = accounts \cup {calls[c].email}
    /\ currentUser' = calls[c].email
    /\ revoked' = FALSE
    /\ UNCHANGED <<users, stack, overlap, recentlyRegistered, aborted>>

\* The account is made, but its answer is lost or the user cannot be saved.
CreateLost(c) ==
    /\ calls[c].op = "register"
    /\ calls[c].email \notin accounts
    /\ Answer(c, "failed")
    /\ accounts' = accounts \cup {calls[c].email}
    /\ UNCHANGED <<users, currentUser, revoked, stack, overlap,
                   recentlyRegistered, aborted>>

SignInOk(c) ==
    /\ calls[c].op = "signIn"
    /\ calls[c].email \in accounts
    /\ Answer(c, "ok")
    /\ currentUser' = calls[c].email
    /\ revoked' = FALSE
    /\ UNCHANGED <<accounts, users, stack, overlap, recentlyRegistered, aborted>>

\* Wrong password, address in use, no network, time-out.
CallFails(c) ==
    /\ Answer(c, "failed")
    /\ UNCHANGED <<AuthVars, stack, overlap, recentlyRegistered, aborted>>

\* A token refresh is refused (account disabled or deleted, password changed):
\* the library signs the user out by itself.
Revoke ==
    /\ currentUser # None
    /\ currentUser' = None
    /\ revoked' = TRUE
    /\ UNCHANGED <<accounts, users, CallVars, stack, recentlyRegistered, aborted>>

-----------------------------------------------------------------------------
(* Completion handlers, on the main thread                                 *)

\* Call c, answered this way, is the next handler to run.
Handles(c, op, phase) ==
    /\ mainQueue # << >>
    /\ c = Head(mainQueue)
    /\ calls[c].op = op
    /\ calls[c].phase = phase
    /\ mainQueue' = Tail(mainQueue)

RegisterSucceeded(c) ==
    LET v == calls[c].view IN
    /\ Handles(c, "register", "ok")
    /\ recentlyRegistered' = TRUE
    /\ stack' = Activated(v, stack, NewView("Registration", calls[c].email))
    /\ calls' = [calls EXCEPT ![c] = Idle]
    /\ UNCHANGED <<AuthVars, overlap, aborted>>

RegisterFailed(c) ==
    LET v == calls[c].view IN
    /\ Handles(c, "register", "failed")
    /\ stack' = IF v = 0 THEN stack ELSE Alerted(v, stack, "otherError")
    /\ calls' = [calls EXCEPT ![c] = Idle]
    /\ UNCHANGED <<AuthVars, overlap, recentlyRegistered, aborted>>

LoginSucceeded(c) ==
    LET v == calls[c].view IN
    /\ Handles(c, "signIn", "ok")
    /\ stack' = IF v = 0 THEN stack
                ELSE Activated(v, [stack EXCEPT ![v].alert = FALSE],
                               NewView("App", calls[c].email))
    /\ calls' = [calls EXCEPT ![c] = Idle]
    /\ UNCHANGED <<AuthVars, overlap, recentlyRegistered, aborted>>

\* loginSuccess = false pops whatever an earlier success has pushed.
LoginFailedSilently(c) ==
    /\ Handles(c, "signIn", "failed")
    /\ calls' = [calls EXCEPT ![c] = Idle]
    /\ UNCHANGED <<AuthVars, stack, overlap, recentlyRegistered, aborted>>
LoginFailed(c) ==
    LET v == calls[c].view IN
    /\ Handles(c, "signIn", "failed")
    /\ stack' = IF v = 0 THEN stack ELSE Alerted(v, Popped(v), "otherError")
    /\ calls' = [IF v = 0 THEN calls ELSE Detached(v) EXCEPT ![c] = Idle]
    /\ UNCHANGED <<AuthVars, overlap, recentlyRegistered, aborted>>

\* "Close" on the alert of screen v: the fields are cleared and isRegistered
\* or loginSuccess set to false.
CloseAlert(v) ==
    /\ stack[v].alert
    /\ stack[v].kind \in {"Register", "Login"}
    /\ stack' = [Popped(v) EXCEPT ![v] = [@ EXCEPT !.alert = FALSE, !.count = 0]]
    /\ calls' = Detached(v)
    /\ UNCHANGED <<AuthVars, mainQueue, overlap, recentlyRegistered, aborted>>

-----------------------------------------------------------------------------
(* RegistrationView                                                        *)

\* Launch: HomeView alone, whoever is signed in; only the keychain, the
\* collections and the accounts survive the process.
Launched ==
    /\ stack' = <<NewView("Home", None)>>
    /\ mainQueue' = << >>
    /\ calls' = [c \in Calls |-> Idle]
    /\ recentlyRegistered' = FALSE

\* The two checks run in this order, so the name's error wins.
FormIncomplete(username, firstName) ==
    /\ Ready("Registration")
    /\ ~(username /\ firstName)
    /\ stack' = Alerted(Len(stack), stack,
                        IF firstName THEN "usernameMissing" ELSE "nameMissing")
    /\ UNCHANGED <<AuthVars, CallVars, recentlyRegistered, aborted>>

DismissFormAlert ==
    /\ Top.kind = "Registration"
    /\ Top.alert
    /\ stack' = [stack EXCEPT ![Len(stack)].alert = FALSE]
    /\ UNCHANGED <<AuthVars, CallVars, recentlyRegistered, aborted>>

\* The details typed on the screen go to the document of whoever is signed in.
storeUserDetails ==
    /\ Ready("Registration")
    /\ currentUser # None
    /\ users' = [users EXCEPT ![currentUser] = Top.owner]
    /\ stack' = Append(stack, NewView("App", Top.owner))
    /\ UNCHANGED <<accounts, currentUser, revoked, CallVars, recentlyRegistered,
                   aborted>>

\* Nobody is signed in: the code goes on with UID = "", and document("") is a
\* path of one segment, which Firestore refuses with a failed assertion.
storeUserDetailsAborts ==
    /\ Ready("Registration")
    /\ currentUser = None
    /\ aborted' = TRUE
    /\ Launched
    /\ UNCHANGED <<AuthVars, overlap>>

-----------------------------------------------------------------------------
(* LogOutButton, and the end of the process                                *)

signOutGoesBack ==
    /\ Ready("App")
    /\ recentlyRegistered' = FALSE
    /\ currentUser' \in {None, currentUser}
    /\ revoked' = FALSE
    /\ stack' = Popped(Len(stack) - 1)
    /\ UNCHANGED <<accounts, users, CallVars, aborted>>
\* The tap pushes a new HomeView; "try?" drops the error of a sign-out that
\* could not be saved, which leaves the user signed in.
signOutStays ==
    /\ Ready("App")
    /\ recentlyRegistered' = FALSE
    /\ currentUser' \in {None, currentUser}
    /\ revoked' = FALSE
    /\ UNCHANGED <<accounts, users, CallVars, stack, aborted>>
signOut ==
    /\ Ready("App")
    /\ Len(stack) < MaxDepth
    /\ recentlyRegistered' = FALSE
    /\ currentUser' \in {None, currentUser}
    /\ revoked' = FALSE
    /\ stack' = Append(stack, NewView("Home", None))
    /\ UNCHANGED <<accounts, users, CallVars, aborted>>

\* The process ends and is launched again.  Calls that were sent may still
\* reach Firebase Auth; their answers reach nobody.
Relaunch ==
    /\ \E S \in SUBSET {calls[c].email : c \in {d \in Calls :
                            calls[d].op = "register" /\ calls[d].phase = "sent"}} :
            accounts' = accounts \cup S
    /\ Launched
    /\ UNCHANGED <<users, currentUser, revoked, overlap, aborted>>

-----------------------------------------------------------------------------
Init ==
    /\ accounts = {}
    /\ users = [e \in Emails |-> None]
    /\ currentUser = None
    /\ calls = [c \in Calls |-> Idle]
    /\ mainQueue = << >>
    /\ stack = <<NewView("Home", None)>>
    /\ recentlyRegistered = FALSE
    /\ revoked = FALSE
    /\ overlap = FALSE
    /\ aborted = FALSE

Answers(c) == CreateOk(c) \/ CreateLost(c) \/ SignInOk(c) \/ CallFails(c)

Handlers(c) == \/ RegisterSucceeded(c) \/ RegisterFailed(c)
               \/ LoginSucceeded(c) \/ LoginFailed(c)

Taps ==
    \/ OpenSignUp \/ OpenSignIn \/ Back
    \/ \E n \in PasswordCounts : RegisterTooShort(n) \/ RegisterMismatch(n)
    \/ \E c \in Calls, e \in Emails, n \in PasswordCounts : register(c, e, n)
    \/ \E c \in Calls, e \in Emails : signIn(c, e)
    \/ \E v \in 1 .. Len(stack) : CloseAlert(v)
    \/ \E username, firstName \in BOOLEAN : FormIncomplete(username, firstName)
    \/ DismissFormAlert \/ storeUserDetails \/ storeUserDetailsAborts
    \/ signOut

Next ==
    \/ Taps
    \/ \E c \in Calls : Answers(c) \/ Handlers(c)
    \/ Revoke
    \/ Relaunch

Spec == Init /\ [][Next]_vars

\* Firebase answers every call, if only with a time-out, and the main queue
\* runs what is on it.  Nothing makes a user tap.
Fairness ==
    \A c \in Calls : WF_vars(Answers(c)) /\ WF_vars(Handlers(c))

FairSpec == Spec /\ Fairness

-----------------------------------------------------------------------------
(* Properties                                                              *)

TypeOK ==
    /\ accounts \in SUBSET Emails
    /\ users \in [Emails -> Emails \cup {None}]
    /\ currentUser \in Emails \cup {None}
    /\ calls \in [Calls -> CallRecords]
    /\ mainQueue \in Seq(Calls)
    /\ stack \in Seq(Views) /\ Len(stack) \in 1 .. MaxDepth
    /\ <<recentlyRegistered, revoked, overlap, aborted>>
            \in BOOLEAN \X BOOLEAN \X BOOLEAN \X BOOLEAN

\* The screens behind the sign-in (RegistrationView, AppView) are on top only
\* while the account whose success opened them is signed in, unless its token
\* was refused meanwhile.  The code has no guard for this: it follows from the
\* order of taps, answers and handlers, as long as no call is sent while
\* another is outstanding.
SignedInAsOwner ==
    Top.kind \in {"Registration", "App"} /\ ~overlap
        => currentUser = Top.owner \/ (currentUser = None /\ revoked)

\* storeUserDetails writes under currentUser at the time of the tap, not under
\* the account that was just created.  Without overlapping calls a document
\* still holds only its own account's details.
ProfileIsOwners ==
    ~overlap => \A e \in Emails : users[e] \in {None, e}

\* Every alert force-unwraps its message (errorInfo!, formError!): no handler,
\* however late, raises an alert on a screen that has no error to show.
AlertHasMessage ==
    \A v \in 1 .. Len(stack) : stack[v].alert => stack[v].error # "none"

\* A late handler never lands on a screen of another kind: a call that still
\* has a screen was sent from it, whatever was popped and pushed meanwhile.
CallsKnowTheirScreen ==
    \A c \in Calls : calls[c].view # 0 =>
        /\ calls[c].view <= Len(stack)
        /\ stack[calls[c].view].kind =
                IF calls[c].op = "register" THEN "Register" ELSE "Login"

\* What may take RegistrationView or AppView away: the end of the process, Close
\* on the alert of a sign-up form below it, and, once calls have overlapped, the
\* late failure of a sign-in whose screen lies below it.  Nothing else does, with
\* whatever handlers are still to come; signing out does not.
SignedInStays ==
    [][\A v \in 2 .. Len(stack) : stack[v].kind \in {"Registration", "App"} =>
            \/ /\ Len(stack') >= v
               /\ stack'[v].kind = stack[v].kind /\ stack'[v].owner = stack[v].owner
            \/ stack' = <<NewView("Home", None)>>
            \/ \E w \in 2 .. v - 1 :
                    /\ Len(stack') = w
                    /\ \/ stack[w].kind = "Register" /\ stack[w].alert
                       \/ stack[w].kind = "Login" /\ stack'[w].alert /\ overlap]_vars

\* RegistrationView is shown to an account at most once: never again after its
\* details are stored, through any number of sign-outs and sign-ins.
RegistrationOnlyOnce ==
    Top.kind = "Registration" /\ ~overlap => users[Top.owner] = None

\* A tap on Submit that sent a call is answered on the screen it was made on:
\* the next screen opens, or an alert comes up, or the screen is gone.
SubmitIsAnswered ==
    \A c \in Calls, v \in 2 .. MaxDepth :
        (calls[c].phase = "sent" /\ calls[c].view = v)
            ~> (Len(stack) # v \/ stack[v].alert)

\* The safety half of SubmitIsAnswered: an answer that is in has its handler on
\* the main queue, once, and the queue holds nothing whose handler cannot run;
AnswersAreQueued ==
    /\ \A c \in Calls : calls[c].phase \in {"ok", "failed"} <=>
            \E i \in 1 .. Len(mainQueue) : mainQueue[i] = c
    /\ \A i, j \in 1 .. Len(mainQueue) : mainQueue[i] = mainQueue[j] => i = j

\* and a call leaves its screen only with something to see: the screen is gone
\* or covered by the next one, or its alert is up.
AnswersAreSeen ==
    [][\A c \in Calls :
            LET v == calls[c].view IN
            v # 0 /\ calls'[c].view # v => Len(stack') # v \/ stack'[v].alert]_vars

-----------------------------------------------------------------------------
(* The inductive invariant behind the properties above                     *)

\* A sign-up or sign-in screen sits on a HomeView, and every screen that a
\* handler or a tap may still push fits under MaxDepth.
ScreensLinked ==
    /\ stack[1].kind = "Home"
    /\ \A i \in 2 .. Len(stack) :
            stack[i].kind \in {"Register", "Login"} => stack[i - 1].kind = "Home"
    /\ \A i \in 1 .. Len(stack) :
            /\ stack[i].kind = "Register" => i + 2 <= MaxDepth
            /\ stack[i].kind \in {"Login", "Registration"} => i + 1 <= MaxDepth

\* Only accounts sign in, and only accounts have a profile.
AccountsKnown ==
    /\ currentUser # None => currentUser \in accounts
    /\ \A e \in Emails : users[e] # None => e \in accounts

CallsWellFormed ==
    /\ CallsKnowTheirScreen
    /\ \A c \in Calls : IF Outstanding(c)
          THEN /\ calls[c].op \in {"register", "signIn"}
               /\ calls[c].email \in Emails
               /\ calls[c].phase = "ok" => calls[c].email \in accounts
          ELSE calls[c].view = 0

\* A sign-in screen that is covered has no alert to close.
CoveredLoginIsQuiet ==
    \A v \in 1 .. Len(stack) - 1 : stack[v].kind = "Login" => ~stack[v].alert

\* Until calls overlap, the screen of an outstanding call is on top or gone.
CallerIsOnTop ==
    ~overlap => \A c \in Calls : calls[c].view \in {0, Len(stack)}

\* While calls do not overlap, one call is outstanding at most, none while a
\* signed-in screen is on top, and what the last answer did to currentUser and
\* to the profiles is still so when its handler runs.
SerialCalls ==
    ~overlap =>
        /\ \A c, d \in Calls : Outstanding(c) /\ Outstanding(d) => c = d
        /\ \A c \in Calls : Outstanding(c) => Top.kind \in {"Home", "Register", "Login"}
        /\ \A c \in Calls : calls[c].phase = "ok" =>
                \/ currentUser = calls[c].email
                \/ currentUser = None /\ revoked
        /\ \A c \in Calls : calls[c].phase = "ok" /\ calls[c].op = "register" =>
                users[calls[c].email] = None

\* The conjunction is preserved by every step; its parts alone are not.
SessionInv ==
    /\ TypeOK
    /\ ScreensLinked
    /\ AccountsKnown
    /\ CallsWellFormed
    /\ AlertHasMessage
    /\ SerialCalls
    /\ SignedInAsOwner
    /\ ProfileIsOwners
    /\ RegistrationOnlyOnce

-----------------------------------------------------------------------------
(* What an assertion says                                                  *)

\* Firestore's assertion on the path storeUserDetails builds, "Document
\* references must have an even number of segments", never fails.
EvenPathSegments == ~aborted

=============================================================================
