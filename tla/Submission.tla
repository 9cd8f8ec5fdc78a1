---------------------------- MODULE Submission -----------------------------
(***************************************************************************)
(* Submitting a food event: the sheet with the form                        *)
(* (Views/Find/Submit Eat/FoodSubmissionView.swift), the search for a      *)
(* place in it (LocationSearchView.swift) and the query for the author's   *)
(* name that stands between the tap on Submit and the write                *)
(* (UserDataModel in Models/DataFetch.swift).                              *)
(*                                                                         *)
(* The sheet closes at the tap.  The name arrives later, when somebody     *)
(* else may be signed in or nobody: what is written then was captured at   *)
(* the tap.  A search answers later, too, and in any order.                *)
(*                                                                         *)
(* Who is signed in and who registers is up to the rest of the app         *)
(* (Session), here an environment that may change both at any time.        *)
(***************************************************************************)
EXTENDS Naturals, Sequences, FiniteSets

CONSTANTS
    Users,        \* uids
    Names,        \* what people type as their username
    Landmarks,    \* the places MapKit knows
    CollegePark,  \* those whose locality is "College Park"
    Searches,     \* tokens for searches in flight; bounds their number
    Taps,         \* tokens for taps on Submit that are accepted; bounds their number
    None          \* nil

ASSUME SubmissionAssumption ==
    /\ CollegePark \subseteq Landmarks
    /\ None \notin Users \cup Landmarks
    /\ {"empty", "typed"} \cap Landmarks = {}

VARIABLES
    currentUser,  \* Auth.auth().currentUser
    users,        \* the "users" collection, a set of documents
    sheet,        \* FindView.showSheet
    form,         \* the @State of FoodSubmissionView and LocationSearchView
    searching,    \* the searches whose answer the form on screen waits for
    fetches,      \* tap -> the fetchUsername it started and what it captured
    events        \* the documents written to "Food Submissions", in the order written

vars == <<currentUser, users, sheet, form, searching, fetches, events>>

-----------------------------------------------------------------------------
Profiles == [id : Users, UID : Users, Username : Names]

Buildings == {"empty", "typed"} \cup Landmarks

\* "mixed" is the placeholder with something typed into it.
Texts == {"placeholder", "empty", "typed", "mixed"}

FoodFormErrors == {"none", "buildingMissing", "roomNoMissing", "restaurantMissing"}

Forms == [loc : Buildings, landmark : Landmarks \cup {None}, infoText : Texts,
          incomplete : BOOLEAN, foodError : FoodFormErrors,
          landmarks : SUBSET Landmarks, listItemSelected : BOOLEAN]

NewForm == [loc |-> "empty", landmark |-> None, infoText |-> "placeholder",
            incomplete |-> FALSE, foodError |-> "none",
            landmarks |-> {}, listItemSelected |-> FALSE]

\* phase: how far the query is; docs: its result; cause: why the result lacks
\* a profile that exists; known: history, the author had a profile at the tap.
Fetches == [phase : {"unused", "sent", "answered", "done"}, uid : Users \cup {None},
            building : Buildings, landmark : Landmarks \cup {None}, info : Texts,
            docs : SUBSET Profiles, cause : {"none", "error", "offline", "killed"},
            known : BOOLEAN]

Unused == [phase |-> "unused", uid |-> None, building |-> "empty", landmark |-> None,
           info |-> "empty", docs |-> {}, cause |-> "none", known |-> FALSE]

\* The document gets a generated id; here it is its place in events.
Events == [tap : Taps, profile : Users, UID : Users, username : Names,
           building : Buildings, landmark : Landmarks \cup {None}, info : Texts]

FoodEvent(t, f, uid, d) ==
    [tap |-> t, profile |-> d.id, UID |-> uid, username |-> d.Username,
     building |-> f.building, landmark |-> f.landmark, info |-> f.info]

\* The controls of the sheet take taps unless its alert is up.
Ready == sheet /\ ~form.incomplete

written == {events[i] : i \in 1 .. Len(events)}

\* The documents of D, each once, in any order.
Orders(D) == {s \in [1 .. Cardinality(D) -> D] : \A i, j \in DOMAIN s : s[i] = s[j] => i = j}

HasProfile(u) == \E d \in users : d.UID = u

-----------------------------------------------------------------------------
(* The rest of the app                                                     *)

\* Somebody signs in, late or on time, or out, or is signed out.
userChanges(u) ==
    /\ currentUser' = u
    /\ UNCHANGED <<users, sheet, form, searching, fetches, events>>

storeUserDetailsUnderNewId(name) ==
    /\ ~sheet
    /\ currentUser # None
    /\ \E id \in Users \ {d.id : d \in users} :
            users' = users \cup {[id |-> id, UID |-> currentUser, Username |-> name]}
    /\ UNCHANGED <<currentUser, sheet, form, searching, fetches, events>>
\* RegistrationView writes the profile under the uid as document id, so a
\* second profile of the same user replaces the first.
storeUserDetails(name) ==
    /\ ~sheet
    /\ currentUser # None
    /\ users' = {d \in users : d.id # currentUser} \cup
                    {[id |-> currentUser, UID |-> currentUser, Username |-> name]}
    /\ UNCHANGED <<currentUser, sheet, form, searching, fetches, events>>

-----------------------------------------------------------------------------
(* The sheet                                                               *)

\* "Submit Eats" presents a new form.
showSheet ==
    /\ ~sheet
    /\ sheet' = TRUE
    /\ form' = NewForm
    /\ UNCHANGED <<currentUser, users, searching, fetches, events>>

\* The sheet is gone with its state: answers to its searches show nowhere.
Closed ==
    /\ sheet' = FALSE
    /\ form' = NewForm
    /\ searching' = {}

cancel ==
    /\ Ready
    /\ Closed
    /\ UNCHANGED <<currentUser, users, fetches, events>>

dismissAlert ==
    /\ sheet
    /\ form.incomplete
    /\ form' = [form EXCEPT !.incomplete = FALSE]
    /\ UNCHANGED <<currentUser, users, sheet, searching, fetches, events>>

\* A tap on the empty building field fills in the name of the chosen place.
tapBuilding ==
    /\ Ready
    /\ form.landmark # None
    /\ form.loc = "empty"
    /\ form' = [form EXCEPT !.loc = form.landmark]
    /\ UNCHANGED <<currentUser, users, sheet, searching, fetches, events>>

typeBuilding(text) ==
    /\ Ready
    /\ form' = [form EXCEPT !.loc = text]
    /\ UNCHANGED <<currentUser, users, sheet, searching, fetches, events>>

\* A tap on the text editor takes the placeholder away or puts it back.
tapInfo ==
    /\ Ready
    /\ form.infoText \in {"placeholder", "empty"}
    /\ form' = [form EXCEPT !.infoText =
                    IF @ = "placeholder" THEN "empty" ELSE "placeholder"]
    /\ UNCHANGED <<currentUser, users, sheet, searching, fetches, events>>

typeInfo(text) ==
    /\ Ready
    /\ text = "mixed" => form.infoText \in {"placeholder", "mixed"}
    /\ form' = [form EXCEPT !.infoText = text]
    /\ UNCHANGED <<currentUser, users, sheet, searching, fetches, events>>

-----------------------------------------------------------------------------
(* The search for a place                                                  *)

getNearByLandmarks(s) ==
    /\ Ready
    /\ s \notin searching
    /\ searching' = searching \cup {s}
    /\ form' = [form EXCEPT !.listItemSelected = FALSE]
    /\ UNCHANGED <<currentUser, users, sheet, fetches, events>>

\* Only places in College Park are listed, whatever the query found.
landmarksFoundAnywhere(s, mapItems) ==
    /\ s \in searching
    /\ searching' = searching \ {s}
    /\ form' = [form EXCEPT !.landmarks = mapItems]
    /\ UNCHANGED <<currentUser, users, sheet, fetches, events>>
landmarksFound(s, mapItems) ==
    /\ s \in searching
    /\ searching' = searching \ {s}
    /\ form' = [form EXCEPT !.landmarks = mapItems \cap CollegePark]
    /\ UNCHANGED <<currentUser, users, sheet, fetches, events>>

\* No response: the list stays as it is.
searchFails(s) ==
    /\ s \in searching
    /\ searching' = searching \ {s}
    /\ UNCHANGED <<currentUser, users, sheet, form, fetches, events>>

pickLandmark(landmark) ==
    /\ Ready
    /\ ~form.listItemSelected
    /\ landmark \in form.landmarks
    /\ form' = [form EXCEPT !.landmark = landmark,
                            !.listItemSelected = ~form.listItemSelected]
    /\ UNCHANGED <<currentUser, users, sheet, searching, fetches, events>>

-----------------------------------------------------------------------------
(* Submit                                                                  *)

\* The checks run in the order building, room, restaurant; the last one that
\* fails names the error.
Missing(room, food) ==
    CASE ~food -> "restaurantMissing"
      [] food /\ ~room -> "roomNoMissing"
      [] food /\ room /\ (form.loc = "empty" \/ form.landmark = None) -> "buildingMissing"
      [] OTHER -> "none"

\* The placeholder is not a text.
Info == IF form.infoText = "placeholder" THEN "empty" ELSE form.infoText

submitIncomplete(room, food) ==
    /\ Ready
    /\ Missing(room, food) # "none"
    /\ form' = [form EXCEPT !.incomplete = TRUE, !.foodError = Missing(room, food),
                            !.infoText = Info]
    /\ UNCHANGED <<currentUser, users, sheet, searching, fetches, events>>

\* Nobody is signed in: nothing is stored, and the sheet closes all the same.
submitSignedOut ==
    /\ Ready
    /\ Missing(TRUE, TRUE) = "none"
    /\ currentUser = None
    /\ Closed
    /\ UNCHANGED <<currentUser, users, fetches, events>>

\* storeFoodSubmission captures the uid and the form and asks for the name.
storeFoodSubmission(t) ==
    /\ Ready
    /\ Missing(TRUE, TRUE) = "none"
    /\ currentUser # None
    /\ fetches[t].phase = "unused"
    /\ fetches' = [fetches EXCEPT ![t] =
            [phase |-> "sent", uid |-> currentUser, building |-> form.loc,
             landmark |-> form.landmark, info |-> Info, docs |-> {},
             cause |-> "none", known |-> HasProfile(currentUser)]]
    /\ Closed
    /\ UNCHANGED <<currentUser, users, events>>

-----------------------------------------------------------------------------
(* fetchUsername                                                           *)

\* The query's result is fixed; its callback is queued on the main thread.
fetchAnsweredFor(t, uid) ==
    /\ fetches[t].phase = "sent"
    /\ fetches' = [fetches EXCEPT ![t] =
            [@ EXCEPT !.phase = "answered", !.docs = {d \in users : d.UID = uid}]]
    /\ UNCHANGED <<currentUser, users, sheet, form, searching, events>>
fetchAnsweredForCurrentUser(t) == fetchAnsweredFor(t, currentUser)
fetchAnswered(t) == fetchAnsweredFor(t, fetches[t].uid)

\* The query fails; or, without a connection, its result comes from a cache
\* that does not have the profile.
fetchFails(t, cause) ==
    /\ fetches[t].phase = "sent"
    /\ fetches' = [fetches EXCEPT ![t] = [@ EXCEPT !.phase = "answered", !.cause = cause]]
    /\ UNCHANGED <<currentUser, users, sheet, form, searching, events>>

\* The callback runs once for each document found, and each run adds a document.
eventsWritten(t, uid) ==
    /\ fetches[t].phase = "answered"
    /\ fetches' = [fetches EXCEPT ![t] = [@ EXCEPT !.phase = "done"]]
    /\ \E found \in Orders(fetches[t].docs) :
            events' = events \o [i \in 1 .. Cardinality(fetches[t].docs) |->
                                    FoodEvent(t, fetches[t], uid, found[i])]
    /\ UNCHANGED <<currentUser, users, sheet, form, searching>>
usernameFetchedNow(t) == eventsWritten(t, currentUser)
usernameFetched(t) == eventsWritten(t, fetches[t].uid)

-----------------------------------------------------------------------------
\* The process ends: the sheet and the queries in flight are lost, the signed-in
\* user and what was written are not.
Relaunch ==
    /\ Closed
    /\ fetches' = [t \in Taps |->
            IF fetches[t].phase \in {"sent", "answered"}
            THEN [fetches[t] EXCEPT !.phase = "done", !.cause = "killed"]
            ELSE fetches[t]]
    /\ UNCHANGED <<currentUser, users, events>>

Init ==
    /\ currentUser = None
    /\ users = {}
    /\ sheet = FALSE
    /\ form = NewForm
    /\ searching = {}
    /\ fetches = [t \in Taps |-> Unused]
    /\ events = << >>

Environment ==
    \/ \E u \in Users \cup {None} : userChanges(u)
    \/ \E name \in Names : storeUserDetails(name)
    \/ Relaunch

Form ==
    \/ showSheet \/ cancel \/ dismissAlert \/ tapBuilding \/ tapInfo
    \/ \E text \in {"empty", "typed"} : typeBuilding(text)
    \/ \E text \in {"empty", "typed", "mixed"} : typeInfo(text)
    \/ \E landmark \in Landmarks : pickLandmark(landmark)
    \/ \E room, food \in BOOLEAN : submitIncomplete(room, food)
    \/ submitSignedOut
    \/ \E t \in Taps : storeFoodSubmission(t)

Search ==
    \E s \in Searches :
        \/ getNearByLandmarks(s)
        \/ \E mapItems \in SUBSET Landmarks : landmarksFound(s, mapItems)
        \/ searchFails(s)

Answered(t) == fetchAnswered(t) \/ \E cause \in {"error", "offline"} : fetchFails(t, cause)

Next ==
    \/ Environment
    \/ Form
    \/ Search
    \/ \E t \in Taps : Answered(t) \/ usernameFetched(t)

Spec == Init /\ [][Next]_vars

-----------------------------------------------------------------------------
(* Properties                                                              *)

TypeOK ==
    /\ currentUser \in Users \cup {None}
    /\ users \subseteq Profiles
    /\ sheet \in BOOLEAN
    /\ form \in Forms
    /\ searching \subseteq Searches
    /\ fetches \in [Taps -> Fetches]
    /\ events \in Seq(Events)

\* An event names the account that was signed in at the tap, whoever is signed
\* in when the name arrives, and the name is from that account's profile.
Attribution ==
    \A e \in written : e.UID = fetches[e.tap].uid /\ e.profile = e.UID

\* One tap writes one event at most, although the callback runs once for each
\* document with the author's uid: RegistrationView never leaves two.
OneEventPerTap ==
    \A i, j \in 1 .. Len(events) : events[i].tap = events[j].tap => i = j

\* What is written passed the form: a building, a place in College Park, and no
\* bare placeholder, however the form and its searches were used before.
EventsComplete ==
    \A e \in written : /\ e.building # "empty"
                      /\ e.landmark \in CollegePark
                      /\ e.info # "placeholder"

\* The sheet closes before anything is written.  Still an accepted submission
\* of somebody who had a profile is lost only to an error of the query, a
\* cache without the profile or the end of the process.
LossHasACause ==
    \A t \in Taps : fetches[t].phase = "done" /\ fetches[t].known
                        /\ fetches[t].cause = "none"
        => \E e \in written : e.tap = t

\* Seen from the board, a submission is posted once under its author or lost,
\* and never both: sheets, queries and callbacks only stutter.
authors == [t \in Taps |-> fetches[t].uid]
posts == [i \in 1 .. Len(events) |-> <<events[i].tap, events[i].UID>>]
losses == {t \in Taps : fetches[t].phase = "done" /\ \A e \in written : e.tap # t}

Promise == INSTANCE FoodBoard WITH author <- authors, board <- posts, lost <- losses

\* Submission implements FoodBoard under this mapping.
ImplementsBoard == Promise!Spec

-----------------------------------------------------------------------------
(* The inductive invariant                                                 *)

\* The document id is the uid, so no uid has two documents.
KeyedByUid(docs) ==
    /\ \A d \in docs : d.id = d.UID
    /\ \A d, e \in docs : d.id = e.id => d = e

\* The form lists and holds places in College Park only.
FormInCollegePark ==
    /\ form.landmarks \subseteq CollegePark
    /\ form.landmark \in CollegePark \cup {None}

\* What a fetch has captured and found.
FetchOK(t) ==
    LET f == fetches[t] IN
    /\ f.phase = "unused" => f.docs = {} /\ f.uid = None
    /\ f.phase # "unused" => /\ f.building # "empty"
                             /\ f.landmark \in CollegePark
                             /\ f.info # "placeholder"
                             /\ f.uid \in Users
    /\ KeyedByUid(f.docs)
    /\ \A d \in f.docs : d.UID = f.uid
    /\ f.phase = "sent" => f.docs = {} /\ f.cause = "none" /\ (f.known => HasProfile(f.uid))
    /\ f.phase = "answered" /\ f.known /\ f.cause = "none" => f.docs # {}

\* Only a callback that has run has written, and it wrote what was found.
EventsFromFetches ==
    \A e \in written : /\ fetches[e.tap].phase = "done"
                      /\ \E d \in fetches[e.tap].docs :
                            e = FoodEvent(e.tap, fetches[e.tap], fetches[e.tap].uid, d)

SubmissionInv ==
    /\ TypeOK
    /\ KeyedByUid(users)
    /\ FormInCollegePark
    /\ \A t \in Taps : FetchOK(t)
    /\ EventsFromFetches
    /\ OneEventPerTap
    /\ LossHasACause

=============================================================================
