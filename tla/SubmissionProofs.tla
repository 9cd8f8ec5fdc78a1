-------------------------- MODULE SubmissionProofs --------------------------
(***************************************************************************)
(* Proofs about Submission, for any users, places and names and any number *)
(* of searches and submissions.                                            *)
(***************************************************************************)
EXTENDS Submission, SequenceTheorems, FiniteSetTheorems, TLAPS

-----------------------------------------------------------------------------
(* The inductive invariant                                                 *)

\* What is written are events.
LEMMA WrittenTypes ==
    ASSUME events \in Seq(Events)
    PROVE  written \subseteq Events /\ \A e \in written : e.tap \in Taps
  <1>1. \A i \in 1 .. Len(events) : events[i] \in Events
    BY ElementOfSeq
  <1>2. \A e \in Events : e.tap \in Taps
    BY DEF Events
  <1>. QED
    BY <1>1, <1>2 DEF written

\* A step of the form alone: profiles, queries and events stay.
LEMMA FormStep ==
    ASSUME SubmissionInv, UNCHANGED <<users, fetches, events>>,
           currentUser' \in Users \cup {None}, sheet' \in BOOLEAN, form' \in Forms,
           searching' \subseteq Searches, FormInCollegePark'
    PROVE  SubmissionInv'
  <1>1. TypeOK'
    BY DEF SubmissionInv, TypeOK
  <1>2. KeyedByUid(users)' /\ \A t \in Taps : FetchOK(t)'
    BY DEF SubmissionInv, FetchOK, KeyedByUid, HasProfile
  <1>3. EventsFromFetches' /\ OneEventPerTap' /\ LossHasACause'
    BY DEF SubmissionInv, EventsFromFetches, OneEventPerTap, LossHasACause, written
  <1>. QED
    BY <1>1, <1>2, <1>3 DEF SubmissionInv

\* A closed sheet has a new form.
LEMMA ClosedForm == Closed => form' \in Forms /\ FormInCollegePark' /\ searching' = {}
  BY DEF Closed, NewForm, Forms, Buildings, Texts, FoodFormErrors, FormInCollegePark

\* Every tap, every keystroke and every answer to a search keeps the invariant,
\* but for an accepted submission, which starts a query.
LEMMA FormKeeps ==
    ASSUME SubmissionInv, (Form /\ ~\E t \in Taps : storeFoodSubmission(t)) \/ Search
    PROVE  SubmissionInv'
  <1>0. /\ currentUser \in Users \cup {None} /\ sheet \in BOOLEAN /\ form \in Forms
        /\ searching \subseteq Searches /\ FormInCollegePark
    BY DEF SubmissionInv, TypeOK
  <1>1. CASE showSheet
    BY <1>0, <1>1, FormStep
       DEF showSheet, NewForm, Forms, Buildings, Texts, FoodFormErrors, FormInCollegePark
  <1>2. CASE cancel
    BY <1>0, <1>2, FormStep, ClosedForm DEF cancel, Closed
  <1>3. CASE dismissAlert
    BY <1>0, <1>3, FormStep DEF dismissAlert, Forms, FormInCollegePark
  <1>4. CASE tapBuilding
    BY <1>0, <1>4, FormStep DEF tapBuilding, Forms, Buildings, FormInCollegePark
  <1>5. CASE tapInfo
    BY <1>0, <1>5, FormStep DEF tapInfo, Forms, Texts, FormInCollegePark
  <1>6. ASSUME NEW text \in {"empty", "typed"}, typeBuilding(text)
        PROVE  SubmissionInv'
    BY <1>0, <1>6, FormStep DEF typeBuilding, Forms, Buildings, FormInCollegePark
  <1>7. ASSUME NEW text \in {"empty", "typed", "mixed"}, typeInfo(text)
        PROVE  SubmissionInv'
    BY <1>0, <1>7, FormStep DEF typeInfo, Forms, Texts, FormInCollegePark
  <1>8. ASSUME NEW landmark \in Landmarks, pickLandmark(landmark)
        PROVE  SubmissionInv'
    BY <1>0, <1>8, FormStep DEF pickLandmark, Forms, FormInCollegePark
  <1>9. ASSUME NEW room \in BOOLEAN, NEW food \in BOOLEAN, submitIncomplete(room, food)
        PROVE  SubmissionInv'
    <2>1. Missing(room, food) \in FoodFormErrors /\ Info \in Texts
      BY <1>0 DEF Missing, FoodFormErrors, Info, Forms, Texts
    <2>. QED
      BY <1>0, <1>9, <2>1, FormStep DEF submitIncomplete, Forms, FormInCollegePark
  <1>10. CASE submitSignedOut
    BY <1>0, <1>10, FormStep, ClosedForm DEF submitSignedOut, Closed
  <1>11. ASSUME NEW s \in Searches, getNearByLandmarks(s)
         PROVE  SubmissionInv'
    BY <1>0, <1>11, FormStep DEF getNearByLandmarks, Forms, FormInCollegePark
  <1>12. ASSUME NEW s \in Searches, NEW mapItems \in SUBSET Landmarks,
                landmarksFound(s, mapItems)
         PROVE  SubmissionInv'
    BY <1>0, <1>12, FormStep DEF landmarksFound, Forms, FormInCollegePark
  <1>13. ASSUME NEW s \in Searches, searchFails(s)
         PROVE  SubmissionInv'
    BY <1>0, <1>13, FormStep DEF searchFails, Forms, FormInCollegePark
  <1>. QED
    BY <1>1, <1>2, <1>3, <1>4, <1>5, <1>6, <1>7, <1>8, <1>9, <1>10, <1>11, <1>12, <1>13
       DEF Form, Search

\* A step that rewrites the fetch of tap t and writes no event.
LEMMA FetchStep ==
    ASSUME SubmissionInv, NEW t \in Taps, NEW f \in Fetches,
           fetches' = [fetches EXCEPT ![t] = f], fetches[t].phase # "done",
           f.phase # "done", UNCHANGED <<currentUser, users, events>>,
           sheet' \in BOOLEAN, form' \in Forms, searching' \subseteq Searches,
           FormInCollegePark', FetchOK(t)'
    PROVE  SubmissionInv'
  <1>1. fetches' \in [Taps -> Fetches]
        /\ \A u \in Taps : fetches'[u] = IF u = t THEN f ELSE fetches[u]
    BY DEF SubmissionInv, TypeOK
  <1>2. \A e \in written : e.tap \in Taps /\ e.tap # t
    BY WrittenTypes DEF SubmissionInv, TypeOK, EventsFromFetches
  <1>3. \A u \in Taps : FetchOK(u)'
    BY <1>1 DEF SubmissionInv, FetchOK, HasProfile
  <1>4. written' = written
    BY DEF written
  <1>5. EventsFromFetches'
    <2>1. \A e \in written : fetches'[e.tap] = fetches[e.tap]
      BY <1>1, <1>2
    <2>. QED
      BY <1>4, <2>1 DEF SubmissionInv, EventsFromFetches
  <1>6. LossHasACause' /\ OneEventPerTap'
    BY <1>1, <1>4 DEF SubmissionInv, LossHasACause, OneEventPerTap
  <1>7. TypeOK'
    BY <1>1 DEF SubmissionInv, TypeOK
  <1>. QED
    BY <1>3, <1>5, <1>6, <1>7 DEF SubmissionInv

\* An accepted submission and the end of its query keep the invariant.
LEMMA QueryKeeps ==
    ASSUME SubmissionInv, NEW t \in Taps, storeFoodSubmission(t) \/ Answered(t)
    PROVE  SubmissionInv'
  <1>0. /\ currentUser \in Users \cup {None} /\ sheet \in BOOLEAN /\ form \in Forms
        /\ searching \subseteq Searches /\ FormInCollegePark /\ users \subseteq Profiles
        /\ fetches[t] \in Fetches /\ FetchOK(t) /\ KeyedByUid(users)
    BY DEF SubmissionInv, TypeOK
  <1>1. CASE storeFoodSubmission(t)
    <2>. DEFINE f == [phase |-> "sent", uid |-> currentUser, building |-> form.loc,
                      landmark |-> form.landmark, info |-> Info, docs |-> {},
                      cause |-> "none", known |-> HasProfile(currentUser)]
    <2>1. fetches' = [fetches EXCEPT ![t] = f] /\ fetches[t].phase # "done"
      BY <1>1 DEF storeFoodSubmission
    <2>2. form.loc # "empty" /\ form.landmark \in CollegePark /\ Info # "placeholder"
          /\ currentUser \in Users
      BY <1>0, <1>1, SubmissionAssumption
         DEF storeFoodSubmission, Missing, Info, FormInCollegePark
    <2>3. Info \in Texts
      BY <1>0 DEF Info, Forms, Texts
    <2>4. HasProfile(currentUser) \in BOOLEAN
      BY DEF HasProfile
    <2>5. f \in Fetches
      BY <1>0, <2>2, <2>3, <2>4 DEF Fetches, Forms
    <2>6. fetches'[t] = f
      BY <2>1 DEF SubmissionInv, TypeOK
    <2>7. UNCHANGED <<currentUser, users, events>>
      BY <1>1 DEF storeFoodSubmission
    <2>8. FetchOK(t)'
      BY <2>2, <2>6, <2>7 DEF FetchOK, KeyedByUid, HasProfile
    <2>9. f.phase # "done"
      OBVIOUS
    <2>10. sheet' \in BOOLEAN /\ form' \in Forms /\ searching' \subseteq Searches
           /\ FormInCollegePark'
      BY <1>1, ClosedForm DEF storeFoodSubmission, Closed
    <2>. HIDE DEF f
    <2>. QED
      BY <2>1, <2>5, <2>7, <2>8, <2>9, <2>10, FetchStep
  <1>2. CASE fetchAnswered(t)
    <2>. DEFINE f == [fetches[t] EXCEPT !.phase = "answered",
                                        !.docs = {d \in users : d.UID = fetches[t].uid}]
    <2>1. fetches' = [fetches EXCEPT ![t] = f] /\ fetches[t].phase = "sent"
      BY <1>2 DEF fetchAnswered, fetchAnsweredFor
    <2>2. f \in Fetches
      BY <1>0 DEF Fetches
    <2>3. fetches'[t] = f
      BY <2>1 DEF SubmissionInv, TypeOK
    <2>4. /\ f.phase = "answered" /\ f.uid = fetches[t].uid /\ f.known = fetches[t].known
          /\ f.cause = fetches[t].cause /\ f.building = fetches[t].building
          /\ f.landmark = fetches[t].landmark /\ f.info = fetches[t].info
          /\ f.docs = {d \in users : d.UID = fetches[t].uid}
      BY <1>0 DEF Fetches
    <2>. HIDE DEF f
    <2>5. FetchOK(t)'
      BY <1>0, <2>1, <2>3, <2>4 DEF FetchOK, KeyedByUid, HasProfile
    <2>. QED
      BY <1>0, <1>2, <2>1, <2>2, <2>4, <2>5, FetchStep
         DEF fetchAnswered, fetchAnsweredFor, FormInCollegePark
  <1>3. ASSUME NEW cause \in {"error", "offline"}, fetchFails(t, cause)
        PROVE  SubmissionInv'
    <2>. DEFINE f == [fetches[t] EXCEPT !.phase = "answered", !.cause = cause]
    <2>1. fetches' = [fetches EXCEPT ![t] = f] /\ fetches[t].phase = "sent"
      BY <1>3 DEF fetchFails
    <2>2. f \in Fetches
      BY <1>0 DEF Fetches
    <2>3. fetches'[t] = f
      BY <2>1 DEF SubmissionInv, TypeOK
    <2>4. /\ f.phase = "answered" /\ f.uid = fetches[t].uid /\ f.cause = cause
          /\ f.building = fetches[t].building /\ f.landmark = fetches[t].landmark
          /\ f.info = fetches[t].info /\ f.docs = fetches[t].docs
      BY <1>0 DEF Fetches
    <2>. HIDE DEF f
    <2>5. FetchOK(t)'
      BY <1>0, <2>1, <2>3, <2>4 DEF FetchOK, KeyedByUid
    <2>. QED
      BY <1>0, <1>3, <2>1, <2>2, <2>4, <2>5, FetchStep DEF fetchFails, FormInCollegePark
  <1>. QED
    BY <1>1, <1>2, <1>3 DEF Answered

\* What an answered query lets the callback write are events.
LEMMA FoundIsEvent ==
    ASSUME SubmissionInv, NEW t \in Taps, fetches[t].phase = "answered",
           NEW d \in fetches[t].docs
    PROVE  FoodEvent(t, fetches[t], fetches[t].uid, d) \in Events
  <1>1. fetches[t] \in Fetches /\ FetchOK(t)
    BY DEF SubmissionInv, TypeOK
  <1>2. d \in Profiles /\ fetches[t].uid \in Users
    BY <1>1 DEF FetchOK, Fetches
  <1>. QED
    BY <1>1, <1>2 DEF FoodEvent, Events, Profiles, Fetches

\* A query finds one document at most, so that there is one event to write or none.
LEMMA CallbackWrites ==
    ASSUME SubmissionInv, NEW t \in Taps, usernameFetched(t)
    PROVE  \/ fetches[t].docs = {} /\ events' = events
           \/ \E d \in fetches[t].docs :
                /\ fetches[t].docs = {d}
                /\ events' = Append(events, FoodEvent(t, fetches[t], fetches[t].uid, d))
  <1>. DEFINE D == fetches[t].docs
              event(d) == FoodEvent(t, fetches[t], fetches[t].uid, d)
  <1>1. PICK found \in Orders(D) : events' = events \o [i \in 1 .. Cardinality(D) |-> event(found[i])]
    BY DEF usernameFetched, eventsWritten
  <1>2. events \in Seq(Events) /\ FetchOK(t) /\ fetches[t].phase = "answered"
    BY DEF SubmissionInv, TypeOK, usernameFetched, eventsWritten
  <1>3. D = {} \/ \E d \in D : D = {d}
    <2>1. \A d, e \in D : d = e
      BY <1>2 DEF FetchOK, KeyedByUid
    <2>. QED
      BY <2>1
  <1>4. CASE D = {}
    <2>1. Cardinality(D) = 0
      BY <1>4, FS_EmptySet
    <2>. HIDE DEF D, event
    <2>2. [i \in 1 .. Cardinality(D) |-> event(found[i])] = << >>
      BY <2>1
    <2>3. events' = events
      BY <1>1, <1>2, <2>2, ConcatEmptySeq
    <2>. QED
      BY <1>4, <2>3 DEF D
  <1>5. ASSUME NEW d \in D, D = {d}
        PROVE  events' = Append(events, event(d))
    <2>1. Cardinality(D) = 1
      BY <1>5, FS_Singleton
    <2>2. found \in [1 .. Cardinality(D) -> D]
      BY DEF Orders
    <2>3. found[1] = d
      BY <1>5, <2>1, <2>2
    <2>4. event(d) \in Events
      BY <1>2, FoundIsEvent
    <2>. HIDE DEF D, event
    <2>5. [i \in 1 .. Cardinality(D) |-> event(found[i])] = << event(d) >>
      BY <2>1, <2>3
    <2>. QED
      BY <1>1, <1>2, <2>4, <2>5, AppendIsConcat
  <1>. QED
    BY <1>3, <1>4, <1>5

\* The callback keeps the invariant: what it writes is what the fetch found.
LEMMA CallbackKeeps ==
    ASSUME SubmissionInv, NEW t \in Taps, usernameFetched(t)
    PROVE  SubmissionInv'
  <1>. DEFINE f == [fetches[t] EXCEPT !.phase = "done"]
              event(d) == FoodEvent(t, fetches[t], fetches[t].uid, d)
  <1>0. fetches[t] \in Fetches /\ FetchOK(t) /\ fetches[t].phase = "answered"
    BY DEF SubmissionInv, TypeOK, usernameFetched, eventsWritten
  <1>1. /\ f \in Fetches /\ f.phase = "done" /\ f.uid = fetches[t].uid
        /\ f.cause = fetches[t].cause /\ f.building = fetches[t].building
        /\ f.landmark = fetches[t].landmark /\ f.info = fetches[t].info
        /\ f.docs = fetches[t].docs /\ f.known = fetches[t].known
    BY <1>0 DEF Fetches
  <1>2. fetches' = [fetches EXCEPT ![t] = f]
        /\ UNCHANGED <<currentUser, users, sheet, form, searching>>
    BY DEF usernameFetched, eventsWritten
  <1>4. \A d \in fetches[t].docs : event(d) \in Events /\ event(d).tap = t
    <2>1. \A d \in fetches[t].docs : event(d) \in Events
      BY <1>0, FoundIsEvent
    <2>. QED
      BY <2>1 DEF FoodEvent
  <1>. HIDE DEF f
  <1>3. /\ events' \in Seq(Events)
        /\ written' = written \cup {event(d) : d \in fetches[t].docs}
        /\ OneEventPerTap'
    <2>1. events \in Seq(Events) /\ OneEventPerTap
      BY DEF SubmissionInv, TypeOK
    <2>2. \A i \in 1 .. Len(events) : events[i].tap # t
      BY <1>0 DEF SubmissionInv, EventsFromFetches, written
    <2>3. CASE fetches[t].docs = {} /\ events' = events
      BY <2>1, <2>3 DEF written, OneEventPerTap
    <2>4. ASSUME NEW d \in fetches[t].docs, fetches[t].docs = {d},
                 events' = Append(events, event(d))
          PROVE  /\ events' \in Seq(Events)
                 /\ written' = written \cup {event(e) : e \in fetches[t].docs}
                 /\ OneEventPerTap'
      <3>. DEFINE e == event(d)
      <3>1. e \in Events /\ e.tap = t
        BY <1>4
      <3>2. {event(x) : x \in fetches[t].docs} = {e}
        BY <2>4
      <3>3. events' = Append(events, e)
        BY <2>4
      <3>. HIDE DEF e, event
      <3>4. /\ events' \in Seq(Events) /\ Len(events') = Len(events) + 1 /\ Len(events) \in Nat
            /\ \A i \in 1 .. Len(events) : events'[i] = events[i]
            /\ events'[Len(events) + 1] = e
        BY <2>1, <3>1, <3>3, AppendProperties
      <3>5. written' = written \cup {e}
        BY <3>4 DEF written
      <3>6. OneEventPerTap'
        BY <2>1, <2>2, <3>1, <3>4 DEF OneEventPerTap
      <3>. QED
        BY <3>2, <3>4, <3>5, <3>6
    <2>. QED
      BY <2>3, <2>4, CallbackWrites
  <1>5. fetches' \in [Taps -> Fetches]
        /\ \A u \in Taps : fetches'[u] = IF u = t THEN f ELSE fetches[u]
    BY <1>1, <1>2 DEF SubmissionInv, TypeOK
  <1>6. \A e \in written : e.tap \in Taps /\ e.tap # t
    BY <1>0, WrittenTypes DEF SubmissionInv, TypeOK, EventsFromFetches
  <1>7. \A u \in Taps : FetchOK(u)'
    <2>1. FetchOK(t)'
      BY <1>0, <1>1, <1>2, <1>5 DEF FetchOK, KeyedByUid
    <2>2. ASSUME NEW u \in Taps, u # t
          PROVE  FetchOK(u)'
      BY <1>2, <1>5, <2>2 DEF SubmissionInv, FetchOK, HasProfile
    <2>. QED
      BY <2>1, <2>2
  <1>8. EventsFromFetches'
    <2>. DEFINE Written(e, g) == /\ g.phase = "done"
                                 /\ \E d \in g.docs : e = FoodEvent(e.tap, g, g.uid, d)
    <2>1. ASSUME NEW e \in written
          PROVE  Written(e, fetches'[e.tap])
      <3>1. fetches'[e.tap] = fetches[e.tap]
        BY <1>5, <1>6, <2>1
      <3>. QED
        BY <2>1, <3>1, Zenon DEF SubmissionInv, EventsFromFetches
    <2>2. ASSUME NEW d \in fetches[t].docs
          PROVE  Written(event(d), fetches'[event(d).tap])
      <3>1. event(d).tap = t /\ fetches'[t] = f
        BY <1>4, <1>5, <2>2
      <3>2. event(d) = FoodEvent(t, f, f.uid, d)
        BY <1>1 DEF FoodEvent
      <3>. QED
        BY <1>1, <3>1, <3>2, Zenon
    <2>3. EventsFromFetches' <=> \A e \in written' : Written(e, fetches'[e.tap])
      BY Zenon DEF EventsFromFetches
    <2>. HIDE DEF event, Written
    <2>. QED
      BY <1>3, <2>1, <2>2, <2>3, Zenon
  <1>9. LossHasACause'
    <2>1. fetches[t].known /\ fetches[t].cause = "none" => \E e \in written' : e.tap = t
      BY <1>0, <1>3, <1>4 DEF FetchOK
    <2>2. ASSUME NEW u \in Taps, u # t, fetches'[u].phase = "done", fetches'[u].known,
                 fetches'[u].cause = "none"
          PROVE  \E e \in written' : e.tap = u
      BY <1>3, <1>5, <2>2 DEF SubmissionInv, LossHasACause
    <2>. QED
      BY <1>1, <1>5, <2>1, <2>2 DEF LossHasACause
  <1>10. TypeOK'
    BY <1>2, <1>3, <1>5 DEF SubmissionInv, TypeOK
  <1>. QED
    BY <1>2, <1>3, <1>7, <1>8, <1>9, <1>10 DEF SubmissionInv, FormInCollegePark

\* Sign-ins, new profiles and the end of the process keep the invariant.
LEMMA EnvironmentKeeps ==
    ASSUME SubmissionInv, Environment
    PROVE  SubmissionInv'
  <1>1. ASSUME NEW u \in Users \cup {None}, userChanges(u)
        PROVE  SubmissionInv'
    BY <1>1, FormStep DEF userChanges, SubmissionInv, TypeOK, FormInCollegePark
  <1>2. ASSUME NEW name \in Names, storeUserDetails(name)
        PROVE  SubmissionInv'
    <2>. DEFINE p == [id |-> currentUser, UID |-> currentUser, Username |-> name]
    <2>1. users' = {d \in users : d.id # currentUser} \cup {p} /\ currentUser \in Users
          /\ UNCHANGED <<currentUser, sheet, form, searching, fetches, events>>
      BY <1>2 DEF storeUserDetails, SubmissionInv, TypeOK
    <2>2. p \in Profiles /\ p.id = currentUser /\ p.UID = currentUser
      BY <2>1 DEF Profiles
    <2>. HIDE DEF p
    <2>3. KeyedByUid(users)'
      BY <2>1, <2>2 DEF SubmissionInv, KeyedByUid
    <2>4. \A u : HasProfile(u) => HasProfile(u)'
      BY <2>1, <2>2 DEF SubmissionInv, KeyedByUid, HasProfile
    <2>5. ASSUME NEW t \in Taps
          PROVE  FetchOK(t)'
      BY <2>1, <2>4, <2>5, Zenon DEF SubmissionInv, FetchOK
    <2>6. TypeOK' /\ EventsFromFetches' /\ OneEventPerTap' /\ LossHasACause'
          /\ FormInCollegePark'
      BY <2>1, <2>2 DEF SubmissionInv, TypeOK, EventsFromFetches, OneEventPerTap,
         LossHasACause, FormInCollegePark, written
    <2>. QED
      BY <2>3, <2>5, <2>6 DEF SubmissionInv
  <1>3. CASE Relaunch
    <2>1. \A t \in Taps : fetches[t] \in Fetches
      BY DEF SubmissionInv, TypeOK
    <2>2. \A t \in Taps : fetches'[t] = IF fetches[t].phase \in {"sent", "answered"}
                                        THEN [fetches[t] EXCEPT !.phase = "done", !.cause = "killed"]
                                        ELSE fetches[t]
      BY <1>3 DEF Relaunch
    <2>3. \A t \in Taps :
             /\ fetches'[t] \in Fetches
             /\ fetches'[t].uid = fetches[t].uid /\ fetches'[t].building = fetches[t].building
             /\ fetches'[t].landmark = fetches[t].landmark /\ fetches'[t].info = fetches[t].info
             /\ fetches'[t].docs = fetches[t].docs
             /\ fetches[t].phase \in {"sent", "answered"} =>
                    fetches'[t].phase = "done" /\ fetches'[t].cause = "killed"
             /\ fetches[t].phase \notin {"sent", "answered"} => fetches'[t] = fetches[t]
      <3>. SUFFICES ASSUME NEW t \in Taps
                    PROVE  LET f == fetches[t]
                               g == fetches'[t]
                           IN  /\ g \in Fetches /\ g.uid = f.uid /\ g.building = f.building
                               /\ g.landmark = f.landmark /\ g.info = f.info /\ g.docs = f.docs
                               /\ f.phase \in {"sent", "answered"} =>
                                        g.phase = "done" /\ g.cause = "killed"
                               /\ f.phase \notin {"sent", "answered"} => g = f
        BY Zenon
      <3>1. fetches[t] \in Fetches
        BY <2>1
      <3>2. CASE fetches[t].phase \in {"sent", "answered"}
        <4>1. fetches'[t] = [fetches[t] EXCEPT !.phase = "done", !.cause = "killed"]
          BY <2>2, <3>2
        <4>. QED
          BY <3>1, <3>2, <4>1 DEF Fetches
      <3>3. CASE fetches[t].phase \notin {"sent", "answered"}
        BY <2>2, <3>1, <3>3
      <3>. QED
        BY <3>2, <3>3
    <2>4. fetches' \in [Taps -> Fetches] /\ UNCHANGED <<currentUser, users, events>>
      BY <1>3, <2>3 DEF Relaunch
    <2>5. \A t \in Taps : FetchOK(t)'
      BY <2>1, <2>3, <2>4 DEF SubmissionInv, FetchOK, KeyedByUid
    <2>6. /\ written' = written
          /\ \A e \in written : fetches'[e.tap] = fetches[e.tap]
      <3>1. \A e \in written : e.tap \in Taps /\ fetches[e.tap].phase = "done"
        BY WrittenTypes DEF SubmissionInv, EventsFromFetches, TypeOK
      <3>2. written' = written
        BY <2>4 DEF written
      <3>. QED
        BY <2>2, <3>1, <3>2
    <2>7. EventsFromFetches'
      BY <2>4, <2>6, Zenon DEF SubmissionInv, EventsFromFetches
    <2>8. LossHasACause' /\ OneEventPerTap'
      BY <2>1, <2>3, <2>4, <2>6 DEF SubmissionInv, LossHasACause, OneEventPerTap
    <2>9. TypeOK' /\ FormInCollegePark'
      BY <1>3, <2>4, ClosedForm DEF Relaunch, Closed, SubmissionInv, TypeOK
    <2>. QED
      BY <2>4, <2>5, <2>7, <2>8, <2>9 DEF SubmissionInv, KeyedByUid
  <1>. QED
    BY <1>1, <1>2, <1>3 DEF Environment

\* The invariant holds at the start.
LEMMA SubmissionInit == Init => SubmissionInv
  <1>. SUFFICES ASSUME Init
                PROVE  SubmissionInv
    OBVIOUS
  <1>1. Unused \in Fetches /\ Unused.phase = "unused" /\ Unused.docs = {} /\ Unused.uid = None
        /\ Unused.known = FALSE
    BY DEF Unused, Fetches, Buildings, Texts
  <1>2. fetches \in [Taps -> Fetches] /\ \A t \in Taps : fetches[t] = Unused
    BY <1>1 DEF Init
  <1>3. TypeOK
    <2>1. events \in Seq(Events)
      BY EmptySeq DEF Init
    <2>2. form \in Forms
      BY DEF Init, NewForm, Forms, Buildings, Texts, FoodFormErrors
    <2>. QED
      BY <1>2, <2>1, <2>2 DEF Init, TypeOK
  <1>4. \A t \in Taps : FetchOK(t)
    BY <1>1, <1>2 DEF FetchOK, KeyedByUid
  <1>5. LossHasACause /\ OneEventPerTap /\ written = {}
    BY <1>1, <1>2 DEF Init, LossHasACause, OneEventPerTap, written
  <1>. QED
    BY <1>3, <1>4, <1>5
       DEF Init, SubmissionInv, KeyedByUid, FormInCollegePark, NewForm, EventsFromFetches

\* Every step keeps the invariant.
LEMMA SubmissionStep == SubmissionInv /\ [Next]_vars => SubmissionInv'
  <1>. SUFFICES ASSUME SubmissionInv, [Next]_vars
                PROVE  SubmissionInv'
    OBVIOUS
  <1>1. CASE UNCHANGED vars
    BY <1>1, FormStep DEF vars, SubmissionInv, TypeOK, FormInCollegePark
  <1>2. CASE Next
    BY <1>2, FormKeeps, QueryKeeps, CallbackKeeps, EnvironmentKeeps DEF Next
  <1>. QED
    BY <1>1, <1>2

\* The inductive invariant, and with it the types and the cause of every loss,
\* hold in every reachable state.
THEOREM SubmissionCorrect == Spec => []SubmissionInv
  BY SubmissionInit, SubmissionStep, PTL DEF Spec

\* The sheet, the searches, the queries and the events keep their types.
THEOREM SubmissionTypes == Spec => []TypeOK
  <1>1. SubmissionInv => TypeOK
    BY DEF SubmissionInv
  <1>. QED
    BY <1>1, SubmissionCorrect, PTL

-----------------------------------------------------------------------------
(* What it says of the events                                              *)

\* An event names who was signed in at the tap and has the name from that
\* account's profile.
THEOREM EventsAreAttributed == Spec => []Attribution
  <1>1. SubmissionInv => Attribution
    BY WrittenTypes DEF SubmissionInv, TypeOK, EventsFromFetches, FoodEvent, FetchOK,
       KeyedByUid, Attribution
  <1>. QED
    BY <1>1, SubmissionCorrect, PTL

\* One tap on Submit writes one event at most.
THEOREM TapsWriteOnce == Spec => []OneEventPerTap
  <1>1. SubmissionInv => OneEventPerTap
    BY DEF SubmissionInv
  <1>. QED
    BY <1>1, SubmissionCorrect, PTL

\* Every event has a building, a place in College Park and no bare placeholder.
THEOREM EventsAreComplete == Spec => []EventsComplete
  <1>1. SubmissionInv => EventsComplete
    BY WrittenTypes DEF SubmissionInv, TypeOK, EventsFromFetches, FoodEvent, FetchOK,
       EventsComplete
  <1>. QED
    BY <1>1, SubmissionCorrect, PTL

\* A submission by somebody with a profile is lost only for a cause.
THEOREM LossesHaveCauses == Spec => []LossHasACause
  <1>1. SubmissionInv => LossHasACause
    BY DEF SubmissionInv
  <1>. QED
    BY <1>1, SubmissionCorrect, PTL

-----------------------------------------------------------------------------
(* The refinement                                                          *)

\* The posts follow the events.
LEMMA PostsFacts ==
    ASSUME events \in Seq(Events)
    PROVE  /\ posts \in Seq(Taps \X Users)
           /\ Len(posts) = Len(events)
           /\ \A i \in 1 .. Len(events) : posts[i] = <<events[i].tap, events[i].UID>>
  <1>1. \A i \in 1 .. Len(events) : <<events[i].tap, events[i].UID>> \in Taps \X Users
    <2>1. \A e \in Events : <<e.tap, e.UID>> \in Taps \X Users
      BY DEF Events
    <2>. QED
      BY <2>1, ElementOfSeq
  <1>2. Len(events) \in Nat
    BY LenProperties
  <1>. QED
    BY <1>1, <1>2 DEF posts

\* A new event is a new post.
LEMMA PostsGrow ==
    ASSUME events \in Seq(Events), NEW e \in Events, events' = Append(events, e)
    PROVE  posts' = Append(posts, <<e.tap, e.UID>>)
  <1>. DEFINE n == Len(events)
              post(x) == <<x.tap, x.UID>>
              p == Append(posts, post(e))
  <1>1. /\ events' \in Seq(Events) /\ Len(events') = n + 1 /\ n \in Nat
        /\ \A i \in 1 .. n : events'[i] = events[i]
        /\ events'[n + 1] = e
    BY AppendProperties
  <1>2. post(e) \in Taps \X Users
    BY DEF Events
  <1>3. posts' = [i \in 1 .. n + 1 |-> post(events'[i])]
    BY <1>1 DEF posts
  <1>4. /\ posts \in Seq(Taps \X Users) /\ Len(posts) = n
        /\ \A i \in 1 .. n : posts[i] = post(events[i])
    BY PostsFacts
  <1>. HIDE DEF post
  <1>5. /\ p \in Seq(Taps \X Users) /\ Len(p) = n + 1
        /\ \A i \in 1 .. n : p[i] = posts[i]
        /\ p[n + 1] = post(e)
    BY <1>2, <1>4, AppendProperties
  <1>6. p = [i \in 1 .. n + 1 |-> p[i]]
    BY <1>5, LenProperties
  <1>7. \A i \in 1 .. n + 1 : p[i] = post(events'[i])
    <2>1. \A i \in 1 .. n + 1 : i \in 1 .. n \/ i = n + 1
      BY <1>1
    <2>. QED
      BY <1>1, <1>4, <1>5, <2>1
  <1>8. posts' = p
    BY <1>3, <1>6, <1>7
  <1>. QED
    BY <1>8 DEF post

\* A tap whose query has not ended is pending on the board.
LEMMA OpenIsPending ==
    ASSUME SubmissionInv, NEW t \in Taps, fetches[t].phase \in {"sent", "answered"}
    PROVE  /\ authors[t] = fetches[t].uid /\ authors[t] \in Users
           /\ \A e \in written : e.tap # t
           /\ t \notin losses
           /\ Promise!Pending(t)
  <1>1. authors[t] = fetches[t].uid /\ authors[t] \in Users /\ authors[t] # None
    BY SubmissionAssumption DEF authors, SubmissionInv, FetchOK
  <1>2. \A e \in written : e.tap # t
    BY DEF SubmissionInv, EventsFromFetches
  <1>3. t \notin losses
    BY DEF losses
  <1>4. \A i \in 1 .. Len(posts) : posts[i][1] # t
    BY <1>2, PostsFacts DEF SubmissionInv, TypeOK, written
  <1>. QED
    BY <1>1, <1>2, <1>3, <1>4 DEF Promise!Pending, Promise!Posted

\* Every step of Submission is a step of the board or does not touch it.
LEMMA BoardStep ==
    SubmissionInv /\ [Next]_vars => [Promise!Next]_(Promise!vars)
  <1>. SUFFICES ASSUME SubmissionInv, [Next]_vars
                PROVE  Promise!Next \/ UNCHANGED <<authors, posts, losses>>
    BY DEF Promise!vars
  <1>1. \A t \in Taps : fetches[t] \in Fetches
    BY DEF SubmissionInv, TypeOK
  <1>2. ASSUME UNCHANGED <<fetches, events>>
        PROVE  UNCHANGED <<authors, posts, losses>>
    BY <1>2 DEF authors, posts, losses, written
  <1>3. ASSUME NEW t \in Taps, storeFoodSubmission(t)
        PROVE  Promise!Next
    <2>1. /\ fetches[t].phase = "unused" /\ currentUser \in Users /\ events' = events
          /\ \A u \in Taps : u # t => fetches'[u] = fetches[u]
          /\ fetches'[t].phase = "sent" /\ fetches'[t].uid = currentUser
      BY <1>3 DEF storeFoodSubmission, SubmissionInv, TypeOK
    <2>2. authors[t] = None
      BY <2>1 DEF authors, SubmissionInv, FetchOK
    <2>3. authors' = [authors EXCEPT ![t] = currentUser]
      BY <2>1 DEF authors
    <2>4. posts' = posts /\ losses' = losses
      BY <2>1 DEF posts, losses, written
    <2>5. Promise!Submit(t, currentUser)
      BY <2>2, <2>3, <2>4 DEF Promise!Submit
    <2>. QED
      BY <2>1, <2>5 DEF Promise!Next
  <1>4. ASSUME NEW t \in Taps, Answered(t)
        PROVE  UNCHANGED <<authors, posts, losses>>
    <2>1. /\ fetches[t].phase = "sent" /\ events' = events
          /\ \A u \in Taps : u # t => fetches'[u] = fetches[u]
          /\ fetches'[t].phase = "answered" /\ fetches'[t].uid = fetches[t].uid
      <3>1. CASE fetchAnswered(t)
        BY <1>1, <3>1 DEF fetchAnswered, fetchAnsweredFor, SubmissionInv, TypeOK, Fetches
      <3>2. ASSUME NEW cause \in {"error", "offline"}, fetchFails(t, cause)
            PROVE  /\ fetches[t].phase = "sent" /\ events' = events
                   /\ \A u \in Taps : u # t => fetches'[u] = fetches[u]
                   /\ fetches'[t].phase = "answered" /\ fetches'[t].uid = fetches[t].uid
        BY <1>1, <3>2 DEF fetchFails, SubmissionInv, TypeOK, Fetches
      <3>. QED
        BY <1>4, <3>1, <3>2 DEF Answered
    <2>2. \A u \in Taps : fetches'[u].uid = fetches[u].uid
                          /\ (fetches'[u].phase = "done" <=> fetches[u].phase = "done")
      BY <2>1
    <2>. QED
      BY <2>1, <2>2 DEF authors, posts, losses, written
  <1>5. ASSUME NEW t \in Taps, usernameFetched(t)
        PROVE  Promise!Next
    <2>1. /\ fetches[t].phase = "answered"
          /\ \A u \in Taps : u # t => fetches'[u] = fetches[u]
          /\ fetches'[t].phase = "done" /\ fetches'[t].uid = fetches[t].uid
      BY <1>1, <1>5 DEF usernameFetched, eventsWritten, SubmissionInv, TypeOK, Fetches
    <2>2. authors' = authors
      BY <2>1 DEF authors
    <2>3. Promise!Pending(t) /\ authors[t] = fetches[t].uid /\ t \notin losses
          /\ \A e \in written : e.tap # t
      BY <2>1, OpenIsPending
    <2>4. CASE events' = events
      <3>1. posts' = posts /\ written' = written
        BY <2>4 DEF posts, written
      <3>2. losses' = losses \cup {t}
        BY <2>1, <2>3, <3>1 DEF losses
      <3>3. Promise!Lose({t})
        BY <2>2, <2>3, <3>1, <3>2 DEF Promise!Lose
      <3>. QED
        BY <3>3 DEF Promise!Next
    <2>5. ASSUME NEW d \in fetches[t].docs,
                 events' = Append(events, FoodEvent(t, fetches[t], fetches[t].uid, d))
          PROVE  Promise!Next
      <3>. DEFINE e == FoodEvent(t, fetches[t], fetches[t].uid, d)
      <3>1. e.tap = t /\ e.UID = authors[t]
        BY <2>3 DEF FoodEvent
      <3>2. e \in Events
        BY <2>1, FoundIsEvent
      <3>3. events \in Seq(Events) /\ events' = Append(events, e)
        BY <2>5 DEF SubmissionInv, TypeOK
      <3>. HIDE DEF e
      <3>4. posts' = Append(posts, <<t, authors[t]>>)
        BY <3>1, <3>2, <3>3, PostsGrow
      <3>5. written' = written \cup {e}
        <4>1. /\ Len(events') = Len(events) + 1 /\ Len(events) \in Nat
              /\ \A i \in 1 .. Len(events) : events'[i] = events[i]
              /\ events'[Len(events) + 1] = e
          BY <3>2, <3>3, AppendProperties
        <4>. QED
          BY <4>1 DEF written
      <3>6. losses' = losses
        BY <2>1, <2>3, <3>1, <3>5 DEF losses
      <3>7. Promise!Post(t)
        BY <2>2, <2>3, <3>4, <3>6 DEF Promise!Post
      <3>. QED
        BY <3>7 DEF Promise!Next
    <2>. QED
      BY <1>5, <2>4, <2>5, CallbackWrites
  <1>6. CASE Relaunch
    <2>. DEFINE S == {t \in Taps : fetches[t].phase \in {"sent", "answered"}}
    <2>1. events' = events
      BY <1>6 DEF Relaunch
    <2>2. \A t \in S : fetches'[t].phase = "done" /\ fetches'[t].uid = fetches[t].uid
      <3>1. \A t \in S : fetches'[t] = [fetches[t] EXCEPT !.phase = "done", !.cause = "killed"]
        BY <1>6 DEF Relaunch
      <3>. QED
        BY <1>1, <3>1, ZenonT(60) DEF Fetches
    <2>3. \A t \in Taps \ S : fetches'[t] = fetches[t]
      BY <1>6 DEF Relaunch
    <2>4. \A t \in S : Promise!Pending(t) /\ \A e \in written : e.tap # t
      BY OpenIsPending
    <2>. HIDE DEF S
    <2>5. S \subseteq Taps
      BY DEF S
    <2>6. authors' = authors
      BY <2>2, <2>3, <2>5 DEF authors
    <2>7. posts' = posts /\ losses' = losses \cup S
      BY <2>1, <2>2, <2>3, <2>4, <2>5 DEF posts, losses, written
    <2>8. Promise!Lose(S)
      BY <2>4, <2>6, <2>7 DEF Promise!Lose
    <2>. QED
      BY <2>5, <2>8 DEF Promise!Next
  <1>7. CASE Form /\ ~\E t \in Taps : storeFoodSubmission(t)
    BY <1>2, <1>7 DEF Form, showSheet, cancel, dismissAlert, tapBuilding, tapInfo, typeBuilding,
       typeInfo, pickLandmark, submitIncomplete, submitSignedOut
  <1>8. CASE Search
    BY <1>2, <1>8 DEF Search, getNearByLandmarks, landmarksFound, searchFails
  <1>9. CASE Environment /\ ~Relaunch
    BY <1>2, <1>9 DEF Environment, userChanges, storeUserDetails
  <1>10. CASE UNCHANGED vars
    BY <1>2, <1>10 DEF vars
  <1>11. CASE Next
    BY <1>3, <1>4, <1>5, <1>6, <1>7, <1>8, <1>9, <1>11 DEF Next, Form
  <1>. QED
    BY <1>10, <1>11

\* Submitting food keeps the promise of FoodBoard: whatever happens to sheets,
\* queries and callbacks, a submission is posted once, under its author, or
\* lost, and a post stays.
THEOREM SubmissionImplementsBoard == Spec => ImplementsBoard
  <1>1. Init => Promise!Init
    BY DEF Init, Unused, Promise!Init, authors, posts, losses, written
  <1>. QED
    BY <1>1, BoardStep, SubmissionCorrect, PTL DEF Spec, ImplementsBoard, Promise!Spec

-----------------------------------------------------------------------------
(* What the board promises holds of Submission                             *)

\* A post stays as it is, what was lost stays lost, and a submission keeps its
\* author, whatever happens to accounts, sheets and queries.
THEOREM SubmissionsStand == Spec => Promise!OutcomesStand
  <1>1. SubmissionInv /\ [Promise!Next]_(Promise!vars)
        => [/\ Len(posts') >= Len(posts)
            /\ \A i \in 1 .. Len(posts) : posts'[i] = posts[i]
            /\ losses \subseteq losses'
            /\ \A t \in Taps : authors[t] # None => authors'[t] = authors[t]]_(Promise!vars)
    <2>. SUFFICES ASSUME SubmissionInv, Promise!Next
                  PROVE  /\ Len(posts') >= Len(posts)
                         /\ \A i \in 1 .. Len(posts) : posts'[i] = posts[i]
                         /\ losses \subseteq losses'
                         /\ \A t \in Taps : authors[t] # None => authors'[t] = authors[t]
      OBVIOUS
    <2>0. posts \in Seq(Taps \X Users) /\ Len(posts) \in Nat
      BY PostsFacts, LenProperties DEF SubmissionInv, TypeOK
    <2>1. ASSUME NEW t \in Taps, NEW u \in Users, Promise!Submit(t, u)
          PROVE  /\ UNCHANGED <<posts, losses>>
                 /\ \A v \in Taps : authors[v] # None => authors'[v] = authors[v]
      BY <2>1 DEF Promise!Submit, authors
    <2>2. ASSUME NEW t \in Taps, Promise!Post(t)
          PROVE  /\ Len(posts') >= Len(posts)
                 /\ \A i \in 1 .. Len(posts) : posts'[i] = posts[i]
                 /\ UNCHANGED <<authors, losses>>
      <3>1. authors[t] \in Users
        BY <2>2 DEF Promise!Post, Promise!Pending, authors, SubmissionInv, TypeOK, Fetches
      <3>2. posts' = Append(posts, <<t, authors[t]>>) /\ UNCHANGED <<authors, losses>>
        BY <2>2 DEF Promise!Post
      <3>. QED
        BY <2>0, <3>1, <3>2, AppendProperties
    <2>3. ASSUME NEW S \in SUBSET Taps, Promise!Lose(S)
          PROVE  losses \subseteq losses' /\ UNCHANGED <<authors, posts>>
      BY <2>3 DEF Promise!Lose
    <2>. QED
      BY <2>0, <2>1, <2>2, <2>3 DEF Promise!Next
  <1>2. SubmissionInv /\ [Next]_vars
        => [/\ Len(posts') >= Len(posts)
            /\ \A i \in 1 .. Len(posts) : posts'[i] = posts[i]
            /\ losses \subseteq losses'
            /\ \A t \in Taps : authors[t] # None => authors'[t] = authors[t]]_(Promise!vars)
    BY <1>1, BoardStep
  <1>. QED
    BY <1>2, SubmissionCorrect, PTL DEF Spec, Promise!OutcomesStand

\* No post is under another name than its author's, and none was lost before.
THEOREM PostsHaveTheirAuthor == Spec => []Promise!PostsAreOwn
  <1>1. SubmissionInv => Promise!PostsAreOwn
    <2>. SUFFICES ASSUME SubmissionInv, NEW i \in 1 .. Len(posts)
                  PROVE  LET t == posts[i][1] IN
                         t \notin losses /\ authors[t] # None /\ posts[i][2] = authors[t]
      BY DEF Promise!PostsAreOwn
    <2>1. events \in Seq(Events)
      BY DEF SubmissionInv, TypeOK
    <2>2. i \in 1 .. Len(events) /\ posts[i] = <<events[i].tap, events[i].UID>>
      BY <2>1, PostsFacts
    <2>. DEFINE e == events[i]
    <2>3. e \in written /\ e.tap \in Taps
      BY <2>1, <2>2, WrittenTypes DEF written
    <2>. HIDE DEF e
    <2>4. e.tap \notin losses
      BY <2>3 DEF losses
    <2>5. fetches[e.tap].phase = "done" /\ e.UID = fetches[e.tap].uid
      BY <2>3 DEF SubmissionInv, EventsFromFetches, FoodEvent
    <2>6. authors[e.tap] = e.UID /\ authors[e.tap] # None
      BY <2>3, <2>5, SubmissionAssumption DEF SubmissionInv, FetchOK, authors
    <2>. QED
      BY <2>2, <2>4, <2>6 DEF e
  <1>. QED
    BY <1>1, SubmissionCorrect, PTL

\* No submission is posted twice.
THEOREM PostsAreSingle == Spec => []Promise!PostedOnce
  <1>1. SubmissionInv => Promise!PostedOnce
    BY PostsFacts DEF SubmissionInv, TypeOK, OneEventPerTap, Promise!PostedOnce
  <1>. QED
    BY <1>1, SubmissionCorrect, PTL

=============================================================================
