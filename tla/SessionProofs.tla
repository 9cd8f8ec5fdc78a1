--------------------------- MODULE SessionProofs ---------------------------
(***************************************************************************)
(* Proofs about Session, for any set of accounts, any number of calls in   *)
(* flight and any depth of the navigation stack.                           *)
(***************************************************************************)
EXTENDS Session, SequenceTheorems, TLAPS

-----------------------------------------------------------------------------
(* What the operations on the stack of screens do                          *)

\* A new screen is a screen.
LEMMA NewViewType ==
    ASSUME NEW kind \in Kinds, NEW owner \in Emails \cup {None}
    PROVE  /\ NewView(kind, owner) \in Views
           /\ NewView(kind, owner).kind = kind
           /\ NewView(kind, owner).owner = owner
           /\ NewView(kind, owner).alert = FALSE
  BY SMT DEF NewView, Views, Errors

\* Pushing a screen leaves those below it alone and puts it on top.
LEMMA PushFacts ==
    ASSUME NEW s \in Seq(Views), NEW w \in Views
    PROVE  /\ Append(s, w) \in Seq(Views)
           /\ Len(Append(s, w)) = Len(s) + 1
           /\ \A i \in 1 .. Len(s) : Append(s, w)[i] = s[i]
           /\ Append(s, w)[Len(s) + 1] = w
  BY AppendProperties

\* Popping keeps the lower n screens.
LEMMA PopFacts ==
    ASSUME NEW n \in 1 .. Len(stack), stack \in Seq(Views)
    PROVE  /\ Popped(n) \in Seq(Views)
           /\ Len(Popped(n)) = n
           /\ \A i \in 1 .. n : Popped(n)[i] = stack[i]
  <1>1. Len(stack) \in Nat /\ n \in Nat
    BY LenProperties, SMT
  <1>2. \A i \in 1 .. n : stack[i] \in Views
    BY <1>1, ElementOfSeq, SMT
  <1>. QED
    BY <1>1, <1>2, SubSeqProperties, SMT DEF Popped

\* Changing one screen, not its kind nor its owner, changes nothing else.
LEMMA EditFacts ==
    ASSUME NEW s \in Seq(Views), NEW v \in 1 .. Len(s), NEW w \in Views
    PROVE  /\ [s EXCEPT ![v] = w] \in Seq(Views)
           /\ Len([s EXCEPT ![v] = w]) = Len(s)
           /\ [s EXCEPT ![v] = w][v] = w
           /\ \A i \in 1 .. Len(s) : i # v => [s EXCEPT ![v] = w][i] = s[i]
  BY ExceptSeq, SMT

\* An alert comes up with its error and touches nothing else.
LEMMA AlertFacts ==
    ASSUME NEW s \in Seq(Views), NEW v \in 1 .. Len(s), NEW error \in Errors
    PROVE  /\ Alerted(v, s, error) \in Seq(Views)
           /\ Len(Alerted(v, s, error)) = Len(s)
           /\ Alerted(v, s, error)[v].kind = s[v].kind
           /\ Alerted(v, s, error)[v].owner = s[v].owner
           /\ Alerted(v, s, error)[v].error = error
           /\ \A i \in 1 .. Len(s) : i # v => Alerted(v, s, error)[i] = s[i]
  <1>. DEFINE w == [s[v] EXCEPT !.alert = TRUE, !.error = error]
  <1>1. s[v] \in Views
    BY ElementOfSeq
  <1>2. w \in Views /\ w.kind = s[v].kind /\ w.owner = s[v].owner /\ w.error = error
    BY <1>1 DEF Views
  <1>3. Alerted(v, s, error) = [s EXCEPT ![v] = w]
    BY DEF Alerted
  <1>. HIDE DEF w
  <1>. QED
    BY <1>2, <1>3, EditFacts, SMT

-----------------------------------------------------------------------------
(* The lower half of the invariant: screens and calls fit together         *)

\* The conjuncts of SessionInv that speak of a stack of screens alone.
StackOK(s) ==
    /\ s \in Seq(Views)
    /\ Len(s) \in 1 .. MaxDepth
    /\ s[1].kind = "Home"
    /\ \A i \in 2 .. Len(s) :
            s[i].kind \in {"Register", "Login"} => s[i - 1].kind = "Home"
    /\ \A i \in 1 .. Len(s) :
            /\ s[i].kind = "Register" => i + 2 <= MaxDepth
            /\ s[i].kind \in {"Login", "Registration"} => i + 1 <= MaxDepth
            /\ s[i].alert => s[i].error # "none"

\* The conjuncts that relate the calls cs to the screens s.
ScreensOf(cs, s) ==
    \A c \in Calls : cs[c].view # 0 =>
        /\ cs[c].view <= Len(s)
        /\ s[cs[c].view].kind = IF cs[c].op = "register" THEN "Register" ELSE "Login"

CallOK(call, known) ==
    IF call.phase # "idle"
    THEN /\ call.op \in {"register", "signIn"}
         /\ call.email \in Emails
         /\ call.phase = "ok" => call.email \in known
    ELSE call.view = 0

AuthOK ==
    /\ accounts \in SUBSET Emails
    /\ users \in [Emails -> Emails \cup {None}]
    /\ currentUser \in Emails \cup {None}
    /\ AccountsKnown

CallsOK ==
    /\ calls \in [Calls -> CallRecords]
    /\ mainQueue \in Seq(Calls)
    /\ ScreensOf(calls, stack)
    /\ \A c \in Calls : CallOK(calls[c], accounts)

FlagsOK ==
    /\ recentlyRegistered \in BOOLEAN
    /\ revoked \in BOOLEAN
    /\ overlap \in BOOLEAN
    /\ aborted \in BOOLEAN

LowInv == AuthOK /\ CallsOK /\ FlagsOK /\ StackOK(stack)

\* LowInv is the lower half of SessionInv.
LEMMA LowInvParts ==
    LowInv <=> TypeOK /\ ScreensLinked /\ AccountsKnown /\ CallsWellFormed /\ AlertHasMessage
  <1>1. CallsWellFormed <=> ScreensOf(calls, stack) /\ \A c \in Calls : CallOK(calls[c], accounts)
    BY Zenon DEF CallsWellFormed, CallsKnowTheirScreen, ScreensOf, CallOK, Outstanding
  <1>2. StackOK(stack) <=> /\ stack \in Seq(Views)
                           /\ Len(stack) \in 1 .. MaxDepth
                           /\ ScreensLinked
                           /\ AlertHasMessage
    BY Zenon DEF StackOK, ScreensLinked, AlertHasMessage
  <1>3. FlagsOK <=> <<recentlyRegistered, revoked, overlap, aborted>>
                        \in BOOLEAN \X BOOLEAN \X BOOLEAN \X BOOLEAN
    BY DEF FlagsOK
  <1>. QED
    BY <1>1, <1>2, <1>3, Zenon DEF LowInv, TypeOK, AuthOK, CallsOK

\* A pushed screen that fits keeps the stack well formed.
LEMMA StackPush ==
    ASSUME NEW s, StackOK(s), NEW w \in Views, ~w.alert, Len(s) + 1 <= MaxDepth,
           w.kind \in {"Register", "Login"} => s[Len(s)].kind = "Home",
           w.kind = "Register" => Len(s) + 3 <= MaxDepth,
           w.kind \in {"Login", "Registration"} => Len(s) + 2 <= MaxDepth
    PROVE  StackOK(Append(s, w))
  BY PushFacts, SessionAssumption, SMT DEF StackOK

\* So does a pop that leaves at least one screen.
LEMMA StackPop ==
    ASSUME StackOK(stack), NEW n \in 1 .. Len(stack)
    PROVE  StackOK(Popped(n))
  <1>. DEFINE t == Popped(n)
  <1>1. t \in Seq(Views) /\ Len(t) = n /\ \A i \in 1 .. n : t[i] = stack[i]
    BY PopFacts DEF StackOK
  <1>2. Len(stack) \in 1 .. MaxDepth /\ MaxDepth \in Nat
    BY SessionAssumption DEF StackOK
  <1>. HIDE DEF t
  <1>3. Len(t) \in 1 .. MaxDepth /\ t[1].kind = "Home"
    BY <1>1, <1>2, SMT DEF StackOK
  <1>4. \A i \in 1 .. Len(t) : i \in 1 .. Len(stack) /\ t[i] = stack[i]
    BY <1>1, <1>2, SMT
  <1>5. \A i \in 2 .. Len(t) : i \in 2 .. Len(stack) /\ i \in 1 .. n /\ i - 1 \in 1 .. n
    BY <1>1, <1>2, SMT
  <1>. QED
    BY <1>1, <1>3, <1>4, <1>5 DEF StackOK, t

\* So does a change of one screen that keeps its kind and gives an alert a message.
LEMMA StackEdit ==
    ASSUME NEW s, StackOK(s), NEW v \in 1 .. Len(s), NEW w \in Views,
           w.kind = s[v].kind, w.alert => w.error # "none"
    PROVE  StackOK([s EXCEPT ![v] = w])
  BY EditFacts, SessionAssumption, SMT DEF StackOK

\* No call loses its screen when the stack grows or a screen changes.
LEMMA CallsStay ==
    ASSUME NEW cs, NEW s, NEW t, ScreensOf(cs, s), cs \in [Calls -> CallRecords],
           Len(s) \in Nat, Len(t) \in Nat, Len(s) <= Len(t),
           \A i \in 1 .. Len(s) : t[i].kind = s[i].kind
    PROVE  ScreensOf(cs, t)
  <1>1. \A c \in Calls : cs[c].view \in Nat
    BY SessionAssumption DEF CallRecords
  <1>. QED
    BY <1>1, SMT DEF ScreensOf

\* Detached drops the screens above n and changes nothing else of a call.
LEMMA DetachFacts ==
    ASSUME calls \in [Calls -> CallRecords], NEW n \in Nat
    PROVE  /\ Detached(n) \in [Calls -> CallRecords]
           /\ \A c \in Calls : /\ Detached(n)[c].op = calls[c].op
                               /\ Detached(n)[c].email = calls[c].email
                               /\ Detached(n)[c].phase = calls[c].phase
                               /\ Detached(n)[c].view =
                                    IF calls[c].view > n THEN 0 ELSE calls[c].view
  BY SessionAssumption, SMT DEF Detached, CallRecords

\* After a pop no call refers to a screen that is gone.
LEMMA CallsDetach ==
    ASSUME calls \in [Calls -> CallRecords], ScreensOf(calls, stack),
           StackOK(stack), NEW n \in 1 .. Len(stack)
    PROVE  ScreensOf(Detached(n), Popped(n))
  <1>1. Len(Popped(n)) = n /\ \A i \in 1 .. n : Popped(n)[i] = stack[i]
    BY PopFacts DEF StackOK
  <1>2. n \in Nat
    BY SessionAssumption DEF StackOK
  <1>3. \A c \in Calls : calls[c].view \in Nat
    BY SessionAssumption DEF CallRecords
  <1>. QED
    BY <1>1, <1>2, <1>3, DetachFacts, SMT DEF ScreensOf

\* A launch starts from one screen and no call.
LEMMA LaunchedLow ==
    ASSUME LowInv, Launched, NEW known
    PROVE  /\ StackOK(stack')
           /\ calls' \in [Calls -> CallRecords] /\ mainQueue' \in Seq(Calls)
           /\ ScreensOf(calls', stack')
           /\ \A c \in Calls : CallOK(calls'[c], known)
           /\ recentlyRegistered' \in BOOLEAN
  <1>1. NewView("Home", None) \in Views /\ ~NewView("Home", None).alert
        /\ NewView("Home", None).kind = "Home"
    BY NewViewType DEF Kinds
  <1>2. StackOK(stack')
    <2>1. stack' \in Seq(Views) /\ Len(stack') = 1 /\ stack'[1] = NewView("Home", None)
      BY <1>1 DEF Launched
    <2>. QED
      BY <1>1, <2>1, SessionAssumption DEF StackOK
  <1>3. Idle \in CallRecords /\ Idle.phase = "idle" /\ Idle.view = 0
    BY SessionAssumption DEF Idle, CallRecords
  <1>4. \A c \in Calls : calls'[c] = Idle
    BY DEF Launched
  <1>5. calls' \in [Calls -> CallRecords]
    BY <1>3 DEF Launched
  <1>6. ScreensOf(calls', stack') /\ \A c \in Calls : CallOK(calls'[c], known)
    BY <1>3, <1>4, Zenon DEF ScreensOf, CallOK
  <1>7. mainQueue' \in Seq(Calls)
    BY EmptySeq DEF Launched
  <1>. QED
    BY <1>2, <1>5, <1>6, <1>7 DEF Launched

\* What LowInv says of the screen on top.
LEMMA TopFacts ==
    ASSUME LowInv
    PROVE  /\ stack \in Seq(Views)
           /\ MaxDepth \in Nat /\ Len(stack) \in Nat /\ Len(stack) \in 1 .. Len(stack)
           /\ Len(stack) <= MaxDepth
           /\ Top \in Views
           /\ Top.owner \in Emails \cup {None}
           /\ Top.kind = "Register" => Len(stack) + 2 <= MaxDepth
           /\ Top.kind \in {"Login", "Registration"} => Len(stack) + 1 <= MaxDepth
           /\ Top.kind \in {"Register", "Login"} =>
                    /\ Len(stack) - 1 \in 1 .. Len(stack)
                    /\ stack[Len(stack) - 1].kind = "Home"
  <1>1. /\ stack \in Seq(Views)
        /\ MaxDepth \in Nat /\ Len(stack) \in Nat /\ Len(stack) \in 1 .. Len(stack)
        /\ Len(stack) <= MaxDepth
    BY SessionAssumption DEF LowInv, StackOK
  <1>2. Top \in Views
    BY <1>1, ElementOfSeq DEF Top
  <1>3. Top.owner \in Emails \cup {None}
    BY <1>2 DEF Views
  <1>4. Top.kind \in {"Register", "Login"} => Len(stack) \in 2 .. Len(stack)
    BY <1>1, SMT DEF LowInv, StackOK, Top
  <1>. QED
    BY <1>1, <1>2, <1>3, <1>4, SMT DEF LowInv, StackOK, Top

\* A push keeps every call on its screen.
LEMMA LowPush ==
    ASSUME LowInv, NEW kind \in Kinds, NEW owner \in Emails \cup {None},
           Len(stack) + 1 <= MaxDepth,
           kind \in {"Register", "Login"} => Top.kind = "Home",
           kind = "Register" => Len(stack) + 3 <= MaxDepth,
           kind \in {"Login", "Registration"} => Len(stack) + 2 <= MaxDepth
    PROVE  /\ StackOK(Append(stack, NewView(kind, owner)))
           /\ ScreensOf(calls, Append(stack, NewView(kind, owner)))
  <1>. DEFINE w == NewView(kind, owner)
              t == Append(stack, w)
  <1>1. w \in Views /\ w.kind = kind /\ w.alert = FALSE
    BY NewViewType
  <1>. HIDE DEF w
  <1>2. StackOK(t)
    BY <1>1, StackPush DEF LowInv, Top
  <1>3. Len(t) = Len(stack) + 1 /\ \A i \in 1 .. Len(stack) : t[i] = stack[i]
    BY <1>1, TopFacts, PushFacts, Zenon
  <1>. HIDE DEF t
  <1>4. ScreensOf(calls, t)
    BY <1>3, TopFacts, CallsStay, SMT DEF LowInv, CallsOK
  <1>. QED
    BY <1>2, <1>4 DEF w, t

\* So does a change of one screen.
LEMMA LowEdit ==
    ASSUME LowInv, NEW v \in 1 .. Len(stack), NEW w \in Views,
           w.kind = stack[v].kind, w.alert => w.error # "none"
    PROVE  /\ StackOK([stack EXCEPT ![v] = w])
           /\ ScreensOf(calls, [stack EXCEPT ![v] = w])
  <1>. DEFINE t == [stack EXCEPT ![v] = w]
  <1>1. StackOK(t)
    BY StackEdit DEF LowInv
  <1>2. Len(t) = Len(stack) /\ \A i \in 1 .. Len(stack) : t[i].kind = stack[i].kind
    BY TopFacts, EditFacts, SMT
  <1>. HIDE DEF t
  <1>3. ScreensOf(calls, t)
    BY <1>2, TopFacts, CallsStay, SMT DEF LowInv, CallsOK
  <1>. QED
    BY <1>1, <1>3 DEF t

\* Raising the alert of a screen of s keeps s well formed.
LEMMA StackAlert ==
    ASSUME NEW s, StackOK(s), NEW v \in 1 .. Len(s), NEW error \in Errors \ {"none"}
    PROVE  /\ StackOK(Alerted(v, s, error))
           /\ Len(Alerted(v, s, error)) = Len(s)
           /\ \A i \in 1 .. Len(s) : Alerted(v, s, error)[i].kind = s[i].kind
  <1>. DEFINE w == [s[v] EXCEPT !.alert = TRUE, !.error = error]
  <1>1. s[v] \in Views
    BY ElementOfSeq DEF StackOK
  <1>2. w \in Views /\ w.kind = s[v].kind /\ w.error = error
    BY <1>1 DEF Views
  <1>3. Alerted(v, s, error) = [s EXCEPT ![v] = w]
    BY DEF Alerted
  <1>. HIDE DEF w
  <1>4. StackOK([s EXCEPT ![v] = w])
    BY <1>2, StackEdit
  <1>5. Len(Alerted(v, s, error)) = Len(s)
        /\ \A i \in 1 .. Len(s) : Alerted(v, s, error)[i].kind = s[i].kind
    BY <1>2, <1>3, EditFacts, SMT DEF StackOK
  <1>. QED
    BY <1>3, <1>4, <1>5

\* A step that leaves accounts, calls and queue alone keeps CallsOK if no call
\* loses its screen.
LEMMA SameCalls ==
    ASSUME LowInv, accounts' = accounts, calls' = calls, mainQueue' = mainQueue,
           ScreensOf(calls, stack')
    PROVE  CallsOK'
  BY DEF LowInv, CallsOK

\* The answer to call c.
LEMMA AnswerLow ==
    ASSUME LowInv, NEW c \in Calls, NEW phase \in {"ok", "failed"}, Answer(c, phase),
           stack' = stack, accounts \subseteq accounts',
           phase = "ok" => calls[c].email \in accounts'
    PROVE  CallsOK'
  <1>1. \A d \in Calls : calls[d] \in CallRecords
    BY DEF LowInv, CallsOK
  <1>2. calls' \in [Calls -> CallRecords]
        /\ \A d \in Calls : /\ calls'[d].op = calls[d].op
                             /\ calls'[d].email = calls[d].email
                             /\ calls'[d].view = calls[d].view
                             /\ calls'[d].phase = IF d = c THEN phase ELSE calls[d].phase
    BY <1>1, SMT DEF LowInv, CallsOK, Answer, CallRecords
  <1>3. mainQueue' \in Seq(Calls)
    BY AppendProperties DEF LowInv, CallsOK, Answer
  <1>4. ScreensOf(calls', stack')
    BY <1>2 DEF LowInv, CallsOK, ScreensOf
  <1>5. \A d \in Calls : CallOK(calls'[d], accounts')
    BY <1>2, SMT DEF LowInv, CallsOK, CallOK, Answer
  <1>. QED
    BY <1>2, <1>3, <1>4, <1>5 DEF CallsOK

\* The handler of call c is done: cs are the calls as it leaves them but for c.
LEMMA HandledLow ==
    ASSUME LowInv, NEW c \in Calls, NEW op, NEW phase, Handles(c, op, phase),
           accounts' = accounts,
           NEW cs \in [Calls -> CallRecords], calls' = [cs EXCEPT ![c] = Idle],
           ScreensOf(cs, stack'),
           \A d \in Calls : CallOK(cs[d], accounts)
    PROVE  CallsOK'
  <1>1. Idle \in CallRecords /\ Idle.phase = "idle" /\ Idle.view = 0
    BY SessionAssumption DEF Idle, CallRecords
  <1>2. calls' \in [Calls -> CallRecords]
        /\ \A d \in Calls : calls'[d] = IF d = c THEN Idle ELSE cs[d]
    BY <1>1
  <1>3. mainQueue' \in Seq(Calls)
    BY HeadTailProperties DEF LowInv, CallsOK, Handles
  <1>4. ScreensOf(calls', stack')
    BY <1>1, <1>2 DEF ScreensOf
  <1>5. \A d \in Calls : CallOK(calls'[d], accounts')
    BY <1>1, <1>2 DEF CallOK
  <1>. QED
    BY <1>2, <1>3, <1>4, <1>5 DEF CallsOK

\* Sending call c from a sign-up or sign-in screen.
LEMMA SendLow ==
    ASSUME LowInv, NEW c \in Calls, NEW e \in Emails, NEW op \in {"register", "signIn"},
           Send(c, op, e), accounts' = accounts,
           ScreensOf(calls, stack'), Len(stack') = Len(stack),
           stack'[Len(stack)].kind = IF op = "register" THEN "Register" ELSE "Login"
    PROVE  CallsOK' /\ overlap' \in BOOLEAN
  <1>. DEFINE r == [op |-> op, email |-> e, view |-> Len(stack), phase |-> "sent"]
  <1>1. r \in CallRecords
    BY TopFacts, SMT DEF CallRecords
  <1>2. r.op = op /\ r.email = e /\ r.view = Len(stack) /\ r.phase = "sent"
    OBVIOUS
  <1>3. calls' = [calls EXCEPT ![c] = r]
    BY DEF Send
  <1>. HIDE DEF r
  <1>4. calls' \in [Calls -> CallRecords]
        /\ \A d \in Calls : calls'[d] = IF d = c THEN r ELSE calls[d]
    BY <1>1, <1>3 DEF LowInv, CallsOK
  <1>5. mainQueue' \in Seq(Calls)
    BY DEF LowInv, CallsOK, Send
  <1>6. ScreensOf(calls', stack')
    BY <1>2, <1>4, TopFacts, SMT DEF ScreensOf
  <1>7. \A d \in Calls : CallOK(calls'[d], accounts')
    BY <1>2, <1>4 DEF LowInv, CallsOK, CallOK
  <1>8. overlap' \in BOOLEAN
    BY Zenon DEF LowInv, FlagsOK, Send
  <1>. QED
    BY <1>4, <1>5, <1>6, <1>7, <1>8 DEF CallsOK

-----------------------------------------------------------------------------
(* Every action keeps the lower half                                       *)

\* Taps keep the lower half.
LEMMA LowTaps ==
    ASSUME LowInv, Taps
    PROVE  LowInv'
  <1>. USE DEF AuthVars, CallVars
  <1>0. AuthOK /\ FlagsOK /\ StackOK(stack) /\ calls \in [Calls -> CallRecords]
        /\ ScreensOf(calls, stack) /\ \A c \in Calls : CallOK(calls[c], accounts)
    BY DEF LowInv, CallsOK
  <1>1. CASE OpenSignUp
    <2>1. StackOK(stack') /\ ScreensOf(calls, stack')
      BY <1>1, LowPush, TopFacts, SMT DEF OpenSignUp, Ready, Kinds
    <2>2. CallsOK'
      BY <1>1, <2>1, SameCalls DEF OpenSignUp
    <2>. QED
      BY <1>0, <1>1, <2>1, <2>2 DEF OpenSignUp, LowInv, AuthOK, FlagsOK, AccountsKnown
  <1>2. CASE OpenSignIn
    <2>1. StackOK(stack') /\ ScreensOf(calls, stack')
      BY <1>2, LowPush, TopFacts, SMT DEF OpenSignIn, Ready, Kinds
    <2>2. CallsOK'
      BY <1>2, <2>1, SameCalls DEF OpenSignIn
    <2>. QED
      BY <1>0, <1>2, <2>1, <2>2 DEF OpenSignIn, LowInv, AuthOK, FlagsOK, AccountsKnown
  <1>3. CASE Back
    <2>. DEFINE n == Len(stack) - 1
    <2>1. n \in 1 .. Len(stack) /\ n \in Nat
      BY <1>3, TopFacts, SMT DEF Back, Ready
    <2>2. stack' = Popped(n) /\ calls' = Detached(n)
      BY <1>3 DEF Back
    <2>. HIDE DEF n
    <2>3. StackOK(stack') /\ ScreensOf(calls', stack')
      BY <1>0, <2>1, <2>2, StackPop, CallsDetach
    <2>4. CallsOK'
      <3>1. UNCHANGED <<accounts, mainQueue>>
        BY <1>3 DEF Back
      <3>2. calls \in [Calls -> CallRecords] /\ mainQueue \in Seq(Calls)
        BY DEF LowInv, CallsOK
      <3>3. calls' \in [Calls -> CallRecords]
        BY <2>1, <2>2, <3>2, DetachFacts
      <3>4. ASSUME NEW c \in Calls
            PROVE  CallOK(calls'[c], accounts)
        <4>1. CallOK(calls[c], accounts)
          BY <1>0
        <4>2. /\ calls'[c].op = calls[c].op /\ calls'[c].email = calls[c].email
              /\ calls'[c].phase = calls[c].phase
              /\ calls'[c].view = IF calls[c].view > n THEN 0 ELSE calls[c].view
          BY <2>1, <2>2, <3>2, DetachFacts
        <4>3. calls[c].view = 0 => calls'[c].view = 0
          BY <4>2
        <4>4. QED
          BY <4>1, <4>2, <4>3 DEF CallOK
      <3>5. QED
        BY <2>3, <3>1, <3>2, <3>3, <3>4 DEF CallsOK
    <2>. QED
      BY <1>0, <1>3, <2>3, <2>4 DEF Back, LowInv, AuthOK, FlagsOK, AccountsKnown
  <1>4. ASSUME NEW n \in PasswordCounts, RegisterTooShort(n) \/ RegisterMismatch(n)
        PROVE  LowInv'
    <2>. DEFINE w == [Top EXCEPT !.count = n]
                s == [stack EXCEPT ![Len(stack)] = w]
    <2>1. PICK error \in Errors \ {"none"} : stack' = Alerted(Len(stack), s, error)
      BY <1>4 DEF RegisterTooShort, RegisterMismatch, Errors, Top
    <2>2. w \in Views /\ w.kind = Top.kind /\ w.alert = Top.alert /\ w.error = Top.error
      BY TopFacts DEF Views
    <2>3. ~Top.alert
      BY <1>4 DEF RegisterTooShort, RegisterMismatch, Ready
    <2>. HIDE DEF w
    <2>4. StackOK(s) /\ ScreensOf(calls, s) /\ Len(s) = Len(stack)
      BY <2>2, <2>3, TopFacts, LowEdit, EditFacts, SMT DEF Top
    <2>. HIDE DEF s
    <2>5. StackOK(stack') /\ Len(stack') = Len(s)
          /\ \A i \in 1 .. Len(s) : stack'[i].kind = s[i].kind
      <3>1. StackOK(s) /\ Len(stack) \in 1 .. Len(s)
        BY <2>4, TopFacts
      <3>2. /\ StackOK(Alerted(Len(stack), s, error))
            /\ Len(Alerted(Len(stack), s, error)) = Len(s)
            /\ \A i \in 1 .. Len(s) : Alerted(Len(stack), s, error)[i].kind = s[i].kind
        BY <3>1, StackAlert
      <3>. QED
        BY <2>1, <3>2, Zenon
    <2>6. ScreensOf(calls, stack')
      BY <1>0, <2>4, <2>5, TopFacts, CallsStay, SMT
    <2>7. CallsOK'
      BY <1>4, <2>6, SameCalls DEF RegisterTooShort, RegisterMismatch
    <2>. QED
      BY <1>0, <1>4, <2>5, <2>7
         DEF RegisterTooShort, RegisterMismatch, LowInv, AuthOK, FlagsOK, AccountsKnown
  <1>5. ASSUME NEW c \in Calls, NEW e \in Emails, NEW n \in PasswordCounts, register(c, e, n)
        PROVE  LowInv'
    <2>. DEFINE w == [Top EXCEPT !.count = n]
    <2>1. stack' = [stack EXCEPT ![Len(stack)] = w]
      BY <1>5 DEF register, Top
    <2>2. w \in Views /\ w.kind = Top.kind /\ w.alert = Top.alert /\ w.error = Top.error
      BY TopFacts DEF Views
    <2>3. ~Top.alert /\ Top.kind = "Register"
      BY <1>5 DEF register, Ready
    <2>. HIDE DEF w
    <2>. DEFINE l == Len(stack)
    <2>4. l \in 1 .. Len(stack) /\ stack \in Seq(Views) /\ Top = stack[l]
      BY TopFacts DEF Top
    <2>5. stack' = [stack EXCEPT ![l] = w]
      BY <2>1
    <2>. HIDE DEF l
    <2>6. StackOK(stack') /\ ScreensOf(calls, stack')
      BY <2>4, <2>5, <2>2, <2>3, LowEdit
    <2>7. Len(stack') = Len(stack) /\ stack'[l] = w
      BY <2>4, <2>5, <2>2, EditFacts
    <2>8. StackOK(stack') /\ ScreensOf(calls, stack') /\ Len(stack') = Len(stack)
          /\ stack'[Len(stack)].kind = "Register"
      BY <2>2, <2>3, <2>6, <2>7 DEF l
    <2>9. CallsOK' /\ overlap' \in BOOLEAN
      BY <1>5, <2>8, SendLow DEF register
    <2>. QED
      BY <1>0, <1>5, <2>8, <2>9 DEF register, LowInv, AuthOK, FlagsOK, AccountsKnown
  <1>6. ASSUME NEW c \in Calls, NEW e \in Emails, signIn(c, e)
        PROVE  LowInv'
    <2>1. CallsOK' /\ overlap' \in BOOLEAN
      BY <1>0, <1>6, SendLow DEF signIn, Ready, Top
    <2>. QED
      BY <1>0, <1>6, <2>1 DEF signIn, LowInv, AuthOK, FlagsOK, AccountsKnown
  <1>7. ASSUME NEW v \in 1 .. Len(stack), CloseAlert(v)
        PROVE  LowInv'
    <2>. DEFINE w == [stack[v] EXCEPT !.alert = FALSE, !.count = 0]
                s == Popped(v)
    <2>1. /\ s \in Seq(Views) /\ Len(s) = v /\ s[v] = stack[v] /\ v \in 1 .. v
          /\ StackOK(s) /\ v \in Nat
      BY <1>0, TopFacts, PopFacts, StackPop, SMT
    <2>2. stack' = [s EXCEPT ![v] = w]
      BY <1>7, <2>1 DEF CloseAlert
    <2>3. stack[v] \in Views
      BY TopFacts, ElementOfSeq
    <2>4. w \in Views /\ w.kind = stack[v].kind /\ w.alert = FALSE
      BY <2>3 DEF Views
    <2>. HIDE DEF w, s
    <2>5. v \in 1 .. Len(s) /\ w.kind = s[v].kind
      BY <2>1, <2>4
    <2>6. StackOK(stack')
      BY <2>1, <2>2, <2>4, <2>5, StackEdit
    <2>7. /\ Len(stack') = Len(s) /\ stack'[v] = w
          /\ \A i \in 1 .. Len(s) : i # v => stack'[i] = s[i]
      BY <2>1, <2>2, <2>4, <2>5, EditFacts
    <2>8. StackOK(stack') /\ Len(stack') = v
          /\ \A i \in 1 .. v : stack'[i].kind = s[i].kind
      BY <2>1, <2>5, <2>6, <2>7
    <2>9. calls' = Detached(v) /\ ScreensOf(calls', s)
      BY <1>0, <1>7, CallsDetach DEF CloseAlert, s
    <2>10. calls' \in [Calls -> CallRecords]
          /\ \A c \in Calls : CallOK(calls'[c], accounts)
      BY <1>0, <2>1, <2>9, DetachFacts DEF CallOK
    <2>11. ScreensOf(calls', stack')
      BY <2>1, <2>8, <2>9, <2>10, CallsStay, SMT
    <2>12. CallsOK'
      BY <1>7, <2>10, <2>11 DEF CloseAlert, LowInv, CallsOK
    <2>. QED
      BY <1>0, <1>7, <2>8, <2>12 DEF CloseAlert, LowInv, AuthOK, FlagsOK, AccountsKnown
  <1>8. ASSUME NEW username \in BOOLEAN, NEW firstName \in BOOLEAN,
               FormIncomplete(username, firstName)
        PROVE  LowInv'
    <2>1. PICK error \in Errors \ {"none"} : stack' = Alerted(Len(stack), stack, error)
      BY <1>8 DEF FormIncomplete, Errors
    <2>2. StackOK(stack') /\ Len(stack') = Len(stack)
          /\ \A i \in 1 .. Len(stack) : stack'[i].kind = stack[i].kind
      BY <1>0, <2>1, TopFacts, StackAlert
    <2>3. ScreensOf(calls, stack')
      BY <1>0, <2>2, TopFacts, CallsStay, SMT
    <2>4. CallsOK'
      BY <1>8, <2>3, SameCalls DEF FormIncomplete
    <2>. QED
      BY <1>0, <1>8, <2>2, <2>4 DEF FormIncomplete, LowInv, AuthOK, FlagsOK, AccountsKnown
  <1>9. CASE DismissFormAlert
    <2>. DEFINE w == [Top EXCEPT !.alert = FALSE]
    <2>1. stack' = [stack EXCEPT ![Len(stack)] = w]
      BY <1>9 DEF DismissFormAlert, Top
    <2>2. w \in Views /\ w.kind = Top.kind /\ w.alert = FALSE
      BY TopFacts DEF Views
    <2>. HIDE DEF w
    <2>3. StackOK(stack') /\ ScreensOf(calls, stack')
      BY <2>1, <2>2, TopFacts, LowEdit DEF Top
    <2>4. CallsOK'
      BY <1>9, <2>3, SameCalls DEF DismissFormAlert
    <2>. QED
      BY <1>0, <1>9, <2>3, <2>4 DEF DismissFormAlert, LowInv, AuthOK, FlagsOK, AccountsKnown
  <1>10. CASE storeUserDetails
    <2>1. StackOK(stack') /\ ScreensOf(calls, stack')
      BY <1>10, LowPush, TopFacts, SMT DEF storeUserDetails, Ready, Kinds
    <2>2. CallsOK'
      BY <1>10, <2>1, SameCalls DEF storeUserDetails
    <2>3. AuthOK'
      BY <1>0, <1>10, TopFacts DEF storeUserDetails, AuthOK, AccountsKnown
    <2>. QED
      BY <1>0, <1>10, <2>1, <2>2, <2>3 DEF storeUserDetails, LowInv, FlagsOK
  <1>11. CASE storeUserDetailsAborts
    <2>1. CallsOK' /\ StackOK(stack') /\ recentlyRegistered' \in BOOLEAN
      BY <1>11, LaunchedLow DEF storeUserDetailsAborts, CallsOK
    <2>. QED
      BY <1>0, <1>11, <2>1 DEF storeUserDetailsAborts, LowInv, AuthOK, FlagsOK, AccountsKnown
  <1>12. CASE signOut
    <2>1. StackOK(stack') /\ ScreensOf(calls, stack')
      BY <1>12, LowPush, TopFacts, SMT DEF signOut, Ready, Kinds
    <2>2. CallsOK'
      BY <1>12, <2>1, SameCalls DEF signOut
    <2>3. AuthOK'
      BY <1>0, <1>12 DEF signOut, AuthOK, AccountsKnown
    <2>. QED
      BY <1>0, <1>12, <2>1, <2>2, <2>3 DEF signOut, LowInv, FlagsOK
  <1>. QED
    BY <1>1, <1>2, <1>3, <1>4, <1>5, <1>6, <1>7, <1>8, <1>9, <1>10, <1>11, <1>12 DEF Taps

\* Answers of Firebase Auth keep the lower half.
LEMMA LowAnswers ==
    ASSUME LowInv, NEW c \in Calls, Answers(c)
    PROVE  LowInv'
  <1>. USE DEF AuthVars
  <1>0. AuthOK /\ FlagsOK /\ StackOK(stack) /\ CallOK(calls[c], accounts)
    BY DEF LowInv, CallsOK
  <1>1. calls[c].phase = "sent" => calls[c].email \in Emails
    BY <1>0 DEF CallOK
  <1>2. CASE CreateOk(c)
    <2>1. CallsOK'
      BY <1>2, AnswerLow DEF CreateOk
    <2>2. AuthOK'
      BY <1>0, <1>1, <1>2 DEF CreateOk, Answer, AuthOK, AccountsKnown
    <2>. QED
      BY <1>0, <1>2, <2>1, <2>2 DEF CreateOk, LowInv, FlagsOK
  <1>3. CASE CreateLost(c)
    <2>1. CallsOK'
      BY <1>3, AnswerLow DEF CreateLost
    <2>2. AuthOK'
      BY <1>0, <1>1, <1>3 DEF CreateLost, Answer, AuthOK, AccountsKnown
    <2>. QED
      BY <1>0, <1>3, <2>1, <2>2 DEF CreateLost, LowInv, FlagsOK
  <1>4. CASE SignInOk(c)
    <2>1. CallsOK'
      BY <1>4, AnswerLow DEF SignInOk
    <2>2. AuthOK'
      BY <1>0, <1>1, <1>4 DEF SignInOk, Answer, AuthOK, AccountsKnown
    <2>. QED
      BY <1>0, <1>4, <2>1, <2>2 DEF SignInOk, LowInv, FlagsOK
  <1>5. CASE CallFails(c)
    <2>1. CallsOK'
      BY <1>5, AnswerLow DEF CallFails
    <2>. QED
      BY <1>0, <1>5, <2>1 DEF CallFails, LowInv, AuthOK, FlagsOK, AccountsKnown
  <1>. QED
    BY <1>2, <1>3, <1>4, <1>5 DEF Answers

\* Completion handlers keep the lower half.
LEMMA LowHandlers ==
    ASSUME LowInv, NEW c \in Calls, Handlers(c)
    PROVE  LowInv'
  <1>. USE DEF AuthVars
  <1>. DEFINE v == calls[c].view
  <1>0. AuthOK /\ FlagsOK /\ StackOK(stack) /\ calls \in [Calls -> CallRecords]
        /\ ScreensOf(calls, stack) /\ \A d \in Calls : CallOK(calls[d], accounts)
    BY DEF LowInv, CallsOK
  <1>1. v \in Nat /\ calls[c].email \in Emails \cup {None}
    BY <1>0, SessionAssumption DEF CallRecords
  <1>2. v # 0 => v \in 1 .. Len(stack) /\ v \in 1 .. v
    BY <1>0, <1>1, TopFacts, SMT DEF ScreensOf
  <1>3. v # 0 => stack[v].kind = IF calls[c].op = "register" THEN "Register" ELSE "Login"
    BY <1>0 DEF ScreensOf
  <1>. HIDE DEF v
  <1>4. CASE RegisterSucceeded(c)
    <2>. DEFINE w == NewView("Registration", calls[c].email)
    <2>1. v = Len(stack) => Top.kind = "Register"
      BY <1>2, <1>3, <1>4, TopFacts DEF RegisterSucceeded, Handles, Top, v
    <2>2. StackOK(stack') /\ ScreensOf(calls, stack')
      <3>1. CASE v = Len(stack)
        <4>1. stack' = Append(stack, w)
          BY <1>4, <3>1 DEF RegisterSucceeded, Activated, v
        <4>2. Len(stack) + 2 <= MaxDepth /\ Len(stack) + 1 <= MaxDepth
          BY <2>1, <3>1, TopFacts, SMT
        <4>. QED
          BY <1>1, <4>1, <4>2, LowPush DEF Kinds
      <3>2. CASE v # Len(stack)
        BY <1>0, <1>4, <3>2 DEF RegisterSucceeded, Activated, v
      <3>. QED
        BY <3>1, <3>2
    <2>3. CallsOK'
      BY <1>0, <1>4, <2>2, HandledLow DEF RegisterSucceeded
    <2>. QED
      BY <1>0, <1>4, <2>2, <2>3 DEF RegisterSucceeded, LowInv, AuthOK, FlagsOK, AccountsKnown
  <1>5. CASE RegisterFailed(c)
    <2>1. StackOK(stack') /\ ScreensOf(calls, stack')
      <3>1. CASE v = 0
        BY <1>0, <1>5, <3>1 DEF RegisterFailed, v
      <3>2. CASE v # 0
        <4>1. stack' = Alerted(v, stack, "otherError") /\ v \in 1 .. Len(stack)
          BY <1>2, <1>5, <3>2 DEF RegisterFailed, v
        <4>2. "otherError" \in Errors \ {"none"}
          BY DEF Errors
        <4>3. StackOK(stack') /\ Len(stack') = Len(stack)
              /\ \A i \in 1 .. Len(stack) : stack'[i].kind = stack[i].kind
          BY <1>0, <4>1, <4>2, StackAlert
        <4>. QED
          BY <1>0, <4>3, TopFacts, CallsStay, SMT
      <3>. QED
        BY <3>1, <3>2
    <2>2. CallsOK'
      BY <1>0, <1>5, <2>1, HandledLow DEF RegisterFailed
    <2>. QED
      BY <1>0, <1>5, <2>1, <2>2 DEF RegisterFailed, LowInv, AuthOK, FlagsOK, AccountsKnown
  <1>6. CASE LoginSucceeded(c)
    <2>. DEFINE w == NewView("App", calls[c].email)
                u == [stack[v] EXCEPT !.alert = FALSE]
                s == [stack EXCEPT ![v] = u]
    <2>1. StackOK(stack') /\ ScreensOf(calls, stack')
      <3>1. CASE v = 0
        BY <1>0, <1>6, <3>1 DEF LoginSucceeded, v
      <3>2. CASE v # 0
        <4>1. stack' = Activated(v, s, w) /\ v \in 1 .. Len(stack)
          BY <1>2, <1>6, <3>2 DEF LoginSucceeded, v
        <4>2. stack[v] \in Views
          BY <4>1, TopFacts, ElementOfSeq
        <4>3. u \in Views /\ u.kind = stack[v].kind /\ u.alert = FALSE
          BY <4>2 DEF Views
        <4>4. w \in Views /\ w.kind = "App" /\ w.alert = FALSE
          BY <1>1, NewViewType DEF Kinds
        <4>. HIDE DEF u, w
        <4>5. StackOK(s) /\ ScreensOf(calls, s)
          BY <4>1, <4>3, LowEdit
        <4>6. Len(s) = Len(stack) /\ s[v].kind = "Login"
          <5>1. calls[c].op = "signIn"
            BY <1>6 DEF LoginSucceeded, Handles
          <5>. QED
            BY <1>3, <3>2, <4>1, <4>3, <5>1, TopFacts, EditFacts
        <4>. HIDE DEF s
        <4>7. CASE v = Len(s)
          <5>1. stack' = Append(s, w)
            BY <4>1, <4>7 DEF Activated
          <5>2. Len(s) + 1 <= MaxDepth
            BY <4>1, <4>5, <4>6, <4>7 DEF StackOK
          <5>3. StackOK(stack')
            BY <4>4, <4>5, <5>1, <5>2, StackPush
          <5>4. Len(stack') = Len(s) + 1 /\ \A i \in 1 .. Len(s) : stack'[i] = s[i]
            BY <4>4, <4>5, <5>1, PushFacts DEF StackOK
          <5>. QED
            BY <1>0, <4>5, <4>6, <5>3, <5>4, TopFacts, CallsStay, SMT
        <4>8. CASE v # Len(s)
          BY <4>1, <4>5, <4>8 DEF Activated
        <4>. QED
          BY <4>7, <4>8
      <3>. QED
        BY <3>1, <3>2
    <2>2. CallsOK'
      BY <1>0, <1>6, <2>1, HandledLow DEF LoginSucceeded
    <2>. QED
      BY <1>0, <1>6, <2>1, <2>2 DEF LoginSucceeded, LowInv, AuthOK, FlagsOK, AccountsKnown
  <1>7. CASE LoginFailed(c)
    <2>. DEFINE cs == IF v = 0 THEN calls ELSE Detached(v)
    <2>1. /\ StackOK(stack') /\ ScreensOf(cs, stack') /\ cs \in [Calls -> CallRecords]
          /\ \A d \in Calls : CallOK(cs[d], accounts)
      <3>1. CASE v = 0
        BY <1>0, <1>7, <3>1 DEF LoginFailed, v
      <3>2. CASE v # 0
        <4>. DEFINE s == Popped(v)
        <4>1. stack' = Alerted(v, s, "otherError") /\ v \in 1 .. Len(stack)
              /\ cs = Detached(v)
          BY <1>2, <1>7, <3>2 DEF LoginFailed, v
        <4>2. /\ StackOK(s) /\ Len(s) = v /\ v \in 1 .. Len(s)
              /\ ScreensOf(Detached(v), s)
          BY <1>0, <1>2, <3>2, <4>1, PopFacts, StackPop, CallsDetach DEF StackOK
        <4>3. "otherError" \in Errors \ {"none"}
          BY DEF Errors
        <4>. HIDE DEF s
        <4>4. StackOK(stack') /\ Len(stack') = Len(s)
              /\ \A i \in 1 .. Len(s) : stack'[i].kind = s[i].kind
          BY <4>1, <4>2, <4>3, StackAlert
        <4>5. cs \in [Calls -> CallRecords] /\ \A d \in Calls : CallOK(cs[d], accounts)
          BY <1>0, <1>1, <4>1, DetachFacts DEF CallOK
        <4>6. ScreensOf(cs, stack')
          BY <1>1, <4>1, <4>2, <4>4, <4>5, CallsStay, SMT
        <4>. QED
          BY <4>4, <4>5, <4>6
      <3>. QED
        BY <3>1, <3>2
    <2>2. calls' = [cs EXCEPT ![c] = Idle]
      BY <1>7 DEF LoginFailed, v
    <2>. HIDE DEF cs
    <2>3. CallsOK'
      BY <1>0, <1>7, <2>1, <2>2, HandledLow DEF LoginFailed
    <2>. QED
      BY <1>0, <1>7, <2>1, <2>3 DEF LoginFailed, LowInv, AuthOK, FlagsOK, AccountsKnown
  <1>. QED
    BY <1>4, <1>5, <1>6, <1>7 DEF Handlers

\* Every step keeps the lower half.
LEMMA LowStep == LowInv /\ [Next]_vars => LowInv'
  <1>. SUFFICES ASSUME LowInv, [Next]_vars
                PROVE  LowInv'
    OBVIOUS
  <1>0. AuthOK /\ FlagsOK
    BY DEF LowInv
  <1>1. CASE Taps
    BY <1>1, LowTaps
  <1>2. ASSUME NEW c \in Calls, Answers(c) \/ Handlers(c)
        PROVE  LowInv'
    BY <1>2, LowAnswers, LowHandlers
  <1>3. CASE Revoke
    <2>1. CallsOK'
      BY <1>3, SameCalls DEF Revoke, CallVars, LowInv, CallsOK
    <2>. QED
      BY <1>0, <1>3, <2>1 DEF Revoke, CallVars, LowInv, AuthOK, FlagsOK, AccountsKnown
  <1>4. CASE Relaunch
    <2>1. CallsOK' /\ StackOK(stack') /\ recentlyRegistered' \in BOOLEAN
      BY <1>4, LaunchedLow DEF Relaunch, CallsOK
    <2>2. accounts \subseteq accounts'
      BY <1>4 DEF Relaunch
    <2>3. accounts' \subseteq Emails
      <3>1. \A c \in Calls : calls[c].phase = "sent" => calls[c].email \in Emails
        BY DEF LowInv, CallsOK, CallOK
      <3>. QED
        BY <1>0, <1>4, <3>1 DEF Relaunch, AuthOK
    <2>4. AuthOK'
      BY <1>0, <1>4, <2>2, <2>3 DEF Relaunch, AuthOK, AccountsKnown
    <2>. QED
      BY <1>0, <1>4, <2>1, <2>4 DEF Relaunch, LowInv, FlagsOK
  <1>5. CASE UNCHANGED vars
    BY <1>5 DEF vars, LowInv, AuthOK, CallsOK, FlagsOK, AccountsKnown
  <1>. QED
    BY <1>1, <1>2, <1>3, <1>4, <1>5 DEF Next

\* The lower half holds at the first launch.
LEMMA LowInit == Init => LowInv
  <1>. SUFFICES ASSUME Init
                PROVE  LowInv
    OBVIOUS
  <1>1. NewView("Home", None) \in Views /\ NewView("Home", None).kind = "Home"
        /\ NewView("Home", None).alert = FALSE
    BY NewViewType DEF Kinds
  <1>2. stack \in Seq(Views) /\ Len(stack) = 1 /\ stack[1] = NewView("Home", None)
    BY <1>1 DEF Init
  <1>3. StackOK(stack)
    BY <1>1, <1>2, SessionAssumption DEF StackOK
  <1>4. Idle \in CallRecords /\ Idle.phase = "idle" /\ Idle.view = 0
    BY SessionAssumption DEF Idle, CallRecords
  <1>5. calls \in [Calls -> CallRecords] /\ \A c \in Calls : calls[c] = Idle
    BY <1>4 DEF Init
  <1>6. ScreensOf(calls, stack) /\ \A c \in Calls : CallOK(calls[c], accounts)
    BY <1>4, <1>5, Zenon DEF ScreensOf, CallOK
  <1>7. CallsOK
    BY <1>5, <1>6, EmptySeq DEF Init, CallsOK
  <1>8. AuthOK /\ FlagsOK
    BY DEF Init, AuthOK, FlagsOK, AccountsKnown
  <1>. QED
    BY <1>3, <1>7, <1>8 DEF LowInv

\* The lower half always holds.
LEMMA LowAlways == Spec => []LowInv
  BY LowInit, LowStep, PTL DEF Spec

\* Every variable keeps its type; in particular no tap and no handler, however
\* late, pushes a screen beyond the bound on the stack.
THEOREM TypeCorrect == Spec => []TypeOK
  BY LowAlways, LowInvParts, PTL

\* No alert comes up without the message that it force-unwraps.
THEOREM AlertsHaveMessages == Spec => []AlertHasMessage
  BY LowAlways, LowInvParts, PTL

-----------------------------------------------------------------------------
(* The upper half: whose screen, whose answer, whose profile               *)

OneCall == \A c, d \in Calls : Outstanding(c) /\ Outstanding(d) => c = d

CallScreen == \A c \in Calls : Outstanding(c) => Top.kind \in {"Home", "Register", "Login"}

SignedIn(e) == currentUser = e \/ (currentUser = None /\ revoked)

AnswerHolds == \A c \in Calls : calls[c].phase = "ok" => SignedIn(calls[c].email)

NewHasNoProfile ==
    \A c \in Calls : calls[c].phase = "ok" /\ calls[c].op = "register" =>
                users[calls[c].email] = None

OwnerIsIn == Top.kind \in {"Registration", "App"} => SignedIn(Top.owner)

OwnProfiles == \A e \in Emails : users[e] \in {None, e}

FormIsNew == Top.kind = "Registration" => users[Top.owner] = None

Serial == /\ OneCall /\ CallScreen /\ AnswerHolds /\ NewHasNoProfile
          /\ OwnerIsIn /\ OwnProfiles /\ FormIsNew

HighInv == ~overlap => Serial

\* HighInv is the rest of SessionInv.
LEMMA HighInvParts ==
    HighInv <=> SerialCalls /\ SignedInAsOwner /\ ProfileIsOwners /\ RegistrationOnlyOnce
  BY Zenon DEF HighInv, Serial, OneCall, CallScreen, AnswerHolds, NewHasNoProfile,
     OwnerIsIn, OwnProfiles, FormIsNew, SignedIn, SerialCalls, SignedInAsOwner,
     ProfileIsOwners, RegistrationOnlyOnce

\* A step after which the top screen is one that asks for no sign-in, and that
\* touches neither the signed-in user, the profiles nor what was answered.
LEMMA SerialQuiet ==
    ASSUME Serial, currentUser' = currentUser, revoked' = revoked, users' = users,
           Top'.kind \in {"Home", "Register", "Login"},
           \A c \in Calls : /\ calls'[c].phase = calls[c].phase
                            /\ calls'[c].op = calls[c].op
                            /\ calls'[c].email = calls[c].email
    PROVE  Serial'
  BY ZenonT(60) DEF Serial, OneCall, CallScreen, AnswerHolds, NewHasNoProfile,
     OwnerIsIn, OwnProfiles, FormIsNew, SignedIn, Outstanding

\* A step that leaves the kind and the owner of the top screen alone, too.
LEMMA SerialSameTop ==
    ASSUME Serial, currentUser' = currentUser, revoked' = revoked, users' = users,
           Top'.kind = Top.kind, Top'.owner = Top.owner, calls' = calls
    PROVE  Serial'
  BY Zenon DEF Serial, OneCall, CallScreen, AnswerHolds, NewHasNoProfile,
     OwnerIsIn, OwnProfiles, FormIsNew, SignedIn, Outstanding

\* A step after which no call is outstanding.
LEMMA SerialIdle ==
    ASSUME \A c \in Calls : calls'[c].phase = "idle",
           OwnProfiles', OwnerIsIn', FormIsNew'
    PROVE  Serial'
  <1>1. \A c \in Calls : calls'[c].phase # "ok"
    BY Zenon
  <1>. QED
    BY <1>1, Zenon DEF Serial, OneCall, CallScreen, AnswerHolds, NewHasNoProfile, Outstanding

\* The screen on top after a push, an edit and a pop.
LEMMA TopAfterPush ==
    ASSUME LowInv, NEW kind \in Kinds, NEW owner \in Emails \cup {None},
           stack' = Append(stack, NewView(kind, owner))
    PROVE  Top'.kind = kind /\ Top'.owner = owner
  <1>. DEFINE w == NewView(kind, owner)
  <1>1. w \in Views /\ w.kind = kind /\ w.owner = owner
    BY NewViewType
  <1>. HIDE DEF w
  <1>2. stack' = Append(stack, w)
    BY DEF w
  <1>3. Top' = w
    BY <1>1, <1>2, TopFacts, PushFacts DEF Top
  <1>. QED
    BY <1>1, <1>3

\* The kind and the owner of the top screen survive a change of any screen.
LEMMA TopAfterEdit ==
    ASSUME LowInv, NEW v \in 1 .. Len(stack), NEW w \in Views,
           stack' = [stack EXCEPT ![v] = w],
           w.kind = stack[v].kind, w.owner = stack[v].owner
    PROVE  Top'.kind = Top.kind /\ Top'.owner = Top.owner
  BY TopFacts, EditFacts DEF Top

\* They survive an alert on any screen.
LEMMA TopAfterAlert ==
    ASSUME LowInv, NEW v \in 1 .. Len(stack), NEW error \in Errors,
           stack' = Alerted(v, stack, error)
    PROVE  Top'.kind = Top.kind /\ Top'.owner = Top.owner
  BY TopFacts, AlertFacts, SMTT(60) DEF Top

\* Taps keep the upper half while calls do not overlap.
LEMMA SerialTaps ==
    ASSUME LowInv, Serial, Taps, ~overlap, ~overlap'
    PROVE  Serial'
  <1>. USE DEF AuthVars, CallVars
  <1>1. CASE OpenSignUp \/ OpenSignIn
    <2>1. Top'.kind \in {"Register", "Login"}
      BY <1>1, TopAfterPush DEF OpenSignUp, OpenSignIn, Kinds
    <2>. QED
      BY <1>1, <2>1, SerialQuiet DEF OpenSignUp, OpenSignIn
  <1>2. CASE Back
    <2>. DEFINE n == Len(stack) - 1
    <2>1. n \in 1 .. Len(stack) /\ n \in Nat /\ n \in 1 .. n /\ stack[n].kind = "Home"
      BY <1>2, TopFacts, SMT DEF Back, Ready
    <2>2. stack' = Popped(n) /\ calls' = Detached(n)
      BY <1>2 DEF Back
    <2>. HIDE DEF n
    <2>3. Top'.kind = "Home"
      BY <2>1, <2>2, TopFacts, PopFacts DEF Top
    <2>. QED
      BY <1>2, <2>1, <2>2, <2>3, DetachFacts, SerialQuiet DEF Back, LowInv, CallsOK
  <1>3. ASSUME NEW n \in PasswordCounts, RegisterTooShort(n) \/ RegisterMismatch(n)
        PROVE  Serial'
    <2>. DEFINE l == Len(stack)
                w == [Top EXCEPT !.count = n]
                s == [stack EXCEPT ![l] = w]
    <2>1. PICK error \in Errors : stack' = Alerted(l, s, error)
      BY <1>3 DEF RegisterTooShort, RegisterMismatch, Errors, Top
    <2>2. w \in Views /\ w.kind = Top.kind
      BY TopFacts DEF Views
    <2>. HIDE DEF w
    <2>3. s \in Seq(Views) /\ Len(s) = l /\ s[l] = w /\ l \in 1 .. l
      BY <2>2, TopFacts, EditFacts
    <2>. HIDE DEF s
    <2>4. Top'.kind = Top.kind
      BY <2>1, <2>2, <2>3, AlertFacts DEF Top
    <2>5. Top.kind = "Register"
      BY <1>3 DEF RegisterTooShort, RegisterMismatch, Ready
    <2>. QED
      BY <1>3, <2>4, <2>5, SerialQuiet DEF RegisterTooShort, RegisterMismatch
  <1>4. ASSUME NEW c \in Calls, NEW e \in Emails, NEW op \in {"register", "signIn"},
               Send(c, op, e), UNCHANGED <<users, currentUser, revoked>>,
               Top'.kind \in {"Register", "Login"}
        PROVE  Serial'
    <2>1. \A d \in Calls : calls[d].phase = "idle"
      BY <1>4 DEF Send, Outstanding
    <2>2. \A d \in Calls : calls'[d].phase # "idle" => d = c /\ calls'[d].phase = "sent"
      BY <1>4, <2>1 DEF Send, LowInv, CallsOK
    <2>3. \A d \in Calls : calls'[d].phase # "ok"
      BY <2>2
    <2>4. OneCall' /\ CallScreen'
      BY <1>4, <2>2 DEF OneCall, CallScreen, Outstanding
    <2>5. AnswerHolds' /\ NewHasNoProfile'
      BY <2>3 DEF AnswerHolds, NewHasNoProfile
    <2>6. OwnerIsIn' /\ FormIsNew' /\ OwnProfiles'
      BY <1>4 DEF OwnerIsIn, FormIsNew, OwnProfiles, Serial
    <2>. QED
      BY <2>4, <2>5, <2>6 DEF Serial
  <1>5. ASSUME NEW c \in Calls, NEW e \in Emails, NEW n \in PasswordCounts, register(c, e, n)
        PROVE  Serial'
    <2>. DEFINE l == Len(stack)
                w == [Top EXCEPT !.count = n]
    <2>1. w \in Views /\ w.kind = Top.kind /\ w.owner = Top.owner
      BY TopFacts DEF Views
    <2>2. stack' = [stack EXCEPT ![l] = w] /\ Top.kind = "Register"
      BY <1>5 DEF register, Ready, Top
    <2>. HIDE DEF w
    <2>3. Top'.kind = "Register"
      BY <2>1, <2>2, TopFacts, TopAfterEdit DEF Top
    <2>. QED
      BY <1>4, <1>5, <2>3 DEF register
  <1>6. ASSUME NEW c \in Calls, NEW e \in Emails, signIn(c, e)
        PROVE  Serial'
    <2>1. Top'.kind = "Login"
      BY <1>6 DEF signIn, Ready, Top
    <2>. QED
      BY <1>4, <1>6, <2>1 DEF signIn
  <1>7. ASSUME NEW v \in 1 .. Len(stack), CloseAlert(v)
        PROVE  Serial'
    <2>. DEFINE w == [stack[v] EXCEPT !.alert = FALSE, !.count = 0]
                s == Popped(v)
    <2>1. s \in Seq(Views) /\ Len(s) = v /\ s[v] = stack[v] /\ v \in 1 .. Len(s) /\ v \in Nat
      BY TopFacts, PopFacts, SMT
    <2>2. stack' = [s EXCEPT ![v] = w]
      BY <1>7, <2>1 DEF CloseAlert
    <2>3. stack[v] \in Views
      BY TopFacts, ElementOfSeq
    <2>4. w \in Views /\ w.kind = stack[v].kind
      BY <2>3 DEF Views
    <2>. HIDE DEF w, s
    <2>5. Len(stack') = v /\ stack'[v] = w
      BY <2>1, <2>2, <2>4, EditFacts
    <2>6. Top'.kind \in {"Register", "Login"}
      BY <1>7, <2>4, <2>5 DEF Top, CloseAlert
    <2>. QED
      BY <1>7, <2>1, <2>6, DetachFacts, SerialQuiet DEF CloseAlert, LowInv, CallsOK
  <1>8. ASSUME NEW username \in BOOLEAN, NEW firstName \in BOOLEAN,
               FormIncomplete(username, firstName)
        PROVE  Serial'
    <2>1. Top'.kind = Top.kind /\ Top'.owner = Top.owner
      <3>1. PICK error \in Errors : stack' = Alerted(Len(stack), stack, error)
        BY <1>8 DEF FormIncomplete, Errors
      <3>. QED
        BY <3>1, TopFacts, TopAfterAlert
    <2>. QED
      BY <1>8, <2>1, SerialSameTop DEF FormIncomplete
  <1>9. CASE DismissFormAlert
    <2>. DEFINE l == Len(stack)
                w == [Top EXCEPT !.alert = FALSE]
    <2>1. w \in Views /\ w.kind = Top.kind /\ w.owner = Top.owner
      BY TopFacts DEF Views
    <2>2. stack' = [stack EXCEPT ![l] = w]
      BY <1>9 DEF DismissFormAlert, Top
    <2>. HIDE DEF w
    <2>3. Top'.kind = Top.kind /\ Top'.owner = Top.owner
      BY <2>1, <2>2, TopFacts, TopAfterEdit DEF Top
    <2>. QED
      BY <1>9, <2>3, SerialSameTop DEF DismissFormAlert
  <1>10. CASE storeUserDetails
    <2>1. Top.kind = "Registration" /\ currentUser # None /\ currentUser = Top.owner
      BY <1>10 DEF storeUserDetails, Ready, Serial, OwnerIsIn, SignedIn
    <2>2. \A c \in Calls : calls'[c].phase = "idle"
      BY <1>10, <2>1 DEF storeUserDetails, Serial, CallScreen, Outstanding
    <2>3. Top'.kind = "App" /\ Top'.owner = Top.owner
      BY <1>10, TopFacts, TopAfterPush DEF storeUserDetails, Kinds
    <2>4. OwnProfiles'
      BY <1>10, <2>1 DEF storeUserDetails, Serial, OwnProfiles, LowInv, AuthOK
    <2>5. OwnerIsIn' /\ FormIsNew'
      BY <1>10, <2>1, <2>3 DEF storeUserDetails, OwnerIsIn, FormIsNew, SignedIn
    <2>. QED
      BY <2>2, <2>4, <2>5, SerialIdle
  <1>11. CASE storeUserDetailsAborts
    <2>1. Top'.kind = "Home" /\ \A c \in Calls : calls'[c].phase = "idle"
      BY <1>11, NewViewType DEF storeUserDetailsAborts, Launched, Top, Kinds, Idle
    <2>. QED
      BY <1>11, <2>1, SerialIdle
         DEF storeUserDetailsAborts, OwnerIsIn, FormIsNew, OwnProfiles, Serial
  <1>12. CASE signOut
    <2>1. Top'.kind = "Home"
      BY <1>12, TopAfterPush DEF signOut, Kinds
    <2>2. \A c \in Calls : calls'[c].phase = "idle"
      BY <1>12 DEF signOut, Ready, Serial, CallScreen, Outstanding
    <2>. QED
      BY <1>12, <2>1, <2>2, SerialIdle DEF signOut, OwnerIsIn, FormIsNew, OwnProfiles, Serial
  <1>. QED
    BY <1>1, <1>2, <1>3, <1>5, <1>6, <1>7, <1>8, <1>9, <1>10, <1>11, <1>12 DEF Taps

\* Answers of Firebase Auth keep it.
LEMMA SerialAnswers ==
    ASSUME LowInv, Serial, NEW c \in Calls, Answers(c)
    PROVE  Serial'
  <1>. USE DEF AuthVars
  <1>1. ASSUME NEW phase \in {"ok", "failed"}, Answer(c, phase), stack' = stack, users' = users,
               phase = "ok" => SignedIn(calls[c].email)',
               phase = "ok" /\ calls[c].op = "register" => users[calls[c].email] = None
        PROVE  Serial'
    <2>1. Outstanding(c) /\ Top' = Top
      BY <1>1 DEF Answer, Outstanding, Top
    <2>2. \A d \in Calls : Outstanding(d) => d = c
      BY <2>1 DEF Serial, OneCall
    <2>3. Top.kind \in {"Home", "Register", "Login"}
      BY <2>1 DEF Serial, CallScreen
    <2>4. \A d \in Calls : /\ calls'[d].op = calls[d].op
                           /\ calls'[d].email = calls[d].email
                           /\ calls'[d].phase = IF d = c THEN phase ELSE calls[d].phase
      BY <1>1, SMT DEF LowInv, CallsOK, Answer, CallRecords
    <2>5. \A d \in Calls : calls'[d].phase # "idle" => d = c
      BY <2>2, <2>4 DEF Outstanding
    <2>6. OneCall' /\ CallScreen'
      BY <2>1, <2>3, <2>5 DEF OneCall, CallScreen, Outstanding
    <2>7. calls'[c].phase = phase /\ calls'[c].email = calls[c].email
          /\ calls'[c].op = calls[c].op
      BY <2>4
    <2>8. AnswerHolds'
      BY <1>1, <2>5, <2>7 DEF AnswerHolds, SignedIn
    <2>9. NewHasNoProfile'
      BY <1>1, <2>5, <2>7 DEF NewHasNoProfile
    <2>10. OwnerIsIn' /\ FormIsNew' /\ OwnProfiles'
      BY <1>1, <2>1, <2>3 DEF OwnerIsIn, FormIsNew, OwnProfiles, Serial
    <2>. QED
      BY <2>6, <2>8, <2>9, <2>10 DEF Serial
  <1>2. CASE CreateOk(c)
    <2>1. calls[c].email \in Emails
      BY <1>2 DEF CreateOk, Answer, LowInv, CallsOK, CallOK
    <2>2. users[calls[c].email] = None
      BY <1>2, <2>1 DEF CreateOk, LowInv, AuthOK, AccountsKnown
    <2>3. calls'[c].email = calls[c].email
      BY <1>2, SMT DEF CreateOk, Answer, LowInv, CallsOK, CallRecords
    <2>. QED
      BY <1>1, <1>2, <2>2, <2>3 DEF CreateOk, SignedIn
  <1>3. CASE CreateLost(c)
    BY <1>1, <1>3 DEF CreateLost
  <1>4. CASE SignInOk(c)
    <2>1. calls'[c].email = calls[c].email
      BY <1>4, SMT DEF SignInOk, Answer, LowInv, CallsOK, CallRecords
    <2>. QED
      BY <1>1, <1>4, <2>1 DEF SignInOk, SignedIn
  <1>5. CASE CallFails(c)
    BY <1>1, <1>5 DEF CallFails
  <1>. QED
    BY <1>2, <1>3, <1>4, <1>5 DEF Answers

\* Completion handlers keep it: the one call that was outstanding is gone.
LEMMA SerialHandlers ==
    ASSUME LowInv, Serial, NEW c \in Calls, Handlers(c)
    PROVE  Serial'
  <1>. USE DEF AuthVars
  <1>. DEFINE v == calls[c].view
  <1>1. Outstanding(c) /\ \A d \in Calls : Outstanding(d) => d = c
    <2>1. Outstanding(c)
      BY DEF Handlers, RegisterSucceeded, RegisterFailed, LoginSucceeded, LoginFailed,
             Handles, Outstanding
    <2>. QED
      BY <2>1 DEF Serial, OneCall
  <1>2. Top.kind \in {"Home", "Register", "Login"}
    BY <1>1 DEF Serial, CallScreen
  <1>3. /\ v \in Nat /\ calls[c].email \in Emails
        /\ v # 0 => v \in 1 .. Len(stack) /\ v \in 1 .. v
        /\ v # 0 => stack[v].kind = IF calls[c].op = "register" THEN "Register" ELSE "Login"
    <2>1. v \in Nat
      BY SessionAssumption DEF LowInv, CallsOK, CallRecords
    <2>2. v # 0 => v <= Len(stack)
                   /\ stack[v].kind = IF calls[c].op = "register" THEN "Register" ELSE "Login"
      BY DEF LowInv, CallsOK, ScreensOf
    <2>3. v # 0 => v \in 1 .. Len(stack) /\ v \in 1 .. v
      BY <2>1, <2>2, TopFacts, SMT
    <2>. QED
      BY <1>1, <2>1, <2>2, <2>3 DEF LowInv, CallsOK, CallOK, Outstanding
  <1>. HIDE DEF v
  <1>4. ASSUME NEW cs \in [Calls -> CallRecords], calls' = [cs EXCEPT ![c] = Idle],
               \A d \in Calls : cs[d].phase = calls[d].phase,
               users' = users, OwnerIsIn', FormIsNew'
        PROVE  Serial'
    <2>1. \A d \in Calls : calls'[d].phase = "idle"
      BY <1>1, <1>4 DEF Idle, Outstanding
    <2>2. OwnProfiles'
      BY <1>4 DEF OwnProfiles, Serial
    <2>. QED
      BY <1>4, <2>1, <2>2, SerialIdle
  <1>5. calls \in [Calls -> CallRecords]
    BY DEF LowInv, CallsOK
  <1>6. CASE RegisterSucceeded(c)
    <2>1. SignedIn(calls[c].email) /\ users[calls[c].email] = None
      BY <1>6 DEF RegisterSucceeded, Handles, Serial, AnswerHolds, NewHasNoProfile
    <2>2. \/ Top' = Top
          \/ Top'.kind = "Registration" /\ Top'.owner = calls[c].email
      <3>1. CASE v = Len(stack)
        BY <1>3, <1>6, <3>1, TopAfterPush DEF RegisterSucceeded, Activated, Kinds, v
      <3>2. CASE v # Len(stack)
        BY <1>6, <3>2 DEF RegisterSucceeded, Activated, v, Top
      <3>. QED
        BY <3>1, <3>2
    <2>3. OwnerIsIn' /\ FormIsNew'
      BY <1>2, <1>6, <2>1, <2>2 DEF RegisterSucceeded, OwnerIsIn, FormIsNew, SignedIn
    <2>. QED
      BY <1>4, <1>5, <1>6, <2>3 DEF RegisterSucceeded
  <1>7. CASE RegisterFailed(c)
    <2>1. Top'.kind = Top.kind
      <3>1. CASE v = 0
        BY <1>7, <3>1 DEF RegisterFailed, v, Top
      <3>2. CASE v # 0
        BY <1>3, <1>7, <3>2, TopAfterAlert DEF RegisterFailed, Errors, v
      <3>. QED
        BY <3>1, <3>2
    <2>2. OwnerIsIn' /\ FormIsNew'
      BY <1>2, <2>1 DEF OwnerIsIn, FormIsNew
    <2>. QED
      BY <1>4, <1>5, <1>7, <2>2 DEF RegisterFailed
  <1>8. CASE LoginSucceeded(c)
    <2>. DEFINE w == NewView("App", calls[c].email)
                u == [stack[v] EXCEPT !.alert = FALSE]
                s == [stack EXCEPT ![v] = u]
    <2>1. SignedIn(calls[c].email)
      BY <1>8 DEF LoginSucceeded, Handles, Serial, AnswerHolds
    <2>2. \/ Top'.kind = Top.kind
          \/ Top'.kind = "App" /\ Top'.owner = calls[c].email
      <3>1. CASE v = 0
        BY <1>8, <3>1 DEF LoginSucceeded, v, Top
      <3>2. CASE v # 0
        <4>1. stack' = Activated(v, s, w) /\ v \in 1 .. Len(stack)
          BY <1>3, <1>8, <3>2 DEF LoginSucceeded, v
        <4>2. stack[v] \in Views
          BY <4>1, TopFacts, ElementOfSeq
        <4>3. u \in Views /\ u.kind = stack[v].kind
          BY <4>2 DEF Views
        <4>4. w \in Views /\ w.kind = "App" /\ w.owner = calls[c].email
          BY <1>3, NewViewType DEF Kinds
        <4>. HIDE DEF u, w
        <4>5. s \in Seq(Views) /\ Len(s) = Len(stack)
              /\ \A i \in 1 .. Len(stack) : s[i].kind = stack[i].kind
          BY <4>1, <4>3, TopFacts, EditFacts
        <4>. HIDE DEF s
        <4>6. CASE v = Len(s)
          <5>1. stack' = Append(s, w)
            BY <4>1, <4>6 DEF Activated
          <5>2. Top' = w
            BY <4>4, <4>5, <5>1, PushFacts DEF Top
          <5>. QED
            BY <4>4, <5>2
        <4>7. CASE v # Len(s)
          <5>1. stack' = s
            BY <4>1, <4>7 DEF Activated
          <5>. QED
            BY <4>5, <5>1, TopFacts DEF Top
        <4>. QED
          BY <4>6, <4>7
      <3>. QED
        BY <3>1, <3>2
    <2>3. OwnerIsIn' /\ FormIsNew'
      BY <1>2, <1>8, <2>1, <2>2 DEF LoginSucceeded, OwnerIsIn, FormIsNew, SignedIn
    <2>. QED
      BY <1>4, <1>5, <1>8, <2>3 DEF LoginSucceeded
  <1>9. CASE LoginFailed(c)
    <2>. DEFINE cs == IF v = 0 THEN calls ELSE Detached(v)
    <2>1. Top'.kind \in {"Home", "Register", "Login"}
      <3>1. CASE v = 0
        BY <1>2, <1>9, <3>1 DEF LoginFailed, v, Top
      <3>2. CASE v # 0
        <4>. DEFINE s == Popped(v)
        <4>1. stack' = Alerted(v, s, "otherError")
          BY <1>9, <3>2 DEF LoginFailed, v
        <4>2. s \in Seq(Views) /\ Len(s) = v /\ v \in 1 .. Len(s) /\ s[v] = stack[v]
          BY <1>3, <3>2, TopFacts, PopFacts, SMT
        <4>3. stack[v].kind \in {"Register", "Login"}
          BY <1>3, <3>2
        <4>. HIDE DEF s
        <4>4. "otherError" \in Errors
          BY DEF Errors
        <4>5. Len(stack') = v /\ stack'[v].kind = s[v].kind
          BY <4>1, <4>2, <4>4, AlertFacts
        <4>. QED
          BY <4>2, <4>3, <4>5 DEF Top
      <3>. QED
        BY <3>1, <3>2
    <2>2. OwnerIsIn' /\ FormIsNew'
      BY <2>1 DEF OwnerIsIn, FormIsNew
    <2>3. cs \in [Calls -> CallRecords] /\ \A d \in Calls : cs[d].phase = calls[d].phase
      BY <1>3, <1>5, DetachFacts
    <2>4. calls' = [cs EXCEPT ![c] = Idle]
      BY <1>9 DEF LoginFailed, v
    <2>. HIDE DEF cs
    <2>. QED
      BY <1>4, <1>9, <2>2, <2>3, <2>4 DEF LoginFailed
  <1>. QED
    BY <1>6, <1>7, <1>8, <1>9 DEF Handlers

\* Every step keeps the upper half.
LEMMA HighStep == LowInv /\ HighInv /\ [Next]_vars => HighInv'
  <1>. SUFFICES ASSUME LowInv, HighInv, [Next]_vars, ~overlap'
                PROVE  Serial'
    BY DEF HighInv
  <1>1. ~overlap
    <2>1. overlap' = overlap \/ overlap' = (overlap \/ \E d \in Calls : Outstanding(d))
      BY DEF Next, vars, AuthVars, CallVars, Taps, Answers, Handlers, OpenSignUp, OpenSignIn,
         Back, RegisterTooShort, RegisterMismatch, register, signIn, Send, CloseAlert,
         FormIncomplete, DismissFormAlert, storeUserDetails, storeUserDetailsAborts, signOut,
         CreateOk, CreateLost, SignInOk, CallFails, Revoke, Relaunch,
         RegisterSucceeded, RegisterFailed, LoginSucceeded, LoginFailed
    <2>. QED
      BY <2>1, Zenon
  <1>2. Serial
    BY <1>1 DEF HighInv
  <1>3. CASE Taps
    BY <1>1, <1>2, <1>3, SerialTaps
  <1>4. ASSUME NEW c \in Calls, Answers(c) \/ Handlers(c)
        PROVE  Serial'
    BY <1>2, <1>4, SerialAnswers, SerialHandlers
  <1>5. CASE Revoke
    BY <1>2, <1>5 DEF Revoke, CallVars, Serial, OneCall, CallScreen, AnswerHolds,
       NewHasNoProfile, OwnerIsIn, OwnProfiles, FormIsNew, SignedIn, Outstanding, Top
  <1>6. CASE Relaunch
    <2>1. Top'.kind = "Home" /\ \A c \in Calls : calls'[c].phase = "idle"
      BY <1>6, NewViewType DEF Relaunch, Launched, Top, Kinds, Idle
    <2>. QED
      BY <1>2, <1>6, <2>1, SerialIdle DEF Relaunch, OwnerIsIn, FormIsNew, OwnProfiles, Serial
  <1>7. CASE UNCHANGED vars
    <2>1. Top' = Top
      BY <1>7 DEF vars, Top
    <2>. QED
      BY <1>2, <1>7, <2>1, SerialSameTop DEF vars
  <1>. QED
    BY <1>3, <1>4, <1>5, <1>6, <1>7 DEF Next

\* The upper half holds at the first launch.
LEMMA HighInit == Init => HighInv
  <1>. SUFFICES ASSUME Init
                PROVE  Serial
    BY DEF HighInv
  <1>1. Top.kind = "Home"
    BY NewViewType DEF Init, Top, Kinds
  <1>2. \A c \in Calls : calls[c].phase = "idle"
    BY DEF Init, Idle
  <1>. QED
    BY <1>1, <1>2 DEF Init, Serial, OneCall, CallScreen, AnswerHolds,
       NewHasNoProfile, OwnerIsIn, OwnProfiles, FormIsNew, Outstanding

-----------------------------------------------------------------------------
(* The theorems                                                            *)

\* The whole invariant holds in every reachable state.
THEOREM SessionCorrect == Spec => []SessionInv
  <1>1. Init => LowInv /\ HighInv
    BY LowInit, HighInit
  <1>2. (LowInv /\ HighInv) /\ [Next]_vars => (LowInv /\ HighInv)'
    BY LowStep, HighStep
  <1>3. LowInv /\ HighInv => SessionInv
    BY LowInvParts, HighInvParts, Zenon DEF SessionInv
  <1>. QED
    BY <1>1, <1>2, <1>3, PTL DEF Spec

\* As long as no call is sent while another is outstanding, the account whose
\* sign-up or sign-in opened a signed-in screen is the one that is signed in.
THEOREM OwnerStaysSignedIn == Spec => []SignedInAsOwner
  <1>1. SessionInv => SignedInAsOwner
    BY DEF SessionInv
  <1>. QED
    BY <1>1, SessionCorrect, PTL

\* Under the same condition storeUserDetails never overwrites the profile of
\* another account.
THEOREM ProfilesAreOwn == Spec => []ProfileIsOwners
  <1>1. SessionInv => ProfileIsOwners
    BY DEF SessionInv
  <1>. QED
    BY <1>1, SessionCorrect, PTL

\* Under the same condition RegistrationView never comes back to an account
\* that has stored its details.
THEOREM RegistrationIsOnce == Spec => []RegistrationOnlyOnce
  <1>1. SessionInv => RegistrationOnlyOnce
    BY DEF SessionInv
  <1>. QED
    BY <1>1, SessionCorrect, PTL

-----------------------------------------------------------------------------
(* Every answer has its handler                                            *)

\* A step that leaves the queue alone and answers nothing keeps it right.
LEMMA QueueStays ==
    ASSUME AnswersAreQueued, mainQueue' = mainQueue,
           \A c \in Calls : calls'[c].phase \in {"ok", "failed"}
                                <=> calls[c].phase \in {"ok", "failed"}
    PROVE  AnswersAreQueued'
  BY DEF AnswersAreQueued

\* The handler of a call that was only sent goes behind the others.
LEMMA QueueGrows ==
    ASSUME LowInv, AnswersAreQueued, NEW c \in Calls, NEW phase \in {"ok", "failed"},
           Answer(c, phase)
    PROVE  AnswersAreQueued'
  <1>. DEFINE n == Len(mainQueue)
  <1>1. /\ n \in Nat /\ Len(mainQueue') = n + 1 /\ mainQueue'[n + 1] = c
        /\ \A i \in 1 .. n : mainQueue'[i] = mainQueue[i]
    BY AppendProperties, LenProperties DEF LowInv, CallsOK, Answer
  <1>2. /\ calls'[c].phase = phase /\ calls[c].phase = "sent"
        /\ \A d \in Calls : d # c => calls'[d].phase = calls[d].phase
    BY DEF LowInv, CallsOK, CallRecords, Answer
  <1>3. \A i \in 1 .. n : mainQueue[i] # c
    BY <1>2 DEF AnswersAreQueued
  <1>4. \A i \in 1 .. Len(mainQueue') : i \in 1 .. n \/ i = n + 1
    BY <1>1
  <1>5. n + 1 \in 1 .. Len(mainQueue') /\ \A i \in 1 .. n : i \in 1 .. Len(mainQueue')
    BY <1>1
  <1>6. ASSUME NEW d \in Calls
        PROVE  calls'[d].phase \in {"ok", "failed"} <=>
                    \E i \in 1 .. Len(mainQueue') : mainQueue'[i] = d
    <2>1. CASE d = c
      BY <1>1, <1>2, <1>5, <2>1
    <2>2. CASE d # c
      <3>1. calls[d].phase \in {"ok", "failed"} <=> \E i \in 1 .. n : mainQueue[i] = d
        BY DEF AnswersAreQueued
      <3>. QED
        BY <1>1, <1>2, <1>4, <1>5, <2>2, <3>1
    <2>. QED
      BY <2>1, <2>2
  <1>7. \A i, j \in 1 .. Len(mainQueue') : mainQueue'[i] = mainQueue'[j] => i = j
    <2>1. \A i, j \in 1 .. n : mainQueue[i] = mainQueue[j] => i = j
      BY DEF AnswersAreQueued
    <2>. QED
      BY <1>1, <1>3, <1>4, <2>1
  <1>. QED
    BY <1>6, <1>7 DEF AnswersAreQueued

\* The handler that has run is gone from the queue, and its call is idle.
LEMMA QueueShrinks ==
    ASSUME LowInv, AnswersAreQueued, NEW c \in Calls, NEW op, NEW phase,
           Handles(c, op, phase), calls'[c].phase = "idle",
           \A d \in Calls : d # c => calls'[d].phase = calls[d].phase
    PROVE  AnswersAreQueued'
  <1>. DEFINE n == Len(mainQueue)
  <1>1. mainQueue \in Seq(Calls) /\ mainQueue # << >> /\ mainQueue' = Tail(mainQueue)
        /\ c = mainQueue[1]
    BY DEF LowInv, CallsOK, Handles
  <1>2. n \in Nat /\ n >= 1
    BY <1>1
  <1>3. Len(mainQueue') = n - 1 /\ \A i \in 1 .. n - 1 : mainQueue'[i] = mainQueue[i + 1]
    BY <1>1, HeadTailProperties
  <1>4. /\ 1 \in 1 .. n
        /\ \A i \in 1 .. n - 1 : i + 1 \in 1 .. n /\ i + 1 # 1
        /\ \A i \in 1 .. n : i # 1 => i - 1 \in 1 .. n - 1 /\ (i - 1) + 1 = i
    BY <1>2
  <1>5. \A i, j \in 1 .. n : mainQueue[i] = mainQueue[j] => i = j
    BY DEF AnswersAreQueued
  <1>6. \A i \in 1 .. n - 1 : mainQueue[i + 1] # c
    BY <1>1, <1>4, <1>5
  <1>7. ASSUME NEW d \in Calls
        PROVE  calls'[d].phase \in {"ok", "failed"} <=>
                    \E i \in 1 .. Len(mainQueue') : mainQueue'[i] = d
    <2>1. CASE d = c
      BY <1>3, <1>6, <2>1
    <2>2. CASE d # c
      <3>1. calls[d].phase \in {"ok", "failed"} <=> \E i \in 1 .. n : mainQueue[i] = d
        BY DEF AnswersAreQueued
      <3>2. (\E i \in 1 .. n : mainQueue[i] = d) <=> \E i \in 1 .. n - 1 : mainQueue[i + 1] = d
        <4>1. ASSUME NEW i \in 1 .. n, mainQueue[i] = d
              PROVE  \E j \in 1 .. n - 1 : mainQueue[j + 1] = d
          <5>1. i # 1
            BY <1>1, <2>2, <4>1
          <5>2. i - 1 \in 1 .. n - 1 /\ (i - 1) + 1 = i
            BY <1>4, <5>1
          <5>. QED
            BY <4>1, <5>2
        <4>. QED
          BY <1>4, <4>1
      <3>. QED
        BY <1>3, <2>2, <3>1, <3>2
    <2>. QED
      BY <2>1, <2>2
  <1>8. \A i, j \in 1 .. Len(mainQueue') : mainQueue'[i] = mainQueue'[j] => i = j
    <2>. SUFFICES ASSUME NEW i \in 1 .. n - 1, NEW j \in 1 .. n - 1,
                         mainQueue[i + 1] = mainQueue[j + 1]
                  PROVE  i = j
      BY <1>3
    <2>1. i + 1 = j + 1
      BY <1>4, <1>5
    <2>. QED
      BY <1>2, <2>1
  <1>. QED
    BY <1>7, <1>8 DEF AnswersAreQueued

\* Detached touches no call's phase.
LEMMA DetachedPhases ==
    ASSUME LowInv, NEW n
    PROVE  \A c \in Calls : Detached(n)[c].phase = calls[c].phase
  BY DEF LowInv, CallsOK, CallRecords, Detached

LEMMA QueueTaps ==
    ASSUME LowInv, AnswersAreQueued, Taps
    PROVE  AnswersAreQueued'
  <1>. USE DEF CallVars
  <1>1. ASSUME UNCHANGED CallVars
        PROVE  AnswersAreQueued'
    BY <1>1, QueueStays
  <1>2. CASE Back \/ \E v \in 1 .. Len(stack) : CloseAlert(v)
    <2>1. mainQueue' = mainQueue /\ \E n : calls' = Detached(n)
      BY <1>2 DEF Back, CloseAlert
    <2>. QED
      BY <2>1, DetachedPhases, QueueStays
  <1>3. ASSUME NEW c \in Calls, NEW e \in Emails, NEW op, Send(c, op, e)
        PROVE  AnswersAreQueued'
    <2>1. /\ mainQueue' = mainQueue /\ calls[c].phase = "idle" /\ calls'[c].phase = "sent"
          /\ \A d \in Calls : d # c => calls'[d] = calls[d]
      BY <1>3 DEF Send, Outstanding, LowInv, CallsOK
    <2>. QED
      BY <2>1, QueueStays
  <1>4. CASE storeUserDetailsAborts
    <2>1. mainQueue' = << >> /\ \A c \in Calls : calls'[c].phase = "idle"
      BY <1>4 DEF storeUserDetailsAborts, Launched, Idle
    <2>. QED
      BY <2>1 DEF AnswersAreQueued
  <1>. QED
    BY <1>1, <1>2, <1>3, <1>4 DEF Taps, OpenSignUp, OpenSignIn, RegisterTooShort,
       RegisterMismatch, register, signIn, FormIncomplete, DismissFormAlert,
       storeUserDetails, signOut

LEMMA QueueHandlers ==
    ASSUME LowInv, AnswersAreQueued, NEW c \in Calls, Handlers(c)
    PROVE  AnswersAreQueued'
  <1>1. PICK op \in {"register", "signIn"}, phase \in {"ok", "failed"} : Handles(c, op, phase)
    BY DEF Handlers, RegisterSucceeded, RegisterFailed, LoginSucceeded, LoginFailed
  <1>2. \E n : calls' = [calls EXCEPT ![c] = Idle] \/ calls' = [Detached(n) EXCEPT ![c] = Idle]
    BY DEF Handlers, RegisterSucceeded, RegisterFailed, LoginSucceeded, LoginFailed
  <1>3. calls'[c].phase = "idle" /\ \A d \in Calls : d # c => calls'[d].phase = calls[d].phase
    <2>1. PICK n : calls' = [calls EXCEPT ![c] = Idle] \/ calls' = [Detached(n) EXCEPT ![c] = Idle]
      BY <1>2
    <2>2. DOMAIN calls = Calls /\ DOMAIN Detached(n) = Calls
      BY DEF LowInv, CallsOK, Detached
    <2>3. Idle.phase = "idle"
      BY DEF Idle
    <2>4. \A d \in Calls : Detached(n)[d].phase = calls[d].phase
      BY DetachedPhases
    <2>. QED
      BY <2>1, <2>2, <2>3, <2>4
  <1>. QED
    BY <1>1, <1>3, QueueShrinks

LEMMA QueueNext ==
    ASSUME LowInv, AnswersAreQueued, [Next]_vars
    PROVE  AnswersAreQueued'
  <1>1. ASSUME NEW c \in Calls, Answers(c)
        PROVE  AnswersAreQueued'
    BY <1>1, QueueGrows DEF Answers, CreateOk, CreateLost, SignInOk, CallFails
  <1>2. CASE Revoke \/ UNCHANGED vars
    BY <1>2, QueueStays DEF Revoke, vars, CallVars
  <1>3. CASE Relaunch
    <2>1. mainQueue' = << >> /\ \A c \in Calls : calls'[c].phase = "idle"
      BY <1>3 DEF Relaunch, Launched, Idle
    <2>. QED
      BY <2>1 DEF AnswersAreQueued
  <1>. QED
    BY <1>1, <1>2, <1>3, QueueTaps, QueueHandlers DEF Next

\* AnswersAreQueued: no answer of Firebase Auth is left without its handler, and
\* nothing on the main queue blocks the handlers behind it.
THEOREM AnswersAreHandled == Spec => []AnswersAreQueued
  <1>1. Init => AnswersAreQueued
    BY DEF Init, Idle, AnswersAreQueued
  <1>2. AnswersAreQueued /\ LowInv /\ [Next]_vars => AnswersAreQueued'
    BY QueueNext
  <1>. QED
    BY <1>1, <1>2, LowAlways, PTL DEF Spec

-----------------------------------------------------------------------------
(* Every answer is seen                                                    *)

\* Call c stays where it is, or its screen shows that it does not.
Seen(c) ==
    LET v == calls[c].view IN
    v # 0 /\ calls'[c].view # v => Len(stack') # v \/ stack'[v].alert

\* What a handler and a tap may do: pop the screens above n.
LEMMA SeenDetached ==
    ASSUME LowInv, NEW n \in 1 .. Len(stack), Len(stack') = n, NEW c \in Calls,
           calls'[c].view = Detached(n)[c].view
    PROVE  Seen(c)
  <1>1. n \in Nat /\ calls[c].view \in Nat /\ calls \in [Calls -> CallRecords]
    BY TopFacts, SessionAssumption DEF LowInv, CallsOK, CallRecords
  <1>2. calls[c].view <= n => calls'[c].view = calls[c].view
    BY <1>1, DetachFacts
  <1>. QED
    BY <1>1, <1>2 DEF Seen

\* A call that is handled leaves its screen with an alert or below another one.
LEMMA SeenHandlers ==
    ASSUME LowInv, NEW c \in Calls, Handlers(c), NEW d \in Calls
    PROVE  Seen(d)
  <1>. DEFINE v == calls[c].view
  <1>1. /\ v \in Nat /\ Len(stack) \in Nat
        /\ v # 0 => v \in 1 .. Len(stack) /\ v \in 1 .. v
        /\ v # 0 => stack[v].kind = IF calls[c].op = "register" THEN "Register" ELSE "Login"
    <2>1. v \in Nat
      BY SessionAssumption DEF LowInv, CallsOK, CallRecords
    <2>. QED
      BY <2>1, TopFacts DEF LowInv, CallsOK, ScreensOf
  <1>2. calls \in [Calls -> CallRecords]
    BY DEF LowInv, CallsOK
  <1>. HIDE DEF v
  <1>3. ASSUME calls' = [calls EXCEPT ![c] = Idle],
               v # 0 => Len(stack') # v \/ stack'[v].alert
        PROVE  Seen(d)
    BY <1>2, <1>3 DEF Seen, v
  <1>4. CASE RegisterSucceeded(c)
    <2>. DEFINE w == NewView("Registration", calls[c].email)
    <2>1. CASE v # Len(stack)
      BY <1>3, <1>4, <2>1 DEF RegisterSucceeded, Activated, v
    <2>2. CASE v = Len(stack)
      <3>1. stack' = Append(stack, w)
        BY <1>4, <2>2 DEF RegisterSucceeded, Activated, v
      <3>2. calls[c].email \in Emails \cup {None}
        BY <1>2 DEF CallRecords
      <3>3. w \in Views
        BY <3>2, NewViewType DEF Kinds
      <3>. HIDE DEF w
      <3>4. Len(stack') = Len(stack) + 1
        BY <3>1, <3>3, TopFacts, PushFacts
      <3>5. Len(stack') # v
        BY <1>1, <2>2, <3>4
      <3>. QED
        BY <1>3, <1>4, <3>5 DEF RegisterSucceeded
    <2>. QED
      BY <2>1, <2>2
  <1>5. CASE RegisterFailed(c)
    <2>1. ASSUME v # 0 PROVE stack'[v].alert
      <3>1. stack' = [stack EXCEPT ![v] = [@ EXCEPT !.alert = TRUE, !.error = "otherError"]]
        BY <1>5, <2>1 DEF RegisterFailed, Alerted, v
      <3>2. stack[v] \in Views /\ v \in DOMAIN stack
        BY <1>1, <2>1, TopFacts, ElementOfSeq
      <3>. QED
        BY <3>1, <3>2 DEF Views
    <2>. QED
      BY <1>3, <1>5, <2>1 DEF RegisterFailed
  <1>6. CASE LoginSucceeded(c)
    <2>1. CASE v = 0
      BY <1>3, <1>6, <2>1 DEF LoginSucceeded
    <2>2. CASE v # 0
      <3>. DEFINE w == NewView("App", calls[c].email)
                  u == [stack[v] EXCEPT !.alert = FALSE]
                  s == [stack EXCEPT ![v] = u]
      <3>1. stack' = Activated(v, s, w)
        BY <1>6, <2>2 DEF LoginSucceeded, v
      <3>2. stack[v] \in Views
        BY <1>1, <2>2, TopFacts, ElementOfSeq
      <3>3. u \in Views
        BY <3>2 DEF Views
      <3>4. calls[c].email \in Emails \cup {None}
        BY <1>2 DEF CallRecords
      <3>5. w \in Views
        BY <3>4, NewViewType DEF Kinds
      <3>. HIDE DEF u, w
      <3>6. s \in Seq(Views) /\ Len(s) = Len(stack)
        BY <1>1, <2>2, <3>3, TopFacts, EditFacts
      <3>. HIDE DEF s
      <3>7. Len(Append(s, w)) = Len(s) + 1
        BY <3>5, <3>6, PushFacts
      <3>8. Len(stack') # v
        BY <1>1, <3>1, <3>6, <3>7 DEF Activated
      <3>. QED
        BY <1>3, <1>6, <3>8 DEF LoginSucceeded
    <2>. QED
      BY <2>1, <2>2
  <1>7. CASE LoginFailed(c)
    <2>1. CASE v = 0
      BY <1>3, <1>7, <2>1 DEF LoginFailed, v
    <2>2. CASE v # 0
      <3>1. /\ stack' = Alerted(v, Popped(v), "otherError")
            /\ calls' = [Detached(v) EXCEPT ![c] = Idle]
        BY <1>7, <2>2 DEF LoginFailed, v
      <3>. DEFINE s == Popped(v)
      <3>2. s \in Seq(Views) /\ Len(s) = v /\ v \in 1 .. Len(s)
        BY <1>1, <2>2, TopFacts, PopFacts
      <3>. HIDE DEF s
      <3>3. Len(stack') = v /\ stack'[v].alert
        <4>1. stack' = [s EXCEPT ![v] = [@ EXCEPT !.alert = TRUE, !.error = "otherError"]]
          BY <3>1 DEF Alerted, s
        <4>2. s[v] \in Views /\ v \in DOMAIN s
          BY <3>2, ElementOfSeq
        <4>3. Len(stack') = v
          BY <3>1, <3>2, AlertFacts DEF s, Errors
        <4>. QED
          BY <4>1, <4>2, <4>3 DEF Views
      <3>4. CASE d = c
        BY <3>3, <3>4 DEF Seen, v
      <3>5. CASE d # c
        <4>1. calls'[d].view = Detached(v)[d].view
          BY <3>1, <3>5 DEF Detached
        <4>. QED
          BY <1>1, <2>2, <3>3, <4>1, SeenDetached
      <3>. QED
        BY <3>4, <3>5
    <2>. QED
      BY <2>1, <2>2
  <1>. QED
    BY <1>4, <1>5, <1>6, <1>7 DEF Handlers

\* A launch leaves HomeView, from which no call is sent.
LEMMA SeenLaunched ==
    ASSUME LowInv, Launched, NEW c \in Calls
    PROVE  Seen(c)
  <1>1. stack[1].kind = "Home" /\ Len(stack') = 1
    BY DEF LowInv, StackOK, Launched
  <1>2. calls[c].view # 0 => stack[calls[c].view].kind \in {"Register", "Login"}
    BY DEF LowInv, CallsOK, ScreensOf
  <1>. QED
    BY <1>1, <1>2 DEF Seen

LEMMA SeenTaps ==
    ASSUME LowInv, Taps, NEW c \in Calls
    PROVE  Seen(c)
  <1>. USE DEF CallVars
  <1>1. ASSUME UNCHANGED CallVars
        PROVE  Seen(c)
    BY <1>1 DEF Seen
  <1>2. CASE Back
    <2>. DEFINE n == Len(stack) - 1
    <2>1. n \in 1 .. Len(stack) /\ stack \in Seq(Views)
      BY <1>2, TopFacts DEF Back, Ready
    <2>2. stack' = Popped(n) /\ calls' = Detached(n)
      BY <1>2 DEF Back
    <2>. HIDE DEF n
    <2>3. Len(stack') = n
      BY <2>1, <2>2, PopFacts
    <2>. QED
      BY <2>1, <2>2, <2>3, SeenDetached
  <1>3. ASSUME NEW n \in 1 .. Len(stack), CloseAlert(n)
        PROVE  Seen(c)
    <2>1. /\ stack' = [Popped(n) EXCEPT ![n] = [@ EXCEPT !.alert = FALSE, !.count = 0]]
          /\ calls' = Detached(n)
      BY <1>3 DEF CloseAlert
    <2>2. Popped(n) \in Seq(Views) /\ Len(Popped(n)) = n
      BY TopFacts, PopFacts
    <2>3. Len(stack') = n
      BY <2>1, <2>2
    <2>. QED
      BY <2>1, <2>3, SeenDetached
  <1>4. ASSUME NEW d \in Calls, NEW e \in Emails, NEW op, Send(d, op, e)
        PROVE  Seen(c)
    <2>1. calls[d].phase = "idle" /\ (c # d => calls'[c] = calls[c])
      BY <1>4 DEF Send, Outstanding, LowInv, CallsOK
    <2>2. calls[d].view = 0
      BY <2>1 DEF LowInv, CallsOK, CallOK
    <2>. QED
      BY <2>1, <2>2 DEF Seen
  <1>5. CASE storeUserDetailsAborts
    BY <1>5, SeenLaunched DEF storeUserDetailsAborts
  <1>. QED
    BY <1>1, <1>2, <1>3, <1>4, <1>5 DEF Taps, OpenSignUp, OpenSignIn, RegisterTooShort,
       RegisterMismatch, register, signIn, FormIncomplete, DismissFormAlert,
       storeUserDetails, signOut

LEMMA SeenNext ==
    ASSUME LowInv, [Next]_vars, NEW c \in Calls
    PROVE  Seen(c)
  <1>1. ASSUME NEW d \in Calls, Answers(d)
        PROVE  Seen(c)
    <2>1. PICK phase : calls' = [calls EXCEPT ![d].phase = phase]
      BY <1>1 DEF Answers, Answer, CreateOk, CreateLost, SignInOk, CallFails
    <2>2. calls'[c].view = calls[c].view
      BY <2>1 DEF LowInv, CallsOK, CallRecords
    <2>. QED
      BY <2>2 DEF Seen
  <1>2. CASE Revoke \/ UNCHANGED vars
    BY <1>2 DEF Revoke, vars, CallVars, Seen
  <1>3. CASE Relaunch
    BY <1>3, SeenLaunched DEF Relaunch
  <1>. QED
    BY <1>1, <1>2, <1>3, SeenTaps, SeenHandlers DEF Next

\* AnswersAreSeen: no handler, however late, ends a call without a sign of it on
\* the screen it was made on, unless that screen is gone or covered.
THEOREM NoAnswerIsSilent == Spec => AnswersAreSeen
  <1>1. LowInv /\ [Next]_vars =>
            [\A c \in Calls :
                LET v == calls[c].view IN
                v # 0 /\ calls'[c].view # v => Len(stack') # v \/ stack'[v].alert]_vars
    BY SeenNext DEF Seen
  <1>. QED
    BY <1>1, LowAlways, PTL DEF Spec, AnswersAreSeen

-----------------------------------------------------------------------------
(* Signed-in screens stay                                                  *)

SignedInKinds == {"Registration", "App"}

\* Screen v, where it is a signed-in one, survives the step or goes with a cause.
Stays(v) ==
    stack[v].kind \in SignedInKinds =>
        \/ /\ Len(stack') >= v
           /\ stack'[v].kind = stack[v].kind /\ stack'[v].owner = stack[v].owner
        \/ stack' = <<NewView("Home", None)>>
        \/ \E w \in 2 .. v - 1 :
                /\ Len(stack') = w
                /\ \/ stack[w].kind = "Register" /\ stack[w].alert
                   \/ stack[w].kind = "Login" /\ stack'[w].alert /\ overlap

Kept == CoveredLoginIsQuiet' /\ \A v \in 2 .. Len(stack) : Stays(v)

\* A step that keeps the lower n screens, pops the others for a cause and pushes
\* one at most.
LEMMA KeptShape ==
    ASSUME LowInv, NEW n \in 1 .. Len(stack),
           Len(stack') \in Nat, Len(stack') \in {n, n + 1},
           \A i \in 1 .. n :
                stack'[i].kind = stack[i].kind /\ stack'[i].owner = stack[i].owner,
           \A i \in 1 .. n : stack'[i].kind = "Login" /\ i < Len(stack') => ~stack'[i].alert,
           \/ n = Len(stack)
           \/ n = Len(stack) - 1 /\ Top.kind \notin SignedInKinds
           \/ /\ Len(stack') = n /\ n # 1
              /\ \/ stack[n].kind = "Register" /\ stack[n].alert
                 \/ stack[n].kind = "Login" /\ stack'[n].alert /\ overlap
    PROVE  Kept
  <1>1. n \in Nat /\ Len(stack) \in Nat
    BY TopFacts
  <1>2. CoveredLoginIsQuiet'
    <2>1. \A i \in 1 .. Len(stack') - 1 : i \in 1 .. n /\ i < Len(stack')
      BY <1>1
    <2>. QED
      BY <2>1 DEF CoveredLoginIsQuiet
  <1>3. ASSUME NEW v \in 2 .. Len(stack)
        PROVE  Stays(v)
    <2>1. CASE v <= n
      <3>1. v \in 1 .. n /\ Len(stack') >= v
        BY <1>1, <2>1
      <3>. QED
        BY <3>1 DEF Stays
    <2>2. CASE v > n
      <3>1. CASE n = Len(stack) - 1 /\ Top.kind \notin SignedInKinds
        <4>1. v = Len(stack)
          BY <1>1, <2>2, <3>1
        <4>. QED
          BY <3>1, <4>1 DEF Stays, Top
      <3>2. CASE /\ Len(stack') = n /\ n # 1
                 /\ \/ stack[n].kind = "Register" /\ stack[n].alert
                    \/ stack[n].kind = "Login" /\ stack'[n].alert /\ overlap
        <4>1. n \in 2 .. v - 1
          BY <1>1, <2>2, <3>2
        <4>. QED
          BY <3>2, <4>1 DEF Stays
      <3>3. n # Len(stack)
        BY <1>1, <2>2
      <3>. QED
        BY <3>1, <3>2, <3>3
    <2>. QED
      BY <1>1, <2>1, <2>2
  <1>. QED
    BY <1>2, <1>3 DEF Kept

LEMMA KeptSame ==
    ASSUME LowInv, CoveredLoginIsQuiet, stack' = stack
    PROVE  Kept
  <1>1. \A i \in 1 .. Len(stack) : stack[i].kind = "Login" /\ i < Len(stack) => ~stack[i].alert
    BY TopFacts DEF CoveredLoginIsQuiet
  <1>. QED
    BY <1>1, TopFacts, KeptShape

\* A push onto a screen that is not a sign-in screen with an alert.
LEMMA KeptPush ==
    ASSUME LowInv, CoveredLoginIsQuiet, NEW w \in Views, stack' = Append(stack, w),
           Top.kind = "Login" => ~Top.alert
    PROVE  Kept
  <1>1. /\ Len(stack') = Len(stack) + 1
        /\ \A i \in 1 .. Len(stack) : stack'[i] = stack[i]
    BY TopFacts, PushFacts
  <1>2. \A i \in 1 .. Len(stack) : stack[i].kind = "Login" => ~stack[i].alert
    <2>1. \A i \in 1 .. Len(stack) : i \in 1 .. Len(stack) - 1 \/ i = Len(stack)
      BY TopFacts
    <2>. QED
      BY <2>1 DEF CoveredLoginIsQuiet, Top
  <1>. QED
    BY <1>1, <1>2, TopFacts, KeptShape

\* A change of one screen that raises no alert on a covered sign-in screen.
LEMMA KeptEdit ==
    ASSUME LowInv, CoveredLoginIsQuiet, NEW v \in 1 .. Len(stack), NEW w \in Views,
           stack' = [stack EXCEPT ![v] = w],
           w.kind = stack[v].kind, w.owner = stack[v].owner,
           w.kind = "Login" /\ v # Len(stack) => ~w.alert
    PROVE  Kept
  <1>1. /\ Len(stack') = Len(stack) /\ stack'[v] = w
        /\ \A i \in 1 .. Len(stack) : i # v => stack'[i] = stack[i]
    BY TopFacts, EditFacts
  <1>2. \A i \in 1 .. Len(stack) :
            stack'[i].kind = stack[i].kind /\ stack'[i].owner = stack[i].owner
    BY <1>1
  <1>3. \A i \in 1 .. Len(stack) :
            stack'[i].kind = "Login" /\ i < Len(stack) => ~stack'[i].alert
    <2>1. \A i \in 1 .. Len(stack) : i < Len(stack) => i \in 1 .. Len(stack) - 1 /\ i # Len(stack)
      BY TopFacts
    <2>. QED
      BY <1>1, <2>1 DEF CoveredLoginIsQuiet
  <1>. QED
    BY <1>1, <1>2, <1>3, TopFacts, KeptShape

\* The screens above n go and the one then on top may change.
LEMMA KeptPop ==
    ASSUME LowInv, CoveredLoginIsQuiet, NEW n \in 1 .. Len(stack),
           Len(stack') = n, \A i \in 1 .. n : i # n => stack'[i] = stack[i],
           stack'[n].kind = stack[n].kind, stack'[n].owner = stack[n].owner,
           \/ n = Len(stack)
           \/ n = Len(stack) - 1 /\ Top.kind \notin SignedInKinds
           \/ stack[n].kind = "Register" /\ stack[n].alert
           \/ stack[n].kind = "Login" /\ stack'[n].alert /\ overlap
    PROVE  Kept
  <1>1. n \in Nat /\ Len(stack) \in Nat /\ stack[1].kind = "Home"
    BY TopFacts DEF LowInv, StackOK
  <1>2. \A i \in 1 .. n : i < n => i \in 1 .. Len(stack) - 1 /\ i # n
    BY <1>1
  <1>3. \A i \in 1 .. n :
            stack'[i].kind = stack[i].kind /\ stack'[i].owner = stack[i].owner
    OBVIOUS
  <1>4. \A i \in 1 .. n : stack'[i].kind = "Login" /\ i < Len(stack') => ~stack'[i].alert
    BY <1>2 DEF CoveredLoginIsQuiet
  <1>5. n = 1 => stack[n].kind \notin {"Register", "Login"}
    BY <1>1
  <1>. QED
    BY <1>1, <1>3, <1>4, <1>5, KeptShape

LEMMA KeptLaunched ==
    ASSUME Launched
    PROVE  Kept
  <1>1. Len(stack') = 1 /\ stack' = <<NewView("Home", None)>>
    BY DEF Launched
  <1>. QED
    BY <1>1 DEF Kept, CoveredLoginIsQuiet, Stays

LEMMA KeptAlert ==
    ASSUME LowInv, CoveredLoginIsQuiet, NEW v \in 1 .. Len(stack), NEW error \in Errors,
           stack' = Alerted(v, stack, error), stack[v].kind = "Login" => v = Len(stack)
    PROVE  Kept
  <1>. DEFINE w == [stack[v] EXCEPT !.alert = TRUE, !.error = error]
  <1>1. stack[v] \in Views
    BY TopFacts, ElementOfSeq
  <1>2. w \in Views /\ w.kind = stack[v].kind /\ w.owner = stack[v].owner
    BY <1>1 DEF Views
  <1>3. stack' = [stack EXCEPT ![v] = w]
    BY DEF Alerted
  <1>. HIDE DEF w
  <1>. QED
    BY <1>2, <1>3, KeptEdit

LEMMA KeptTaps ==
    ASSUME LowInv, CoveredLoginIsQuiet, Taps
    PROVE  Kept
  <1>0. /\ stack \in Seq(Views) /\ Len(stack) \in Nat /\ Len(stack) \in 1 .. Len(stack)
        /\ Top \in Views /\ Top = stack[Len(stack)]
        /\ Top.owner \in Emails \cup {None}
    BY TopFacts DEF Top
  <1>1. ASSUME NEW kind \in Kinds, NEW owner \in Emails \cup {None},
               stack' = Append(stack, NewView(kind, owner)), Top.kind # "Login"
        PROVE  Kept
    BY <1>1, NewViewType, KeptPush
  <1>2. CASE OpenSignUp \/ OpenSignIn \/ signOut
    <2>1. PICK kind \in Kinds : stack' = Append(stack, NewView(kind, None))
      BY <1>2 DEF OpenSignUp, OpenSignIn, signOut, Kinds
    <2>2. Top.kind # "Login"
      BY <1>2 DEF OpenSignUp, OpenSignIn, signOut, Ready
    <2>. QED
      BY <1>1, <2>1, <2>2
  <1>3. CASE storeUserDetails
    BY <1>0, <1>1, <1>3 DEF storeUserDetails, Ready, Kinds
  <1>4. CASE Back
    <2>. DEFINE n == Len(stack) - 1
    <2>1. /\ n \in 1 .. Len(stack)
          /\ stack' = Popped(n)
          /\ Top.kind \notin SignedInKinds
      BY <1>4, TopFacts DEF Back, Ready, SignedInKinds
    <2>2. n = Len(stack) - 1
      OBVIOUS
    <2>. HIDE DEF n
    <2>3. n \in 1 .. n /\ Len(stack') = n /\ \A i \in 1 .. n : stack'[i] = stack[i]
      BY <1>0, <2>1, PopFacts
    <2>. QED
      BY <2>1, <2>2, <2>3, KeptPop
  <1>5. ASSUME NEW n \in PasswordCounts, RegisterTooShort(n) \/ RegisterMismatch(n)
        PROVE  Kept
    <2>. DEFINE l == Len(stack)
                w == [Top EXCEPT !.count = n]
                s == [stack EXCEPT ![l] = w]
    <2>1. PICK error \in Errors : stack' = Alerted(l, s, error)
      BY <1>5 DEF RegisterTooShort, RegisterMismatch, Errors, Top
    <2>2. w \in Views /\ w.kind = Top.kind /\ w.owner = Top.owner
      BY <1>0 DEF Views
    <2>3. l \in 1 .. Len(stack) /\ l = Len(stack) /\ stack[l] = Top
      BY <1>0
    <2>. HIDE DEF w, l
    <2>4. /\ s \in Seq(Views) /\ Len(s) = Len(stack) /\ s[l] = w
          /\ \A i \in 1 .. Len(stack) : i # l => s[i] = stack[i]
      BY <1>0, <2>2, <2>3, EditFacts
    <2>. HIDE DEF s
    <2>5. /\ Len(stack') = Len(s)
          /\ stack'[l].kind = s[l].kind /\ stack'[l].owner = s[l].owner
          /\ \A i \in 1 .. Len(s) : i # l => stack'[i] = s[i]
      BY <2>1, <2>3, <2>4, AlertFacts
    <2>6. /\ Len(stack') = l /\ \A i \in 1 .. l : i # l => stack'[i] = stack[i]
          /\ stack'[l].kind = stack[l].kind /\ stack'[l].owner = stack[l].owner
      BY <2>2, <2>3, <2>4, <2>5
    <2>. QED
      BY <2>3, <2>6, KeptPop
  <1>6. ASSUME NEW c \in Calls, NEW e \in Emails, NEW n \in PasswordCounts, register(c, e, n)
        PROVE  Kept
    <2>. DEFINE w == [Top EXCEPT !.count = n]
    <2>1. stack' = [stack EXCEPT ![Len(stack)] = w]
      BY <1>6 DEF register, Top
    <2>2. w \in Views /\ w.kind = Top.kind /\ w.owner = Top.owner
      BY <1>0 DEF Views
    <2>. HIDE DEF w
    <2>. QED
      BY <1>0, <2>1, <2>2, KeptEdit
  <1>7. ASSUME NEW c \in Calls, NEW e \in Emails, signIn(c, e)
        PROVE  Kept
    BY <1>7, KeptSame DEF signIn
  <1>8. ASSUME NEW v \in 1 .. Len(stack), CloseAlert(v)
        PROVE  Kept
    <2>. DEFINE s == Popped(v)
                w == [s[v] EXCEPT !.alert = FALSE, !.count = 0]
    <2>1. stack' = [s EXCEPT ![v] = w] /\ stack[v].alert /\ stack[v].kind \in {"Register", "Login"}
      BY <1>8 DEF CloseAlert
    <2>2. /\ s \in Seq(Views) /\ Len(s) = v /\ v \in 1 .. v /\ v \in 1 .. Len(s)
          /\ \A i \in 1 .. v : s[i] = stack[i]
      BY <1>0, PopFacts
    <2>. HIDE DEF s
    <2>3. s[v] \in Views
      BY <2>2, ElementOfSeq
    <2>4. w \in Views /\ w.kind = s[v].kind /\ w.owner = s[v].owner
      BY <2>3 DEF Views
    <2>. HIDE DEF w
    <2>5. /\ Len(stack') = v /\ stack'[v] = w
          /\ \A i \in 1 .. v : i # v => stack'[i] = s[i]
      BY <2>1, <2>2, <2>4, EditFacts
    <2>6. /\ \A i \in 1 .. v : i # v => stack'[i] = stack[i]
          /\ stack'[v].kind = stack[v].kind /\ stack'[v].owner = stack[v].owner
      BY <2>2, <2>4, <2>5
    <2>7. stack[v].kind = "Login" => v = Len(stack)
      BY <1>0, <2>1 DEF CoveredLoginIsQuiet
    <2>. QED
      BY <2>1, <2>5, <2>6, <2>7, KeptPop
  <1>9. ASSUME NEW username \in BOOLEAN, NEW firstName \in BOOLEAN, FormIncomplete(username, firstName)
        PROVE  Kept
    <2>1. PICK error \in Errors : stack' = Alerted(Len(stack), stack, error)
      BY <1>9 DEF FormIncomplete, Errors
    <2>. QED
      BY <1>0, <2>1, KeptAlert
  <1>10. CASE DismissFormAlert
    <2>. DEFINE w == [Top EXCEPT !.alert = FALSE]
    <2>1. stack' = [stack EXCEPT ![Len(stack)] = w]
      BY <1>10 DEF DismissFormAlert, Top
    <2>2. w \in Views /\ w.kind = Top.kind /\ w.owner = Top.owner
      BY <1>0 DEF Views
    <2>. HIDE DEF w
    <2>. QED
      BY <1>0, <2>1, <2>2, KeptEdit
  <1>11. CASE storeUserDetailsAborts
    BY <1>11, KeptLaunched DEF storeUserDetailsAborts
  <1>. QED
    BY <1>2, <1>3, <1>4, <1>5, <1>6, <1>7, <1>8, <1>9, <1>10, <1>11 DEF Taps

\* A handler takes nothing away but what lies over a sign-in screen whose failure
\* comes late, and then calls have overlapped.
LEMMA KeptHandlers ==
    ASSUME LowInv, CoveredLoginIsQuiet, CallerIsOnTop, NEW c \in Calls, Handlers(c)
    PROVE  Kept
  <1>. DEFINE v == calls[c].view
              owner == calls[c].email
  <1>1. /\ v # 0 => v \in 1 .. Len(stack) /\ v \in 1 .. v
        /\ v # 0 => stack[v].kind = IF calls[c].op = "register" THEN "Register" ELSE "Login"
        /\ owner \in Emails \cup {None}
        /\ ~overlap => v \in {0, Len(stack)}
    <2>1. v \in Nat /\ owner \in Emails \cup {None}
      BY SessionAssumption DEF LowInv, CallsOK, CallRecords
    <2>. QED
      BY <2>1, TopFacts DEF LowInv, CallsOK, ScreensOf, CallerIsOnTop
  <1>2. /\ stack \in Seq(Views) /\ Len(stack) \in Nat /\ Len(stack) \in 1 .. Len(stack)
        /\ Top = stack[Len(stack)]
    BY TopFacts DEF Top
  <1>. HIDE DEF v, owner
  <1>3. CASE RegisterSucceeded(c)
    <2>1. /\ stack' = Activated(v, stack, NewView("Registration", owner))
          /\ calls[c].op = "register"
      BY <1>3 DEF RegisterSucceeded, Handles, v, owner
    <2>2. CASE v = Len(stack)
      <3>1. stack' = Append(stack, NewView("Registration", owner)) /\ Top.kind = "Register"
        BY <1>1, <1>2, <2>1, <2>2 DEF Activated
      <3>2. NewView("Registration", owner) \in Views
        BY <1>1, NewViewType DEF Kinds
      <3>. QED
        BY <3>1, <3>2, KeptPush
    <2>3. CASE v # Len(stack)
      BY <2>1, <2>3, KeptSame DEF Activated
    <2>. QED
      BY <2>2, <2>3
  <1>4. CASE RegisterFailed(c)
    <2>1. CASE v = 0
      BY <1>4, <2>1, KeptSame DEF RegisterFailed, v
    <2>2. CASE v # 0
      <3>1. stack' = Alerted(v, stack, "otherError") /\ calls[c].op = "register"
        BY <1>4, <2>2 DEF RegisterFailed, Handles, v
      <3>. QED
        BY <1>1, <2>2, <3>1, KeptAlert DEF Errors
    <2>. QED
      BY <2>1, <2>2
  <1>5. CASE LoginSucceeded(c)
    <2>1. CASE v = 0
      BY <1>5, <2>1, KeptSame DEF LoginSucceeded, v
    <2>2. CASE v # 0
      <3>. DEFINE w == NewView("App", owner)
                  u == [stack[v] EXCEPT !.alert = FALSE]
                  s == [stack EXCEPT ![v] = u]
      <3>1. stack' = Activated(v, s, w)
        BY <1>5, <2>2 DEF LoginSucceeded, v, owner
      <3>2. stack[v] \in Views /\ v \in 1 .. Len(stack)
        BY <1>1, <2>2, TopFacts, ElementOfSeq
      <3>3. /\ u \in Views /\ u.kind = stack[v].kind /\ u.owner = stack[v].owner
            /\ u.alert = FALSE
        BY <3>2 DEF Views
      <3>4. w \in Views
        BY <1>1, NewViewType DEF Kinds
      <3>. HIDE DEF u, w
      <3>5. /\ s \in Seq(Views) /\ Len(s) = Len(stack) /\ s[v] = u
            /\ \A i \in 1 .. Len(stack) : i # v => s[i] = stack[i]
        BY <1>2, <3>2, <3>3, EditFacts
      <3>6. CASE v # Len(stack)
        <4>1. stack' = [stack EXCEPT ![v] = u]
          BY <3>1, <3>5, <3>6 DEF Activated
        <4>. QED
          BY <3>2, <3>3, <4>1, KeptEdit
      <3>. HIDE DEF s
      <3>7. CASE v = Len(stack)
        <4>1. stack' = Append(s, w)
          BY <3>1, <3>5, <3>7 DEF Activated
        <4>2. /\ Len(stack') = Len(stack) + 1
              /\ \A i \in 1 .. Len(stack) : stack'[i] = s[i]
          BY <3>4, <3>5, <4>1, PushFacts
        <4>3. \A i \in 1 .. Len(stack) :
                  /\ stack'[i].kind = stack[i].kind /\ stack'[i].owner = stack[i].owner
                  /\ i = v => ~stack'[i].alert
                  /\ i # v => stack'[i] = stack[i]
          BY <3>3, <3>5, <4>2
        <4>4. \A i \in 1 .. Len(stack) : i # v => i \in 1 .. Len(stack) - 1
          BY <1>2, <3>7
        <4>5. \A i \in 1 .. Len(stack) : stack'[i].kind = "Login" => ~stack'[i].alert
          BY <4>3, <4>4 DEF CoveredLoginIsQuiet
        <4>. QED
          BY <1>2, <4>2, <4>3, <4>5, KeptShape
      <3>. QED
        BY <3>6, <3>7
    <2>. QED
      BY <2>1, <2>2
  <1>6. CASE LoginFailed(c)
    <2>1. CASE v = 0
      BY <1>6, <2>1, KeptSame DEF LoginFailed, v
    <2>2. CASE v # 0
      <3>. DEFINE s == Popped(v)
                  w == [s[v] EXCEPT !.alert = TRUE, !.error = "otherError"]
      <3>1. stack' = [s EXCEPT ![v] = w] /\ calls[c].op = "signIn"
        BY <1>6, <2>2 DEF LoginFailed, Handles, Alerted, v
      <3>2. /\ s \in Seq(Views) /\ Len(s) = v /\ v \in 1 .. Len(s) /\ v \in 1 .. Len(stack)
            /\ \A i \in 1 .. v : s[i] = stack[i]
        BY <1>1, <1>2, <2>2, PopFacts
      <3>. HIDE DEF s
      <3>3. s[v] \in Views
        BY <3>2, ElementOfSeq
      <3>4. w \in Views /\ w.kind = s[v].kind /\ w.owner = s[v].owner /\ w.alert
        BY <3>3 DEF Views, Errors
      <3>. HIDE DEF w
      <3>5. /\ Len(stack') = v /\ stack'[v] = w
            /\ \A i \in 1 .. v : i # v => stack'[i] = s[i]
        BY <3>1, <3>2, <3>4, EditFacts
      <3>6. /\ \A i \in 1 .. v : i # v => stack'[i] = stack[i]
            /\ stack'[v].kind = stack[v].kind /\ stack'[v].owner = stack[v].owner
            /\ stack'[v].alert /\ stack[v].kind = "Login"
        BY <1>1, <2>2, <3>1, <3>2, <3>4, <3>5
      <3>7. v = Len(stack) \/ overlap
        BY <1>1, <2>2
      <3>. QED
        BY <3>2, <3>5, <3>6, <3>7, KeptPop
    <2>. QED
      BY <2>1, <2>2
  <1>. QED
    BY <1>3, <1>4, <1>5, <1>6 DEF Handlers

LEMMA KeptNext ==
    ASSUME LowInv, CoveredLoginIsQuiet, CallerIsOnTop, [Next]_vars
    PROVE  Kept
  <1>1. ASSUME NEW c \in Calls, Answers(c)
        PROVE  Kept
    BY <1>1, KeptSame DEF Answers, CreateOk, CreateLost, SignInOk, CallFails
  <1>2. CASE Revoke \/ UNCHANGED vars
    BY <1>2, KeptSame DEF Revoke, vars
  <1>3. CASE Relaunch
    BY <1>3, KeptLaunched DEF Relaunch
  <1>. QED
    BY <1>1, <1>2, <1>3, KeptTaps, KeptHandlers DEF Next

\* A call keeps the screen on top, or loses its screen.
OnTop(c) == calls'[c].view \in {0, Len(stack')}

LEMMA OnTopPush ==
    ASSUME LowInv, CallerIsOnTop, ~overlap, NEW c \in Calls, calls'[c] = calls[c],
           Top.kind \notin {"Register", "Login"}
    PROVE  OnTop(c)
  <1>1. calls[c].view \in {0, Len(stack)}
    BY DEF CallerIsOnTop
  <1>2. calls[c].view # 0 => stack[calls[c].view].kind \in {"Register", "Login"}
    BY DEF LowInv, CallsOK, ScreensOf
  <1>. QED
    BY <1>1, <1>2 DEF OnTop, Top

LEMMA OnTopSame ==
    ASSUME LowInv, CallerIsOnTop, ~overlap, NEW c \in Calls,
           calls'[c].view = calls[c].view, Len(stack') = Len(stack)
    PROVE  OnTop(c)
  BY DEF CallerIsOnTop, OnTop

LEMMA OnTopDetached ==
    ASSUME LowInv, CallerIsOnTop, ~overlap, NEW n \in 1 .. Len(stack), Len(stack') = n,
           NEW c \in Calls, calls'[c].view = Detached(n)[c].view
    PROVE  OnTop(c)
  <1>1. n \in Nat /\ Len(stack) \in Nat /\ calls[c].view \in {0, Len(stack)}
    BY TopFacts DEF CallerIsOnTop
  <1>2. calls'[c].view = IF calls[c].view > n THEN 0 ELSE calls[c].view
    BY <1>1, DetachFacts DEF LowInv, CallsOK
  <1>. QED
    BY <1>1, <1>2 DEF OnTop

LEMMA OnTopTaps ==
    ASSUME LowInv, CallerIsOnTop, ~overlap, Taps, NEW c \in Calls
    PROVE  OnTop(c)
  <1>. USE DEF CallVars
  <1>0. stack \in Seq(Views) /\ Len(stack) \in 1 .. Len(stack) /\ Top \in Views
    BY TopFacts
  <1>1. ASSUME UNCHANGED CallVars, Top.kind \notin {"Register", "Login"}
        PROVE  OnTop(c)
    BY <1>1, OnTopPush
  <1>2. CASE Back
    <2>. DEFINE n == Len(stack) - 1
    <2>1. n \in 1 .. Len(stack)
      BY <1>2, TopFacts DEF Back, Ready
    <2>2. stack' = Popped(n) /\ calls' = Detached(n)
      BY <1>2 DEF Back
    <2>. HIDE DEF n
    <2>3. Len(stack') = n
      BY <1>0, <2>1, <2>2, PopFacts
    <2>. QED
      BY <2>1, <2>2, <2>3, OnTopDetached
  <1>3. ASSUME NEW n \in 1 .. Len(stack), CloseAlert(n)
        PROVE  OnTop(c)
    <2>1. /\ stack' = [Popped(n) EXCEPT ![n] = [@ EXCEPT !.alert = FALSE, !.count = 0]]
          /\ calls' = Detached(n)
      BY <1>3 DEF CloseAlert
    <2>2. Popped(n) \in Seq(Views) /\ Len(Popped(n)) = n
      BY <1>0, PopFacts
    <2>3. Len(stack') = n
      BY <2>1, <2>2
    <2>. QED
      BY <2>1, <2>3, OnTopDetached
  <1>4. ASSUME NEW d \in Calls, NEW e \in Emails, NEW op, Send(d, op, e), Len(stack') = Len(stack)
        PROVE  OnTop(c)
    <2>1. calls' = [calls EXCEPT ![d] = [op |-> op, email |-> e,
                                         view |-> Len(stack), phase |-> "sent"]]
      BY <1>4 DEF Send
    <2>2. calls \in [Calls -> CallRecords]
      BY DEF LowInv, CallsOK
    <2>3. CASE c = d
      BY <1>4, <2>1, <2>2, <2>3 DEF OnTop
    <2>4. CASE c # d
      BY <1>4, <2>1, <2>4, OnTopSame
    <2>. QED
      BY <2>3, <2>4
  <1>5. ASSUME NEW w, NEW l, stack' = [stack EXCEPT ![l] = w]
        PROVE  Len(stack') = Len(stack)
    BY <1>0, <1>5
  <1>6. ASSUME NEW n \in PasswordCounts, RegisterTooShort(n) \/ RegisterMismatch(n)
        PROVE  OnTop(c)
    <2>1. Len(stack') = Len(stack) /\ calls' = calls
      <3>. DEFINE w == [stack[Len(stack)] EXCEPT !.count = n]
                  s == [stack EXCEPT ![Len(stack)] = w]
      <3>1. PICK u : stack' = [s EXCEPT ![Len(stack)] = u]
        BY <1>6 DEF RegisterTooShort, RegisterMismatch, Alerted
      <3>2. w \in Views
        BY <1>0 DEF Views, Top
      <3>. HIDE DEF w
      <3>3. s \in Seq(Views) /\ Len(s) = Len(stack)
        BY <1>0, <3>2, EditFacts
      <3>. QED
        BY <1>6, <3>1, <3>3 DEF RegisterTooShort, RegisterMismatch
    <2>. QED
      BY <2>1, OnTopSame
  <1>7. ASSUME NEW d \in Calls, NEW e \in Emails, NEW n \in PasswordCounts, register(d, e, n)
        PROVE  OnTop(c)
    BY <1>4, <1>5, <1>7 DEF register
  <1>8. ASSUME NEW d \in Calls, NEW e \in Emails, signIn(d, e)
        PROVE  OnTop(c)
    BY <1>4, <1>8 DEF signIn
  <1>9. CASE storeUserDetailsAborts
    BY <1>9 DEF storeUserDetailsAborts, Launched, Idle, OnTop
  <1>. QED
    BY <1>1, <1>2, <1>3, <1>6, <1>7, <1>8, <1>9 DEF Taps, OpenSignUp, OpenSignIn, Ready,
       FormIncomplete, DismissFormAlert, storeUserDetails, signOut

\* A handler that pushes or pops is that of the only call.
LEMMA OnTopHandlers ==
    ASSUME LowInv, OneCall, CallerIsOnTop, ~overlap, NEW d \in Calls, Handlers(d), NEW c \in Calls
    PROVE  OnTop(c)
  <1>. DEFINE v == calls[d].view
  <1>1. calls \in [Calls -> CallRecords] /\ v \in {0, Len(stack)} /\ v \in Nat
    BY SessionAssumption DEF LowInv, CallsOK, CallerIsOnTop, CallRecords
  <1>2. c # d => calls[c].view = 0
    <2>1. calls[d].phase # "idle"
      BY DEF Handlers, RegisterSucceeded, RegisterFailed, LoginSucceeded, LoginFailed, Handles
    <2>2. c # d => calls[c].phase = "idle"
      BY <2>1 DEF OneCall, Outstanding
    <2>. QED
      BY <2>2 DEF LowInv, CallsOK, CallOK
  <1>3. ASSUME calls' = [calls EXCEPT ![d] = Idle]
        PROVE  OnTop(c)
    BY <1>1, <1>2, <1>3 DEF OnTop, Idle
  <1>4. ASSUME calls' = [Detached(v) EXCEPT ![d] = Idle]
        PROVE  OnTop(c)
    <2>1. /\ Detached(v) \in [Calls -> CallRecords]
          /\ Detached(v)[c].view = IF calls[c].view > v THEN 0 ELSE calls[c].view
      BY <1>1, DetachFacts
    <2>. HIDE DEF v
    <2>2. calls'[c].view = 0
      BY <1>1, <1>2, <1>4, <2>1 DEF Idle
    <2>. QED
      BY <2>2 DEF OnTop
  <1>. QED
    BY <1>3, <1>4 DEF Handlers, RegisterSucceeded, RegisterFailed, LoginSucceeded, LoginFailed

LEMMA OnTopNext ==
    ASSUME LowInv, HighInv, CallerIsOnTop, [Next]_vars
    PROVE  CallerIsOnTop'
  <1>. SUFFICES ASSUME ~overlap', NEW c \in Calls
                PROVE  OnTop(c)
    BY DEF CallerIsOnTop, OnTop
  <1>1. ~overlap
    BY DEF Next, Taps, Answers, Handlers, vars, CallVars, OpenSignUp, OpenSignIn, Back,
       RegisterTooShort, RegisterMismatch, register, signIn, Send, CloseAlert,
       FormIncomplete, DismissFormAlert, storeUserDetails, storeUserDetailsAborts, signOut,
       CreateOk, CreateLost, SignInOk, CallFails, RegisterSucceeded, RegisterFailed,
       LoginSucceeded, LoginFailed, Revoke, Relaunch
  <1>2. OneCall
    BY <1>1 DEF HighInv, Serial
  <1>3. ASSUME NEW d \in Calls, Answers(d)
        PROVE  OnTop(c)
    <2>1. PICK phase : calls' = [calls EXCEPT ![d].phase = phase] /\ stack' = stack
      BY <1>3 DEF Answers, Answer, CreateOk, CreateLost, SignInOk, CallFails
    <2>2. calls'[c].view = calls[c].view
      BY <2>1 DEF LowInv, CallsOK, CallRecords
    <2>. QED
      BY <1>1, <2>1, <2>2, OnTopSame
  <1>4. CASE Revoke \/ UNCHANGED vars
    BY <1>1, <1>4, OnTopSame DEF Revoke, vars, CallVars
  <1>5. CASE Relaunch
    BY <1>5 DEF Relaunch, Launched, Idle, OnTop
  <1>. QED
    BY <1>1, <1>2, <1>3, <1>4, <1>5, OnTopTaps, OnTopHandlers DEF Next

\* SignedInStays: no handler, tap or end of a session takes a signed-in screen
\* away, but for the causes it names.
THEOREM SignedInScreensStay == Spec => SignedInStays
  <1>1. Init => CoveredLoginIsQuiet /\ CallerIsOnTop
    BY DEF Init, CoveredLoginIsQuiet, CallerIsOnTop, Idle
  <1>2. LowInv /\ HighInv /\ CoveredLoginIsQuiet /\ CallerIsOnTop /\ [Next]_vars
            => CoveredLoginIsQuiet' /\ CallerIsOnTop'
    BY KeptNext, OnTopNext DEF Kept
  <1>3. LowInv /\ CoveredLoginIsQuiet /\ CallerIsOnTop /\ [Next]_vars
            => [\A v \in 2 .. Len(stack) : stack[v].kind \in {"Registration", "App"} =>
                  \/ /\ Len(stack') >= v
                     /\ stack'[v].kind = stack[v].kind /\ stack'[v].owner = stack[v].owner
                  \/ stack' = <<NewView("Home", None)>>
                  \/ \E w \in 2 .. v - 1 :
                          /\ Len(stack') = w
                          /\ \/ stack[w].kind = "Register" /\ stack[w].alert
                             \/ stack[w].kind = "Login" /\ stack'[w].alert /\ overlap]_vars
    BY KeptNext DEF Kept, Stays, SignedInKinds
  <1>4. Spec => []HighInv
    BY HighInit, HighStep, LowAlways, PTL DEF Spec
  <1>. QED
    BY <1>1, <1>2, <1>3, <1>4, LowAlways, PTL DEF Spec, SignedInStays

=============================================================================
