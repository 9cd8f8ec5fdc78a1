------------------------------- MODULE Outbox -------------------------------
(***************************************************************************)
(* What the Firestore client promises about the writes of an app that      *)
(* keeps losing its network, its user and its life: the writes of one      *)
(* account reach the server in the order they were made and are settled in *)
(* that order; none is given up before the server has seen it; and one     *)
(* that is reported as done stands after everything written before it,     *)
(* however often the earlier writes had to be sent.  The one thing it      *)
(* cannot promise: a request of a call it gave up may still be under way,  *)
(* and the server may take it at any time.                                 *)
(***************************************************************************)
EXTENDS Naturals, Sequences

CONSTANT Owners  \* accounts; the signed-out user is one of them

VARIABLES
    writes,  \* every write ever made, the n-th being batch n
    clock    \* counts what the server applies

vars == <<writes, clock>>

\* stamp: when the server last applied the write, 0 if it never did; late: it did
\* so at a request the client had given up.
Writes ==
    [owner : Owners, outcome : {"open", "ok", "failed"}, stamp : Nat, refused : BOOLEAN,
     late : BOOLEAN]

\* The writes of b's account made before b.
Before(b) == {a \in 1..(b - 1) : writes[a].owner = writes[b].owner}

Seen(b) == writes[b].stamp > 0 \/ writes[b].refused

Settled(b) == writes[b].outcome # "open"

Init == writes = <<>> /\ clock = 0

Write(o) ==
    /\ writes' = Append(writes, [owner |-> o, outcome |-> "open", stamp |-> 0,
                                 refused |-> FALSE, late |-> FALSE])
    /\ UNCHANGED clock

InTurn(b) == \A a \in Before(b) : Settled(a) \/ Seen(a)

\* Possibly once more. Only a request that was given up comes after the settlement.
Apply(b, late) ==
    /\ ~Settled(b) \/ late
    /\ InTurn(b)
    /\ writes' = [writes EXCEPT ![b] = [@ EXCEPT !.stamp = clock + 1, !.late = late]]
    /\ clock' = clock + 1

Refuse(b) ==
    /\ InTurn(b)
    /\ writes' = [writes EXCEPT ![b] = [@ EXCEPT !.refused = TRUE]]
    /\ UNCHANGED clock

Succeed(b) ==
    /\ ~Settled(b)
    /\ writes[b].stamp > 0
    /\ \A a \in Before(b) : Settled(a) /\ (writes[a].stamp < writes[b].stamp \/ writes[a].late)
    /\ writes' = [writes EXCEPT ![b] = [@ EXCEPT !.outcome = "ok"]]
    /\ UNCHANGED clock

Fail(b) ==
    /\ ~Settled(b)
    /\ Seen(b)
    /\ \A a \in Before(b) : Settled(a)
    /\ writes' = [writes EXCEPT ![b] = [@ EXCEPT !.outcome = "failed"]]
    /\ UNCHANGED clock

Next ==
    \/ \E o \in Owners : Write(o)
    \/ \E b \in DOMAIN writes :
            Apply(b, TRUE) \/ Apply(b, FALSE) \/ Refuse(b) \/ Succeed(b) \/ Fail(b)

Spec == Init /\ [][Next]_vars

-----------------------------------------------------------------------------
(* What follows of it                                                      *)

\* The writes of an account are settled in the order they were made.
SettledInOrder ==
    \A b \in DOMAIN writes : Settled(b) => \A a \in Before(b) : Settled(a)

\* Once a write is settled its outcome stands, and the client does not make the
\* server apply it again: only a request given up before can.
SettledForGood ==
    [][\A b \in DOMAIN writes : Settled(b) =>
            /\ b \in DOMAIN writes'
            /\ writes'[b].owner = writes[b].owner
            /\ writes'[b].outcome = writes[b].outcome
            /\ writes'[b].stamp # writes[b].stamp => writes'[b].late]_vars

=============================================================================
