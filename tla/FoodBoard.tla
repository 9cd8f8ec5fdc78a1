----------------------------- MODULE FoodBoard -----------------------------
(***************************************************************************)
(* What submitting food promises, without sheets, queries and callbacks:   *)
(* each accepted submission has one author and is then either posted once, *)
(* under that author, or lost.  A post stays.                              *)
(***************************************************************************)
EXTENDS Naturals, Sequences

CONSTANTS Users, Taps, None

VARIABLES
    author,  \* tap -> who submitted, None if nobody did yet
    board,   \* the posts, pairs of a tap and the author it is posted under, in order
    lost     \* the taps that will never be posted

vars == <<author, board, lost>>

Posted(t) == \E i \in 1 .. Len(board) : board[i][1] = t

Pending(t) == author[t] # None /\ t \notin lost /\ ~Posted(t)

Init ==
    /\ author = [t \in Taps |-> None]
    /\ board = << >>
    /\ lost = {}

Submit(t, u) ==
    /\ author[t] = None
    /\ author' = [author EXCEPT ![t] = u]
    /\ UNCHANGED <<board, lost>>

Post(t) ==
    /\ Pending(t)
    /\ board' = Append(board, <<t, author[t]>>)
    /\ UNCHANGED <<author, lost>>

\* Several at once when the process ends.
Lose(S) ==
    /\ \A t \in S : Pending(t)
    /\ lost' = lost \cup S
    /\ UNCHANGED <<author, board>>

Next ==
    \/ \E t \in Taps, u \in Users : Submit(t, u)
    \/ \E t \in Taps : Post(t)
    \/ \E S \in SUBSET Taps : Lose(S)

Spec == Init /\ [][Next]_vars

-----------------------------------------------------------------------------
\* What follows of it: a post is never withdrawn or given to somebody else, and
\* what was lost stays lost.
OutcomesStand ==
    [][/\ Len(board') >= Len(board)
       /\ \A i \in 1 .. Len(board) : board'[i] = board[i]
       /\ lost \subseteq lost'
       /\ \A t \in Taps : author[t] # None => author'[t] = author[t]]_vars

\* Nothing is posted under another name than its author's, or after it was lost,
PostsAreOwn ==
    \A i \in 1 .. Len(board) :
        LET t == board[i][1] IN
        t \notin lost /\ author[t] # None /\ board[i][2] = author[t]

\* or twice.
PostedOnce == \A i, j \in 1 .. Len(board) : board[i][1] = board[j][1] => i = j

=============================================================================
