----------------------------- MODULE MCAutoAnki -----------------------------
(* A small instance of AutoAnki for TLC: a source of two chunks, and a job *)
(* whose only round gives two cards.                                       *)
EXTENDS AutoAnki, TLC

CONSTANTS s1, a, b, k1, k2, u1, u2, mine, theirs

OneSource == [s \in Sources |-> 2]

OwnedByOne == [s \in Sources |-> u1]

AskedByOne == [j \in Jobs |-> u1]

AboutIt == [j \in Jobs |-> s1]

\* Decks of earlier jobs, one of the user's and one of another's.
TwoDecks == (mine :> u1) @@ (theirs :> u2)

OneRound == <<(<<k1, k2>>)>>

OneReply == <<{<<a, b>>}>>

CiteBoth == (a :> {k1}) @@ (b :> {k2})

AsGiven == [c \in Cards |-> c]

Positions == (k1 :> 0) @@ (k2 :> 1)
=============================================================================
