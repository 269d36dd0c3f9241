---------------------------- MODULE MCDeployment ----------------------------
EXTENDS Deployment, TLC
CONSTANTS s1, a, k1, u1, mine
OneSource == [s \in ParseTasks |-> 1]
OwnedByOne == [s \in ParseTasks |-> u1]
AskedByOne == [j \in GenTasks |-> u1]
AboutIt == [j \in GenTasks |-> s1]
OneDeck == << >>
OneRound == <<(<<k1>>)>>
OneReply == <<{<<a>>}>>
CiteIt == (a :> {k1})
AsGiven == [c \in Cards |-> c]
Positions == (k1 :> 0)
=============================================================================
