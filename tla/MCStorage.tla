------------------------------ MODULE MCStorage ------------------------------
(* Instances of Storage for TLC. *)
EXTENDS Storage

CONSTANTS Doubles, Strings   \* the values, by type

AllValues == Doubles \cup Strings
TypesOf == [v \in AllValues |-> IF v \in Doubles THEN "DOUBLE" ELSE "STRING"]
TableSymmetry == Permutations(Names)

\* What is in hand is only ever passed on; that a thread has something in hand
\* is all that the node's next steps depend on.
InHand == [n \in Nodes |-> [t \in Threads |-> Len(hand[n][t])]]

ServerView == <<role, heap, ents, idMap, idCount, dirty, saved, view, resume, InHand>>

\* No table depends on what was saved, nor on what the listeners know.
TablesView == <<role, heap, ents, idMap, idCount, resume, InHand>>
=============================================================================
