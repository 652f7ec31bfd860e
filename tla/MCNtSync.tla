------------------------------ MODULE MCNtSync ------------------------------
(* Instances of NtSync for TLC. *)
EXTENDS NtSync

AllDoubles == [v \in Values |-> "DOUBLE"]
ClientSymmetry == Permutations(Conns) \cup Permutations(Values)
ValueSymmetry == Permutations(Values)

ValueAndUserSymmetry == Permutations(Values) \cup Permutations(Users)

\* What a node would save and what its listeners know are left to Storage's runs.
NodesAndLinks == <<role, heap, ents, idMap, idCount, hand, resume, linkVars,
                   calls, drops, restarts>>

\* Neither raced nor stale ever becomes false again, and the writers of a name do
\* not matter to Convergence once one of them is true.
SyncView ==
    LET excused == raced \/ stale
    IN <<NodesAndLinks, excused, IF excused THEN {} ELSE writers>>

\* A run of Convergence alone, which claims nothing of a state where one of them
\* is true, need not tell these states apart.
ConvergenceView ==
    IF raced \/ stale THEN <<"excused">> ELSE <<"claimed", NodesAndLinks, writers>>

\* The properties about ids do not depend on the writers, and NoCrossTalk claims
\* nothing of a state where stale is true.
IdView == <<NodesAndLinks, displaced, stale, IF stale THEN {} ELSE given>>
=============================================================================
