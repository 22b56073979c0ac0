---------------------------- MODULE MCVaultIndexes ----------------------------
(***************************************************************************)
(* The derived indexes for TLC: two memories of one session, one of two    *)
(* texts each.  The texts are close enough for an edge; "stop" denies what *)
(* "go" affirms and says what it needs.                                    *)
(***************************************************************************)
EXTENDS VaultIndexes, TLC

CONSTANTS go, stop

MCLexical == [s \in Text |-> [t \in Text |-> IF s = t THEN 90 ELSE 20]]
MCOverlap == [s \in Text |-> [t \in Text |-> IF s = t THEN 100 ELSE 40]]
MCTie == [i \in Id |-> [j \in Id |->
           [tag |-> 30, project |-> FALSE, session |-> TRUE, supersedes |-> FALSE, structure |-> 80]]]
MCDenies == [t \in Text |-> IF t = stop THEN {"no longer"} ELSE {}]
MCMatching == [t \in Text |-> Text]
MCScopes == {Id, {CHOOSE i \in Id : TRUE}}

\* What is there at first says "go".
MCInit == Init /\ \A i \in Id : Listed[i] # stop

MCSpec == MCInit /\ [][Next]_vars

Symmetry == Permutations(Process)
================================================================================
