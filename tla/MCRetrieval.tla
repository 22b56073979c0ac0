----------------------------- MODULE MCRetrieval -----------------------------
(***************************************************************************)
(* The search for TLC: four memories, of which the pool takes three and    *)
(* the answer two.                                                         *)
(***************************************************************************)
EXTENDS Retrieval, TLC

CONSTANTS a, b, c, d, home, away

MCOrder == {<<>>, <<d, a>>, <<a, b, c, d>>, <<c, d, b, a>>}
MCOf == a :> home @@ b :> home @@ c :> away @@ d :> away
MCRelated == a :> {c} @@ b :> {} @@ c :> {c} @@ d :> {}
MCImportance == a :> 3 @@ b :> 5 @@ c :> 3 @@ d :> 3
MCUsage == a :> 0 @@ b :> 90 @@ c :> 0 @@ d :> 40
MCSimilarity == [m \in Id |-> [n \in Id |-> IF m = n THEN 100 ELSE IF {m, n} = {a, b} THEN 95 ELSE 10]]

Asks(literal, temporal, scope, paths) ==
  [literal |-> literal, temporal |-> temporal, scope |-> scope, paths |-> paths]
MCAsked == {Asks(FALSE, FALSE, None, FALSE), Asks(TRUE, FALSE, home, TRUE), Asks(FALSE, TRUE, away, TRUE)}

\* All memories are there at first, or all but one.
MCInit == Init /\ \A m \in Id \ {d} : vault[m] # None

\* Two of the memories are written and deleted.  Once one is written it is the index that matters:
\* one way to answer stands for all.
MCNext ==
  \/ \E m \in {a, d} : DeleteFile(m) \/ \E live \in BOOLEAN : WriteTemporary(m, live)
  \/ \E w \in pending : Publish(w)
  \/ Loading
  \/ writes = 0 /\ \E o, f \in Order, w \in Whole, modelled \in BOOLEAN, ask \in Asked :
                       Answer(o, w, f, modelled, ask)
  \/ writes > 0 /\ \E w \in Whole : Answer(<<>>, w, <<>>, FALSE, Asks(FALSE, FALSE, None, FALSE))

MCSpec == MCInit /\ [][MCNext]_vars
==============================================================================
