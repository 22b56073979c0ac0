------------------------------- MODULE MCDreamer -------------------------------
(***************************************************************************)
(* Dreamer for TLC: two memories that contradict each other, one of which  *)
(* contradicts a protected one, an episode, whose session goes on, and a   *)
(* piece of news.                                                          *)
(***************************************************************************)
EXTENDS Dreamer, TLC

CONSTANTS a, b, pin, e1, n1, n2, p1, p2

MCWritten == a :> {[id |-> b, whole |-> TRUE], [id |-> pin, whole |-> TRUE]} @@ b :> {} @@ pin :> {}
MCNoted == a :> {[id |-> b, whole |-> FALSE]} @@ b :> {} @@ pin :> {}
Symmetry == Permutations({n1, n2}) \cup Permutations({p1, p2})
================================================================================
