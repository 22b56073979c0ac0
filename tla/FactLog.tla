-------------------------------- MODULE FactLog --------------------------------
(***************************************************************************)
(* What append_fact promises its callers: a profile is a set of facts that *)
(* grows, and is rewritten now and then.  A request is answered by keeping *)
(* the fact; by refusing it and changing nothing; or by a rewrite, which   *)
(* may say anything but replaces exactly the facts that the one who wrote  *)
(* it was shown, so that no fact that came in the meantime is lost.  A     *)
(* caller that dies gets no answer, and its fact may or may not have been  *)
(* kept.                                                                   *)
(***************************************************************************)
CONSTANTS Writer, Fact, NoFact

VARIABLES
  known,    \* the facts of the profile
  wanted,   \* wanted[w]: the fact w asks to be kept, or NoFact
  shown,    \* shown[w]: the facts that the one who rewrites for w has been shown
  kept      \* the facts confirmed since the last rewrite

logVars == <<known, wanted, shown, kept>>

Init ==
  /\ known = {}
  /\ wanted = [w \in Writer |-> NoFact]
  /\ shown = [w \in Writer |-> {}]
  /\ kept = {}

Ask(w) ==
  /\ wanted[w] = NoFact
  /\ \E f \in Fact : wanted' = [wanted EXCEPT ![w] = f]
  /\ UNCHANGED <<known, shown, kept>>

\* The fact enters the profile, before its caller is told.
Keep(w) ==
  /\ wanted[w] # NoFact
  /\ known' = known \cup {wanted[w]}
  /\ UNCHANGED <<wanted, shown, kept>>

\* The profile is handed over to be rewritten.
Show(w) ==
  /\ wanted[w] # NoFact
  /\ shown' = [shown EXCEPT ![w] = known]
  /\ UNCHANGED <<known, wanted, kept>>

\* The rewritten profile takes the place of what was shown, whatever it says.
Rewrite(w) ==
  /\ wanted[w] # NoFact
  /\ known = shown[w]
  /\ known' \in SUBSET Fact
  /\ kept' = {}
  /\ UNCHANGED <<wanted, shown>>

\* The request of w is over.
Done(w) ==
  /\ wanted' = [wanted EXCEPT ![w] = NoFact]
  /\ shown' = [shown EXCEPT ![w] = {}]

\* The caller is told that the fact is kept, and it is.
Confirm(w) ==
  /\ wanted[w] \in known
  /\ kept' = kept \cup {wanted[w]}
  /\ Done(w)
  /\ UNCHANGED known

\* The caller is refused, is told of a rewrite and nothing of its fact, or dies.
Leave(w) ==
  /\ wanted[w] # NoFact
  /\ Done(w)
  /\ UNCHANGED <<known, kept>>

Next ==
  \E w \in Writer : Ask(w) \/ Keep(w) \/ Show(w) \/ Rewrite(w) \/ Confirm(w) \/ Leave(w)

Spec == Init /\ [][Next]_logVars
================================================================================
