------------------------------ MODULE MCMineDelta ------------------------------
(***************************************************************************)
(* MineDelta with two concurrent processes on a session of a few records,  *)
(* each either too short to be worth a Haiku call or long enough.          *)
(***************************************************************************)
EXTENDS MineDelta

CONSTANTS w1, w2, none, blank

MCWorker == {w1, w2}
================================================================================
