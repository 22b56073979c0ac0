---------------------------- MODULE MCLayerMigration ----------------------------
(***************************************************************************)
(* The migration and the profile for TLC: a miner and the migration append *)
(* to a profile that two facts fill, so that a retry after a lost race may *)
(* fit, be a duplicate or be refused.  One old memory, of the project      *)
(* 'general', is there for two runs of any kind or is not.  Haiku answers  *)
(* with a text that has lost every fact, one that has room again, one of   *)
(* which the next append drops a part, or one that is too long.            *)
(***************************************************************************)
EXTENDS LayerMigration, TLC

CONSTANTS miner, migrator, m1, f1, f2, f3, f4

MCLine == m1 :> f1

MCAnswers == {
  [facts |-> {}, items |-> 0, size |-> 1],
  [facts |-> {f1, f2, f3}, items |-> 1, size |-> 1],
  [facts |-> {f2, f3}, items |-> 1, size |-> 2],
  [facts |-> {f1, f2, f3, f4}, items |-> 3, size |-> 3]}
================================================================================
