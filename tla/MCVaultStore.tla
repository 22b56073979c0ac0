----------------------------- MODULE MCVaultStore ------------------------------
(***************************************************************************)
(* The vault store for TLC: a process that may only merge, save and        *)
(* invalidate, and one that is in turn a miner, the dreamer and the CLI.   *)
(***************************************************************************)
EXTENDS VaultStore

CONSTANTS server, miner
================================================================================
