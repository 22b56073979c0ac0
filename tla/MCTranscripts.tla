---------------------------- MODULE MCTranscripts ----------------------------
(***************************************************************************)
(* The transcript index for TLC: two sessions of up to four records and    *)
(* two indexers.  The first records lack a word of the query, so that some *)
(* exchanges answer it in the table and others only in the files.          *)
(***************************************************************************)
EXTENDS Transcripts, TLC

CONSTANTS red, blue

MCSays == [s \in Session |-> [n \in 1..ScriptLength |-> IF n > 2 THEN {red, blue} ELSE {red}]]

\* An answer first, two exchanges, an answer in two parts, and a question left open.
u == "user"
a == "assistant"
Scripts == {<<a, u, a, a>>, <<u, a, u>>}

MCInit == TranscriptsInit /\ script \in [Session -> Scripts]

MCSpec == MCInit /\ [][TranscriptsNext]_transcriptsVars

Symmetry == Permutations(Session) \cup Permutations(Indexer)
================================================================================
