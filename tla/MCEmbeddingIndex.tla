---------------------------- MODULE MCEmbeddingIndex ----------------------------
(***************************************************************************)
(* The vector index for TLC: two writers that save and rebuild, a reader.  *)
(***************************************************************************)
EXTENDS EmbeddingIndex
================================================================================
