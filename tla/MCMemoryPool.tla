----------------------------- MODULE MCMemoryPool -----------------------------
(***************************************************************************)
(* A small pool for model-checking MemoryPool: used by one task.           *)
(***************************************************************************)
EXTENDS MemoryPool, TLC

CONSTANTS tracking

OneTask == tracking :> 4
=============================================================================
