----------------------- MODULE MCMemoryContinuation -----------------------
(***************************************************************************)
(* Model of MemoryContinuation for TLC: two proving units over the         *)
(* addresses of MCMemoryPipeline.  A1 lies in Code (preinitialized), A3 in *)
(* context 1, the context a unit may report stale.                         *)
(***************************************************************************)
EXTENDS MemoryContinuation, MCMemoryPipeline
=============================================================================
