-------------------- MODULE MCMemoryStarkStaleForgery --------------------
(***************************************************************************)
(* Model of MemoryStarkStaleForgery for TLC, over the addresses of         *)
(* MCMemoryPipeline.                                                       *)
(***************************************************************************)
EXTENDS MemoryStarkStaleForgery, MCMemoryPipeline
=============================================================================
