------------------------- MODULE MCMemoryPipeline -------------------------
(***************************************************************************)
(* Model of MemoryPipeline for TLC.  Segment 0 is Code (preinitialized),   *)
(* segments 1 and 2 are ordinary; the other preinitialized segments get    *)
(* identifiers no address uses.  The four addresses are placed so that     *)
(* every branch of fill_gaps fires on short logs: a first op with virt # 0 *)
(* (A1) whose gap to the dummy read at (0, 0, 0) exceeds max_rc, a context *)
(* change into a large virt (A4), and a timestamp gap (TsSteps) at one     *)
(* address.                                                                *)
(***************************************************************************)
EXTENDS MemoryPipeline

A1 == Addr(0, 0, 5)
A2 == Addr(0, 1, 0)
A3 == Addr(1, 2, 4)

MCAddresses == {A1, A2, A3}
MCMemBeforeAddrs == {A1, A2}

\* Two addresses of ordinary segments five apart: a short log in which the
\* segment delta alone exceeds the trace height.
MCGapAddresses == {Addr(0, 1, 0), Addr(0, 6, 0)}
=============================================================================
