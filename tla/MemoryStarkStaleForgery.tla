---------------------- MODULE MemoryStarkStaleForgery ----------------------
(***************************************************************************)
(* A dishonest prover that starts from the trace generate_trace builds for *)
(* a VM run and changes only the stale-context columns: it may set is_stale *)
(* of one row, and put one value in the stale_contexts column of one row   *)
(* that is not pruned (is_pruned = 0).  It then recomputes, as             *)
(* generate_trace_col_major would, what these columns determine:           *)
(* maybe_in_mem_after from its constraint, mem_after_filter from           *)
(* maybe_in_mem_after and the value, and the stale_context_frequencies     *)
(* that balance the stale-context lookup.                                  *)
(*                                                                         *)
(* The verifier checks every constraint of eval_packed_generic, both       *)
(* lookups of lookups(), and that the cross-table lookups with the CPU,    *)
(* MemBefore and the context-pruning table see what they see of the       *)
(* honest trace.                                                           *)
(***************************************************************************)
EXTENDS MemoryPipeline

VARIABLE forged   \* the forged trace (<<>> before the prover forges)

forgeryVars == <<vars, forged>>

\* The values the prover may write in a stale_contexts cell: 0 or
\* addr_context + 1 of a row of the trace.
StaleMarks(trace) == {0} \cup {Fe(trace[i].addr_context + 1) : i \in DOMAIN trace}

\* The frequencies that balance lookup 2: every looked-up value counted at
\* the first table row holding it.
BalancedStaleFrequencies(trace) ==
    LET n == Len(trace)
        Looking(x) ==
            SumFunction([i \in 1..n |->
                IF Fe(trace[i].addr_context + 1) = x THEN trace[i].is_stale ELSE 0])
        First(k) == \A m \in 1..(k - 1) : trace[m].stale_contexts # trace[k].stale_contexts
    IN  [k \in 1..n |->
            [trace[k] EXCEPT !.stale_context_frequencies =
                IF First(k) THEN Fe(Looking(trace[k].stale_contexts)) ELSE 0]]

\* Row i marked is_stale = st, and stale_contexts of row j set to mark.
ForgeStaleColumns(trace, i, st, j, mark) ==
    LET t1 == [trace EXCEPT ![j].stale_contexts = mark, ![i].is_stale = st]
        maybe == IF i = Len(trace) THEN t1[i].maybe_in_mem_after
                 ELSE Fe(t1[i].filter * (1 - AddressUnchanged(t1[i])) * (1 - st))
        t2 == [t1 EXCEPT ![i].maybe_in_mem_after = maybe,
                         ![i].mem_after_filter =
                             IF maybe = 1 /\ KeptInMemAfter(t1[i]) THEN 1 ELSE 0]
    IN  BalancedStaleFrequencies(t2)

ForgeryInit == Init /\ forged = <<>>

\* The prover forges the stale columns of the finished trace.
Forge ==
    /\ phase = "done"
    /\ forged = <<>>
    /\ \E i \in DOMAIN rows, st \in {0, 1},
          j \in {k \in DOMAIN rows : rows[k].is_pruned = 0}, mark \in StaleMarks(rows) :
          forged' = ForgeStaleColumns(rows, i, st, j, mark)
    /\ UNCHANGED vars

ForgeryNext == (Next /\ UNCHANGED forged) \/ Forge

ForgerySpec == ForgeryInit /\ [][ForgeryNext]_forgeryVars

\* The verifier accepts the forged trace, and the other tables see in it
\* what they see in the honest one.
ForgeryAccepted ==
    /\ TraceSatisfies(forged)
    /\ RangeCheckLookupHolds(forged)
    /\ StaleLookupHolds(forged)
    /\ CtlView(forged, CtlFilter, CtlData) = CtlView(rows, CtlFilter, CtlData)
    /\ CtlView(forged, CtlFilterMemBefore, CtlLookingMem)
           = CtlView(rows, CtlFilterMemBefore, CtlLookingMem)
    /\ CtlView(forged, CtlFilterPruned, CtlContextPruning)
           = CtlView(rows, CtlFilterPruned, CtlContextPruning)

-----------------------------------------------------------------------------

\* The entries of a CTL view of (address, limbs) whose value is not zero.
NonZeroFinal(view) ==
    {x \in DOMAIN view : \E k \in 4..(3 + VALUE_LIMBS) : x[k] # 0}

\* Only the contexts the pruning table names can be excluded from the final
\* memory (spec.md section 4.7, "every context marked is_stale must have its
\* (address+1) value appear in the stale-context table", and section 8
\* scenario D):
\* an accepted forgery of the stale columns still sends MemAfter every
\* nonzero final value the honest trace sends.
StaleMarkingNeedsPrunedContext ==
    forged # <<>> /\ ForgeryAccepted =>
        NonZeroFinal(CtlView(rows, CtlFilterMemAfter, CtlLookingMem))
            \subseteq NonZeroFinal(CtlView(forged, CtlFilterMemAfter, CtlLookingMem))

=============================================================================
