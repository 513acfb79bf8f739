--------------------------- MODULE MemoryPipeline ---------------------------
(***************************************************************************)
(* MemoryStark::generate_trace driven on the log of an executing VM.       *)
(*                                                                         *)
(* The VM (CpuMemory) runs first and builds the memory log; then           *)
(* generate_trace runs its stages in order, each one a whole function of   *)
(* memory_stark.rs: generate_trace_row_major (with the mem_before writes   *)
(* pushed first), insert_stale_contexts, generate_trace_col_major and the  *)
(* extraction of the MemoryAfterStark values.  A failed assert! or an      *)
(* out-of-bounds index is a panic: the phase "panicked".                   *)
(***************************************************************************)
EXTENDS MemoryStark

CONSTANTS
    Addresses, Values, MemBeforeAddrs, TsSteps, MaxOps,
    StaleCandidates   \* the contexts the VM may report as stale

VARIABLES
    mem, memBefore, log, clock,   \* the VM, see CpuMemory
    phase,           \* which stage of generate_trace has run
    staleContexts,   \* the stale_contexts argument of generate_trace
    rows,            \* the trace, one record per row
    unpaddedLength,  \* the unpadded length returned by generate_trace_row_major
    memAfter         \* the extracted MemoryAfterStark values

cpuVars  == <<mem, memBefore, log, clock>>
pipeVars == <<phase, staleContexts, rows, unpaddedLength, memAfter>>
vars     == <<cpuVars, pipeVars>>

Cpu == INSTANCE CpuMemory WITH PreinitSegments <- PREINITIALIZED_SEGMENTS_INDICES

Phases == {"execute", "row_major", "stale_inserted", "col_major", "done", "panicked"}

Init ==
    /\ Cpu!CpuInit
    /\ phase = "execute"
    /\ staleContexts = {}
    /\ rows = <<>>
    /\ unpaddedLength = 0
    /\ memAfter = <<>>

\* The VM performs one more memory operation.
Execute ==
    /\ phase = "execute"
    /\ Cpu!CpuNext
    /\ UNCHANGED pipeVars

\* The mem_before values pushed as reads.
MemBeforeOpsAsReads ==
    SetToSeq({[filter |-> TRUE, timestamp |-> 0, address |-> a, kind |-> "Read",
               value |-> memBefore[a]] : a \in DOMAIN memBefore})

\* generate_trace pushes the mem_before values as writes at timestamp 0.
MemBeforeOps ==
    SetToSeq({[filter |-> TRUE, timestamp |-> 0, address |-> a, kind |-> "Write",
               value |-> memBefore[a]] : a \in DOMAIN memBefore})

\* generate_trace, up to generate_trace_row_major (whose assert! may fail).
GenerateRowMajor ==
    /\ phase = "execute"
    /\ log # <<>>
    /\ \E stale \in SUBSET StaleCandidates :
          LET r == GenerateTraceRowMajor(log \o MemBeforeOps)
          IN  /\ staleContexts' = stale
              /\ IF RangeCheckTooLarge(r.rows)
                 THEN /\ phase' = "panicked"
                      /\ UNCHANGED <<rows, unpaddedLength>>
                 ELSE /\ phase' = "row_major"
                      /\ rows' = r.rows
                      /\ unpaddedLength' = r.unpadded_length
    /\ UNCHANGED <<cpuVars, memAfter>>

\* Self::insert_stale_contexts
InsertStale ==
    /\ phase = "row_major"
    /\ IF StaleContextOutOfBounds(rows, staleContexts)
       THEN phase' = "panicked" /\ UNCHANGED rows
       ELSE phase' = "stale_inserted" /\ rows' = InsertStaleContexts(rows, staleContexts)
    /\ UNCHANGED <<cpuVars, staleContexts, unpaddedLength, memAfter>>

\* transpose, Self::generate_trace_col_major, transpose back
ColMajor ==
    /\ phase = "stale_inserted"
    /\ IF ColMajorOutOfBounds(rows)
       THEN phase' = "panicked" /\ UNCHANGED rows
       ELSE phase' = "col_major" /\ rows' = GenerateTraceColMajor(rows)
    /\ UNCHANGED <<cpuVars, staleContexts, unpaddedLength, memAfter>>

\* Extract `MemoryAfterStark` values.
ExtractMemAfterValues ==
    /\ phase = "col_major"
    /\ memAfter' = ExtractMemAfter(rows)
    /\ phase' = "done"
    /\ UNCHANGED <<cpuVars, staleContexts, rows, unpaddedLength>>

Next ==
    \/ Execute
    \/ GenerateRowMajor
    \/ InsertStale
    \/ ColMajor
    \/ ExtractMemAfterValues

Spec == Init /\ [][Next]_vars

-----------------------------------------------------------------------------
(***************************************************************************)
(* Properties.                                                             *)
(***************************************************************************)

TypeOK ==
    /\ phase \in Phases
    /\ staleContexts \subseteq StaleCandidates
    /\ Len(log) <= MaxOps
    /\ unpaddedLength \in Nat
    /\ \A i \in DOMAIN rows :
          /\ DOMAIN rows[i] = DOMAIN IntoRow(log[1])
          /\ rows[i].value_limbs \in [1..VALUE_LIMBS -> 0..(2^LimbBits - 1)]
    /\ \A i \in DOMAIN memAfter :
          /\ memAfter[i].address \in Addresses
          /\ memAfter[i].value_limbs \in [1..VALUE_LIMBS -> 0..(2^LimbBits - 1)]

\* generate_trace never panics on the log of a VM run: fill_gaps leaves no
\* range check at or above the height (the assert! in
\* generate_first_change_flags_and_rc), and no index into the frequencies or
\* stale_contexts columns (generate_trace_col_major, insert_stale_contexts)
\* is out of bounds.
NoGenerationPanic == phase # "panicked"

\* Completeness: the trace generate_trace builds from a consistent log
\* satisfies every constraint of eval_packed_generic.
TraceSatisfiesConstraints == phase = "done" => TraceSatisfies(rows)

\* The frequencies and stale_context_frequencies columns computed by
\* generate_trace_col_major balance the two lookups declared in lookups(),
\* including the wrap-around lookup of the first row's addr_virtual.
LookupsHold ==
    phase = "done" => RangeCheckLookupHolds(rows) /\ StaleLookupHolds(rows)

\* The MemoryAfterStark values are the final memory of the run: one entry
\* for every address touched outside a stale context, with its last value,
\* except zero values outside preinitialized segments.
Touched == DOMAIN memBefore \cup {log[i].address : i \in DOMAIN log}

ExpectedMemAfter ==
    {[address |-> a, value_limbs |-> ValueLimbs(mem[a])] :
        a \in {t \in Touched : /\ t.context \notin staleContexts
                               /\ mem[t] # 0 \/ Cpu!Preinit(t)}}

MemAfterIsFinalMemory ==
    phase = "done" =>
        /\ Range(memAfter) = ExpectedMemAfter
        /\ Len(memAfter) = Cardinality(ExpectedMemAfter)

\* The cross-table lookups see exactly the operations they stand for: the
\* rows selected by ctl_filter are the VM's operations and the mem_before
\* writes, once each, and no dummy or padding row; the rows selected by
\* ctl_filter_mem_before (1 - timestamp * timestamp_inv) are exactly the
\* mem_before values, as spec.md sections 2 and 4.6 reserve timestamp 0 for
\* them; and the rows selected by is_pruned name exactly the stale contexts.
\* Every filter value is 0 or 1.
CtlViewsAreTheOps ==
    phase = "done" =>
        LET ops == log \o MemBeforeOps
        IN  /\ \A i \in DOMAIN rows :
                  {Fe(CtlFilter(rows[i])), Fe(CtlFilterMemBefore(rows[i])),
                   Fe(CtlFilterPruned(rows[i]))} \subseteq {0, 1}
            /\ CtlView(rows, CtlFilter, CtlData)
                   = ToBag([i \in DOMAIN ops |-> CtlData(IntoRow(ops[i]))])
            /\ CtlView(rows, CtlFilterMemBefore, CtlLookingMem)
                   = [x \in {<<a.context, a.segment, a.virt>> \o ValueLimbs(memBefore[a]) :
                               a \in DOMAIN memBefore} |-> 1]
            /\ DOMAIN CtlView(rows, CtlFilterPruned, CtlContextPruning) = staleContexts

\* spec.md section 4.5: "zero-valued entries in preinitialized segments are
\* excluded from the final-state view".  generate_trace_col_major keeps
\* them and drops the zero values of the other segments instead.
SpecMemAfterExcludesPreinitZeros ==
    phase = "done" =>
        \A i \in DOMAIN memAfter :
            memAfter[i].address.segment \in PREINITIALIZED_SEGMENTS_INDICES
                => IsNonZeroValue(memAfter[i].value_limbs)

=============================================================================
