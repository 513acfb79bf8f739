------------------------- MODULE MemoryContinuation -------------------------
(***************************************************************************)
(* Proving units chained by their memory: the execution is cut into        *)
(* Units proving units, each proved by one run of generate_trace, and the *)
(* MemoryAfterStark values of one unit become the mem_before of the next   *)
(* (spec.md section 6: mem_before is "pre-existing state").  Between two   *)
(* units the VM keeps its memory; the contexts the unit reported stale are *)
(* never entered again.  An address of a preinitialized segment that no    *)
(* mem_before names gets its externally supplied content (spec.md,         *)
(* "Preinitialized segment"), which is the content it started the          *)
(* execution with.                                                         *)
(*                                                                         *)
(* Every stage of a unit is the MemoryPipeline action of that stage, so    *)
(* the properties of MemoryPipeline are checked on every unit, the later   *)
(* ones included.  The handover itself is not under src/.                  *)
(***************************************************************************)
EXTENDS MemoryPipeline

CONSTANT Units   \* the number of proving units

VARIABLES
    unit,      \* the proving unit being executed or proved
    pruned,    \* the contexts reported stale by an earlier unit
    content    \* the external content of the preinitialized addresses

contVars == <<vars, unit, pruned, content>>

\* The value whose limbs are `limbs`: the inverse of ValueLimbs.
LimbsValue(limbs) ==
    LET Acc[j \in 0..VALUE_LIMBS] ==
            IF j = 0 THEN 0 ELSE Acc[j - 1] + limbs[j] * 2^((j - 1) * LimbBits)
    IN  Acc[VALUE_LIMBS]

\* The mem_before of the next unit: the (address, value) pairs of mem_after.
MemBeforeFromMemAfter(after) ==
    [a \in {after[k].address : k \in DOMAIN after} |->
        LimbsValue(after[CHOOSE k \in DOMAIN after : after[k].address = a].value_limbs)]

PreinitAddrs == {a \in Addresses : Cpu!Preinit(a)}

ContInit ==
    /\ Init
    /\ unit = 1
    /\ pruned = {}
    /\ content = [a \in PreinitAddrs |-> mem[a]]

\* The VM performs one more memory operation, outside the pruned contexts.
ContExecute ==
    /\ Execute
    /\ Last(log').address.context \notin pruned
    /\ UNCHANGED <<unit, pruned, content>>

\* The proof of a unit is generated, stage by stage.
ContGenerate ==
    /\ GenerateRowMajor \/ InsertStale \/ ColMajor \/ ExtractMemAfterValues
    /\ UNCHANGED <<unit, pruned, content>>

\* The next unit starts: its mem_before is the mem_after of this one, its
\* log is empty and its clock restarts; the VM memory carries over.
NextUnit ==
    /\ phase = "done"
    /\ unit < Units
    /\ unit' = unit + 1
    /\ memBefore' = MemBeforeFromMemAfter(memAfter)
    /\ pruned' = pruned \cup staleContexts
    /\ log' = <<>>
    /\ clock' = 0
    /\ phase' = "execute"
    /\ staleContexts' = {}
    /\ rows' = <<>>
    /\ unpaddedLength' = 0
    /\ memAfter' = <<>>
    /\ UNCHANGED <<mem, content>>

ContNext == ContExecute \/ ContGenerate \/ NextUnit

ContSpec == ContInit /\ [][ContNext]_contVars

-----------------------------------------------------------------------------

\* The memory a unit's VM starts from, rebuilt from its mem_before: the
\* value mem_before gives, else the external content of a preinitialized
\* address, else 0.
StartValue(a) ==
    IF a \in DOMAIN memBefore THEN memBefore[a]
    ELSE IF Cpu!Preinit(a) THEN content[a] ELSE 0

\* Every unit starts from the memory the previous one left: at the start of
\* a unit, every address of a context not yet pruned has, rebuilt from the
\* mem_before that generate_trace_col_major's mem_after_filter produced,
\* the value the VM holds; mem_before names no pruned context, and a zero
\* in it is in a preinitialized segment.
UnitStartsFromLiveMemory ==
    phase = "execute" /\ log = <<>> =>
        /\ \A a \in Addresses : a.context \notin pruned => StartValue(a) = mem[a]
        /\ \A a \in DOMAIN memBefore :
              /\ a.context \notin pruned
              /\ memBefore[a] = 0 => Cpu!Preinit(a)

=============================================================================
