---------------------------- MODULE MemoryStark ----------------------------
(***************************************************************************)
(* Trace generation and constraints of the memory STARK                    *)
(* (src/evm_arithmetization/src/memory/memory_stark.rs).                   *)
(*                                                                         *)
(* Everything here is a pure operator: the functions of MemoryStark that   *)
(* build the trace (fill_gaps, pad_memory_ops, into_row,                   *)
(* generate_first_change_flags_and_rc, insert_stale_contexts,              *)
(* generate_trace_col_major, the mem_after extraction) and the algebraic   *)
(* constraints of eval_packed_generic.  MemoryPipeline drives them as the  *)
(* stages of generate_trace.                                               *)
(*                                                                         *)
(* Field elements are the integers 0..FieldOrder-1.  The code's field is   *)
(* Goldilocks; any prime larger than every honest column value behaves the *)
(* same for these checks: a "negative" difference wraps to a value at      *)
(* least FieldOrder - max, far above the trace height.                     *)
(***************************************************************************)
EXTENDS Integers, Sequences, FiniteSets, Functions, SequencesExt, TLC

CONSTANTS
    FieldOrder,          \* the prime of the base field
    VALUE_LIMBS,         \* number of limbs of a memory value
    LimbBits,            \* width of one limb (32 in the code)
    Code,                \* Segment::Code.unscale()
    TrieData,            \* Segment::TrieData.unscale()
    AccountsLinkedList,  \* Segment::AccountsLinkedList.unscale()
    StorageLinkedList    \* Segment::StorageLinkedList.unscale()

ASSUME FieldOrder \in Nat /\ FieldOrder > 2
ASSUME VALUE_LIMBS \in Nat \ {0} /\ LimbBits \in Nat \ {0}

\* PREINITIALIZED_SEGMENTS_INDICES of memory/segments.rs.
PREINITIALIZED_SEGMENTS_INDICES ==
    {Code, TrieData, AccountsLinkedList, StorageLinkedList}

B(b) == IF b THEN 1 ELSE 0

\* F::from_canonical_usize and field subtraction: reduce into 0..p-1.
Fe(x) == x % FieldOrder

\* F::try_inverse().unwrap_or_default()
TryInverse(x) ==
    IF Fe(x) = 0 THEN 0
    ELSE CHOOSE y \in 1..(FieldOrder - 1) : (x * y) % FieldOrder = 1

\* usize::next_power_of_two
NextPowerOfTwo(n) ==
    LET k == CHOOSE k \in 0..20 : 2^k >= n /\ (k = 0 \/ 2^(k - 1) < n)
    IN  2^k

-----------------------------------------------------------------------------
(***************************************************************************)
(* Memory operations (witness/memory.rs).                                  *)
(***************************************************************************)

Addr(c, s, v) == [context |-> c, segment |-> s, virt |-> v]

\* MemoryOp::sorting_key: (context, segment, virt, timestamp)
SortingKey(op) ==
    <<op.address.context, op.address.segment, op.address.virt, op.timestamp>>

RECURSIVE LexLess(_, _)
LexLess(k1, k2) ==
    /\ k1 # <<>>
    /\ \/ Head(k1) < Head(k2)
       \/ Head(k1) = Head(k2) /\ LexLess(Tail(k1), Tail(k2))

\* memory_ops.sort_by_key(MemoryOp::sorting_key)
SortOps(ops) ==
    SortSeq(ops, LAMBDA a, b : LexLess(SortingKey(a), SortingKey(b)))

\* MemoryOp::new_dummy_read: an inactive read.
NewDummyRead(address, timestamp, value) ==
    [filter |-> FALSE, timestamp |-> timestamp, address |-> address,
     kind |-> "Read", value |-> value]

-----------------------------------------------------------------------------
(***************************************************************************)
(* fill_gaps.  Each while loop of the code is one recursive operator that  *)
(* returns the dummy reads the loop pushes, in push order.                 *)
(***************************************************************************)

\* Context or segment changed: step next's virt down by max_rc.
RECURSIVE CtxSegDummies(_, _, _)
CtxSegDummies(curr, next, max_rc) ==
    IF next.address.virt > max_rc
    THEN LET d == NewDummyRead([next.address EXCEPT !.virt = @ - max_rc],
                               curr.timestamp + 1, 0)
         IN  <<d>> \o CtxSegDummies(curr, d, max_rc)
    ELSE <<>>

\* Only virt changed: step curr's virt up by max_rc + 1.
RECURSIVE VirtDummies(_, _, _)
VirtDummies(curr, next, max_rc) ==
    IF next.address.virt - curr.address.virt - 1 > max_rc
    THEN LET d == NewDummyRead([curr.address EXCEPT !.virt = @ + max_rc + 1],
                               curr.timestamp + 1, 0)
         IN  <<d>> \o VirtDummies(d, next, max_rc)
    ELSE <<>>

\* Fault variant: the same-address dummy reads carry value 0, like the
\* dummy reads of the other two loops.
RECURSIVE TimestampDummiesZeroValue(_, _, _)
TimestampDummiesZeroValue(curr, next, max_rc) ==
    IF next.timestamp - curr.timestamp > max_rc
    THEN LET d == NewDummyRead(curr.address, curr.timestamp + max_rc, 0)
         IN  <<d>> \o TimestampDummiesZeroValue(d, next, max_rc)
    ELSE <<>>

\* Same address: advance the timestamp by max_rc, carrying curr's value.
RECURSIVE TimestampDummies(_, _, _)
TimestampDummies(curr, next, max_rc) ==
    IF next.timestamp - curr.timestamp > max_rc
    THEN LET d == NewDummyRead(curr.address, curr.timestamp + max_rc, curr.value)
         IN  <<d>> \o TimestampDummies(d, next, max_rc)
    ELSE <<>>

WindowDummies(curr, next, max_rc) ==
    IF \/ curr.address.context # next.address.context
       \/ curr.address.segment # next.address.segment
    THEN CtxSegDummies(curr, next, max_rc)
    ELSE IF curr.address.virt # next.address.virt
         THEN VirtDummies(curr, next, max_rc)
         ELSE TimestampDummies(curr, next, max_rc)

\* Fault variant: no dummy read at (0, 0, 0) before the first op.
FirstRowPaddingDropped(ops) == ops

\* The dummy read at (0, 0, 0) inserted when the first op's virt is not 0.
FirstRowPadding(ops) ==
    IF ops[1].address.virt # 0
    THEN <<NewDummyRead(Addr(0, 0, 0), 1, 0)>> \o ops
    ELSE ops

\* Fault variant: max_rc taken as the power of two itself.
MaxRcOffByOne(len) == NextPowerOfTwo(len)

\* max_rc = memory_ops.len().next_power_of_two() - 1
MaxRc(len) == NextPowerOfTwo(len) - 1

\* fill_gaps: the windows are those of the list before any push; the dummy
\* reads are appended at the end, out of order.
FillGaps(memory_ops) ==
    LET ops    == FirstRowPadding(memory_ops)
        max_rc == MaxRc(Len(ops))
        RECURSIVE Pushes(_)
        Pushes(i) ==
            IF i >= Len(ops) THEN <<>>
            ELSE WindowDummies(ops[i], ops[i + 1], max_rc) \o Pushes(i + 1)
    IN  ops \o Pushes(1)

\* Fault variant: the padding op keeps the address of the last op.
PaddingOpSameAddress(last_op) ==
    [filter |-> FALSE, kind |-> "Read", address |-> last_op.address,
     timestamp |-> last_op.timestamp + 1, value |-> 0]

\* A slip: the padding op at the last op's timestamp.
PaddingOpSameTimestamp(last_op) ==
    [filter |-> FALSE, kind |-> "Read",
     address |-> [last_op.address EXCEPT !.virt = @ + 1],
     timestamp |-> last_op.timestamp, value |-> 0]

\* pad_memory_ops: the padding op repeats the last op as an inactive read
\* one virt further on, up to (num_ops + 1).next_power_of_two().
PaddingOp(last_op) ==
    [filter |-> FALSE, kind |-> "Read",
     address |-> [last_op.address EXCEPT !.virt = @ + 1],
     timestamp |-> last_op.timestamp + 1, value |-> 0]

PadMemoryOps(memory_ops) ==
    LET num_ops        == Len(memory_ops)
        num_ops_padded == NextPowerOfTwo(num_ops + 1)
    IN  memory_ops \o [i \in 1..(num_ops_padded - num_ops) |->
                           PaddingOp(memory_ops[num_ops])]

-----------------------------------------------------------------------------
(***************************************************************************)
(* Rows.  A row is a record of the MemoryColumnsView columns.              *)
(***************************************************************************)

\* Fault variant: the limbs are shifted but not truncated to low_u32.
ValueLimbsUntruncated(value) ==
    [j \in 1..VALUE_LIMBS |-> value \div 2^((j - 1) * LimbBits)]

\* (value >> (j * 32)).low_u32() for j in 0..VALUE_LIMBS
ValueLimbs(value) ==
    [j \in 1..VALUE_LIMBS |-> (value \div 2^((j - 1) * LimbBits)) % 2^LimbBits]

\* MemoryOp::into_row; the columns it does not set keep their default 0.
IntoRow(op) ==
    [filter |-> B(op.filter), timestamp |-> Fe(op.timestamp),
     timestamp_inv |-> TryInverse(op.timestamp),
     is_read |-> B(op.kind = "Read"),
     addr_context |-> Fe(op.address.context),
     addr_segment |-> Fe(op.address.segment),
     addr_virtual |-> Fe(op.address.virt),
     value_limbs |-> ValueLimbs(op.value),
     context_first_change |-> 0, segment_first_change |-> 0,
     virtual_first_change |-> 0, range_check |-> 0,
     preinitialized_segments_aux |-> 0, preinitialized_segments |-> 0,
     initialize_aux |-> 0, counter |-> 0, frequencies |-> 0,
     stale_contexts |-> 0, is_pruned |-> 0, is_stale |-> 0,
     stale_context_frequencies |-> 0, maybe_in_mem_after |-> 0,
     mem_after_filter |-> 0]

\* The iteration idx of generate_first_change_flags_and_rc (1-based).
FirstChangeRow(trace_rows, idx) ==
    LET num_ops  == Len(trace_rows)
        row      == trace_rows[idx]
        next_row == IF idx = num_ops THEN trace_rows[1] ELSE trace_rows[idx + 1]
        context_first_change == row.addr_context # next_row.addr_context
        segment_first_change ==
            row.addr_segment # next_row.addr_segment /\ ~context_first_change
        virtual_first_change ==
            /\ row.addr_virtual # next_row.addr_virtual
            /\ ~segment_first_change /\ ~context_first_change
        range_check ==
            CASE idx = num_ops -> 0
              [] context_first_change ->
                    Fe(next_row.addr_context - row.addr_context - 1)
              [] segment_first_change ->
                    Fe(next_row.addr_segment - row.addr_segment - 1)
              [] virtual_first_change ->
                    Fe(next_row.addr_virtual - row.addr_virtual - 1)
              [] OTHER -> Fe(next_row.timestamp - row.timestamp)
        aux == Fe((next_row.addr_segment - AccountsLinkedList)
                  * (next_row.addr_segment - StorageLinkedList))
        pre == Fe((next_row.addr_segment - Code)
                  * (next_row.addr_segment - TrieData) * aux)
        address_changed == B(context_first_change) + B(segment_first_change)
                           + B(virtual_first_change)
    IN  [row EXCEPT !.context_first_change = B(context_first_change),
                    !.segment_first_change = B(segment_first_change),
                    !.virtual_first_change = B(virtual_first_change),
                    !.range_check = range_check,
                    !.preinitialized_segments_aux = aux,
                    !.preinitialized_segments = pre,
                    !.initialize_aux = Fe(pre * address_changed * next_row.is_read)]

GenerateFirstChangeFlagsAndRc(trace_rows) ==
    [idx \in 1..Len(trace_rows) |-> FirstChangeRow(trace_rows, idx)]

\* The assert! of generate_first_change_flags_and_rc fails.
RangeCheckTooLarge(trace_rows) ==
    \E idx \in 1..Len(trace_rows) : trace_rows[idx].range_check >= Len(trace_rows)

\* generate_trace_row_major: sort, fill_gaps, sort, pad, sort, into_row,
\* flags.  Returns the rows and the unpadded length.
GenerateTraceRowMajor(memory_ops) ==
    LET filled == FillGaps(SortOps(memory_ops))
        padded == SortOps(PadMemoryOps(SortOps(filled)))
    IN  [rows |-> GenerateFirstChangeFlagsAndRc([i \in 1..Len(padded) |->
                                                     IntoRow(padded[i])]),
         unpadded_length |-> Len(filled)]

\* insert_stale_contexts: row ctx stores ctx + 1 and is_pruned.
InsertStaleContexts(trace_rows, stale_contexts) ==
    [i \in 1..Len(trace_rows) |->
        IF (i - 1) \in stale_contexts
        THEN [trace_rows[i] EXCEPT !.stale_contexts = Fe(i), !.is_pruned = 1]
        ELSE trace_rows[i]]

\* trace_rows[ctx] is out of bounds for a stale context.
StaleContextOutOfBounds(trace_rows, stale_contexts) ==
    \E ctx \in stale_contexts : ctx >= Len(trace_rows)

-----------------------------------------------------------------------------
(***************************************************************************)
(* generate_trace_col_major.  Row i of the column vectors is rows[i].      *)
(***************************************************************************)

\* The value bumped in `frequencies` after a context/segment change.
NextVirtLookup(rows, i) ==
    IF i < Len(rows) THEN rows[i + 1].addr_virtual ELSE 0

ContextOrSegmentChange(row) ==
    row.context_first_change = 1 \/ row.segment_first_change = 1

\* addr_ctx + 1 == stale_contexts[addr_ctx]
IsStaleRow(rows, i) ==
    Fe(rows[i].addr_context + 1) = rows[rows[i].addr_context + 1].stale_contexts

IsNonZeroValue(limbs) == \E limb \in 1..VALUE_LIMBS : limbs[limb] # 0

\* The final-state policy for a candidate of mem_after: spec.md section
\* 4.5 excludes the zero values of the preinitialized segments and keeps
\* every other candidate.
KeptInMemAfterSpecPolicy(row) ==
    \/ IsNonZeroValue(row.value_limbs)
    \/ row.addr_segment \notin PREINITIALIZED_SEGMENTS_INDICES

\* "We filter out zero values in non-preinitialized segments."
KeptInMemAfter(row) ==
    \/ IsNonZeroValue(row.value_limbs)
    \/ row.addr_segment \in PREINITIALIZED_SEGMENTS_INDICES

\* An index of the loop lies outside the columns.
ColMajorOutOfBounds(rows) ==
    \E i \in 1..Len(rows) :
        \/ ContextOrSegmentChange(rows[i]) /\ NextVirtLookup(rows, i) >= Len(rows)
        \/ rows[i].addr_context >= Len(rows)

GenerateTraceColMajor(rows) ==
    LET height == Len(rows)
        stale  == {i \in 1..height : IsStaleRow(rows, i)}
        Freq(x) ==
            Cardinality({i \in 1..height : rows[i].range_check = x})
            + Cardinality({i \in 1..height : ContextOrSegmentChange(rows[i])
                                            /\ NextVirtLookup(rows, i) = x})
        StaleFreq(ctx) ==
            Cardinality({i \in stale : rows[i].addr_context = ctx})
        Maybe(i) ==
            /\ i \notin stale
            /\ rows[i].filter = 1
            /\ \/ rows[i].context_first_change = 1
               \/ rows[i].segment_first_change = 1
               \/ rows[i].virtual_first_change = 1
    IN  [i \in 1..height |->
            [rows[i] EXCEPT
                !.counter = Fe(i - 1),
                !.frequencies = Fe(@ + Freq(i - 1)),
                !.is_stale = IF i \in stale THEN 1 ELSE @,
                !.stale_context_frequencies = Fe(@ + StaleFreq(i - 1)),
                !.maybe_in_mem_after = IF Maybe(i) THEN 1 ELSE @,
                !.mem_after_filter =
                    IF Maybe(i) /\ KeptInMemAfter(rows[i]) THEN 1 ELSE @]]

\* The MemoryAfterStark values: address and limbs of the filtered rows.
ExtractMemAfter(rows) ==
    LET kept == SelectSeq(rows, LAMBDA r : r.mem_after_filter = 1)
    IN  [k \in 1..Len(kept) |->
            [address |-> Addr(kept[k].addr_context, kept[k].addr_segment,
                              kept[k].addr_virtual),
             value_limbs |-> kept[k].value_limbs]]

-----------------------------------------------------------------------------
(***************************************************************************)
(* eval_packed_generic: the constraints over a local row lv and the next   *)
(* row nv.  Each operator lists the polynomials yielded through one method *)
(* of the ConstraintConsumer; a constraint holds when its value is 0 in    *)
(* the field.                                                              *)
(***************************************************************************)

AddressUnchanged(lv) ==
    1 - lv.context_first_change - lv.segment_first_change - lv.virtual_first_change

\* yield_constr.constraint: every row (nv wraps to the first row).
PackedConstraints(lv, nv) ==
    LET au == AddressUnchanged(lv)
    IN  <<lv.filter * (lv.filter - 1),
          (1 - lv.filter) * (1 - lv.is_read),
          lv.context_first_change * (1 - lv.context_first_change),
          lv.segment_first_change * (1 - lv.segment_first_change),
          lv.virtual_first_change * (1 - lv.virtual_first_change),
          au * (1 - au),
          lv.mem_after_filter * (lv.mem_after_filter - 1)>>
        \o [i \in 1..VALUE_LIMBS |->
              (lv.mem_after_filter - lv.maybe_in_mem_after)
                * lv.preinitialized_segments * lv.value_limbs[i]]
        \o <<lv.timestamp * (lv.timestamp * lv.timestamp_inv - 1)>>

\* A slip: the virtual-address difference without its "- 1".
ComputedRangeCheckVirtNoDecrement(lv, nv) ==
      lv.context_first_change * (nv.addr_context - lv.addr_context - 1)
    + lv.segment_first_change * (nv.addr_segment - lv.addr_segment - 1)
    + lv.virtual_first_change * (nv.addr_virtual - lv.addr_virtual)
    + AddressUnchanged(lv) * (nv.timestamp - lv.timestamp)

\* computed_range_check: the difference, minus one, in the column that
\* changes first, or the timestamp difference when the address is unchanged.
ComputedRangeCheck(lv, nv) ==
      lv.context_first_change * (nv.addr_context - lv.addr_context - 1)
    + lv.segment_first_change * (nv.addr_segment - lv.addr_segment - 1)
    + lv.virtual_first_change * (nv.addr_virtual - lv.addr_virtual - 1)
    + AddressUnchanged(lv) * (nv.timestamp - lv.timestamp)

\* A slip: initialize_aux gated by address_unchanged instead of its negation.
ComputedInitializeAuxSameAddress(lv, nv) ==
    lv.preinitialized_segments * AddressUnchanged(lv) * nv.is_read

\* initialize_aux: the next row is the first access of its address, it is a
\* read, and its segment is not preinitialized.
ComputedInitializeAux(lv, nv) ==
    lv.preinitialized_segments * (1 - AddressUnchanged(lv)) * nv.is_read

\* A slip: the read flag taken from the local row.
ReadConsistencyLocalRead(lv, nv, i) ==
    lv.is_read * AddressUnchanged(lv) * (nv.value_limbs[i] - lv.value_limbs[i])

\* Limb i of a read equals the same limb of the previous access.
ReadConsistency(lv, nv, i) ==
    nv.is_read * AddressUnchanged(lv) * (nv.value_limbs[i] - lv.value_limbs[i])

\* yield_constr.constraint_transition: every row but the last.
PackedTransitionConstraints(lv, nv) ==
    LET au == AddressUnchanged(lv)
    IN  <<lv.segment_first_change * (nv.addr_context - lv.addr_context),
          lv.virtual_first_change * (nv.addr_context - lv.addr_context),
          lv.virtual_first_change * (nv.addr_segment - lv.addr_segment),
          au * (nv.addr_context - lv.addr_context),
          au * (nv.addr_segment - lv.addr_segment),
          au * (nv.addr_virtual - lv.addr_virtual),
          lv.range_check - ComputedRangeCheck(lv, nv),
          lv.preinitialized_segments_aux
            - (nv.addr_segment - AccountsLinkedList)
              * (nv.addr_segment - StorageLinkedList),
          lv.preinitialized_segments
            - (nv.addr_segment - Code) * (nv.addr_segment - TrieData)
              * lv.preinitialized_segments_aux,
          lv.initialize_aux - ComputedInitializeAux(lv, nv)>>
        \o FlattenSeq([i \in 1..VALUE_LIMBS |->
              <<ReadConsistency(lv, nv, i),
                lv.initialize_aux * nv.value_limbs[i]>>])
        \o <<lv.maybe_in_mem_after + lv.filter * (1 - au) * (lv.is_stale - 1),
             nv.counter - lv.counter - 1>>

\* yield_constr.constraint_first_row
PackedFirstRowConstraints(lv) == <<lv.counter>>

AllZero(cs) == \A k \in DOMAIN cs : Fe(cs[k]) = 0

\* The trace satisfies every constraint of the memory STARK.
TraceSatisfies(rows) ==
    LET n == Len(rows)
        NextOf(i) == IF i = n THEN rows[1] ELSE rows[i + 1]
    IN  /\ AllZero(PackedFirstRowConstraints(rows[1]))
        /\ \A i \in 1..n : AllZero(PackedConstraints(rows[i], NextOf(i)))
        /\ \A i \in 1..(n - 1) : AllZero(PackedTransitionConstraints(rows[i], rows[i + 1]))

\* lookups(): a lookup holds when every looked-up value is in the table
\* column and, for each table value x, the number of looking entries equal
\* to x is the sum of the frequencies of the table rows holding x.
LookupHolds(rows, candidates, lookingCount(_), TableValue(_), Frequency(_)) ==
    LET n == Len(rows)
        Weight(x) == SumFunction([j \in 1..n |->
                                     IF TableValue(j) = x THEN Frequency(j) ELSE 0])
    IN  \A x \in candidates \cup {TableValue(j) : j \in 1..n} :
            lookingCount(x) > 0 \/ Weight(x) > 0 =>
                /\ \E j \in 1..n : TableValue(j) = x
                /\ Fe(lookingCount(x)) = Fe(Weight(x))

\* Lookup 1: range_check of every row, and the next row's addr_virtual
\* (wrapping to the first row) filtered by
\* context_first_change + segment_first_change, against `counter`.
RangeCheckLookupHolds(rows) ==
    LET n == Len(rows)
        NextVirt(i) == IF i = n THEN rows[1].addr_virtual ELSE rows[i + 1].addr_virtual
        Looking(x) ==
            Cardinality({i \in 1..n : rows[i].range_check = x})
            + SumFunction([i \in 1..n |->
                  IF NextVirt(i) = x
                  THEN Fe(rows[i].context_first_change + rows[i].segment_first_change)
                  ELSE 0])
    IN  LookupHolds(rows, {rows[i].range_check : i \in 1..n} \cup {NextVirt(i) : i \in 1..n},
                    Looking, LAMBDA j : rows[j].counter,
                    LAMBDA j : rows[j].frequencies)

\* Lookup 2: addr_context + 1 filtered by is_stale, against stale_contexts.
StaleLookupHolds(rows) ==
    LET n == Len(rows)
        Looking(x) ==
            SumFunction([i \in 1..n |->
                IF Fe(rows[i].addr_context + 1) = x THEN rows[i].is_stale ELSE 0])
    IN  LookupHolds(rows, {Fe(rows[i].addr_context + 1) : i \in 1..n},
                    Looking, LAMBDA j : rows[j].stale_contexts,
                    LAMBDA j : rows[j].stale_context_frequencies)

-----------------------------------------------------------------------------
(***************************************************************************)
(* The columns and filters of the cross-table lookups the memory table     *)
(* takes part in.  A filter is a field element per row; a lookup sees the  *)
(* bag of the rows' columns, each counted with its filter value.          *)
(***************************************************************************)

\* ctl_data: the operation as the CPU sends it.
CtlData(row) ==
    <<row.is_read, row.addr_context, row.addr_segment, row.addr_virtual>>
        \o row.value_limbs \o <<row.timestamp>>

\* ctl_filter: the active operations.
CtlFilter(row) == row.filter

\* ctl_looking_mem: an address and its value, as MemBefore and MemAfter hold them.
CtlLookingMem(row) ==
    <<row.addr_context, row.addr_segment, row.addr_virtual>> \o row.value_limbs

\* ctl_filter_mem_before: 1 - timestamp * timestamp_inv, the timestamp-0 rows.
CtlFilterMemBefore(row) == 1 - row.timestamp * row.timestamp_inv

\* ctl_context_pruning_looking: stale_contexts - 1, filtered by is_pruned.
CtlContextPruning(row) == row.stale_contexts - 1
CtlFilterPruned(row) == row.is_pruned

\* ctl_filter_mem_after: the final values.
CtlFilterMemAfter(row) == row.mem_after_filter

\* The bag a lookup sees: each value of Columns counted with the sum of the
\* filter values of the rows that carry it.
CtlView(rows, Filter(_), Columns(_)) ==
    LET Sel == {i \in DOMAIN rows : Fe(Filter(rows[i])) # 0}
    IN  [x \in {Columns(rows[i]) : i \in Sel} |->
            SumFunction([i \in {j \in Sel : Columns(rows[j]) = x} |-> Fe(Filter(rows[i]))])]

=============================================================================
