------------------------ MODULE MemoryStarkSoundness ------------------------
(***************************************************************************)
(* Soundness of the memory STARK's constraints, one transition at a time.  *)
(*                                                                         *)
(* A dishonest prover writes any pair of consecutive rows (lv, nv).  It    *)
(* chooses the columns of a frame freely; every column that a constraint   *)
(* of the form `column - expression` defines (range_check,                 *)
(* preinitialized_segments_aux, preinitialized_segments, initialize_aux,  *)
(* maybe_in_mem_after, timestamp_inv) has only one value the verifier      *)
(* accepts, and the prover is given that value, solved from the packed     *)
(* constraint itself.  The verifier accepts the pair when every packed     *)
(* constraint of eval_packed_generic holds and the range-check lookup      *)
(* finds range_check (and, after a context or segment change, the next     *)
(* addr_virtual) among the counter values 0..Height-1.                    *)
(*                                                                         *)
(* The properties state what an accepted pair must mean for memory: the    *)
(* soundness promised by spec.md sections 3 and 4.4-4.6.  The stale-       *)
(* context lookup is left out: the stale_contexts table it looks into is   *)
(* not constrained by this STARK.                                         *)
(***************************************************************************)
EXTENDS MemoryStark

CONSTANTS
    Height,   \* the trace height: counter runs over 0..Height-1
    Frames    \* the prover's free choices: records [lv, nv] of column values

ASSUME Height \in 1..(FieldOrder - 1)

\* Every column of a row that eval_packed_generic reads.
ZeroRow ==
    [filter |-> 0, timestamp |-> 0, timestamp_inv |-> 0, is_read |-> 0,
     addr_context |-> 0, addr_segment |-> 0, addr_virtual |-> 0,
     value_limbs |-> [i \in 1..VALUE_LIMBS |-> 0],
     context_first_change |-> 0, segment_first_change |-> 0,
     virtual_first_change |-> 0, range_check |-> 0,
     preinitialized_segments_aux |-> 0, preinitialized_segments |-> 0,
     initialize_aux |-> 0, counter |-> 0, is_stale |-> 0,
     maybe_in_mem_after |-> 0, mem_after_filter |-> 0]

\* A row with the free columns of `free` and 0 elsewhere.
RowWith(free) ==
    [c \in DOMAIN ZeroRow |-> IF c \in DOMAIN free THEN free[c] ELSE ZeroRow[c]]

\* timestamp_inv as the prover computes it, for every field element.
InverseTable == [x \in 0..(FieldOrder - 1) |-> TryInverse(x)]

\* The only value of column c that satisfies transition constraint k,
\* `c - E(lv, nv)`, in which c does not occur otherwise.
SolveColumn(lv, nv, c, k) ==
    [lv EXCEPT ![c] =
        Fe(0 - PackedTransitionConstraints([lv EXCEPT ![c] = 0], nv)[k])]

\* The local row completed with the columns the constraints define, in the
\* order they depend on each other.  A frame that leaves mem_after_filter
\* out gets maybe_in_mem_after, which meets its constraints.
CompleteLocal(free, nv) ==
    LET l0 == [RowWith(free) EXCEPT !.timestamp_inv = InverseTable[Fe(free.timestamp)]]
        l1 == SolveColumn(l0, nv, "range_check", 7)
        l2 == SolveColumn(l1, nv, "preinitialized_segments_aux", 8)
        l3 == SolveColumn(l2, nv, "preinitialized_segments", 9)
        l4 == SolveColumn(l3, nv, "initialize_aux", 10)
        l5 == SolveColumn(l4, nv, "maybe_in_mem_after", 11 + 2 * VALUE_LIMBS)
    IN  IF "mem_after_filter" \in DOMAIN free THEN l5
        ELSE [l5 EXCEPT !.mem_after_filter = l5.maybe_in_mem_after]

CompleteNext(free) ==
    [RowWith(free) EXCEPT !.timestamp_inv = InverseTable[Fe(free.timestamp)], !.counter = 1]

\* What the verifier checks of a pair: the packed constraints and the
\* range-check lookup into counter.
Accepted(l, n) ==
    /\ AllZero(PackedFirstRowConstraints(l))
    /\ AllZero(PackedConstraints(l, n))
    /\ AllZero(PackedTransitionConstraints(l, n))
    /\ l.range_check \in 0..(Height - 1)
    /\ Fe(l.context_first_change + l.segment_first_change) # 0 =>
           n.addr_virtual \in 0..(Height - 1)

VARIABLES
    lv, nv,   \* the pair of rows the prover committed to
    verdict   \* "pending", then "accepted" or "rejected"

vars == <<lv, nv, verdict>>

Init ==
    /\ \E f \in Frames :
          /\ nv = CompleteNext(f.nv)
          /\ lv = CompleteLocal(f.lv, CompleteNext(f.nv))
    /\ verdict = "pending"

\* The verifier evaluates the constraints on the committed pair.
Verify ==
    /\ verdict = "pending"
    /\ verdict' = IF Accepted(lv, nv) THEN "accepted" ELSE "rejected"
    /\ UNCHANGED <<lv, nv>>

Spec == Init /\ [][Verify]_vars

RowAddr(r) == <<r.addr_context, r.addr_segment, r.addr_virtual>>
RowKey(r) == RowAddr(r) \o <<r.timestamp>>

-----------------------------------------------------------------------------

\* The "purportedly-ordered log" is ordered: an accepted pair never goes
\* back in (context, segment, virtual, timestamp), whatever first-change
\* flags the prover claims (the no-change and range-check constraints).
AccessesInOrder ==
    verdict = "accepted" => RowKey(lv) = RowKey(nv) \/ LexLess(RowKey(lv), RowKey(nv))

\* Read consistency: in an accepted pair, a read of the address just
\* accessed returns the value of that access, limb for limb.
ReadsSeeLastWrite ==
    verdict = "accepted" /\ RowAddr(lv) = RowAddr(nv) /\ nv.is_read = 1 =>
        nv.value_limbs = lv.value_limbs

\* Zero initialisation: in an accepted pair, the first access of an
\* address outside the preinitialized segments, when it is a read, reads 0.
FirstReadIsZero ==
    verdict = "accepted" /\ RowAddr(lv) # RowAddr(nv) /\ nv.is_read = 1
        /\ nv.addr_segment \notin PREINITIALIZED_SEGMENTS_INDICES =>
        \A i \in 1..VALUE_LIMBS : nv.value_limbs[i] = 0

\* A nonzero final value is never dropped: in an accepted pair where the
\* address changes, the last access of the address carries
\* mem_after_filter = maybe_in_mem_after whenever its value is nonzero, as
\* the comment on the mem_after_filter constraint says ("equal to
\* maybe_in_mem_after if ... value is not zero") and as
\* generate_trace_col_major sets it.
MemAfterKeepsNonzeroValues ==
    verdict = "accepted" /\ RowAddr(lv) # RowAddr(nv) /\ IsNonZeroValue(lv.value_limbs) =>
        lv.mem_after_filter = lv.maybe_in_mem_after

=============================================================================
