------------------------- MODULE MemoryStarkCircuit -------------------------
(***************************************************************************)
(* eval_ext_circuit: the recursive-circuit form of the memory constraints. *)
(* Every constraint is built from CircuitBuilder calls on extension        *)
(* targets; the recursive verifier evaluates these gates where the prover  *)
(* evaluated eval_packed_generic.  The two must yield the same polynomial, *)
(* constraint for constraint and in the same order.                        *)
(*                                                                         *)
(* The builder calls are given their arithmetic meaning (plonky2's         *)
(* CircuitBuilder, not part of this repository); the targets are evaluated *)
(* on base-field values, which suffices to compare two polynomials.        *)
(***************************************************************************)
EXTENDS MemoryStark

one_extension == 1
add_extension(a, b) == a + b
sub_extension(a, b) == a - b
mul_extension(a, b) == a * b
mul_add_extension(a, b, c) == a * b + c
mul_sub_extension(a, b, c) == a * b - c
add_const_extension(a, c) == a + c
mul_many_extension(s) == FoldLeft(LAMBDA x, y : x * y, 1, s)

\* address_unchanged, built by three subtractions from one.
CircuitAddressUnchanged(lv) ==
    sub_extension(sub_extension(sub_extension(one_extension, lv.context_first_change),
                                lv.segment_first_change),
                  lv.virtual_first_change)

\* A plausible slip: the timestamp difference written like the three
\* address differences, with one subtracted.
CircuitComputedRangeCheckTsMinusOne(lv, nv) ==
    LET diff(n, l) == sub_extension(sub_extension(n, l), one_extension)
    IN  add_extension(
          add_extension(
            mul_add_extension(lv.context_first_change,
                              diff(nv.addr_context, lv.addr_context),
                              mul_extension(lv.segment_first_change,
                                            diff(nv.addr_segment, lv.addr_segment))),
            mul_extension(lv.virtual_first_change, diff(nv.addr_virtual, lv.addr_virtual))),
          mul_extension(CircuitAddressUnchanged(lv), diff(nv.timestamp, lv.timestamp)))

\* computed_range_check: context_diff, segment_range_check, virtual_range_check
\* and timestamp_range_check summed through mul_add_extension and two adds.
CircuitComputedRangeCheck(lv, nv) ==
    LET diff(n, l) == sub_extension(sub_extension(n, l), one_extension)
    IN  add_extension(
          add_extension(
            mul_add_extension(lv.context_first_change,
                              diff(nv.addr_context, lv.addr_context),
                              mul_extension(lv.segment_first_change,
                                            diff(nv.addr_segment, lv.addr_segment))),
            mul_extension(lv.virtual_first_change, diff(nv.addr_virtual, lv.addr_virtual))),
          mul_extension(CircuitAddressUnchanged(lv),
                        sub_extension(nv.timestamp, lv.timestamp)))

\* The targets passed to yield_constr.constraint, in the order of the code.
CircuitConstraints(lv, nv) ==
    LET au   == CircuitAddressUnchanged(lv)
        flag(x) == mul_extension(x, sub_extension(one_extension, x))
        mem_after_filter_diff == sub_extension(lv.mem_after_filter, lv.maybe_in_mem_after)
    IN  <<mul_sub_extension(lv.filter, lv.filter, lv.filter),
          mul_extension(sub_extension(one_extension, lv.filter),
                        sub_extension(one_extension, lv.is_read)),
          flag(lv.context_first_change),
          flag(lv.segment_first_change),
          flag(lv.virtual_first_change),
          flag(au),
          mul_sub_extension(lv.mem_after_filter, lv.mem_after_filter, lv.mem_after_filter)>>
        \o [i \in 1..VALUE_LIMBS |->
              mul_extension(mem_after_filter_diff,
                            mul_extension(lv.preinitialized_segments, lv.value_limbs[i]))]
        \o <<mul_sub_extension(lv.timestamp,
                               mul_extension(lv.timestamp, lv.timestamp_inv),
                               lv.timestamp)>>

\* The targets passed to yield_constr.constraint_transition, in order.
CircuitTransitionConstraints(lv, nv) ==
    LET au     == CircuitAddressUnchanged(lv)
        not_au == sub_extension(one_extension, au)
        ctx_d  == sub_extension(nv.addr_context, lv.addr_context)
        seg_d  == sub_extension(nv.addr_segment, lv.addr_segment)
        virt_d == sub_extension(nv.addr_virtual, lv.addr_virtual)
        seg(c) == add_const_extension(nv.addr_segment, -c)
        rhs    == mul_extension(lv.filter, not_au)
    IN  <<mul_extension(lv.segment_first_change, ctx_d),
          mul_extension(lv.virtual_first_change, ctx_d),
          mul_extension(lv.virtual_first_change, seg_d),
          mul_extension(au, ctx_d),
          mul_extension(au, seg_d),
          mul_extension(au, virt_d),
          sub_extension(lv.range_check, CircuitComputedRangeCheck(lv, nv)),
          sub_extension(lv.preinitialized_segments_aux,
                        mul_extension(seg(AccountsLinkedList), seg(StorageLinkedList))),
          sub_extension(lv.preinitialized_segments,
                        mul_many_extension(<<seg(Code), seg(TrieData),
                                             lv.preinitialized_segments_aux>>)),
          sub_extension(lv.initialize_aux,
                        mul_extension(lv.preinitialized_segments,
                                      mul_extension(not_au, nv.is_read)))>>
        \o FlattenSeq([i \in 1..VALUE_LIMBS |->
              <<mul_extension(nv.is_read,
                              mul_extension(au, sub_extension(nv.value_limbs[i],
                                                              lv.value_limbs[i]))),
                mul_extension(lv.initialize_aux, nv.value_limbs[i])>>])
        \o <<add_extension(lv.maybe_in_mem_after,
                           mul_sub_extension(rhs, lv.is_stale, rhs)),
             sub_extension(sub_extension(nv.counter, lv.counter), one_extension)>>

\* The target passed to yield_constr.constraint_first_row.
CircuitFirstRowConstraints(lv) == <<lv.counter>>

\* Two lists of constraint values are the same list of field elements.
SameConstraints(cs, ds) ==
    Len(cs) = Len(ds) /\ \A i \in 1..Len(cs) : Fe(cs[i]) = Fe(ds[i])

=============================================================================
