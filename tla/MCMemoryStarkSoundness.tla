----------------------- MODULE MCMemoryStarkSoundness -----------------------
(***************************************************************************)
(* The prover's choices for the soundness runs.  Contexts and virtual      *)
(* addresses range over {0, 1}, segments over {Code, 1} (one               *)
(* preinitialized, one not), timestamps over {1, 2}, each of the two       *)
(* 1-bit limbs over {0, 1}, and the first-change flags over {0, 1}: enough *)
(* for every way two addresses can compare and for a prover who claims    *)
(* the wrong flag.  A limb of 1 bit and the field of 101 elements keep    *)
(* every difference of these columns far from a wrap around the field.     *)
(***************************************************************************)
EXTENDS MemoryStarkSoundness

ASSUME VALUE_LIMBS = 2 /\ LimbBits = 1

Bit == {0, 1}
Segs == {Code, 1}
Limbs == {<<a, b>> : a \in Bit, b \in Bit}

\* Ordering, read consistency and zero initialisation: every address,
\* timestamp and flag of both rows, every value of the next row; the local
\* row is an active write of one of two values that differ in every limb.
OrderingFrames ==
    { [lv |-> [filter |-> 1, is_read |-> 0, addr_context |-> c0, addr_segment |-> s0,
               addr_virtual |-> v0, timestamp |-> t0, value_limbs |-> l0,
               context_first_change |-> fl[1], segment_first_change |-> fl[2],
               virtual_first_change |-> fl[3]],
       nv |-> [filter |-> 1, is_read |-> r1, addr_context |-> c1, addr_segment |-> s1,
               addr_virtual |-> v1, timestamp |-> t1, value_limbs |-> l1]] :
        c0 \in Bit, s0 \in Segs, v0 \in Bit, t0 \in {1, 2}, l0 \in {<<0, 1>>, <<1, 0>>},
        fl \in Bit \X Bit \X Bit,
        c1 \in Bit, s1 \in Segs, v1 \in Bit, t1 \in {1, 2}, r1 \in Bit, l1 \in Limbs }

\* The final-state filter: the local row's activity, staleness, value,
\* segment and mem_after_filter, and the next row's context and segment.
MemAfterFrames ==
    { [lv |-> [filter |-> f, is_read |-> 1 - f, addr_context |-> c0, addr_segment |-> s0,
               timestamp |-> 1, value_limbs |-> l0,
               context_first_change |-> fl[1], segment_first_change |-> fl[2],
               virtual_first_change |-> fl[3], is_stale |-> st, mem_after_filter |-> m],
       nv |-> [filter |-> 1, addr_context |-> c1, addr_segment |-> s1, timestamp |-> 2]] :
        f \in Bit, c0 \in Bit, s0 \in Segs, l0 \in Limbs,
        fl \in Bit \X Bit \X Bit, st \in Bit, m \in Bit, c1 \in Bit, s1 \in Segs }

=============================================================================
