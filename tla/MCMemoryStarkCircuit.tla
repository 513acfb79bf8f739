------------------------ MODULE MCMemoryStarkCircuit ------------------------
(***************************************************************************)
(* The prover evaluates eval_packed_generic on a pair of rows, the         *)
(* recursive verifier evaluates eval_ext_circuit on the same pair; both    *)
(* must obtain the same constraint values.                                 *)
(*                                                                         *)
(* Every constraint is a polynomial in the columns of lv and nv of degree  *)
(* at most 2 in each column (3 in all).  The pairs are enumerated one      *)
(* constraint family at a time: the columns of the family range over a    *)
(* grid (three points where a column has degree 2 in the family), every    *)
(* other column keeps a fixed value of its own, distinct from the grid.    *)
(***************************************************************************)
EXTENDS MemoryStarkCircuit

ASSUME VALUE_LIMBS = 2

Columns ==
    <<"filter", "is_read", "context_first_change", "segment_first_change",
      "virtual_first_change", "addr_context", "addr_segment", "addr_virtual",
      "timestamp", "timestamp_inv", "range_check", "limb1", "limb2",
      "preinitialized_segments_aux", "preinitialized_segments", "initialize_aux",
      "is_stale", "maybe_in_mem_after", "mem_after_filter", "counter">>

\* The value a column keeps outside its families: 4, 5, ... for lv and
\* 30, 31, ... for nv.
Generic(r, j) == IF r = "lv" THEN 3 + j ELSE 29 + j

Flags == {<<"lv", "context_first_change">>, <<"lv", "segment_first_change">>,
          <<"lv", "virtual_first_change">>}
Address(r) == {<<r, "addr_context">>, <<r, "addr_segment">>, <<r, "addr_virtual">>}

\* One entry per constraint family of eval_packed_generic / eval_ext_circuit.
Families ==
    { \* booleanity of filter, is_read, the flags, mem_after_filter; timestamp_inv
      [cols |-> Flags \cup {<<"lv", c>> : c \in {"filter", "is_read", "mem_after_filter",
                                                 "timestamp", "timestamp_inv"}},
       grid |-> 0..2],
      \* no change before the first-change column
      [cols |-> Flags \cup Address("lv") \cup Address("nv"), grid |-> 0..2],
      \* computed_range_check
      [cols |-> Flags \cup Address("lv") \cup Address("nv")
                      \cup {<<"lv", "timestamp">>, <<"nv", "timestamp">>, <<"lv", "range_check">>},
       grid |-> 0..1],
      \* preinitialized_segments_aux, preinitialized_segments, initialize_aux
      [cols |-> Flags \cup {<<"nv", "addr_segment">>, <<"nv", "is_read">>}
                      \cup {<<"lv", c>> : c \in {"preinitialized_segments_aux",
                                                 "preinitialized_segments", "initialize_aux"}},
       grid |-> 0..2],
      \* read consistency and zero initialisation, per limb
      [cols |-> Flags \cup {<<"nv", "is_read">>, <<"lv", "initialize_aux">>}
                      \cup {<<r, l>> : r \in {"lv", "nv"}, l \in {"limb1", "limb2"}},
       grid |-> 0..2],
      \* maybe_in_mem_after and the mem_after_filter constraints
      [cols |-> Flags \cup {<<"lv", c>> : c \in {"maybe_in_mem_after", "filter", "is_stale",
                                                 "mem_after_filter", "preinitialized_segments",
                                                 "limb1", "limb2"}},
       grid |-> 0..1],
      \* the counter column
      [cols |-> {<<"lv", "counter">>, <<"nv", "counter">>}, grid |-> 0..3] }

\* The row r of a pair whose family columns take the values of `assign`.
RowOf(r, assign) ==
    LET v(c) == LET j == CHOOSE k \in 1..Len(Columns) : Columns[k] = c
                IN  IF <<r, c>> \in DOMAIN assign THEN assign[<<r, c>>] ELSE Generic(r, j)
    IN  [filter |-> v("filter"), is_read |-> v("is_read"),
         context_first_change |-> v("context_first_change"),
         segment_first_change |-> v("segment_first_change"),
         virtual_first_change |-> v("virtual_first_change"),
         addr_context |-> v("addr_context"), addr_segment |-> v("addr_segment"),
         addr_virtual |-> v("addr_virtual"), timestamp |-> v("timestamp"),
         timestamp_inv |-> v("timestamp_inv"), range_check |-> v("range_check"),
         value_limbs |-> <<v("limb1"), v("limb2")>>,
         preinitialized_segments_aux |-> v("preinitialized_segments_aux"),
         preinitialized_segments |-> v("preinitialized_segments"),
         initialize_aux |-> v("initialize_aux"), is_stale |-> v("is_stale"),
         maybe_in_mem_after |-> v("maybe_in_mem_after"),
         mem_after_filter |-> v("mem_after_filter"), counter |-> v("counter")]

VARIABLES
    lv, nv,    \* the local and next rows of the evaluation frame
    packed,    \* what eval_packed_generic yielded, <<>> before it ran
    circuit    \* what eval_ext_circuit yielded, <<>> before it ran

vars == <<lv, nv, packed, circuit>>

Yields(all, transition, first) ==
    [constraint |-> all, transition |-> transition, first_row |-> first]

Init ==
    /\ \E f \in Families : \E assign \in [f.cols -> f.grid] :
          lv = RowOf("lv", assign) /\ nv = RowOf("nv", assign)
    /\ packed = <<>>
    /\ circuit = <<>>

EvalPacked ==
    /\ packed = <<>>
    /\ packed' = Yields(PackedConstraints(lv, nv), PackedTransitionConstraints(lv, nv),
                        PackedFirstRowConstraints(lv))
    /\ UNCHANGED <<lv, nv, circuit>>

EvalCircuit ==
    /\ circuit = <<>>
    /\ circuit' = Yields(CircuitConstraints(lv, nv), CircuitTransitionConstraints(lv, nv),
                         CircuitFirstRowConstraints(lv))
    /\ UNCHANGED <<lv, nv, packed>>

Next == EvalPacked \/ EvalCircuit

Spec == Init /\ [][Next]_vars

\* The recursive verifier checks what the prover proved: eval_ext_circuit
\* yields, through each method of the RecursiveConstraintConsumer, the same
\* field elements in the same order as eval_packed_generic.
ModesAgree ==
    packed # <<>> /\ circuit # <<>> =>
        \A k \in {"constraint", "transition", "first_row"} :
            SameConstraints(packed[k], circuit[k])

=============================================================================
