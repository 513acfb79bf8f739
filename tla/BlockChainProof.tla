--------------------------- MODULE BlockChainProof ---------------------------
(***************************************************************************)
(* What `prove` (zero_bin/prover/src/lib.rs) promises, without its         *)
(* concurrency: the blocks are proved one after the other, in order, each  *)
(* on the proof of the block before it (block 1 on previous_proof, when    *)
(* one is given), until every block is proved or the run fails; and the   *)
(* run ends.                                                               *)
(***************************************************************************)
EXTENDS Integers, Sequences

CONSTANT N   \* the number of blocks

VARIABLES
    proofs,       \* proofs[k]: the block proof k was built on (0: previous_proof, -1: none)
    status,       \* "running", "done" or "failed"
    withPrevious  \* previous_proof is Some

vars == <<proofs, status, withPrevious>>

Init ==
    /\ proofs = <<>>
    /\ status = "running"
    /\ withPrevious \in BOOLEAN

\* The next block is proved on the proof of the block before it.
ProveNext ==
    /\ status = "running"
    /\ Len(proofs) < N
    /\ proofs' = Append(proofs, IF proofs # <<>> THEN Len(proofs)
                                ELSE IF withPrevious THEN 0 ELSE -1)
    /\ UNCHANGED <<status, withPrevious>>

\* Any step of any block may fail, and the run with it.
Fail ==
    /\ status = "running"
    /\ status' = "failed"
    /\ UNCHANGED <<proofs, withPrevious>>

\* Every block is proved.
Complete ==
    /\ status = "running"
    /\ Len(proofs) = N
    /\ status' = "done"
    /\ UNCHANGED <<proofs, withPrevious>>

Next == ProveNext \/ Fail \/ Complete

Spec == Init /\ [][Next]_vars /\ WF_vars(Next)

====
