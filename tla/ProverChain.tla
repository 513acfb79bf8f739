---------------------------- MODULE ProverChain ----------------------------
(***************************************************************************)
(* zero_bin prover: `prove` proves a list of blocks concurrently, each    *)
(* block handing its proof to the next through a oneshot channel.          *)
(*                                                                         *)
(* Iteration k of the loop creates channel k, gives its sender to the      *)
(* future of block k and the receiver of channel k-1 (`prev.take()`) to    *)
(* the same future; the receiver of the last channel stays in `prev` until *)
(* `prove` returns.  The futures run in a FuturesOrdered drained by        *)
(* try_collect, which yields them in block order and, at the first error,  *)
(* returns it and drops every future still running.                       *)
(*                                                                         *)
(* A block future (BlockProverInput::prove, then the closure that writes   *)
(* and sends the proof) is a sequence of awaits; each external await (the  *)
(* input, the paladin proving directives, the disk write) may fail.  A     *)
(* future that returns or is dropped drops the sender and the receiver it  *)
(* still holds.                                                            *)
(***************************************************************************)
EXTENDS Integers, Sequences

CONSTANT N   \* the number of blocks in block_prover_inputs

ASSUME N \in Nat \ {0}

Blocks == 1..N

VARIABLES
    pc,           \* pc[k]: where the future of block k is
    failed,       \* failed[k]: the step at which block k's own work failed, or "none"
    outcome,      \* outcome[k]: "pending", "ok" or "err" once the future returned
    chan,         \* chan[k]: channel k, "open", "sent" or "closed" (sender dropped)
    rxAlive,      \* rxAlive[k]: the receiver of channel k still exists
    basedOn,      \* basedOn[k]: the block whose proof block k was proved on (0: previous_proof, -1: none)
    collected,    \* the block numbers try_collect has taken, in order
    result,       \* what prove returns: "pending", "ok" or "err"
    hasPrevious,  \* previous_proof is Some
    outputDir,    \* proof_output_dir is Some
    testOnly,     \* prover_config.test_only: prove_test instead of prove
    file          \* file[k]: block k's proof file: "none", "empty", "writing", "partial",
                  \* "inflight" (last chunk handed off), "full" or "lost"

vars == <<pc, failed, outcome, chan, rxAlive, basedOn, collected, result,
          hasPrevious, outputDir, testOnly, file>>
config == <<hasPrevious, outputDir, testOnly>>



\* A slip: the last receiver dropped at the end of the loop.
InitRxAliveLastDropped == [k \in Blocks |-> k # N]

\* The receivers at the start of try_collect: every one is held, the last by `prev`.
InitRxAlive == [k \in Blocks |-> TRUE]

Init ==
    /\ pc = [k \in Blocks |-> "input"]
    /\ failed = [k \in Blocks |-> "none"]
    /\ outcome = [k \in Blocks |-> "pending"]
    /\ chan = [k \in Blocks |-> "open"]
    /\ rxAlive = InitRxAlive
    /\ basedOn = [k \in Blocks |-> -1]
    /\ collected = <<>>
    /\ result = "pending"
    /\ hasPrevious \in BOOLEAN
    /\ outputDir \in BOOLEAN
    /\ testOnly \in BOOLEAN
    /\ file = [k \in Blocks |-> "none"]

\* The future of block k returns an error: its sender (if unsent) and the
\* receiver of channel k-1 it holds are dropped with it.
Return(k, res) ==
    /\ pc' = [pc EXCEPT ![k] = "done"]
    /\ outcome' = [outcome EXCEPT ![k] = res]
    /\ chan' = [chan EXCEPT ![k] = IF @ = "open" THEN "closed" ELSE @]
    /\ rxAlive' = IF k > 1 THEN [rxAlive EXCEPT ![k - 1] = FALSE] ELSE rxAlive

\* An external await of block k fails at step s.
OwnFailure(k, s) ==
    /\ failed' = [failed EXCEPT ![k] = s]
    /\ Return(k, "err")
    /\ UNCHANGED <<basedOn, collected, result, config, file>>

Advance(k, from, to) ==
    /\ pc[k] = from
    /\ pc' = [pc EXCEPT ![k] = to]

\* block_prover_input.await?
AwaitInput(k) ==
    /\ pc[k] = "input"
    /\ \/ Advance(k, "input", "batches")
          /\ UNCHANGED <<failed, outcome, chan, rxAlive, basedOn, collected, result,
                         config, file>>
       \/ OwnFailure(k, "input")

\* prove: trace_decoder::entrypoint, the segment and batch aggregation
\* directives, the AggProof match and the block number conversion, all
\* before `previous` is awaited.
ProveBatches(k) ==
    /\ ~testOnly
    /\ pc[k] = "batches"
    /\ \/ Advance(k, "batches", "prev")
          /\ UNCHANGED <<failed, outcome, chan, rxAlive, basedOn, collected, result,
                         config, file>>
       \/ OwnFailure(k, "batches")

\* prove_test: trace_decoder::entrypoint and the witness simulation of
\* every batch, before `previous` is awaited.
SimulateBatches(k) ==
    /\ testOnly
    /\ pc[k] = "batches"
    /\ \/ Advance(k, "batches", "prev")
          /\ UNCHANGED <<failed, outcome, chan, rxAlive, basedOn, collected, result,
                         config, file>>
       \/ OwnFailure(k, "batches")

\* A slip: `previous` polled once and treated as absent when not ready.
AwaitPrevNonBlocking(k) ==
    /\ pc[k] = "prev"
    /\ basedOn' = [basedOn EXCEPT ![k] = IF k = 1 /\ hasPrevious THEN 0
                                          ELSE IF k > 1 /\ chan[k - 1] = "sent" THEN k - 1 ELSE -1]
    /\ Advance(k, "prev", "block_proof")
    /\ UNCHANGED <<failed, outcome, chan, rxAlive, collected, result, config, file>>

\* `previous` is awaited: the proof of block k-1 arrives, or its sender was
\* dropped and the RecvError is returned.  Block 1 has previous_proof or None.
AwaitPrev(k) ==
    /\ pc[k] = "prev"
    /\ IF k = 1
       THEN /\ basedOn' = [basedOn EXCEPT ![1] = IF hasPrevious THEN 0 ELSE -1]
            /\ Advance(k, "prev", "block_proof")
            /\ UNCHANGED <<failed, outcome, chan, rxAlive>>
       ELSE \/ /\ chan[k - 1] = "sent"
               /\ basedOn' = [basedOn EXCEPT ![k] = k - 1]
               /\ rxAlive' = [rxAlive EXCEPT ![k - 1] = FALSE]
               /\ Advance(k, "prev", "block_proof")
               /\ UNCHANGED <<failed, outcome, chan>>
            \/ /\ chan[k - 1] = "closed"
               /\ Return(k, "err")
               /\ UNCHANGED <<failed, basedOn>>
    /\ UNCHANGED <<collected, result, config, file>>

\* prove: the BlockProof directive on the previous proof.
BlockProof(k) ==
    /\ ~testOnly
    /\ pc[k] = "block_proof"
    /\ \/ Advance(k, "block_proof", IF outputDir THEN "write" ELSE "send")
          /\ UNCHANGED <<failed, outcome, chan, rxAlive, basedOn, collected, result,
                         config, file>>
       \/ OwnFailure(k, "block_proof")

\* prove returns or unwinds: the FuturesOrdered and every future in it are
\* dropped, with the senders and receivers they hold, and `prev`.
DropAll(res) ==
    /\ result' = res
    /\ pc' = [j \in Blocks |-> IF pc[j] = "done" THEN "done" ELSE "cancelled"]
    /\ chan' = [j \in Blocks |-> IF chan[j] = "open" THEN "closed" ELSE chan[j]]
    /\ rxAlive' = [j \in Blocks |-> FALSE]

\* prove_test: the block number converted with `expect` (a panic, which
\* unwinds the task polling prove), then dummy_proof()?.
DummyProof(k) ==
    /\ testOnly
    /\ pc[k] = "block_proof"
    /\ \/ Advance(k, "block_proof", IF outputDir THEN "write" ELSE "send")
          /\ UNCHANGED <<failed, outcome, chan, rxAlive, basedOn, collected, result,
                         config, file>>
       \/ OwnFailure(k, "block_proof")
       \/ /\ failed' = [failed EXCEPT ![k] = "panic"]
          /\ DropAll("panicked")
          /\ UNCHANGED <<outcome, basedOn, collected, config, file>>

\* write_proof_to_dir: serde_json::to_vec and create_dir_all of the parent.
WriteProofCreateDir(k) ==
    /\ pc[k] = "write"
    /\ \/ Advance(k, "write", "create")
          /\ UNCHANGED <<failed, outcome, chan, rxAlive, basedOn, collected, result,
                         config, file>>
       \/ OwnFailure(k, "write")

\* File::create: the file exists, empty (an earlier one is truncated).
WriteProofCreateFile(k) ==
    /\ pc[k] = "create"
    /\ \/ /\ Advance(k, "create", "write_all")
          /\ file' = [file EXCEPT ![k] = "empty"]
          /\ UNCHANGED <<failed, outcome, chan, rxAlive, basedOn, collected, result,
                         config>>
       \/ OwnFailure(k, "write")

\* f.write_all on a tokio File, which is never flushed.  Each poll_write
\* first waits for the chunk handed off before and returns its error, then
\* copies the next chunk into the File's buffer, spawns the blocking write
\* and returns Ok at once.  So a failed earlier chunk is "Failed to write
\* proof to disk" with part of the bytes in the file, while write_all
\* returns Ok as soon as the last chunk is handed off ("inflight").
WriteProofWriteAll(k) ==
    /\ pc[k] = "write_all"
    /\ \/ /\ file[k] = "empty"
          /\ file' = [file EXCEPT ![k] = "writing"]
          /\ UNCHANGED <<pc, failed, outcome, chan, rxAlive, basedOn, collected, result,
                         config>>
       \/ /\ Advance(k, "write_all", "send")
          /\ file' = [file EXCEPT ![k] = "inflight"]
          /\ UNCHANGED <<failed, outcome, chan, rxAlive, basedOn, collected, result,
                         config>>
       \/ /\ file[k] = "writing"
          /\ failed' = [failed EXCEPT ![k] = "write"]
          /\ file' = [file EXCEPT ![k] = "partial"]
          /\ Return(k, "err")
          /\ UNCHANGED <<basedOn, collected, result, config>>

\* The blocking write of the last chunk, spawned by poll_write, finishes
\* whatever became of the future or of prove: the file is complete, or
\* the write failed and, with no flush or later write to report it, the
\* error is dropped with the File.
LastChunkWritten(k) ==
    /\ file[k] = "inflight"
    /\ file' \in {[file EXCEPT ![k] = "full"], [file EXCEPT ![k] = "lost"]}
    /\ UNCHANGED <<pc, failed, outcome, chan, rxAlive, basedOn, collected, result, config>>

\* write_proof_to_dir(output_dir, &proof).await?, when proof_output_dir is given.
WriteProof(k) ==
    \/ WriteProofCreateDir(k)
    \/ WriteProofCreateFile(k)
    \/ WriteProofWriteAll(k)

\* tx.send(proof): fails when the receiver is gone ("Failed to send proof").
SendProof(k) ==
    /\ pc[k] = "send"
    /\ IF rxAlive[k]
       THEN /\ chan' = [chan EXCEPT ![k] = "sent"]
            /\ pc' = [pc EXCEPT ![k] = "done"]
            /\ outcome' = [outcome EXCEPT ![k] = "ok"]
            /\ UNCHANGED rxAlive
       ELSE Return(k, "err")
    /\ UNCHANGED <<failed, basedOn, collected, result, config, file>>

BlockStep(k) ==
    \/ AwaitInput(k) \/ ProveBatches(k) \/ SimulateBatches(k) \/ AwaitPrev(k)
    \/ BlockProof(k) \/ DummyProof(k) \/ WriteProof(k) \/ SendProof(k)

\* A slip: the stream taken as exhausted one result early.
FinishOffByOne ==
    /\ result = "pending"
    /\ Len(collected) >= N - 1
    /\ result' = "ok"
    /\ rxAlive' = [j \in Blocks |-> FALSE]
    /\ UNCHANGED <<pc, failed, outcome, chan, basedOn, collected, config, file>>

\* A slip: the results of the stream taken without stopping at an error.
CollectIgnoringErrors ==
    /\ result = "pending"
    /\ Len(collected) < N
    /\ pc[Len(collected) + 1] = "done"
    /\ collected' = Append(collected, Len(collected) + 1)
    /\ UNCHANGED <<pc, chan, rxAlive, result, failed, outcome, basedOn, config, file>>

\* A slip: the index of the next result off by one.
CollectOffByOne ==
    /\ result = "pending"
    /\ Len(collected) < N
    /\ LET k == Len(collected)
       IN  /\ k \in Blocks /\ pc[k] = "done" /\ outcome[k] = "ok"
           /\ collected' = Append(collected, k)
    /\ UNCHANGED <<pc, chan, rxAlive, result, failed, outcome, basedOn, config, file>>

\* try_collect takes the next result of the FuturesOrdered, the future of
\* the block after the last one taken, once that future has returned.  An
\* error ends prove: the stream and every future in it are dropped, and
\* with them the senders and receivers they hold, and `prev`.
Collect ==
    /\ result = "pending"
    /\ Len(collected) < N
    /\ LET k == Len(collected) + 1
       IN  /\ pc[k] = "done"
           /\ IF outcome[k] = "ok"
              THEN /\ collected' = Append(collected, k)
                   /\ UNCHANGED <<pc, chan, rxAlive, result>>
              ELSE DropAll("err") /\ UNCHANGED collected
    /\ UNCHANGED <<failed, outcome, basedOn, config, file>>

\* The stream is exhausted: prove returns the collected results, and `prev`
\* (the receiver of the last channel) is dropped.
Finish ==
    /\ result = "pending"
    /\ Len(collected) = N
    /\ result' = "ok"
    /\ rxAlive' = [j \in Blocks |-> FALSE]
    /\ UNCHANGED <<pc, failed, outcome, chan, basedOn, collected, config, file>>

Next ==
    \/ \E k \in Blocks : BlockStep(k)
    \/ \E k \in Blocks : LastChunkWritten(k)
    \/ Collect
    \/ Finish

\* The tokio executor polls every woken future, and each external await
\* (input, paladin directives, disk write) is assumed to complete.
Fairness ==
    /\ \A k \in Blocks : WF_vars(BlockStep(k))
    /\ WF_vars(Collect)
    /\ WF_vars(Finish)

Spec == Init /\ [][Next]_vars /\ Fairness

-----------------------------------------------------------------------------

\* A successful prove returns every block, in block order, and each proof
\* was built on the proof of the block before it (block 1 on
\* previous_proof when one was given): no block's failure is swallowed and
\* no block is proved without its predecessor.
OkMeansChainProved ==
    result = "ok" =>
        /\ collected = [i \in Blocks |-> i]
        /\ \A k \in Blocks :
              /\ outcome[k] = "ok"
              /\ basedOn[k] = IF k = 1 THEN (IF hasPrevious THEN 0 ELSE -1) ELSE k - 1

\* Proofs leave the chain in block order: block k sends its proof only
\* after block k-1 sent its own, although all the futures run at once.
ProofsSentInOrder ==
    \A k \in Blocks \ {1} : chan[k] = "sent" => chan[k - 1] = "sent"

\* prove returns an error only when some block's own work failed (its
\* input, its proving, its block proof or its write); a send or receive
\* failure alone, caused by the wiring of the channels, never fails a run.
NoSpuriousFailure ==
    result = "err" => \E k \in Blocks : failed[k] # "none"

\* A successful prove with proof_output_dir has every block's proof file
\* complete on disk: write_proof_to_dir returning Ok ("Failed to write
\* proof to disk" otherwise) is taken for a written proof.
OkMeansProofFilesWritten ==
    result = "ok" /\ outputDir => \A k \in Blocks : file[k] = "full"

\* The proof files appear in block order, whatever fails or is cancelled:
\* block k creates its file only after block k-1's write_all returned, all
\* its bytes handed to the file, so a directory left by a failed run holds
\* the files of a prefix of the blocks, written or in flight, and at most
\* one file begun after them.
ProofFilesHandedOffInOrder ==
    \A k \in Blocks \ {1} :
        file[k] # "none" => file[k - 1] \in {"inflight", "full", "lost"}

\* prove always returns, or unwinds on a panic: no future waits forever on
\* a channel whose sender is gone, and try_collect drains the stream.
Terminates == <>(result # "pending")

-----------------------------------------------------------------------------
(***************************************************************************)
(* Refinement: the concurrent chain implements BlockChainProof.  A block   *)
(* counts as proved once the proofs of it and of every block before it    *)
(* have been sent down the chain.                                          *)
(***************************************************************************)

\* The length of the longest prefix of blocks whose proofs were sent.
SentPrefix ==
    LET Sent(k) == \A j \in 1..k : chan[j] = "sent"
    IN  CHOOSE k \in 0..N : Sent(k) /\ (k = N \/ ~Sent(k + 1))

Sequential == INSTANCE BlockChainProof WITH
    proofs       <- [i \in 1..SentPrefix |-> basedOn[i]],
    status       <- CASE result = "pending" -> "running"
                      [] result = "ok"      -> "done"
                      [] OTHER              -> "failed",
    withPrevious <- hasPrevious

\* prove, with its futures running at once and its channels dropped at any
\* failure, behaves as the sequential chain: the proved prefix grows one
\* block at a time, each on its predecessor's proof, "ok" only once every
\* block is proved, and the run ends.
ImplementsSequentialChain == Sequential!Spec

=============================================================================
