# TLA+ models of zk_evm: the memory STARK and the block prover chain

This directory holds TLA+ models of two parts of the repository, together
with the TLC configurations that check them:
- the memory STARK of `evm_arithmetization`
  (`src/evm_arithmetization/src/memory/memory_stark.rs`): the trace
  generator, the packed and recursive-circuit constraint evaluators, the
  lookups, and the soundness of the constraints against a dishonest prover;
- `prove` in `src/zero_bin/prover/src/lib.rs`, which proves a list of blocks
  concurrently and chains each block proof to the next.

A plan for the rest of the repository closes this file.

## 1. Inventory of the system

| Part | Source | State | Operations |
|------|--------|-------|------------|
| Memory trace generation | `memory_stark.rs` 104-462 | the list of `MemoryOp`s; the rows of `MemoryColumnsView` | `generate_trace`: push mem_before writes → `generate_trace_row_major` (sort, `fill_gaps`, sort, `pad_memory_ops`, sort, `into_row`, `generate_first_change_flags_and_rc`) → `insert_stale_contexts` → transpose → `generate_trace_col_major` → mem_after extraction |
| Packed constraints | `memory_stark.rs` 473-625 | a pair of rows (local, next) | `eval_packed_generic`: 3 families (every row; transition; first row) |
| Circuit constraints | `memory_stark.rs` 627-852 | targets of a `CircuitBuilder` | `eval_ext_circuit`: the same constraints built gate by gate |
| Lookups | `memory_stark.rs` 858-885 | the frequency columns | the range-check lookup (range_check and the next row's addr_virtual against counter) and the stale-context lookup |
| VM memory (not under src/) | spec.md §6 | the memory, the log of operations | reads and writes with increasing timestamps |
| Block prover chain | `zero_bin/prover/src/lib.rs` 205-285 | one future per block, a oneshot channel from each block to the next | `prove` |
| Typed MPT | `trace_decoder/src/typed_mpt.rs` | a partial trie with hash nodes; `TrieKey`, up to 64 nibbles | `TrieKey::from_txn_ix`, `into_nibbles`, `from_nibbles`; insert, insert_hash, get, remove, iter, per trie type |
| Global metadata | `global_metadata.rs` | a static table | none |
| Aggregation test | `tests/two_to_one_block.rs` | real proofs | none to model |

**How the parts interact.** The VM executes and logs every memory access.
`generate_trace` turns that log, plus the `mem_before` values of the previous
proving unit, into a sorted and padded trace. The prover evaluates
`eval_packed_generic` on this trace and the recursive verifier evaluates
`eval_ext_circuit`. The lookups tie the range-check values to the counter
column and the stale flags to the stale-context table. The extracted
`mem_after` rows become the next unit's `mem_before`.

**What is hard to get right, and hard to test:**
- `fill_gaps` must split every gap, including gaps it creates itself, so that
  no range check reaches the trace height.
- Dummies and padding are appended out of order and have to be re-sorted.
- The last row's lookup wraps around to row 0.
- The rules that decide what is stale and what reaches `mem_after`.
- The two constraint evaluators must agree with each other.
- In `prove`, a failed block has to propagate to the next one through a
  dropped channel.

## 2. Modules

| Module | Models | Kind |
|--------|--------|------|
| `MemoryStark` | every function of trace generation, `eval_packed_generic`, `lookups` and the CTL columns and filters (`ctl_data`, `ctl_filter`, `ctl_looking_mem`, `ctl_filter_mem_before`, `ctl_context_pruning_looking`), as operators (pure functions of their inputs) | operators |
| `CpuMemory` | the VM as a producer of memory operations, and the abstract memory: a read returns the last value written, non-preinitialized memory starts at zero | state machine, written from spec.md |
| `MemoryPipeline` | `generate_trace` driven by a `CpuMemory` run. There is one action per stage of `generate_trace`, and a panic is a phase of its own | state machine, composition |
| `MCMemoryPipeline` | the addresses of the checked runs | MC module |
| `MemoryContinuation` | proving units in sequence: each unit runs every stage of `generate_trace` (the `MemoryPipeline` actions), and its `mem_after` becomes the next unit's `mem_before` | state machine, composition; the handover is written from spec.md |
| `MCMemoryContinuation` | two units over the addresses of `MCMemoryPipeline` | MC module |
| `MemoryStarkCircuit` | `eval_ext_circuit`, with the `CircuitBuilder` calls given their arithmetic meaning | operators |
| `MCMemoryStarkCircuit` | the prover and the recursive verifier evaluating the same row pair | state machine, MC module |
| `MemoryStarkStaleForgery` | a prover that takes an honest trace and rewrites the `stale_contexts` cell of an unpruned row and the `is_stale` flag of another row, rebalancing the stale-context frequencies; the verifier's view is every constraint, both lookups and the CTL views | state machine |
| `MCMemoryStarkStaleForgery` | the addresses of `MCMemoryPipeline`, one VM operation | MC module |
| `MemoryStarkSoundness` | a dishonest prover committing to a pair of rows, and the verifier checking `eval_packed_generic` and the range-check lookup on it | state machine |
| `MCMemoryStarkSoundness` | the prover's choices (frames) for the two soundness runs | MC module |
| `BlockChainProof` | what `prove` promises, without concurrency: blocks proved one by one in order, each on its predecessor's proof, until all are proved or the run fails | abstract specification |
| `ProverChain` | `prove` (lib.rs 205-285) with `BlockProverInput::prove`: one process per block future, the oneshot channels, and `try_collect`; `write_proof_to_dir` as its three awaits (create the directory, create the file, write it) | state machine |
| `TypedMptState` | `StateTrie` over `TypedMpt<AccountRlp>` (insert by key and by address, insert_hash, get, remove, iter, writes through the unchecked handle) and `StorageTrie` (insert, insert_hash), over `mpt_trie` as the doc comments of `TypedMpt` describe it | state machine |
| `MCTypedMptState` | three value keys, a hash path above two of them, two addresses and their keccak keys | MC module |
| `TypedMptKeys` | `TrieKey::new`, `from_txn_ix`, `into_nibbles`, and `TransactionTrie::insert` / `ReceiptTrie::insert` on a trie without hash nodes | state machine, operators |

**Correspondence with the code.**
- Field elements are integers mod `FieldOrder`; the runs use 101 instead of
  Goldilocks, which the constraints never depend on.
- An op is a record `[filter, timestamp, address, kind, value]`, and a row is
  a record with one field per column of `MemoryColumnsView`.
- `value_limbs` splits a value into `VALUE_LIMBS` limbs of `LimbBits` bits, as
  `into_row` does with 32-bit limbs.
- `FillGaps` follows the code's three `while` loops window by window, over the
  windows of the list as it was before the pushes, like the cloned iterator.
- `GenerateTraceColMajor` fills counter, frequencies, is_stale,
  stale_context_frequencies, maybe_in_mem_after and mem_after_filter in the
  single pass of the code.
- The index operations of the code are guarded by `ColMajorOutOfBounds` and
  `StaleContextOutOfBounds`. In `MemoryPipeline`, an index out of bounds or a
  failed `assert!` leads to the phase `"panicked"`.
- In `MemoryContinuation`, the handover between two units is not under src/.
  `NextUnit` decodes the `mem_after` limbs back into values
  (`MemBeforeFromMemAfter`) and keeps the VM memory. It adds the stale
  contexts to `pruned`, which the VM never enters again. An address of a
  preinitialized segment that no `mem_before` names has its external
  content, which is the value it had when the execution began (`content`).

- `MemoryStarkSoundness` lets the prover choose the free columns of a pair
  freely. A column defined by a constraint `column - expression` has exactly
  one accepted value; `SolveColumn` computes it from the packed constraint
  itself, so a change to a constraint changes what the prover may write.
- `ProverChain` keeps, per block, the await it is at (`pc`), and per channel
  whether the proof was sent or the sender dropped. A future that returns or
  is cancelled drops its sender and the receiver of the previous channel.
  Every external await (input, `trace_decoder::entrypoint` and the batch
  directives, the block-proof directive, the disk write) may fail. The
  proofs are abstracted to the block they were built on (`basedOn`).
  `test_only` is part of the initial state: `prove_test` replaces the batch
  proving by a witness simulation (`SimulateBatches`) and the block proof by
  a dummy proof (`DummyProof`), whose `expect` on the block number can panic
  and unwind `prove` after the previous proof was received.
  `write_proof_to_dir` is three awaits: `create_dir_all`, `File::create`
  (which leaves an empty file, `file[k] = "empty"`), and `write_all` on a
  tokio `File`. tokio's `poll_write` first waits for the chunk handed off
  before, returning its error, then copies the next chunk into the File's
  buffer, spawns a blocking write and returns Ok. So `WriteProofWriteAll`
  either hands off a first chunk (`"writing"`), fails on an earlier chunk
  (`"partial"`, the block returns an error), or returns Ok with the last
  chunk handed off (`"inflight"`). The File is dropped without `flush` or
  `sync_all`, so the blocking write of the last chunk settles on its own,
  whatever became of the block or of `prove` (`LastChunkWritten`): the
  file is complete (`"full"`) or the write failed and its error is lost
  (`"lost"`).
- `TypedMptKeys` computes a key as the code does: the rlp encoding of the
  index (`RlpEncodeUsize`, one byte below 0x80, else 0x80 + length and the
  big-endian bytes), split into nibbles high first (`AsNibbles`), pushed at
  the back of a `Nibbles` (`IntoNibbles`). A trie is a function from nibble
  sequences to values; `Insert` gets the previous value under the key and
  then inserts, as both `insert` functions do.
- `TypedMptState` keeps a trie as a function from paths to nodes: a value
  (bytes) or a hash node. Of `mpt_trie` it keeps what `TypedMpt`'s doc
  comments say (lines 42-43, 54-55): a key that crosses a hash node makes
  `insert` an Error that leaves the trie unchanged (`Crosses`), and `get` None.
  A hash node inserted at a path replaces the values below it (`Put`). The
  bytes of the state trie are the rlp of an account (`Rlp`) or bytes that
  are not one (`NotRlp`), which only `UncheckedInsert` (a caller of
  `as_mut_hashed_partial_trie_unchecked`) writes. Decoding `NotRlp` is the
  `expect(PANIC_MSG)`: `Panic`, after which the model stops. `RemoveByKey`
  deletes before it decodes, so a panicking remove has already removed.
  `written` is a history variable: the value the typed API last stored
  under each key.

**Not modelled in these modules.**
- The polynomial commitment and FRI, and the other side of the cross-table
  lookups (CTLs): the CPU, MemBefore, MemAfter and pruning tables, and the
  CTL argument itself, are outside the repository. The memory side is
  modelled as the bag of filtered columns each lookup sees (`CtlView`).
- Transposition: it is the identity on the rows.
- `timed!` and logging.
- The `CircuitBuilder` operations are plonky2's. `MemoryStarkCircuit` gives
  them their arithmetic meaning and does not map them to source lines.

## 3. Runs

| Run | Config | Expect | What it shows |
|-----|--------|--------|---------------|
| `main` | `MCMemoryPipeline.cfg` | pass | For every VM run of up to 2 operations, `generate_trace` does not panic, its trace satisfies every packed constraint and both lookups, `mem_after` equals the final memory minus stale contexts and non-preinitialized zeros, and the filters of the cross-table lookups (`ctl_filter`, `ctl_filter_mem_before`, `is_pruned`) select exactly the VM's operations with the mem_before writes, the mem_before values, and the stale contexts (`TypeOK`, `NoGenerationPanic`, `TraceSatisfiesConstraints`, `LookupsHold`, `MemAfterIsFinalMemory`, `CtlViewsAreTheOps`). |
| `circuit_modes` | `MCMemoryStarkCircuit.cfg` | pass | `eval_ext_circuit` yields the same values as `eval_packed_generic`, constraint for constraint and in order (`ModesAgree`). |
| `segment_gap` | `MCMemoryPipelineSegmentGap.cfg` | violation | A segment jump inside one context gives a range check of 4 in a trace of height 4, and the `assert!` at line 182 fails (`NoGenerationPanic`). |
| `soundness_ordering` | `MCMemoryStarkSoundnessOrdering.cfg` | pass | Whatever addresses, timestamps, values and first-change flags a dishonest prover writes in a pair of rows, the verifier accepts only pairs that are in (context, segment, virtual, timestamp) order (`AccessesInOrder`), in which a read of the same address returns the previous value (`ReadsSeeLastWrite`), and in which a first read outside the preinitialized segments returns 0 (`FirstReadIsZero`). |
| `soundness_mem_after` | `MCMemoryStarkSoundnessMemAfter.cfg` | violation | The verifier accepts a pair whose local row has a nonzero value but a `mem_after_filter` different from `maybe_in_mem_after`, when the next row is in the Code segment of the next context (`MemAfterKeepsNonzeroValues`). |
| `prover_chain` | `ProverChain.cfg` | pass | For 3 blocks, every await free to fail, with or without a previous proof and an output directory, in both `prove` and `prove_test` mode: a successful `prove` returns every block in order, each proved on its predecessor (`OkMeansChainProved`); proofs are sent in block order (`ProofsSentInOrder`); an error always has a block's own failure behind it (`NoSpuriousFailure`); `prove` always returns (`Terminates`); the concurrent chain implements `BlockChainProof` under the mapping below (`ImplementsSequentialChain`); and whatever fails, a block's file is created only once its predecessor's `write_all` returned, so a failed run leaves the files of a prefix of the blocks and at most one unfinished file after them (`ProofFilesHandedOffInOrder`). |
| `unflushed_proof_file` | `ProverChainUnflushed.cfg` | violation | With 2 blocks and an output directory, `prove` returns Ok while both proof files are still being written by tokio's blocking tasks, and in other traces after the last write of one failed unreported (`OkMeansProofFilesWritten`). |
| `continuation` | `MCMemoryContinuation.cfg` | pass | Two proving units, each with up to 2 operations, the second proved on the first's `mem_after`. The second unit's trace also satisfies the constraints and lookups, and its `mem_after` is the final memory (`TraceSatisfiesConstraints`, `LookupsHold`, `MemAfterIsFinalMemory`). Every unit starts from the memory the VM really holds, rebuilt from its `mem_before`, and the external content of the preinitialized segments (`UnitStartsFromLiveMemory`). |
| `stale_forgery` | `MCMemoryStarkStaleForgery.cfg` | violation | A forged trace marks the last row of a live address stale, by writing `addr_context + 1` into the `stale_contexts` cell of an unpruned row; every constraint, both lookups and the CTL views still accept it, and a nonzero final value is missing from `mem_after` (`StaleMarkingNeedsPrunedContext`). |
| `typed_mpt_keys` | `MCTypedMptKeys.cfg` | pass | Up to three inserts into the transaction and receipt tries at indices 0, 1, 15, 16, 127, 128, 255, 256: each trie is exactly the map from index to last value inserted, so no two indices share a key (`TrieIsMapOfTxnIndices`). |
| `typed_mpt_state` | `MCTypedMptState.cfg` | pass | Every sequence of up to 5 calls to `StateTrie` and `StorageTrie`: the typed API panics only after a caller wrote non-AccountRlp bytes through the unchecked handle (`NoPanicWithoutUncheckedWrite`), and every successful insert returns the value the typed API last stored under the key, or None once a remove took it away (`InsertReturnsLastWritten`). An insert under a hash node is an Error, so the hash-node case never arises for a successful insert. |
| `spec_filter` | `MCMemoryPipelineSpecFilter.cfg` | violation | A zero value in a preinitialized segment reaches `mem_after`, whereas spec.md §4.5 says such values are excluded (`SpecMemAfterExcludesPreinitZeros`). |

**Bounds of `main`, and why they are enough.**
- Three addresses:
  - (0,0,5): a first operation with virt ≠ 0, so the (0,0,0) dummy is added;
  - (0,1,0): a segment change;
  - (1,2,4): a context change, with a virtual address stepped down by the
    context/segment loop.
- Timestamp steps of 1 and 6: a step of 6 exceeds `max_rc` for short traces, so
  the timestamp loop runs.
- Values {0, 2}: 2 is a value whose two 1-bit limbs differ from zero in one limb
  only.
- `mem_before` on two addresses, and stale context 1.
- Up to 2 VM operations, giving traces of heights 4, 8 and 16.

Temporary invariants were used to confirm that every branch of `fill_gaps`
fires, that a stale context holds a write, and that a preinitialized zero
reaches `mem_after`.

**Bounds of `continuation`.** These are the addresses, values, `mem_before`
and stale context of `main`, with two units of up to 2 operations each.
- Timestamps step by 1 only. The timestamp loop of `fill_gaps` is covered by
  `main`, and a step of 6 would triple the state space.
- Unit 1 can write 0 to the Code address (0,0,5) after starting from content
  2. That is the case in which the `mem_after` policy decides what unit 2
  reads.
- Unit 1 can report context 1 stale after writing (1,2,4). That is the case
  in which a pruned context must not reach unit 2.

**The `circuit_modes` grid.** Every constraint is a polynomial in which each
column has degree at most 2.
- For each constraint family, the family's columns range over a grid
  (three points where a column appears squared) and every other column keeps
  a fixed value of its own.
- Two polynomials of degree at most d in each variable that agree on a grid of
  d+1 points per variable are equal, so agreement on the grid shows the two
  evaluators yield the same polynomials, for the variations the grid covers.

**Bounds of the soundness runs.** Contexts and virtual addresses range over
{0, 1}, segments over {Code, 1}, timestamps over {1, 2}, and the flags over
{0, 1}, for both rows of the pair. This covers every way two addresses
compare (equal, or first different in each of the three components, up or
down) and every wrong flag a prover can claim. Values have two 1-bit limbs.
The trace height is 4, so range checks of 0..3 are found by the lookup; a
difference that goes down becomes 99 or 100 in the field of 101 elements and
is rejected.

**Bounds of `prover_chain`.** With 3 blocks, a failure can happen at any step
of the middle block while the blocks on both sides of it wait or send. The
failed block can be collected before or after the block whose send it made
fail.

**Bounds of `stale_forgery`.** One VM operation over the addresses of
`main` gives traces of height 4 and 8 with live and mem_before addresses; the
forger chooses any row to mark, either value of `is_stale`, and any unpruned
row whose `stale_contexts` cell to overwrite. TLC finds the forgery with a
Code-address value of 2.

**Bounds of `typed_mpt_keys`.** The indices sit on each side of every rlp
boundary: 0 (the empty string 0x80), 1, 15/16 (one nibble or two), 127/128
(one byte or a prefixed byte), 255/256 (one byte or two). Three inserts
over two values reach every pair of indices in one trie and a replacement
at the same index.

**Bounds of `typed_mpt_state`.** Value keys <<0,0>>, <<0,1>> and <<1,0>>, and a
hash path <<0>> above the first two, so a hash node can hide a stored value
and block a later insert while <<1,0>> stays reachable. keccak sends one
address under the hash path and one outside it. Two accounts tell a
previous value from the new one. Five calls are enough for a raw write, a
hash node, a remove and two inserts at one key in any order.

**Refinement of `prove`.** `ProverChain` instantiates `BlockChainProof` with
- `proofs` ← the `basedOn` of the longest prefix of blocks whose proofs were
  sent down the chain (`SentPrefix`);
- `status` ← `"running"`, `"done"` or `"failed"` from `result` (a panic
  counts as failed);
- `withPrevious` ← `hasPrevious`.

The abstract specification, fairness included, is checked as a property. So
every step of the concurrent pipeline either leaves the proved prefix alone
or extends it by exactly one block proved on its predecessor, and the run
ends.

**Fairness.**
- `MemoryPipeline`, `MemoryContinuation`, `MemoryStarkStaleForgery`, `MCMemoryStarkCircuit`,
  `MemoryStarkSoundness`, `TypedMptKeys` (bounded by `MaxInserts`) and
  `TypedMptState` (bounded by `MaxOps`, stopped by a panic) are
  batch computations that stop, which is why `CHECK_DEADLOCK FALSE` is set.
  They assume no fairness and have no liveness property.
- `ProverChain` assumes weak fairness of each block's step, of `Collect` and
  of `Finish`. The tokio executor polls every woken future, and the model
  assumes that every external await completes, with success or with an
  error. `prove` really returns, so `CHECK_DEADLOCK FALSE` is set there too;
  `Terminates` is the property that catches a wait that never ends. The
  background write of a proof's last chunk (`LastChunkWritten`) needs no
  fairness: no property waits for it.

**Mutants.** Each property of a passing run is shown to catch a plausible
slip in the code it is about:
- limbs not truncated to their width;
- `max_rc` off by one;
- a timestamp dummy carrying value 0;
- the first-row (0,0,0) dummy dropped;
- padding at the same address;
- padding at the last operation's timestamp instead of one later;
- the timestamp difference in the circuit's range check decremented;
- the virtual-address difference of `computed_range_check` without its "- 1";
- read consistency gated by the local row's `is_read`;
- `initialize_aux` gated by `address_unchanged` instead of its negation;
- the collector taking a failed block's result as a success, or the index of
  the next result off by one;
- the previous-proof receiver polled once instead of awaited;
- the receiver of the last channel dropped at the end of the loop;
- the stream taken as exhausted one result early;
- `mem_after_filter` following the policy of spec.md §4.5, which drops
  preinitialized zeros and keeps the others. In `continuation`, a zero
  written to the Code address then comes back with its external content, and
  a zero of an ordinary segment is handed on as a `mem_before` entry;
- the `mem_before` values pushed as reads instead of writes;
- rlp taking 0x80 itself as a one-byte string, which gives 128 the key of 0;
- `from_address` taking the address itself as the key, without keccak;
- `TypedMpt::insert` storing the account without `rlp::encode`;
- `TypedMpt::insert` reading the previous value after the insert.

## 4. Findings

- `unflushed_proof_file`: `write_proof_to_dir` (lines 297-300) writes the
  proof with tokio's `File::write_all` and drops the File without `flush` or
  `sync_all`. tokio's `write_all` returns Ok once the last chunk is copied
  into the File's buffer and its blocking write is spawned. That write's
  error would be reported only by a later write or a flush, and neither
  comes. So `prove` can return Ok while a proof file is still incomplete,
  and a failed last write is never reported. The doc comment says the
  function writes the proof to the directory, and the context "Failed to
  write proof to disk" treats a failed write as an error.

- `soundness_mem_after`: the constraint
  `(mem_after_filter - maybe_in_mem_after) * preinitialized_segments * value_limbs[i]`
  (lines 607-611) binds only when both factors are nonzero.
  - `preinitialized_segments` is computed from the next row's segment (lines
    571-578). The first address of a new context is in Code, so the last
    address of the previous context gets a free `mem_after_filter`. A
    prover can then drop a nonzero final value from `mem_after` or add an
    inactive row to it.
  - On zero values the filter is free everywhere, so a preinitialized zero,
    which `generate_trace` keeps, can be dropped.
  - The comment at lines 604-606 says the two are equal if the segment is
    not preinitialized OR the value is not zero. spec.md §4.6 says the
    constraints reconstruct the filter of §4.5.

  These are pairs the per-row constraints accept. The model does not show
  that a whole proof built on them passes the cross-table lookups to the
  MemAfter STARK, which are outside this file.

- `segment_gap`: `fill_gaps` never splits a context or segment gap. The comment
  at lines 321-329 argues such gaps are small, but spec.md §8 promises range
  checks below the length for every input.
- `spec_filter`: the code, and the comment in `eval_packed_generic`, keep zero
  values of preinitialized segments and drop those of other segments.
  spec.md §4.5 states the opposite. The `continuation` run shows that the
  code's policy is the one under which proving units compose. Under the
  spec's policy (the `KeptInMemAfterSpecPolicy` mutant), a zero written to a
  Code address is dropped from `mem_after`. The next unit then sees that
  address's external content again (`UnitStartsFromLiveMemory` is
  violated).

- `stale_forgery`: the stale-context lookup takes the whole
  `stale_contexts` column as its table (line 880). The CTL with the pruning
  table reads it only where `is_pruned` is set (lines 67-76). No constraint
  ties the column to `is_pruned`, and `is_stale` is not constrained to be
  boolean (line 599). So a prover can write `ctx + 1` into an unpruned row's
  cell, mark the last row of a live address stale, and drop its nonzero
  final value from `mem_after`. The doc comment at line 66 and spec.md §8
  scenario D take the stale contexts to be those the VM pruned. As with
  `soundness_mem_after`, the other side of the CTLs is modelled only as the
  views the memory table exposes.

## 5. Not modelled

- **`TrieKey::from_nibbles`** is a plain copy of the nibbles. The
  transaction and receipt tries never read their keys back, so it is not
  modelled.
- **Typed MPT: what only `mpt_trie` decides.** `root` and the hashes,
  `contains` on a hash node, and what `keys` yields for hash nodes (iter is
  modelled so that it does not matter: `get` filters them out). `mpt_trie`
  is not in the repository; `TypedMptState` relies only on what the doc
  comments of `TypedMpt` state, plus two assumptions named above (a failed
  insert changes nothing, a hash node replaces what is below it).
  `into_hash_left_padded` and `Display` are conversions nothing here uses;
  `from_hash` goes through keccak, modelled as an injective map.
- **Global metadata** (`global_metadata.rs`): a static enum of names and
  offsets, with no state and no operation, which spec.md lists as an
  external collaborator. The compiler already checks that `var_name` covers
  every variant and that `all()` has `COUNT` entries; the kernel that
  consumes the names is not in the repository.
- **How the next unit obtains its external content and `mem_before`**: this
  is the orchestration outside the repository. `MemoryContinuation` assumes
  that the next unit's `mem_before` is the previous unit's `mem_after`, and
  that the external content is the content the execution started with.
- **Aggregation test** (`tests/two_to_one_block.rs`): builds real plonky2
  proofs; its behaviour is that of the prover library.
- **The bindings of the evaluators** (the `let` lines that read the columns
  at the top of `eval_packed_generic` and `eval_ext_circuit`): they are the
  record fields of a row.

## 6. Plan for the remaining work

1. **Whole-trace soundness.** Extend `MemoryStarkSoundness` from a pair of
   rows to a short trace linked by both lookups, so that a forged trace can
   be compared with `CpuMemory`.
2. **Stale forgery across units.** Compose `MemoryStarkStaleForgery` with
   `MemoryContinuation` to show the dropped value coming back as external
   content in the next unit.
3. **Larger continuation instances.** Three units, or a timestamp gap inside
   a unit, with runs sized for the mutant time budget.
