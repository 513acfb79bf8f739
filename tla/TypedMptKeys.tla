---------------------------- MODULE TypedMptKeys ----------------------------
(***************************************************************************)
(* TrieKey (trace_decoder/src/typed_mpt.rs) and the two per-block tries    *)
(* keyed by transaction index, TransactionTrie and ReceiptTrie.            *)
(*                                                                         *)
(* A TrieKey is a sequence of at most 64 nibbles.  from_txn_ix takes the   *)
(* rlp encoding of the index and splits every byte into its two nibbles,   *)
(* high nibble first.  into_nibbles pushes the components one by one at    *)
(* the back of an mpt_trie Nibbles, which is the key the trie stores.      *)
(*                                                                         *)
(* mpt_trie is not in the repository.  A HashedPartialTrie with no hash    *)
(* nodes (the two tries never receive one) is modelled as what it stores:  *)
(* a function from nibble sequences to byte strings, where get returns the *)
(* value under a key and insert replaces it.                               *)
(***************************************************************************)
EXTENDS Integers, Sequences, FiniteSets, TLC

CONSTANTS
    TxnIndices,   \* the txn_ix values the block inserts
    Vals,         \* the encoded transactions and receipts
    MaxInserts,   \* bound on the number of inserts
    MaxNibbles    \* capacity of a TrieKey (CopyVec<U4, 64>)

ASSUME TxnIndices \subseteq Nat /\ MaxInserts \in Nat /\ MaxNibbles \in Nat

NoValue == "None"

\* The big-endian bytes of n without leading zeros.
RECURSIVE BigEndianBytes(_)
BigEndianBytes(n) ==
    IF n = 0 THEN <<>> ELSE Append(BigEndianBytes(n \div 256), n % 256)

\* A boundary slip: 0x80 itself taken as a one-byte string.
RlpEncodeUsizeOffByOne(n) ==
    LET bytes == BigEndianBytes(n)
    IN  IF Len(bytes) = 1 /\ bytes[1] <= 128 THEN bytes
        ELSE <<128 + Len(bytes)>> \o bytes

\* rlp::encode of an integer: 0 is the empty string (0x80), a single byte
\* below 0x80 is itself, anything else is 0x80 + length then the bytes.
RlpEncodeUsize(n) ==
    LET bytes == BigEndianBytes(n)
    IN  IF Len(bytes) = 1 /\ bytes[1] < 128 THEN bytes
        ELSE <<128 + Len(bytes)>> \o bytes

\* u4::AsNibbles over bytes: the high nibble of each byte, then the low one.
AsNibbles(bytes) ==
    [i \in 1..(2 * Len(bytes)) |->
        IF i % 2 = 1 THEN bytes[(i + 1) \div 2] \div 16 ELSE bytes[i \div 2] % 16]

\* TrieKey::new: CopyVec::try_from_iter fails beyond the capacity.
TrieKeyFits(components) == Len(components) <= MaxNibbles

\* TrieKey::from_txn_ix (the expect holds when the key fits).
FromTxnIx(txn_ix) == AsNibbles(RlpEncodeUsize(txn_ix))

\* TrieKey::into_nibbles: every component pushed at the back.
IntoNibbles(key) ==
    LET Push[i \in 0..Len(key)] ==
            IF i = 0 THEN <<>> ELSE Append(Push[i - 1], key[i])
    IN  Push[Len(key)]

VARIABLES
    tries,      \* tries[t]: the trie t ("txn" or "receipt"), nibbles -> value
    returned,   \* what the last insert returned: the previous value or NoValue
    inserted,   \* the txn_ix -> value pairs inserted so far, per trie (history)
    count       \* the number of inserts so far

vars == <<tries, returned, inserted, count>>

Tries == {"txn", "receipt"}

Init ==
    /\ tries = [t \in Tries |-> <<>>]
    /\ returned = NoValue
    /\ inserted = [t \in Tries |-> <<>>]
    /\ count = 0

\* TransactionTrie::insert and ReceiptTrie::insert: get under the key of
\* txn_ix, then insert under the same key, then return the value got.
Insert(t, txn_ix, val) ==
    LET key == IntoNibbles(FromTxnIx(txn_ix))
    IN  /\ count < MaxInserts
        /\ TrieKeyFits(FromTxnIx(txn_ix))
        /\ returned' = IF key \in DOMAIN tries[t] THEN tries[t][key] ELSE NoValue
        /\ tries' = [tries EXCEPT ![t] = (key :> val) @@ @]
        /\ inserted' = [inserted EXCEPT ![t] = (txn_ix :> val) @@ @]
        /\ count' = count + 1

Next == \E t \in Tries, txn_ix \in TxnIndices, val \in Vals : Insert(t, txn_ix, val)

Spec == Init /\ [][Next]_vars

-----------------------------------------------------------------------------

\* Each trie is exactly a map from transaction index to the last value
\* inserted at that index: the keys from_txn_ix builds through rlp and the
\* nibble split never collide (across the one-byte / length-prefixed
\* boundary at 128 and the 0x80 of index 0), so no insert replaces another
\* index's value and the trie holds one entry per index.
TrieIsMapOfTxnIndices ==
    \A t \in Tries :
        /\ Cardinality(DOMAIN tries[t]) = Cardinality(DOMAIN inserted[t])
        /\ \A ix \in DOMAIN inserted[t] :
              tries[t][IntoNibbles(FromTxnIx(ix))] = inserted[t][ix]

=============================================================================
