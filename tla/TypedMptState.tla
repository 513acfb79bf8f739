--------------------------- MODULE TypedMptState ---------------------------
(***************************************************************************)
(* StateTrie (TypedMpt<AccountRlp>) and StorageTrie of                     *)
(* trace_decoder/src/typed_mpt.rs, over the HashedPartialTrie they wrap.   *)
(*                                                                         *)
(* mpt_trie is not in the repository; of it the model keeps what the doc  *)
(* comments of TypedMpt state: a trie holds values and hash nodes (out-of- *)
(* band sub-tries) under nibble paths, an insert whose key crosses into a  *)
(* hash node is an Error, and a get there is None.  An insert that fails   *)
(* leaves the trie as it was; a hash node put over a path replaces what    *)
(* was below it.                                                           *)
(*                                                                         *)
(* A value of the state trie is bytes: the rlp of an account, or bytes     *)
(* that are not one, which only the unchecked handles                      *)
(* (as_mut_hashed_partial_trie_unchecked, from_hashed_partial_trie_        *)
(* unchecked) can put there.  Decoding them is the expect(PANIC_MSG): a    *)
(* panic, after which the model stops.  keccak is an injective map from    *)
(* the addresses to short keys.                                            *)
(***************************************************************************)
EXTENDS Integers, FiniteSets, SequencesExt, TLC

CONSTANTS
    ValueKeys,     \* the TrieKeys values are stored under (equal length)
    HashKeys,      \* the shorter paths hash nodes are inserted at
    Addresses,     \* account addresses
    Keccak,        \* Keccak[a]: the key from_hash(keccak(a)) of address a
    Accounts,      \* AccountRlp values
    StorageVals,   \* storage slot values (bytes)
    MaxOps         \* bound on the number of calls

Keys == ValueKeys \cup HashKeys

NoneVal == "none"      \* Option::None
ErrVal == "err"        \* Err(Error { source })

\* A slip: the account stored without rlp::encode.
RlpSkipped(a) == <<"raw", a>>

Rlp(a) == <<"rlp", a>>          \* rlp::encode(&account)
NotRlp == <<"raw">>             \* bytes no AccountRlp encodes to

HashNode == [kind |-> "hash"]
ValueNode(bytes) == [kind |-> "value", bytes |-> bytes]

Tries == {"state", "storage"}

VARIABLES
    tries,      \* tries[t]: the HashedPartialTrie of the StateTrie or StorageTrie, path -> node
    returned,   \* what the last call returned
    phase,      \* "running", or "panicked" after a failed expect
    unchecked,  \* some caller wrote through an unchecked handle
    written,    \* history: written[t][k], the value the typed API last stored at k
    call,       \* the last call: [op, trie, key]
    ops         \* the number of calls so far

vars == <<tries, returned, phase, unchecked, written, call, ops>>

-----------------------------------------------------------------------------
(* mpt_trie, as TypedMpt's doc comments describe it.                       *)

\* The key crosses into a part of the trie that isn't hydrated.
Crosses(trie, k) ==
    \E h \in DOMAIN trie : trie[h].kind = "hash" /\ IsPrefix(h, k)

\* HashedPartialTrie::get: None when absent or behind a hash node.
UntypedGet(trie, k) ==
    IF Crosses(trie, k) \/ k \notin DOMAIN trie THEN NoneVal ELSE trie[k].bytes

\* HashedPartialTrie::insert when the key does not cross a hash node: the
\* node at k replaces k and every path below it.
Put(trie, k, node) ==
    [h \in {j \in DOMAIN trie : ~IsStrictPrefix(k, j)} \cup {k} |->
        IF h = k THEN node ELSE trie[h]]

\* HashedPartialTrie::delete when the key does not cross a hash node.
Delete(trie, k) == [h \in DOMAIN trie \ {k} |-> trie[h]]

\* The typed history forgets k and the paths below it.
Forget(w, k) == [h \in {j \in DOMAIN w : ~IsPrefix(k, j)} |-> w[h]]

-----------------------------------------------------------------------------
(* TypedMpt<AccountRlp>.                                                   *)

\* rlp::decode(...).expect(PANIC_MSG): "panic" when the bytes are not an
\* AccountRlp.
Decode(bytes) == IF bytes[1] = "rlp" THEN bytes[2] ELSE "panic"

\* TypedMpt::get.
TypedGet(trie, k) ==
    LET bytes == UntypedGet(trie, k)
    IN  IF bytes = NoneVal THEN NoneVal ELSE Decode(bytes)

\* A slip: the address itself taken as the key, without keccak.
FromAddressUnhashed(a) == <<a>>

\* TrieKey::from_address: from_hash(keccak(address)).
FromAddress(a) == Keccak[a]

Init ==
    /\ tries = [t \in Tries |-> <<>>]
    /\ returned = NoneVal
    /\ phase = "running"
    /\ unchecked = FALSE
    /\ written = [t \in Tries |-> <<>>]
    /\ call = [op |-> "new", trie |-> "state", key |-> <<>>]
    /\ ops = 0

\* One call of the API, while the program runs.
Call(op, t, k) ==
    /\ phase = "running"
    /\ ops < MaxOps
    /\ ops' = ops + 1
    /\ call' = [op |-> op, trie |-> t, key |-> k]

\* A failed expect: the call unwinds.
Panic ==
    /\ phase' = "panicked"
    /\ UNCHANGED <<returned, unchecked, written>>

\* A call that changes no trie.
Returns(res) ==
    /\ returned' = res
    /\ UNCHANGED <<tries, phase, unchecked, written>>

\* A slip: the previous value read after the insert.
InsertByKeyReadAfter(k, a) ==
    /\ Call("insert", "state", k)
    /\ \/ TypedGet(tries["state"], k) = "panic" /\ Panic /\ UNCHANGED tries
       \/ Crosses(tries["state"], k) /\ Returns(ErrVal)
       \/ /\ TypedGet(tries["state"], k) # "panic"
          /\ ~Crosses(tries["state"], k)
          /\ tries' = [tries EXCEPT !["state"] = Put(@, k, ValueNode(Rlp(a)))]
          /\ returned' = TypedGet(tries'["state"], k)
          /\ written' = [written EXCEPT !["state"] = (k :> a) @@ @]
          /\ UNCHANGED <<phase, unchecked>>

\* TypedMpt::insert, through StateTrie::insert_by_key: get the previous
\* value (decoding it), then insert the rlp of the account.
InsertByKey(k, a) ==
    LET prev == TypedGet(tries["state"], k)
    IN  /\ Call("insert", "state", k)
        /\ \/ prev = "panic" /\ Panic /\ UNCHANGED tries
           \/ Crosses(tries["state"], k) /\ Returns(ErrVal)
           \/ /\ prev # "panic"
              /\ ~Crosses(tries["state"], k)
              /\ tries' = [tries EXCEPT !["state"] = Put(@, k, ValueNode(Rlp(a)))]
              /\ returned' = prev
              /\ written' = [written EXCEPT !["state"] = (k :> a) @@ @]
              /\ UNCHANGED <<phase, unchecked>>

\* StateTrie::insert_by_address.
InsertByAddress(addr, a) == InsertByKey(FromAddress(addr), a)

\* StorageTrie::insert: get the previous bytes, then insert.
StorageInsert(k, v) ==
    LET prev == UntypedGet(tries["storage"], k)
    IN  /\ Call("insert", "storage", k)
        /\ \/ Crosses(tries["storage"], k) /\ Returns(ErrVal)
           \/ /\ ~Crosses(tries["storage"], k)
              /\ tries' = [tries EXCEPT !["storage"] = Put(@, k, ValueNode(v))]
              /\ returned' = prev
              /\ written' = [written EXCEPT !["storage"] = (k :> v) @@ @]
              /\ UNCHANGED <<phase, unchecked>>

\* TypedMpt::insert_hash (StateTrie::insert_hash_by_key) and
\* StorageTrie::insert_hash: a hash node for an out-of-band sub-trie.
InsertHash(t, h) ==
    /\ Call("insert_hash", t, h)
    /\ \/ Crosses(tries[t], h) /\ Returns(ErrVal)
       \/ /\ ~Crosses(tries[t], h)
          /\ tries' = [tries EXCEPT ![t] = Put(@, h, HashNode)]
          /\ returned' = NoneVal
          /\ written' = [written EXCEPT ![t] = Forget(@, h)]
          /\ UNCHANGED <<phase, unchecked>>

\* StateTrie::get_by_key.
GetByKey(k) ==
    LET got == TypedGet(tries["state"], k)
    IN  /\ Call("get", "state", k)
        /\ \/ got = "panic" /\ Panic /\ UNCHANGED tries
           \/ got # "panic" /\ Returns(got)

\* StateTrie::get_by_address.
GetByAddress(addr) == GetByKey(FromAddress(addr))

\* TypedMpt::remove (StateTrie::remove): delete, then decode what was
\* deleted; the entry is gone when the decode panics.
RemoveByKey(k) ==
    LET bytes == UntypedGet(tries["state"], k)
        removed == IF bytes = NoneVal THEN NoneVal ELSE Decode(bytes)
    IN  /\ Call("remove", "state", k)
        /\ \/ Crosses(tries["state"], k) /\ Returns(ErrVal)
           \/ /\ ~Crosses(tries["state"], k)
              /\ tries' = [tries EXCEPT !["state"] = Delete(@, k)]
              /\ \/ removed = "panic" /\ Panic
                 \/ /\ removed # "panic"
                    /\ returned' = removed
                    /\ written' = [written EXCEPT !["state"] = Forget(@, k)]
                    /\ UNCHANGED <<phase, unchecked>>

\* TypedMpt::iter (StateTrie::iter), consumed to the end: every key of the
\* trie read back, filtered by get; a hash node's path gets None.
Iter ==
    LET trie == tries["state"]
        found == {k \in DOMAIN trie : TypedGet(trie, k) # NoneVal}
        panics == \E k \in found : TypedGet(trie, k) = "panic"
    IN  /\ Call("iter", "state", <<>>)
        /\ \/ panics /\ Panic /\ UNCHANGED tries
           \/ ~panics /\ Returns({<<k, TypedGet(trie, k)>> : k \in found})

\* A caller of as_mut_hashed_partial_trie_unchecked inserting bytes that
\* are not an rlp-encoded AccountRlp.
UncheckedInsert(k) ==
    /\ Call("unchecked_insert", "state", k)
    /\ \/ Crosses(tries["state"], k) /\ Returns(ErrVal)
       \/ /\ ~Crosses(tries["state"], k)
          /\ tries' = [tries EXCEPT !["state"] = Put(@, k, ValueNode(NotRlp))]
          /\ returned' = NoneVal
          /\ unchecked' = TRUE
          /\ written' = [written EXCEPT !["state"] = Forget(@, k)]
          /\ UNCHANGED phase

Next ==
    \/ \E k \in ValueKeys, a \in Accounts : InsertByKey(k, a)
    \/ \E addr \in Addresses, a \in Accounts : InsertByAddress(addr, a)
    \/ \E k \in ValueKeys, v \in StorageVals : StorageInsert(k, v)
    \/ \E t \in Tries, h \in HashKeys : InsertHash(t, h)
    \/ \E k \in ValueKeys : GetByKey(k) \/ RemoveByKey(k) \/ UncheckedInsert(k)
    \/ \E addr \in Addresses : GetByAddress(addr)
    \/ Iter

Spec == Init /\ [][Next]_vars

-----------------------------------------------------------------------------

TypeOK ==
    /\ \A t \in Tries : DOMAIN tries[t] \subseteq Keys
    /\ phase \in {"running", "panicked"}
    /\ unchecked \in BOOLEAN
    /\ ops \in 0..MaxOps

\* PANIC_MSG: "only encoded Ts are ever inserted".  Whatever the order of
\* inserts, hash nodes, removes, gets and iterations, the typed API of
\* StateTrie panics only after some caller wrote bytes that are not an
\* AccountRlp through the unchecked handle.
NoPanicWithoutUncheckedWrite == phase = "panicked" => unchecked

\* The value an insert returns (Result<Option<T>>) is the value the typed
\* API last stored under that key, or None when there is none: not the
\* value just inserted, and not one a remove has since taken away.
InsertReturnsLastWritten ==
    [][call'.op = "insert" /\ returned' # ErrVal /\ phase' = "running" =>
         returned' = IF call'.key \in DOMAIN written[call'.trie]
                     THEN written[call'.trie][call'.key] ELSE NoneVal]_vars

=============================================================================
