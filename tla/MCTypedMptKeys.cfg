CONSTANTS
    TxnIndices = {0, 1, 15, 16, 127, 128, 255, 256}
    Vals = {v1, v2}
    MaxInserts = 3
    MaxNibbles = 64

SPECIFICATION Spec
\* The model stops at MaxInserts; the code has no such halt.
CHECK_DEADLOCK FALSE

INVARIANT TrieIsMapOfTxnIndices
