CONSTANTS
    acc1 = acc1
    acc2 = acc2
    s1 = s1
    addr1 = addr1
    addr2 = addr2
    ValueKeys <- MCValueKeys
    HashKeys <- MCHashKeys
    Addresses = {addr1, addr2}
    Keccak <- MCKeccak
    Accounts = {acc1, acc2}
    StorageVals = {s1}
    MaxOps = 5

SPECIFICATION Spec
\* The model stops at MaxOps or after a panic; the code has no such halt.
CHECK_DEADLOCK FALSE

INVARIANT TypeOK
INVARIANT NoPanicWithoutUncheckedWrite
PROPERTY InsertReturnsLastWritten
