CONSTANTS
    FieldOrder = 101
    VALUE_LIMBS = 2
    LimbBits = 1
    Code = 0
    TrieData = 3
    AccountsLinkedList = 4
    StorageLinkedList = 5
    Addresses <- MCAddresses
    MemBeforeAddrs <- MCMemBeforeAddrs
    Values = {0, 2}
    TsSteps = {1, 6}
    MaxOps = 2
    StaleCandidates = {1}

SPECIFICATION Spec
CHECK_DEADLOCK FALSE

INVARIANT TypeOK
INVARIANT NoGenerationPanic
INVARIANT TraceSatisfiesConstraints
INVARIANT LookupsHold
INVARIANT MemAfterIsFinalMemory
INVARIANT CtlViewsAreTheOps
