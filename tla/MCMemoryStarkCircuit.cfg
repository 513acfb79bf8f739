CONSTANTS
    FieldOrder = 101
    VALUE_LIMBS = 2
    LimbBits = 1
    Code = 0
    TrieData = 3
    AccountsLinkedList = 4
    StorageLinkedList = 5
SPECIFICATION Spec
CHECK_DEADLOCK FALSE
INVARIANT ModesAgree
