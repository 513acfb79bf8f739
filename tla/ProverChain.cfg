CONSTANTS
    N = 3
SPECIFICATION Spec
CHECK_DEADLOCK FALSE
INVARIANT OkMeansChainProved
INVARIANT ProofsSentInOrder
INVARIANT NoSpuriousFailure
PROPERTY Terminates
INVARIANT ProofFilesHandedOffInOrder
PROPERTY ImplementsSequentialChain
