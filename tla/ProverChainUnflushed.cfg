CONSTANTS
    N = 2
SPECIFICATION Spec
CHECK_DEADLOCK FALSE
INVARIANT OkMeansProofFilesWritten
