CONSTANTS
    RandBuffers <- MCRandBuffers
    SourceMayFail = TRUE
SPECIFICATION Spec
INVARIANT GenFailureReported
