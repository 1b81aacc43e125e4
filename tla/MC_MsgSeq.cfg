CONSTANTS
    RandBuffers <- MCRandBuffers
    SourceMayFail = FALSE
SPECIFICATION Spec
INVARIANT TypeOK
INVARIANT MsgSeqCorrect
