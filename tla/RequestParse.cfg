SPECIFICATION FairSpec
CONSTANTS
    Inputs <- AllInputs
    MaxRequestSize = 100
INVARIANTS TypeOK ParsedAsSent
PROPERTIES AddBufferReturns
