SPECIFICATION Spec
CONSTANTS
    Inputs <- LongInputs
    MaxRequestSize = 5
INVARIANT RequestWithinLimit
