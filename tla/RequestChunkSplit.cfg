SPECIFICATION Spec
CONSTANTS
    Inputs <- SplitInputs
    MaxRequestSize = 100
INVARIANT ParsedAsSent
