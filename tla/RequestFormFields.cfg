SPECIFICATION Spec
CONSTANTS
    Inputs <- TwoFieldInputs
    MaxRequestSize = 100
INVARIANT ParsedAsSent
