SPECIFICATION Spec
CONSTANTS
    Inputs <- BlankLineInputs
    MaxRequestSize = 100
INVARIANT NoLineLeft
