\* Frames over bytes: the endpoint implements the session.
SPECIFICATION Spec
CONSTANTS
    PAYLOAD_SIZE_BASIC = 3
    PAYLOAD_SIZE_EXTENDED = 5
    max_payload_size = 6
    SizeBytes16 = 2
    SizeBytes64 = 3
    MaskBytes = 2
    Inputs <- MCInputs
    Prefix <- MCPrefix
    Resumes = TRUE
    Patient = TRUE
INVARIANTS
    TypeOK
    StuckOnlyBySize
PROPERTIES
    ImplementsSession
    CloseEndsSession
    AddRxDataReturns
