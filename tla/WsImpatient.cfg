\* A client that does not wait for the answer to a long message: frames are lost.
SPECIFICATION Spec
CONSTANTS
    PAYLOAD_SIZE_BASIC = 3
    PAYLOAD_SIZE_EXTENDED = 5
    max_payload_size = 6
    SizeBytes16 = 2
    SizeBytes64 = 3
    MaskBytes = 2
    Inputs <- MCInputs
    Prefix <- MCPrefix
    Resumes = FALSE
    Patient = FALSE
PROPERTY ImplementsSession
