\* What the comments say of the endpoint and its code does not do (TLC with
\* -continue shows all three): a violation of the protocol does not reach the
\* accepting thread, the parser waits for bytes or has a frame even after an
\* exception, and on_message is called for complete messages only.
SPECIFICATION Spec
CONSTANTS
    PAYLOAD_SIZE_BASIC = 3
    PAYLOAD_SIZE_EXTENDED = 5
    max_payload_size = 6
    SizeBytes16 = 2
    SizeBytes64 = 3
    MaskBytes = 2
    Inputs <- MCInputs
    Prefix <- MCPrefix
    Resumes = FALSE
    Patient = TRUE
INVARIANTS ViolationEndsSession WaitsOrReady
PROPERTY MessagesAssembled
