\* The opening handshake of a WebSocket session.
SPECIFICATION Spec
CONSTANTS
    Requests <- MCRequests
    Expected <- MCExpected
PROPERTY HandshakeRight
