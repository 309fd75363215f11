--------------------------- MODULE MCSecureSocket ---------------------------
EXTENDS SecureSocket, TLC
CONSTANTS v1, v2, c1, c2

OneServer  == {v1}
TwoServers == {v1, v2}
OneClient  == {c1}
TwoClients == {c1, c2}
Interchangeable == Permutations(TwoServers) \cup Permutations(TwoClients)
=============================================================================
