--------------------------- MODULE MCEHSConnection ---------------------------
(* Small instances of EHSConnection for TLC. *)
EXTENDS EHSConnection, TLC

CONSTANTS w1, w2

OneWorker == {w1}
TwoWorkers == {w1, w2}
Interchangeable == Permutations(Workers)

NoErrors == {}
AllErrors == {"invalid", "toobig", "noresource"}
=============================================================================
