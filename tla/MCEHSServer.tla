---------------------------- MODULE MCEHSServer ----------------------------
(* Small instances of EHSServer for TLC. *)
EXTENDS EHSServer, TLC

CONSTANTS t1, t2, t3, t4

TwoThreads == {t1, t2}
ThreeThreads == {t1, t2, t3}
FourThreads == {t1, t2, t3, t4}

BothModes == {"threadpool", "onethreadperrequest"}
Pool == {"threadpool"}
PerRequest == {"onethreadperrequest"}

\* An application whose handlers never throw, and one that uses every way of
\* answering an exception except a response to one thrown while accepting.
NoExceptions == {}
AnsweredExceptions == {<<"handler", "response">>}
AllButAcceptorResponse ==
    {<<"handler", "response">>, <<"handler", "null">>, <<"acceptor", "null">>}
AcceptorResponse == {<<"acceptor", "response">>}

Interchangeable == Permutations(Threads)
=============================================================================
