--------------------------- MODULE MCWorkerThreads ---------------------------
(* Two workers behind two thread objects, and two threads that use these.     *)
EXTENDS WorkerThreads, TLC

CONSTANTS m1, m2, o1, o2, k1, k2, a1, a2

MCCallers == {m1, m2}
M2 == {m2}
MCObjects == {o1, o2}
MCWorkers == {k1, k2}
MCAddresses == {a1, a2}

=============================================================================
