---------------------------- MODULE MCShareMemory ----------------------------
(* Two names, the second of which is that of the mutex of the first.          *)
EXTENDS ShareMemory, TLC

CONSTANTS p1, p2, n1, n2, n3, s1, s2, s3, x1, x2, x3

MCProcesses == {p1, p2}
MCNames == {n1, n2}
MCAllNames == {n1, n2, n3}
MCSections == {s1, s2, s3}
MCMutexes == {x1, x2, x3}
NameOfMutex == n1 :> n2 @@ n2 :> n3

=============================================================================
