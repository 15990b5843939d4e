----------------------------- MODULE MCThreadPool -----------------------------
(* Two workers and two callers.                                               *)
EXTENDS ThreadPool, TLC

CONSTANTS w1, w2, a1, q1

MCThreads == Workers \cup Clients \cup Quitters

W12 == {w1, w2}
A1 == {a1}
Q1 == {q1}

\* Both tasks of the pool wait for a third one, which runs outside it.
Outside == {3}
BehindTheThird == <<3, 3, 0>>

=============================================================================
