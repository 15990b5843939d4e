--------------------------- MODULE MCCountDownLatch ---------------------------
(* Small sets of threads for the latch.                                      *)
EXTENDS CountDownLatch, TLC

CONSTANTS c1, c2, w1, w2, s1, i1, r1

MCThreads == Counters \cup Waiters \cup TimedWaiters \cup Interrupters \cup Resetters

CountersAndWorker == {c1, c2, w2}
TwoWaiters == {w1, w2}
OneSleeper == {s1}
OneInterrupter == {i1}
OneResetter == {r1}

=============================================================================
