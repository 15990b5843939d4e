------------------------ MODULE MCConditionVariableXp ------------------------
(* Four threads and the most general client of the condition variable.       *)
EXTENDS NotifyAllReach, TLC

CONSTANTS t1, t2, t3, t4

MCThreads == {t1, t2, t3, t4}

Symmetry == Permutations(MCThreads)

=============================================================================
