--------------------------- MODULE NotifyAllReach ---------------------------
(***************************************************************************)
(* What one notify_all of condition_variable_xp.cpp reaches when it is     *)
(* called inside the critical section, as CountDownLatch::CountDown and    *)
(* BlockTaskQueue call it.  The history variable targets[t] holds, while   *)
(* thread t is in such a call, the threads that were blocked on the event  *)
(* when t read wait_count_ and that nothing has released since.            *)
(***************************************************************************)
EXTENDS ConditionVariableXp

VARIABLE targets

reachVars == <<owner, cv, targets>>

ReachInit ==
  /\ CvInit
  /\ targets = [t \in Threads |-> {}]

\* The call of t begins with the threads blocked now as its targets.
LockedNotifyAll(t) ==
  /\ owner = t
  /\ NotifyAll(t)
  /\ targets' = [targets EXCEPT ![t] = Blocked]

\* A thread that is no longer blocked is no longer a target.
StillBlocked == targets' = [u \in Threads |-> targets[u] \cap Blocked']

OtherStep(t) ==
  /\ \/ Lock(t) \/ Unlock(t)
     \/ Sleep(t) \/ WaitForSingleObject(t) \/ TimeOut(t) \/ Resume(t)
     \/ owner # t /\ NotifyAll(t)
     \/ NotifyOne(t) \/ SetEvent(t)
  /\ StillBlocked

ReachNext == \E t \in Threads : LockedNotifyAll(t) \/ OtherStep(t)

ReachSpec == ReachInit /\ [][ReachNext]_reachVars

-----------------------------------------------------------------------------

ReachTypeOK == CvTypeOK /\ targets \in [Threads -> SUBSET Threads]

\* The hazard is that calls of SetEvent are spent on threads that came later,
\* or merge into one.  A notify_all made inside the critical section still
\* releases every thread that was already blocked in WaitForSingleObject when
\* it read wait_count_: none of them is left when its last SetEvent returns.
\* (the while loop of WakeAllConditionVariableXp)
ReleasesEveryBlockedThread ==
  \A t \in Threads : cv.count[t] = 0 => targets[t] = {}

\* Why: until the targets are gone there is a SetEvent to come for every thread
\* that is blocked or about to block, since nobody can be counted meanwhile.
EnoughSetEvents ==
  \A t \in Threads : targets[t] # {} =>
    /\ owner = t
    /\ targets[t] \subseteq Blocked
    /\ Cardinality(Asleep) <= cv.count[t]

=============================================================================
