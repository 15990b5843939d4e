---------------------- MODULE ConditionVariableXpProofs ----------------------
(***************************************************************************)
(* Theorems about the condition variable, for every finite set of threads: *)
(* its type, what wait_count_ counts, and what a notify_all made inside    *)
(* the critical section reaches.                                           *)
(***************************************************************************)
EXTENDS NotifyAllReach, FiniteSetTheorems, TLAPS

LEMMA WaitersFinite ==
  /\ IsFiniteSet(Inside)
  /\ IsFiniteSet(Asleep)
  /\ Cardinality(Inside) \in Nat
  /\ Cardinality(Asleep) \in Nat
  /\ Cardinality(Asleep) <= Cardinality(Inside)
<1>1. Asleep \subseteq Inside /\ Inside \subseteq Threads
  BY DEF Asleep, Inside
<1>2. IsFiniteSet(Inside)
  BY <1>1, FS_Subset, ThreadsAssumption
<1>3. QED
  BY <1>1, <1>2, FS_Subset, FS_CardinalityType

-----------------------------------------------------------------------------
(* The type and the counter are inductive together: wait_count_ stays a     *)
(* natural number because it is decremented only by a thread it counts.     *)

CvInv == CvTypeOK /\ CountsWaiters

LEMMA CvInvInitially == CvInit => CvInv
<1> SUFFICES ASSUME CvInit PROVE CvInv
  OBVIOUS
<1>1. CvTypeOK
  BY DEF CvInit, CvTypeOK, InitializeConditionVariableXp, Position
<1>2. Inside = {}
  BY DEF CvInit, InitializeConditionVariableXp, Inside
<1>3. QED
  BY <1>1, <1>2, FS_EmptySet
  DEF CvInv, CountsWaiters, CvInit, InitializeConditionVariableXp

LEMMA CvInvStep == CvInv /\ [CvNext]_cvVars => CvInv'
<1> SUFFICES ASSUME CvInv, [CvNext]_cvVars PROVE CvInv'
  OBVIOUS
<1> USE DEF CvInv, CvTypeOK, CountsWaiters
<1>w. IsFiniteSet(Inside) /\ Cardinality(Inside) \in Nat
  BY WaitersFinite
<1>1. CASE UNCHANGED cvVars
  BY <1>1 DEF cvVars, Inside
<1>2. ASSUME NEW t \in Threads, Lock(t) PROVE CvInv'
  BY <1>2 DEF Lock, Idle, Inside
<1>3. ASSUME NEW t \in Threads, Unlock(t) PROVE CvInv'
  BY <1>3, ThreadsAssumption DEF Unlock, Inside
<1>4. ASSUME NEW t \in Threads, Sleep(t) PROVE CvInv'
  <2>0. /\ cv' = [wait_count_ |-> cv.wait_count_ + 1, event_ |-> cv.event_,
                   pos |-> [cv.pos EXCEPT ![t] = "counted"], count |-> cv.count]
        /\ owner' = NoThread
    BY <1>4 DEF Sleep
  <2>1. CvTypeOK'
    BY <2>0 DEF Position
  <2>2. Inside' = Inside \cup {t} /\ t \notin Inside
    BY <1>4 DEF Sleep, Inside
  <2>3. QED
    <3>1. owner' \notin Inside'
      BY <2>0, ThreadsAssumption DEF Inside
    <3>2. cv'.wait_count_ = Cardinality(Inside')
      BY <2>0, <2>2, <1>w, FS_AddElement
    <3>3. QED
      BY <2>1, <3>1, <3>2
<1>5. ASSUME NEW t \in Threads, WaitForSingleObject(t) PROVE CvInv'
  <2>1. PICK p \in {"signalled", "blocked"}, e \in BOOLEAN :
          cv' = [wait_count_ |-> cv.wait_count_, event_ |-> e,
                 pos |-> [cv.pos EXCEPT ![t] = p], count |-> cv.count]
    <3>1. CASE cv.event_
      BY <1>5, <3>1 DEF WaitForSingleObject
    <3>2. CASE ~cv.event_
      BY <1>5, <3>2 DEF WaitForSingleObject
    <3>3. QED
      BY <3>1, <3>2
  <2>2. Inside' = Inside /\ UNCHANGED owner
    BY <1>5, <2>1 DEF WaitForSingleObject, Inside
  <2>3. CvTypeOK'
    BY <2>1, <2>2 DEF Position
  <2>4. QED
    BY <2>1, <2>2, <2>3
<1>6. ASSUME NEW t \in Threads, TimeOut(t) PROVE CvInv'
  <2>1. CvTypeOK' /\ Inside' = Inside
    BY <1>6 DEF TimeOut, Position, Inside
  <2>2. QED
    BY <1>6, <2>1 DEF TimeOut
<1>7. ASSUME NEW t \in Threads, Resume(t) PROVE CvInv'
  <2>1. t \in Inside /\ Inside' = Inside \ {t}
    BY <1>7 DEF Resume, Inside
  <2>2. cv.wait_count_ - 1 \in Nat
    BY <1>w, <2>1, FS_EmptySet
  <2>3. CvTypeOK'
    BY <1>7, <2>2 DEF Resume, Position
  <2>4. QED
    BY <1>7, <1>w, <2>1, <2>3, FS_RemoveElement DEF Resume
<1>8. ASSUME NEW t \in Threads, NotifyAll(t) PROVE CvInv'
  BY <1>8 DEF NotifyAll, Inside
<1>9. ASSUME NEW t \in Threads, NotifyOne(t) PROVE CvInv'
  BY <1>9 DEF NotifyOne, Inside
<1>10. ASSUME NEW t \in Threads, SetEvent(t) PROVE CvInv'
  <2>1. UNCHANGED owner /\ cv.count[t] - 1 \in Nat
    <3>1. cv.count[t] \in Nat /\ cv.count[t] > 0 /\ UNCHANGED owner
      BY <1>10 DEF SetEvent
    <3>2. QED
      BY <3>1
  <2>2. ASSUME NEW b \in Blocked,
               cv' = [cv EXCEPT !.count[t] = @ - 1, !.pos[b] = "signalled"]
        PROVE  CvInv'
    <3>1. cv' = [wait_count_ |-> cv.wait_count_, event_ |-> cv.event_,
                 pos |-> [cv.pos EXCEPT ![b] = "signalled"],
                 count |-> [cv.count EXCEPT ![t] = @ - 1]]
      BY <2>2
    <3>2. b \in Threads /\ Inside' = Inside
      BY <3>1 DEF Blocked, Inside
    <3>3. QED
      BY <3>1, <3>2, <2>1 DEF Position
  <2>3. ASSUME cv' = [cv EXCEPT !.count[t] = @ - 1, !.event_ = TRUE]
        PROVE  CvInv'
    <3>1. cv' = [wait_count_ |-> cv.wait_count_, event_ |-> TRUE, pos |-> cv.pos,
                 count |-> [cv.count EXCEPT ![t] = @ - 1]]
      BY <2>3
    <3>2. QED
      BY <3>1, <2>1 DEF Inside
  <2>4. QED
    BY <1>10, <2>2, <2>3 DEF SetEvent
<1>11. QED
  BY <1>1, <1>2, <1>3, <1>4, <1>5, <1>6, <1>7, <1>8, <1>9, <1>10 DEF CvNext

\* The variables keep their types, and wait_count_ is exactly the number of
\* threads inside SleepConditionVariableXp. (condition_variable_xp.cpp)
THEOREM CountsWaitersHolds == CvSpec => [](CvTypeOK /\ CountsWaiters)
<1>1. QED
  BY CvInvInitially, CvInvStep, PTL DEF CvSpec, CvInv

-----------------------------------------------------------------------------
(* notify_all inside the critical section. *)

ReachInv == CvInv /\ ReachTypeOK /\ EnoughSetEvents

LEMMA ReachStepIsCvStep == [ReachNext]_reachVars => [CvNext]_cvVars
  BY DEF ReachNext, reachVars, LockedNotifyAll, OtherStep, CvNext, cvVars

LEMMA ReachInvInitially == ReachInit => ReachInv
  BY CvInvInitially
  DEF ReachInit, ReachInv, ReachTypeOK, CvInv, EnoughSetEvents

LEMMA ReachInvStep == ReachInv /\ [ReachNext]_reachVars => ReachInv'
<1> SUFFICES ASSUME ReachInv, [ReachNext]_reachVars PROVE ReachInv'
  OBVIOUS
<1>1. CvInv'
  BY CvInvStep, ReachStepIsCvStep DEF ReachInv
<1>2. ReachTypeOK'
  BY <1>1 DEF CvInv, ReachInv, ReachTypeOK, ReachNext, reachVars,
    LockedNotifyAll, OtherStep, StillBlocked, Blocked
<1>c. IsFiniteSet(Asleep) /\ Cardinality(Asleep) \in Nat
  BY WaitersFinite
<1>3. ASSUME NEW u \in Threads, targets[u] # {} , targets'[u] # {},
             NEW t \in Threads, OtherStep(t)
      PROVE  /\ owner' = u
             /\ targets'[u] \subseteq Blocked'
             /\ Cardinality(Asleep') <= cv'.count[u]
  <2> USE DEF ReachInv, CvInv, CvTypeOK, CountsWaiters, ReachTypeOK
  <2>1. /\ owner = u
        /\ targets[u] \subseteq Blocked
        /\ Cardinality(Asleep) <= cv.count[u]
    BY <1>3 DEF EnoughSetEvents
  <2>2. targets'[u] = targets[u] \cap Blocked'
    BY <1>3 DEF OtherStep, StillBlocked
  <2>3. PICK v \in Blocked : v \in Blocked'
    BY <1>3, <2>1, <2>2
  <2>4. Cardinality(Asleep) > 0
    <3>1. v \in Asleep
      BY <2>3 DEF Blocked, Asleep
    <3>2. QED
      BY <3>1, <1>c, FS_EmptySet
  <2>5. cv.count[u] > 0 /\ owner # NoThread
    BY <2>1, <2>4, <1>c, ThreadsAssumption
  <2>6. CASE WaitForSingleObject(t)
    <3>1. Asleep' \subseteq Asleep /\ UNCHANGED owner /\ cv'.count = cv.count
      BY <2>6 DEF WaitForSingleObject, Asleep
    <3>2. QED
      BY <3>1, <2>1, <2>2, <1>c, FS_Subset, FS_CardinalityType
  <2>7. CASE TimeOut(t)
    <3>1. Asleep' \subseteq Asleep /\ UNCHANGED owner /\ cv'.count = cv.count
      BY <2>7 DEF TimeOut, Asleep
    <3>2. QED
      BY <3>1, <2>1, <2>2, <1>c, FS_Subset, FS_CardinalityType
  <2>8. CASE owner # t /\ NotifyAll(t)
    <3>1. Asleep' = Asleep /\ UNCHANGED owner /\ cv'.count[u] = cv.count[u]
      BY <2>8, <2>1 DEF NotifyAll, Asleep
    <3>2. QED
      BY <3>1, <2>1, <2>2
  <2>9. CASE NotifyOne(t)
    <3>1. t # u
      BY <2>9, <2>5 DEF NotifyOne, Idle
    <3>2. Asleep' = Asleep /\ UNCHANGED owner /\ cv'.count[u] = cv.count[u]
      BY <2>9, <3>1 DEF NotifyOne, Asleep
    <3>3. QED
      BY <3>2, <2>1, <2>2
  <2>10. CASE SetEvent(t)
    <3>1. PICK b \in Blocked :
            cv' = [cv EXCEPT !.count[t] = @ - 1, !.pos[b] = "signalled"]
      BY <2>3, <2>10 DEF SetEvent
    <3>2. b \in Asleep /\ Asleep' = Asleep \ {b}
      BY <3>1 DEF Asleep, Blocked
    <3>3. Cardinality(Asleep') = Cardinality(Asleep) - 1
      BY <3>2, <1>c, FS_RemoveElement
    <3>4. /\ UNCHANGED owner
          /\ cv'.count[u] = IF u = t THEN cv.count[u] - 1 ELSE cv.count[u]
      BY <3>1, <2>10 DEF SetEvent
    <3>5. QED
      BY <3>3, <3>4, <2>1, <2>2, <2>5, <1>c
  <2>11. CASE Lock(t) \/ Unlock(t) \/ Sleep(t) \/ Resume(t)
    BY <2>11, <2>1, <2>5 DEF Lock, Unlock, Sleep, Resume
  <2>12. QED
    BY <1>3, <2>6, <2>7, <2>8, <2>9, <2>10, <2>11 DEF OtherStep
<1>4. ASSUME NEW t \in Threads, LockedNotifyAll(t) PROVE EnoughSetEvents'
  <2> USE DEF ReachInv, CvInv, CvTypeOK, CountsWaiters, ReachTypeOK
  <2>1. /\ Asleep' = Asleep /\ Blocked' = Blocked /\ UNCHANGED owner /\ owner = t
        /\ cv'.count[t] = Cardinality(Inside)
    BY <1>4 DEF LockedNotifyAll, NotifyAll, Asleep, Blocked
  <2>2. \A u \in Threads \ {t} : targets'[u] = {}
    BY <1>4, <2>1 DEF LockedNotifyAll, EnoughSetEvents
  <2>3. targets'[t] = Blocked
    BY <1>4 DEF LockedNotifyAll
  <2>4. QED
    BY <2>1, <2>2, <2>3, WaitersFinite DEF EnoughSetEvents
<1>5. ASSUME UNCHANGED reachVars PROVE EnoughSetEvents'
  BY <1>5 DEF ReachInv, EnoughSetEvents, reachVars, Blocked, Asleep
<1>6. EnoughSetEvents'
  <2>1. ASSUME NEW t \in Threads, OtherStep(t) PROVE EnoughSetEvents'
    <3>1. \A u \in Threads : targets[u] = {} => targets'[u] = {}
      BY <2>1 DEF OtherStep, StillBlocked
    <3>2. QED
      BY <1>3, <2>1, <3>1 DEF EnoughSetEvents
  <2>2. QED
    BY <1>4, <1>5, <2>1 DEF ReachNext, ReachInv
<1>7. QED
  BY <1>1, <1>2, <1>6 DEF ReachInv

LEMMA EnoughSetEventsSuffice == ReachInv => ReleasesEveryBlockedThread
<1> SUFFICES ASSUME ReachInv, NEW t \in Threads, cv.count[t] = 0
             PROVE  targets[t] = {}
  BY DEF ReleasesEveryBlockedThread
<1>1. SUFFICES ASSUME targets[t] # {} PROVE FALSE
  OBVIOUS
<1>2. targets[t] \subseteq Asleep /\ Cardinality(Asleep) <= 0
  BY <1>1 DEF ReachInv, EnoughSetEvents, Blocked, Asleep
<1>3. QED
  BY <1>1, <1>2, WaitersFinite, FS_EmptySet

\* A notify_all made inside the critical section has released every thread that
\* was blocked on the event when it began, once its last SetEvent has returned,
\* however the other threads interleave. (WakeAllConditionVariableXp)
THEOREM NotifyAllReachesBlocked == ReachSpec => []ReleasesEveryBlockedThread
<1>1. QED
  BY ReachInvInitially, ReachInvStep, EnoughSetEventsSuffice, PTL DEF ReachSpec

=============================================================================
