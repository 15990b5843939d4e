------------------------ MODULE LatchAndStartProofs -------------------------
(***************************************************************************)
(* Theorems about two small classes, for every finite set of threads and   *)
(* any number of tasks: the count-down latch, and the start and cancel     *)
(* protocol of QuickStartCancel.  The two modules share no name.           *)
(***************************************************************************)
EXTENDS CountDownLatch, QuickStartCancel, FiniteSetTheorems, TLAPS

-----------------------------------------------------------------------------
(***************************************************************************)
(* CountDownLatch, for every program the threads run and every count: its  *)
(* type, that it implements the abstract latch, and that it uses the       *)
(* condition variable as that one requires, so that what is proved of the  *)
(* condition variable holds of it.                                         *)
(***************************************************************************)

\* The theorems about the condition variable, for the latch's mutex and cv_.
CVP == INSTANCE ConditionVariableXpProofs WITH targets <- owner

\* CVP and CV are the same definitions under two names.
LEMMA SameCondition ==
  /\ CV!CvInit <=> CVP!CvInit
  /\ [CV!CvNext]_(CV!cvVars) <=> [CVP!CvNext]_(CVP!cvVars)
  /\ CVP!CvInv <=> CV!CvTypeOK /\ CV!CountsWaiters
<1>1. CV!CvInit <=> CVP!CvInit
  BY DEF CV!CvInit, CVP!CvInit,
    CV!InitializeConditionVariableXp, CVP!InitializeConditionVariableXp
<1>2. [CV!CvNext]_(CV!cvVars) <=> [CVP!CvNext]_(CVP!cvVars)
  BY DEF CV!CvNext, CV!cvVars, CV!Lock, CV!Unlock, CV!Sleep,
    CV!WaitForSingleObject, CV!TimeOut, CV!Resume, CV!NotifyAll, CV!NotifyOne,
    CV!SetEvent, CV!Idle, CV!Blocked,
    CVP!CvNext, CVP!cvVars, CVP!Lock, CVP!Unlock, CVP!Sleep,
    CVP!WaitForSingleObject, CVP!TimeOut, CVP!Resume, CVP!NotifyAll,
    CVP!NotifyOne, CVP!SetEvent, CVP!Idle, CVP!Blocked
<1>3. CVP!CvInv <=> CV!CvTypeOK /\ CV!CountsWaiters
  BY DEF CVP!CvInv, CVP!CvTypeOK, CV!CvTypeOK, CVP!CountsWaiters,
    CV!CountsWaiters, CVP!Inside, CV!Inside, CVP!Position, CV!Position,
    CVP!Cardinality, CV!Cardinality
<1>4. QED
  BY <1>1, <1>2, <1>3

LEMMA CvInvInduction ==
  /\ CV!CvInit => CV!CvTypeOK /\ CV!CountsWaiters
  /\ CV!CvTypeOK /\ CV!CountsWaiters /\ [CV!CvNext]_(CV!cvVars)
       => (CV!CvTypeOK /\ CV!CountsWaiters)'
<1>1. CVP!CvInit => CVP!CvInv
  BY CVP!CvInvInitially, LatchAssumption
  DEF CVP!ThreadsAssumption, CVP!IsFiniteSet, IsFiniteSet
<1>2. CVP!CvInv /\ [CVP!CvNext]_(CVP!cvVars) => CVP!CvInv'
  BY CVP!CvInvStep, LatchAssumption
  DEF CVP!ThreadsAssumption, CVP!IsFiniteSet, IsFiniteSet
<1>3. CVP!CvInv' <=> (CV!CvTypeOK /\ CV!CountsWaiters)'
  BY DEF CVP!CvInv, CVP!CvTypeOK, CV!CvTypeOK, CVP!CountsWaiters,
    CV!CountsWaiters, CVP!Inside, CV!Inside, CVP!Position, CV!Position,
    CVP!Cardinality, CV!Cardinality
<1>4. QED
  BY <1>1, <1>2, <1>3, SameCondition

\* A call that has not evaluated its predicate for the last time has returned
\* nothing yet, only a call with a deadline can find it passed, and only a
\* thread of Resetters calls Reset.
CallsInProgress ==
  \A t \in Threads :
    /\ pc[t] \in {"countdown", "lock", "notify", "wait", "sleep", "asleep", "endless"}
         => ret[t] = "none"
    /\ cv.pos[t] = "timedout" => t \in TimedWaiters
    /\ pc[t] = "reset" => t \in Resetters

LatchInv == CV!CountsWaiters /\ TypeOK /\ CallsInProgress

LEMMA StepIsCvStep == [Next]_vars => [CV!CvNext]_(CV!cvVars)
<1> SUFFICES ASSUME [Next]_vars PROVE [CV!CvNext]_(CV!cvVars)
  OBVIOUS
<1>1. ASSUME NEW t \in Threads, Step(t) PROVE [CV!CvNext]_(CV!cvVars)
  BY <1>1 DEF Step, CheckCount, CountDownLocked, NotifyLocked, Unlock, BeginWait,
    Sleep, WaitForSingleObject, WakeUp, SetInterrupted, Notify, SetEvent, Reset,
    CV!CvNext, CV!cvVars
<1>2. ASSUME NEW t \in Threads, TimeOut(t) PROVE [CV!CvNext]_(CV!cvVars)
  BY <1>2 DEF TimeOut, CV!CvNext, CV!cvVars
<1>3. QED
  BY <1>1, <1>2 DEF Next, Finished, vars, CV!cvVars

LEMMA LatchInvInitially == Init => LatchInv
<1> SUFFICES ASSUME Init PROVE LatchInv
  OBVIOUS
<1>1. CV!CvTypeOK /\ CV!CountsWaiters
  BY CvInvInduction DEF Init
<1>2. QED
  BY <1>1, LatchAssumption
  DEF Init, Waiting, LatchInv, TypeOK, CallsInProgress, FirstCall, Labels,
    CV!CvInit, CV!InitializeConditionVariableXp

\* What one evaluation of the predicate can do to ret and pc.
LEMMA EvaluateReturns ==
  ASSUME NEW t \in Threads, NEW late \in BOOLEAN, TypeOK, Evaluate(t, late)
  PROVE  /\ pc' = [pc EXCEPT ![t] = "unlock"] \/ pc' = [pc EXCEPT ![t] = "sleep"]
         /\ ret' \in [Threads -> {"none", "Success", "TimeOut", "Interrupted"}]
         /\ \A u \in Threads \ {t} : ret'[u] = ret[u]
         /\ pc'[t] = "sleep" => ret' = ret
  BY DEF Evaluate, Goto, TypeOK

LEMMA LatchInvStep == LatchInv /\ [Next]_vars => LatchInv'
<1> SUFFICES ASSUME LatchInv, [Next]_vars PROVE LatchInv'
  OBVIOUS
<1> USE DEF LatchInv
<1>1. (CV!CvTypeOK /\ CV!CountsWaiters)'
  BY StepIsCvStep, CvInvInduction DEF TypeOK
<1>t. LET CvRecord == [ wait_count_ : Nat, event_ : BOOLEAN,
                       pos : [Threads -> CV!Position], count : [Threads -> Nat] ]
      IN  cv \in CvRecord /\ cv' \in CvRecord
  BY <1>1 DEF CV!CvTypeOK, TypeOK
<1>2. TypeOK' /\ CallsInProgress'
  <2>1. ASSUME NEW t \in Threads, CheckCount(t) PROVE TypeOK' /\ CallsInProgress'
    BY <1>1, <2>1 DEF CheckCount, Goto, AfterCountDown, TypeOK, Labels, CallsInProgress
  <2>2. ASSUME NEW t \in Threads, CountDownLocked(t)
        PROVE  TypeOK' /\ CallsInProgress'
    <3>1. count_' \in 0..MaxULong
      BY <2>2, LatchAssumption DEF CountDownLocked, Decrement, TypeOK
    <3>2. UNCHANGED cv
      BY <2>2 DEF CountDownLocked, CV!Lock
    <3>3. QED
      BY <1>1, <2>2, <3>1, <3>2 DEF CountDownLocked, Goto, TypeOK, Labels, CallsInProgress
  <2>3. ASSUME NEW t \in Threads, NotifyLocked(t) \/ Notify(t)
        PROVE  TypeOK' /\ CallsInProgress'
    <3>1. cv'.pos = cv.pos
      BY <1>t, <2>3 DEF NotifyLocked, Notify, CV!NotifyAll
    <3>2. QED
      BY <1>1, <2>3, <3>1 DEF NotifyLocked, Notify, Goto, TypeOK, Labels, CallsInProgress
  <2>4. ASSUME NEW t \in Threads, Unlock(t) PROVE TypeOK' /\ CallsInProgress'
    BY <1>1, <2>4 DEF Unlock, CV!Unlock, Goto, TypeOK, Labels, CallsInProgress
  <2>5. ASSUME NEW t \in Threads, BeginWait(t) PROVE TypeOK' /\ CallsInProgress'
    <3>1. PICK late \in BOOLEAN : Evaluate(t, late)
      BY <2>5 DEF BeginWait, MayBeLate
    <3>2. UNCHANGED <<cv, count_, interrupted, midway>> /\ ret[t] = "none"
      BY <2>5 DEF BeginWait, CV!Lock, CallsInProgress
    <3>3. QED
      BY <1>1, <3>1, <3>2, EvaluateReturns DEF TypeOK, Labels, CallsInProgress
  <2>6. ASSUME NEW t \in Threads, Sleep(t) PROVE TypeOK' /\ CallsInProgress'
    <3>1. \A u \in Threads : cv'.pos[u] = "timedout" => cv.pos[u] = "timedout"
      BY <1>t, <2>6 DEF Sleep, CV!Sleep
    <3>2. QED
      BY <1>1, <2>6, <3>1 DEF Sleep, Goto, TypeOK, Labels, CallsInProgress
  <2>7. ASSUME NEW t \in Threads, WaitForSingleObject(t) \/ SetEvent(t)
        PROVE  TypeOK' /\ CallsInProgress'
    <3>1. \A u \in Threads : cv'.pos[u] = "timedout" => cv.pos[u] = "timedout"
      <4>1. CASE WaitForSingleObject(t)
        <5>1. \/ cv' = [cv EXCEPT !.event_ = FALSE, !.pos[t] = "signalled"]
              \/ cv' = [cv EXCEPT !.pos[t] = "blocked"]
          BY <4>1 DEF WaitForSingleObject, CV!WaitForSingleObject
        <5>2. \E p \in {"signalled", "blocked"} : cv'.pos = [cv.pos EXCEPT ![t] = p]
          BY <1>t, <5>1
        <5>3. QED
          BY <1>t, <5>2
      <4>2. CASE SetEvent(t)
        <5>1. \/ \E b \in Threads : cv'.pos = [cv.pos EXCEPT ![b] = "signalled"]
              \/ cv'.pos = cv.pos
          <6>1. CASE \E b \in Threads :
                       cv' = [cv EXCEPT !.count[t] = @ - 1, !.pos[b] = "signalled"]
            BY <1>t, <6>1
          <6>2. CASE cv' = [cv EXCEPT !.count[t] = @ - 1, !.event_ = TRUE]
            BY <1>t, <6>2
          <6>3. QED
            BY <4>2, <6>1, <6>2 DEF SetEvent, CV!SetEvent, CV!Blocked
        <5>2. QED
          BY <1>t, <5>1
      <4>3. QED
        BY <2>7, <4>1, <4>2
    <3>2. midway' \subseteq Threads
      BY <2>7 DEF WaitForSingleObject, SetEvent, Remember, TypeOK
    <3>3. UNCHANGED <<count_, interrupted, pc, ret>>
      BY <2>7 DEF WaitForSingleObject, SetEvent
    <3>4. QED
      BY <1>1, <3>1, <3>2, <3>3 DEF TypeOK, CallsInProgress
  <2>8. ASSUME NEW t \in Threads, TimeOut(t) PROVE TypeOK' /\ CallsInProgress'
    <3>1. \A u \in Threads : cv'.pos[u] = "timedout" => cv.pos[u] = "timedout" \/ u = t
      BY <1>t, <2>8 DEF TimeOut, CV!TimeOut
    <3>2. midway' \subseteq Threads
      BY <2>8 DEF TimeOut, Remember, TypeOK
    <3>3. QED
      BY <1>1, <2>8, <3>1, <3>2 DEF TimeOut, TypeOK, CallsInProgress
  <2>9. ASSUME NEW t \in Threads, WakeUp(t) PROVE TypeOK' /\ CallsInProgress'
    <3>1. PICK late \in BOOLEAN : Evaluate(t, late)
      BY <2>9 DEF WakeUp, MayBeLate
    <3>2. UNCHANGED <<count_, interrupted, midway>> /\ ret[t] = "none"
      BY <2>9 DEF WakeUp, CallsInProgress
    <3>3. \A u \in Threads : cv'.pos[u] = "timedout" => cv.pos[u] = "timedout"
      BY <1>t, <2>9 DEF WakeUp, CV!Resume
    <3>4. QED
      BY <1>1, <3>1, <3>2, <3>3, EvaluateReturns DEF TypeOK, Labels, CallsInProgress
  <2>10. ASSUME NEW t \in Threads, SetInterrupted(t) PROVE TypeOK' /\ CallsInProgress'
    BY <1>1, <2>10 DEF SetInterrupted, Goto, TypeOK, Labels, CallsInProgress
  <2>11. ASSUME NEW t \in Threads, Reset(t) PROVE TypeOK' /\ CallsInProgress'
    BY <1>1, <2>11, LatchAssumption
    DEF Reset, CV!Lock, Goto, TypeOK, Labels, CallsInProgress
  <2>12. ASSUME UNCHANGED vars PROVE TypeOK' /\ CallsInProgress'
    BY <1>1, <2>12 DEF vars, TypeOK, CallsInProgress
  <2>13. QED
    BY <2>1, <2>2, <2>3, <2>4, <2>5, <2>6, <2>7, <2>8, <2>9, <2>10, <2>11, <2>12
    DEF Next, Step, Finished
<1>3. QED
  BY <1>1, <1>2

\* The variables of the latch keep their types; count_ stays a ULONG that never
\* wraps, and wait_count_ of its condition variable counts its sleepers.
\* (CountDownLatch)
THEOREM LatchTypeCorrect == Spec => [](TypeOK /\ CV!CountsWaiters)
<1>1. LatchInv => TypeOK /\ CV!CountsWaiters
  BY DEF LatchInv
<1>2. QED
  BY <1>1, LatchInvInitially, LatchInvStep, PTL DEF Spec

-----------------------------------------------------------------------------
(***************************************************************************)
(* Nobody is forgotten.  Why: from the notification on, which is made under *)
(* the lock, as many SetEvents are owed as there are threads asleep; a     *)
(* SetEvent takes one thread out of the sleep or, with none blocked, sets  *)
(* the event for one of those that were midway.  Nobody begins a sleep: a  *)
(* thread on its way into one holds the lock and has seen a count above    *)
(* zero.                                                                   *)
(***************************************************************************)

\* Who is in the middle of a critical section.
HoldsTheLock ==
  \A t \in Threads :
    /\ pc[t] \in {"notify", "unlock", "sleep"} => owner = t
    /\ pc[t] = "notify" => count_ = 0
    /\ pc[t] = "sleep" => count_ > 0

Counted == {u \in Threads : cv.pos[u] = "counted"}

\* The calls that took the count to zero still owe a SetEvent to every sleeper.
EnoughOwed ==
  \E t \in Threads : pc[t] = "unlock" /\ Cardinality(CV!Asleep) <= cv.count[t]

AllReached ==
  /\ CV!Asleep \subseteq midway
  /\ CV!Asleep # {} => cv.event_ \/ CV!Asleep # midway

NotForgottenInv ==
  count_ = 0 /\ (\A t \in Threads : pc[t] # "notify") =>
    /\ Counted \subseteq midway
    /\ AllReached \/ EnoughOwed

LEMMA SleepersFinite ==
  /\ IsFiniteSet(CV!Asleep) /\ Cardinality(CV!Asleep) \in Nat
  /\ IsFiniteSet(CV!Inside) /\ Cardinality(CV!Inside) \in Nat
  /\ Cardinality(CV!Asleep) <= Cardinality(CV!Inside)
<1>1. CV!Asleep \subseteq CV!Inside /\ CV!Inside \subseteq Threads
  BY DEF CV!Asleep, CV!Inside
<1>2. IsFiniteSet(CV!Inside)
  BY <1>1, FS_Subset, LatchAssumption
<1>3. QED
  BY <1>1, <1>2, FS_Subset, FS_CardinalityType

LEMMA HoldsTheLockStep == LatchInv /\ HoldsTheLock /\ [Next]_vars => HoldsTheLock'
<1> SUFFICES ASSUME LatchInv, HoldsTheLock, [Next]_vars PROVE HoldsTheLock'
  OBVIOUS
<1> USE DEF HoldsTheLock
<1>0. pc \in [Threads -> Labels] /\ count_ \in Nat
  BY DEF LatchInv, TypeOK
<1>1. ASSUME NEW t \in Threads, CheckCount(t) \/ SetInterrupted(t) PROVE HoldsTheLock'
  BY <1>0, <1>1 DEF CheckCount, SetInterrupted, Goto, AfterCountDown
<1>2. ASSUME NEW t \in Threads, CountDownLocked(t) PROVE HoldsTheLock'
  <2>1. owner = NoThread /\ owner' = t
    BY <1>2 DEF CountDownLocked, CV!Lock
  <2>2. \A u \in Threads : pc[u] \notin {"notify", "unlock", "sleep"}
    BY <2>1, LatchAssumption
  <2>3. pc'[t] \in {"notify", "unlock"} /\ (pc'[t] = "notify" => count_' = 0)
    BY <1>0, <1>2 DEF CountDownLocked, Goto
  <2>4. \A u \in Threads \ {t} : pc'[u] = pc[u]
    BY <1>0, <1>2 DEF CountDownLocked, Goto
  <2> QED BY <2>1, <2>2, <2>3, <2>4
<1>3. ASSUME NEW t \in Threads, NotifyLocked(t) \/ Notify(t) PROVE HoldsTheLock'
  BY <1>0, <1>3 DEF NotifyLocked, Notify, CV!NotifyAll, Goto
<1>4. ASSUME NEW t \in Threads, Unlock(t) \/ Sleep(t) PROVE HoldsTheLock'
  <2>1. owner = t /\ UNCHANGED count_
    BY <1>4 DEF Unlock, Sleep, CV!Unlock, CV!Sleep
  <2>2. /\ pc'[t] \notin {"notify", "unlock", "sleep"}
        /\ \A u \in Threads \ {t} : pc'[u] = pc[u]
    BY <1>0, <1>4 DEF Unlock, Sleep, Goto
  <2> QED BY <2>1, <2>2
<1>5. ASSUME NEW t \in Threads, BeginWait(t) \/ WakeUp(t) PROVE HoldsTheLock'
  <2>1. owner = NoThread /\ owner' = t /\ UNCHANGED count_
    BY <1>5 DEF BeginWait, WakeUp, CV!Lock, CV!Resume
  <2>2. \A u \in Threads : pc[u] \notin {"notify", "unlock", "sleep"}
    BY <2>1, LatchAssumption
  <2>3. PICK late : Evaluate(t, late)
    BY <1>5 DEF BeginWait, WakeUp
  <2>4. /\ pc'[t] \in {"unlock", "sleep"}
        /\ pc'[t] = "sleep" => count_ > 0
        /\ \A u \in Threads \ {t} : pc'[u] = pc[u]
    BY <1>0, <2>3 DEF Evaluate, Goto
  <2> QED BY <2>1, <2>2, <2>4
<1>6. ASSUME NEW t \in Threads, WaitForSingleObject(t) \/ TimeOut(t) \/ SetEvent(t)
      PROVE  HoldsTheLock'
  BY <1>6 DEF WaitForSingleObject, TimeOut, SetEvent,
    CV!WaitForSingleObject, CV!TimeOut, CV!SetEvent
<1>7. ASSUME NEW t \in Threads, Reset(t) PROVE HoldsTheLock'
  <2>1. owner = NoThread /\ owner' = t
    BY <1>7 DEF Reset, CV!Lock
  <2>2. \A u \in Threads : pc[u] \notin {"notify", "unlock", "sleep"}
    BY <2>1, LatchAssumption
  <2>3. pc'[t] = "unlock" /\ \A u \in Threads \ {t} : pc'[u] = pc[u]
    BY <1>0, <1>7 DEF Reset, Goto
  <2> QED BY <2>1, <2>2, <2>3
<1>8. ASSUME UNCHANGED vars PROVE HoldsTheLock'
  BY <1>8 DEF vars
<1> QED
  BY <1>1, <1>2, <1>3, <1>4, <1>5, <1>6, <1>7, <1>8 DEF Next, Step, Finished

\* What no step on the event changes: the count, and who is at the end of a
\* critical section.  After it, NotForgottenInv needs only these three facts.
LEMMA StillNotForgotten ==
  ASSUME NotForgottenInv, UNCHANGED <<count_, pc>>, Remember,
         Counted \subseteq midway => Counted' \subseteq midway,
         Counted \subseteq midway /\ AllReached =>
           /\ CV!Asleep' \subseteq midway
           /\ CV!Asleep' # {} => cv'.event_ \/ CV!Asleep' # midway,
         Counted \subseteq midway /\ EnoughOwed =>
           \/ EnoughOwed'
           \/ /\ CV!Asleep' \subseteq midway
              /\ CV!Asleep' # {} => cv'.event_ \/ CV!Asleep' # midway
  PROVE  NotForgottenInv'
<1>1. CASE CV!Asleep' = {}
  <2>1. Counted' = {}
    BY <1>1 DEF Counted, CV!Asleep
  <2>2. AllReached'
    BY <1>1 DEF AllReached
  <2> QED BY <2>1, <2>2 DEF NotForgottenInv
<1>2. CASE CV!Asleep' # {}
  <2>1. midway' = midway
    BY <1>2 DEF Remember
  <2>2. (\A t \in Threads : pc'[t] # "notify") <=> (\A t \in Threads : pc[t] # "notify")
    OBVIOUS
  <2>3. SUFFICES ASSUME count_ = 0, \A t \in Threads : pc[t] # "notify"
                 PROVE  Counted' \subseteq midway' /\ (AllReached' \/ EnoughOwed')
    BY <2>2 DEF NotForgottenInv
  <2>4. Counted \subseteq midway /\ (AllReached \/ EnoughOwed)
    BY <2>3 DEF NotForgottenInv
  <2> QED BY <2>1, <2>4 DEF AllReached
<1> QED BY <1>1, <1>2

\* One thread leaves the sleep, or none does, and as many SetEvents stay owed.
LEMMA OneLeaves ==
  ASSUME LatchInv, NotForgottenInv, UNCHANGED <<count_, pc>>, Remember,
         NEW b, CV!Asleep' = CV!Asleep \ {b}, Counted' \subseteq Counted,
         cv'.event_ = cv.event_ \/ b \in CV!Asleep,
         \A t \in Threads : \/ cv'.count[t] = cv.count[t]
                            \/ cv'.count[t] = cv.count[t] - 1 /\ b \in CV!Asleep
  PROVE  NotForgottenInv'
<1> USE SleepersFinite
<1>1. CV!Asleep \subseteq midway => CV!Asleep' \subseteq midway
  OBVIOUS
<1>2. CV!Asleep \subseteq midway /\ b \in CV!Asleep => CV!Asleep' # midway
  OBVIOUS
<1>3. b \notin CV!Asleep => CV!Asleep' = CV!Asleep
  OBVIOUS
<1>4. AllReached =>
        /\ CV!Asleep' \subseteq midway
        /\ CV!Asleep' # {} => cv'.event_ \/ CV!Asleep' # midway
  BY <1>1, <1>2, <1>3 DEF AllReached
<1>5. EnoughOwed => EnoughOwed'
  <2>1. SUFFICES ASSUME NEW t \in Threads, pc[t] = "unlock",
                        Cardinality(CV!Asleep) <= cv.count[t]
                 PROVE  Cardinality(CV!Asleep') <= cv'.count[t]
    BY DEF EnoughOwed
  <2>2. cv.count[t] \in Nat
    BY DEF LatchInv, TypeOK, CV!CvTypeOK
  <2>3. CASE b \in CV!Asleep
    <3>1. Cardinality(CV!Asleep') = Cardinality(CV!Asleep) - 1
      BY <2>3, FS_RemoveElement
    <3> QED BY <2>1, <2>2, <3>1
  <2>4. CASE b \notin CV!Asleep
    BY <1>3, <2>1, <2>4
  <2> QED BY <2>3, <2>4
<1> QED BY <1>4, <1>5, StillNotForgotten

LEMMA NotForgottenStep ==
  LatchInv /\ HoldsTheLock /\ NotForgottenInv /\ [Next]_vars => NotForgottenInv'
<1> SUFFICES ASSUME LatchInv, HoldsTheLock, NotForgottenInv, [Next]_vars
             PROVE  NotForgottenInv'
  OBVIOUS
<1>0. /\ pc \in [Threads -> Labels] /\ count_ \in Nat
      /\ cv.pos \in [Threads -> CV!Position] /\ cv.count \in [Threads -> Nat]
      /\ cv = [wait_count_ |-> cv.wait_count_, event_ |-> cv.event_,
               pos |-> cv.pos, count |-> cv.count]
  BY DEF LatchInv, TypeOK, CV!CvTypeOK
\* Steps after which the count is not zero or somebody is to notify.
<1>1. ASSUME count_' # 0 \/ \E t \in Threads : pc'[t] = "notify" PROVE NotForgottenInv'
  BY <1>1 DEF NotForgottenInv
\* Steps that leave the condition variable, the count and the notifier alone.
<1>2. ASSUME UNCHANGED <<cv, count_, midway>>,
             \A t \in Threads : pc[t] = "notify" => pc'[t] = "notify",
             \A t \in Threads : pc[t] = "unlock" =>
               pc'[t] = "unlock" \/ cv.count[t] = 0
      PROVE  NotForgottenInv'
  <2>1. UNCHANGED CV!Asleep /\ UNCHANGED Counted
    BY <1>2 DEF CV!Asleep, Counted
  <2>2. SUFFICES ASSUME count_ = 0, \A t \in Threads : pc'[t] # "notify"
                 PROVE  Counted' \subseteq midway' /\ (AllReached' \/ EnoughOwed')
    BY <1>2 DEF NotForgottenInv
  <2>3. Counted \subseteq midway /\ (AllReached \/ EnoughOwed)
    BY <1>2, <2>2 DEF NotForgottenInv
  <2>4. AllReached => AllReached'
    BY <1>2, <2>1 DEF AllReached
  <2>5. ASSUME EnoughOwed PROVE EnoughOwed' \/ AllReached'
    <3>1. PICK t \in Threads : pc[t] = "unlock" /\ Cardinality(CV!Asleep) <= cv.count[t]
      BY <2>5 DEF EnoughOwed
    <3>2. CASE pc'[t] = "unlock"
      BY <1>2, <2>1, <3>1, <3>2 DEF EnoughOwed
    <3>3. CASE cv.count[t] = 0
      <4>1. CV!Asleep = {}
        BY <3>1, <3>3, SleepersFinite, FS_EmptySet
      <4> QED BY <2>1, <4>1 DEF AllReached
    <3> QED BY <1>2, <3>1, <3>2, <3>3
  <2> QED BY <1>2, <2>1, <2>3, <2>4, <2>5
<1>3. ASSUME NEW t \in Threads, CheckCount(t) \/ SetInterrupted(t) PROVE NotForgottenInv'
  <2>1. UNCHANGED <<cv, count_, midway>>
    BY <1>3 DEF CheckCount, SetInterrupted
  <2>2. /\ pc[t] \notin {"notify", "unlock"}
        /\ \A u \in Threads \ {t} : pc'[u] = pc[u]
    BY <1>0, <1>3 DEF CheckCount, SetInterrupted, Goto
  <2> QED BY <1>2, <2>1, <2>2
<1>4. ASSUME NEW t \in Threads, CountDownLocked(t) PROVE NotForgottenInv'
  <2>1. UNCHANGED <<cv, midway>> /\ pc[t] = "lock"
    BY <1>4 DEF CountDownLocked, CV!Lock
  <2>2. \A u \in Threads \ {t} : pc'[u] = pc[u]
    BY <1>0, <1>4 DEF CountDownLocked, Goto
  <2>3. CASE count_ > 0 /\ count_' = Decrement(count_)
             /\ Goto(t, IF count_' = 0 THEN "notify" ELSE "unlock")
    BY <1>0, <1>1, <2>3 DEF Goto
  <2>4. CASE UNCHANGED count_
    BY <1>2, <2>1, <2>2, <2>4
  <2> QED BY <1>4, <2>3, <2>4 DEF CountDownLocked
<1>5. ASSUME NEW t \in Threads, NotifyLocked(t) PROVE NotForgottenInv'
  <2>1. /\ cv' = [cv EXCEPT !.count[t] = cv.wait_count_]
        /\ midway' = Counted /\ pc' = [pc EXCEPT ![t] = "unlock"]
    BY <1>5 DEF NotifyLocked, CV!NotifyAll, Counted, Goto
  <2>2. cv'.pos = cv.pos /\ cv'.count[t] = cv.wait_count_
    BY <1>0, <2>1
  <2>3. CV!Asleep' = CV!Asleep /\ Counted' = Counted
    BY <2>2 DEF CV!Asleep, Counted
  <2>4. cv.wait_count_ = Cardinality(CV!Inside)
    BY DEF LatchInv, CV!CountsWaiters, CV!Cardinality, Cardinality
  <2>5. pc'[t] = "unlock" /\ Cardinality(CV!Asleep') <= cv'.count[t]
    BY <1>0, <2>1, <2>2, <2>3, <2>4, SleepersFinite
  <2>6. EnoughOwed'
    BY <2>5 DEF EnoughOwed
  <2> QED BY <2>1, <2>3, <2>6 DEF NotForgottenInv
<1>6. ASSUME NEW t \in Threads, Unlock(t) PROVE NotForgottenInv'
  <2>1. UNCHANGED <<cv, count_, midway>> /\ pc[t] = "unlock" /\ cv.count[t] = 0
    BY <1>6 DEF Unlock, CV!Unlock
  <2>2. \A u \in Threads \ {t} : pc'[u] = pc[u]
    BY <1>0, <1>6 DEF Unlock, Goto
  <2> QED BY <1>2, <2>1, <2>2
<1>7. ASSUME NEW t \in Threads, BeginWait(t) PROVE NotForgottenInv'
  <2>1. UNCHANGED <<cv, count_, midway>> /\ pc[t] = "wait"
    BY <1>7 DEF BeginWait, CV!Lock
  <2>2. \A u \in Threads \ {t} : pc'[u] = pc[u]
    BY <1>0, <1>7 DEF BeginWait, Evaluate, Goto
  <2> QED BY <1>2, <2>1, <2>2
<1>8. ASSUME NEW t \in Threads, Sleep(t) PROVE NotForgottenInv'
  BY <1>1, <1>8, <1>0 DEF Sleep, HoldsTheLock
<1>9. ASSUME NEW t \in Threads, WaitForSingleObject(t) PROVE NotForgottenInv'
  <2>0. UNCHANGED <<count_, pc>> /\ Remember /\ cv.pos[t] = "counted"
    BY <1>9 DEF WaitForSingleObject, CV!WaitForSingleObject
  <2>1. CASE cv' = [cv EXCEPT !.event_ = FALSE, !.pos[t] = "signalled"]
    <3>1. cv'.pos = [cv.pos EXCEPT ![t] = "signalled"] /\ cv'.count = cv.count
      BY <1>0, <2>1
    <3>2. CV!Asleep' = CV!Asleep \ {t} /\ t \in CV!Asleep /\ Counted' \subseteq Counted
      BY <1>0, <2>0, <3>1 DEF CV!Asleep, Counted
    <3> QED BY <2>0, <3>1, <3>2, OneLeaves
  <2>2. CASE cv' = [cv EXCEPT !.pos[t] = "blocked"]
    <3>1. /\ cv'.pos = [cv.pos EXCEPT ![t] = "blocked"] /\ cv'.count = cv.count
          /\ cv'.event_ = cv.event_
      BY <1>0, <2>2
    <3>2. CV!Asleep' = CV!Asleep \ {NoThread} /\ Counted' \subseteq Counted
      BY <1>0, <2>0, <3>1, LatchAssumption DEF CV!Asleep, Counted
    <3> QED BY <2>0, <3>1, <3>2, OneLeaves
  <2> QED BY <1>9, <2>1, <2>2 DEF WaitForSingleObject, CV!WaitForSingleObject
<1>10. ASSUME NEW t \in Threads, TimeOut(t) PROVE NotForgottenInv'
  <2>0. /\ UNCHANGED <<count_, pc>> /\ Remember /\ cv.pos[t] = "blocked"
        /\ cv' = [cv EXCEPT !.pos[t] = "timedout"]
    BY <1>10 DEF TimeOut, CV!TimeOut
  <2>1. /\ cv'.pos = [cv.pos EXCEPT ![t] = "timedout"] /\ cv'.count = cv.count
        /\ cv'.event_ = cv.event_
    BY <1>0, <2>0
  <2>2. CV!Asleep' = CV!Asleep \ {t} /\ Counted' \subseteq Counted
    BY <1>0, <2>0, <2>1 DEF CV!Asleep, Counted
  <2> QED BY <2>0, <2>1, <2>2, OneLeaves
<1>11. ASSUME NEW t \in Threads, SetEvent(t) PROVE NotForgottenInv'
  <2>0. UNCHANGED <<count_, pc>> /\ Remember /\ cv.count[t] > 0
    BY <1>11 DEF SetEvent, CV!SetEvent
  <2>1. ASSUME NEW b \in CV!Blocked,
               cv' = [cv EXCEPT !.count[t] = @ - 1, !.pos[b] = "signalled"]
        PROVE  NotForgottenInv'
    <3>0. b \in Threads /\ b \in CV!Asleep
      BY DEF CV!Blocked, CV!Asleep
    <3>1. /\ cv'.pos = [cv.pos EXCEPT ![b] = "signalled"]
          /\ cv'.count = [cv.count EXCEPT ![t] = @ - 1]
          /\ cv'.event_ = cv.event_
      BY <1>0, <2>1
    <3>2. CV!Asleep' = CV!Asleep \ {b} /\ Counted' \subseteq Counted
      BY <1>0, <3>0, <3>1 DEF CV!Asleep, Counted
    <3>3. \A u \in Threads : cv'.count[u] = cv.count[u] \/ cv'.count[u] = cv.count[u] - 1
      BY <1>0, <3>1
    <3> QED BY <2>0, <3>0, <3>1, <3>2, <3>3, OneLeaves
  <2>2. ASSUME CV!Blocked = {}, cv' = [cv EXCEPT !.count[t] = @ - 1, !.event_ = TRUE]
        PROVE  NotForgottenInv'
    <3>1. cv'.pos = cv.pos /\ cv'.event_
      BY <1>0, <2>2
    <3>2. CV!Asleep' = CV!Asleep /\ Counted' = Counted
      BY <3>1 DEF CV!Asleep, Counted
    <3>3. CV!Asleep \subseteq Counted
      BY <2>2 DEF CV!Asleep, CV!Blocked, Counted
    <3> QED BY <2>0, <3>1, <3>2, <3>3, StillNotForgotten
  <2> QED BY <1>11, <2>1, <2>2 DEF SetEvent, CV!SetEvent
<1>12. ASSUME NEW t \in Threads, WakeUp(t) PROVE NotForgottenInv'
  <2>0. /\ UNCHANGED <<count_, midway>> /\ pc[t] \in {"asleep", "endless"}
        /\ cv.pos[t] \in {"signalled", "timedout"}
        /\ cv' = [cv EXCEPT !.wait_count_ = @ - 1, !.pos[t] = "out"]
    BY <1>12 DEF WakeUp, CV!Resume
  <2>1. \A u \in Threads \ {t} : pc'[u] = pc[u]
    BY <1>0, <1>12 DEF WakeUp, Evaluate, Goto
  <2>2. /\ cv'.pos = [cv.pos EXCEPT ![t] = "out"] /\ cv'.count = cv.count
        /\ cv'.event_ = cv.event_
    BY <1>0, <2>0
  <2>3. CV!Asleep' = CV!Asleep /\ Counted' = Counted
    BY <1>0, <2>0, <2>2 DEF CV!Asleep, Counted
  <2>4. SUFFICES ASSUME count_ = 0, \A u \in Threads : pc'[u] # "notify"
                 PROVE  Counted' \subseteq midway' /\ (AllReached' \/ EnoughOwed')
    BY <2>0 DEF NotForgottenInv
  <2>5. Counted \subseteq midway /\ (AllReached \/ EnoughOwed)
    BY <2>0, <2>1, <2>4 DEF NotForgottenInv
  <2>6. AllReached => AllReached'
    BY <2>0, <2>2, <2>3 DEF AllReached
  <2>7. EnoughOwed => EnoughOwed'
    BY <2>0, <2>1, <2>2, <2>3 DEF EnoughOwed
  <2> QED BY <2>0, <2>3, <2>5, <2>6, <2>7
<1>13. ASSUME NEW t \in Threads, Notify(t) PROVE NotForgottenInv'
  <2>0. /\ UNCHANGED <<count_, midway>> /\ pc[t] = "wake"
        /\ cv' = [cv EXCEPT !.count[t] = cv.wait_count_]
    BY <1>13 DEF Notify, CV!NotifyAll
  <2>1. \A u \in Threads \ {t} : pc'[u] = pc[u]
    BY <1>0, <1>13 DEF Notify, Goto
  <2>2. /\ cv'.pos = cv.pos /\ cv'.event_ = cv.event_
        /\ \A u \in Threads \ {t} : cv'.count[u] = cv.count[u]
    BY <1>0, <2>0
  <2>3. CV!Asleep' = CV!Asleep /\ Counted' = Counted
    BY <2>2 DEF CV!Asleep, Counted
  <2>4. SUFFICES ASSUME count_ = 0, \A u \in Threads : pc'[u] # "notify"
                 PROVE  Counted' \subseteq midway' /\ (AllReached' \/ EnoughOwed')
    BY <2>0 DEF NotForgottenInv
  <2>5. Counted \subseteq midway /\ (AllReached \/ EnoughOwed)
    BY <2>0, <2>1, <2>4 DEF NotForgottenInv
  <2>6. AllReached => AllReached'
    BY <2>0, <2>2, <2>3 DEF AllReached
  <2>7. EnoughOwed => EnoughOwed'
    BY <2>0, <2>1, <2>2, <2>3 DEF EnoughOwed
  <2> QED BY <2>0, <2>3, <2>5, <2>6, <2>7
<1>14. ASSUME NEW t \in Threads, Reset(t) PROVE NotForgottenInv'
  BY <1>1, <1>14 DEF Reset
<1>15. ASSUME UNCHANGED vars PROVE NotForgottenInv'
  <2>1. UNCHANGED <<cv, count_, midway>> /\ pc' = pc
    BY <1>15 DEF vars
  <2> QED BY <1>2, <2>1
<1> QED
  BY <1>3, <1>4, <1>5, <1>6, <1>7, <1>8, <1>9, <1>10, <1>11, <1>12, <1>13, <1>14, <1>15
  DEF Next, Step, Finished

LEMMA NotForgottenSuffices ==
  ASSUME LatchInv, NotForgottenInv
  PROVE  NobodyForgotten
<1> SUFFICES ASSUME count_ = 0, ~Notifying PROVE AllReached
  BY DEF NobodyForgotten, AllReached
<1>1. AllReached \/ EnoughOwed
  BY DEF NotForgottenInv, Notifying
<1>2. ASSUME EnoughOwed PROVE AllReached
  <2>1. PICK t \in Threads : pc[t] = "unlock" /\ Cardinality(CV!Asleep) <= cv.count[t]
    BY <1>2 DEF EnoughOwed
  <2>2. cv.count[t] \in Nat
    BY DEF LatchInv, TypeOK, CV!CvTypeOK
  <2>3. cv.count[t] = 0
    BY <2>1, <2>2 DEF Notifying
  <2>4. CV!Asleep = {}
    BY <2>1, <2>3, SleepersFinite, FS_EmptySet
  <2> QED BY <2>4 DEF AllReached
<1> QED BY <1>1, <1>2

\* When the count has reached zero and its wake-ups are made, whoever was blocked
\* has been let go and nobody goes to sleep; of those counted and not yet blocked
\* one is let go at least.  For any threads, any count, and whatever deadlines,
\* interrupts and Resets come between. (CountDown, Wait, AWait)
THEOREM LatchForgetsNobody == Spec => []NobodyForgotten
<1>1. Init => HoldsTheLock /\ NotForgottenInv
  <2>1. SUFFICES ASSUME Init PROVE HoldsTheLock /\ NotForgottenInv
    OBVIOUS
  <2>2. CV!Asleep = {} /\ Counted = {}
    BY <2>1 DEF Init, CV!CvInit, CV!InitializeConditionVariableXp, CV!Asleep, Counted
  <2>3. HoldsTheLock
    BY <2>1 DEF Init, HoldsTheLock, FirstCall
  <2> QED BY <2>2, <2>3 DEF NotForgottenInv, AllReached
<1> QED
  BY <1>1, LatchInvInitially, LatchInvStep, HoldsTheLockStep, NotForgottenStep,
    NotForgottenSuffices, PTL DEF Spec

-----------------------------------------------------------------------------
(* The abstract latch. *)

LEMMA EvaluateIsReturn ==
  ASSUME LatchInv, NEW t \in Threads, NEW late \in BOOLEAN,
         late => t \in TimedWaiters, pc[t] \in {"wait", "asleep", "endless"},
         Evaluate(t, late), UNCHANGED <<count_, interrupted>>
  PROVE  [L!LatchNext]_(L!latchVars)
<1>1. ret[t] = "none"
  BY DEF LatchInv, CallsInProgress
<1>2. CASE \E o \in {"Success", "TimeOut", "Interrupted"} : L!Return(t, o)
  BY <1>2 DEF L!LatchNext
<1>3. CASE UNCHANGED ret
  BY <1>3 DEF L!latchVars
<1>4. QED
  BY <1>1, <1>2, <1>3 DEF Evaluate, L!Return, LatchInv, TypeOK

LEMMA LatchStep == LatchInv /\ [Next]_vars => [L!LatchNext]_(L!latchVars)
<1> SUFFICES ASSUME LatchInv, [Next]_vars PROVE [L!LatchNext]_(L!latchVars)
  OBVIOUS
<1>1. ASSUME NEW t \in Threads, CountDownLocked(t) PROVE [L!LatchNext]_(L!latchVars)
  BY <1>1 DEF CountDownLocked, Decrement, L!LatchNext, L!latchVars, L!CountDown
<1>2. ASSUME NEW t \in Threads, BeginWait(t) PROVE [L!LatchNext]_(L!latchVars)
  BY <1>2, EvaluateIsReturn DEF BeginWait, MayBeLate
<1>3. ASSUME NEW t \in Threads, WakeUp(t) PROVE [L!LatchNext]_(L!latchVars)
  BY <1>3, EvaluateIsReturn DEF WakeUp, MayBeLate, LatchInv, CallsInProgress
<1>4. ASSUME NEW t \in Threads, SetInterrupted(t) PROVE [L!LatchNext]_(L!latchVars)
  BY <1>4 DEF SetInterrupted, L!LatchNext, L!latchVars, L!Interrupt
<1>5. ASSUME NEW t \in Threads, Reset(t) PROVE [L!LatchNext]_(L!latchVars)
  <2>1. t \in Resetters
    BY <1>5 DEF Reset, LatchInv, CallsInProgress
  <2>2. QED
    BY <1>5, <2>1 DEF Reset, L!LatchNext, L!latchVars, L!Reset
<1>6. ASSUME NEW t \in Threads,
             \/ CheckCount(t) \/ NotifyLocked(t) \/ Unlock(t) \/ Sleep(t)
             \/ WaitForSingleObject(t) \/ TimeOut(t) \/ Notify(t) \/ SetEvent(t)
      PROVE  UNCHANGED L!latchVars
  BY <1>6 DEF CheckCount, NotifyLocked, Unlock, Sleep, WaitForSingleObject,
    TimeOut, Notify, SetEvent, L!latchVars
<1>7. ASSUME UNCHANGED vars PROVE UNCHANGED L!latchVars
  BY <1>7 DEF vars, L!latchVars
<1>8. QED
  BY <1>1, <1>2, <1>3, <1>4, <1>5, <1>6, <1>7 DEF Next, Step, Finished

\* The latch implements its abstract specification for any number of threads
\* and any count: CountDown never goes past zero, and each outcome of a wait is
\* true at one instant of the wait. (CountDown, Wait, AWait, Reset)
THEOREM LatchImplementsAbstract == Spec => ImplementsLatch
<1>1. Init => L!LatchInit
  BY DEF Init, L!LatchInit
<1>2. QED
  BY <1>1, LatchInvInitially, LatchInvStep, LatchStep, PTL
  DEF Spec, ImplementsLatch, L!LatchSpec

-----------------------------------------------------------------------------
(***************************************************************************)
(* QuickStartCancel, whatever actions throw.                               *)
(***************************************************************************)

\* What makes them inductive: a task that is being cancelled has been told.
CancelingIsTold == ~threw /\ is_canceling_ => alive \subseteq cancelled

StartInv ==
  StartTypeOK /\ OneTaskAtATime /\ BusyWithATask /\ CancelReachesTheTask /\ CancelingIsTold

\* The two parts of TypeOK: what is true or false, and the tasks.
Flagged ==
  /\ start_action_ \in BOOLEAN /\ cancel_action_ \in BOOLEAN
  /\ is_running_ \in BOOLEAN /\ is_canceling_ \in BOOLEAN
  /\ ~(is_running_ /\ is_canceling_)
  /\ should_start_when_finished_ \in BOOLEAN
  /\ asked \in BOOLEAN /\ threw \in BOOLEAN

Numbered ==
  /\ started \in 0..MaxStarts
  /\ alive \subseteq 1..started
  /\ cancelled \subseteq 1..started
  /\ mark \in 0..started

LEMMA TypeParts ==
  /\ StartTypeOK <=> Flagged /\ Numbered
  /\ StartTypeOK' <=> Flagged' /\ Numbered'
BY DEF StartTypeOK, Flagged, Numbered

LEMMA StartInvInit == StartInit => StartInv
<1> SUFFICES ASSUME StartInit PROVE StartInv
  OBVIOUS
<1>1. Flagged
  BY Zenon DEF StartInit, Flagged
<1>2. Numbered
  BY StartAssumption DEF StartInit, Numbered
<1>3. OneTaskAtATime /\ BusyWithATask /\ CancelReachesTheTask /\ CancelingIsTold
  BY Zenon DEF StartInit, OneTaskAtATime, BusyWithATask, CancelReachesTheTask,
    CancelingIsTold, Busy
<1> QED BY <1>1, <1>2, <1>3, TypeParts DEF StartInv

\* PushStart starts a task only while none is alive.
LEMMA PushStartKeepsInv ==
  ASSUME StartInv, NEW given \in BOOLEAN, PushStart(given)
  PROVE  StartInv'
<1>0. Flagged /\ Numbered
  BY TypeParts DEF StartInv
<1>1. Flagged'
  <2>1. start_action_' \in BOOLEAN
    BY DEF PushStart
  <2>2. UNCHANGED <<cancel_action_, is_canceling_>>
    BY DEF PushStart
  <2>3. should_start_when_finished_' \in BOOLEAN
    BY DEF PushStart, Note
  <2>4. is_running_' \in BOOLEAN /\ ~(is_running_' /\ is_canceling_)
    <3>1. CASE Occupied
      BY <1>0, <3>1 DEF PushStart, Flagged
    <3>2. CASE ~Occupied
      BY <3>2 DEF PushStart, Occupied
    <3> QED BY <3>1, <3>2
  <2>5. asked' \in BOOLEAN /\ threw' \in BOOLEAN
    BY <1>0, Zenon DEF PushStart, CallStart, Flagged
  <2> QED BY <1>0, <2>1, <2>2, <2>3, <2>4, <2>5 DEF Flagged
<1>2. CASE Occupied
  <2>1. UNCHANGED <<started, alive, threw, is_running_, is_canceling_, cancelled, mark>>
    BY <1>2 DEF PushStart
  <2>2. Numbered' /\ CancelReachesTheTask' /\ CancelingIsTold'
    BY <1>0, <2>1 DEF StartInv, Numbered, CancelReachesTheTask, CancelingIsTold
  <2>3. OneTaskAtATime' /\ BusyWithATask'
    BY <1>2, <2>1 DEF StartInv, OneTaskAtATime, BusyWithATask, Busy, Occupied
  <2> QED BY <1>1, <2>2, <2>3, TypeParts DEF StartInv
<1>3. CASE ~Occupied
  <2>1. alive = {}
    BY <1>3 DEF StartInv, OneTaskAtATime, Busy, Occupied
  <2>2. Numbered'
    BY <1>0, <1>3, <2>1, StartAssumption DEF Numbered, PushStart, CallStart
  <2>3. OneTaskAtATime' /\ BusyWithATask'
    BY <1>3, <2>1
       DEF StartInv, OneTaskAtATime, BusyWithATask, Busy, PushStart, CallStart, Occupied
  <2>4. CancelReachesTheTask' /\ CancelingIsTold'
    BY <1>0, <1>3, <2>1, StartAssumption
       DEF Numbered, CancelReachesTheTask, CancelingIsTold, PushStart,
           CallStart, Occupied
  <2> QED BY <1>1, <2>2, <2>3, <2>4, TypeParts DEF StartInv
<1> QED BY <1>2, <1>3

LEMMA PushCancelKeepsInv ==
  ASSUME StartInv, NEW given \in BOOLEAN, PushCancel(given)
  PROVE  StartInv'
<1>0. Flagged /\ Numbered
  BY TypeParts DEF StartInv
<1>1. StartTypeOK'
  <2>1. Flagged'
    <3>1. start_action_' \in BOOLEAN /\ cancel_action_' \in BOOLEAN
      BY <1>0 DEF Flagged, PushCancel
    <3>2. asked' \in BOOLEAN /\ threw' \in BOOLEAN
      BY <1>0, Zenon DEF Flagged, PushCancel, CallCancel
    <3>3. /\ is_running_' \in BOOLEAN /\ is_canceling_' \in BOOLEAN
          /\ ~(is_running_' /\ is_canceling_')
      <4>1. UNCHANGED <<is_running_, is_canceling_>> \/ Canceling
        BY DEF PushCancel, flags
      <4>2. CASE UNCHANGED <<is_running_, is_canceling_>>
        <5>1. is_running_' = is_running_ /\ is_canceling_' = is_canceling_
          BY <4>2
        <5> QED BY <1>0, <5>1, Zenon DEF Flagged
      <4>3. CASE Canceling
        BY <4>3, Zenon DEF Canceling
      <4> QED BY <4>1, <4>2, <4>3
    <3>4. should_start_when_finished_' \in BOOLEAN
      BY <1>0, Zenon DEF Flagged, PushCancel, flags
    <3> QED BY <3>1, <3>2, <3>3, <3>4 DEF Flagged
  <2>2. Numbered'
    <3>1. UNCHANGED <<started, alive>> /\ mark' = started
      BY DEF PushCancel
    <3>2. cancelled' = cancelled \/ cancelled' = cancelled \cup alive
      BY DEF PushCancel, CallCancel
    <3>3. cancelled' \subseteq 1..started
      BY <1>0, <3>2 DEF Numbered
    <3>4. started \in Nat
      BY <1>0, StartAssumption DEF Numbered
    <3>5. started' = started /\ alive' = alive
      BY <3>1
    <3>6. mark' \in 0..started
      BY <3>1, <3>4
    <3> QED BY <1>0, <3>3, <3>5, <3>6 DEF Numbered
  <2> QED BY <2>1, <2>2, TypeParts
<1>2. OneTaskAtATime' /\ BusyWithATask'
  BY DEF StartInv, StartTypeOK, OneTaskAtATime, BusyWithATask, Busy, PushCancel,
         CallCancel, Canceling, CancelsTheWish, flags
<1>3. CancelingIsTold'
  BY DEF StartInv, StartTypeOK, CancelingIsTold, PushCancel, CallCancel, Canceling,
         CancelsTheWish, flags
<1>4. CancelReachesTheTask'
  <2>1. ~threw' /\ alive # {} => is_canceling_'
    BY DEF StartInv, OneTaskAtATime, Busy, PushCancel, CallCancel, Canceling,
           CancelsTheWish, flags
  <2>2. alive' = alive
    BY DEF PushCancel
  <2> QED BY <1>3, <2>1, <2>2 DEF CancelReachesTheTask, CancelingIsTold
<1> QED BY <1>1, <1>2, <1>3, <1>4 DEF StartInv

\* The task that ends was the only one.
LEMMA OnTaskEndKeepsInv ==
  ASSUME StartInv, NEW t \in alive, OnTaskEnd(t)
  PROVE  StartInv'
<1>1. alive \ {t} = {}
  BY DEF StartInv, OneTaskAtATime
<1>0. Flagged /\ Numbered
  BY TypeParts DEF StartInv
<1>2. StartTypeOK'
  <2>1. Flagged'
    <3>1. UNCHANGED <<start_action_, cancel_action_>>
      BY DEF OnTaskEnd
    <3>2. is_running_' \in BOOLEAN /\ ~is_canceling_' /\ is_canceling_' \in BOOLEAN
      BY <1>0 DEF Flagged, OnTaskEnd, Ended
    <3>3. should_start_when_finished_' \in BOOLEAN
      BY DEF OnTaskEnd
    <3>4. asked' \in BOOLEAN /\ threw' \in BOOLEAN
      BY <1>0, Zenon DEF Flagged, OnTaskEnd, CallStart
    <3> QED BY <1>0, <3>1, <3>2, <3>3, <3>4 DEF Flagged
  <2>2. Numbered'
    <3>1. UNCHANGED <<cancelled, mark>>
      BY DEF OnTaskEnd
    <3>2. \/ started' = started /\ alive' = {}
          \/ /\ started < MaxStarts /\ started' = started + 1
             /\ alive' = {started + 1}
      BY <1>1 DEF OnTaskEnd, CallStart
    <3> QED BY <1>0, <3>1, <3>2, StartAssumption DEF Numbered
  <2> QED BY <2>1, <2>2, TypeParts
<1>3. OneTaskAtATime' /\ BusyWithATask'
  <2>1. CASE should_start_when_finished_
    <3>1. is_running_'
      BY <2>1 DEF OnTaskEnd, Ended
    <3>2. OneTaskAtATime'
      BY <1>1, <2>1, <3>1 DEF OneTaskAtATime, Busy, OnTaskEnd, CallStart
    <3>3. BusyWithATask'
      BY <1>1, <2>1, <3>1 DEF BusyWithATask, Busy, OnTaskEnd, CallStart
    <3> QED BY <3>2, <3>3
  <2>2. CASE ~should_start_when_finished_
    <3>1. alive' = {} /\ ~is_running_' /\ ~is_canceling_' /\ ~should_start_when_finished_'
      BY <1>1, <2>2 DEF OnTaskEnd, Ended
    <3> QED BY <3>1 DEF OneTaskAtATime, BusyWithATask, Busy
  <2> QED BY <2>1, <2>2
<1>4. CancelReachesTheTask' /\ CancelingIsTold'
  <2>1. ~is_canceling_' /\ CancelingIsTold'
    BY DEF OnTaskEnd, Ended, CancelingIsTold
  <2>2. mark' = mark /\ alive' \subseteq {started + 1}
    BY <1>1 DEF OnTaskEnd, CallStart
  <2> QED BY <1>0, <2>1, <2>2, StartAssumption DEF Numbered, CancelReachesTheTask
<1> QED BY <1>2, <1>3, <1>4 DEF StartInv

LEMMA NextKeepsInv == StartInv /\ [StartNext]_startVars => StartInv'
<1> SUFFICES ASSUME StartInv, [StartNext]_startVars PROVE StartInv'
  OBVIOUS
<1>1. CASE SetStartAction
  BY <1>1 DEF StartInv, StartTypeOK, OneTaskAtATime, BusyWithATask,
    CancelReachesTheTask, CancelingIsTold, Busy, SetStartAction, flags
<1>2. CASE SetCancelAction
  BY <1>2 DEF StartInv, StartTypeOK, OneTaskAtATime, BusyWithATask,
    CancelReachesTheTask, CancelingIsTold, Busy, SetCancelAction, flags
<1>3. ASSUME NEW given \in BOOLEAN, PushStart(given) \/ PushCancel(given)
      PROVE  StartInv'
  BY <1>3, PushStartKeepsInv, PushCancelKeepsInv
<1>4. CASE End
  BY <1>4, OnTaskEndKeepsInv DEF End
<1>5. CASE UNCHANGED startVars
  BY <1>5 DEF StartInv, StartTypeOK, OneTaskAtATime, BusyWithATask,
    CancelReachesTheTask, CancelingIsTold, Busy, startVars, flags
<1> QED BY <1>1, <1>2, <1>3, <1>4, <1>5 DEF StartNext

-----------------------------------------------------------------------------

\* The flags and the tasks keep their types, and the object never runs and cancels
\* at once, whichever actions throw. (quick_start_cancel.h)
THEOREM StartTypes == StartSpec => []StartTypeOK
<1>1. StartInv => StartTypeOK
  BY DEF StartInv
<1> QED BY <1>1, StartInvInit, NextKeepsInv, PTL DEF StartSpec

\* At most one task is alive at any time and every live task is known to the
\* flags, whichever actions throw: PushStart while a task runs or is cancelled
\* leaves the start to OnTaskEnd. (quick_start_cancel.h:42)
THEOREM OneTask == StartSpec => []OneTaskAtATime
<1>1. StartInv => OneTaskAtATime
  BY DEF StartInv
<1> QED BY <1>1, StartInvInit, NextKeepsInv, PTL DEF StartSpec

\* Unless an action threw, the object is busy only with a live task.
\* (quick_start_cancel.h:68)
THEOREM NeverStuck == StartSpec => []BusyWithATask
<1>1. StartInv => BusyWithATask
  BY DEF StartInv
<1> QED BY <1>1, StartInvInit, NextKeepsInv, PTL DEF StartSpec

\* PushCancel reaches the task that is alive when it is called.
\* (quick_start_cancel.h:59)
THEOREM CancelReaches == StartSpec => []CancelReachesTheTask
<1>1. StartInv => CancelReachesTheTask
  BY DEF StartInv
<1> QED BY <1>1, StartInvInit, NextKeepsInv, PTL DEF StartSpec

=============================================================================
