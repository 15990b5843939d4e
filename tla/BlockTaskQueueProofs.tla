------------------------ MODULE BlockTaskQueueProofs ------------------------
(***************************************************************************)
(* Theorems about the queue, for any number of threads, any capacity and   *)
(* whatever functions the threads call: its type, that it implements the   *)
(* bounded first-in first-out queue, that it uses its condition variables  *)
(* as they require, and that neither the last worker nor the last producer *)
(* falls asleep on work there is for it.                                   *)
(***************************************************************************)
EXTENDS BlockTaskQueue, FiniteSetTheorems, TLAPS

\* The theorems about the condition variable, for each of the two.
NF == INSTANCE ConditionVariableXpProofs WITH cv <- not_full, targets <- owner
NE == INSTANCE ConditionVariableXpProofs WITH cv <- not_empty, targets <- owner

NotFullInv  == NotFull!CvTypeOK /\ NotFull!CountsWaiters
NotEmptyInv == NotEmpty!CvTypeOK /\ NotEmpty!CountsWaiters

LEMMA NotFullInduction ==
  /\ NotFull!CvInit => NotFullInv
  /\ NotFullInv /\ [NotFull!CvNext]_(NotFull!cvVars) => NotFullInv'
<1>1. NF!CvInit => NF!CvInv
  BY NF!CvInvInitially, QueueAssumption
  DEF NF!ThreadsAssumption, NF!IsFiniteSet, IsFiniteSet
<1>2. NF!CvInv /\ [NF!CvNext]_(NF!cvVars) => NF!CvInv'
  BY NF!CvInvStep, QueueAssumption
  DEF NF!ThreadsAssumption, NF!IsFiniteSet, IsFiniteSet
<1>3. NF!CvInit <=> NotFull!CvInit
  BY DEF NotFull!CvInit, NF!CvInit, NotFull!InitializeConditionVariableXp,
    NF!InitializeConditionVariableXp
<1>4. [NotFull!CvNext]_(NotFull!cvVars) <=> [NF!CvNext]_(NF!cvVars)
  BY DEF NotFull!CvNext, NotFull!cvVars, NotFull!Lock, NotFull!Unlock,
    NotFull!Sleep, NotFull!WaitForSingleObject, NotFull!TimeOut, NotFull!Resume,
    NotFull!NotifyAll, NotFull!NotifyOne, NotFull!SetEvent, NotFull!Idle,
    NotFull!Blocked, NF!CvNext, NF!cvVars, NF!Lock, NF!Unlock, NF!Sleep,
    NF!WaitForSingleObject, NF!TimeOut, NF!Resume, NF!NotifyAll, NF!NotifyOne,
    NF!SetEvent, NF!Idle, NF!Blocked
<1>5. (NF!CvInv <=> NotFullInv) /\ (NF!CvInv' <=> NotFullInv')
  BY DEF NotFullInv, NF!CvInv, NF!CvTypeOK, NotFull!CvTypeOK, NF!CountsWaiters,
    NotFull!CountsWaiters, NF!Inside, NotFull!Inside, NF!Position,
    NotFull!Position, NF!Cardinality, NotFull!Cardinality
<1>6. QED
  BY <1>1, <1>2, <1>3, <1>4, <1>5

LEMMA NotEmptyInduction ==
  /\ NotEmpty!CvInit => NotEmptyInv
  /\ NotEmptyInv /\ [NotEmpty!CvNext]_(NotEmpty!cvVars) => NotEmptyInv'
<1>1. NE!CvInit => NE!CvInv
  BY NE!CvInvInitially, QueueAssumption
  DEF NE!ThreadsAssumption, NE!IsFiniteSet, IsFiniteSet
<1>2. NE!CvInv /\ [NE!CvNext]_(NE!cvVars) => NE!CvInv'
  BY NE!CvInvStep, QueueAssumption
  DEF NE!ThreadsAssumption, NE!IsFiniteSet, IsFiniteSet
<1>3. NE!CvInit <=> NotEmpty!CvInit
  BY DEF NotEmpty!CvInit, NE!CvInit, NotEmpty!InitializeConditionVariableXp,
    NE!InitializeConditionVariableXp
<1>4. [NotEmpty!CvNext]_(NotEmpty!cvVars) <=> [NE!CvNext]_(NE!cvVars)
  BY DEF NotEmpty!CvNext, NotEmpty!cvVars, NotEmpty!Lock, NotEmpty!Unlock,
    NotEmpty!Sleep, NotEmpty!WaitForSingleObject, NotEmpty!TimeOut,
    NotEmpty!Resume, NotEmpty!NotifyAll, NotEmpty!NotifyOne, NotEmpty!SetEvent,
    NotEmpty!Idle, NotEmpty!Blocked, NE!CvNext, NE!cvVars, NE!Lock, NE!Unlock,
    NE!Sleep, NE!WaitForSingleObject, NE!TimeOut, NE!Resume, NE!NotifyAll,
    NE!NotifyOne, NE!SetEvent, NE!Idle, NE!Blocked
<1>5. (NE!CvInv <=> NotEmptyInv) /\ (NE!CvInv' <=> NotEmptyInv')
  BY DEF NotEmptyInv, NE!CvInv, NE!CvTypeOK, NotEmpty!CvTypeOK, NE!CountsWaiters,
    NotEmpty!CountsWaiters, NE!Inside, NotEmpty!Inside, NE!Position,
    NotEmpty!Position, NE!Cardinality, NotEmpty!Cardinality
<1>6. QED
  BY <1>1, <1>2, <1>3, <1>4, <1>5

-----------------------------------------------------------------------------
(* Every step of the queue is a step, or none, of each condition variable:  *)
(* a sleep on one of them is an unlock for the other, a return a lock.      *)

\* Who is out of one condition variable while it uses the other.
Apart ==
  \A t \in Threads :
    /\ pc[t] # "asleep" => not_full.pos[t] = "out" /\ not_empty.pos[t] = "out"
    /\ not_full.pos[t] # "out" => not_empty.pos[t] = "out"
    /\ pc[t] \in {"sleep", "asleep"} => not_full.count[t] = 0 /\ not_empty.count[t] = 0

LEMMA StepIsCvStep ==
  ASSUME Apart, [Next]_vars
  PROVE  /\ [NotFull!CvNext]_(NotFull!cvVars)
         /\ [NotEmpty!CvNext]_(NotEmpty!cvVars)
<1>1. ASSUME NEW t \in Threads, NEW f \in Fns, Call(t, f)
      PROVE  UNCHANGED <<NotFull!cvVars, NotEmpty!cvVars>>
  BY <1>1 DEF Call, NotFull!cvVars, NotEmpty!cvVars
<1>2. ASSUME NEW t \in Threads, BeginCall(t) \/ FetchAllTask(t)
      PROVE  NotFull!CvNext /\ NotEmpty!CvNext
  BY <1>2 DEF BeginCall, FetchAllTask, Lock, NotFull!CvNext, NotEmpty!CvNext
<1>3. ASSUME NEW t \in Threads, Sleep(t)
      PROVE  NotFull!CvNext /\ NotEmpty!CvNext
  <2>1. not_full.count[t] = 0 /\ not_empty.count[t] = 0
    BY <1>3 DEF Sleep, Apart
  <2>2. CASE NotFull!Sleep(t) /\ UNCHANGED not_empty
    <3>1. NotEmpty!Unlock(t)
      BY <2>1, <2>2 DEF NotFull!Sleep, NotEmpty!Unlock
    <3>2. QED
      BY <2>2, <3>1 DEF NotFull!CvNext, NotEmpty!CvNext
  <2>3. CASE NotEmpty!Sleep(t) /\ UNCHANGED not_full
    <3>1. NotFull!Unlock(t)
      BY <2>1, <2>3 DEF NotEmpty!Sleep, NotFull!Unlock
    <3>2. QED
      BY <2>3, <3>1 DEF NotFull!CvNext, NotEmpty!CvNext
  <2>4. QED
    BY <1>3, <2>2, <2>3 DEF Sleep
<1>4. ASSUME NEW t \in Threads, WaitForSingleObject(t) \/ TimeOut(t) \/ SetEvent(t)
      PROVE  /\ [NotFull!CvNext]_(NotFull!cvVars)
             /\ [NotEmpty!CvNext]_(NotEmpty!cvVars)
  <2>1. UNCHANGED owner
    BY <1>4 DEF WaitForSingleObject, TimeOut, SetEvent,
      NotFull!WaitForSingleObject, NotFull!TimeOut, NotFull!SetEvent,
      NotEmpty!WaitForSingleObject, NotEmpty!TimeOut, NotEmpty!SetEvent
  <2>2. QED
    BY <1>4, <2>1 DEF WaitForSingleObject, TimeOut, SetEvent,
      NotFull!CvNext, NotEmpty!CvNext, NotFull!cvVars, NotEmpty!cvVars
<1>5. ASSUME NEW t \in Threads, WakeUp(t)
      PROVE  NotFull!CvNext /\ NotEmpty!CvNext
  <2>1. not_full.count[t] = 0 /\ not_empty.count[t] = 0
    BY <1>5 DEF WakeUp, Apart
  <2>2. CASE NotFull!Resume(t) /\ UNCHANGED not_empty
    <3>1. NotEmpty!Lock(t)
      BY <2>1, <2>2 DEF NotFull!Resume, NotEmpty!Lock, NotEmpty!Idle, Apart
    <3>2. QED
      BY <2>2, <3>1 DEF NotFull!CvNext, NotEmpty!CvNext
  <2>3. CASE NotEmpty!Resume(t) /\ UNCHANGED not_full
    <3>1. NotFull!Lock(t)
      BY <2>1, <2>3 DEF NotEmpty!Resume, NotFull!Lock, NotFull!Idle, Apart
    <3>2. QED
      BY <2>3, <3>1 DEF NotFull!CvNext, NotEmpty!CvNext
  <2>4. QED
    BY <1>5, <2>2, <2>3 DEF WakeUp
<1>6. ASSUME NEW t \in Threads, Push(t) \/ Pop(t) \/ Notify(t)
      PROVE  /\ [NotFull!CvNext]_(NotFull!cvVars)
             /\ [NotEmpty!CvNext]_(NotEmpty!cvVars)
  <2>1. UNCHANGED owner
    BY <1>6 DEF Push, Pop, Notify, NotFull!NotifyAll, NotEmpty!NotifyAll
  <2>2. QED
    BY <1>6, <2>1 DEF Push, Pop, Notify,
      NotFull!CvNext, NotEmpty!CvNext, NotFull!cvVars, NotEmpty!cvVars
<1>7. ASSUME NEW t \in Threads, Unlock(t)
      PROVE  NotFull!CvNext /\ NotEmpty!CvNext
  BY <1>7 DEF Unlock, Release, NotFull!CvNext, NotEmpty!CvNext
<1>8. ASSUME NEW t \in Threads, SetInterrupted(t)
      PROVE  UNCHANGED <<NotFull!cvVars, NotEmpty!cvVars>>
  BY <1>8 DEF SetInterrupted, NotFull!cvVars, NotEmpty!cvVars
<1>9. ASSUME UNCHANGED vars
      PROVE  UNCHANGED <<NotFull!cvVars, NotEmpty!cvVars>>
  BY <1>9 DEF vars, NotFull!cvVars, NotEmpty!cvVars
<1>10. QED
  BY <1>1, <1>2, <1>3, <1>4, <1>5, <1>6, <1>7, <1>8, <1>9 DEF Next, Step

-----------------------------------------------------------------------------
(* What each function of the condition variables does to their fields.      *)

LEMMA NotFullEffects ==
  ASSUME NotFull!CvTypeOK, NEW t \in Threads
  PROVE
    /\ NotFull!Sleep(t) =>
         /\ not_full'.pos = [not_full.pos EXCEPT ![t] = "counted"]
         /\ not_full'.event_ = not_full.event_ /\ not_full'.count = not_full.count
         /\ owner = t /\ owner' = NoThread
    /\ NotFull!WaitForSingleObject(t) =>
         /\ not_full.pos[t] = "counted"
         /\ \/ not_full.event_ /\ not_full'.pos = [not_full.pos EXCEPT ![t] = "signalled"]
            \/ /\ ~not_full.event_ /\ not_full'.event_ = not_full.event_
               /\ not_full'.pos = [not_full.pos EXCEPT ![t] = "blocked"]
         /\ not_full'.count = not_full.count /\ owner' = owner
    /\ NotFull!TimeOut(t) =>
         /\ not_full.pos[t] = "blocked"
         /\ not_full'.pos = [not_full.pos EXCEPT ![t] = "timedout"]
         /\ not_full'.event_ = not_full.event_ /\ not_full'.count = not_full.count /\ owner' = owner
    /\ NotFull!Resume(t) =>
         /\ not_full.pos[t] \in {"signalled", "timedout"}
         /\ not_full'.pos = [not_full.pos EXCEPT ![t] = "out"]
         /\ not_full'.event_ = not_full.event_ /\ not_full'.count = not_full.count
         /\ owner = NoThread /\ owner' = t
    /\ NotFull!NotifyAll(t) =>
         /\ not_full.pos[t] = "out" /\ not_full.count[t] = 0
         /\ not_full'.count = [not_full.count EXCEPT ![t] = not_full.wait_count_]
         /\ not_full'.event_ = not_full.event_ /\ not_full'.pos = not_full.pos /\ owner' = owner
    /\ NotFull!SetEvent(t) =>
         /\ not_full'.count = [not_full.count EXCEPT ![t] = @ - 1]
         /\ not_full.count[t] > 0
         /\ \/ \E b \in Threads :
                 /\ not_full.pos[b] = "blocked"
                 /\ not_full'.pos = [not_full.pos EXCEPT ![b] = "signalled"]
            \/ not_full'.event_ = TRUE /\ not_full'.pos = not_full.pos
         /\ owner' = owner
<1> DEFINE CvRecord == [ wait_count_ : Nat, event_ : BOOLEAN,
                         pos : [Threads -> NotFull!Position], count : [Threads -> Nat] ]
<1>t. not_full \in CvRecord
  BY DEF NotFull!CvTypeOK
<1>1. ASSUME NotFull!Sleep(t)
      PROVE  /\ not_full'.pos = [not_full.pos EXCEPT ![t] = "counted"]
             /\ not_full'.event_ = not_full.event_ /\ not_full'.count = not_full.count
             /\ owner = t /\ owner' = NoThread
  BY <1>t, <1>1 DEF NotFull!Sleep
<1>2. ASSUME NotFull!WaitForSingleObject(t)
      PROVE  /\ not_full.pos[t] = "counted"
             /\ \/ not_full.event_ /\ not_full'.pos = [not_full.pos EXCEPT ![t] = "signalled"]
                \/ /\ ~not_full.event_ /\ not_full'.event_ = not_full.event_
                   /\ not_full'.pos = [not_full.pos EXCEPT ![t] = "blocked"]
             /\ not_full'.count = not_full.count /\ owner' = owner
  <2>1. CASE not_full.event_
    BY <1>t, <1>2, <2>1 DEF NotFull!WaitForSingleObject
  <2>2. CASE ~not_full.event_
    BY <1>t, <1>2, <2>2 DEF NotFull!WaitForSingleObject
  <2>3. QED
    BY <2>1, <2>2
<1>3. ASSUME NotFull!TimeOut(t)
      PROVE  /\ not_full.pos[t] = "blocked"
             /\ not_full'.pos = [not_full.pos EXCEPT ![t] = "timedout"]
             /\ not_full'.event_ = not_full.event_ /\ not_full'.count = not_full.count
             /\ owner' = owner
  BY <1>t, <1>3 DEF NotFull!TimeOut
<1>4. ASSUME NotFull!Resume(t)
      PROVE  /\ not_full.pos[t] \in {"signalled", "timedout"}
             /\ not_full'.pos = [not_full.pos EXCEPT ![t] = "out"]
             /\ not_full'.event_ = not_full.event_ /\ not_full'.count = not_full.count
             /\ owner = NoThread /\ owner' = t
  BY <1>t, <1>4 DEF NotFull!Resume
<1>5. ASSUME NotFull!NotifyAll(t)
      PROVE  /\ not_full.pos[t] = "out" /\ not_full.count[t] = 0
             /\ not_full'.count = [not_full.count EXCEPT ![t] = not_full.wait_count_]
             /\ not_full'.event_ = not_full.event_ /\ not_full'.pos = not_full.pos
             /\ owner' = owner
  BY <1>t, <1>5 DEF NotFull!NotifyAll, NotFull!Idle
<1>6. ASSUME NotFull!SetEvent(t)
      PROVE  /\ not_full'.count = [not_full.count EXCEPT ![t] = @ - 1]
             /\ not_full.count[t] > 0
             /\ \/ \E b \in Threads :
                     /\ not_full.pos[b] = "blocked"
                     /\ not_full'.pos = [not_full.pos EXCEPT ![b] = "signalled"]
                \/ not_full'.event_ = TRUE /\ not_full'.pos = not_full.pos
             /\ owner' = owner
  <2>1. not_full.count[t] > 0 /\ owner' = owner
    BY <1>6 DEF NotFull!SetEvent
  <2>2. ASSUME NEW b \in NotFull!Blocked,
               not_full' = [not_full EXCEPT !.count[t] = @ - 1, !.pos[b] = "signalled"]
        PROVE  /\ not_full'.count = [not_full.count EXCEPT ![t] = @ - 1]
               /\ b \in Threads /\ not_full.pos[b] = "blocked"
               /\ not_full'.pos = [not_full.pos EXCEPT ![b] = "signalled"]
    BY <1>t, <2>2 DEF NotFull!Blocked
  <2>3. ASSUME not_full' = [not_full EXCEPT !.count[t] = @ - 1, !.event_ = TRUE]
        PROVE  /\ not_full'.count = [not_full.count EXCEPT ![t] = @ - 1]
               /\ not_full'.event_ = TRUE /\ not_full'.pos = not_full.pos
    BY <1>t, <2>3
  <2>4. QED
    BY <1>6, <2>1, <2>2, <2>3 DEF NotFull!SetEvent
<1>7. QED
  BY <1>1, <1>2, <1>3, <1>4, <1>5, <1>6

LEMMA NotEmptyEffects ==
  ASSUME NotEmpty!CvTypeOK, NEW t \in Threads
  PROVE
    /\ NotEmpty!Sleep(t) =>
         /\ not_empty'.pos = [not_empty.pos EXCEPT ![t] = "counted"]
         /\ not_empty'.event_ = not_empty.event_ /\ not_empty'.count = not_empty.count
         /\ owner = t /\ owner' = NoThread
    /\ NotEmpty!WaitForSingleObject(t) =>
         /\ not_empty.pos[t] = "counted"
         /\ \/ not_empty.event_ /\ not_empty'.pos = [not_empty.pos EXCEPT ![t] = "signalled"]
            \/ /\ ~not_empty.event_ /\ not_empty'.event_ = not_empty.event_
               /\ not_empty'.pos = [not_empty.pos EXCEPT ![t] = "blocked"]
         /\ not_empty'.count = not_empty.count /\ owner' = owner
    /\ NotEmpty!TimeOut(t) =>
         /\ not_empty.pos[t] = "blocked"
         /\ not_empty'.pos = [not_empty.pos EXCEPT ![t] = "timedout"]
         /\ not_empty'.event_ = not_empty.event_ /\ not_empty'.count = not_empty.count /\ owner' = owner
    /\ NotEmpty!Resume(t) =>
         /\ not_empty.pos[t] \in {"signalled", "timedout"}
         /\ not_empty'.pos = [not_empty.pos EXCEPT ![t] = "out"]
         /\ not_empty'.event_ = not_empty.event_ /\ not_empty'.count = not_empty.count
         /\ owner = NoThread /\ owner' = t
    /\ NotEmpty!NotifyAll(t) =>
         /\ not_empty.pos[t] = "out" /\ not_empty.count[t] = 0
         /\ not_empty'.count = [not_empty.count EXCEPT ![t] = not_empty.wait_count_]
         /\ not_empty'.event_ = not_empty.event_ /\ not_empty'.pos = not_empty.pos /\ owner' = owner
    /\ NotEmpty!SetEvent(t) =>
         /\ not_empty'.count = [not_empty.count EXCEPT ![t] = @ - 1]
         /\ not_empty.count[t] > 0
         /\ \/ \E b \in Threads :
                 /\ not_empty.pos[b] = "blocked"
                 /\ not_empty'.pos = [not_empty.pos EXCEPT ![b] = "signalled"]
            \/ not_empty'.event_ = TRUE /\ not_empty'.pos = not_empty.pos
         /\ owner' = owner
<1> DEFINE CvRecord == [ wait_count_ : Nat, event_ : BOOLEAN,
                         pos : [Threads -> NotEmpty!Position], count : [Threads -> Nat] ]
<1>t. not_empty \in CvRecord
  BY DEF NotEmpty!CvTypeOK
<1>1. ASSUME NotEmpty!Sleep(t)
      PROVE  /\ not_empty'.pos = [not_empty.pos EXCEPT ![t] = "counted"]
             /\ not_empty'.event_ = not_empty.event_ /\ not_empty'.count = not_empty.count
             /\ owner = t /\ owner' = NoThread
  BY <1>t, <1>1 DEF NotEmpty!Sleep
<1>2. ASSUME NotEmpty!WaitForSingleObject(t)
      PROVE  /\ not_empty.pos[t] = "counted"
             /\ \/ not_empty.event_ /\ not_empty'.pos = [not_empty.pos EXCEPT ![t] = "signalled"]
                \/ /\ ~not_empty.event_ /\ not_empty'.event_ = not_empty.event_
                   /\ not_empty'.pos = [not_empty.pos EXCEPT ![t] = "blocked"]
             /\ not_empty'.count = not_empty.count /\ owner' = owner
  <2>1. CASE not_empty.event_
    BY <1>t, <1>2, <2>1 DEF NotEmpty!WaitForSingleObject
  <2>2. CASE ~not_empty.event_
    BY <1>t, <1>2, <2>2 DEF NotEmpty!WaitForSingleObject
  <2>3. QED
    BY <2>1, <2>2
<1>3. ASSUME NotEmpty!TimeOut(t)
      PROVE  /\ not_empty.pos[t] = "blocked"
             /\ not_empty'.pos = [not_empty.pos EXCEPT ![t] = "timedout"]
             /\ not_empty'.event_ = not_empty.event_ /\ not_empty'.count = not_empty.count
             /\ owner' = owner
  BY <1>t, <1>3 DEF NotEmpty!TimeOut
<1>4. ASSUME NotEmpty!Resume(t)
      PROVE  /\ not_empty.pos[t] \in {"signalled", "timedout"}
             /\ not_empty'.pos = [not_empty.pos EXCEPT ![t] = "out"]
             /\ not_empty'.event_ = not_empty.event_ /\ not_empty'.count = not_empty.count
             /\ owner = NoThread /\ owner' = t
  BY <1>t, <1>4 DEF NotEmpty!Resume
<1>5. ASSUME NotEmpty!NotifyAll(t)
      PROVE  /\ not_empty.pos[t] = "out" /\ not_empty.count[t] = 0
             /\ not_empty'.count = [not_empty.count EXCEPT ![t] = not_empty.wait_count_]
             /\ not_empty'.event_ = not_empty.event_ /\ not_empty'.pos = not_empty.pos
             /\ owner' = owner
  BY <1>t, <1>5 DEF NotEmpty!NotifyAll, NotEmpty!Idle
<1>6. ASSUME NotEmpty!SetEvent(t)
      PROVE  /\ not_empty'.count = [not_empty.count EXCEPT ![t] = @ - 1]
             /\ not_empty.count[t] > 0
             /\ \/ \E b \in Threads :
                     /\ not_empty.pos[b] = "blocked"
                     /\ not_empty'.pos = [not_empty.pos EXCEPT ![b] = "signalled"]
                \/ not_empty'.event_ = TRUE /\ not_empty'.pos = not_empty.pos
             /\ owner' = owner
  <2>1. not_empty.count[t] > 0 /\ owner' = owner
    BY <1>6 DEF NotEmpty!SetEvent
  <2>2. ASSUME NEW b \in NotEmpty!Blocked,
               not_empty' = [not_empty EXCEPT !.count[t] = @ - 1, !.pos[b] = "signalled"]
        PROVE  /\ not_empty'.count = [not_empty.count EXCEPT ![t] = @ - 1]
               /\ b \in Threads /\ not_empty.pos[b] = "blocked"
               /\ not_empty'.pos = [not_empty.pos EXCEPT ![b] = "signalled"]
    BY <1>t, <2>2 DEF NotEmpty!Blocked
  <2>3. ASSUME not_empty' = [not_empty EXCEPT !.count[t] = @ - 1, !.event_ = TRUE]
        PROVE  /\ not_empty'.count = [not_empty.count EXCEPT ![t] = @ - 1]
               /\ not_empty'.event_ = TRUE /\ not_empty'.pos = not_empty.pos
    BY <1>t, <2>3
  <2>4. QED
    BY <1>6, <2>1, <2>2, <2>3 DEF NotEmpty!SetEvent
<1>7. QED
  BY <1>1, <1>2, <1>3, <1>4, <1>5, <1>6

-----------------------------------------------------------------------------
(* Where a thread can be in a call, and what it knows there.                *)

Inside == {"push", "pop", "sleep", "unlock"}

\* What is true of thread t.  A thread at one of the labels of Inside is in the
\* critical section, so nobody else changes the queue while it relies on what
\* its predicate said.
ControlOf(t) ==
  /\ fn[t] \in May[t] \cup {"none"}
  /\ pc[t] \in Inside => owner = t
  /\ pc[t] = "idle" <=> fn[t] = "none"
  /\ pc[t] = "call" => fn[t] \in AddFns \cup FetchFns \cup {"FetchAllTask"}
  /\ pc[t] \in {"interrupt", "notify"} => fn[t] \in InterruptFns
  /\ pc[t] = "notify" => interrupted
  /\ pc[t] \notin {"idle", "unlock"} => ret[t] = "none"
  /\ pc[t] = "unlock" => ret[t] # "none"
  /\ fn[t] \in AddFns => task[t] \in Task
  /\ pc[t] = "push" => fn[t] \in AddFns /\ (capacity_ = 0 \/ Len(task_queue_) < capacity_)
  /\ pc[t] = "pop" => fn[t] \in FetchFns /\ task_queue_ # <<>>
  /\ pc[t] = "sleep" =>
       \/ fn[t] \in AddFns /\ capacity_ > 0 /\ Len(task_queue_) >= capacity_
       \/ fn[t] \in FetchFns /\ task_queue_ = <<>>
  /\ pc[t] = "asleep" => fn[t] \in FetchFns \/ (fn[t] \in AddFns /\ capacity_ > 0)
  /\ not_full.pos[t] # "out" => pc[t] = "asleep" /\ fn[t] \in AddFns
  /\ not_empty.pos[t] # "out" => pc[t] = "asleep" /\ fn[t] \in FetchFns
  /\ not_full.pos[t] = "timedout" => fn[t] \in TimedFns
  /\ not_empty.pos[t] = "timedout" => fn[t] \in TimedFns
  /\ pc[t] \in {"sleep", "asleep"} => not_full.count[t] = 0 /\ not_empty.count[t] = 0

Control == \A t \in Threads : ControlOf(t)

QueueInv == NotFullInv /\ NotEmptyInv /\ TypeOK /\ Control

LEMMA FnsDisjoint ==
  /\ AddFns \cap FetchFns = {}
  /\ AddFns \cap InterruptFns = {}
  /\ FetchFns \cap InterruptFns = {}
  /\ "none" \notin Fns
  /\ "FetchAllTask" \notin AddFns \cup FetchFns \cup InterruptFns
  /\ AddFns \subseteq Fns /\ FetchFns \subseteq Fns /\ InterruptFns \subseteq Fns
  BY DEF AddFns, FetchFns, InterruptFns, Fns

LEMMA ControlImpliesApart == Control /\ TypeOK => Apart
  BY FnsDisjoint DEF Control, ControlOf, Apart

LEMMA QueueInvInitially == Init => QueueInv
<1> SUFFICES ASSUME Init PROVE QueueInv
  OBVIOUS
<1>1. NotFullInv /\ NotEmptyInv
  BY NotFullInduction, NotEmptyInduction DEF Init
<1>2. TypeOK
  <2>1. /\ NotFull!CvTypeOK /\ NotEmpty!CvTypeOK
        /\ fn \in [Threads -> Fns \cup {"none"}]
        /\ pc \in [Threads -> Labels]
        /\ ret \in [Threads -> {"none", "Success", "TimeOut", "Interrupted"}]
        /\ got \in [Threads -> Seq(Task)]
    BY <1>1 DEF NotFullInv, NotEmptyInv, Init, Labels
  <2>2. task_queue_ \in Seq(Task) /\ Len(task_queue_) = 0
    BY DEF Init
  <2>3. MaxTasks \in Nat
    BY QueueAssumption
  <2>4. 0 \in 0..MaxTasks
    BY <2>3
  <2>5. /\ interrupted \in BOOLEAN /\ made \in 0..MaxTasks
        /\ task \in [Threads -> 0..MaxTasks]
    BY <2>4 DEF Init
  <2>6. QED
    BY <2>1, <2>2, <2>5, QueueAssumption DEF TypeOK
<1>3. Control
  BY FnsDisjoint DEF Init, Control, ControlOf, Inside, NotFull!CvInit, NotEmpty!CvInit,
    NotFull!InitializeConditionVariableXp, NotEmpty!InitializeConditionVariableXp
<1>4. QED
  BY <1>1, <1>2, <1>3 DEF QueueInv

\* What one evaluation of the predicate by the owner of the mutex does.
LEMMA EvaluateEffects ==
  ASSUME TypeOK, NEW t \in Threads, NEW late \in BOOLEAN, Evaluate(t, late),
         UNCHANGED <<task_queue_, fn>>,
         fn[t] \in FetchFns \/ (fn[t] \in AddFns /\ capacity_ > 0)
  PROVE  /\ \A u \in Threads \ {t} : pc'[u] = pc[u] /\ ret'[u] = ret[u]
         /\ pc' \in [Threads -> Labels]
         /\ ret' \in [Threads -> {"none", "Success", "TimeOut", "Interrupted"}]
         /\ \/ pc'[t] = "unlock" /\ ret'[t] \in {"Interrupted", "TimeOut"}
            \/ /\ pc'[t] \in {"push", "pop"} /\ ret'[t] = ret[t]
               /\ pc'[t] = "push" => fn[t] \in AddFns /\ Len(task_queue_) < capacity_
               /\ pc'[t] = "pop" => fn[t] \in FetchFns /\ task_queue_ # <<>>
            \/ /\ pc'[t] = "sleep" /\ ret'[t] = ret[t]
               /\ \/ fn[t] \in AddFns /\ capacity_ > 0 /\ Len(task_queue_) >= capacity_
                  \/ fn[t] \in FetchFns /\ task_queue_ = <<>>
<1>1. /\ Len(task_queue_) \in Nat /\ capacity_ \in Nat
      /\ Len(task_queue_) > 0 <=> task_queue_ # <<>>
  BY QueueAssumption DEF TypeOK
<1>2. fn[t] \in AddFns <=> fn[t] \notin FetchFns
  BY FnsDisjoint
<1>3. CASE Interrupte(t) \/ (~Interrupte(t) /\ ~Predicate(t) /\ late)
  <2>1. /\ pc' = [pc EXCEPT ![t] = "unlock"]
        /\ \/ ret' = [ret EXCEPT ![t] = "Interrupted"]
           \/ ret' = [ret EXCEPT ![t] = "TimeOut"]
    BY <1>3 DEF Evaluate, Goto
  <2>2. QED
    BY <2>1 DEF TypeOK, Labels
<1>4. CASE ~Interrupte(t) /\ Predicate(t)
  <2>1. /\ ret' = ret
        /\ pc' = [pc EXCEPT ![t] = IF fn[t] \in AddFns THEN "push" ELSE "pop"]
    BY <1>4 DEF Evaluate, Goto
  <2>2. IF fn[t] \in AddFns THEN Len(task_queue_) < capacity_ ELSE task_queue_ # <<>>
    BY <1>1, <1>4 DEF Predicate
  <2>3. QED
    BY <1>2, <2>1, <2>2 DEF TypeOK, Labels
<1>5. CASE ~Interrupte(t) /\ ~Predicate(t) /\ ~late
  <2>1. ret' = ret /\ pc' = [pc EXCEPT ![t] = "sleep"]
    BY <1>5 DEF Evaluate, Goto
  <2>2. IF fn[t] \in AddFns THEN Len(task_queue_) >= capacity_ ELSE task_queue_ = <<>>
    BY <1>1, <1>5 DEF Predicate
  <2>3. QED
    BY <1>2, <2>1, <2>2 DEF TypeOK, Labels
<1>6. QED
  BY <1>3, <1>4, <1>5 DEF Evaluate

\* A thread keeps what it knows through a step of another one that leaves it
\* where it is and, while it is in the critical section, leaves the queue alone.
LEMMA ControlKept ==
  ASSUME NEW u \in Threads, ControlOf(u),
         fn'[u] = fn[u], pc'[u] = pc[u], ret'[u] = ret[u], task'[u] = task[u],
         interrupted => interrupted',
         pc[u] \in Inside => owner' = owner /\ task_queue_' = task_queue_,
         not_full'.pos[u] # "out" => not_full.pos[u] # "out",
         not_empty'.pos[u] # "out" => not_empty.pos[u] # "out",
         not_full'.pos[u] = "timedout" => not_full.pos[u] = "timedout",
         not_empty'.pos[u] = "timedout" => not_empty.pos[u] = "timedout",
         not_full.count[u] = 0 => not_full'.count[u] = 0,
         not_empty.count[u] = 0 => not_empty'.count[u] = 0
  PROVE  ControlOf(u)'
<1>1. /\ fn'[u] \in May[u] \cup {"none"}
      /\ pc'[u] \in Inside => owner' = u
      /\ pc'[u] = "idle" <=> fn'[u] = "none"
      /\ pc'[u] = "call" => fn'[u] \in AddFns \cup FetchFns \cup {"FetchAllTask"}
      /\ pc'[u] \in {"interrupt", "notify"} => fn'[u] \in InterruptFns
      /\ pc'[u] = "notify" => interrupted'
      /\ pc'[u] \notin {"idle", "unlock"} => ret'[u] = "none"
      /\ pc'[u] = "unlock" => ret'[u] # "none"
      /\ fn'[u] \in AddFns => task'[u] \in Task
  BY DEF ControlOf
<1>2. /\ pc'[u] = "push" =>
           fn'[u] \in AddFns /\ (capacity_ = 0 \/ Len(task_queue_') < capacity_)
      /\ pc'[u] = "pop" => fn'[u] \in FetchFns /\ task_queue_' # <<>>
      /\ pc'[u] = "sleep" =>
           \/ fn'[u] \in AddFns /\ capacity_ > 0 /\ Len(task_queue_') >= capacity_
           \/ fn'[u] \in FetchFns /\ task_queue_' = <<>>
      /\ pc'[u] = "asleep" => fn'[u] \in FetchFns \/ (fn'[u] \in AddFns /\ capacity_ > 0)
  BY DEF ControlOf, Inside
<1>3. /\ not_full'.pos[u] # "out" => pc'[u] = "asleep" /\ fn'[u] \in AddFns
      /\ not_empty'.pos[u] # "out" => pc'[u] = "asleep" /\ fn'[u] \in FetchFns
      /\ not_full'.pos[u] = "timedout" => fn'[u] \in TimedFns
      /\ not_empty'.pos[u] = "timedout" => fn'[u] \in TimedFns
      /\ pc'[u] \in {"sleep", "asleep"} =>
           not_full'.count[u] = 0 /\ not_empty'.count[u] = 0
  BY DEF ControlOf
<1>4. QED
  BY <1>1, <1>2, <1>3 DEF ControlOf

LEMMA OneInside ==
  ASSUME Control, NEW t \in Threads, owner = t \/ owner = NoThread
  PROVE  \A u \in Threads \ {t} : pc[u] \notin Inside
  BY QueueAssumption DEF Control, ControlOf

\* The conjuncts of TypeOK that are the queue's own.
Fields ==
  /\ task_queue_ \in Seq(Task)
  /\ capacity_ > 0 => Len(task_queue_) <= capacity_
  /\ interrupted \in BOOLEAN
  /\ made \in 0..MaxTasks
  /\ fn \in [Threads -> Fns \cup {"none"}]
  /\ task \in [Threads -> 0..MaxTasks]
  /\ pc \in [Threads -> Labels]
  /\ got \in [Threads -> Seq(Task)]
  /\ ret \in [Threads -> {"none", "Success", "TimeOut", "Interrupted"}]

LEMMA CallInv ==
  ASSUME QueueInv, NEW t \in Threads, NEW f \in Fns, Call(t, f)
  PROVE  Fields' /\ Control'
<1>1. /\ UNCHANGED <<owner, not_full, not_empty, task_queue_, interrupted, got>>
      /\ fn' = [fn EXCEPT ![t] = f] /\ ret' = [ret EXCEPT ![t] = "none"]
      /\ pc' = [pc EXCEPT ![t] = IF f \in InterruptFns THEN "interrupt" ELSE "call"]
      /\ f \in May[t] /\ pc[t] = "idle"
      /\ not_full.pos[t] = "out" /\ not_empty.pos[t] = "out"
  BY DEF Call, Goto, Idle, NotFull!Idle, NotEmpty!Idle
<1>2. /\ made' \in 0..MaxTasks /\ task' \in [Threads -> 0..MaxTasks]
      /\ \A u \in Threads \ {t} : task'[u] = task[u]
      /\ f \in AddFns => task'[t] \in Task
  <2>1. MaxTasks \in Nat /\ made \in 0..MaxTasks /\ task \in [Threads -> 0..MaxTasks]
    BY QueueAssumption DEF QueueInv, TypeOK
  <2>2. CASE f \in AddFns
    <3>1. made < MaxTasks /\ made' = made + 1 /\ task' = [task EXCEPT ![t] = made + 1]
      BY <2>2 DEF Call
    <3>2. QED
      BY <2>1, <3>1 DEF Task
  <2>3. CASE f \notin AddFns
    BY <2>1, <2>3 DEF Call
  <2>4. QED
    BY <2>2, <2>3
<1>3. /\ task_queue_ \in Seq(Task) /\ (capacity_ > 0 => Len(task_queue_) <= capacity_)
      /\ interrupted \in BOOLEAN /\ fn \in [Threads -> Fns \cup {"none"}]
      /\ pc \in [Threads -> Labels] /\ got \in [Threads -> Seq(Task)]
      /\ ret \in [Threads -> {"none", "Success", "TimeOut", "Interrupted"}]
  BY DEF QueueInv, TypeOK
<1>4. Fields'
  BY <1>1, <1>2, <1>3 DEF Fields, Labels
<1>5. ASSUME NEW u \in Threads PROVE ControlOf(u)'
  <2>1. CASE u = t
    BY <1>1, <1>2, <1>3, <2>1, FnsDisjoint DEF ControlOf, Inside, Fns
  <2>2. CASE u # t
    <3>1. ControlOf(u)
      BY DEF QueueInv, Control
    <3>2. QED
      BY <1>1, <1>2, <1>3, <2>2, <3>1, ControlKept
  <2>3. QED
    BY <2>1, <2>2
<1>6. QED
  BY <1>4, <1>5 DEF Control

\* The steps that evaluate the predicate: t takes the mutex, and is not asleep
\* any more.
LEMMA EvaluatedInv ==
  ASSUME QueueInv, NEW t \in Threads, NEW late \in BOOLEAN, Evaluate(t, late),
         fn[t] \in FetchFns \/ (fn[t] \in AddFns /\ capacity_ > 0),
         UNCHANGED <<task_queue_, interrupted, made, fn, task, got>>,
         owner = NoThread, owner' = t, ret[t] = "none",
         not_full'.pos = [not_full.pos EXCEPT ![t] = "out"],
         not_empty'.pos = [not_empty.pos EXCEPT ![t] = "out"],
         not_full'.count = not_full.count, not_empty'.count = not_empty.count,
         not_full.count[t] = 0, not_empty.count[t] = 0
  PROVE  Fields' /\ Control'
<1> USE DEF QueueInv
<1>1. TypeOK /\ Control
  OBVIOUS
<1>2. /\ \A u \in Threads \ {t} : pc'[u] = pc[u] /\ ret'[u] = ret[u]
      /\ pc' \in [Threads -> Labels]
      /\ ret' \in [Threads -> {"none", "Success", "TimeOut", "Interrupted"}]
      /\ \/ pc'[t] = "unlock" /\ ret'[t] \in {"Interrupted", "TimeOut"}
         \/ /\ pc'[t] \in {"push", "pop"} /\ ret'[t] = ret[t]
            /\ pc'[t] = "push" => fn[t] \in AddFns /\ Len(task_queue_) < capacity_
            /\ pc'[t] = "pop" => fn[t] \in FetchFns /\ task_queue_ # <<>>
         \/ /\ pc'[t] = "sleep" /\ ret'[t] = ret[t]
            /\ \/ fn[t] \in AddFns /\ capacity_ > 0 /\ Len(task_queue_) >= capacity_
               \/ fn[t] \in FetchFns /\ task_queue_ = <<>>
  BY <1>1, EvaluateEffects
<1>3. Fields'
  BY <1>1, <1>2 DEF TypeOK, Fields
<1>4. /\ not_full.pos \in [Threads -> NotFull!Position]
      /\ not_empty.pos \in [Threads -> NotEmpty!Position]
  BY <1>1 DEF TypeOK, NotFull!CvTypeOK, NotEmpty!CvTypeOK
<1>5. ASSUME NEW u \in Threads PROVE ControlOf(u)'
  <2>1. ControlOf(u)
    BY <1>1 DEF Control
  <2>2. CASE u = t
    <3>1. not_full'.pos[t] = "out" /\ not_empty'.pos[t] = "out"
      BY <1>4
    <3>2. fn[t] \in AddFns => task[t] \in Task
      BY <2>1, <2>2 DEF ControlOf
    <3>3. pc'[t] \in Inside /\ fn[t] # "none"  /\ fn[t] \in May[t]
      BY <1>2, <2>1, <2>2, FnsDisjoint DEF ControlOf, Inside
    <3>4. QED
      BY <1>2, <2>2, <3>1, <3>2, <3>3, FnsDisjoint DEF ControlOf, Inside
  <2>3. CASE u # t
    <3>1. pc[u] \notin Inside
      BY <1>1, <2>3, OneInside
    <3>2. not_full'.pos[u] = not_full.pos[u] /\ not_empty'.pos[u] = not_empty.pos[u]
      BY <1>4, <2>3
    <3>3. QED
      BY <1>2, <2>1, <2>3, <3>1, <3>2, ControlKept
  <2>4. QED
    BY <2>2, <2>3
<1>6. QED
  BY <1>3, <1>5 DEF Control

LEMMA BeginCallInv ==
  ASSUME QueueInv, NEW t \in Threads, BeginCall(t)
  PROVE  Fields' /\ Control'
<1>1. /\ pc[t] = "call" /\ fn[t] \in AddFns \cup FetchFns
      /\ owner = NoThread /\ owner' = t /\ UNCHANGED <<not_full, not_empty>>
      /\ not_full.pos[t] = "out" /\ not_empty.pos[t] = "out"
      /\ not_full.count[t] = 0 /\ not_empty.count[t] = 0
      /\ UNCHANGED <<task_queue_, interrupted, made, fn, task, got>>
  BY DEF BeginCall, Lock, NotFull!Lock, NotEmpty!Lock, NotFull!Idle, NotEmpty!Idle
<1>2. TypeOK /\ Control /\ ControlOf(t)
  BY DEF QueueInv, Control
<1>3. /\ not_full.pos \in [Threads -> NotFull!Position]
      /\ not_empty.pos \in [Threads -> NotEmpty!Position]
  BY <1>2 DEF TypeOK, NotFull!CvTypeOK, NotEmpty!CvTypeOK
<1>4. CASE fn[t] \in AddFns /\ capacity_ = 0 /\ Goto(t, "push") /\ UNCHANGED ret
  <2>1. Fields'
    BY <1>1, <1>2, <1>4 DEF Fields, TypeOK, Goto, Labels
  <2>2. ASSUME NEW u \in Threads PROVE ControlOf(u)'
    <3>1. ControlOf(u)
      BY <1>2 DEF Control
    <3>2. CASE u = t
      BY <1>1, <1>2, <1>4, <3>1, <3>2, FnsDisjoint DEF TypeOK, ControlOf, Inside, Goto
    <3>3. CASE u # t
      <4>1. pc'[u] = pc[u] /\ pc[u] \notin Inside
        BY <1>1, <1>2, <1>4, <3>3, OneInside DEF TypeOK, Goto
      <4>2. QED
        BY <1>1, <1>4, <3>1, <4>1, ControlKept
    <3>4. QED
      BY <3>2, <3>3
  <2>3. QED
    BY <2>1, <2>2 DEF Control
<1>5. CASE (fn[t] \in FetchFns \/ capacity_ > 0) /\ \E late \in MayBeLate(t) : Evaluate(t, late)
  <2>1. PICK late \in BOOLEAN : Evaluate(t, late)
    BY <1>5 DEF MayBeLate
  <2>2. ret[t] = "none"
    BY <1>1, <1>2 DEF ControlOf
  <2>3. /\ not_full'.pos = [not_full.pos EXCEPT ![t] = "out"]
        /\ not_empty'.pos = [not_empty.pos EXCEPT ![t] = "out"]
        /\ not_full'.count = not_full.count /\ not_empty'.count = not_empty.count
    BY <1>1, <1>3
  <2>4. QED
    BY <1>1, <1>5, <2>1, <2>2, <2>3, EvaluatedInv
<1>6. QED
  BY <1>4, <1>5 DEF BeginCall

LEMMA WakeUpInv ==
  ASSUME QueueInv, NEW t \in Threads, WakeUp(t)
  PROVE  Fields' /\ Control'
<1>1. /\ pc[t] = "asleep"
      /\ UNCHANGED <<task_queue_, interrupted, made, fn, task, got>>
  BY DEF WakeUp
<1>2. TypeOK /\ Control /\ ControlOf(t)
  BY DEF QueueInv, Control
<1>3. /\ not_full.pos \in [Threads -> NotFull!Position]
      /\ not_empty.pos \in [Threads -> NotEmpty!Position]
      /\ NotFull!CvTypeOK /\ NotEmpty!CvTypeOK
  BY <1>2 DEF TypeOK, NotFull!CvTypeOK, NotEmpty!CvTypeOK
<1>4. /\ not_full.count[t] = 0 /\ not_empty.count[t] = 0 /\ ret[t] = "none"
      /\ fn[t] \in FetchFns \/ (fn[t] \in AddFns /\ capacity_ > 0)
      /\ not_full.pos[t] # "out" => not_empty.pos[t] = "out"
      /\ not_empty.pos[t] # "out" => not_full.pos[t] = "out"
  BY <1>1, <1>2, FnsDisjoint DEF ControlOf
<1>5. /\ owner = NoThread /\ owner' = t
      /\ not_full'.pos = [not_full.pos EXCEPT ![t] = "out"]
      /\ not_empty'.pos = [not_empty.pos EXCEPT ![t] = "out"]
      /\ not_full'.count = not_full.count /\ not_empty'.count = not_empty.count
  <2>1. CASE NotFull!Resume(t) /\ UNCHANGED not_empty
    BY <1>3, <1>4, <2>1, NotFullEffects
  <2>2. CASE NotEmpty!Resume(t) /\ UNCHANGED not_full
    BY <1>3, <1>4, <2>2, NotEmptyEffects
  <2>3. QED
    BY <2>1, <2>2 DEF WakeUp
<1>6. PICK late \in BOOLEAN : Evaluate(t, late)
  BY DEF WakeUp, LateAfterSleep, MayBeLate
<1>7. QED
  BY <1>1, <1>4, <1>5, <1>6, EvaluatedInv

LEMMA SleepInv ==
  ASSUME QueueInv, NEW t \in Threads, Sleep(t)
  PROVE  Fields' /\ Control'
<1>1. /\ pc[t] = "sleep" /\ pc' = [pc EXCEPT ![t] = "asleep"]
      /\ UNCHANGED <<task_queue_, interrupted, made, fn, task, got, ret>>
  BY DEF Sleep, Goto
<1>2. TypeOK /\ Control /\ ControlOf(t)
  BY DEF QueueInv, Control
<1>3. /\ not_full.pos \in [Threads -> NotFull!Position]
      /\ not_empty.pos \in [Threads -> NotEmpty!Position]
      /\ NotFull!CvTypeOK /\ NotEmpty!CvTypeOK /\ pc \in [Threads -> Labels]
  BY <1>2 DEF TypeOK, NotFull!CvTypeOK, NotEmpty!CvTypeOK
<1>4. /\ owner = t /\ not_full'.count = not_full.count /\ not_empty'.count = not_empty.count
      /\ \/ /\ fn[t] \in AddFns /\ not_empty'.pos = not_empty.pos
            /\ not_full'.pos = [not_full.pos EXCEPT ![t] = "counted"]
         \/ /\ fn[t] \in FetchFns /\ not_full'.pos = not_full.pos
            /\ not_empty'.pos = [not_empty.pos EXCEPT ![t] = "counted"]
  <2>1. CASE fn[t] \in AddFns /\ NotFull!Sleep(t) /\ UNCHANGED not_empty
    BY <1>3, <2>1, NotFullEffects
  <2>2. CASE fn[t] \in FetchFns /\ NotEmpty!Sleep(t) /\ UNCHANGED not_full
    BY <1>3, <2>2, NotEmptyEffects
  <2>3. QED
    BY <2>1, <2>2 DEF Sleep
<1>5. Fields'
  BY <1>1, <1>2 DEF TypeOK, Fields, Labels
<1>6. ASSUME NEW u \in Threads PROVE ControlOf(u)'
  <2>1. ControlOf(u)
    BY <1>2 DEF Control
  <2>2. CASE u = t
    BY <1>1, <1>3, <1>4, <2>1, <2>2, FnsDisjoint DEF ControlOf, Inside
  <2>3. CASE u # t
    <3>1. pc[u] \notin Inside
      BY <1>2, <1>4, <2>3, OneInside
    <3>2. /\ pc'[u] = pc[u] /\ not_full'.pos[u] = not_full.pos[u]
          /\ not_empty'.pos[u] = not_empty.pos[u]
      BY <1>1, <1>3, <1>4, <2>3
    <3>3. QED
      BY <1>1, <1>4, <2>1, <3>1, <3>2, ControlKept
  <2>4. QED
    BY <2>2, <2>3
<1>7. QED
  BY <1>5, <1>6 DEF Control

\* The steps of a condition variable that are no step of the queue.
LEMMA CvOnlyInv ==
  ASSUME QueueInv, NEW t \in Threads,
         WaitForSingleObject(t) \/ TimeOut(t) \/ SetEvent(t)
  PROVE  Fields' /\ Control'
<1>1. UNCHANGED <<task_queue_, interrupted, made, fn, task, pc, got, ret>>
  BY DEF WaitForSingleObject, TimeOut, SetEvent
<1>2. TypeOK /\ Control /\ NotFull!CvTypeOK /\ NotEmpty!CvTypeOK
  BY DEF QueueInv, TypeOK
<1>3. /\ not_full.pos \in [Threads -> NotFull!Position]
      /\ not_empty.pos \in [Threads -> NotEmpty!Position]
      /\ not_full.count \in [Threads -> Nat] /\ not_empty.count \in [Threads -> Nat]
  BY <1>2 DEF NotFull!CvTypeOK, NotEmpty!CvTypeOK
<1>4. Fields'
  BY <1>1, <1>2 DEF TypeOK, Fields
<1>5. ASSUME NEW u \in Threads PROVE ControlOf(u)'
  <2>1. ControlOf(u)
    BY <1>2 DEF Control
  <2>2. CASE NotFull!WaitForSingleObject(t) /\ UNCHANGED not_empty
    <3>1. /\ not_full.pos[t] = "counted" /\ owner' = owner
          /\ \/ not_full'.pos = [not_full.pos EXCEPT ![t] = "signalled"]
             \/ not_full'.pos = [not_full.pos EXCEPT ![t] = "blocked"]
          /\ not_full'.count = not_full.count
      BY <1>2, <2>2, NotFullEffects
    <3>2. QED
      BY <1>1, <1>3, <2>1, <2>2, <3>1, ControlKept
  <2>3. CASE NotEmpty!WaitForSingleObject(t) /\ UNCHANGED not_full
    <3>1. /\ not_empty.pos[t] = "counted" /\ owner' = owner
          /\ \/ not_empty'.pos = [not_empty.pos EXCEPT ![t] = "signalled"]
             \/ not_empty'.pos = [not_empty.pos EXCEPT ![t] = "blocked"]
          /\ not_empty'.count = not_empty.count
      BY <1>2, <2>3, NotEmptyEffects
    <3>2. QED
      BY <1>1, <1>3, <2>1, <2>3, <3>1, ControlKept
  <2>4. CASE fn[t] \in TimedFns /\ NotFull!TimeOut(t) /\ UNCHANGED not_empty
    <3>1. /\ not_full.pos[t] = "blocked" /\ owner' = owner
          /\ not_full'.pos = [not_full.pos EXCEPT ![t] = "timedout"]
          /\ not_full'.count = not_full.count
      BY <1>2, <2>4, NotFullEffects
    <3>2. CASE u # t
      BY <1>1, <1>3, <2>1, <2>4, <3>1, <3>2, ControlKept
    <3>3. CASE u = t
      BY <1>1, <1>3, <2>1, <2>4, <3>1, <3>3 DEF ControlOf
    <3>4. QED
      BY <3>2, <3>3
  <2>5. CASE fn[t] \in TimedFns /\ NotEmpty!TimeOut(t) /\ UNCHANGED not_full
    <3>1. /\ not_empty.pos[t] = "blocked" /\ owner' = owner
          /\ not_empty'.pos = [not_empty.pos EXCEPT ![t] = "timedout"]
          /\ not_empty'.count = not_empty.count
      BY <1>2, <2>5, NotEmptyEffects
    <3>2. CASE u # t
      BY <1>1, <1>3, <2>1, <2>5, <3>1, <3>2, ControlKept
    <3>3. CASE u = t
      BY <1>1, <1>3, <2>1, <2>5, <3>1, <3>3 DEF ControlOf
    <3>4. QED
      BY <3>2, <3>3
  <2>6. CASE NotFull!SetEvent(t) /\ UNCHANGED not_empty
    <3>1. /\ not_full'.count = [not_full.count EXCEPT ![t] = @ - 1]
          /\ not_full.count[t] > 0 /\ owner' = owner
          /\ \/ \E b \in Threads :
                  /\ not_full.pos[b] = "blocked"
                  /\ not_full'.pos = [not_full.pos EXCEPT ![b] = "signalled"]
             \/ not_full'.pos = not_full.pos
      BY <1>2, <2>6, NotFullEffects
    <3>2. /\ not_full'.pos[u] # "out" => not_full.pos[u] # "out"
          /\ not_full'.pos[u] = "timedout" => not_full.pos[u] = "timedout"
      BY <1>3, <3>1
    <3>3. not_full.count[u] = 0 => not_full'.count[u] = 0
      <4>1. u # t => not_full'.count[u] = not_full.count[u]
        BY <1>3, <3>1
      <4>2. QED
        BY <3>1, <4>1
    <3>4. QED
      BY <1>1, <2>1, <2>6, <3>1, <3>2, <3>3, ControlKept
  <2>7. CASE NotEmpty!SetEvent(t) /\ UNCHANGED not_full
    <3>1. /\ not_empty'.count = [not_empty.count EXCEPT ![t] = @ - 1]
          /\ not_empty.count[t] > 0 /\ owner' = owner
          /\ \/ \E b \in Threads :
                  /\ not_empty.pos[b] = "blocked"
                  /\ not_empty'.pos = [not_empty.pos EXCEPT ![b] = "signalled"]
             \/ not_empty'.pos = not_empty.pos
      BY <1>2, <2>7, NotEmptyEffects
    <3>2. /\ not_empty'.pos[u] # "out" => not_empty.pos[u] # "out"
          /\ not_empty'.pos[u] = "timedout" => not_empty.pos[u] = "timedout"
      BY <1>3, <3>1
    <3>3. not_empty.count[u] = 0 => not_empty'.count[u] = 0
      <4>1. u # t => not_empty'.count[u] = not_empty.count[u]
        BY <1>3, <3>1
      <4>2. QED
        BY <3>1, <4>1
    <3>4. QED
      BY <1>1, <2>1, <2>7, <3>1, <3>2, <3>3, ControlKept
  <2>8. QED
    BY <2>2, <2>3, <2>4, <2>5, <2>6, <2>7 DEF WaitForSingleObject, TimeOut, SetEvent
<1>6. QED
  BY <1>4, <1>5 DEF Control

\* The steps inside the critical section, after which the call returns.
LEMMA PushInv ==
  ASSUME QueueInv, NEW t \in Threads, Push(t)
  PROVE  Fields' /\ Control'
<1>1. /\ pc[t] = "push" /\ pc' = [pc EXCEPT ![t] = "unlock"]
      /\ task_queue_' = Append(task_queue_, task[t])
      /\ ret' = [ret EXCEPT ![t] = "Success"]
      /\ UNCHANGED <<not_full, interrupted, made, fn, task, got>>
  BY DEF Push, Goto
<1>2. TypeOK /\ Control /\ ControlOf(t) /\ NotEmpty!CvTypeOK
  BY DEF QueueInv, Control, TypeOK
<1>3. /\ not_empty.pos[t] = "out" /\ not_empty.count[t] = 0
      /\ not_empty'.count = [not_empty.count EXCEPT ![t] = not_empty.wait_count_]
      /\ not_empty'.pos = not_empty.pos /\ owner' = owner
  BY <1>2, NotEmptyEffects DEF Push
<1>4. /\ owner = t /\ task[t] \in Task /\ not_full.pos[t] = "out"
      /\ capacity_ = 0 \/ Len(task_queue_) < capacity_
  BY <1>1, <1>2 DEF ControlOf, Inside
<1>5. /\ task_queue_' \in Seq(Task)
      /\ capacity_ > 0 => Len(task_queue_') <= capacity_
  <2>1. task_queue_ \in Seq(Task) /\ capacity_ \in Nat /\ Len(task_queue_) \in Nat
    BY <1>2, QueueAssumption DEF TypeOK
  <2>2. task_queue_' \in Seq(Task) /\ Len(task_queue_') = Len(task_queue_) + 1
    BY <1>1, <1>4, <2>1
  <2>3. QED
    BY <1>4, <2>1, <2>2
<1>6. Fields'
  BY <1>1, <1>2, <1>5 DEF Fields, TypeOK, Labels
<1>7. ASSUME NEW u \in Threads PROVE ControlOf(u)'
  <2>1. ControlOf(u) /\ pc \in [Threads -> Labels]
        /\ ret \in [Threads -> {"none", "Success", "TimeOut", "Interrupted"}]
        /\ not_empty.count \in [Threads -> Nat]
    BY <1>2 DEF Control, TypeOK, NotEmpty!CvTypeOK
  <2>2. CASE u = t
    BY <1>1, <1>3, <1>4, <2>1, <2>2, FnsDisjoint DEF ControlOf, Inside
  <2>3. CASE u # t
    <3>1. pc[u] \notin Inside
      BY <1>2, <1>4, <2>3, OneInside
    <3>2. QED
      BY <1>1, <1>3, <2>1, <2>3, <3>1, ControlKept
  <2>4. QED
    BY <2>2, <2>3
<1>8. QED
  BY <1>6, <1>7 DEF Control

LEMMA PopInv ==
  ASSUME QueueInv, NEW t \in Threads, Pop(t)
  PROVE  Fields' /\ Control'
<1>1. /\ pc[t] = "pop" /\ pc' = [pc EXCEPT ![t] = "unlock"]
      /\ got' = [got EXCEPT ![t] = Append(@, Head(task_queue_))]
      /\ task_queue_' = Tail(task_queue_)
      /\ ret' = [ret EXCEPT ![t] = "Success"]
      /\ UNCHANGED <<not_empty, interrupted, made, fn, task>>
  BY DEF Pop, Goto
<1>2. TypeOK /\ Control /\ ControlOf(t) /\ NotFull!CvTypeOK
  BY DEF QueueInv, Control, TypeOK
<1>3. /\ not_full.pos[t] = "out" /\ not_full.count[t] = 0
      /\ not_full'.count = [not_full.count EXCEPT ![t] = not_full.wait_count_]
      /\ not_full'.pos = not_full.pos /\ owner' = owner
  BY <1>2, NotFullEffects DEF Pop
<1>4. owner = t /\ task_queue_ # <<>> /\ not_empty.pos[t] = "out"
  BY <1>1, <1>2 DEF ControlOf, Inside
<1>5. /\ task_queue_' \in Seq(Task) /\ got' \in [Threads -> Seq(Task)]
      /\ capacity_ > 0 => Len(task_queue_') <= capacity_
  <2>1. /\ task_queue_ \in Seq(Task) /\ capacity_ \in Nat /\ Len(task_queue_) \in Nat
        /\ got \in [Threads -> Seq(Task)]
        /\ capacity_ > 0 => Len(task_queue_) <= capacity_
    BY <1>2, QueueAssumption DEF TypeOK
  <2>2. /\ task_queue_' \in Seq(Task) /\ Head(task_queue_) \in Task
        /\ Len(task_queue_') = Len(task_queue_) - 1
    BY <1>1, <1>4, <2>1
  <2>3. Append(got[t], Head(task_queue_)) \in Seq(Task)
    BY <2>1, <2>2
  <2>4. QED
    BY <1>1, <2>1, <2>2, <2>3
<1>6. Fields'
  BY <1>1, <1>2, <1>5 DEF Fields, TypeOK, Labels
<1>7. ASSUME NEW u \in Threads PROVE ControlOf(u)'
  <2>1. ControlOf(u) /\ pc \in [Threads -> Labels]
        /\ ret \in [Threads -> {"none", "Success", "TimeOut", "Interrupted"}]
        /\ not_full.count \in [Threads -> Nat]
    BY <1>2 DEF Control, TypeOK, NotFull!CvTypeOK
  <2>2. CASE u = t
    BY <1>1, <1>3, <1>4, <2>1, <2>2, FnsDisjoint DEF ControlOf, Inside
  <2>3. CASE u # t
    <3>1. pc[u] \notin Inside
      BY <1>2, <1>4, <2>3, OneInside
    <3>2. QED
      BY <1>1, <1>3, <2>1, <2>3, <3>1, ControlKept
  <2>4. QED
    BY <2>2, <2>3
<1>8. QED
  BY <1>6, <1>7 DEF Control

LEMMA FetchAllTaskInv ==
  ASSUME QueueInv, NEW t \in Threads, FetchAllTask(t)
  PROVE  Fields' /\ Control'
<1>1. /\ pc[t] = "call" /\ pc' = [pc EXCEPT ![t] = "unlock"]
      /\ fn[t] = "FetchAllTask"
      /\ got' = [got EXCEPT ![t] = @ \o task_queue_] /\ task_queue_' = <<>>
      /\ ret' = [ret EXCEPT ![t] = "Success"]
      /\ UNCHANGED <<not_full, not_empty, interrupted, made, fn, task>>
      /\ owner = NoThread /\ owner' = t
  BY DEF FetchAllTask, Goto, Lock, NotFull!Lock, NotEmpty!Lock
<1>2. TypeOK /\ Control /\ ControlOf(t)
  BY DEF QueueInv, Control
<1>3. /\ task_queue_' \in Seq(Task) /\ got' \in [Threads -> Seq(Task)]
      /\ capacity_ > 0 => Len(task_queue_') <= capacity_
  <2>1. task_queue_ \in Seq(Task) /\ got \in [Threads -> Seq(Task)]
    BY <1>2 DEF TypeOK
  <2>2. got[t] \o task_queue_ \in Seq(Task)
    BY <2>1
  <2>3. <<>> \in Seq(Task) /\ Len(<<>>) = 0 /\ capacity_ \in Nat
    BY QueueAssumption
  <2>4. QED
    BY <1>1, <2>1, <2>2, <2>3
<1>4. Fields'
  BY <1>1, <1>2, <1>3 DEF Fields, TypeOK, Labels
<1>5. ASSUME NEW u \in Threads PROVE ControlOf(u)'
  <2>1. ControlOf(u) /\ pc \in [Threads -> Labels]
        /\ ret \in [Threads -> {"none", "Success", "TimeOut", "Interrupted"}]
    BY <1>2 DEF Control, TypeOK
  <2>2. CASE u = t
    BY <1>1, <2>1, <2>2, FnsDisjoint DEF ControlOf, Inside
  <2>3. CASE u # t
    <3>1. pc[u] \notin Inside
      BY <1>1, <1>2, <2>3, OneInside
    <3>2. QED
      BY <1>1, <2>1, <2>3, <3>1, ControlKept
  <2>4. QED
    BY <2>2, <2>3
<1>6. QED
  BY <1>4, <1>5 DEF Control

LEMMA UnlockInv ==
  ASSUME QueueInv, NEW t \in Threads, Unlock(t)
  PROVE  Fields' /\ Control'
<1>1. /\ pc[t] = "unlock" /\ pc' = [pc EXCEPT ![t] = "idle"]
      /\ fn' = [fn EXCEPT ![t] = "none"] /\ owner = t
      /\ UNCHANGED <<not_full, not_empty, task_queue_, interrupted, made, task, got, ret>>
  BY DEF Unlock, Goto, Release, NotFull!Unlock, NotEmpty!Unlock
<1>2. TypeOK /\ Control /\ ControlOf(t)
  BY DEF QueueInv, Control
<1>3. Fields'
  BY <1>1, <1>2 DEF Fields, TypeOK, Labels
<1>4. ASSUME NEW u \in Threads PROVE ControlOf(u)'
  <2>1. ControlOf(u) /\ pc \in [Threads -> Labels] /\ fn \in [Threads -> Fns \cup {"none"}]
    BY <1>2 DEF Control, TypeOK
  <2>2. CASE u = t
    BY <1>1, <2>1, <2>2, FnsDisjoint DEF ControlOf, Inside
  <2>3. CASE u # t
    <3>1. pc[u] \notin Inside
      BY <1>1, <1>2, <2>3, OneInside
    <3>2. QED
      BY <1>1, <2>1, <2>3, <3>1, ControlKept
  <2>4. QED
    BY <2>2, <2>3
<1>5. QED
  BY <1>3, <1>4 DEF Control

\* The two steps of an interrupt, outside the critical section.
LEMMA InterruptInv ==
  ASSUME QueueInv, NEW t \in Threads, SetInterrupted(t) \/ Notify(t)
  PROVE  Fields' /\ Control'
<1>1. TypeOK /\ Control /\ NotFull!CvTypeOK /\ NotEmpty!CvTypeOK
  BY DEF QueueInv, TypeOK
<1>2. CASE SetInterrupted(t)
  <2>1. /\ pc[t] = "interrupt" /\ pc' = [pc EXCEPT ![t] = "notify"] /\ interrupted'
        /\ interrupted' = TRUE
        /\ UNCHANGED <<owner, not_full, not_empty, task_queue_, made, fn, task, got, ret>>
    BY <1>2 DEF SetInterrupted, Goto
  <2>2. Fields'
    BY <1>1, <2>1 DEF Fields, TypeOK, Labels
  <2>3. ASSUME NEW u \in Threads PROVE ControlOf(u)'
    <3>1. ControlOf(u) /\ pc \in [Threads -> Labels]
      BY <1>1 DEF Control, TypeOK
    <3>2. CASE u = t
      BY <2>1, <3>1, <3>2, FnsDisjoint DEF ControlOf, Inside
    <3>3. CASE u # t
      BY <2>1, <3>1, <3>3, ControlKept
    <3>4. QED
      BY <3>2, <3>3
  <2>4. QED
    BY <2>2, <2>3 DEF Control
<1>3. CASE Notify(t)
  <2>1. /\ pc[t] = "notify" /\ pc' = [pc EXCEPT ![t] = "idle"]
        /\ fn' = [fn EXCEPT ![t] = "none"] /\ ret' = [ret EXCEPT ![t] = "Success"]
        /\ UNCHANGED <<task_queue_, interrupted, made, task, got>>
    BY <1>3 DEF Notify, Goto
  <2>2. /\ owner' = owner /\ not_full'.pos = not_full.pos /\ not_empty'.pos = not_empty.pos
        /\ not_full.pos[t] = "out" /\ not_empty.pos[t] = "out"
        /\ \A u \in Threads \ {t} : /\ not_full'.count[u] = not_full.count[u]
                                   /\ not_empty'.count[u] = not_empty.count[u]
    <3>1. /\ not_full.count \in [Threads -> Nat] /\ not_empty.count \in [Threads -> Nat]
          /\ ControlOf(t)
      BY <1>1 DEF Control, NotFull!CvTypeOK, NotEmpty!CvTypeOK
    <3>2. not_full.pos[t] = "out" /\ not_empty.pos[t] = "out"
      BY <2>1, <3>1 DEF ControlOf
    <3>3. CASE NotEmpty!NotifyAll(t) /\ UNCHANGED not_full
      <4>1. /\ not_empty'.count = [not_empty.count EXCEPT ![t] = not_empty.wait_count_]
            /\ not_empty'.pos = not_empty.pos /\ owner' = owner
        BY <1>1, <3>3, NotEmptyEffects
      <4>2. QED
        BY <3>1, <3>2, <3>3, <4>1
    <3>4. CASE NotFull!NotifyAll(t) /\ UNCHANGED not_empty
      <4>1. /\ not_full'.count = [not_full.count EXCEPT ![t] = not_full.wait_count_]
            /\ not_full'.pos = not_full.pos /\ owner' = owner
        BY <1>1, <3>4, NotFullEffects
      <4>2. QED
        BY <3>1, <3>2, <3>4, <4>1
    <3>5. QED
      BY <1>3, <3>3, <3>4 DEF Notify
  <2>3. Fields'
    BY <1>1, <2>1 DEF Fields, TypeOK, Labels
  <2>4. ASSUME NEW u \in Threads PROVE ControlOf(u)'
    <3>1. /\ ControlOf(u) /\ pc \in [Threads -> Labels] /\ fn \in [Threads -> Fns \cup {"none"}]
          /\ ret \in [Threads -> {"none", "Success", "TimeOut", "Interrupted"}]
      BY <1>1 DEF Control, TypeOK
    <3>2. CASE u = t
      BY <2>1, <2>2, <3>1, <3>2, FnsDisjoint DEF ControlOf, Inside
    <3>3. CASE u # t
      BY <2>1, <2>2, <3>1, <3>3, ControlKept
    <3>4. QED
      BY <3>2, <3>3
  <2>5. QED
    BY <2>3, <2>4 DEF Control
<1>4. QED
  BY <1>2, <1>3

LEMMA QueueInvStep == QueueInv /\ [Next]_vars => QueueInv'
<1> SUFFICES ASSUME QueueInv, [Next]_vars PROVE QueueInv'
  OBVIOUS
<1>1. NotFullInv' /\ NotEmptyInv'
  <2>1. Apart
    BY ControlImpliesApart DEF QueueInv
  <2>2. QED
    BY <2>1, StepIsCvStep, NotFullInduction, NotEmptyInduction DEF QueueInv
<1>2. Fields' /\ Control'
  <2>1. ASSUME NEW t \in Threads, Step(t) \/ TimeOut(t)
        PROVE  Fields' /\ Control'
    BY <2>1, BeginCallInv, SleepInv, CvOnlyInv, WakeUpInv, PushInv, PopInv, UnlockInv,
      FetchAllTaskInv, InterruptInv DEF Step
  <2>2. CASE UNCHANGED vars
    <3>1. Fields /\ Control
      BY DEF QueueInv, TypeOK, Fields
    <3>2. QED
      BY <2>2, <3>1 DEF vars, Fields, Control, ControlOf
  <2>3. QED
    BY <2>1, <2>2, CallInv DEF Next
<1>3. TypeOK'
  BY <1>1, <1>2 DEF NotFullInv, NotEmptyInv, Fields, TypeOK
<1>4. QED
  BY <1>1, <1>2, <1>3 DEF QueueInv

LEMMA QueueInvAlways == Spec => []QueueInv
  BY QueueInvInitially, QueueInvStep, PTL DEF Spec

\* The queue never exceeds its limit, and the fields keep their types, whatever
\* the threads call and in whatever order.
THEOREM QueueTypeCorrect == Spec => []TypeOK
<1>1. QueueInv => TypeOK
  BY DEF QueueInv
<1>2. QED
  BY <1>1, QueueInvAlways, PTL

\* The queue is a correct client of both of its condition variables.
\* (SleepConditionVariableXp is only called by the owner of mtx_, and a thread
\* that sleeps on one of them makes no call of the other.)
THEOREM QueueImplementsCvs == Spec => ImplementsCvs
<1>1. Init => NotFull!CvInit /\ NotEmpty!CvInit
  BY DEF Init
<1>2. QueueInv /\ [Next]_vars =>
        /\ [NotFull!CvNext]_(NotFull!cvVars)
        /\ [NotEmpty!CvNext]_(NotEmpty!cvVars)
  BY ControlImpliesApart, StepIsCvStep DEF QueueInv
<1>3. QED
  BY <1>1, <1>2, QueueInvAlways, PTL
  DEF Spec, ImplementsCvs, NotFull!CvSpec, NotEmpty!CvSpec

-----------------------------------------------------------------------------
(* The queue implements the abstract one. *)

\* An evaluation either goes on in the call, which the abstract queue does not
\* see, or gives up for a reason the abstract queue accepts.
LEMMA EvaluateRefines ==
  ASSUME QueueInv, NEW t \in Threads, NEW late \in BOOLEAN, Evaluate(t, late),
         pc[t] \in {"call", "asleep"}, fn[t] \in AddFns => capacity_ > 0,
         late => fn[t] \in TimedFns,
         UNCHANGED <<task_queue_, interrupted, fn, got>>
  PROVE  Q!GiveUp(t) \/ UNCHANGED Q!queueVars
<1>1. /\ ret[t] = "none" /\ Len(task_queue_) \in Nat /\ capacity_ \in Nat
      /\ Len(task_queue_) > 0 <=> task_queue_ # <<>>
  <2>1. task_queue_ \in Seq(Task) /\ ControlOf(t)
    BY DEF QueueInv, TypeOK, Control
  <2>2. QED
    BY <2>1, QueueAssumption DEF ControlOf
<1>2. CASE Interrupte(t) /\ ret' = [ret EXCEPT ![t] = "Interrupted"]
  BY <1>1, <1>2 DEF Interrupte, Q!GiveUp, Q!Settle
<1>3. CASE ~Predicate(t) /\ late /\ ret' = [ret EXCEPT ![t] = "TimeOut"]
  <2>1. \/ fn[t] = "AddTaskA" /\ ~Q!Room
        \/ fn[t] = "FetchTaskA" /\ task_queue_ = <<>>
    BY <1>1, <1>3 DEF Predicate, TimedFns, AddFns, Q!Room
  <2>2. QED
    BY <1>1, <1>3, <2>1 DEF Q!GiveUp, Q!Settle
<1>4. CASE UNCHANGED ret
  BY <1>4 DEF Q!queueVars
<1>5. QED
  BY <1>2, <1>3, <1>4 DEF Evaluate

LEMMA StepRefines == QueueInv /\ [Next]_vars => [Q!QueueNext]_(Q!queueVars)
<1> SUFFICES ASSUME QueueInv, [Next]_vars PROVE [Q!QueueNext]_(Q!queueVars)
  OBVIOUS
<1>1. /\ fn \in [Threads -> Fns \cup {"none"}]
      /\ ret \in [Threads -> {"none", "Success", "TimeOut", "Interrupted"}]
      /\ capacity_ \in Nat
      /\ \A t \in Threads : ControlOf(t)
  BY QueueAssumption DEF QueueInv, TypeOK, Control
<1>2. ASSUME NEW t \in Threads, NEW f \in Fns, Call(t, f)
      PROVE  Q!Call(t, f)
  BY <1>1, <1>2, FnsDisjoint DEF Call, Idle, Q!Call, ControlOf
<1>3. ASSUME NEW t \in Threads, BeginCall(t)
      PROVE  Q!GiveUp(t) \/ UNCHANGED Q!queueVars
  <2>1. CASE UNCHANGED ret
    BY <1>3, <2>1 DEF BeginCall, Q!queueVars
  <2>2. ASSUME NEW late \in MayBeLate(t), Evaluate(t, late),
               fn[t] \in FetchFns \/ capacity_ > 0
        PROVE  Q!GiveUp(t) \/ UNCHANGED Q!queueVars
    BY <1>3, <2>2, EvaluateRefines, FnsDisjoint DEF BeginCall, MayBeLate
  <2>3. QED
    BY <1>3, <2>1, <2>2 DEF BeginCall
<1>4. ASSUME NEW t \in Threads, WakeUp(t)
      PROVE  Q!GiveUp(t) \/ UNCHANGED Q!queueVars
  <2>1. PICK late \in LateAfterSleep(t) : Evaluate(t, late)
    BY <1>4 DEF WakeUp
  <2>2. late \in BOOLEAN /\ (late => fn[t] \in TimedFns)
    BY <1>1, <2>1 DEF LateAfterSleep, MayBeLate, ControlOf
  <2>3. pc[t] = "asleep" /\ (fn[t] \in AddFns => capacity_ > 0)
    BY <1>1, <1>4, FnsDisjoint DEF WakeUp, ControlOf
  <2>4. QED
    BY <1>4, <2>1, <2>2, <2>3, EvaluateRefines DEF WakeUp
<1>5. ASSUME NEW t \in Threads, Push(t)
      PROVE  \E n \in Task : Q!Add(t, n)
  <2>1. fn[t] \in AddFns /\ task[t] \in Task /\ ret[t] = "none" /\ Q!Room
    BY <1>1, <1>5 DEF Push, ControlOf, Q!Room
  <2>2. Q!Add(t, task[t])
    BY <1>5, <2>1 DEF Push, AddFns, Q!Add, Q!Settle
  <2>3. QED
    BY <2>1, <2>2
<1>6. ASSUME NEW t \in Threads, Pop(t)
      PROVE  Q!Fetch(t)
  <2>1. fn[t] \in FetchFns /\ task_queue_ # <<>> /\ ret[t] = "none"
    BY <1>1, <1>6 DEF Pop, ControlOf
  <2>2. QED
    BY <1>6, <2>1 DEF Pop, FetchFns, Q!Fetch, Q!Settle
<1>7. ASSUME NEW t \in Threads, FetchAllTask(t)
      PROVE  Q!FetchAll(t)
  <2>1. ret[t] = "none"
    BY <1>1, <1>7 DEF FetchAllTask, ControlOf
  <2>2. QED
    BY <1>7, <2>1 DEF FetchAllTask, Q!FetchAll, Q!Settle
<1>8. ASSUME NEW t \in Threads, Unlock(t)
      PROVE  Q!Return(t)
  BY <1>1, <1>8 DEF Unlock, ControlOf, Q!Return
<1>9. ASSUME NEW t \in Threads, SetInterrupted(t)
      PROVE  Q!Interrupt
  BY <1>9 DEF SetInterrupted, Q!Interrupt
<1>10. ASSUME NEW t \in Threads, Notify(t)
       PROVE  Q!EndInterrupt(t)
  <2>1. ret[t] = "none" /\ interrupted
    BY <1>1, <1>10 DEF Notify, ControlOf
  <2>2. QED
    BY <1>10, <2>1 DEF Notify, Q!EndInterrupt, Q!Settle
<1>11. ASSUME NEW t \in Threads,
              Sleep(t) \/ WaitForSingleObject(t) \/ TimeOut(t) \/ SetEvent(t)
       PROVE  UNCHANGED Q!queueVars
  BY <1>11 DEF Sleep, WaitForSingleObject, TimeOut, SetEvent, Q!queueVars
<1>12. CASE UNCHANGED vars
  BY <1>12 DEF vars, Q!queueVars
<1>13. ASSUME NEW t \in Threads, Step(t) \/ TimeOut(t)
       PROVE  [Q!QueueNext]_(Q!queueVars)
  BY <1>3, <1>4, <1>5, <1>6, <1>7, <1>8, <1>9, <1>10, <1>11, <1>13 DEF Step, Q!QueueNext
<1>14. ASSUME NEW t \in Threads, NEW f \in Fns, Call(t, f)
       PROVE  Q!QueueNext
  BY <1>2, <1>14 DEF Q!QueueNext, Fns, AddFns, FetchFns, InterruptFns
<1>15. QED
  BY <1>12, <1>13, <1>14 DEF Next

\* Callers of AddTask, AddTaskA, FetchTask, FetchTaskA and FetchAllTask see one
\* first-in first-out queue of at most capacity_ tasks: a task is given to one
\* caller, in its turn, and a call that was interrupted or timed out left no
\* trace.  (block_task_queue.h)
THEOREM QueueImplementsAbstract == Spec => ImplementsQueue
<1>1. Init => Q!QueueInit
  BY DEF Init, Q!QueueInit
<1>2. QED
  BY <1>1, StepRefines, QueueInvAlways, PTL DEF Spec, ImplementsQueue, Q!QueueSpec

-----------------------------------------------------------------------------
(* No lost wake-up, in either direction.                                    *)

\* A thread in SleepConditionVariableXp is counted.
LEMMA AsleepIsCounted ==
  ASSUME QueueInv, NEW w \in Threads
  PROVE  /\ not_full.pos[w] # "out" => not_full.wait_count_ > 0
         /\ not_empty.pos[w] # "out" => not_empty.wait_count_ > 0
<1>1. IsFiniteSet(Threads)
  BY QueueAssumption
<1>2. ASSUME NEW W \in SUBSET Threads, w \in W
      PROVE  Cardinality(W) \in Nat /\ Cardinality(W) > 0
  <2>1. IsFiniteSet(W)
    BY <1>1, FS_Subset
  <2>2. QED
    BY <1>2, <2>1, FS_CardinalityType, FS_EmptySet
<1>3. not_full.pos[w] # "out" => not_full.wait_count_ > 0
  BY <1>2 DEF QueueInv, NotFullInv, NotFull!CountsWaiters, NotFull!Inside,
    NotFull!Cardinality, Cardinality
<1>4. not_empty.pos[w] # "out" => not_empty.wait_count_ > 0
  BY <1>2 DEF QueueInv, NotEmptyInv, NotEmpty!CountsWaiters, NotEmpty!Inside,
    NotEmpty!Cardinality, Cardinality
<1>5. QED
  BY <1>3, <1>4

\* Somebody will look at the tasks: the conclusion of NoTaskStranded.
WorkerComing ==
  \/ not_empty.event_
  \/ \E t \in Threads : not_empty.count[t] > 0
  \/ \E w \in Fetchers : Awake(w)

LEMMA FetcherIsWorker ==
  ASSUME QueueInv, NEW t \in Threads, fn[t] \in FetchFns
  PROVE  t \in Fetchers
  BY FnsDisjoint DEF QueueInv, Control, ControlOf, Fetchers

LEMMA WorkerComingStep ==
  ASSUME QueueInv, [Next]_vars, task_queue_ # <<>> => WorkerComing,
         task_queue_' # <<>>, Fetchers # {}
  PROVE  WorkerComing'
<1>1. /\ not_empty.pos \in [Threads -> NotEmpty!Position]
      /\ not_empty.count \in [Threads -> Nat] /\ NotEmpty!CvTypeOK
  BY DEF QueueInv, TypeOK, NotEmpty!CvTypeOK
<1>2. Fetchers \subseteq Threads
  BY DEF Fetchers
<1>3. ASSUME task_queue_' = task_queue_, not_empty' = not_empty
      PROVE  WorkerComing'
  BY <1>3 DEF WorkerComing, Awake
<1>4. ASSUME NEW t \in Threads, t \in Fetchers,
             not_empty'.pos[t] \in {"out", "signalled", "timedout"}
      PROVE  WorkerComing'
  BY <1>4 DEF WorkerComing, Awake
<1>5. ASSUME NEW t \in Threads, NotEmpty!WaitForSingleObject(t), task_queue_' = task_queue_
      PROVE  WorkerComing'
  <2>1. not_empty.pos[t] = "counted" /\ not_empty'.count = not_empty.count
    BY <1>1, <1>5, NotEmptyEffects
  <2>2. t \in Fetchers
    BY <2>1, FetcherIsWorker DEF QueueInv, Control, ControlOf
  <2>3. CASE not_empty.event_ /\ not_empty'.pos = [not_empty.pos EXCEPT ![t] = "signalled"]
    BY <1>1, <1>4, <2>2, <2>3
  <2>4. CASE /\ ~not_empty.event_ /\ not_empty'.event_ = not_empty.event_
             /\ not_empty'.pos = [not_empty.pos EXCEPT ![t] = "blocked"]
    BY <1>1, <1>2, <1>5, <2>1, <2>4 DEF WorkerComing, Awake
  <2>5. QED
    BY <1>1, <1>5, <2>3, <2>4, NotEmptyEffects
<1>6. ASSUME NEW t \in Threads, NotEmpty!TimeOut(t) \/ NotEmpty!Resume(t)
      PROVE  WorkerComing'
  <2>1. not_empty.pos[t] # "out" /\ not_empty'.pos[t] \in {"out", "timedout"}
    BY <1>1, <1>6, NotEmptyEffects
  <2>2. QED
    BY <1>4, <2>1, FetcherIsWorker DEF QueueInv, Control, ControlOf
<1>7. ASSUME NEW t \in Threads, NotEmpty!SetEvent(t)
      PROVE  WorkerComing'
  <2>1. CASE not_empty'.event_ = TRUE
    BY <2>1 DEF WorkerComing
  <2>2. ASSUME NEW b \in Threads, not_empty.pos[b] = "blocked",
               not_empty'.pos = [not_empty.pos EXCEPT ![b] = "signalled"]
        PROVE  WorkerComing'
    BY <1>1, <1>4, <2>2, FetcherIsWorker DEF QueueInv, Control, ControlOf
  <2>3. QED
    BY <1>1, <1>7, <2>1, <2>2, NotEmptyEffects
<1>8. ASSUME NEW t \in Threads, NotEmpty!NotifyAll(t)
      PROVE  WorkerComing'
  <2>1. PICK w \in Fetchers : TRUE
    OBVIOUS
  <2>2. /\ not_empty'.count = [not_empty.count EXCEPT ![t] = not_empty.wait_count_]
        /\ not_empty'.pos = not_empty.pos
    BY <1>1, <1>8, NotEmptyEffects
  <2>3. CASE not_empty.pos[w] = "out"
    BY <1>2, <1>4, <2>1, <2>2, <2>3
  <2>4. CASE not_empty.pos[w] # "out"
    <3>1. not_empty'.count[t] > 0
      BY <1>1, <1>2, <2>2, <2>4, AsleepIsCounted
    <3>2. QED
      BY <3>1 DEF WorkerComing
  <2>5. QED
    BY <2>3, <2>4
<1>9. ASSUME NEW t \in Threads, Pop(t)
      PROVE  WorkerComing'
  <2>1. /\ fn[t] \in FetchFns /\ not_empty.pos[t] = "out" /\ not_empty' = not_empty
    BY <1>9, FnsDisjoint DEF Pop, QueueInv, Control, ControlOf
  <2>2. QED
    BY <1>4, <2>1, FetcherIsWorker
<1>10. ASSUME NEW t \in Threads, Sleep(t) \/ WaitForSingleObject(t) \/ TimeOut(t)
                                 \/ SetEvent(t) \/ WakeUp(t) \/ Notify(t)
       PROVE  WorkerComing'
  <2>1. task_queue_' = task_queue_
    BY <1>10 DEF Sleep, WaitForSingleObject, TimeOut, SetEvent, WakeUp, Notify
  <2>2. CASE Sleep(t)
    <3>1. fn[t] \notin FetchFns
      BY <2>1, <2>2, FnsDisjoint DEF Sleep, QueueInv, Control, ControlOf
    <3>2. QED
      BY <1>3, <2>1, <2>2, <3>1 DEF Sleep
  <2>3. QED
    BY <1>3, <1>5, <1>6, <1>7, <1>8, <1>10, <2>1, <2>2
    DEF WaitForSingleObject, TimeOut, SetEvent, WakeUp, Notify
<1>11. ASSUME NEW t \in Threads, BeginCall(t) \/ Unlock(t) \/ SetInterrupted(t)
                                  \/ \E f \in Fns : Call(t, f)
       PROVE  WorkerComing'
  <2>1. task_queue_' = task_queue_ /\ not_empty' = not_empty
    BY <1>11 DEF BeginCall, Unlock, SetInterrupted, Call, Lock, Release,
      NotEmpty!Lock, NotEmpty!Unlock
  <2>2. QED
    BY <1>3, <2>1
<1>12. CASE UNCHANGED vars
  BY <1>3, <1>12 DEF vars
<1>13. ASSUME NEW t \in Threads, Push(t) PROVE WorkerComing'
  BY <1>8, <1>13 DEF Push
<1>14. ASSUME NEW t \in Threads, FetchAllTask(t) PROVE FALSE
  BY <1>14 DEF FetchAllTask
<1>15. QED
  BY <1>9, <1>10, <1>11, <1>12, <1>13, <1>14 DEF Next, Step

\* The last worker never falls asleep on a task, though the wake-ups of several
\* AddTasks may merge in the event.  (AddTask calls NotifyAll before it gives up
\* mtx_, and FetchTask sleeps only when it saw an empty queue under mtx_)
THEOREM NoTaskIsStranded == Spec => []NoTaskStranded
<1> DEFINE Comes == (task_queue_ # <<>> /\ Fetchers # {}) => WorkerComing
<1>1. Init => Comes
  BY DEF Init
<1>2. Comes /\ QueueInv /\ [Next]_vars => Comes'
  BY WorkerComingStep DEF Fetchers
<1>3. Comes => NoTaskStranded
  BY DEF WorkerComing, NoTaskStranded
<1>4. QED
  BY <1>1, <1>2, <1>3, QueueInvAlways, PTL DEF Spec

\* Somebody will look at the room: the conclusion of NoProducerStranded.
ProducerComing ==
  \/ not_full.event_
  \/ \E t \in Threads : not_full.count[t] > 0
  \/ \E t \in Threads : pc[t] = "push" \/ not_full.pos[t] \in {"signalled", "timedout"}

ProducersWait ==
  capacity_ > 0 /\ task_queue_ = <<>> /\ ~interrupted /\ NotFull!Asleep # {}

LEMMA ProducerComingStep ==
  ASSUME QueueInv, [Next]_vars, ProducersWait => ProducerComing, ProducersWait',
         NobodyDrains
  PROVE  ProducerComing'
<1>1. /\ not_full.pos \in [Threads -> NotFull!Position]
      /\ not_full.count \in [Threads -> Nat] /\ NotFull!CvTypeOK
      /\ pc \in [Threads -> Labels]
      /\ \A t \in Threads : ControlOf(t)
  BY DEF QueueInv, TypeOK, NotFull!CvTypeOK, Control
<1>2. ASSUME task_queue_' = task_queue_, not_full' = not_full,
             interrupted => interrupted',
             \A t \in Threads : pc[t] = "push" => pc'[t] = "push"
      PROVE  ProducerComing'
  BY <1>2 DEF ProducersWait, ProducerComing, NotFull!Asleep
<1>3. ASSUME NEW t \in Threads, not_full'.pos[t] \in {"signalled", "timedout"}
      PROVE  ProducerComing'
  BY <1>3 DEF ProducerComing
<1>4. ASSUME NEW t \in Threads, NotFull!WaitForSingleObject(t),
             UNCHANGED <<task_queue_, interrupted, pc>>
      PROVE  ProducerComing'
  <2>1. not_full.pos[t] = "counted" /\ not_full'.count = not_full.count
    BY <1>1, <1>4, NotFullEffects
  <2>2. CASE not_full.event_ /\ not_full'.pos = [not_full.pos EXCEPT ![t] = "signalled"]
    BY <1>1, <1>3, <2>2
  <2>3. CASE /\ ~not_full.event_ /\ not_full'.event_ = not_full.event_
             /\ not_full'.pos = [not_full.pos EXCEPT ![t] = "blocked"]
    <3>1. NotFull!Asleep # {}
      BY <2>1 DEF NotFull!Asleep
    <3>2. QED
      BY <1>1, <1>4, <2>1, <2>3, <3>1 DEF ProducersWait, ProducerComing
  <2>4. QED
    BY <1>1, <1>4, <2>2, <2>3, NotFullEffects
<1>5. ASSUME NEW t \in Threads, NotFull!TimeOut(t)
      PROVE  ProducerComing'
  <2>1. not_full'.pos[t] = "timedout"
    BY <1>1, <1>5, NotFullEffects
  <2>2. QED
    BY <1>3, <2>1
<1>6. ASSUME NEW t \in Threads, NotFull!SetEvent(t)
      PROVE  ProducerComing'
  <2>1. CASE not_full'.event_ = TRUE
    BY <2>1 DEF ProducerComing
  <2>2. ASSUME NEW b \in Threads, not_full'.pos = [not_full.pos EXCEPT ![b] = "signalled"]
        PROVE  ProducerComing'
    BY <1>1, <1>3, <2>2
  <2>3. QED
    BY <1>1, <1>6, <2>1, <2>2, NotFullEffects
<1>7. ASSUME NEW t \in Threads, NotFull!NotifyAll(t)
      PROVE  ProducerComing'
  <2>1. /\ not_full'.count = [not_full.count EXCEPT ![t] = not_full.wait_count_]
        /\ not_full'.pos = not_full.pos
    BY <1>1, <1>7, NotFullEffects
  <2>2. PICK w \in Threads : not_full.pos[w] # "out"
    BY <2>1 DEF ProducersWait, NotFull!Asleep
  <2>3. not_full'.count[t] > 0
    BY <1>1, <2>1, <2>2, AsleepIsCounted
  <2>4. QED
    BY <2>3 DEF ProducerComing
<1>8. ASSUME NEW t \in Threads, NotFull!Resume(t), WakeUp(t)
      PROVE  ProducerComing'
  <2>1. task_queue_' = task_queue_ /\ interrupted' = interrupted
    BY <1>8 DEF WakeUp
  <2>2. task_queue_ = <<>> /\ ~interrupted /\ capacity_ > 0 /\ Len(task_queue_) = 0
    BY <2>1 DEF ProducersWait
  <2>3. fn[t] \in AddFns
    BY <1>1, <1>8, NotFullEffects DEF ControlOf
  <2>4. ~Interrupte(t) /\ Predicate(t)
    BY <2>2, <2>3 DEF Interrupte, Predicate
  <2>5. pc' = [pc EXCEPT ![t] = "push"]
    BY <1>8, <2>3, <2>4 DEF WakeUp, Evaluate, Goto
  <2>6. QED
    BY <1>1, <2>5 DEF ProducerComing
<1>9. ASSUME NEW t \in Threads, Sleep(t) PROVE ProducerComing'
  <2>1. CASE fn[t] \in AddFns
    <3>1. capacity_ > 0 /\ Len(task_queue_) >= capacity_
      BY <1>1, <1>9, <2>1, FnsDisjoint DEF Sleep, ControlOf
    <3>2. task_queue_ = <<>> /\ Len(task_queue_) = 0
      BY <1>9 DEF Sleep, ProducersWait
    <3>3. QED
      BY <3>1, <3>2, QueueAssumption
  <2>2. CASE fn[t] \notin AddFns
    BY <1>1, <1>2, <1>9, <2>2 DEF Sleep, Goto
  <2>3. QED
    BY <2>1, <2>2
<1>10. ASSUME NEW t \in Threads, Push(t) PROVE ProducerComing'
  <2>1. task_queue_ \in Seq(Task) /\ task_queue_' = Append(task_queue_, task[t])
        /\ task[t] \in Task
    BY <1>1, <1>10 DEF Push, QueueInv, TypeOK, ControlOf
  <2>2. task_queue_' # <<>>
    BY <2>1
  <2>3. QED
    BY <2>2 DEF ProducersWait
<1>11. ASSUME NEW t \in Threads, FetchAllTask(t) PROVE FALSE
  BY <1>1, <1>11 DEF FetchAllTask, ControlOf, NobodyDrains
<1>12. ASSUME NEW t \in Threads, SetInterrupted(t) PROVE FALSE
  BY <1>12 DEF SetInterrupted, ProducersWait
<1>13. ASSUME NEW t \in Threads, NEW f \in Fns, Call(t, f) PROVE ProducerComing'
  BY <1>1, <1>2, <1>13 DEF Call, Idle, Goto
<1>14. ASSUME NEW t \in Threads, BeginCall(t) PROVE ProducerComing'
  <2>1. /\ \A u \in Threads \ {t} : pc'[u] = pc[u]
        /\ pc[t] = "call" /\ not_full' = not_full
        /\ UNCHANGED <<task_queue_, interrupted>>
    BY <1>1, <1>14 DEF BeginCall, Evaluate, Goto, Lock, NotFull!Lock
  <2>2. QED
    BY <1>2, <2>1
<1>15. ASSUME NEW t \in Threads, Unlock(t) PROVE ProducerComing'
  BY <1>1, <1>2, <1>15 DEF Unlock, Goto, Release, NotFull!Unlock
<1>16. ASSUME NEW t \in Threads, WakeUp(t), not_full' = not_full PROVE ProducerComing'
  <2>1. /\ \A u \in Threads \ {t} : pc'[u] = pc[u]
        /\ pc[t] = "asleep" /\ UNCHANGED <<task_queue_, interrupted>>
    BY <1>1, <1>16 DEF WakeUp, Evaluate, Goto
  <2>2. QED
    BY <1>2, <1>16, <2>1
<1>17. ASSUME NEW t \in Threads, Notify(t) PROVE ProducerComing'
  <2>1. CASE not_full' = not_full
    BY <1>1, <1>2, <1>17, <2>1 DEF Notify, Goto
  <2>2. QED
    BY <1>7, <1>17, <2>1 DEF Notify
<1>18. ASSUME NEW t \in Threads, WaitForSingleObject(t) \/ TimeOut(t) \/ SetEvent(t)
       PROVE  ProducerComing'
  BY <1>2, <1>4, <1>5, <1>6, <1>18 DEF WaitForSingleObject, TimeOut, SetEvent
<1>19. CASE UNCHANGED vars
  BY <1>2, <1>19 DEF vars
<1>20. ASSUME NEW t \in Threads, Pop(t) PROVE ProducerComing'
  BY <1>7, <1>20 DEF Pop
<1>21. QED
  BY <1>8, <1>9, <1>10, <1>11, <1>12, <1>13, <1>14, <1>15, <1>16, <1>17, <1>18, <1>19,
    <1>20 DEF Next, Step, WakeUp

\* A producer that waits for room never sleeps on an empty queue for good.
\* (FetchTask calls NotifyAll after every pop_front)
THEOREM NoProducerIsStranded == Spec => []NoProducerStranded
<1> DEFINE Comes == ProducersWait /\ NobodyDrains => ProducerComing
<1>1. Init => Comes
  BY DEF Init, ProducersWait, NotFull!Asleep, NotFull!CvInit,
    NotFull!InitializeConditionVariableXp
<1>2. Comes /\ QueueInv /\ [Next]_vars => Comes'
  BY ProducerComingStep DEF NobodyDrains
<1>3. Comes => NoProducerStranded
  BY DEF ProducersWait, ProducerComing, NoProducerStranded
<1>4. QED
  BY <1>1, <1>2, <1>3, QueueInvAlways, PTL DEF Spec

=============================================================================
