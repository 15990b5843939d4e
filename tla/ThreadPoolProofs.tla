--------------------------- MODULE ThreadPoolProofs ---------------------------
(***************************************************************************)
(* Proofs about ThreadPool, for any number of workers, callers and tasks   *)
(* and whatever the serial tasks wait for.  The argument: a task has one   *)
(* place, its AddTask until it is pushed, then the queue, then what one    *)
(* worker got; what a worker got has run, but for the task that it is      *)
(* about to run; and what was accepted when Quit set interrupted_state_    *)
(* stays in the queue or with a worker, so a worker that finds the queue   *)
(* empty after that has left none of it behind.                            *)
(***************************************************************************)
EXTENDS ThreadPool, FiniteSetTheorems, TLAPS

Holding == {"push", "pop", "sleep", "unlock"}

\* Where a thread is in the queue, in which function, and what it relies on.
ControlOf(t) ==
  /\ fn[t] \in Calls[t] \cup {"none"}
  /\ pc[t] = "idle" <=> fn[t] = "none"
  /\ fn[t] = "AddTask" => pc[t] \in {"call", "push", "unlock"} /\ at[t] = "adding"
  /\ fn[t] = "InterruptFetch" => pc[t] \in {"interrupt", "notify"}
  /\ fn[t] \in {"FetchTask", "FetchTaskA"} =>
       pc[t] \in {"call", "pop", "sleep", "asleep", "unlock"} /\ at[t] \in {"fetching", "draining"}
  /\ pc[t] \in Holding => owner = t
  /\ pc[t] = "pop" => task_queue_ # <<>>
  /\ pc[t] \in {"call", "pop", "sleep", "asleep"} => ret[t] = "none"

PoolTypes ==
  /\ task_queue_ \in Seq(Nat)
  /\ got \in [Threads -> Seq(Nat)]
  /\ made \in Nat
  /\ task \in [Threads -> Nat]
  /\ pc = [t \in Threads |-> pc[t]]
  /\ fn = [t \in Threads |-> fn[t]]
  /\ ret = [t \in Threads |-> ret[t]]
  /\ at = [t \in Threads |-> at[t]]
  /\ interrupted \in BOOLEAN

QueueControl == \A t \in Threads : ControlOf(t)

LEMMA CallsOfThreads ==
  ASSUME NEW t \in Threads
  PROVE  /\ Calls[t] \subseteq {"FetchTask", "FetchTaskA", "AddTask", "InterruptFetch"}
         /\ t \in Workers => Calls[t] = {"FetchTask", "FetchTaskA"}
         /\ t \notin Workers => "FetchTask" \notin Calls[t] /\ "FetchTaskA" \notin Calls[t]
<1>1. CASE t \in Workers
  BY <1>1, PoolAssumption DEF Calls
<1>2. CASE t \in Clients
  BY <1>2, PoolAssumption DEF Calls
<1>3. CASE t \in Quitters
  BY <1>3, PoolAssumption DEF Calls
<1> QED
  BY <1>1, <1>2, <1>3, PoolAssumption

-----------------------------------------------------------------------------
(* The steps of the queue, and the lock *)

LEMMA Locks ==
  ASSUME NEW t \in Threads
  PROVE  /\ Queue!Lock(t) => owner = NoThread /\ owner' = t
         /\ Queue!Release(t) => owner = t /\ owner' = NoThread
         /\ Queue!WaitForSingleObject(t) \/ Queue!TimeOut(t) \/ Queue!SetEvent(t)
              => UNCHANGED <<owner, task_queue_, interrupted, made, fn, task, pc, got, ret>>
         /\ Queue!Sleep(t) => owner = t /\ owner' = NoThread
         /\ Queue!WakeUp(t) => owner = NoThread /\ owner' = t
         /\ Queue!Push(t) \/ Queue!Pop(t) \/ Queue!Notify(t) => owner' = owner
BY DEF Queue!Lock, Queue!Release, Queue!WaitForSingleObject, Queue!TimeOut, Queue!SetEvent,
   Queue!Sleep, Queue!WakeUp, Queue!Push, Queue!Pop, Queue!Notify,
   Queue!NotFull!Lock, Queue!NotFull!Unlock, Queue!NotFull!WaitForSingleObject,
   Queue!NotFull!TimeOut, Queue!NotFull!SetEvent, Queue!NotFull!Sleep, Queue!NotFull!Resume,
   Queue!NotFull!NotifyAll,
   Queue!NotEmpty!Lock, Queue!NotEmpty!Unlock, Queue!NotEmpty!WaitForSingleObject,
   Queue!NotEmpty!TimeOut, Queue!NotEmpty!SetEvent, Queue!NotEmpty!Sleep,
   Queue!NotEmpty!Resume, Queue!NotEmpty!NotifyAll

\* What one evaluation of the predicate does.
LEMMA Evaluation ==
  ASSUME PoolTypes, NEW t \in Threads, NEW late, Queue!Evaluate(t, late),
         fn[t] \in {"FetchTask", "FetchTaskA"}
  PROVE  \E label \in {"unlock", "pop", "sleep"} :
           /\ pc' = [pc EXCEPT ![t] = label]
           /\ label = "pop" => Len(task_queue_) > 0
           /\ \/ ret' = ret
              \/ \E r \in {"Interrupted", "TimeOut"} :
                   label = "unlock" /\ ret' = [ret EXCEPT ![t] = r]
BY DEF Queue!Evaluate, Queue!Predicate, Queue!AddFns, Queue!Goto

-----------------------------------------------------------------------------
(* The control of a thread in the functions of the queue *)

\* A thread that has only a lock to lose keeps its control.
Undisturbed(u) ==
  /\ UNCHANGED <<pc[u], fn[u], ret[u], at[u]>>
  /\ owner = u => owner' = u
  /\ pc[u] = "pop" => task_queue_' # <<>>

LEMMA KeepsControl ==
  ASSUME NEW u, ControlOf(u), Undisturbed(u)
  PROVE  ControlOf(u)'
BY DEF ControlOf, Undisturbed, Holding

LEMMA InQueueControl ==
  ASSUME PoolTypes, QueueControl, NEW t \in Threads, Queue!Step(t) \/ Queue!TimeOut(t),
         at' = at
  PROVE  QueueControl'
<1> USE DEF PoolTypes
<1>0. \A u \in Threads : ControlOf(u) /\ u # NoThread
  BY PoolAssumption DEF QueueControl
<1>a. ASSUME NEW u \in Threads, u # t PROVE ControlOf(u)'
  <2>1. UNCHANGED <<pc[u], fn[u], ret[u], at[u]>>
    BY <1>a DEF Queue!Step, Queue!BeginCall, Queue!Sleep, Queue!WaitForSingleObject,
      Queue!WakeUp, Queue!Push, Queue!Pop, Queue!Unlock, Queue!FetchAllTask,
      Queue!SetInterrupted, Queue!Notify, Queue!SetEvent, Queue!TimeOut, Queue!Evaluate,
      Queue!Goto
  <2>2. owner = u => owner' = u
    BY <1>0, <1>a, Locks DEF Queue!Step, Queue!BeginCall, Queue!Unlock, Queue!FetchAllTask,
      Queue!SetInterrupted
  <2>3. pc[u] = "pop" => task_queue_' # <<>>
    <3>1. CASE UNCHANGED task_queue_
      BY <1>0, <3>1 DEF ControlOf
    <3>2. CASE Queue!Push(t)
      <4>1. task_queue_' = Append(task_queue_, task[t]) /\ task[t] \in Nat
        BY <3>2 DEF Queue!Push
      <4> QED
        BY <4>1
    <3>3. CASE Queue!Pop(t)
      BY <1>0, <1>a, <3>3 DEF Queue!Pop, ControlOf, Holding
    <3>4. CASE Queue!FetchAllTask(t)
      BY <1>0, <3>4, CallsOfThreads DEF Queue!FetchAllTask, ControlOf
    <3> QED
      BY <3>1, <3>2, <3>3, <3>4 DEF Queue!Step, Queue!BeginCall, Queue!Sleep,
        Queue!WaitForSingleObject, Queue!WakeUp, Queue!Unlock, Queue!SetInterrupted,
        Queue!Notify, Queue!SetEvent, Queue!TimeOut
  <2> QED
    BY <1>0, <2>1, <2>2, <2>3, KeepsControl DEF Undisturbed
<1>b. SUFFICES ControlOf(t)'
  BY <1>a DEF QueueControl
<1>c. /\ fn[t] \in Calls[t] \cup {"none"}
      /\ Calls[t] \subseteq {"FetchTask", "FetchTaskA", "AddTask", "InterruptFetch"}
  BY <1>0, CallsOfThreads DEF ControlOf
<1>d. Len(task_queue_) > 0 => task_queue_ # <<>>
  OBVIOUS
<1>e. ASSUME NEW late, Queue!Evaluate(t, late), fn[t] \in {"FetchTask", "FetchTaskA"},
             ret[t] = "none", owner' = t, UNCHANGED <<fn, task_queue_>>
      PROVE  ControlOf(t)'
  <2>1. PICK label \in {"unlock", "pop", "sleep"} :
          /\ pc' = [pc EXCEPT ![t] = label]
          /\ label = "pop" => Len(task_queue_) > 0
          /\ \/ ret' = ret
             \/ \E r \in {"Interrupted", "TimeOut"} :
                  label = "unlock" /\ ret' = [ret EXCEPT ![t] = r]
    BY <1>e, Evaluation
  <2>2. /\ pc'[t] = label /\ fn'[t] = fn[t] /\ at'[t] = at[t]
        /\ label \in {"pop", "sleep"} => ret'[t] = "none"
    BY <1>e, <2>1
  <2> QED
    BY <1>0, <1>d, <1>e, <2>1, <2>2 DEF ControlOf, Holding
<1>1. CASE Queue!BeginCall(t)
  <2>1. /\ pc[t] = "call" /\ owner' = t /\ ret[t] = "none"
        /\ UNCHANGED <<task_queue_, fn>>
    BY <1>0, <1>1, Locks DEF Queue!BeginCall, ControlOf
  <2>2. CASE fn[t] \in {"FetchTask", "FetchTaskA"}
    <3>1. \E late \in Queue!MayBeLate(t) : Queue!Evaluate(t, late)
      BY <1>1, <2>2 DEF Queue!BeginCall, Queue!AddFns
    <3> QED
      BY <1>e, <2>1, <2>2, <3>1
  <2>3. CASE fn[t] = "AddTask"
    <3>1. pc' = [pc EXCEPT ![t] = "push"] /\ ret' = ret
      BY <1>1, <2>3 DEF Queue!BeginCall, Queue!FetchFns, Queue!Goto
    <3> QED
      BY <1>0, <2>1, <2>3, <3>1 DEF ControlOf, Holding
  <2> QED
    BY <1>0, <1>c, <2>1, <2>2, <2>3 DEF ControlOf
<1>2. CASE Queue!Sleep(t)
  <2>1. /\ pc[t] = "sleep" /\ pc' = [pc EXCEPT ![t] = "asleep"]
        /\ UNCHANGED <<fn, ret>>
    BY <1>2 DEF Queue!Sleep, Queue!Goto
  <2> QED
    BY <1>0, <2>1 DEF ControlOf, Holding
<1>3. CASE Queue!WaitForSingleObject(t) \/ Queue!TimeOut(t) \/ Queue!SetEvent(t)
  BY <1>0, <1>3, Locks, KeepsControl DEF Undisturbed, ControlOf
<1>4. CASE Queue!WakeUp(t)
  <2>1. /\ pc[t] = "asleep" /\ owner' = t /\ UNCHANGED <<task_queue_, fn>>
        /\ \E late \in Queue!LateAfterSleep(t) : Queue!Evaluate(t, late)
    BY <1>4, Locks DEF Queue!WakeUp
  <2>2. fn[t] \in {"FetchTask", "FetchTaskA"} /\ ret[t] = "none"
    BY <1>0, <1>c, <2>1 DEF ControlOf
  <2> QED
    BY <1>e, <2>1, <2>2
<1>5. CASE Queue!Push(t) \/ Queue!Pop(t)
  <2>1. /\ pc[t] \in {"push", "pop"} /\ pc' = [pc EXCEPT ![t] = "unlock"]
        /\ UNCHANGED <<fn, owner>>
    BY <1>5, Locks DEF Queue!Push, Queue!Pop, Queue!Goto
  <2>2. pc'[t] = "unlock" /\ owner' = t
    BY <1>0, <2>1 DEF ControlOf, Holding
  <2> QED
    BY <1>0, <2>1, <2>2 DEF ControlOf, Holding
<1>6. CASE Queue!Unlock(t) \/ Queue!Notify(t)
  <2>1. fn' = [fn EXCEPT ![t] = "none"] /\ pc' = [pc EXCEPT ![t] = "idle"]
    BY <1>6 DEF Queue!Unlock, Queue!Notify, Queue!Goto
  <2> QED
    BY <2>1 DEF ControlOf, Holding
<1>7. CASE Queue!FetchAllTask(t)
  BY <1>c, <1>7 DEF Queue!FetchAllTask
<1>8. CASE Queue!SetInterrupted(t)
  <2>1. /\ pc[t] = "interrupt" /\ pc' = [pc EXCEPT ![t] = "notify"]
        /\ UNCHANGED <<fn, ret>>
    BY <1>8 DEF Queue!SetInterrupted, Queue!Goto
  <2> QED
    BY <1>0, <2>1 DEF ControlOf, Holding
<1> QED
  BY <1>1, <1>2, <1>3, <1>4, <1>5, <1>6, <1>7, <1>8 DEF Queue!Step

-----------------------------------------------------------------------------
(* The steps of the pool outside the queue *)

Fetches == {"FetchTask", "FetchTaskA"}
FetchLabels == {"fetching", "draining"}
Gone == {"leave", "exited"}

CallsQueue(t) ==
  \E f \in Fetches \cup {"AddTask", "InterruptFetch"}, label \in FetchLabels \cup {"adding", "quitting"} :
    /\ CallQueue(t, f, label)
    /\ f = "AddTask" => label = "adding"
    /\ f \in Fetches => label \in FetchLabels
    /\ at[t] \in FetchLabels => ret[t] = "TimeOut"

GoesOn(t) ==
  \E label :
    /\ UNCHANGED <<queueVars, discard_when_quit, accepted>>
    /\ at' = [at EXCEPT ![t] = label]
    /\ fn[t] \in {"none", "InterruptFetch"}
    /\ over \subseteq over'
    /\ at[t] \in FetchLabels /\ ret[t] = "Success" => Running(t) \in over'
    /\ label \in Gone =>
         at[t] = "leave" \/ (interrupted /\ (discard_when_quit \/ Len(task_queue_) = 0))

\* A stutter, or a step of the serial tasks that moves no thread.
Beside ==
  /\ UNCHANGED <<queueVars, at, discard_when_quit, latch, accepted>>
  /\ over \subseteq over'

LEMMA PoolSteps ==
  ASSUME PoolTypes, QueueControl, [Next]_vars
  PROVE  \/ Beside
         \/ \E t \in Threads : InQueue(t) \/ TimeOut(t) \/ CallsQueue(t) \/ GoesOn(t)
<1> USE DEF PoolTypes
<1>0. \A t \in Threads : ControlOf(t)
  BY DEF QueueControl
<1>1. ASSUME NEW t \in Threads, Fetch(t) \/ DrainTimeOut(t) \/ AddTask(t) \/ Quit(t)
      PROVE  CallsQueue(t)
  BY <1>1 DEF Fetch, DrainTimeOut, AddTask, Quit, CallsQueue, Fetches, FetchLabels, Returned
<1>2. ASSUME NEW t \in Threads, Drain(t)
      PROVE  CallsQueue(t)
  BY <1>2 DEF Drain, CallsQueue, Fetches, FetchLabels
<1>3. ASSUME NEW t \in Threads, WaitA(t)
      PROVE  CallsQueue(t) \/ GoesOn(t)
  BY <1>3 DEF WaitA, CallsQueue, GoesOn, Fetches, FetchLabels, Gone, Returned, Control, Goto,
    serialVars
<1>4. ASSUME NEW t \in Threads,
             EndAdd(t) \/ Wait(t) \/ AWaitEndless(t) \/ Join(t) \/ CheckAdd(t)
      PROVE  GoesOn(t)
  <2>1. /\ fn[t] \in {"none", "InterruptFetch"}
        /\ at[t] \in {"adding", "quitting", "endless", "join", "checkadd"}
    BY <1>0, <1>4, CallsOfThreads DEF EndAdd, Wait, AWaitEndless, Join, CheckAdd, Returned,
      ControlOf
  <2>2. \E label \in {"checkadd", "join", "joined", "add"} : Control(t, label)
    BY <1>4 DEF EndAdd, Wait, AWaitEndless, Join, CheckAdd
  <2> QED
    BY <2>1, <2>2 DEF GoesOn, Control, Goto, FetchLabels, Gone, serialVars
<1>5. ASSUME NEW t \in Threads, Run(t)
      PROVE  GoesOn(t)
  <2>1. /\ fn[t] = "none" /\ UNCHANGED <<queueVars, discard_when_quit, accepted>>
        /\ over' = over \cup {Running(t)}
        /\ at' = [at EXCEPT ![t] = IF at[t] = "fetching" THEN "check" ELSE "drain"]
    BY <1>5 DEF Run, HasFetched, RunTask, Returned, Goto
  <2>2. over \subseteq over' /\ Running(t) \in over'
    BY <2>1
  <2>3. \E label \in {"check", "drain"} : at' = [at EXCEPT ![t] = label]
    BY <2>1
  <2> QED
    BY <2>1, <2>2, <2>3 DEF GoesOn, Gone
<1>6. ASSUME NEW t \in Threads, Check(t)
      PROVE  GoesOn(t)
  <2>1. fn[t] \in {"none", "InterruptFetch"}
    BY <1>0, <1>6, CallsOfThreads DEF Check, AtCheck, Returned, ControlOf
  <2>2. at[t] \in FetchLabels => ret[t] # "Success"
    BY <1>6 DEF Check, AtCheck, Returned, FetchLabels
  <2> QED
    BY <1>6, <2>1, <2>2 DEF Check, TaskCountIs, GoesOn, Control, Goto, Gone, serialVars
<1>7. ASSUME NEW t \in Threads, Leave(t)
      PROVE  GoesOn(t)
  <2>1. fn[t] \in {"none", "InterruptFetch"}
    BY <1>0, <1>7, CallsOfThreads DEF Leave, ControlOf
  <2> QED
    BY <1>7, <2>1 DEF Leave, GoesOn, Goto, FetchLabels, Gone, serialVars
<1>8. ASSUME NEW t, WaitForPreTask(t) PROVE Beside
  BY <1>8 DEF WaitForPreTask, SleepBehind, Beside
<1>9. ASSUME NEW n, RunElsewhere(n) PROVE Beside
  BY <1>9 DEF RunElsewhere, SleepBehind, RunTask, Beside
<1>10. CASE UNCHANGED vars
  BY <1>10 DEF vars, poolVars, serialVars, Beside
<1> QED
  BY <1>1, <1>2, <1>3, <1>4, <1>5, <1>6, <1>7, <1>8, <1>9, <1>10 DEF Next, Step, Worker

LEMMA ControlStep ==
  ASSUME PoolTypes, QueueControl, [Next]_vars
  PROVE  QueueControl'
<1> USE DEF PoolTypes
<1>0. \A u \in Threads : ControlOf(u)
  BY DEF QueueControl
<1>1. CASE Beside
  BY <1>0, <1>1 DEF Beside, queueVars, QueueControl, ControlOf
<1>2. ASSUME NEW t \in Threads, InQueue(t) \/ TimeOut(t) PROVE QueueControl'
  BY <1>2, InQueueControl DEF InQueue, TimeOut, poolVars, serialVars
<1>3. ASSUME NEW t \in Threads, CallsQueue(t) PROVE QueueControl'
  <2>1. PICK f \in Fetches \cup {"AddTask", "InterruptFetch"},
             label \in FetchLabels \cup {"adding", "quitting"} :
          /\ CallQueue(t, f, label)
          /\ f = "AddTask" => label = "adding"
          /\ f \in Fetches => label \in FetchLabels
    BY <1>3 DEF CallsQueue
  <2>2. /\ f \in Calls[t]
        /\ fn' = [fn EXCEPT ![t] = f] /\ ret' = [ret EXCEPT ![t] = "none"]
        /\ at' = [at EXCEPT ![t] = label]
        /\ pc' = [pc EXCEPT ![t] = IF f \in Queue!InterruptFns THEN "interrupt" ELSE "call"]
        /\ UNCHANGED <<owner, task_queue_>>
    BY <2>1 DEF CallQueue, Queue!Call, Queue!Goto, Goto
  <2>3. ASSUME NEW u \in Threads, u # t PROVE ControlOf(u)'
    BY <1>0, <2>2, <2>3, KeepsControl DEF Undisturbed, ControlOf
  <2>4. ControlOf(t)'
    BY <2>1, <2>2 DEF ControlOf, Queue!InterruptFns, Fetches, FetchLabels, Holding
  <2> QED
    BY <2>3, <2>4 DEF QueueControl
<1>4. ASSUME NEW t \in Threads, GoesOn(t) PROVE QueueControl'
  <2>1. UNCHANGED queueVars /\ fn[t] \in {"none", "InterruptFetch"}
        /\ \A u \in Threads : u # t => at'[u] = at[u]
    BY <1>4 DEF GoesOn
  <2> QED
    BY <1>0, <2>1 DEF QueueControl, ControlOf, queueVars
<1> QED
  BY <1>1, <1>2, <1>3, <1>4, PoolSteps

-----------------------------------------------------------------------------
(* What the steps do to the tasks *)

\* The task of an AddTask that has not pushed it.
Unpushed(t) == fn[t] = "AddTask" /\ pc[t] \in {"call", "push"}

NothingMade == UNCHANGED <<made, task>> /\ \A u \in Threads : Unpushed(u)' => Unpushed(u)

Keeps ==
  /\ NothingMade
  /\ UNCHANGED <<task_queue_, got>>
  /\ \A u \in Threads : ret[u] = "Success" => ret'[u] = "Success"
  /\ \A u \in Workers : ret'[u] = "Success" => ret[u] = "Success"
  /\ interrupted' \in BOOLEAN /\ (interrupted => interrupted')

Pushes(t) ==
  /\ NothingMade
  /\ Unpushed(t) /\ ~Unpushed(t)'
  /\ task_queue_' = Append(task_queue_, task[t])
  /\ UNCHANGED <<got, interrupted>>
  /\ ret' = [ret EXCEPT ![t] = "Success"]

Pops(t) ==
  /\ NothingMade
  /\ t \in Workers /\ at[t] \in FetchLabels /\ ret[t] = "none"
  /\ task_queue_ # <<>> /\ task_queue_' = Tail(task_queue_)
  /\ got' = [got EXCEPT ![t] = Append(@, Head(task_queue_))]
  /\ ret' = [ret EXCEPT ![t] = "Success"]
  /\ UNCHANGED interrupted

LEMMA InQueueData ==
  ASSUME PoolTypes, QueueControl, NEW t \in Threads, Queue!Step(t) \/ Queue!TimeOut(t)
  PROVE  Keeps \/ Pushes(t) \/ Pops(t)
<1> USE DEF PoolTypes
<1>0. /\ \A u \in Threads : ControlOf(u)
      /\ fn[t] \in Calls[t] \cup {"none"}
      /\ Calls[t] \subseteq {"FetchTask", "FetchTaskA", "AddTask", "InterruptFetch"}
      /\ Workers \subseteq Threads
  BY CallsOfThreads, PoolAssumption DEF QueueControl, ControlOf
<1>a. ASSUME NEW late, Queue!Evaluate(t, late), fn[t] \in {"FetchTask", "FetchTaskA"},
             ret[t] = "none", UNCHANGED <<fn, task_queue_, made, task, got, interrupted>>
      PROVE  Keeps
  <2>1. \A u \in Threads : u # t => UNCHANGED <<pc[u], ret[u]>>
    BY <1>a, Evaluation
  <2>2. ret'[t] # "Success"
    BY <1>a, Evaluation
  <2> QED
    BY <1>0, <1>a, <2>1, <2>2 DEF Keeps, NothingMade, Unpushed
<1>1. CASE Queue!BeginCall(t)
  <2>1. /\ pc[t] = "call" /\ ret[t] = "none"
        /\ UNCHANGED <<task_queue_, fn, made, task, got, interrupted>>
    BY <1>0, <1>1 DEF Queue!BeginCall, ControlOf
  <2>2. CASE fn[t] \in {"FetchTask", "FetchTaskA"}
    <3>1. \E late \in Queue!MayBeLate(t) : Queue!Evaluate(t, late)
      BY <1>1, <2>2 DEF Queue!BeginCall, Queue!AddFns
    <3> QED
      BY <1>a, <2>1, <2>2, <3>1
  <2>3. CASE fn[t] = "AddTask"
    <3>1. pc' = [pc EXCEPT ![t] = "push"] /\ ret' = ret
      BY <1>1, <2>3 DEF Queue!BeginCall, Queue!FetchFns, Queue!Goto
    <3> QED
      BY <2>1, <2>3, <3>1 DEF Keeps, NothingMade, Unpushed
  <2> QED
    BY <1>0, <2>1, <2>2, <2>3 DEF ControlOf
<1>2. CASE Queue!Sleep(t)
  <2>1. /\ pc' = [pc EXCEPT ![t] = "asleep"]
        /\ UNCHANGED <<fn, ret, task_queue_, made, task, got, interrupted>>
    BY <1>2 DEF Queue!Sleep, Queue!Goto
  <2> QED
    BY <2>1 DEF Keeps, NothingMade, Unpushed
<1>3. CASE Queue!WaitForSingleObject(t) \/ Queue!TimeOut(t) \/ Queue!SetEvent(t)
  BY <1>3, Locks DEF Keeps, NothingMade, Unpushed
<1>4. CASE Queue!WakeUp(t)
  <2>1. /\ pc[t] = "asleep" /\ UNCHANGED <<task_queue_, fn, made, task, got, interrupted>>
        /\ \E late \in Queue!LateAfterSleep(t) : Queue!Evaluate(t, late)
    BY <1>4 DEF Queue!WakeUp
  <2>2. fn[t] \in {"FetchTask", "FetchTaskA"} /\ ret[t] = "none"
    BY <1>0, <2>1 DEF ControlOf
  <2> QED
    BY <1>a, <2>1, <2>2
<1>5. CASE Queue!Push(t)
  <2>1. /\ pc[t] = "push" /\ pc' = [pc EXCEPT ![t] = "unlock"]
        /\ task_queue_' = Append(task_queue_, task[t])
        /\ ret' = [ret EXCEPT ![t] = "Success"]
        /\ UNCHANGED <<fn, made, task, got, interrupted>>
    BY <1>5 DEF Queue!Push, Queue!Goto
  <2>2. fn[t] = "AddTask"
    BY <1>0, <2>1 DEF ControlOf
  <2> QED
    BY <2>1, <2>2 DEF Pushes, NothingMade, Unpushed
<1>6. CASE Queue!Pop(t)
  <2>1. /\ pc[t] = "pop" /\ pc' = [pc EXCEPT ![t] = "unlock"]
        /\ got' = [got EXCEPT ![t] = Append(@, Head(task_queue_))]
        /\ task_queue_' = Tail(task_queue_)
        /\ ret' = [ret EXCEPT ![t] = "Success"]
        /\ UNCHANGED <<fn, made, task, interrupted>>
    BY <1>6 DEF Queue!Pop, Queue!Goto
  <2>2. fn[t] \in {"FetchTask", "FetchTaskA"} /\ task_queue_ # <<>> /\ ret[t] = "none"
    BY <1>0, <2>1 DEF ControlOf
  <2>3. t \in Workers /\ at[t] \in FetchLabels
    BY <1>0, <2>2, CallsOfThreads DEF ControlOf, FetchLabels
  <2> QED
    BY <2>1, <2>2, <2>3 DEF Pops, NothingMade, Unpushed
<1>7. CASE Queue!Unlock(t) \/ Queue!Notify(t)
  <2>1. /\ fn' = [fn EXCEPT ![t] = "none"] /\ pc' = [pc EXCEPT ![t] = "idle"]
        /\ ret' = ret \/ (pc[t] = "notify" /\ ret' = [ret EXCEPT ![t] = "Success"])
        /\ UNCHANGED <<task_queue_, made, task, got, interrupted>>
    BY <1>7 DEF Queue!Unlock, Queue!Notify, Queue!Goto
  <2>2. pc[t] = "notify" => t \notin Workers
    BY <1>0, CallsOfThreads DEF ControlOf
  <2> QED
    BY <1>0, <2>1, <2>2 DEF Keeps, NothingMade, Unpushed
<1>8. CASE Queue!FetchAllTask(t)
  BY <1>0, <1>8 DEF Queue!FetchAllTask
<1>9. CASE Queue!SetInterrupted(t)
  <2>1. /\ pc' = [pc EXCEPT ![t] = "notify"] /\ interrupted' = TRUE
        /\ UNCHANGED <<fn, ret, task_queue_, made, task, got>>
    BY <1>9 DEF Queue!SetInterrupted, Queue!Goto
  <2> QED
    BY <2>1 DEF Keeps, NothingMade, Unpushed
<1> QED
  BY <1>1, <1>2, <1>3, <1>4, <1>5, <1>6, <1>7, <1>8, <1>9 DEF Queue!Step

\* A call of a function of the queue, which makes a task if it is AddTask.
Begins(t) ==
  /\ UNCHANGED <<task_queue_, got, interrupted, discard_when_quit, over, accepted>>
  /\ ret' = [ret EXCEPT ![t] = "none"]
  /\ \A u \in Threads : u # t /\ Unpushed(u)' => Unpushed(u)
  /\ \/ NothingMade
     \/ made' = made + 1 /\ task' = [task EXCEPT ![t] = made + 1]
  /\ at[t] \in FetchLabels => ret[t] = "TimeOut"
  /\ \E label \in FetchLabels \cup {"adding", "quitting"} : at' = [at EXCEPT ![t] = label]

\* Sequences of numbers.
LEMMA Appended ==
  ASSUME NEW s \in Seq(Nat), NEW e \in Nat, NEW r, r = Append(s, e)
  PROVE  /\ r \in Seq(Nat)
         /\ Len(s) \in Nat /\ Len(r) = Len(s) + 1
         /\ DOMAIN s = 1..Len(s) /\ DOMAIN r = 1..(Len(s) + 1)
         /\ \A i \in DOMAIN s : r[i] = s[i]
         /\ r[Len(s) + 1] = e
OBVIOUS

LEMMA Removed ==
  ASSUME NEW s \in Seq(Nat), s # <<>>, NEW r, r = Tail(s)
  PROVE  /\ r \in Seq(Nat)
         /\ DOMAIN s = 1..Len(s) /\ DOMAIN r = 1..(Len(s) - 1) /\ Len(s) \in Nat \ {0}
         /\ \A i \in DOMAIN r : r[i] = s[i + 1]
         /\ Head(s) = s[1] /\ Head(s) \in Nat
OBVIOUS

LEMMA CallsData ==
  ASSUME PoolTypes, NEW t \in Threads, CallsQueue(t)
  PROVE  Begins(t)
<1> USE DEF PoolTypes
<1>1. PICK f \in Fetches \cup {"AddTask", "InterruptFetch"},
           label \in FetchLabels \cup {"adding", "quitting"} :
        CallQueue(t, f, label) /\ (at[t] \in FetchLabels => ret[t] = "TimeOut")
  BY DEF CallsQueue
<1>2. /\ fn' = [fn EXCEPT ![t] = f] /\ ret' = [ret EXCEPT ![t] = "none"]
      /\ at' = [at EXCEPT ![t] = label]
      /\ \A u \in Threads : u # t => pc'[u] = pc[u]
      /\ UNCHANGED <<task_queue_, got, interrupted, discard_when_quit, over, accepted>>
      /\ \/ f \notin Queue!AddFns /\ UNCHANGED <<made, task>>
         \/ made' = made + 1 /\ task' = [task EXCEPT ![t] = made + 1]
  BY <1>1 DEF CallQueue, Queue!Call, Queue!Goto, Goto, serialVars
<1>3. \A u \in Threads : u # t /\ Unpushed(u)' => Unpushed(u)
  BY <1>2 DEF Unpushed
<1>4. f \notin Queue!AddFns => ~Unpushed(t)'
  BY <1>2 DEF Unpushed, Queue!AddFns
<1> QED
  BY <1>1, <1>2, <1>3, <1>4 DEF Begins, NothingMade

LEMMA QueueTypes ==
  ASSUME PoolTypes, NEW t \in Threads, Queue!Step(t) \/ Queue!TimeOut(t)
  PROVE  /\ pc' = [u \in Threads |-> pc'[u]]
         /\ fn' = [u \in Threads |-> fn'[u]]
         /\ ret' = [u \in Threads |-> ret'[u]]
<1> USE DEF PoolTypes
<1>1. CASE Queue!BeginCall(t) \/ Queue!WakeUp(t)
  BY <1>1 DEF Queue!BeginCall, Queue!WakeUp, Queue!Evaluate, Queue!Goto
<1>2. CASE Queue!WaitForSingleObject(t) \/ Queue!TimeOut(t) \/ Queue!SetEvent(t)
  BY <1>2, Locks
<1>3. CASE Queue!Sleep(t) \/ Queue!Push(t) \/ Queue!Pop(t)
  BY <1>3 DEF Queue!Sleep, Queue!Push, Queue!Pop, Queue!Goto
<1>4. CASE Queue!Unlock(t) \/ Queue!FetchAllTask(t) \/ Queue!SetInterrupted(t) \/ Queue!Notify(t)
  BY <1>4 DEF Queue!Unlock, Queue!FetchAllTask, Queue!SetInterrupted, Queue!Notify, Queue!Goto
<1> QED
  BY <1>1, <1>2, <1>3, <1>4 DEF Queue!Step

LEMMA TypesStep ==
  ASSUME PoolTypes, QueueControl, [Next]_vars
  PROVE  PoolTypes'
<1> USE DEF PoolTypes
<1>1. CASE Beside
  BY <1>1 DEF Beside, queueVars
<1>2. ASSUME NEW t \in Threads, InQueue(t) \/ TimeOut(t) PROVE PoolTypes'
  <2>1. UNCHANGED at /\ (Queue!Step(t) \/ Queue!TimeOut(t))
    BY <1>2 DEF InQueue, TimeOut, poolVars, serialVars
  <2>2. Keeps \/ Pushes(t) \/ Pops(t)
    BY <2>1, InQueueData
  <2>3. made' \in Nat /\ task' \in [Threads -> Nat] /\ interrupted' \in BOOLEAN
    BY <2>2 DEF Keeps, Pushes, Pops, NothingMade
  <2>4. task_queue_' \in Seq(Nat)
    <3>1. task[t] \in Nat
      OBVIOUS
    <3> QED
      BY <2>2, <3>1, Appended, Removed DEF Keeps, Pushes, Pops
  <2>5. got' \in [Threads -> Seq(Nat)]
    <3>1. task_queue_ # <<>> => Head(task_queue_) \in Nat
      OBVIOUS
    <3>2. CASE Pops(t)
      <4>1. Append(got[t], Head(task_queue_)) \in Seq(Nat)
        BY <3>1, <3>2 DEF Pops
      <4> QED
        BY <3>2, <4>1 DEF Pops
    <3> QED
      BY <2>2, <3>2 DEF Keeps, Pushes
  <2> QED
    BY <2>1, <2>3, <2>4, <2>5, QueueTypes
<1>3. ASSUME NEW t \in Threads, CallsQueue(t) PROVE PoolTypes'
  <2>1. Begins(t)
    BY <1>3, CallsData
  <2>2. /\ pc' = [u \in Threads |-> pc'[u]]
        /\ fn' = [u \in Threads |-> fn'[u]]
    <3>1. PICK f, label : CallQueue(t, f, label)
      BY <1>3 DEF CallsQueue
    <3>2. /\ fn' = [fn EXCEPT ![t] = f]
          /\ \E l : pc' = [pc EXCEPT ![t] = l]
      BY <3>1 DEF CallQueue, Queue!Call, Queue!Goto
    <3> QED
      BY <3>2
  <2>3. made' \in Nat /\ task' \in [Threads -> Nat]
    <3>1. \/ UNCHANGED <<made, task>>
          \/ made' = made + 1 /\ task' = [task EXCEPT ![t] = made + 1]
      BY <2>1 DEF Begins, NothingMade
    <3>2. made + 1 \in Nat
      OBVIOUS
    <3> QED
      BY <3>1, <3>2
  <2> QED
    BY <2>1, <2>2, <2>3 DEF Begins
<1>4. ASSUME NEW t \in Threads, GoesOn(t) PROVE PoolTypes'
  BY <1>4 DEF GoesOn, queueVars
<1> QED
  BY <1>1, <1>2, <1>3, <1>4, PoolSteps

-----------------------------------------------------------------------------
(* The invariant *)

\* A task has one place.
OnePlace ==
  /\ \A u \in Threads : task[u] <= made /\ (Unpushed(u) => task[u] \notin Known)
  /\ \A u, v \in Threads : Unpushed(u) /\ Unpushed(v) /\ task[u] = task[v] => u = v
  /\ \A n \in Known : n <= made
  /\ \A i, j \in DOMAIN task_queue_ : task_queue_[i] = task_queue_[j] => i = j
  /\ \A i \in DOMAIN task_queue_, w \in Workers : \A j \in DOMAIN got[w] :
       task_queue_[i] # got[w][j]
  /\ RunsOnce

\* A worker has run what it got, but for the task that it is about to run.
TakenRun ==
  \A w \in Workers : \A i \in DOMAIN got[w] :
    \/ got[w][i] \in over
    \/ i = Len(got[w]) /\ at[w] \in FetchLabels /\ ret[w] = "Success"

\* What Quit found is still there, and no worker leaves it in the queue.
AcceptedStay ==
  /\ ~interrupted => accepted = {} /\ \A w \in Workers : at[w] \notin Gone
  /\ accepted \subseteq Known
  /\ ~discard_when_quit /\ (\E w \in Workers : at[w] \in Gone) =>
       accepted \cap Range1(task_queue_) = {}

PoolInv == PoolTypes /\ QueueControl /\ OnePlace /\ TakenRun /\ AcceptedStay

LEMMA KnownIs ==
  /\ \A n : n \in Known <=> \/ \E i \in DOMAIN task_queue_ : task_queue_[i] = n
                            \/ \E w \in Workers : \E j \in DOMAIN got[w] : got[w][j] = n
  /\ \A n : n \in Known' <=> \/ \E i \in DOMAIN task_queue_' : task_queue_'[i] = n
                             \/ \E w \in Workers : \E j \in DOMAIN got'[w] : got'[w][j] = n
BY DEF Known, Range1

\* What a push and a pop do to the places.
LEMMA PushPlaces ==
  ASSUME PoolTypes, NEW t \in Threads, Pushes(t)
  PROVE  /\ DOMAIN task_queue_' = DOMAIN task_queue_ \cup {Len(task_queue_) + 1}
         /\ \A i \in DOMAIN task_queue_ : task_queue_'[i] = task_queue_[i]
         /\ task_queue_'[Len(task_queue_) + 1] = task[t]
         /\ got' = got
         /\ \A n : n \in Known' <=> n \in Known \/ n = task[t]
<1>1. /\ task_queue_ \in Seq(Nat) /\ task[t] \in Nat
      /\ task_queue_' = Append(task_queue_, task[t]) /\ got' = got
  BY DEF PoolTypes, Pushes
<1>2. /\ Len(task_queue_) \in Nat
      /\ DOMAIN task_queue_ = 1..Len(task_queue_)
      /\ DOMAIN task_queue_' = 1..(Len(task_queue_) + 1)
      /\ \A i \in DOMAIN task_queue_ : task_queue_'[i] = task_queue_[i]
      /\ task_queue_'[Len(task_queue_) + 1] = task[t]
  BY <1>1, Appended
<1>3. DOMAIN task_queue_' = DOMAIN task_queue_ \cup {Len(task_queue_) + 1}
  BY <1>2
<1>4. \A n : n \in Known' <=> n \in Known \/ n = task[t]
  BY <1>1, <1>2, <1>3, KnownIs
<1> QED
  BY <1>1, <1>2, <1>3, <1>4

LEMMA PopPlaces ==
  ASSUME PoolTypes, NEW t \in Threads, Pops(t)
  PROVE  /\ 1 \in DOMAIN task_queue_
         /\ DOMAIN task_queue_' \subseteq Nat \ {0}
         /\ \A i \in DOMAIN task_queue_' :
              i + 1 \in DOMAIN task_queue_ /\ task_queue_'[i] = task_queue_[i + 1]
         /\ \A w \in Workers : w # t => got'[w] = got[w]
         /\ Len(got[t]) \in Nat /\ Len(got'[t]) = Len(got[t]) + 1
         /\ DOMAIN got'[t] = DOMAIN got[t] \cup {Len(got[t]) + 1}
         /\ \A j \in DOMAIN got[t] : got'[t][j] = got[t][j]
         /\ got'[t][Len(got[t]) + 1] = task_queue_[1]
         /\ \A n : n \in Known' <=> n \in Known
<1>1. /\ task_queue_ \in Seq(Nat) /\ got \in [Threads -> Seq(Nat)] /\ t \in Workers
      /\ task_queue_ # <<>> /\ task_queue_' = Tail(task_queue_)
      /\ got' = [got EXCEPT ![t] = Append(got[t], Head(task_queue_))]
  BY DEF PoolTypes, Pops
<1>2. /\ DOMAIN task_queue_ = 1..Len(task_queue_)
      /\ DOMAIN task_queue_' = 1..(Len(task_queue_) - 1) /\ Len(task_queue_) \in Nat \ {0}
      /\ \A i \in DOMAIN task_queue_' : task_queue_'[i] = task_queue_[i + 1]
      /\ Head(task_queue_) = task_queue_[1] /\ Head(task_queue_) \in Nat
  BY <1>1, Removed
<1>3. /\ 1 \in DOMAIN task_queue_ /\ DOMAIN task_queue_' \subseteq Nat \ {0}
      /\ \A i \in DOMAIN task_queue_' : i + 1 \in DOMAIN task_queue_
      /\ \A i \in DOMAIN task_queue_ :
           i = 1 \/ (i - 1 \in DOMAIN task_queue_' /\ task_queue_[i] = task_queue_'[i - 1])
  BY <1>2
<1>4. got'[t] = Append(got[t], task_queue_[1]) /\ got[t] \in Seq(Nat)
  BY <1>1, <1>2
<1>5. /\ Len(got[t]) \in Nat /\ Len(got'[t]) = Len(got[t]) + 1
      /\ DOMAIN got[t] = 1..Len(got[t]) /\ DOMAIN got'[t] = 1..(Len(got[t]) + 1)
      /\ \A j \in DOMAIN got[t] : got'[t][j] = got[t][j]
      /\ got'[t][Len(got[t]) + 1] = task_queue_[1]
  BY <1>2, <1>4, Appended
<1>6. DOMAIN got'[t] = DOMAIN got[t] \cup {Len(got[t]) + 1}
  BY <1>5
<1>7. \A w \in Workers : w # t => got'[w] = got[w]
  BY <1>1, PoolAssumption
<1>8. \A n : (\E i \in DOMAIN task_queue_ : task_queue_[i] = n)
               <=> n = task_queue_[1] \/ \E i \in DOMAIN task_queue_' : task_queue_'[i] = n
  BY <1>2, <1>3
<1>9. \A n : (\E w \in Workers : \E j \in DOMAIN got'[w] : got'[w][j] = n)
               <=> n = task_queue_[1] \/ \E w \in Workers : \E j \in DOMAIN got[w] : got[w][j] = n
  <2>1. ASSUME NEW n, NEW w \in Workers, NEW j \in DOMAIN got'[w], got'[w][j] = n
        PROVE  n = task_queue_[1] \/ \E v \in Workers : \E k \in DOMAIN got[v] : got[v][k] = n
    BY <1>1, <1>5, <1>6, <1>7, <2>1
  <2>2. ASSUME NEW n, NEW w \in Workers, NEW j \in DOMAIN got[w], got[w][j] = n
        PROVE  j \in DOMAIN got'[w] /\ got'[w][j] = n
    BY <1>1, <1>5, <1>6, <1>7, <2>2
  <2>3. \E j \in DOMAIN got'[t] : got'[t][j] = task_queue_[1]
    BY <1>5, <1>6
  <2>4. ASSUME NEW n, \E w \in Workers : \E j \in DOMAIN got'[w] : got'[w][j] = n
        PROVE  n = task_queue_[1] \/ \E w \in Workers : \E j \in DOMAIN got[w] : got[w][j] = n
    BY <2>1, <2>4
  <2>5. ASSUME NEW n, n = task_queue_[1] \/ \E w \in Workers : \E j \in DOMAIN got[w] : got[w][j] = n
        PROVE  \E w \in Workers : \E j \in DOMAIN got'[w] : got'[w][j] = n
    <3>1. CASE n = task_queue_[1]
      BY <1>1, <2>3, <3>1
    <3>2. CASE \E w \in Workers : \E j \in DOMAIN got[w] : got[w][j] = n
      BY <2>2, <3>2
    <3> QED
      BY <2>5, <3>1, <3>2
  <2> QED
    BY <2>4, <2>5
<1>10. \A n : n \in Known' <=> n \in Known
  BY <1>8, <1>9, KnownIs
<1> QED
  BY <1>2, <1>3, <1>5, <1>6, <1>7, <1>10

LEMMA PlaceStep ==
  ASSUME PoolTypes, QueueControl, OnePlace, [Next]_vars
  PROVE  OnePlace'
<1> USE DEF OnePlace, RunsOnce
<1>0. /\ made \in Nat /\ \A u \in Threads : task[u] \in Nat
      /\ Workers \subseteq Threads
      /\ task = [u \in Threads |-> task[u]]
  BY PoolAssumption DEF PoolTypes
<1>1. ASSUME UNCHANGED <<task_queue_, got>>, NothingMade PROVE OnePlace'
  <2>1. \A n : n \in Known' <=> n \in Known
    BY <1>1, KnownIs
  <2> QED
    BY <1>1, <2>1 DEF NothingMade
<1>2. CASE Beside
  BY <1>1, <1>2 DEF Beside, queueVars, NothingMade, Unpushed
<1>3. ASSUME NEW t \in Threads, Pushes(t) PROVE OnePlace'
  <2>1. UNCHANGED <<made, task, got>> /\ Unpushed(t) /\ ~Unpushed(t)'
        /\ \A u \in Threads : Unpushed(u)' => Unpushed(u)
    BY <1>3 DEF Pushes, NothingMade
  <2>2. task[t] \notin Known /\ \A i \in DOMAIN task_queue_ : task_queue_[i] # task[t]
    BY <2>1, KnownIs
  <2>3. \A u \in Threads : Unpushed(u)' => task[u] \notin Known'
    BY <1>3, <2>1, PushPlaces
  <2>4. \A w \in Workers : \A j \in DOMAIN got[w] : got[w][j] # task[t]
    BY <2>1, KnownIs
  <2>5. \A i, j \in DOMAIN task_queue_' : task_queue_'[i] = task_queue_'[j] => i = j
    BY <1>3, <2>2, PushPlaces
  <2>6. \A i \in DOMAIN task_queue_', w \in Workers : \A j \in DOMAIN got[w] :
          task_queue_'[i] # got[w][j]
    BY <1>3, <2>4, PushPlaces
  <2>7. \A n \in Known' : n <= made
    BY <1>3, PushPlaces
  <2> QED
    BY <2>1, <2>3, <2>5, <2>6, <2>7
<1>4. ASSUME NEW t \in Threads, Pops(t) PROVE OnePlace'
  <2>1. UNCHANGED <<made, task>> /\ t \in Workers
        /\ \A u \in Threads : Unpushed(u)' => Unpushed(u)
    BY <1>4 DEF Pops, NothingMade
  <2>2. \A w \in Workers : \A j \in DOMAIN got[w] : got[w][j] # task_queue_[1]
    BY <1>4, PopPlaces
  <2>3. \A i \in DOMAIN task_queue_' : task_queue_'[i] # task_queue_[1]
    BY <1>4, PopPlaces
  <2>4. \A i, j \in DOMAIN task_queue_' : task_queue_'[i] = task_queue_'[j] => i = j
    BY <1>4, PopPlaces
  <2>5. \A w \in Workers : \A j \in DOMAIN got'[w] :
          \/ j \in DOMAIN got[w] /\ got'[w][j] = got[w][j]
          \/ w = t /\ j = Len(got[t]) + 1 /\ got'[w][j] = task_queue_[1]
    BY <1>4, PopPlaces
  <2>6. \A i \in DOMAIN task_queue_', w \in Workers : \A j \in DOMAIN got'[w] :
          task_queue_'[i] # got'[w][j]
    BY <1>4, <2>3, <2>5, PopPlaces
  <2>7. \A v, w \in Workers : \A i \in DOMAIN got'[v], j \in DOMAIN got'[w] :
          got'[v][i] = got'[w][j] => v = w /\ i = j
    BY <2>2, <2>5
  <2> QED
    BY <1>4, <2>1, <2>4, <2>6, <2>7, PopPlaces
<1>5. ASSUME NEW t \in Threads, Begins(t) PROVE OnePlace'
  <2>1. UNCHANGED <<task_queue_, got>> /\ \A n : n \in Known' <=> n \in Known
    BY <1>5, KnownIs DEF Begins
  <2>2. ASSUME made' = made + 1, task' = [task EXCEPT ![t] = made + 1] PROVE OnePlace'
    <3>1. /\ task'[t] = made + 1
          /\ \A u \in Threads : u # t => task'[u] = task[u] /\ (Unpushed(u)' => Unpushed(u))
      BY <1>0, <1>5, <2>2 DEF Begins
    <3>2. \A n \in Known : n # made + 1
      BY <1>0
    <3>3. \A u \in Threads : task'[u] <= made + 1 /\ (u # t => task'[u] # made + 1)
      <4>1. \A u \in Threads : task[u] \in Nat /\ task[u] <= made
        BY <1>0
      <4>2. ASSUME NEW u \in Threads PROVE task'[u] <= made + 1 /\ (u # t => task'[u] # made + 1)
        BY <1>0, <3>1, <4>1
      <4> QED
        BY <4>2
    <3>4. \A n \in Known : n <= made + 1
      <4>1. ASSUME NEW n \in Known PROVE n \in Nat
        <5>1. CASE \E i \in DOMAIN task_queue_ : task_queue_[i] = n
          BY <5>1 DEF PoolTypes
        <5>2. CASE \E w \in Workers : \E j \in DOMAIN got[w] : got[w][j] = n
          <6>1. PICK w \in Workers : \E j \in DOMAIN got[w] : got[w][j] = n
            BY <5>2
          <6>2. got[w] \in Seq(Nat)
            BY <1>0 DEF PoolTypes
          <6> QED
            BY <6>1, <6>2
        <5> QED
          BY <5>1, <5>2, KnownIs
      <4> QED
        BY <1>0, <4>1
    <3> QED
      BY <2>1, <2>2, <3>1, <3>2, <3>3, <3>4
  <2> QED
    BY <1>1, <1>5, <2>1, <2>2 DEF Begins
<1>6. ASSUME NEW t \in Threads, GoesOn(t) PROVE OnePlace'
  BY <1>1, <1>6 DEF GoesOn, queueVars, NothingMade, Unpushed
<1>7. ASSUME NEW t \in Threads, InQueue(t) \/ TimeOut(t) PROVE OnePlace'
  BY <1>1, <1>3, <1>4, <1>7, InQueueData DEF InQueue, TimeOut, Keeps
<1> QED
  BY <1>2, <1>5, <1>6, <1>7, PoolSteps, CallsData

\* Nobody leaves anything unrun behind him.
LEMMA TakenStep ==
  ASSUME PoolTypes, QueueControl, TakenRun, [Next]_vars
  PROVE  TakenRun'
<1> USE DEF TakenRun
<1>0. /\ Workers \subseteq Threads
      /\ ret = [u \in Threads |-> ret[u]] /\ at = [u \in Threads |-> at[u]]
      /\ got \in [Threads -> Seq(Nat)]
  BY PoolAssumption DEF PoolTypes
<1>1. CASE Beside
  BY <1>1 DEF Beside, queueVars
<1>2. ASSUME NEW t \in Threads, InQueue(t) \/ TimeOut(t) PROVE TakenRun'
  <2>1. UNCHANGED <<at, over>> /\ (Keeps \/ Pushes(t) \/ Pops(t))
    BY <1>2, InQueueData DEF InQueue, TimeOut, poolVars, serialVars
  <2>2. CASE Keeps
    BY <1>0, <2>1, <2>2 DEF Keeps
  <2>3. CASE Pushes(t)
    <3>1. \A w \in Workers : ret[w] = "Success" => ret'[w] = "Success"
      BY <1>0, <2>3 DEF Pushes
    <3> QED
      BY <2>1, <2>3, <3>1 DEF Pushes
  <2>4. CASE Pops(t)
    <3>1. ASSUME NEW w \in Workers, NEW i \in DOMAIN got'[w]
          PROVE  \/ got'[w][i] \in over'
                 \/ i = Len(got'[w]) /\ at'[w] \in FetchLabels /\ ret'[w] = "Success"
      <4>1. CASE w = t
        <5>1. /\ at[t] \in FetchLabels /\ ret[t] = "none" /\ t \in Workers
              /\ ret'[t] = "Success"
          BY <1>0, <2>4 DEF Pops
        <5>2. CASE i \in DOMAIN got[t]
          BY <2>1, <2>4, <4>1, <5>1, <5>2, PopPlaces
        <5>3. CASE i = Len(got[t]) + 1
          BY <2>1, <2>4, <4>1, <5>1, <5>3, PopPlaces
        <5> QED
          BY <2>4, <3>1, <4>1, <5>2, <5>3, PopPlaces
      <4>2. CASE w # t
        <5>1. got'[w] = got[w] /\ ret'[w] = ret[w]
          BY <1>0, <2>4, <4>2 DEF Pops
        <5> QED
          BY <2>1, <5>1
      <4> QED
        BY <4>1, <4>2
    <3> QED
      BY <3>1
  <2> QED
    BY <2>1, <2>2, <2>3, <2>4
<1>3. ASSUME NEW t \in Threads, Begins(t) PROVE TakenRun'
  <2>1. PICK label : at' = [at EXCEPT ![t] = label]
    BY <1>3 DEF Begins
  <2>2. /\ UNCHANGED <<got, over>> /\ (at[t] \in FetchLabels => ret[t] = "TimeOut")
        /\ \A u \in Threads : u # t => UNCHANGED <<at[u], ret[u]>>
    BY <1>0, <1>3, <2>1 DEF Begins
  <2> QED
    BY <1>0, <2>2
<1>4. ASSUME NEW t \in Threads, GoesOn(t) PROVE TakenRun'
  <2>1. PICK label : at' = [at EXCEPT ![t] = label]
    BY <1>4 DEF GoesOn
  <2>2. /\ UNCHANGED <<got, ret>> /\ over \subseteq over'
        /\ at[t] \in FetchLabels /\ ret[t] = "Success" => got[t][Len(got[t])] \in over'
        /\ \A u \in Threads : u # t => at'[u] = at[u]
    BY <1>0, <1>4, <2>1 DEF GoesOn, queueVars, Running
  <2> QED
    BY <1>0, <2>2
<1> QED
  BY <1>1, <1>2, <1>3, <1>4, PoolSteps, CallsData

LEMMA AcceptedStep ==
  ASSUME PoolTypes, QueueControl, OnePlace, AcceptedStay, [Next]_vars
  PROVE  AcceptedStay'
<1> USE DEF AcceptedStay
<1>0. /\ Workers \subseteq Threads /\ at = [u \in Threads |-> at[u]]
      /\ task_queue_ \in Seq(Nat) /\ interrupted \in BOOLEAN
  BY PoolAssumption DEF PoolTypes
<1>a. ASSUME UNCHANGED <<task_queue_, got>>
      PROVE  Known' = Known /\ Range1(task_queue_)' = Range1(task_queue_)
  BY <1>a DEF Known, Range1
<1>1. CASE Beside
  BY <1>1, <1>a DEF Beside, queueVars
<1>2. ASSUME NEW t \in Threads, InQueue(t) \/ TimeOut(t) PROVE AcceptedStay'
  <2>1. /\ UNCHANGED <<at, discard_when_quit>> /\ (Keeps \/ Pushes(t) \/ Pops(t))
    BY <1>2, InQueueData DEF InQueue, TimeOut, poolVars, serialVars
  <2>2. /\ ~interrupted /\ interrupted' => accepted' = Known
        /\ interrupted \/ ~interrupted' => accepted' = accepted
    BY <1>2, Locks DEF InQueue, TimeOut, poolVars, serialVars
  <2>3. CASE Keeps
    <3>1. /\ UNCHANGED <<task_queue_, got>> /\ interrupted' \in BOOLEAN
          /\ interrupted => interrupted'
      BY <2>3 DEF Keeps
    <3> QED
      BY <1>0, <1>a, <2>1, <2>2, <3>1
  <2>4. CASE Pushes(t)
    <3>1. interrupted' = interrupted /\ task[t] \notin Known
      BY <2>4 DEF Pushes, OnePlace
    <3>2. /\ accepted' = accepted /\ \A n : n \in Known => n \in Known'
          /\ task[t] \notin accepted
      BY <1>0, <2>2, <2>4, <3>1, PushPlaces
    <3>3. \A n \in Range1(task_queue_)' : n \in Range1(task_queue_) \/ n = task[t]
      BY <2>4, PushPlaces DEF Range1
    <3> QED
      BY <2>1, <3>1, <3>2, <3>3
  <2>5. CASE Pops(t)
    <3>1. interrupted' = interrupted
      BY <2>5 DEF Pops
    <3>2. accepted' = accepted /\ \A n : n \in Known => n \in Known'
      BY <1>0, <2>2, <2>5, <3>1, PopPlaces
    <3>3. \A n \in Range1(task_queue_)' : n \in Range1(task_queue_)
      BY <2>5, PopPlaces DEF Range1
    <3> QED
      BY <2>1, <3>1, <3>2, <3>3
  <2> QED
    BY <2>1, <2>3, <2>4, <2>5
<1>3. ASSUME NEW t \in Threads, Begins(t) PROVE AcceptedStay'
  <2>1. PICK label \in FetchLabels \cup {"adding", "quitting"} : at' = [at EXCEPT ![t] = label]
    BY <1>3 DEF Begins
  <2>2. \A w \in Workers : at'[w] \in Gone => at[w] \in Gone
    BY <1>0, <2>1 DEF FetchLabels, Gone
  <2> QED
    BY <1>3, <1>a, <2>2 DEF Begins
<1>4. ASSUME NEW t \in Threads, GoesOn(t) PROVE AcceptedStay'
  <2>1. PICK label :
          /\ at' = [at EXCEPT ![t] = label]
          /\ label \in Gone =>
               at[t] = "leave" \/ (interrupted /\ (discard_when_quit \/ Len(task_queue_) = 0))
    BY <1>4 DEF GoesOn
  <2>2. UNCHANGED <<task_queue_, got, interrupted, discard_when_quit, accepted>>
    BY <1>4 DEF GoesOn, queueVars
  <2>3. ASSUME NEW w \in Workers, at'[w] \in Gone
        PROVE  at[w] \in Gone \/ (interrupted /\ (discard_when_quit \/ Len(task_queue_) = 0))
    BY <1>0, <2>1, <2>3 DEF Gone
  <2>4. Len(task_queue_) = 0 => Range1(task_queue_) = {}
    BY <1>0 DEF Range1
  <2> QED
    BY <1>a, <2>2, <2>3, <2>4
<1> QED
  BY <1>1, <1>2, <1>3, <1>4, PoolSteps, CallsData

-----------------------------------------------------------------------------
(* The theorems *)

LEMMA InitPool == Init => PoolInv
<1> SUFFICES ASSUME Init PROVE PoolInv
  OBVIOUS
<1>1. /\ task_queue_ = <<>> /\ got = [t \in Threads |-> <<>>] /\ made = 0
      /\ task = [t \in Threads |-> 0] /\ pc = [t \in Threads |-> "idle"]
      /\ fn = [t \in Threads |-> "none"] /\ interrupted = FALSE /\ accepted = {}
      /\ ret = [t \in Threads |-> "none"]
  BY DEF Init, Queue!Init
<1>2. at = [t \in Threads |-> at[t]] /\ \A t \in Workers : at[t] = "fetch"
  BY PoolAssumption DEF Init
<1>3. Workers \subseteq Threads /\ DOMAIN task_queue_ = {} /\ Range1(task_queue_) = {}
  BY <1>1, PoolAssumption DEF Range1
<1>4. \A w \in Workers : DOMAIN got[w] = {}
  BY <1>1, <1>3
<1>5. \A n : n \notin Known
  BY <1>3, <1>4, KnownIs
<1>6. PoolTypes
  <2>1. <<>> \in Seq(Nat)
    OBVIOUS
  <2> QED
    BY <1>1, <1>2, <2>1 DEF PoolTypes
<1>7. QueueControl
  BY <1>1 DEF QueueControl, ControlOf, Holding
<1>8. OnePlace
  BY <1>1, <1>3, <1>4, <1>5 DEF OnePlace, RunsOnce, Unpushed
<1>9. TakenRun
  BY <1>4 DEF TakenRun
<1>10. AcceptedStay
  BY <1>1, <1>2 DEF AcceptedStay, Gone
<1> QED
  BY <1>6, <1>7, <1>8, <1>9, <1>10 DEF PoolInv

LEMMA PoolInvariant == Spec => []PoolInv
<1>1. PoolInv /\ [Next]_vars => PoolInv'
  BY TypesStep, ControlStep, PlaceStep, TakenStep, AcceptedStep DEF PoolInv
<1> QED
  BY InitPool, <1>1, PTL DEF Spec

\* No task is run twice, by one worker or by two, however many there are and
\* whichever of FetchTask and FetchTaskA hands it out. (block_task_queue.h:92)
THEOREM TasksRunOnce == Spec => []RunsOnce
<1>1. PoolInv => RunsOnce
  BY DEF PoolInv, OnePlace
<1> QED
  BY PoolInvariant, <1>1, PTL

\* Without discard_when_quit no worker leaves while a task that was accepted
\* before Quit is in the queue, and when all have left, all of those have run.
\* (thread_pool.h:27)
THEOREM AcceptedTasksAreRun == Spec => []AcceptedTasksRun
<1>1. ASSUME PoolInv, ~discard_when_quit, \A w \in Workers : at[w] = "exited"
      PROVE  accepted \subseteq over
  <2>1. \E w \in Workers : at[w] \in Gone
    BY <1>1, PoolAssumption DEF Gone
  <2>2. accepted \cap Range1(task_queue_) = {} /\ accepted \subseteq Known
    BY <1>1, <2>1 DEF PoolInv, AcceptedStay
  <2>3. ASSUME NEW n \in accepted PROVE n \in over
    <3>1. PICK w \in Workers : \E i \in DOMAIN got[w] : got[w][i] = n
      BY <2>2, KnownIs DEF Range1
    <3>2. at[w] \notin FetchLabels
      BY <1>1 DEF FetchLabels
    <3> QED
      BY <1>1, <3>1, <3>2 DEF PoolInv, TakenRun
  <2> QED
    BY <2>3
<1>2. PoolInv => AcceptedTasksRun
  BY <1>1 DEF PoolInv, AcceptedStay, AcceptedTasksRun, Gone
<1> QED
  BY PoolInvariant, <1>2, PTL

-----------------------------------------------------------------------------
(***************************************************************************)
(* The pool is a correct user of its queue: what it does to the queue is a *)
(* behaviour of BlockTaskQueue, so what is proved of the queue, for every  *)
(* program its threads run, holds inside the pool.                         *)
(***************************************************************************)

\* The theorems about the queue, for the calls of the pool.
QP == INSTANCE BlockTaskQueueProofs WITH
        May <- Calls, Interruptible <- {"FetchTask"}, Loopers <- {}, capacity_ <- 0

LEMMA CallsAreFunctions == Calls \in [Threads -> SUBSET Queue!Fns]
BY CallsOfThreads DEF Calls, Queue!Fns, Queue!AddFns, Queue!FetchFns, Queue!InterruptFns

LEMMA QueueIsAssumed == QP!QueueAssumption
BY CallsAreFunctions, PoolAssumption
DEF QP!QueueAssumption, QP!Fns, QP!AddFns, QP!FetchFns, QP!InterruptFns, QP!IsFiniteSet,
  IsFiniteSet, Queue!Fns, Queue!AddFns, Queue!FetchFns, Queue!InterruptFns

\* QP and Queue are the same definitions under two names.
LEMMA SameQueue ==
  /\ Queue!Init <=> QP!Init
  /\ [Queue!Next]_(Queue!vars) <=> [QP!Next]_(QP!vars)
  /\ Queue!TypeOK <=> QP!TypeOK
<1>1. Queue!Init <=> QP!Init
  BY DEF QP!Init, Queue!Init,
    QP!NotFull!CvInit, Queue!NotFull!CvInit, QP!NotEmpty!CvInit, Queue!NotEmpty!CvInit,
    QP!NotFull!InitializeConditionVariableXp, Queue!NotFull!InitializeConditionVariableXp,
    QP!NotEmpty!InitializeConditionVariableXp, Queue!NotEmpty!InitializeConditionVariableXp
<1>2. [Queue!Next]_(Queue!vars) <=> [QP!Next]_(QP!vars)
  BY DEF Queue!Next, Queue!Step, Queue!Call, Queue!BeginCall, Queue!Sleep,
    Queue!WaitForSingleObject, Queue!TimeOut, Queue!WakeUp, Queue!Push, Queue!Pop,
    Queue!Unlock, Queue!FetchAllTask, Queue!SetInterrupted, Queue!Notify,
    Queue!SetEvent, Queue!vars, Queue!Fns, Queue!AddFns, Queue!FetchFns,
    Queue!TimedFns, Queue!InterruptFns, Queue!Idle, Queue!Lock, Queue!Release,
    Queue!Goto, Queue!Evaluate, Queue!Interrupte, Queue!Predicate, Queue!MayBeLate,
    Queue!LateAfterSleep, Queue!NotFull!Idle, Queue!NotFull!Lock,
    Queue!NotFull!Unlock, Queue!NotFull!Sleep, Queue!NotFull!WaitForSingleObject,
    Queue!NotFull!TimeOut, Queue!NotFull!Resume, Queue!NotFull!NotifyAll,
    Queue!NotFull!SetEvent, Queue!NotFull!Blocked, Queue!NotEmpty!Idle,
    Queue!NotEmpty!Lock, Queue!NotEmpty!Unlock, Queue!NotEmpty!Sleep,
    Queue!NotEmpty!WaitForSingleObject, Queue!NotEmpty!TimeOut, Queue!NotEmpty!Resume,
    Queue!NotEmpty!NotifyAll, Queue!NotEmpty!SetEvent, Queue!NotEmpty!Blocked,
    QP!Next, QP!Step, QP!Call, QP!BeginCall, QP!Sleep, QP!WaitForSingleObject,
    QP!TimeOut, QP!WakeUp, QP!Push, QP!Pop, QP!Unlock, QP!FetchAllTask,
    QP!SetInterrupted, QP!Notify, QP!SetEvent, QP!vars, QP!Fns, QP!AddFns,
    QP!FetchFns, QP!TimedFns, QP!InterruptFns, QP!Idle, QP!Lock, QP!Release, QP!Goto,
    QP!Evaluate, QP!Interrupte, QP!Predicate, QP!MayBeLate, QP!LateAfterSleep,
    QP!NotFull!Idle, QP!NotFull!Lock, QP!NotFull!Unlock, QP!NotFull!Sleep,
    QP!NotFull!WaitForSingleObject, QP!NotFull!TimeOut, QP!NotFull!Resume,
    QP!NotFull!NotifyAll, QP!NotFull!SetEvent, QP!NotFull!Blocked, QP!NotEmpty!Idle,
    QP!NotEmpty!Lock, QP!NotEmpty!Unlock, QP!NotEmpty!Sleep,
    QP!NotEmpty!WaitForSingleObject, QP!NotEmpty!TimeOut, QP!NotEmpty!Resume,
    QP!NotEmpty!NotifyAll, QP!NotEmpty!SetEvent, QP!NotEmpty!Blocked
<1>3. Queue!TypeOK <=> QP!TypeOK
  BY DEF Queue!TypeOK, QP!TypeOK, Queue!Task, QP!Task, Queue!Labels, QP!Labels,
    Queue!Fns, QP!Fns, Queue!AddFns, QP!AddFns, Queue!FetchFns, QP!FetchFns,
    Queue!InterruptFns, QP!InterruptFns,
    Queue!NotFull!CvTypeOK, QP!NotFull!CvTypeOK, Queue!NotEmpty!CvTypeOK,
    QP!NotEmpty!CvTypeOK, Queue!NotFull!Position, QP!NotFull!Position,
    Queue!NotEmpty!Position, QP!NotEmpty!Position
<1> QED
  BY <1>1, <1>2, <1>3

LEMMA PoolStepIsQueueStep == [Next]_vars => [Queue!Next]_(Queue!vars)
<1> SUFFICES ASSUME [Next]_vars PROVE [Queue!Next]_(Queue!vars)
  OBVIOUS
<1>1. ASSUME NEW t \in Threads, NEW f, NEW label, CallQueue(t, f, label)
      PROVE  Queue!Next
  <2>1. f \in Queue!Fns /\ Queue!Call(t, f)
    BY <1>1, CallsAreFunctions DEF CallQueue, Queue!Call
  <2> QED
    BY <2>1 DEF Queue!Next
<1>2. ASSUME NEW t, NEW label, Control(t, label) PROVE UNCHANGED Queue!vars
  BY <1>2 DEF Control, queueVars, Queue!vars
<1>3. ASSUME NEW t \in Threads, Worker(t) PROVE Queue!Next \/ UNCHANGED Queue!vars
  BY <1>1, <1>2, <1>3
  DEF Worker, Fetch, WaitForPreTask, Run, Check, Drain, DrainTimeOut, Leave, queueVars,
    Queue!vars
<1>4. ASSUME NEW t \in Threads,
             EndAdd(t) \/ Wait(t) \/ WaitA(t) \/ AWaitEndless(t) \/ Join(t)
      PROVE  Queue!Next \/ UNCHANGED Queue!vars
  BY <1>1, <1>2, <1>4 DEF EndAdd, Wait, WaitA, AWaitEndless, Join
<1>5. ASSUME NEW t \in Threads, CheckAdd(t) \/ AddTask(t) \/ Quit(t)
      PROVE  Queue!Next \/ UNCHANGED Queue!vars
  BY <1>1, <1>2, <1>5 DEF CheckAdd, AddTask, Quit
<1>6. ASSUME NEW t \in Threads, InQueue(t) \/ TimeOut(t) PROVE Queue!Next
  BY <1>6 DEF InQueue, TimeOut, Queue!Next
<1>7. CASE UNCHANGED vars
  BY <1>7 DEF vars, queueVars, Queue!vars
<1>8. ASSUME NEW n, RunElsewhere(n) PROVE UNCHANGED Queue!vars
  BY <1>8 DEF RunElsewhere, queueVars, Queue!vars
<1> QED
  BY <1>3, <1>4, <1>5, <1>6, <1>7, <1>8 DEF Next, Step

\* The pool makes no call of its queue that the queue does not allow, and changes
\* nothing of it outside a call: its workers, its callers and their history are
\* only more than the queue has. (thread_pool.h)
THEOREM PoolUsesItsQueue == Spec => Queue!Spec
<1>1. Init => Queue!Init
  BY DEF Init
<1> QED
  BY <1>1, PoolStepIsQueueStep, PTL DEF Spec, Queue!Spec

LEMMA QueueTypesInPool == Spec => []Queue!TypeOK
<1>1. QP!Spec => []QP!TypeOK
  BY QueueIsAssumed, QP!QueueTypeCorrect
<1> QED
  BY <1>1, PoolUsesItsQueue, SameQueue, PTL DEF Queue!Spec, QP!Spec

\* Inside the pool the queue is first-in first-out, and gives each task to one
\* worker; and it keeps to the protocol of its condition variables.
\* (block_task_queue.h, in the use that thread_pool.h makes of it)
THEOREM PoolQueueIsAQueue == Spec => QP!ImplementsQueue /\ QP!ImplementsCvs
<1>1. QP!Spec => QP!ImplementsQueue /\ QP!ImplementsCvs
  BY QueueIsAssumed, QP!QueueImplementsAbstract, QP!QueueImplementsCvs
<1> QED
  BY <1>1, PoolUsesItsQueue, SameQueue, PTL DEF Queue!Spec, QP!Spec

-----------------------------------------------------------------------------
(* The types of the pool *)

WorkerLabels == {"fetch", "fetching", "check", "drain", "draining", "leave", "exited"}
CallerLabels ==
  {"checkadd", "add", "adding", "quit", "quitting", "endless", "join", "joined"}

Remaining == {w \in Workers : at[w] # "exited"}

\* The latch counts the workers that have not left, what ran or waits was made or
\* is of elsewhere, and a worker that was told Success has a task.
PoolCounts ==
  /\ at = [t \in Threads |-> at[t]]
  /\ \A t \in Workers : at[t] \in WorkerLabels
  /\ \A t \in Threads \ Workers : at[t] \in CallerLabels
  /\ latch = Cardinality(Remaining)
  /\ over \cup waiting \subseteq 1..made \cup Elsewhere
  /\ together \subseteq 1..MaxTasks \cup Elsewhere
  /\ \A w \in Workers : ret[w] = "Success" => got[w] # <<>>

LEMMA RemainingFinite ==
  ASSUME NEW T \in SUBSET Workers
  PROVE  /\ Cardinality(T) \in 0..Cardinality(Workers)
         /\ \A w \in T : Cardinality(T \ {w}) = Cardinality(T) - 1
<1>1. IsFiniteSet(Workers)
  BY PoolAssumption, FS_Subset
<1>2. /\ IsFiniteSet(T) /\ Cardinality(T) <= Cardinality(Workers)
      /\ Cardinality(T) \in Nat /\ Cardinality(Workers) \in Nat
  BY <1>1, FS_Subset, FS_CardinalityType
<1> QED
  BY <1>2, FS_RemoveElement

\* A step moves one thread, and only Leave makes one exit.
LEMMA PoolMoves ==
  ASSUME PoolCounts, [Next]_vars
  PROVE  \/ UNCHANGED <<at, latch>>
         \/ \E t \in Workers : Leave(t)
         \/ \E t \in Workers, label \in WorkerLabels \ {"exited"} :
              at[t] # "exited" /\ at' = [at EXCEPT ![t] = label] /\ UNCHANGED latch
         \/ \E t \in Threads \ Workers, label \in CallerLabels :
              at' = [at EXCEPT ![t] = label] /\ UNCHANGED latch
<1> DEFINE Moved(t, label) == at' = [at EXCEPT ![t] = label] /\ UNCHANGED latch
<1>1. ASSUME NEW t \in Threads, Worker(t), ~WaitForPreTask(t)
      PROVE  \/ Leave(t) /\ at[t] = "leave"
             \/ \E label \in WorkerLabels \ {"exited"} :
                  at[t] \in WorkerLabels \ {"exited"} /\ Moved(t, label)
  BY <1>1 DEF Worker, Fetch, Run, HasFetched, Check, AtCheck, Drain, DrainTimeOut, Leave,
    Returned, CallQueue, Control, Goto, WorkerLabels
<1>2. ASSUME NEW t \in Threads, Worker(t) PROVE t \in Workers
  <2>1. at[t] \in WorkerLabels
    BY <1>1, <1>2 DEF WaitForPreTask, HasFetched, Returned, WorkerLabels
  <2> QED
    BY <2>1 DEF PoolCounts, WorkerLabels, CallerLabels
<1>3. ASSUME NEW t \in Threads,
             \/ EndAdd(t) \/ Wait(t) \/ WaitA(t) \/ AWaitEndless(t) \/ Join(t)
             \/ CheckAdd(t) \/ AddTask(t) \/ Quit(t)
      PROVE  \E label \in CallerLabels : at[t] \in CallerLabels /\ Moved(t, label)
  BY <1>3 DEF EndAdd, Wait, WaitA, AWaitEndless, Join, CheckAdd, AddTask, Quit, Returned, CallQueue,
    Control, Goto, CallerLabels
<1>4. ASSUME NEW t \in Threads, at[t] \in CallerLabels PROVE t \in Threads \ Workers
  BY <1>4 DEF PoolCounts, WorkerLabels, CallerLabels
<1>5. ASSUME NEW t \in Threads, InQueue(t) \/ TimeOut(t) PROVE UNCHANGED <<at, latch>>
  BY <1>5 DEF InQueue, TimeOut, poolVars, serialVars
<1>6. CASE UNCHANGED vars
  BY <1>6 DEF vars, poolVars
<1>7. ASSUME NEW n, WaitForPreTask(n) \/ RunElsewhere(n) PROVE UNCHANGED <<at, latch>>
  BY <1>7 DEF WaitForPreTask, RunElsewhere
<1> QED
  BY <1>1, <1>2, <1>3, <1>4, <1>5, <1>6, <1>7 DEF Next, Step

\* What a task does to the latches of the serial tasks.
LEMMA SerialSteps ==
  ASSUME NEW n, SleepBehind(n) \/ RunTask(n)
  PROVE  /\ over' \cup waiting' \subseteq over \cup waiting \cup {n}
         /\ together' \subseteq together \cup {pre_task_[n]}
         /\ pre_task_[n] # 0 \/ together' = together
BY DEF SleepBehind, RunTask

\* The tasks a step of the serial tasks is about.
SerialStep ==
  \/ UNCHANGED serialVars
  \/ \E n \in Known \cup Elsewhere : SleepBehind(n) \/ RunTask(n)

\* The data a step changes.
LEMMA PoolRuns ==
  ASSUME PoolInv, PoolCounts, Queue!TypeOK, [Next]_vars
  PROVE  /\ made' \in Nat /\ made <= made'
         /\ SerialStep
         /\ \A w \in Workers : ret'[w] = "Success" => got'[w] # <<>>
<1> USE DEF PoolCounts
<1>0. /\ PoolTypes /\ QueueControl /\ made \in Nat /\ Workers \subseteq Threads
      /\ ret = [u \in Threads |-> ret[u]]
      /\ got \in [Threads -> Seq(Nat)]
  BY PoolAssumption DEF PoolInv, PoolTypes
<1>1. ASSUME Beside
      PROVE  /\ made' \in Nat /\ made <= made'
             /\ \A w \in Workers : ret'[w] = "Success" => got'[w] # <<>>
  <2>1. made' = made /\ ret' = ret /\ got' = got
    BY <1>1 DEF Beside, queueVars
  <2>2. \A w \in Workers : ret'[w] = "Success" => got'[w] # <<>>
    BY <2>1
  <2>3. made' \in Nat /\ made <= made'
    BY <1>0, <2>1
  <2> QED
    BY <2>1, <2>2, <2>3
<1>2. ASSUME NEW t \in Threads, InQueue(t) \/ TimeOut(t)
      PROVE  /\ made' = made
             /\ \A w \in Workers : ret'[w] = "Success" => got'[w] # <<>>
  <2>1. Keeps \/ Pushes(t) \/ Pops(t)
    BY <1>0, <1>2, InQueueData DEF InQueue, TimeOut
  <2>2. made' = made
    BY <2>1 DEF Keeps, Pushes, Pops, NothingMade
  <2>3. CASE Keeps
    BY <2>1, <2>2, <2>3 DEF Keeps
  <2>4. CASE Pushes(t)
    <3>1. t \notin Workers
      BY <1>0, <2>4, CallsOfThreads DEF Pushes, Unpushed, QueueControl, ControlOf
    <3> QED
      BY <1>0, <2>1, <2>2, <2>4, <3>1 DEF Pushes
  <2>5. CASE Pops(t)
    <3>1. Len(got'[t]) # 0 /\ \A w \in Workers : w # t => got'[w] = got[w]
      BY <1>0, <2>5, PopPlaces
    <3>2. got'[t] # <<>>
      BY <3>1
    <3>3. \A w \in Workers : w # t => ret'[w] = ret[w]
      BY <1>0, <2>5 DEF Pops
    <3> QED
      BY <2>1, <2>2, <3>1, <3>2, <3>3
  <2> QED
    BY <2>1, <2>3, <2>4, <2>5
<1>3. ASSUME NEW t \in Threads, CallsQueue(t)
      PROVE  /\ made' \in {made, made + 1}
             /\ \A w \in Workers : ret'[w] = "Success" => got'[w] # <<>>
  <2>1. Begins(t)
    BY <1>0, <1>3, CallsData
  <2>2. /\ made' \in {made, made + 1} /\ UNCHANGED got
        /\ ret' = [ret EXCEPT ![t] = "none"]
    BY <2>1 DEF Begins, NothingMade
  <2> QED
    BY <1>0, <2>2
<1>4. ASSUME NEW t \in Threads, Run(t) \/ WaitForPreTask(t)
      PROVE  SerialStep
  <2>1. t \in Workers /\ ret[t] = "Success"
    BY <1>4 DEF Run, WaitForPreTask, HasFetched, Returned, WorkerLabels, CallerLabels
  <2>2. got[t] # <<>> /\ got[t] \in Seq(Nat)
    BY <1>0, <2>1
  <2>3. Len(got[t]) \in DOMAIN got[t]
    BY <2>2
  <2>4. Running(t) \in Known
    BY <2>1, <2>3, KnownIs DEF Running
  <2> QED
    BY <1>4, <2>4 DEF Run, WaitForPreTask, SerialStep
<1>5. ASSUME NEW t \in Threads, GoesOn(t)
      PROVE  /\ made' = made
             /\ \A w \in Workers : ret'[w] = "Success" => got'[w] # <<>>
  BY <1>5 DEF GoesOn, queueVars
<1>6. /\ made' \in Nat /\ made <= made'
      /\ \A w \in Workers : ret'[w] = "Success" => got'[w] # <<>>
  BY <1>0, <1>1, <1>2, <1>3, <1>5, PoolSteps
<1>7. ASSUME NEW t \in Threads,
             \/ Fetch(t) \/ Check(t) \/ Drain(t) \/ DrainTimeOut(t) \/ Leave(t)
             \/ EndAdd(t) \/ Wait(t) \/ WaitA(t) \/ AWaitEndless(t) \/ Join(t)
             \/ CheckAdd(t) \/ AddTask(t) \/ Quit(t) \/ InQueue(t) \/ TimeOut(t)
      PROVE  UNCHANGED serialVars
  BY <1>7 DEF Fetch, Check, Drain, DrainTimeOut, Leave, EndAdd, Wait, WaitA, AWaitEndless,
    Join, CheckAdd, AddTask, Quit, CallQueue, Control, InQueue, TimeOut, poolVars
<1>8. ASSUME NEW n \in Elsewhere, RunElsewhere(n) PROVE SerialStep
  BY <1>8 DEF RunElsewhere, SerialStep
<1>9. ASSUME UNCHANGED vars PROVE SerialStep
  BY <1>9 DEF vars, poolVars, SerialStep
<1>10. SerialStep
  BY <1>4, <1>7, <1>8, <1>9 DEF Next, Step, Worker, SerialStep
<1> QED
  BY <1>6, <1>10

LEMMA ElementsOf ==
  ASSUME NEW S, NEW s \in Seq(S)
  PROVE  \A i \in DOMAIN s : s[i] \in S
OBVIOUS

\* What a worker or the queue has was made.
LEMMA KnownWasMade ==
  ASSUME PoolInv, Queue!TypeOK
  PROVE  Known \subseteq 1..made
<1>1. /\ task_queue_ \in Seq(1..MaxTasks) /\ got \in [Threads -> Seq(1..MaxTasks)]
      /\ Workers \subseteq Threads
  BY PoolAssumption DEF Queue!TypeOK, Queue!Task
<1>2. ASSUME NEW n \in Known PROVE n \in 1..MaxTasks
  <2>1. \A i \in DOMAIN task_queue_ : task_queue_[i] \in 1..MaxTasks
    BY <1>1, ElementsOf
  <2>2. ASSUME NEW w \in Workers
        PROVE  \A j \in DOMAIN got[w] : got[w][j] \in 1..MaxTasks
    <3>1. got[w] \in Seq(1..MaxTasks)
      BY <1>1
    <3> QED
      BY <3>1, ElementsOf
  <2>3. \/ \E i \in DOMAIN task_queue_ : task_queue_[i] = n
        \/ \E w \in Workers : \E j \in DOMAIN got[w] : got[w][j] = n
    BY KnownIs
  <2> QED
    BY <2>1, <2>2, <2>3
<1>3. (\A n \in Known : n <= made) /\ made \in Nat
  BY DEF PoolInv, OnePlace, PoolTypes
<1> QED
  BY <1>2, <1>3, PoolAssumption

LEMMA PoolCountsStep ==
  ASSUME PoolInv, PoolCounts, Queue!TypeOK, [Next]_vars
  PROVE  PoolCounts'
<1> DEFINE Located ==
      /\ at' = [t \in Threads |-> at'[t]]
      /\ \A t \in Workers : at'[t] \in WorkerLabels
      /\ \A t \in Threads \ Workers : at'[t] \in CallerLabels
      /\ latch' = Cardinality(Remaining')
<1>1. /\ made' \in Nat /\ made <= made' /\ made \in Nat
      /\ SerialStep /\ over \cup waiting \subseteq 1..made \cup Elsewhere
      /\ Known \subseteq 1..made /\ made <= MaxTasks /\ MaxTasks \in Nat
      /\ together \subseteq 1..MaxTasks \cup Elsewhere
      /\ \A w \in Workers : ret'[w] = "Success" => got'[w] # <<>>
  <2>1. made \in 0..MaxTasks /\ MaxTasks \in Nat
    BY PoolAssumption DEF Queue!TypeOK
  <2>2. /\ made' \in Nat /\ made <= made' /\ SerialStep
        /\ \A w \in Workers : ret'[w] = "Success" => got'[w] # <<>>
    BY PoolRuns
  <2>3. Known \subseteq 1..made /\ made \in Nat
    BY KnownWasMade DEF PoolInv, PoolTypes
  <2> QED
    BY <2>1, <2>2, <2>3 DEF PoolCounts
<1>2. /\ over' \cup waiting' \subseteq 1..made' \cup Elsewhere
      /\ together' \subseteq 1..MaxTasks \cup Elsewhere
  <2>1. /\ \A n \in 1..made : n \in 1..made'
        /\ \A n \in Known : n \in 1..made /\ n \in 1..MaxTasks
    BY <1>1
  <2>2. CASE UNCHANGED serialVars
    BY <1>1, <2>1, <2>2 DEF serialVars
  <2>3. ASSUME NEW n \in Known \cup Elsewhere, SleepBehind(n) \/ RunTask(n)
        PROVE  /\ over' \cup waiting' \subseteq 1..made' \cup Elsewhere
               /\ together' \subseteq 1..MaxTasks \cup Elsewhere
    <3>1. pre_task_[n] \in 0..MaxTasks \cup Elsewhere
      BY <2>1, PoolAssumption
    <3>2. pre_task_[n] # 0 => pre_task_[n] \in 1..MaxTasks \cup Elsewhere
      BY <1>1, <3>1
    <3>3. n \in 1..made' \cup Elsewhere
      BY <1>1, <2>1
    <3>4. /\ over' \cup waiting' \subseteq over \cup waiting \cup {n}
          /\ together' \subseteq together \cup {pre_task_[n]}
          /\ pre_task_[n] # 0 \/ together' = together
      BY <2>3, SerialSteps
    <3>5. over' \cup waiting' \subseteq 1..made' \cup Elsewhere
      BY <1>1, <2>1, <3>3, <3>4
    <3>6. together' \subseteq 1..MaxTasks \cup Elsewhere
      BY <1>1, <3>2, <3>4
    <3> QED
      BY <3>5, <3>6
  <2> QED
    BY <1>1, <2>2, <2>3 DEF SerialStep
<1>3. Located
  <2>0. Workers \subseteq Threads
    BY PoolAssumption
  <2>1. CASE UNCHANGED <<at, latch>>
    BY <2>1 DEF PoolCounts, Remaining
  <2>2. ASSUME NEW t \in Workers, Leave(t) PROVE Located
    <3>1. at[t] = "leave" /\ latch' = latch - 1 /\ at' = [at EXCEPT ![t] = "exited"]
      BY <2>2 DEF Leave, Goto
    <3>2. Remaining' = Remaining \ {t} /\ t \in Remaining /\ Remaining \in SUBSET Workers
      BY <2>0, <3>1 DEF PoolCounts, Remaining
    <3>3. latch' = Cardinality(Remaining')
      BY <3>1, <3>2, RemainingFinite DEF PoolCounts
    <3> QED
      BY <2>0, <3>1, <3>3 DEF PoolCounts, WorkerLabels
  <2>3. ASSUME NEW t \in Workers, NEW label \in WorkerLabels \ {"exited"}, at[t] # "exited",
               at' = [at EXCEPT ![t] = label], UNCHANGED latch
        PROVE  Located
    <3>1. Remaining' = Remaining
      BY <2>0, <2>3 DEF PoolCounts, Remaining
    <3> QED
      BY <2>0, <2>3, <3>1 DEF PoolCounts
  <2>4. ASSUME NEW t \in Threads \ Workers, NEW label \in CallerLabels,
               at' = [at EXCEPT ![t] = label], UNCHANGED latch
        PROVE  Located
    <3>1. Remaining' = Remaining
      BY <2>0, <2>4 DEF PoolCounts, Remaining
    <3> QED
      BY <2>0, <2>4, <3>1 DEF PoolCounts
  <2> QED
    BY <2>1, <2>2, <2>3, <2>4, PoolMoves
<1> QED
  BY <1>1, <1>2, <1>3 DEF PoolCounts

LEMMA PoolCountsInit == Init => PoolCounts
<1> SUFFICES ASSUME Init PROVE PoolCounts
  OBVIOUS
<1>1. /\ at = [t \in Threads |-> at[t]]
      /\ \A t \in Workers : at[t] = "fetch"
      /\ \A t \in Threads \ Workers : at[t] \in {"checkadd", "quit"}
      /\ Workers \subseteq Threads
  BY PoolAssumption DEF Init
<1>2. /\ Remaining = Workers /\ latch = Cardinality(Workers)
      /\ over = {} /\ waiting = {} /\ together = {}
  BY <1>1 DEF Init, Remaining
<1>3. \A w \in Workers : ret[w] = "none"
  BY <1>1 DEF Init, Queue!Init
<1> QED
  BY <1>1, <1>2, <1>3 DEF PoolCounts, WorkerLabels, CallerLabels

LEMMA PoolCountsAlways == Spec => []PoolCounts
<1>1. PoolInv /\ PoolCounts /\ Queue!TypeOK /\ [Next]_vars => PoolCounts'
  BY PoolCountsStep
<1> QED
  BY <1>1, PoolCountsInit, PoolInvariant, QueueTypesInPool, PTL DEF Spec

\* The fields of the pool and of its queue keep their types; the latch counts the
\* workers that have not left, so it does not fall below zero, and what has run
\* or was accepted has been made. (thread_pool.h:36)
THEOREM PoolTypesHold == Spec => []TypeOK
<1>1. PoolInv /\ PoolCounts /\ Queue!TypeOK => TypeOK
  <2> SUFFICES ASSUME PoolInv, PoolCounts, Queue!TypeOK PROVE TypeOK
    OBVIOUS
  <2>1. latch \in 0..Cardinality(Workers)
    BY RemainingFinite DEF PoolCounts, Remaining
  <2>2. accepted \subseteq 1..made
    BY KnownWasMade DEF PoolInv, AcceptedStay
  <2>3. at \in [Threads -> {"fetch", "fetching", "check", "drain", "draining", "leave",
                            "exited", "checkadd", "add", "adding", "quit", "quitting",
                            "endless", "join", "joined"}]
    <3>1. \A t \in Threads : at[t] \in WorkerLabels \cup CallerLabels
      BY DEF PoolCounts
    <3> QED
      BY <3>1 DEF PoolCounts, WorkerLabels, CallerLabels
  <2> QED
    BY <2>1, <2>2, <2>3 DEF TypeOK, PoolCounts
<1> QED
  BY <1>1, PoolInvariant, PoolCountsAlways, QueueTypesInPool, PTL

=============================================================================
