---------------------------- MODULE BlockTaskQueue ----------------------------
(***************************************************************************)
(* BlockTaskQueue (block_task_queue.h): a queue of tasks under one mutex   *)
(* with two condition variables of the library, task_queue_is_not_full_    *)
(* and task_queue_is_not_empty_.                                           *)
(*                                                                         *)
(* Every thread may call, again and again, the functions in May[t].  Two   *)
(* of them are not functions of the queue: "InterruptFetch" sets what the  *)
(* interrupt condition reads and calls Notify(true), "InterruptAdd" calls  *)
(* Notify(false), as the notify function of an InterruptedState does; both *)
(* take no lock.  A thread in Loopers always makes another call, as the    *)
(* worker loops of the usage example (block_task_queue.h:110) and of       *)
(* ThreadPool do.                                                          *)
(***************************************************************************)
EXTENDS Naturals, Sequences, FiniteSets

CONSTANTS
  Threads, NoThread,
  May,              \* the functions each thread calls
  Interruptible,    \* the functions that are called with an interrupt condition
  Loopers,
  MaxTasks,         \* bound: how many tasks are made
  capacity_         \* 0: no limit

AddFns   == {"AddTask", "AddTaskA"}
FetchFns == {"FetchTask", "FetchTaskA"}
TimedFns == {"AddTaskA", "FetchTaskA"}
InterruptFns == {"InterruptFetch", "InterruptAdd"}
Fns      == AddFns \cup FetchFns \cup InterruptFns \cup {"FetchAllTask"}
Task     == 1..MaxTasks

ASSUME QueueAssumption ==
  /\ IsFiniteSet(Threads)
  /\ NoThread \notin Threads
  /\ May \in [Threads -> SUBSET Fns]
  /\ Interruptible \subseteq Fns
  /\ Loopers \subseteq Threads
  /\ MaxTasks \in Nat
  /\ capacity_ \in Nat

VARIABLES
  owner,        \* of mtx_
  not_full,     \* task_queue_is_not_full_
  not_empty,    \* task_queue_is_not_empty_
  task_queue_,
  interrupted,  \* what the interrupt condition reads
  made,         \* the tasks made so far: task n is the n-th
  fn,           \* the function each thread is in
  task,         \* and its argument, when it is an AddTask
  pc,           \* where each thread is in that function
  got,          \* the tasks the calls of each thread have returned
  ret           \* the result of each thread's last call, "none" during a call

vars == <<owner, not_full, not_empty, task_queue_, interrupted,
          made, fn, task, pc, got, ret>>

NotFull  == INSTANCE ConditionVariableXp WITH cv <- not_full
NotEmpty == INSTANCE ConditionVariableXp WITH cv <- not_empty

Init ==
  /\ NotFull!CvInit
  /\ NotEmpty!CvInit
  /\ task_queue_ = <<>>
  /\ interrupted = FALSE
  /\ made = 0
  /\ fn = [t \in Threads |-> "none"]
  /\ task = [t \in Threads |-> 0]
  /\ pc = [t \in Threads |-> "idle"]
  /\ got = [t \in Threads |-> <<>>]
  /\ ret = [t \in Threads |-> "none"]

Goto(t, label) == pc' = [pc EXCEPT ![t] = label]

Lock(t)    == NotFull!Lock(t) /\ NotEmpty!Lock(t)
Release(t) == NotFull!Unlock(t) /\ NotEmpty!Unlock(t)

Idle(t) == pc[t] = "idle" /\ NotFull!Idle(t) /\ NotEmpty!Idle(t)

Call(t, f) ==
  /\ Idle(t)
  /\ f \in May[t]
  /\ fn' = [fn EXCEPT ![t] = f]
  /\ \/ /\ f \in AddFns
        /\ made < MaxTasks
        /\ made' = made + 1
        /\ task' = [task EXCEPT ![t] = made + 1]
     \/ f \notin AddFns /\ UNCHANGED <<made, task>>
  /\ ret' = [ret EXCEPT ![t] = "none"]
  /\ Goto(t, IF f \in InterruptFns THEN "interrupt" ELSE "call")
  /\ UNCHANGED <<owner, not_full, not_empty, task_queue_, interrupted, got>>

-----------------------------------------------------------------------------
(* AddTask, AddTaskA, FetchTask and FetchTaskA *)

\* Mutant: size() <= capacity_ for size() < capacity_.
PredicateOffByOne(t) ==
  IF fn[t] \in AddFns THEN Len(task_queue_) <= capacity_ ELSE Len(task_queue_) > 0

Predicate(t) ==
  IF fn[t] \in AddFns THEN Len(task_queue_) < capacity_ ELSE Len(task_queue_) > 0

Interrupte(t) == interrupted /\ fn[t] \in Interruptible

\* One evaluation of the interrupt condition and the predicate, and what the
\* call does with the answer.
Evaluate(t, late) ==
  \/ /\ Interrupte(t)
     /\ ret' = [ret EXCEPT ![t] = "Interrupted"]
     /\ Goto(t, "unlock")
  \/ /\ ~Interrupte(t) /\ Predicate(t)
     /\ Goto(t, IF fn[t] \in AddFns THEN "push" ELSE "pop")
     /\ UNCHANGED ret
  \/ /\ ~Interrupte(t) /\ ~Predicate(t) /\ late
     /\ ret' = [ret EXCEPT ![t] = "TimeOut"]
     /\ Goto(t, "unlock")
  \/ /\ ~Interrupte(t) /\ ~Predicate(t) /\ ~late
     /\ Goto(t, "sleep")
     /\ UNCHANGED ret

MayBeLate(t) == IF fn[t] \in TimedFns THEN BOOLEAN ELSE {FALSE}

BeginCall(t) ==
  /\ pc[t] = "call"
  /\ fn[t] \in AddFns \cup FetchFns
  /\ Lock(t)
  /\ \/ /\ fn[t] \in AddFns /\ capacity_ = 0
        /\ Goto(t, "push")
        /\ UNCHANGED ret
     \/ /\ fn[t] \in FetchFns \/ capacity_ > 0
        /\ \E late \in MayBeLate(t) : Evaluate(t, late)
  /\ UNCHANGED <<task_queue_, interrupted, made, fn, task, got>>

\* Mutant: a full queue is waited for on task_queue_is_not_empty_.
SleepSwapped(t) ==
  /\ pc[t] = "sleep"
  /\ NotEmpty!Sleep(t) /\ UNCHANGED not_full
  /\ Goto(t, "asleep")
  /\ UNCHANGED <<task_queue_, interrupted, made, fn, task, got, ret>>

Sleep(t) ==
  /\ pc[t] = "sleep"
  /\ \/ fn[t] \in AddFns   /\ NotFull!Sleep(t)  /\ UNCHANGED not_empty
     \/ fn[t] \in FetchFns /\ NotEmpty!Sleep(t) /\ UNCHANGED not_full
  /\ Goto(t, "asleep")
  /\ UNCHANGED <<task_queue_, interrupted, made, fn, task, got, ret>>

WaitForSingleObject(t) ==
  /\ \/ NotFull!WaitForSingleObject(t)  /\ UNCHANGED not_empty
     \/ NotEmpty!WaitForSingleObject(t) /\ UNCHANGED not_full
  /\ UNCHANGED <<task_queue_, interrupted, made, fn, task, pc, got, ret>>

TimeOut(t) ==
  /\ fn[t] \in TimedFns
  /\ \/ NotFull!TimeOut(t)  /\ UNCHANGED not_empty
     \/ NotEmpty!TimeOut(t) /\ UNCHANGED not_full
  /\ UNCHANGED <<task_queue_, interrupted, made, fn, task, pc, got, ret>>

\* The event said nothing of the deadline, or the wait ended because of it.
LateAfterSleep(t) ==
  IF "timedout" \in {not_full.pos[t], not_empty.pos[t]} THEN {TRUE} ELSE MayBeLate(t)

\* Mutant: a timed wait that ends returns without EnterCriticalSection.
WakeUpUnlocked(t) ==
  /\ pc[t] = "asleep"
  /\ not_empty.pos[t] \in {"signalled", "timedout"}
  /\ not_empty' = [not_empty EXCEPT !.wait_count_ = @ - 1, !.pos[t] = "out"]
  /\ \E late \in LateAfterSleep(t) : Evaluate(t, late)
  /\ UNCHANGED <<owner, not_full, task_queue_, interrupted, made, fn, task, got>>

WakeUp(t) ==
  /\ pc[t] = "asleep"
  /\ \/ NotFull!Resume(t)  /\ UNCHANGED not_empty
     \/ NotEmpty!Resume(t) /\ UNCHANGED not_full
  /\ \E late \in LateAfterSleep(t) : Evaluate(t, late)
  /\ UNCHANGED <<task_queue_, interrupted, made, fn, task, got>>

\* Mutant: AddTask notifies the wrong condition.
PushSwapped(t) ==
  /\ pc[t] = "push"
  /\ task_queue_' = Append(task_queue_, task[t])
  /\ NotFull!NotifyAll(t)
  /\ ret' = [ret EXCEPT ![t] = "Success"]
  /\ Goto(t, "unlock")
  /\ UNCHANGED <<not_empty, interrupted, made, fn, task, got>>

Push(t) ==
  /\ pc[t] = "push"
  /\ task_queue_' = Append(task_queue_, task[t])
  /\ NotEmpty!NotifyAll(t)
  /\ ret' = [ret EXCEPT ![t] = "Success"]
  /\ Goto(t, "unlock")
  /\ UNCHANGED <<not_full, interrupted, made, fn, task, got>>

\* Mutant: FetchTask forgets to say that there is room.
PopSilent(t) ==
  /\ pc[t] = "pop"
  /\ got' = [got EXCEPT ![t] = Append(@, Head(task_queue_))]
  /\ task_queue_' = Tail(task_queue_)
  /\ ret' = [ret EXCEPT ![t] = "Success"]
  /\ Goto(t, "unlock")
  /\ UNCHANGED <<owner, not_full, not_empty, interrupted, made, fn, task>>

\* Mutant: FetchTask forgets pop_front.
PopKept(t) ==
  /\ pc[t] = "pop"
  /\ got' = [got EXCEPT ![t] = Append(@, Head(task_queue_))]
  /\ NotFull!NotifyAll(t)
  /\ ret' = [ret EXCEPT ![t] = "Success"]
  /\ Goto(t, "unlock")
  /\ UNCHANGED <<task_queue_, not_empty, interrupted, made, fn, task>>

Pop(t) ==
  /\ pc[t] = "pop"
  /\ got' = [got EXCEPT ![t] = Append(@, Head(task_queue_))]
  /\ task_queue_' = Tail(task_queue_)
  /\ NotFull!NotifyAll(t)
  /\ ret' = [ret EXCEPT ![t] = "Success"]
  /\ Goto(t, "unlock")
  /\ UNCHANGED <<not_empty, interrupted, made, fn, task>>

\* ~unique_lock and the return to the caller.
Unlock(t) ==
  /\ pc[t] = "unlock"
  /\ Release(t)
  /\ fn' = [fn EXCEPT ![t] = "none"]
  /\ Goto(t, "idle")
  /\ UNCHANGED <<task_queue_, interrupted, made, task, got, ret>>

-----------------------------------------------------------------------------
(* FetchAllTask, Notify, and the SetEvents of every notification *)

\* The queue is moved from, which leaves it empty; nobody is notified.
FetchAllTask(t) ==
  /\ pc[t] = "call"
  /\ fn[t] = "FetchAllTask"
  /\ Lock(t)
  /\ got' = [got EXCEPT ![t] = @ \o task_queue_]
  /\ task_queue_' = <<>>
  /\ ret' = [ret EXCEPT ![t] = "Success"]
  /\ Goto(t, "unlock")
  /\ UNCHANGED <<interrupted, made, fn, task>>

SetInterrupted(t) ==
  /\ pc[t] = "interrupt"
  /\ interrupted' = TRUE
  /\ Goto(t, "notify")
  /\ UNCHANGED <<owner, not_full, not_empty, task_queue_, made, fn, task, got, ret>>

Notify(t) ==
  /\ pc[t] = "notify"
  /\ \/ fn[t] = "InterruptFetch" /\ NotEmpty!NotifyAll(t) /\ UNCHANGED not_full
     \/ fn[t] = "InterruptAdd"   /\ NotFull!NotifyAll(t)  /\ UNCHANGED not_empty
  /\ fn' = [fn EXCEPT ![t] = "none"]
  /\ ret' = [ret EXCEPT ![t] = "Success"]
  /\ Goto(t, "idle")
  /\ UNCHANGED <<task_queue_, interrupted, made, task, got>>

SetEvent(t) ==
  /\ \/ NotFull!SetEvent(t)  /\ UNCHANGED not_empty
     \/ NotEmpty!SetEvent(t) /\ UNCHANGED not_full
  /\ UNCHANGED <<task_queue_, interrupted, made, fn, task, pc, got, ret>>

-----------------------------------------------------------------------------

\* A step inside a call, which the thread makes as soon as it can.
Step(t) ==
  \/ BeginCall(t) \/ Sleep(t) \/ WaitForSingleObject(t) \/ WakeUp(t)
  \/ Push(t) \/ Pop(t) \/ Unlock(t) \/ FetchAllTask(t)
  \/ SetInterrupted(t) \/ Notify(t) \/ SetEvent(t)

Next == \E t \in Threads : Step(t) \/ TimeOut(t) \/ \E f \in Fns : Call(t, f)

Spec == Init /\ [][Next]_vars

\* The deadline of a timed call has passed when a notification wakes it.
Expire(t) == WakeUp(t) /\ ret'[t] = "TimeOut"

\* The scheduler runs every thread that can run, a timed call that is woken again
\* and again finds its deadline passed, and a looping thread makes its next call.
\* A timer need not run down: the time left is computed from a second reading of
\* the clock, and one past the deadline gives, as a DWORD, a sleep without end.
Fairness ==
  /\ \A t \in Threads : WF_vars(Step(t)) /\ SF_vars(Expire(t))
  /\ \A t \in Loopers : WF_vars(\E f \in Fns : Call(t, f))

FairSpec == Spec /\ Fairness

-----------------------------------------------------------------------------

Labels ==
  {"idle", "call", "push", "pop", "sleep", "asleep", "unlock", "interrupt", "notify"}

TypeOK ==
  /\ NotFull!CvTypeOK
  /\ NotEmpty!CvTypeOK
  /\ task_queue_ \in Seq(Task)
  /\ capacity_ > 0 => Len(task_queue_) <= capacity_
  /\ interrupted \in BOOLEAN
  /\ made \in 0..MaxTasks
  /\ fn \in [Threads -> Fns \cup {"none"}]
  /\ task \in [Threads -> 0..MaxTasks]
  /\ pc \in [Threads -> Labels]
  /\ got \in [Threads -> Seq(Task)]
  /\ ret \in [Threads -> {"none", "Success", "TimeOut", "Interrupted"}]

\* The queue implements its abstract specification: tasks leave in the order
\* they came in, each to one caller; the limit holds; front() is never called
\* on an empty queue; a call that was refused left nothing behind.
Q == INSTANCE TaskQueue WITH
       Capacity <- capacity_, queue <- task_queue_, interrupt <- interrupted

ImplementsQueue == Q!QueueSpec

\* The queue keeps to the protocol of its two condition variables, which share
\* one mutex: whoever sleeps on one of them is out of the way of the other.
ImplementsCvs == NotFull!CvSpec /\ NotEmpty!CvSpec

\* The threads that wait for tasks, and whether one is not asleep.
Fetchers == {t \in Threads : May[t] \cap FetchFns # {}}
Awake(w) == not_empty.pos[w] \in {"out", "signalled", "timedout"}

\* The wake-ups of AddTask may merge in the event, so that a worker sleeps
\* while there are tasks; but as long as the workers loop, the last worker never
\* falls asleep on a task: one is awake, or the event is set, or a SetEvent is
\* still to come.
NoTaskStranded ==
  (task_queue_ # <<>> /\ Fetchers # {} /\ Fetchers \subseteq Loopers) =>
    \/ not_empty.event_
    \/ \E t \in Threads : not_empty.count[t] > 0
    \/ \E w \in Fetchers : Awake(w)

NobodyDrains == \A t \in Threads : "FetchAllTask" \notin May[t]

\* The same for the threads that wait for room in an empty queue.  It needs that
\* nobody takes tasks out with FetchAllTask, which does not notify.
NoProducerStranded ==
  ( /\ capacity_ > 0 /\ task_queue_ = <<>> /\ ~interrupted /\ NobodyDrains
    /\ NotFull!Asleep # {} ) =>
    \/ not_full.event_
    \/ \E t \in Threads : not_full.count[t] > 0
    \/ \E t \in Threads :
         pc[t] = "push" \/ not_full.pos[t] \in {"signalled", "timedout"}

\* Every task that is in the queue is fetched.
EveryTaskFetched ==
  \A n \in Task :
    (\E i \in DOMAIN task_queue_ : task_queue_[i] = n)
      ~> (\A i \in DOMAIN task_queue_ : task_queue_[i] # n)

\* Every AddTask returns: a producer that waits for room gets it.
EveryAddReturns ==
  \A t \in Threads : fn[t] \in AddFns ~> fn[t] = "none"

\* block_task_queue.h:22 on Notify: "when the interrupt condition holds, wakes
\* the sleeping threads to check it".
InterruptEndsFetch ==
  \A t \in Threads : (interrupted /\ fn[t] = "FetchTask") ~> fn[t] = "none"

=============================================================================
