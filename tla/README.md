# Formal model of HelperForWin32

HelperForWin32 is a library of C++ helpers for Windows: synchronisation objects
that work on Windows XP, and the task queues, pools and loops built on them. The
sources are under `src/Helper`; there are no tests, and the only documentation is
comments (in Chinese, GBK). This directory holds TLA+ modules of the concurrent
core, TLC configurations that check them on small instances, and TLAPS proofs.

## 1. The system

### Components

| component | source | state | operations | used by |
|---|---|---|---|---|
| Condition variable | `condition_variable_xp.*`, `condition_variable.h`, `mutex.h`, `unique_lock.h` | `wait_count_`, an auto-reset event, a critical section | sleep (with a time), wake one, wake all | everything below |
| Latch | `count_down_latch.h`, `condition_variable_ext.h`, `work_simultaneously.h` | `count_`, mutex, condition variable; an `InterruptedState` of the caller | CountDown, Wait, AWait, CountDownAndWait, Notify; Reset and Quit of QuitLatch; Ready/WaitAllReady of WorkSimultaneously | ThreadPool, SerialTask, ThreadMessageLoop, IocpServer |
| Blocking queue | `block_task_queue.h`, `task.h` | a queue, a capacity, one mutex, two condition variables | AddTask(A), FetchTask(A), FetchAllTask, GetTaskCount, Notify | ThreadPool |
| Thread pool | `thread_pool.h`, `serial_task.h` | the threads, the queue, `interrupted_state_`, a latch | AddTask, Quit, Wait, WaitA | users |
| QuickStartCancel | `quick_start_cancel.h` | two actions, three flags, a mutex | PushStart, PushCancel, OnTaskEnd, SetStartAction, SetCancelAction | users |
| Message loop | `thread_message_loop.h` | a thread with its Windows message queue, a latch, `is_stopped_` | PostMessage, PostTask, SendTask(Timeout), Stop, Join(For), WaitReady | users |
| IOCP server | `iocp_server.*` | a completion port, handler threads, a latch | Init, PostTask, AssociateHandle, Quit, QuitA | users |
| Thread handle | `thread.*` | a handle and an id | join, join_for, detach, move, a destructor that terminates | pool, loop, server |
| Named mutex, shared memory | `named_mutex.h`, `share_memory.h`, `ensure_clean_up.h` | kernel handles, a mapped view | Create, Open, Lock, Unlock, Use | users |
| Message window | `message_wnd.*`, `asyn_task.h` | a global window | Init, Asyn, Syn, Uninit | users |
| Singleton, thread-local map, Events | `singleton.h`, `thread_local.h`, `event_observer.h` | a pointer; a map; a list of observers | get/release; Set/Get/GetRef; add/Emit | users |
| Small helpers | `defer.h`, `string.h`, `perf_time.h`, ... | none that lasts | one call each | users |

`x2struct` is a bundled serialisation library with the parsers it uses, about
30,000 of the 33,000 lines of C and C++ in the repository; `HelperTest` is an
empty program. The library's own code is some 2,900 lines.

The components call each other directly. What they share is memory under a
critical section, the events of the condition variables, the message queue of a
thread, the completion port, and a few volatile flags read without any lock.

### What is hard here

* The condition variable is a counter and an **auto-reset event**. A wake-up is a
  SetEvent for each counted waiter; SetEvents on an event that is already set
  disappear. A thread that is counted but not yet blocked takes no SetEvent, so
  wake-ups of several such threads merge into one.
* Two things notify **without the lock**: an `InterruptedState` and
  `Notify()`. They can slip between the predicate and `wait_count_++`.
* Deadlines race with wake-ups and with the clock itself, which `wait_until` reads
  twice, quits with additions, cancels with ends, and a stop with posts. An object
  may be quit, terminated and started again.
* The destructor and the move assignment of `thread` **terminate** a thread that
  was not joined, wherever it is: with a critical section, a singleton or a task
  in its hands. The kernel gives handle values and thread ids out again.
* Kernel calls fail, and processes that share memory die while they own a mutex.

### What makes each part correct

* Condition variable: the counter is the number of threads inside; a
  notification releases every thread that was blocked.
* Latch: the count never goes below zero, the outcome of a wait was true during
  it, timed waits return, one waiter is never forgotten, and of several only some
  whose wake-ups merged.
* Queue: first in, first out, each task to one caller, never more than
  `capacity_`; whatever wake-ups merge, not everybody sleeps while there is work.
* Pool: a task runs once; what was accepted before Quit runs; workers end.
* QuickStartCancel: one task at a time; a cancel reaches the task it finds; a
  start that must wait is answered.
* Message loop: a task has one owner; the stack of a SendTask outlives its task;
  Stop ends the loop after what was queued before, if WM_QUIT could be posted.
* IOCP server: one exit signal per handler, behind the accepted tasks.
* Thread handle: an open handle is in one object; a thread that was joined has
  ended. Singleton: one instance. Thread-local map: a thread finds its own value.
* Shared memory: who opened one name sees one memory and has it alone in Use;
  a Use goes on though the owner of the mutex died.
* Message window: one object, made and deleted once whoever calls; who is told
  that there is a window has one; a task has one owner; a Syn returns.

## 2. Modules

    Latch           TaskQueue                  abstract specifications
      ^ implements    ^ implements
    CountDownLatch  BlockTaskQueue <- ThreadPool
      |  INSTANCE     |  two INSTANCEs
      ConditionVariableXp <- NotifyAllReach

    WorkerThreads (extends ThreadHandle)  -- INSTANCE -->  Singleton, ThreadLocal

    QuickStartCancel   ThreadMessageLoop   IocpServer   MessageWnd   ShareMemory

**ConditionVariableXp.** State: `owner` of the critical section and a record `cv`
with `wait_count_`, `event_`, `count` (the SetEvents each notification still has
to make: the local variable of `WakeAllConditionVariableXp`) and `pos`, where
each thread is in `SleepConditionVariableXp`. One action per Windows call:
`Sleep` is `wait_count_++` with LeaveCriticalSection, `WaitForSingleObject` either
takes the event or blocks, `TimeOut` ends a blocked wait, `Resume` is
EnterCriticalSection with `wait_count_--`, `NotifyAll` reads the counter,
`SetEvent` releases one blocked thread or sets the event. The module is a library
of operators for its clients and a specification of its own, `CvSpec`: any
correct client. `NotifyAllReach` adds a history variable: the threads that a
notify_all under the lock found blocked.

**CountDownLatch.** Every thread runs one program, chosen by the sets it is in
(`Counters`, `Waiters`, `TimedWaiters`, `Interrupters`, `Resetters`). The double
check of CountDown is two actions; the decrement wraps at `MaxULong`, a small
number that stands for ULONG_MAX. `Evaluate` is PredicateAndInterrupte, the
interrupt condition first. `midway` remembers who was counted and not blocked when
a CountDown notified. `Latch` is what a latch promises: counts, resets and returns
whose outcome is true when they happen.

**BlockTaskQueue.** `May[t]` says which functions each thread calls, again and
again; `fn` is the function it is in and `pc` where. Two INSTANCEs of the
condition variable share `owner`. A task is a number, in the order they were
made. `TaskQueue` is the bounded queue it implements.

**ThreadPool.** The queue, step by step, by INSTANCE; `at` is the control of a
worker or caller around its calls. `CheckAdd` and `AddTask` are two steps, as the
flag is read without the lock. Of the latches of the pool and of the serial tasks
there is the count and who sleeps; `pre_task_` says which task each one waits for.
`SleepBehind` is a worker's sleep on the `task_over_` of another task, and `RunTask`
the task with its CountDown, which wakes at least one of those that sleep on it but
need not wake all (what `NobodyForgotten` of the latch allows); `together` remembers
behind which tasks two slept at once. A pre_task_ need not be a task of the pool:
those of `Elsewhere` run on threads of their own. WaitA may go into the sleep without
end of `wait_until` (`AWaitEndless`). A caller that was told false by QuitAndWaitA
calls it again; that is how the code means it to be used. A pool of no threads is
left out.

**QuickStartCancel.** Each function holds the mutex for all of it and is one
action. An action object may throw; the flags then stay as they were set.

**ThreadMessageLoop.** The loop thread, two kinds of callers, and the message
queue, which exists from PeekMessage to the end of the thread. `heap` are the
allocated tasks, `open` the latches that are down, `lost` the tasks that nobody
will delete. Any post may be refused by a full queue; a Stop whose WM_QUIT was is at
"refused", and goes on as the code does. A handler of `on_message_` may say that it has handled the message
of a task, and `Destroy`, the destructor, terminates a loop that was not joined
with the task it is in.

**IocpServer.** An owner that calls Init and Quit/QuitA again and again, the
handler threads, clients that post. `killed` is a thread that its destructor
terminated. `completion_port` is invalid, a port, or `null`: what Init leaves when
CreateIoCompletionPort fails. A post to a port may fail too; `unsent` counts the
exit signals of a Quit that could not be posted, which the code does not look at.

**ThreadHandle, Singleton, ThreadLocal, WorkerThreads.** `ThreadHandle` has the
two members of each thread object, the kernel's table from handle values to
threads, and the `life` and `id` of each thread; join and join_for are three steps
(the wait, CloseHandle, the assignment), and a move or a destructor one. `meant`
remembers which thread somebody last made or moved into each object, whatever its
handle has come to stand for; a join that returns records that one in `joined`. Free
values and ids are given out again. `Singleton` is one step per access of the
pointer and the mutex, `ThreadLocal` a map from ids to the thread that stored.
Both are libraries of operators. `WorkerThreads` composes them: its workers call
them while its callers make, move, join, detach and terminate the workers, so a
critical section may lose its owner.

**ShareMemory.** Processes with one object each, the kernel's mappings and
mutexes in one space of names, and `Crash` and `Restart`. Every kernel call may
fail. `at` is where a process is: between the mapping and the mutex of a Create,
in the wait of the mutex, in user_fn (`use after death` if the wait returned
WAIT_ABANDONED), in the destructor.

**MessageWnd.** Every thread may init, uninit, post and send, and runs a message
loop in between, where the thread that made the window dispatches its messages.
`init` and `uninit` are the two `once_flag`s of `call_once`: `Done`, `First`,
`Enter` and `Leave` are its lock and its flag. The global pointer is `null` or
leads to an `object` or, between `delete` and its assignment, to a `deleted` one;
a call reads it twice. A call on a deleted object may read any window handle, and
one through the null pointer ends the process (`gone`). A post that fails deletes its
task, as a release build does; with assertions `asyn_task.h:26` ends the process
there. `heap` are the AsyncTasks
that are allocated, `dropped` the messages Windows threw away.

The `...Proofs` modules hold the theorems, the `MC...` modules the small sets of
threads. A proof module is about one component; `LatchAndStartProofs` (the latch and
QuickStartCancel) and `SharedObjectsProofs` (MessageWnd and ShareMemory) extend two
components, which is why QuickStartCancel and MessageWnd name their specifications
`StartSpec` and `WndSpec`: the two modules of each pair have no name in common. Operators after a comment that begins with "Mutant" are not part of a
model: each is a plausible error of the definition after it, kept to show that
the property it names in `PROJECT.json` notices it.

### Abstractions

* **Deadlines** have no clock. A timed call may find at any evaluation that its
  deadline has passed (`late`), must find so after its wait timed out
  (`LateAfterSleep`), and the `TimeOut` of a blocked wait may come at any moment.
  This covers every race of a deadline. Of the arithmetic of the remaining
  milliseconds it covers one case: `wait_until` compares a first reading of the
  clock with the deadline and subtracts a second one; when the deadline is past at
  the second, the negative difference is, as a DWORD, a sleep without end (label
  "endless" of the latch, `AWaitEndless` of the pool, the message loop and the
  server, and no fairness of TimeOut in the queue and the pool). A duration of 2^32 ms or more,
  which the cast shortens, is not covered.
* `volatile` flags are read and written in one step, as on x86.
* The critical section of the condition variable is not re-entered; only
  QuickStartCancel calls user code under a lock.
* ThreadMessageLoop and IocpServer use latches of one waiter as abstract ones,
  which `LoneWaitReturns` of the latch justifies. So one thread at a time is in
  WaitReady of a loop: of two, whose wake-ups may merge, one could stay. The latches
  of the pool and of its serial tasks may have several waiters, and there merging is
  modelled by what it does: of the sleepers at least one is woken.
* The port and the message queue are first in, first out, and posting to
  either may fail, also when it exists (a full queue, no memory in the kernel).
* Failures of Windows calls are modelled where the code looks at them or goes on
  in spite of them: the port, the posts (also where the result is ignored), the window, the mapping, the view and the
  mutex; and making a thread in a start action may throw. No memory for an event
  or a critical section is left out.

## 3. What TLC checks

Every run is complete: the whole state space of its instance.

| run | instance | shows |
|---|---|---|
| `cv` | 4 interchangeable threads | the counter is exact; a notify_all under the lock releases all it found blocked |
| `latch_safety` | 2 counters, a CountDownAndWait, a waiter, a sleeper, an interrupter, a Reset; count 2 | refinement of Latch, nobody is forgotten at zero, bounded calls return, and a lone wait without a deadline |
| `queue_safety` | 3 threads, all functions, capacity 1, 2 tasks | refinement of TaskQueue, protocol of both condition variables |
| `queue_flow` | 2 producers, 2 looping workers, capacity 2, 3 tasks | nobody is stranded, every task is fetched, every AddTask returns |
| `queue_interrupt` | a worker and an interrupt | *violation*, see below |
| `pool` | 2 workers, 2 serial tasks behind one that runs outside the pool, a quitter that waits or repeats QuitAndWaitA, discarding or not | a task runs once; accepted tasks run; serial tasks finish or two wake-ups merged; a repeated Quit ends the workers |
| `worker_threads` | 2 callers, of which one only joins, 2 objects, 2 workers with 3 calls, 2 handles, ids and addresses | handles have one owner, who was in a joined object has ended, one instance, own values, what a call may stay behind |
| `share_memory` | 2 processes, 2 names of which one is the name of the other's mutex, 3 objects of each kind | shared and exclusive; a Use goes on |
| `quick_start_cancel` | 4 starts | one task, never stuck, cancels reach, starts are answered |
| `message_loop` | 2 clients, 2 stoppers, 2 messages; any post may be refused | ownership, stack lifetime, Stop, and which calls return |
| `iocp_server` | 2 handlers, 2 clients, 3 tasks, 2 lives; any post may fail | exit signals, Quit, QuitA |
| `message_wnd` | 3 threads, 2 messages | one object, made and deleted once; Init's answer, ownership, Syn |

**Why the bounds are enough to be interesting.** Wake-ups merge as soon as two
threads are counted and not blocked; a time-out racing with a SetEvent needs one
more thread; both happen in every run of the latch and the queue. The queue of
one place is full and empty with 2 tasks; `queue_flow` has one task more than
places, so that a producer blocks while both workers sleep. In the pool both workers
wait for one `pre_task_`, so that two wake-ups on one `task_over_` merge; it runs
outside the pool, because a third worker to run it makes a state space of more than
14 million states. A chain of tasks inside the pool is the same wait with one sleeper
at most, and the proofs hold for every `pre_task_`. A double check needs
more callers than counts. Two lives of the server are needed for what a killed
handler or a late post leaves to the next Init. Four starts let a start, a wish,
two cancels and the next start overlap. As many handle values and ids as threads
force their reuse. A third kernel object of each kind is there when both
processes still have an old one and a new one is made. `MaxTasks`, `MaxStarts`,
`MaxLives`, `MaxCalls` and `MaxULong` are the only bounds; sets of threads are the rest. `MaxULong = 3` is
above every count used, and a count that wrapped would show.

**CHECK_DEADLOCK FALSE** appears where the program really may stop: in a queue
or pool whose callers have made all their tasks and whose workers wait, in a loop
that was stopped with clients waiting for it, in a server that nobody restarts,
in workers that have made all their calls or stay behind a critical section whose
owner was terminated, in a process that a call on a deleted window object has
ended, and in `latch_safety`, where a wait without a deadline may sleep for ever.
`cv`, `quick_start_cancel` and `share_memory` check for deadlock.

**Fairness.** Every thread that can run is run (weak fairness of each thread's
steps inside a call; the scheduler of Windows does that). In the latch and the
server the timer of a wait that is not endless runs down (weak fairness of
TimeOut); in the queue and the pool no timer need ever run down, because the time
left may have been computed too late. `SF_vars(Expire(t))` in the queue
and the pool says that a timed call which is woken again and again finds its
deadline passed in the end; without it a call of 50 ms could go round its loop for
ever. Nothing forces a caller to call: AddTask, Stop, Quit and Call are unfair,
and so is a wait, a Reset or an interrupt of the latch that has not begun
(`NotCalled`); the exceptions are the `Counters` of the latch, the workers in
`Loopers`, which come back, and the caller of QuitAndWaitA, who repeats it until
it returns true. The first Quit of the pool is unfair, so a pool that nobody quits
is a behaviour too, and `EveryTaskRuns` says something of it. Locks of threads are
fair only in this sense: a thread's step is weakly fair, so a thread that competes
for a critical section for ever is not promised it unless the competitors stop.
The named mutex is strongly fair (`SF_vars(Lock(p))`): it is a kernel object, whose
waiters are served in turn. Tasks, user_fn and the functions of threads end. The
thread of the window comes back to its message loop: that is what a thread that
makes a window has to do, and the only place where its messages are handled.

**Type invariants.** A `TypeOK` of each module is in it (`CvTypeOK`, `StartTypeOK`,
`WndTypeOK`). All of them are proved (section 4) and therefore in no cfg.

### A disagreement found

1. `queue_interrupt`. The comment at `block_task_queue.h:22` says Notify is for
   waking the sleeping threads to check an interrupt condition. It takes no lock,
   so it may come between a worker's check and its `wait_count_++`: FetchTask
   sleeps for ever on an interrupted queue. The latch's Notify has the same gap.

What else surprised us is in the models, and the properties are stated so that
they say what does hold: with two waiters that are
counted and not yet blocked the SetEvents of a notify_all merge, so that one Quit
of a QuitLatch may leave an InterruptedSleep to its deadline, and a Wait without
a deadline to itself (`LoneWaitReturns` is about one waiter, `BoundedCallsReturn`
about the rest); a single `ThreadPool::Quit` may leave a worker asleep
(`RepeatedQuitEndsPool` needs the repetition); a task whose AddTask overlaps Quit
may be left in the queue (`AcceptedTasksRun` is about earlier ones); of two workers
whose serial tasks wait for one `pre_task_` one may sleep for ever, as their wake-ups
merge (`LeftAsleep` in `EveryTaskRuns` and `RepeatedQuitEndsPool`), and the pool then
never ends; a Stop whose WM_QUIT a full queue refuses leaves the loop in GetMessage,
as `is_stopped_` is read only once, before the loop (`StopEndsLoop` is about the
others); a SendTask
behind WM_QUIT, or whose task a handler keeps, never returns, nor does a WaitReady
of a loop that was stopped before it was ready (`CallsReturn` names these places);
SendTaskTimeout returns true when it timed out, too; a wait with a deadline has
none when its thread loses the processor between the two readings of the clock in
`wait_until` (`condition_variable.h:85` and `:87`), so an InterruptedSleep, a
SendTaskTimeout or a QuitA may wait for ever (`BoundedCallsReturn`, `CallsReturn`
and `QuitReturns` name the case), and so may a QuitAndWaitA, which then is not
repeated, so that a worker whose wake-up was lost sleeps on (`WaitsInVain` in
`RepeatedQuitEndsPool`); an IocpServer started with 0
handlers joins without a limit in QuitA (`JoinDoesNotWait`); a port that could not
be created is NULL, which Init does not look for, and Quit of such a server never
returns, nor does one of a server with a port when an exit signal could not be
posted, which nobody looks at (`QuitReturns`, `unsent`); a task whose post fails is not
deleted there; the task of
a wish that was noted before a first PushCancel is started after the cancelled one
ends (`CancelReachesTheTask` speaks of the tasks alive at the cancel); an
UninitMessageWnd on another thread than the window's leaves the window with a
pointer to freed memory, and one that overlaps another thread's call may end the
process (`MessageWnd` takes both as they are); InitMessageWnd after an Uninit
answers as before, without a window (`InitTellsTheTruth` ends with the first
Uninit). Two callers that join one thread object at once may close a handle that
the kernel has given out again (`HandlesOwned` and `JoinedMeansEnded` are about the
others); a move
assignment to a joinable object loses a handle; a GetInstance that overlaps a
ReleaseInstance may return null (`OneInstance` holds all the same); a Use after a
Create that returned false may run without the mutex (`SharedAndExclusive` is
about calls that returned true); a Lock that returns false after the death of the
owner does own the mutex, which is why `EndUse` gives it back unasked
(`UseReturns`).

## 4. What is proved

All theorems hold for every value of the constants that the modules' assumptions
allow: any finite set of threads, any capacity, any count, any number of starts.

* `ConditionVariableXpProofs`. `CvInv` (types and "the counter is the number of
  threads inside") is inductive by itself. `ReachInv` adds `EnoughSetEvents`: while a
  notification under the lock still has targets, its thread owns the lock, so
  nobody new is counted, and a SetEvent is still to come for every thread that is
  blocked or about to block. Only threads about to block cause SetEvents to merge,
  so the rest suffices.
* `LatchAndStartProofs`, the latch. `LatchInv` is the counter, the types and
  `CallsInProgress`: a call that has not evaluated its predicate for the last time
  has no outcome yet, only a call with a deadline can be timed out, and only a
  thread of Resetters is at Reset. That is what the abstract latch needs to allow a
  return exactly once and a TimeOut only to timed calls. Each step is one of the
  abstract latch or a stutter (`ImplementsLatch`), and one of `CvNext` (a lemma, for
  the facts about the condition variable). `LatchForgetsNobody` needs two invariants
  more. `HoldsTheLock`: a thread that notifies after a count, or is about to sleep,
  owns the lock, the first with a count of zero and the second with one above zero;
  so nobody is on its way into a sleep when the wake-ups are counted. And
  `NotForgottenInv`: from the notification on, either a SetEvent is still owed to
  every sleeper (`EnoughOwed`), or only threads that were midway sleep, and the event
  is set for them or one of them has left (`AllReached`). Each SetEvent takes one
  thread out of the sleep or, when none is blocked, sets the event.
* `BlockTaskQueueProofs`. `QueueInv` is the same for both condition variables
  (`NotFullInv`, `NotEmptyInv`, by INSTANCE of the theorems above), the types and
  `Control`, which ties `pc`, `fn` and `ret` together and says what a thread may
  rely on: one at `push` has room, one at `pop` has a task, one at `sleep` has just
  seen neither, each as the owner of the mutex. It gives `QueueTypeCorrect`,
  `QueueImplementsCvs` and
  `QueueImplementsAbstract`. `NoTaskIsStranded` and `NoProducerIsStranded` need
  `WorkerComing` and `ProducerComing`: somebody is awake, the event is set or a
  SetEvent is to come, in a form that each step keeps; the key step is that a
  thread which falls asleep on an event that is not set has just seen the queue
  empty (or full) under the lock.
* `LatchAndStartProofs`, QuickStartCancel. `StartInv` adds `CancelingIsTold`: while
  the object is cancelling and no action threw, cancel_action_ was called for the
  task alive.
* `ThreadPoolProofs`. `PoolInv` sees the queue through what its steps do to the
  tasks: a step keeps them (`Keeps`), pushes one (`Pushes`) or hands one out
  (`Pops`), and a call makes one (`Begins`). `QueueControl` ties `fn` and `pc` to the
  label `at` of the pool and to the mutex, `OnePlace` says that a task is either
  with its AddTask, in the queue or with one worker, `TakenRun` that a worker has
  run all it got but what it is about to run, and `AcceptedStay` that what Quit
  found is still in the queue or with a worker, and not in the queue once a worker
  of a pool that does not discard is gone. `TasksRunOnce` and
  `AcceptedTasksAreRun` follow; neither depends on what serial tasks wait for.
  `PoolUsesItsQueue` is the composition: each step of the pool is a step of the
  queue, or leaves the queue alone, so `Spec => Queue!Spec`, and every theorem about
  the queue is one about the queue inside the pool (`PoolQueueIsAQueue`: it is first
  in, first out, and keeps to the protocol of its condition variables). The types of
  the pool (`PoolTypesHold`) use the types of the queue that come this way, and
  `PoolCounts`: the latch counts the workers that have not left, and a worker that
  was told Success has a task to run.
* `IocpServerProofs`. `ServerInv` is the types, `ThreadsInv` (a thread that is not in
  the vector is over, before Quit nobody has an exit signal, and the latch of an
  Init that was told a number counts the threads that have not left) and `TasksInv`
  (a task is with one client, then in the port, with a thread, done or lost; and what
  was accepted is in front of every exit signal, so that no thread leaves while it
  is in the port). `OneExitPerHandler` is inductive with them: a signal is
  posted or lost, taken out or turned into a thread that leaves, one at a time. From
  `ServerInv` follow `OneExitEach`, `JoinIsImmediate` and `QuitRunsTasks`. Two more
  are the safety behind the liveness property `QuitReturns`: while a Quit whose signals were
  all posted waits, some thread can move (`QuitNotStuck`), and without a port it
  waits for ever (`NullPortNeverQuits`, an action property), the case that
  `QuitReturns` excepts.
  Both need `VectorIsAlive`: no thread of the vector was killed, and one without a
  port never leaves its loop.
* `SharedObjectsProofs`, MessageWnd. `WndInv`: `Onces` (who is in a call_once owns it,
  and the second begins only after the first is done), `Answers` (what the pointers
  and `ret` say of the window at each stage of the two), `OnePlace` (a message is with
  one caller, in the queue, in MessageWndProc or dropped) and `InProc` (MessageWndProc
  runs in the window's thread, between that thread's own calls). `InitTruth` and
  `UninitFinal` rest on the first two, `TasksOwned` on all. `NobodyWaitsInACircle` is
  the safety behind `SynReturns`: a caller in SendMessage waits for the window's
  thread, which is not in SendMessage itself, and in call_once only behind a thread
  that waits for nobody.
* `ThreadMessageLoopProofs`. `LoopInv`: a message has one holder, its caller, then
  the queue, then the loop (`OneHolder`), and is on the heap as long as it has one
  (`HeapIsHeld`); a latch that is down belongs to a task the loop is done with;
  nothing is posted before the loop is ready (`ReadyInv`), so that everything queued
  when Stop was called is ahead of every WM_QUIT (`StopInv`, with `AheadOfQuit`). It
  gives `TasksAreOwned`, `FramesOutliveTasks` and `AcceptedAreKept`.
* `WorkerThreadsProofs`. `WorkerInv` has three parts: `HandleInv` (a running thread
  has an id of its own, who a join has waited for is dead), `SingletonInv` (who is in the
  critical section owns it, and what the pointer and the memory are at each
  place there, also when its owner was terminated) and `LocalInv` (a value belongs
  to a thread that had the id). `HandlesAreOwned` rests on `OwnedInv`: while no
  two callers join one object at once, a handle in an object is open and in no
  other one, except between CloseHandle and the assignment after it. `JoinedHaveEnded`
  rests on that and on `MeantInv`: outside a join the handle of an object still leads
  to the thread that was made or moved into it, and a join waits for that thread.
  Without `OwnedInv` it would not: a value that is given out again would lead an
  object that kept it to a stranger.
* `SharedObjectsProofs`, ShareMemory. `ShareInv`: an object with a name is open somewhere and has
  one name; from a successful mapping on, the name of a Create stands for what
  the process holds (`Opening`); and who is in user_fn owns its mutex
  (`UserOwns`). `OpenedIsSharedAndExclusive` follows.

**Assumptions.** Besides the named ASSUMEs of the modules (finite sets of threads,
disjoint roles, values that are not members of the sets they are kept apart from, a
`pre_task_` for each serial task, a pool and a server of at least one thread, different names for the mutexes of
different names) the proofs use none.

**Three definitions no run checks**, because they are lemmas of a liveness property
that one does: `QuitIsNotStuck`, `NullPortHangs` (IocpServer) and `NoCircularWait`
(MessageWnd). They can be added to the cfg of their run (the first and the last as
an INVARIANT, `[][NullPortHangs]_vars` as a PROPERTY), and hold there.

**Only model-checked** is liveness: `BoundedCallsReturn`, `LoneWaitReturns`,
`EveryTaskFetched`, `EveryAddReturns`, `EveryTaskRuns`, `RepeatedQuitEndsPool`,
`EveryStartAnswered`, `StopEndsLoop`, `CallsReturn` (twice), `QuitReturns`,
`UseReturns`, `SynReturns`, and the violated `InterruptEndsFetch`. Every other
property of a run is a theorem. Liveness under fairness and ENABLED are out of the
prover's reach, and so is induction over data; no module uses RECURSIVE operators,
and nothing here needs such an induction.

## 5. Plan

Done, in the order of importance: the condition variable, the latch, the queue
(with their abstract specifications), the pool, QuickStartCancel, the message
loop, the server, the message window, thread objects with the singleton and the
thread-local map, shared memory; and the proofs of section 4.

What is left:

1. The safety behind other liveness properties, as for the server and the window:
   that the draining workers of a quitting pool are never all asleep on an accepted
   task, and that a caller of the message loop waits only where `CallsReturn` says.
2. The rest of the deadline arithmetic of `wait_until`: durations beyond the width
   of a DWORD.
3. Two WaitReady of a loop at once, on the detailed latch.
4. `RegisterEventHandler` of the window with the observers of `Events`.

### Not modelled

* `x2struct` with rapidjson, rapidxml and libbson: bundled libraries, nine tenths
  of the lines in the repository, which none of the classes above uses.
* `Events` (`event_observer.h`): a list called in order until one refuses, without
  a lock; a model would restate one `std::find_if`. Of what its users can do, the
  message loop has the case that a handler keeps a task.
* The small helpers (`defer.h` apart, which is in ShareMemory's EndUse): one call
  each, no state that outlives it. `HelperTest`: an empty main.
* Of modelled parts: I/O packets and AssociateHandle of the server (virtual
  functions that are empty here), an Init of a server that is up; a task that calls
  back into the window or into its own loop; `ThreadLocalT::GetStoredData`, which
  copies an `unordered_map` without its lock; `NamedMutexExist`, which looks at an
  error code that an earlier call may have left; try_lock, release and the moves of
  `unique_lock`, which nobody uses.

## 6. Running

    tlc -config MCQueueFlow.cfg MCBlockTaskQueue     # the modules are in PROJECT.json
    tlapm BlockTaskQueueProofs.tla
