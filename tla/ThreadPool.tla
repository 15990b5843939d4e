------------------------------ MODULE ThreadPool ------------------------------
(***************************************************************************)
(* ThreadPool (thread_pool.h) on its BlockTaskQueue, with the serial tasks *)
(* of serial_task.h: a task may wait for another one to be over.           *)
(*                                                                         *)
(* The queue is the module BlockTaskQueue, step by step; the pool adds the *)
(* control of its workers and of its callers: a thread of Clients calls    *)
(* AddTask again and again, and one of Quitters calls QuitAndWait, or calls *)
(* QuitAndWaitA until it returns true.  Serial tasks that are not given to *)
(* this pool (Elsewhere) run on threads of their own.                      *)
(*                                                                         *)
(* Of the latches, the one of the pool and the one of each serial task,    *)
(* there is the count and who sleeps on it; that of several sleepers some  *)
(* may not be woken is what CountDownLatch and ConditionVariableXp do.     *)
(***************************************************************************)
EXTENDS Naturals, Sequences, FiniteSets

CONSTANTS
  Threads, NoThread,
  Workers,              \* the threads of thread_group_
  Clients, Quitters,
  Elsewhere,            \* serial tasks that are run outside the pool
  pre_task_,            \* the task each task waits for, 0 for none
  MaxTasks              \* bound: how many tasks are made

VARIABLES
  owner, not_full, not_empty, task_queue_, interrupted,  \* block_task_queue_
  made, fn, task, pc, got, ret,
  at,                   \* where each thread is in the functions of the pool
  discard_when_quit,    \* the template parameter of the pool
  latch,                \* the count of the pool's latch
  over,                 \* the tasks that have run: task_over_ is at 0
  waiting,              \* the tasks that sleep on the task_over_ of their pre_task_
  together,             \* history: the tasks that two tasks slept behind at once
  accepted              \* history: the tasks in the queue or fetched when Quit
                        \* set interrupted_state_

queueVars == <<owner, not_full, not_empty, task_queue_, interrupted,
               made, fn, task, pc, got, ret>>
serialVars == <<over, waiting, together>>
poolVars == <<at, discard_when_quit, latch, serialVars, accepted>>
vars == <<queueVars, poolVars>>

\* What the pool calls of the queue; only FetchTask gets an interrupt condition.
Calls ==
  [t \in Threads |->
     CASE t \in Workers  -> {"FetchTask", "FetchTaskA"}
       [] t \in Clients  -> {"AddTask"}
       [] t \in Quitters -> {"InterruptFetch"}
       [] OTHER          -> {}]

Queue == INSTANCE BlockTaskQueue WITH
           May <- Calls, Interruptible <- {"FetchTask"}, Loopers <- {}, capacity_ <- 0

\* A pool of no threads runs nothing, and is left out.
ASSUME PoolAssumption ==
  /\ IsFiniteSet(Threads)
  /\ NoThread \notin Threads
  /\ MaxTasks \in Nat
  /\ Workers # {}
  /\ Threads = Workers \cup Clients \cup Quitters
  /\ Workers \cap (Clients \cup Quitters) = {}
  /\ Clients \cap Quitters = {}
  /\ Elsewhere \subseteq Nat \ 0..MaxTasks
  /\ pre_task_ \in [1..MaxTasks \cup Elsewhere -> 0..MaxTasks \cup Elsewhere]

Init ==
  /\ Queue!Init
  /\ at = [t \in Threads |->
             CASE t \in Workers  -> "fetch"
               [] t \in Clients  -> "checkadd"
               [] OTHER          -> "quit"]
  /\ discard_when_quit \in BOOLEAN
  /\ latch = Cardinality(Workers)
  /\ over = {}
  /\ waiting = {}
  /\ together = {}
  /\ accepted = {}

Goto(t, label) == at' = [at EXCEPT ![t] = label]

\* A call of the queue by t: label is where t is until it returns.
CallQueue(t, f, label) ==
  /\ Queue!Call(t, f)
  /\ Goto(t, label)
  /\ UNCHANGED <<discard_when_quit, latch, serialVars, accepted>>

Returned(t, label) == at[t] = label /\ fn[t] = "none" /\ Queue!Idle(t)

Control(t, label) ==
  /\ Goto(t, label)
  /\ UNCHANGED <<queueVars, discard_when_quit, latch, serialVars, accepted>>

-----------------------------------------------------------------------------
(* SerialTask::operator() *)

Behind(p) == {n \in waiting : pre_task_[n] = p}

\* pre_task_->task_over_.Wait() finds the other task not over, and sleeps.
SleepBehind(n) ==
  /\ n \notin waiting
  /\ pre_task_[n] \notin over \cup {0}
  /\ waiting' = waiting \cup {n}
  /\ together' = together \cup {p \in {pre_task_[n]} : Behind(p) # {}}
  /\ UNCHANGED over

\* Mutant: the task does not count task_over_ down.
RunSilent(n) ==
  /\ n \notin waiting
  /\ pre_task_[n] \in over \cup {0}
  /\ over' = over \cup {n}
  /\ UNCHANGED <<waiting, together>>

\* The task, and its task_over_.CountDown().  The SetEvents for the tasks that
\* are counted as sleepers but not blocked yet may merge: one of them is woken,
\* and the others may sleep for ever, because no other CountDown notifies.
RunTask(n) ==
  /\ n \notin waiting
  /\ pre_task_[n] \in over \cup {0}
  /\ over' = over \cup {n}
  /\ \E woken \in SUBSET Behind(n) :
       /\ Behind(n) # {} => woken # {}
       /\ waiting' = waiting \ woken
  /\ UNCHANGED together

\* Another thread does the same for a task that is not of this pool.
RunElsewhere(n) ==
  /\ n \notin over
  /\ SleepBehind(n) \/ RunTask(n)
  /\ UNCHANGED <<queueVars, at, discard_when_quit, latch, accepted>>

-----------------------------------------------------------------------------
(* A worker *)

\* block_task_queue_.GetTaskCount(), for a caller that gets the lock now.
TaskCountIs(n) == owner = NoThread /\ Len(task_queue_) = n
SomeTasks      == owner = NoThread /\ Len(task_queue_) > 0

Fetch(w) == at[w] = "fetch" /\ CallQueue(w, "FetchTask", "fetching")

\* The task a worker has fetched, and is to run.
Running(w) == got[w][Len(got[w])]

HasFetched(w) ==
  (Returned(w, "fetching") \/ Returned(w, "draining")) /\ ret[w] = "Success"

WaitForPreTask(w) ==
  /\ HasFetched(w)
  /\ SleepBehind(Running(w))
  /\ UNCHANGED <<queueVars, at, discard_when_quit, latch, accepted>>

Run(w) ==
  /\ HasFetched(w)
  /\ RunTask(Running(w))
  /\ Goto(w, IF at[w] = "fetching" THEN "check" ELSE "drain")
  /\ UNCHANGED <<queueVars, discard_when_quit, latch, accepted>>

\* After its task, or with none because FetchTask was interrupted.
AtCheck(w) == at[w] = "check" \/ (Returned(w, "fetching") /\ ret[w] # "Success")

\* Mutant: GetTaskCount is not asked.
CheckHasty(w) ==
  /\ AtCheck(w)
  /\ \/ ~interrupted /\ Control(w, "drain")
     \/ interrupted /\ Control(w, "leave")

\* if (interrupted_state_ && (discard_when_quit || !GetTaskCount())) break;
Check(w) ==
  /\ AtCheck(w)
  /\ \/ ~interrupted /\ Control(w, "drain")
     \/ interrupted /\ discard_when_quit /\ Control(w, "leave")
     \/ interrupted /\ ~discard_when_quit /\ TaskCountIs(0) /\ Control(w, "leave")
     \/ interrupted /\ ~discard_when_quit /\ SomeTasks /\ Control(w, "drain")

\* while (interrupted_state_ && GetTaskCount() > 0), then FetchTask again.
Drain(w) ==
  /\ at[w] = "drain"
  /\ \/ ~interrupted /\ CallQueue(w, "FetchTask", "fetching")
     \/ interrupted /\ TaskCountIs(0) /\ CallQueue(w, "FetchTask", "fetching")
     \/ interrupted /\ SomeTasks /\ CallQueue(w, "FetchTaskA", "draining")

DrainTimeOut(w) ==
  /\ Returned(w, "draining") /\ ret[w] = "TimeOut"
  /\ CallQueue(w, "FetchTask", "fetching")

Leave(w) ==
  /\ at[w] = "leave"
  /\ latch' = latch - 1
  /\ Goto(w, "exited")
  /\ UNCHANGED <<queueVars, discard_when_quit, serialVars, accepted>>

Worker(w) ==
  Fetch(w) \/ WaitForPreTask(w) \/ Run(w) \/ Check(w) \/ Drain(w) \/ DrainTimeOut(w) \/ Leave(w)

-----------------------------------------------------------------------------
(* AddTask, QuitAndWait and QuitAndWaitA *)

\* if (!interrupted_state_), without the lock; a refused task is dropped.
CheckAdd(t) == at[t] = "checkadd" /\ ~interrupted /\ Control(t, "add")

AddTask(t) == at[t] = "add" /\ CallQueue(t, "AddTask", "adding")

EndAdd(t) == Returned(t, "adding") /\ Control(t, "checkadd")

\* interrupted_state_ = true, and the Notify of its notify function.
Quit(t) == at[t] = "quit" /\ CallQueue(t, "InterruptFetch", "quitting")

\* Wait() joins every thread.
Wait(t) == Returned(t, "quitting") /\ Control(t, "join")

\* WaitA: latch.AWait returns at 0, or when the time is over; then the call is
\* repeated.  It has no end when the deadline lies between its two readings of
\* the clock: the time that is left is negative, and a DWORD.
WaitA(t) ==
  /\ Returned(t, "quitting")
  /\ \/ latch = 0 /\ Control(t, "join")
     \/ latch > 0 /\ CallQueue(t, "InterruptFetch", "quitting")
     \/ latch > 0 /\ Control(t, "endless")

\* The last worker's CountDown.  Of several callers that sleep here some may not
\* be woken.
AWaitEndless(t) == at[t] = "endless" /\ latch = 0 /\ Control(t, "join")

Join(t) ==
  /\ at[t] = "join"
  /\ \A w \in Workers : at[w] = "exited"
  /\ Control(t, "joined")

-----------------------------------------------------------------------------
(* A step of the queue inside a call *)

Range1(s) == {s[i] : i \in DOMAIN s}

Known == Range1(task_queue_) \cup UNION {Range1(got[w]) : w \in Workers}

InQueue(t) ==
  /\ Queue!Step(t)
  /\ accepted' = IF ~interrupted /\ interrupted' THEN Known ELSE accepted
  /\ UNCHANGED <<at, discard_when_quit, latch, serialVars>>

TimeOut(t) == Queue!TimeOut(t) /\ UNCHANGED poolVars

Expire(t) == Queue!Expire(t) /\ UNCHANGED poolVars

-----------------------------------------------------------------------------

Step(t) ==
  \/ Worker(t)
  \/ EndAdd(t) \/ Wait(t) \/ WaitA(t) \/ Join(t)
  \/ InQueue(t)

Next ==
  \/ \E t \in Threads :
       \/ Step(t) \/ CheckAdd(t) \/ AddTask(t) \/ Quit(t) \/ TimeOut(t)
       \/ AWaitEndless(t)
  \/ \E n \in Elsewhere : RunElsewhere(n)

Spec == Init /\ [][Next]_vars

\* The scheduler runs every thread that can run, and a FetchTaskA that is woken
\* again and again finds its deadline passed; its timer need not run down, and
\* nobody has to call AddTask, or to begin with Quit.  The threads outside run
\* their tasks.
Fairness ==
  /\ \A t \in Threads : WF_vars(Step(t))
  /\ \A w \in Workers : SF_vars(Expire(w))
  /\ \A n \in Elsewhere : WF_vars(RunElsewhere(n))

FairSpec == Spec /\ Fairness

-----------------------------------------------------------------------------

TypeOK ==
  /\ Queue!TypeOK
  /\ at \in [Threads -> {"fetch", "fetching", "check", "drain", "draining", "leave",
                         "exited", "checkadd", "add", "adding", "quit", "quitting",
                         "endless", "join", "joined"}]
  /\ latch \in 0..Cardinality(Workers)
  /\ over \cup waiting \subseteq 1..made \cup Elsewhere
  /\ together \subseteq 1..MaxTasks \cup Elsewhere
  /\ accepted \subseteq 1..made

\* No task is run by two workers, or twice by one, whatever is fetched by
\* FetchTask and by the FetchTaskA of the draining loop.
RunsOnce ==
  \A v, w \in Workers : \A i \in DOMAIN got[v], j \in DOMAIN got[w] :
    got[v][i] = got[w][j] => v = w /\ i = j

\* Without discard_when_quit, a worker leaves only when every task that was
\* accepted before Quit has been fetched, and when all have left they have run.
\* A task whose AddTask passed its check before Quit and pushed after it is not
\* covered: it may be left in the queue. (thread_pool.h:27 and :44)
AcceptedTasksRun ==
  ~discard_when_quit =>
    /\ (\E w \in Workers : at[w] \in {"leave", "exited"}) =>
         accepted \cap Range1(task_queue_) = {}
    /\ (\A w \in Workers : at[w] = "exited") => accepted \subseteq over

\* A worker that sleeps for ever: the task it waits for is over, two tasks slept
\* behind that one at once, and their wake-ups merged.
LeftAsleep(w) ==
  /\ got[w] # <<>> /\ Running(w) \in waiting
  /\ pre_task_[Running(w)] \in over \cap together

\* While nobody quits, the tasks in the queue are run, if no task is added before
\* the one it waits for, unless a worker is left asleep because two tasks waited
\* for one pre_task_: a task that waits alone is woken. (serial_task.h:12)
EveryTaskRuns ==
  task_queue_ # <<>> ~>
    Known \subseteq over \/ interrupted \/ \E w \in Workers : LeftAsleep(w)

\* A caller that waits for the workers and does not come back to wake them.
WaitsInVain(t) == at[t] \in {"join", "endless"} /\ latch > 0

\* One Quit may leave a worker asleep for ever, and QuitAndWait with it; a caller
\* that repeats QuitAndWaitA ends every worker, unless one is left asleep in a
\* serial task, or a QuitAndWaitA sleeps without end. (thread_pool.h:57, :72, :85)
RepeatedQuitEndsPool ==
  interrupted ~> \/ \A w \in Workers : at[w] = "exited"
                 \/ \E w \in Workers : LeftAsleep(w)
                 \/ \E q \in Quitters : WaitsInVain(q)

=============================================================================
