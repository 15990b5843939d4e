--------------------------- MODULE ThreadMessageLoop ---------------------------
(***************************************************************************)
(* ThreadMessageLoop (thread_message_loop.h): a thread that takes messages *)
(* and tasks from its Windows message queue, and the functions other       *)
(* threads call on it.                                                     *)
(*                                                                         *)
(* A thread of Clients posts and sends, again and again, or waits until    *)
(* the loop is ready; one of Stoppers calls Stop and then Join or JoinFor, *)
(* and one of them may destroy the object.  Message n is the n-th that was *)
(* made; WM_QUIT is 0.  The latches are abstract: with one waiter a        *)
(* CountDownLatch loses no wake-up, so one client at a time waits until    *)
(* the loop is ready.  No task sends to the loop that runs it.             *)
(***************************************************************************)
EXTENDS Naturals, Sequences, FiniteSets

CONSTANTS
  Clients, Stoppers,
  MaxTasks      \* bound: how many messages are made

Task == 1..MaxTasks
WM_QUIT == 0

TaskFns == {"PostTask", "SendTask", "SendTaskTimeout"}
PostFns == TaskFns \cup {"PostMessage"}

ASSUME LoopAssumption ==
  /\ Clients \cap Stoppers = {}
  /\ MaxTasks \in Nat

VARIABLES
  loop,         \* where the thread of the loop is
  current,      \* the message it dispatches
  messages,     \* its message queue
  ready,        \* whether latch_ is down
  is_stopped_,
  pc, task,     \* where each caller is, and with which message
  made,
  kind,         \* the function each message comes from
  heap,         \* the tasks that are allocated
  ran,          \* the tasks that have run
  open,         \* the latches of SendTask and SendTaskTimeout that are down
  lost,         \* history: the tasks that nobody will delete
  accepted      \* history: the messages queued or taken when Stop was called

loopVars == <<loop, current, ran, open, lost>>
callVars == <<pc, task, made, kind>>
vars == <<loopVars, callVars, messages, ready, is_stopped_, heap, accepted>>

Init ==
  /\ loop = "peek" /\ current = WM_QUIT /\ messages = <<>>
  /\ ready = FALSE /\ is_stopped_ = FALSE
  /\ pc = [t \in Clients \cup Stoppers |-> IF t \in Clients THEN "idle" ELSE "stop"]
  /\ task = [t \in Clients |-> 0]
  /\ made = 0
  /\ kind = [n \in Task |-> "none"]
  /\ heap = {} /\ ran = {} /\ open = {} /\ lost = {} /\ accepted = {}

Goto(t, label) == pc' = [pc EXCEPT ![t] = label]

-----------------------------------------------------------------------------
(* The thread of the loop *)

\* The loop is responsible for the task of message n.
InLoop(n) == loop \in {"dispatch", "countdown", "delete"} /\ current = n

\* Mutant: PeekMessage is left out, and the queue comes with GetMessage.
HasQueueLate == loop \notin {"peek", "check", "ready", "exited", "killed"}

\* PostThreadMessage finds a queue from the PeekMessage of the thread to its end.
HasQueue == loop \notin {"peek", "exited", "killed"}

PeekMessage ==
  /\ loop = "peek"
  /\ loop' = "check"
  /\ UNCHANGED <<current, ran, open, lost, callVars, messages, ready, is_stopped_, heap, accepted>>

CheckStopped ==
  /\ loop = "check"
  /\ loop' = IF is_stopped_ THEN "exited" ELSE "ready"
  /\ UNCHANGED <<current, ran, open, lost, callVars, messages, ready, is_stopped_, heap, accepted>>

Ready ==
  /\ loop = "ready"
  /\ ready' = TRUE
  /\ loop' = "get"
  /\ UNCHANGED <<current, ran, open, lost, callVars, messages, is_stopped_, heap, accepted>>

\* Mutant: the loop asks is_stopped_ for an end, as IsStopped() would suggest.
EndsStopped == is_stopped_ \/ Head(messages) = WM_QUIT

\* GetMessage returns 0.
Ends == Head(messages) = WM_QUIT

GetMessage ==
  /\ loop = "get" /\ messages # <<>>
  /\ loop' = IF Ends THEN "exited" ELSE "dispatch"
  /\ current' = Head(messages)
  /\ messages' = Tail(messages)
  /\ UNCHANGED <<ran, open, lost, callVars, ready, is_stopped_, heap, accepted>>

\* Mutant: SendTask posts its argument as it is, which counts down no latch.
AfterRunPlain(f) == "delete"

\* What is left of the function object of a task when the task itself has run.
AfterRun(f) == IF f = "PostTask" THEN "delete" ELSE "countdown"

\* on_message_ sees every message.  The task of one is run, unless a handler says
\* that it has handled the message: then it is never run or deleted.
Dispatch ==
  /\ loop = "dispatch"
  /\ \/ /\ kind[current] = "PostMessage"
        /\ loop' = "get"
        /\ UNCHANGED <<ran, lost>>
     \/ /\ kind[current] \in TaskFns
        /\ ran' = ran \cup {current}
        /\ loop' = AfterRun(kind[current])
        /\ UNCHANGED lost
     \/ /\ kind[current] \in TaskFns
        /\ lost' = lost \cup {current}
        /\ loop' = "get"
        /\ UNCHANGED ran
  /\ UNCHANGED <<current, open, callVars, messages, ready, is_stopped_, heap, accepted>>

CountDown ==
  /\ loop = "countdown"
  /\ open' = open \cup {current}
  /\ loop' = "delete"
  /\ UNCHANGED <<current, ran, lost, callVars, messages, ready, is_stopped_, heap, accepted>>

Delete ==
  /\ loop = "delete"
  /\ heap' = heap \ {current}
  /\ loop' = "get"
  /\ UNCHANGED <<current, ran, open, lost, callVars, messages, ready, is_stopped_, accepted>>

Loop ==
  \/ PeekMessage \/ CheckStopped \/ Ready
  \/ GetMessage \/ Dispatch \/ CountDown \/ Delete

-----------------------------------------------------------------------------
(* PostMessage, PostTask, SendTask and SendTaskTimeout *)

\* The first check of the functions that make a task.
Call(t, f) ==
  /\ pc[t] = "idle"
  /\ made < MaxTasks
  /\ f = "PostMessage" \/ ~is_stopped_
  /\ made' = made + 1
  /\ task' = [task EXCEPT ![t] = made + 1]
  /\ kind' = [kind EXCEPT ![made + 1] = f]
  /\ heap' = IF f \in TaskFns THEN heap \cup {made + 1} ELSE heap
  /\ Goto(t, "checkstopped")
  /\ UNCHANGED <<loopVars, messages, ready, is_stopped_, accepted>>

\* Mutant: the task that could not be posted is not deleted.
RefuseLeaking(t) ==
  /\ Goto(t, "idle")
  /\ UNCHANGED <<loopVars, task, made, kind, messages, ready, is_stopped_, heap, accepted>>

\* PostMessage returns false, and the task is deleted.
Refuse(t) ==
  /\ heap' = heap \ {task[t]}
  /\ Goto(t, "idle")
  /\ UNCHANGED <<loopVars, task, made, kind, messages, ready, is_stopped_, accepted>>

Pass(t, label) ==
  /\ Goto(t, label)
  /\ UNCHANGED <<loopVars, task, made, kind, messages, ready, is_stopped_, heap, accepted>>

CheckCall(t) ==
  /\ pc[t] = "checkstopped"
  /\ IF is_stopped_ THEN Refuse(t) ELSE Pass(t, "checkready")

IsReady(t) ==
  /\ pc[t] = "checkready"
  /\ IF ready THEN Pass(t, "post") ELSE Refuse(t)

\* Where a call goes when its message is in the queue.
AfterPost(f) ==
  CASE f = "SendTask" -> "wait"
    [] f = "SendTaskTimeout" -> "await"
    [] OTHER -> "idle"

\* A queue that is full refuses a message too.
PostThreadMessage(t) ==
  /\ pc[t] = "post"
  /\ \/ /\ HasQueue
        /\ messages' = Append(messages, task[t])
        /\ Goto(t, AfterPost(kind[task[t]]))
        /\ UNCHANGED <<loopVars, task, made, kind, ready, is_stopped_, heap, accepted>>
     \/ Refuse(t)

\* Mutant: SendTask waits for a limited time, with its latch on the stack.
WaitTimed(t) == pc[t] = "wait" /\ Pass(t, "idle")

Wait(t) == pc[t] = "wait" /\ task[t] \in open /\ Pass(t, "idle")

\* The call returns true in both cases; its latch is shared with the task.
AWait(t) == pc[t] = "await" /\ Pass(t, "idle")

\* The time left, from a second reading of the clock, is negative: as a DWORD it
\* has no end, and the call waits like a SendTask.
AWaitEndless(t) == pc[t] = "await" /\ task[t] \notin open /\ Pass(t, "wait")

WaitReady(t) ==
  /\ pc[t] = "idle" /\ ~ready
  /\ \A u \in Clients : pc[u] # "waitready"
  /\ Pass(t, "waitready")

EndWaitReady(t) == pc[t] = "waitready" /\ ready /\ Pass(t, "idle")

\* AWaitReady, when its time is over.
TimeOutReady(t) == pc[t] = "waitready" /\ ~ready /\ Pass(t, "idle")

-----------------------------------------------------------------------------
(* Stop, Join, JoinFor and the destructor *)

Stop(t) ==
  /\ pc[t] = "stop"
  /\ is_stopped_' = TRUE
  /\ accepted' = IF is_stopped_ THEN accepted
                 ELSE {messages[i] : i \in DOMAIN messages}
                        \cup (IF loop = "dispatch" THEN {current} ELSE {})
  /\ Goto(t, "quit")
  /\ UNCHANGED <<loopVars, task, made, kind, messages, ready, heap>>

\* Nothing is posted without a queue, or when it is full: "refused" is the second
\* case.  Stop ignores what PostThreadMessage returns and goes on all the same.
PostQuit(t) ==
  /\ pc[t] = "quit"
  /\ \/ HasQueue /\ messages' = Append(messages, WM_QUIT) /\ Goto(t, "join")
     \/ HasQueue /\ UNCHANGED messages /\ Goto(t, "refused")
     \/ ~HasQueue /\ UNCHANGED messages /\ Goto(t, "join")
  /\ UNCHANGED <<loopVars, task, made, kind, ready, is_stopped_, heap, accepted>>

Stopped(t) == pc[t] \in {"join", "refused"}

Join(t) == Stopped(t) /\ loop = "exited" /\ Pass(t, "left")

JoinFor(t) == Stopped(t) /\ loop # "exited" /\ Pass(t, "left")

\* Nobody is in a call, nor makes one after it.  ~thread terminates a loop that
\* was not joined, wherever it is, with the task it is in.
Destroy(t) ==
  /\ \A u \in Clients : pc[u] = "idle"
  /\ \A u \in Stoppers : pc[u] \in {"stop", "left"}
  /\ pc[t] \in {"stop", "left"}
  /\ loop' = IF loop = "exited" THEN "exited" ELSE "killed"
  /\ lost' = lost \cup {n \in heap : InLoop(n)}
  /\ pc' = [u \in Clients \cup Stoppers |-> "gone"]
  /\ UNCHANGED <<current, ran, open, task, made, kind, messages, ready, is_stopped_,
                 heap, accepted>>

-----------------------------------------------------------------------------

ClientStep(t) ==
  \/ CheckCall(t) \/ IsReady(t) \/ PostThreadMessage(t)
  \/ Wait(t) \/ AWait(t) \/ EndWaitReady(t)

Next ==
  \/ Loop
  \/ \E t \in Clients :
       \/ ClientStep(t) \/ AWaitEndless(t) \/ WaitReady(t) \/ TimeOutReady(t)
       \/ \E f \in PostFns : Call(t, f)
  \/ \E t \in Stoppers :
       Stop(t) \/ PostQuit(t) \/ Join(t) \/ JoinFor(t) \/ Destroy(t)

Spec == Init /\ [][Next]_vars

\* The scheduler runs every thread that can run; nobody has to stop the loop.
FairSpec ==
  /\ Spec
  /\ WF_vars(Loop)
  /\ \A t \in Clients : WF_vars(ClientStep(t))
  /\ \A t \in Stoppers : WF_vars(PostQuit(t) \/ Join(t))

-----------------------------------------------------------------------------

Queued == {messages[i] : i \in DOMAIN messages}

TypeOK ==
  /\ loop \in {"peek", "check", "ready", "get", "dispatch", "countdown",
               "delete", "exited", "killed"}
  /\ current \in Task \cup {WM_QUIT}
  /\ loop \in {"dispatch", "countdown", "delete"} => current \in Task
  /\ messages \in Seq(Task \cup {WM_QUIT})
  /\ ready \in BOOLEAN /\ is_stopped_ \in BOOLEAN
  /\ pc \in [Clients \cup Stoppers ->
       {"idle", "checkstopped", "checkready", "post", "wait", "await", "waitready",
        "stop", "quit", "refused", "join", "left", "gone"}]
  /\ task \in [Clients -> 0..made]
  /\ made \in 0..MaxTasks
  /\ kind \in [Task -> PostFns \cup {"none"}]
  /\ heap \subseteq Task /\ ran \subseteq Task /\ open \subseteq ran /\ lost \subseteq Task
  /\ accepted \subseteq Task \cup {WM_QUIT}

\* Who is responsible for the task of message n.
Callers(n) ==
  {t \in Clients : task[t] = n /\ pc[t] \in {"checkstopped", "checkready", "post"}}

\* A task that is allocated belongs to the caller that has not posted it yet, to
\* the queue or to the loop, and to one of them only; the pointers in the queue
\* and in the loop are to allocated tasks.  So no task is lost or deleted twice,
\* except that those behind WM_QUIT stay in the queue for ever, as do those of a
\* loop that is destroyed, and that one which a handler of on_message_ keeps, or
\* which the destructor interrupts, is lost. (PostTask, SendTask and the loop,
\* thread_message_loop.h:31, 36, 60)
EveryTaskOwned ==
  \A n \in Task :
    kind[n] \in TaskFns =>
      /\ n \in heap <=> Callers(n) # {} \/ n \in Queued \/ InLoop(n) \/ n \in lost
      /\ Cardinality(Callers(n)) + Cardinality({i \in DOMAIN messages : messages[i] = n})
           + (IF InLoop(n) \/ n \in lost THEN 1 ELSE 0) <= 1

\* The task of a SendTask refers to its caller's stack: as long as the loop may
\* run it, the caller is in latch.Wait(). (thread_message_loop.h:71, 76)
FrameOutlivesTask ==
  \A n \in Task :
    kind[n] = "SendTask" /\ (n \in Queued \/ (InLoop(n) /\ loop # "delete"))
      => \E t \in Clients : task[t] = n /\ pc[t] = "wait"

\* What was in the queue when Stop was called is dispatched before the loop ends
\* by itself: WM_QUIT is behind it. (thread_message_loop.h:28, 99)
StopKeepsAccepted ==
  loop = "exited" =>
    \A n \in accepted \cap Task : kind[n] \in TaskFns => n \in ran \cup lost

\* A Stop came before the loop looked at is_stopped_, or one was not refused.
Told ==
  \/ is_stopped_ /\ loop \in {"peek", "check"}
  \/ \E t \in Stoppers : pc[t] = "join"

\* Stop ends the loop, also before it is ready: the queue is there before
\* is_stopped_ is read.  A Stop whose WM_QUIT a full queue refuses does so only
\* when it comes before that: later the loop looks at nothing but its messages,
\* and another Stop has to end it. (thread_message_loop.h:25, 26, 28, 98, 99)
StopEndsLoop == Told ~> loop \in {"exited", "killed"}

\* Every call returns, but for two: a SendTask, or a SendTaskTimeout without its
\* time limit, whose message is behind the WM_QUIT of a Stop or was kept by a
\* handler, and a WaitReady of a loop that was stopped before it was ready.
\* (thread_message_loop.h:26, 31, 76, 115)
CallsReturn ==
  \A t \in Clients :
    pc[t] # "idle" ~>
      \/ pc[t] \in {"idle", "gone"}
      \/ pc[t] = "wait" /\ (task[t] \in lost \/ (loop = "exited" /\ task[t] \in Queued))
      \/ pc[t] = "waitready" /\ loop = "exited"

=============================================================================
