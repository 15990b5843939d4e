------------------------------ MODULE IocpServer ------------------------------
(***************************************************************************)
(* IocpServer (iocp_server.h, iocp_server.cpp): threads that take tasks    *)
(* from an I/O completion port, and how they are started and ended.        *)
(*                                                                         *)
(* One thread, the owner, calls Init and then Quit or QuitA, again and     *)
(* again; the threads of Clients call PostTask at any time.  A packet of   *)
(* the port is a task, or 0 for the exit signal; packets of I/O are left   *)
(* out, they only lead to virtual functions.  The port is a queue: the     *)
(* packets come out in the order they went in.  Init with 0 handlers makes *)
(* as many as by default, here the same number, but its latch counts 0.    *)
(* A port that cannot be created is null, which Init does not test for:    *)
(* the server starts, and every call for the port fails.  A post to a real *)
(* port may fail too; nobody looks at whether an exit signal was posted.   *)
(***************************************************************************)
EXTENDS Integers, Sequences, FiniteSets

CONSTANTS
  Clients,
  Handlers,     \* the threads an Init makes
  MaxTasks,     \* bound: how many tasks are posted
  MaxLives      \* bound: how many times Init is called

Task == 1..MaxTasks
EXIT == 0

ASSUME ServerAssumption ==
  /\ IsFiniteSet(Handlers) /\ Handlers # {}
  /\ MaxTasks \in Nat /\ MaxLives \in Nat

VARIABLES
  completion_port,  \* "invalid", "null" or the "port"
  port,             \* the packets in the port
  latch_,           \* the count of the latch
  event_handlers_,  \* the threads in the vector
  handler, running, \* where each thread is in ThreadFunc, and with which task
  owner, exits,     \* where the owner is, and the exit signals it still posts
  count, lives,     \* event_handler_count of the last Init; the Inits so far
  client, task,     \* where each client is, and with which task
  made, ran,
  accepted,         \* history: the tasks in the port or taken when Quit began
  unsent            \* history: the exit signals of this Quit that failed

portVars == <<completion_port, port, latch_, event_handlers_>>
handlerVars == <<handler, running, ran>>
ownerVars == <<owner, exits, count, lives, accepted, unsent>>
clientVars == <<client, task, made>>
vars == <<portVars, handlerVars, ownerVars, clientVars>>

Init ==
  /\ completion_port = "invalid" /\ port = <<>> /\ latch_ = 0 /\ event_handlers_ = {}
  /\ handler = [h \in Handlers |-> "none"]
  /\ running = [h \in Handlers |-> 0]
  /\ owner = "idle" /\ exits = 0 /\ count = 0 /\ lives = 0
  /\ accepted = {} /\ unsent = 0
  /\ client = [c \in Clients |-> "idle"]
  /\ task = [c \in Clients |-> 0]
  /\ made = 0 /\ ran = {}

-----------------------------------------------------------------------------
(* Init of the class *)

\* Mutant: the latch counts one thread, whatever the number.
LatchOfOne(n) == 1

LatchOf(n) == n

\* The port, and the latch, which is made before 0 is replaced by the default.
\* CreateIoCompletionPort that fails returns NULL, not INVALID_HANDLE_VALUE.
CreatePort ==
  /\ owner = "idle" /\ lives < MaxLives
  /\ completion_port' \in {"port", "null"}
  /\ port' = <<>>
  /\ count' \in {0, Cardinality(Handlers)}
  /\ latch_' = LatchOf(count')
  /\ lives' = lives + 1
  /\ owner' = "start"
  /\ UNCHANGED <<event_handlers_, handlerVars, exits, accepted, unsent, clientVars>>

StartHandler(h) ==
  /\ owner = "start" /\ h \notin event_handlers_
  /\ event_handlers_' = event_handlers_ \cup {h}
  /\ handler' = [handler EXCEPT ![h] = "get"]
  /\ owner' = IF event_handlers_' = Handlers THEN "up" ELSE "start"
  /\ UNCHANGED <<completion_port, port, latch_, running, ran, exits, count, lives,
                 accepted, unsent, clientVars>>

-----------------------------------------------------------------------------
(* ThreadFunc *)

\* Without a port it fails at once, and the thread goes round and round.
GetQueuedCompletionStatus(h) ==
  /\ handler[h] = "get" /\ completion_port = "port" /\ port # <<>>
  /\ port' = Tail(port)
  /\ running' = [running EXCEPT ![h] = Head(port)]
  /\ handler' = [handler EXCEPT ![h] = IF Head(port) = EXIT THEN "leave" ELSE "run"]
  /\ UNCHANGED <<completion_port, latch_, event_handlers_, ran, ownerVars, clientVars>>

\* Mutant: break for continue after a task.
AfterTaskBreak == "leave"

AfterTask == "get"

Run(h) ==
  /\ handler[h] = "run"
  /\ ran' = ran \cup {running[h]}
  /\ handler' = [handler EXCEPT ![h] = AfterTask]
  /\ running' = [running EXCEPT ![h] = 0]
  /\ UNCHANGED <<portVars, ownerVars, clientVars>>

Down == IF latch_ = 0 THEN 0 ELSE latch_ - 1

CountDown(h) ==
  /\ handler[h] = "leave"
  /\ latch_' = Down
  /\ handler' = [handler EXCEPT ![h] = "exited"]
  /\ UNCHANGED <<completion_port, port, event_handlers_, running, ran, ownerVars, clientVars>>

-----------------------------------------------------------------------------
(* PostTask *)

CheckPort(c) ==
  /\ client[c] = "idle" /\ made < MaxTasks
  /\ completion_port # "invalid"
  /\ made' = made + 1
  /\ task' = [task EXCEPT ![c] = made + 1]
  /\ client' = [client EXCEPT ![c] = "post"]
  /\ UNCHANGED <<portVars, handlerVars, ownerVars>>

\* PostQueuedCompletionStatus that does not fail: it needs a port.
Post(packet) == completion_port = "port" /\ port' = Append(port, packet)

\* The handle is read again; a task that cannot be posted is never deleted.
PostTask(c) ==
  /\ client[c] = "post"
  /\ Post(task[c]) \/ UNCHANGED port
  /\ client' = [client EXCEPT ![c] = "idle"]
  /\ UNCHANGED <<completion_port, latch_, event_handlers_, handlerVars, ownerVars, task, made>>

-----------------------------------------------------------------------------
(* Quit and QuitA *)

InPort == {port[i] : i \in DOMAIN port}
Running == {running[h] : h \in {k \in Handlers : handler[k] = "run"}}

\* Mutant: one exit signal too few.
SignalsOneLess == Cardinality(event_handlers_) - 1

Signals == Cardinality(event_handlers_)

BeginQuit(label) ==
  /\ owner = "up"
  /\ exits' = Signals
  /\ accepted' = (InPort \cup Running) \ {EXIT}
  /\ unsent' = 0
  /\ owner' = label
  /\ UNCHANGED <<portVars, handlerVars, count, lives, clientVars>>

Quit  == BeginQuit("quit")
QuitA == BeginQuit("quita")

Waiting == owner \in {"quit", "quita", "endless"} /\ exits = 0

PostExitSignal ==
  /\ owner \in {"quit", "quita"} /\ exits > 0
  /\ exits' = exits - 1
  /\ \/ Post(EXIT) /\ UNCHANGED unsent
     \/ unsent' = unsent + 1 /\ UNCHANGED port
  /\ UNCHANGED <<completion_port, latch_, event_handlers_, handlerVars, owner,
                 count, lives, accepted, clientVars>>

Step(label) ==
  /\ owner' = label
  /\ UNCHANGED <<portVars, handlerVars, exits, count, lives, accepted, unsent, clientVars>>

WaitLatch == Waiting /\ latch_ = 0 /\ Step("join")

TimeOut == Waiting /\ owner = "quita" /\ latch_ > 0 /\ Step("kill")

\* The time left, from a second reading of the clock, is negative: as a DWORD it
\* has no end.
AWaitEndless == Waiting /\ owner = "quita" /\ latch_ > 0 /\ Step("endless")

\* Mutant: the threads are not joined.
JoinNot == owner = "join" /\ Step("clear")

Join ==
  /\ owner = "join"
  /\ \A h \in event_handlers_ : handler[h] = "exited"
  /\ Step("clear")

\* event_handlers_.clear(): ~thread terminates a thread that was not joined.
Clear(h) ==
  /\ owner \in {"clear", "kill"} /\ h \in event_handlers_
  /\ event_handlers_' = event_handlers_ \ {h}
  /\ handler' = [handler EXCEPT ![h] = IF @ = "exited" THEN @ ELSE "killed"]
  /\ UNCHANGED <<completion_port, port, latch_, running, ran, ownerVars, clientVars>>

EndQuit ==
  /\ owner \in {"clear", "kill"} /\ event_handlers_ = {}
  /\ completion_port' = "invalid"
  /\ owner' = "idle"
  /\ UNCHANGED <<port, latch_, event_handlers_, handlerVars, exits, count, lives,
                 accepted, unsent, clientVars>>

-----------------------------------------------------------------------------

Handler(h) == GetQueuedCompletionStatus(h) \/ Run(h) \/ CountDown(h)

OwnerStep ==
  \/ PostExitSignal \/ WaitLatch \/ Join \/ EndQuit
  \/ \E h \in Handlers : StartHandler(h) \/ Clear(h)

Next ==
  \/ CreatePort \/ OwnerStep \/ Quit \/ QuitA \/ TimeOut \/ AWaitEndless
  \/ \E h \in Handlers : Handler(h)
  \/ \E c \in Clients : CheckPort(c) \/ PostTask(c)

Spec == Init /\ [][Next]_vars

\* The scheduler runs every thread that can run, every task ends, and so does the
\* time of a QuitA that is not endless; nobody has to quit.
FairSpec ==
  /\ Spec
  /\ WF_vars(OwnerStep) /\ WF_vars(TimeOut)
  /\ \A h \in Handlers : WF_vars(Handler(h))

-----------------------------------------------------------------------------

TypeOK ==
  /\ completion_port \in {"invalid", "null", "port"}
  /\ port \in Seq(Task \cup {EXIT})
  /\ latch_ \in 0..Cardinality(Handlers)
  /\ event_handlers_ \subseteq Handlers
  /\ handler \in [Handlers -> {"none", "get", "run", "leave", "exited", "killed"}]
  /\ running \in [Handlers -> Task \cup {0}]
  /\ owner \in {"idle", "start", "up", "quit", "quita", "endless", "join", "kill",
                "clear"}
  /\ exits \in 0..Cardinality(Handlers) /\ unsent \in 0..Cardinality(Handlers)
  /\ count \in {0, Cardinality(Handlers)}
  /\ lives \in 0..MaxLives
  /\ client \in [Clients -> {"idle", "post"}]
  /\ task \in [Clients -> 0..made]
  /\ made \in 0..MaxTasks
  /\ ran \subseteq Task /\ accepted \subseteq Task

InLoop == {h \in event_handlers_ : handler[h] \in {"get", "run"}}
ExitsInPort == Cardinality({i \in DOMAIN port : port[i] = EXIT})

\* While a server quits there is exactly one exit signal, in the port, still to be
\* posted, or lost because it could not be, for every thread in its loop, whatever
\* tasks are posted in between. (PostExitSignal)
OneExitPerHandler ==
  owner \in {"quit", "quita", "endless", "join", "clear"} =>
    Cardinality(InLoop) = ExitsInPort + exits + unsent

\* The latch goes down only when every thread has left its loop, so the join after
\* it does not wait for a task, unless Init was called with 0 handlers: then the
\* latch is down from the start, and QuitA joins without a time limit.
\* (iocp_server.cpp:14, 41)
JoinDoesNotWait ==
  owner = "join" /\ count > 0 => \A h \in event_handlers_ : handler[h] = "exited"

\* Every task that was in the port or taken when Quit or QuitA was called has run
\* when the call has joined the threads; a task posted later may stay in the port
\* for ever. (iocp_server.cpp:22, 36)
QuitRunsAccepted ==
  owner = "clear" => accepted \subseteq ran /\ Running = {}

\* What QuitReturns rests on: while a Quit whose signals were all posted waits for
\* the latch or for a thread, some thread is in a task, leaves its loop, or has a
\* packet to take.  Nobody waits for a signal that will not come.
\* (iocp_server.cpp:13, 22, 36)
StillWaits ==
  \/ Waiting /\ latch_ > 0
  \/ owner = "join" /\ \E h \in event_handlers_ : handler[h] # "exited"

QuitIsNotStuck ==
  unsent = 0 /\ StillWaits =>
    \E h \in event_handlers_ :
      handler[h] \in {"run", "leave"} \/ (handler[h] = "get" /\ port # <<>>)

\* Without a port a Quit never ends, nor does the join of a QuitA: the threads stay
\* in their loops for ever. (iocp_server.cpp:13)
NullPortHangs ==
  completion_port = "null" /\ owner \in {"quit", "join"} =>
    completion_port' = "null" /\ owner' \in {"quit", "join"}

\* A Quit returns, when the tasks do, unless one of its signals was not posted, as
\* without a port none is: then a thread stays in its loop, and so does the caller.
\* A QuitA terminates such a thread, unless it sleeps without end or its latch
\* counted nobody. (iocp_server.cpp:13, 26, 41, 64)
QuitReturns ==
  /\ owner = "quit" ~> owner = "idle" \/ unsent > 0
  /\ owner = "quita" ~> \/ owner = "idle"
                        \/ unsent > 0 /\ (count = 0 \/ owner = "endless")

=============================================================================
