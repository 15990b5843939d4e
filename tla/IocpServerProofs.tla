-------------------------- MODULE IocpServerProofs --------------------------
(***************************************************************************)
(* Proofs about IocpServer, for any handlers, clients and number of tasks. *)
(* The argument counts: while the server quits, the exit signals the owner *)
(* still has to post and those in the port are as many as the threads in   *)
(* their loop, so each thread takes one and none is left over; and the     *)
(* port is a queue, so no thread takes its signal before the tasks that    *)
(* were in front of it.                                                    *)
(***************************************************************************)
EXTENDS IocpServer, FiniteSetTheorems, TLAPS

-----------------------------------------------------------------------------
(* Packets that go into the port and come out of it *)

ExitsAt(p) == {i \in DOMAIN p : p[i] = EXIT}
In(p) == {p[i] : i \in DOMAIN p}

LEMMA ExitsFinite ==
  ASSUME NEW S, NEW p \in Seq(S)
  PROVE  IsFiniteSet(ExitsAt(p)) /\ Cardinality(ExitsAt(p)) \in Nat
<1>1. IsFiniteSet(1..Len(p)) /\ ExitsAt(p) \subseteq 1..Len(p)
  BY FS_Interval DEF ExitsAt
<1> QED BY <1>1, FS_Subset, FS_CardinalityType

LEMMA PacketAppended ==
  ASSUME NEW S, NEW p \in Seq(S), NEW x \in S, NEW q, q = Append(p, x)
  PROVE  /\ q \in Seq(S)
         /\ DOMAIN p = 1..Len(p) /\ DOMAIN q = 1..Len(p) + 1 /\ Len(p) \in Nat
         /\ \A i \in DOMAIN p : q[i] = p[i]
         /\ q[Len(p) + 1] = x
         /\ \A y : y \in In(q) <=> y \in In(p) \/ y = x
         /\ Cardinality(ExitsAt(q)) =
              IF x = EXIT THEN Cardinality(ExitsAt(p)) + 1 ELSE Cardinality(ExitsAt(p))
<1>1. /\ q \in Seq(S)
      /\ DOMAIN p = 1..Len(p) /\ DOMAIN q = 1..Len(p) + 1 /\ Len(p) \in Nat
      /\ \A i \in DOMAIN p : q[i] = p[i]
      /\ q[Len(p) + 1] = x
  OBVIOUS
<1>2. \A y : y \in In(q) <=> y \in In(p) \/ y = x
  BY <1>1 DEF In
<1>3. CASE x = EXIT
  <2>1. ExitsAt(q) = ExitsAt(p) \cup {Len(p) + 1} /\ Len(p) + 1 \notin ExitsAt(p)
    BY <1>1, <1>3 DEF ExitsAt
  <2> QED BY <1>1, <1>2, <1>3, <2>1, ExitsFinite, FS_AddElement
<1>4. CASE x # EXIT
  <2>1. ExitsAt(q) = ExitsAt(p)
    BY <1>1, <1>4 DEF ExitsAt
  <2> QED BY <1>1, <1>2, <1>4, <2>1
<1> QED BY <1>3, <1>4

LEMMA ExitAppended ==
  ASSUME NEW S, NEW p \in Seq(S), EXIT \in S
  PROVE  Cardinality(ExitsAt(Append(p, EXIT))) = Cardinality(ExitsAt(p)) + 1
<1>1. PICK q : q = Append(p, EXIT)
  OBVIOUS
<1>2. /\ q \in Seq(S) /\ DOMAIN p = 1..Len(p) /\ DOMAIN q = 1..Len(p) + 1
      /\ Len(p) \in Nat /\ q[Len(p) + 1] = EXIT /\ \A i \in DOMAIN p : q[i] = p[i]
  BY <1>1
<1>3. ExitsAt(q) = ExitsAt(p) \cup {Len(p) + 1} /\ Len(p) + 1 \notin ExitsAt(p)
  BY <1>2 DEF ExitsAt
<1>4. Cardinality(ExitsAt(q)) = Cardinality(ExitsAt(p)) + 1
  BY <1>3, ExitsFinite, FS_AddElement
<1> QED BY <1>1, <1>4

LEMMA PacketTaken ==
  ASSUME NEW S, NEW p \in Seq(S), p # <<>>, NEW q, q = Tail(p)
  PROVE  /\ q \in Seq(S) /\ Head(p) \in S
         /\ DOMAIN p = 1..Len(p) /\ DOMAIN q = 1..(Len(p) - 1) /\ Len(p) \in Nat \ {0}
         /\ \A i \in DOMAIN q : q[i] = p[i + 1]
         /\ Head(p) = p[1]
         /\ \A y : y \in In(p) <=> y \in In(q) \/ y = Head(p)
         /\ Cardinality(ExitsAt(p)) =
              IF Head(p) = EXIT THEN Cardinality(ExitsAt(q)) + 1
                                ELSE Cardinality(ExitsAt(q))
<1>1. /\ q \in Seq(S) /\ Head(p) \in S
      /\ DOMAIN p = 1..Len(p) /\ DOMAIN q = 1..(Len(p) - 1) /\ Len(p) \in Nat \ {0}
      /\ \A i \in DOMAIN q : q[i] = p[i + 1]
      /\ Head(p) = p[1]
  OBVIOUS
<1>2. \A i \in DOMAIN p : i = 1 \/ (i - 1 \in DOMAIN q /\ q[i - 1] = p[i])
  BY <1>1
<1>3. \A i \in DOMAIN q : i + 1 \in DOMAIN p
  BY <1>1
<1>4. \A y : y \in In(p) <=> y \in In(q) \/ y = Head(p)
  <2>1. 1 \in DOMAIN p
    BY <1>1
  <2> QED BY <1>1, <1>2, <1>3, <2>1 DEF In
<1>5. Cardinality(ExitsAt(q)) = Cardinality(ExitsAt(p) \ {1})
  <2> DEFINE f == [i \in ExitsAt(q) |-> i + 1]
  <2>1. f \in Bijection(ExitsAt(q), ExitsAt(p) \ {1})
    <3>1. f \in [ExitsAt(q) -> ExitsAt(p) \ {1}]
      BY <1>1, <1>3 DEF ExitsAt
    <3>2. \A i, j \in ExitsAt(q) : f[i] = f[j] => i = j
      BY <1>1 DEF ExitsAt
    <3>3. ASSUME NEW j \in ExitsAt(p) \ {1} PROVE \E i \in ExitsAt(q) : f[i] = j
      <4>1. j - 1 \in ExitsAt(q) /\ f[j - 1] = j
        BY <1>1, <1>2, <3>3 DEF ExitsAt
      <4> QED BY <4>1
    <3> HIDE DEF f
    <3> QED BY <3>1, <3>2, <3>3 DEF Bijection, Injection, Surjection, IsInjective
  <2>2. ExistsBijection(ExitsAt(q), ExitsAt(p) \ {1})
    BY <2>1 DEF ExistsBijection
  <2> QED BY <1>1, <2>2, ExitsFinite, FS_Bijection
<1>6. 1 \in ExitsAt(p) <=> Head(p) = EXIT
  BY <1>1 DEF ExitsAt
<1>7. Cardinality(ExitsAt(p) \ {1}) =
        IF 1 \in ExitsAt(p) THEN Cardinality(ExitsAt(p)) - 1 ELSE Cardinality(ExitsAt(p))
  BY ExitsFinite, FS_RemoveElement
<1>8. Cardinality(ExitsAt(p)) \in Nat
  BY ExitsFinite
<1> QED BY <1>1, <1>4, <1>5, <1>6, <1>7, <1>8
-----------------------------------------------------------------------------
(* The threads, the vector and the latch *)

\* A thread that is not in the vector is over.
GoneHaveEnded ==
  \A h \in Handlers \ event_handlers_ : handler[h] \in {"none", "exited", "killed"}

\* Before Quit every thread is in its loop, and there is no exit signal.
NoExitBeforeQuit ==
  owner \in {"start", "up"} =>
    /\ \A h \in event_handlers_ : handler[h] \in {"get", "run"}
    /\ \A i \in DOMAIN port : port[i] # EXIT
    /\ latch_ = count

VectorIsFull ==
  /\ owner = "idle" => event_handlers_ = {}
  /\ owner \in {"up", "quit", "quita", "endless", "join"} => event_handlers_ = Handlers
  /\ owner = "clear" => \A h \in Handlers : handler[h] = "exited"

\* The latch of an Init that was told a number counts the threads to come.
LatchCounts ==
  owner \in {"quit", "quita", "endless"} /\ count > 0 =>
    latch_ = Cardinality({h \in Handlers : handler[h] # "exited"})

ThreadsInv ==
  /\ GoneHaveEnded /\ NoExitBeforeQuit /\ VectorIsFull
  /\ LatchCounts /\ JoinDoesNotWait

-----------------------------------------------------------------------------
(* The tasks *)

\* A task is with one client, and then in the port, with a thread or lost.
PostedIsNew ==
  /\ \A c \in Clients : client[c] = "post" =>
       task[c] \in 1..made /\ task[c] \notin InPort \cup Running \cup accepted
  /\ \A c, d \in Clients :
       client[c] = "post" /\ client[d] = "post" /\ task[c] = task[d] => c = d
  /\ \A h \in Handlers : handler[h] = "run" => running[h] \in 1..made
  /\ InPort \cup accepted \subseteq 0..made

\* The tasks that were accepted are before the exit signals.
AcceptedBeforeExit ==
  owner \in {"quit", "quita", "endless", "join", "clear"} =>
    /\ accepted \subseteq ran \cup InPort \cup Running
    /\ \A i, j \in DOMAIN port : port[i] \in accepted /\ port[j] = EXIT => i < j
    /\ (\E h \in event_handlers_ : handler[h] \in {"leave", "exited"}) =>
         accepted \cap InPort = {}
    /\ owner = "clear" => accepted \subseteq ran

TasksInv == PostedIsNew /\ AcceptedBeforeExit

-----------------------------------------------------------------------------

LEMMA HandlersFinite ==
  ASSUME NEW T \in SUBSET Handlers
  PROVE  /\ IsFiniteSet(T) /\ Cardinality(T) \in 0..Cardinality(Handlers)
         /\ Cardinality(T) = 0 <=> T = {}
         /\ Cardinality(Handlers) \in Nat \ {0}
         /\ \A h \in T : Cardinality(T \ {h}) = Cardinality(T) - 1
<1>1. IsFiniteSet(Handlers) /\ Cardinality(Handlers) \in Nat /\ Handlers # {}
  BY ServerAssumption, FS_CardinalityType
<1>2. IsFiniteSet(T) /\ Cardinality(T) <= Cardinality(Handlers) /\ Cardinality(T) \in Nat
  BY <1>1, FS_Subset, FS_CardinalityType
<1>3. Cardinality(T) = 0 <=> T = {}
  BY <1>2, FS_EmptySet
<1>4. Cardinality(Handlers) # 0
  BY <1>1, FS_EmptySet
<1>5. \A h \in T : Cardinality(T \ {h}) = Cardinality(T) - 1
  BY <1>2, FS_RemoveElement
<1> QED BY <1>1, <1>2, <1>3, <1>4, <1>5

\* The owner goes on, and nothing else happens.
OwnerGoesOn ==
  WaitLatch \/ TimeOut \/ AWaitEndless \/ Join

NotExited == {h \in Handlers : handler[h] # "exited"}

LEMMA ThreadsStep ==
  ASSUME TypeOK, ThreadsInv, PostedIsNew, Next
  PROVE  ThreadsInv'
<1>0. Cardinality(Handlers) \in Nat \ {0}
  BY HandlersFinite
<1>1. CASE CreatePort
  BY <1>1 DEF CreatePort, LatchOf, ThreadsInv, GoneHaveEnded, NoExitBeforeQuit,
    VectorIsFull, LatchCounts, JoinDoesNotWait, handlerVars
<1>2. ASSUME NEW h \in Handlers, StartHandler(h) PROVE ThreadsInv'
  BY <1>2 DEF StartHandler, TypeOK, ThreadsInv, GoneHaveEnded, NoExitBeforeQuit,
    VectorIsFull, LatchCounts, JoinDoesNotWait
<1>3. ASSUME NEW h \in Handlers, GetQueuedCompletionStatus(h) PROVE ThreadsInv'
  <2>1. /\ UNCHANGED <<latch_, event_handlers_, owner, count>> /\ handler[h] = "get"
        /\ handler' = [handler EXCEPT ![h] = IF Head(port) = EXIT THEN "leave" ELSE "run"]
        /\ port # <<>> /\ port' = Tail(port) /\ port \in Seq(Task \cup {EXIT})
    BY <1>3 DEF GetQueuedCompletionStatus, TypeOK, ownerVars
  <2>2. /\ \A i \in DOMAIN port' : i + 1 \in DOMAIN port /\ port'[i] = port[i + 1]
        /\ 1 \in DOMAIN port /\ Head(port) = port[1]
    BY <2>1, PacketTaken
  <2>3. GoneHaveEnded' /\ NoExitBeforeQuit' /\ VectorIsFull' /\ JoinDoesNotWait'
    BY <2>1, <2>2 DEF TypeOK, ThreadsInv, GoneHaveEnded, NoExitBeforeQuit,
      VectorIsFull, JoinDoesNotWait
  <2>4. NotExited' = NotExited
    BY <2>1 DEF NotExited, TypeOK
  <2>5. LatchCounts'
    BY <2>1, <2>4 DEF ThreadsInv, LatchCounts, NotExited
  <2> QED BY <2>3, <2>5 DEF ThreadsInv
<1>4. ASSUME NEW h \in Handlers, Run(h) PROVE ThreadsInv'
  BY <1>4 DEF Run, AfterTask, TypeOK, ThreadsInv, GoneHaveEnded, NoExitBeforeQuit,
    VectorIsFull, LatchCounts, JoinDoesNotWait, ownerVars, portVars
<1>5. ASSUME NEW h \in Handlers, CountDown(h) PROVE ThreadsInv'
  <2>1. /\ UNCHANGED <<port, event_handlers_, owner, count>> /\ handler[h] = "leave"
        /\ handler' = [handler EXCEPT ![h] = "exited"]
        /\ latch_' = IF latch_ = 0 THEN 0 ELSE latch_ - 1
    BY <1>5 DEF CountDown, Down, ownerVars
  <2>2. GoneHaveEnded' /\ NoExitBeforeQuit' /\ VectorIsFull' /\ JoinDoesNotWait'
    BY <2>1 DEF TypeOK, ThreadsInv, GoneHaveEnded, NoExitBeforeQuit, VectorIsFull,
      JoinDoesNotWait
  <2>3. NotExited' = NotExited \ {h} /\ h \in NotExited /\ NotExited \in SUBSET Handlers
    BY <2>1 DEF NotExited, TypeOK
  <2>4. /\ Cardinality(NotExited') = Cardinality(NotExited) - 1
        /\ Cardinality(NotExited) \in Nat \ {0}
    BY <1>0, <2>3, HandlersFinite
  <2>5. LatchCounts'
    BY <2>1, <2>4 DEF ThreadsInv, LatchCounts, NotExited
  <2> QED BY <2>2, <2>5 DEF ThreadsInv
<1>6. ASSUME NEW c \in Clients, CheckPort(c) PROVE ThreadsInv'
  BY <1>6 DEF CheckPort, ThreadsInv, GoneHaveEnded, NoExitBeforeQuit,
    VectorIsFull, LatchCounts, JoinDoesNotWait, ownerVars, portVars, handlerVars
<1>7. ASSUME NEW c \in Clients, PostTask(c) PROVE ThreadsInv'
  <2>1. /\ UNCHANGED <<latch_, event_handlers_, handler, owner, count>>
        /\ port' = port \/ port' = Append(port, task[c])
        /\ task[c] \in 1..made
    BY <1>7 DEF PostTask, Post, ownerVars, handlerVars, PostedIsNew
  <2>2. task[c] \in Task \cup {EXIT} /\ task[c] # EXIT /\ port \in Seq(Task \cup {EXIT})
    BY <2>1, ServerAssumption DEF TypeOK, Task, EXIT
  <2>3. (\A i \in DOMAIN port : port[i] # EXIT) => \A i \in DOMAIN port' : port'[i] # EXIT
    BY <2>1, <2>2, PacketAppended
  <2> QED BY <2>1, <2>3 DEF ThreadsInv, GoneHaveEnded, NoExitBeforeQuit, VectorIsFull,
    LatchCounts, JoinDoesNotWait
<1>8. ASSUME NEW label \in {"quit", "quita"}, BeginQuit(label) PROVE ThreadsInv'
  <2>1. /\ UNCHANGED <<port, latch_, event_handlers_, handler, count>>
        /\ owner = "up" /\ owner' = label
    BY <1>8 DEF BeginQuit, handlerVars, portVars
  <2>2. NotExited' = Handlers
    BY <2>1 DEF NotExited, ThreadsInv, NoExitBeforeQuit, VectorIsFull
  <2>3. LatchCounts'
    <3>1. count \in {0, Cardinality(Handlers)} /\ latch_ = count
      BY <2>1 DEF TypeOK, ThreadsInv, NoExitBeforeQuit
    <3>2. count > 0 => latch_' = Cardinality(NotExited')
      BY <1>0, <2>1, <2>2, <3>1
    <3> QED BY <2>1, <3>2 DEF LatchCounts, NotExited
  <2> QED BY <2>1, <2>3 DEF ThreadsInv, GoneHaveEnded, NoExitBeforeQuit, VectorIsFull,
    JoinDoesNotWait
<1>9. CASE PostExitSignal
  BY <1>9 DEF PostExitSignal, ThreadsInv, GoneHaveEnded, NoExitBeforeQuit,
    VectorIsFull, LatchCounts, JoinDoesNotWait, handlerVars
<1>10. CASE OwnerGoesOn
  <2>1. UNCHANGED <<port, latch_, event_handlers_, handler, count>>
    BY <1>10 DEF OwnerGoesOn, WaitLatch, TimeOut, AWaitEndless, Join, Step,
      handlerVars, portVars
  <2>2. owner = "join" \/ owner \in {"quit", "quita", "endless"}
    BY <1>10 DEF OwnerGoesOn, WaitLatch, TimeOut, AWaitEndless, Join, Waiting
  <2>3. \/ owner' \in {"kill", "endless"} /\ owner # "join"
        \/ owner' = "join" /\ latch_ = 0 /\ owner # "join"
        \/ owner' = "clear" /\ owner = "join" /\ \A h \in event_handlers_ : handler[h] = "exited"
    BY <1>10 DEF OwnerGoesOn, WaitLatch, TimeOut, AWaitEndless, Join, Waiting, Step
  <2>4. JoinDoesNotWait'
    <3>1. CASE owner' = "join" /\ count > 0
      <4>1. NotExited \in SUBSET Handlers /\ Cardinality(NotExited) = 0
        BY <2>2, <2>3, <3>1 DEF ThreadsInv, LatchCounts, NotExited
      <4>2. NotExited = {}
        BY <4>1, HandlersFinite
      <4> QED BY <2>1, <4>2 DEF JoinDoesNotWait, NotExited, TypeOK
    <3> QED BY <2>1, <3>1 DEF JoinDoesNotWait
  <2> QED BY <2>1, <2>2, <2>3, <2>4 DEF ThreadsInv, GoneHaveEnded, NoExitBeforeQuit,
    VectorIsFull, LatchCounts
<1>11. ASSUME NEW h \in Handlers, Clear(h) PROVE ThreadsInv'
  BY <1>11 DEF Clear, TypeOK, ThreadsInv, GoneHaveEnded, NoExitBeforeQuit,
    VectorIsFull, LatchCounts, JoinDoesNotWait, ownerVars
<1>12. CASE EndQuit
  BY <1>12 DEF EndQuit, ThreadsInv, GoneHaveEnded, NoExitBeforeQuit,
    VectorIsFull, LatchCounts, JoinDoesNotWait, handlerVars
<1> QED
  BY <1>1, <1>2, <1>3, <1>4, <1>5, <1>6, <1>7, <1>8, <1>9, <1>10, <1>11, <1>12
  DEF Next, OwnerStep, OwnerGoesOn, Quit, QuitA, Handler

-----------------------------------------------------------------------------

LEMMA RunningIs == \A x : x \in Running <=> \E h \in Handlers : handler[h] = "run" /\ running[h] = x
BY DEF Running

LEMMA TasksStep ==
  ASSUME TypeOK, ThreadsInv, TasksInv, Next
  PROVE  TasksInv'
<1>0. made \in Nat /\ MaxTasks \in Nat
  BY ServerAssumption DEF TypeOK
<1>1. CASE CreatePort
  <2>1. UNCHANGED <<handler, running, client, task, made, accepted>> /\ port' = <<>>
    BY <1>1 DEF CreatePort, handlerVars, clientVars
  <2>2. InPort' = {} /\ Running' = Running
    BY <2>1 DEF InPort, Running
  <2> QED BY <1>1, <2>1, <2>2 DEF CreatePort, TasksInv, PostedIsNew,
    AcceptedBeforeExit
<1>2. ASSUME NEW h \in Handlers, StartHandler(h) PROVE TasksInv'
  <2>1. /\ UNCHANGED <<port, running, client, task, made, accepted>>
        /\ handler' = [handler EXCEPT ![h] = "get"] /\ owner' \in {"start", "up"}
    BY <1>2 DEF StartHandler, clientVars
  <2>2. \A k \in Handlers : handler'[k] = "run" => handler[k] = "run"
    BY <2>1 DEF TypeOK
  <2>3. InPort' = InPort /\ \A x : x \in Running' => x \in Running
    BY <2>1, <2>2, RunningIs DEF InPort, Running
  <2> QED BY <2>1, <2>2, <2>3 DEF TasksInv, PostedIsNew, AcceptedBeforeExit
<1>3. ASSUME NEW h \in Handlers, GetQueuedCompletionStatus(h) PROVE TasksInv'
  <2>1. /\ UNCHANGED <<event_handlers_, ran, owner, client, task, made, accepted>>
        /\ port # <<>> /\ port' = Tail(port) /\ port \in Seq(Task \cup {EXIT})
        /\ handler[h] = "get"
        /\ running' = [running EXCEPT ![h] = Head(port)]
        /\ handler' = [handler EXCEPT ![h] = IF Head(port) = EXIT THEN "leave" ELSE "run"]
    BY <1>3 DEF GetQueuedCompletionStatus, ownerVars, clientVars, TypeOK
  <2>2. /\ \A k \in Handlers \ {h} : handler'[k] = handler[k] /\ running'[k] = running[k]
        /\ running'[h] = Head(port)
        /\ handler'[h] = IF Head(port) = EXIT THEN "leave" ELSE "run"
    BY <2>1 DEF TypeOK
  <2>3. /\ DOMAIN port = 1..Len(port) /\ DOMAIN port' = 1..(Len(port) - 1)
        /\ Len(port) \in Nat \ {0}
        /\ \A i \in DOMAIN port' : port'[i] = port[i + 1]
        /\ Head(port) = port[1]
        /\ \A y : y \in InPort <=> y \in InPort' \/ y = Head(port)
    <3>1. InPort = In(port) /\ InPort' = In(port')
      BY DEF InPort, In
    <3>2. /\ DOMAIN port = 1..Len(port) /\ DOMAIN port' = 1..(Len(port) - 1)
          /\ Len(port) \in Nat \ {0}
          /\ \A i \in DOMAIN port' : port'[i] = port[i + 1]
          /\ Head(port) = port[1]
      BY <2>1
    <3>3. \A y : y \in In(port) <=> y \in In(port') \/ y = Head(port)
      BY <2>1, PacketTaken
    <3> QED BY <3>1, <3>2, <3>3
  <2>4. \A x : x \in Running' <=> x \in Running \/ (x = Head(port) /\ x # EXIT)
    BY <2>1, <2>2, RunningIs DEF Running
  <2>5. PostedIsNew'
    <3>1. Head(port) \in 0..made
      BY <2>3 DEF TasksInv, PostedIsNew
    <3>2. \A k \in Handlers : handler'[k] = "run" => running'[k] \in 1..made
      BY <2>2, <3>1 DEF TasksInv, PostedIsNew, EXIT
    <3> QED BY <2>1, <2>3, <2>4, <3>2 DEF TasksInv, PostedIsNew
  <2>6. AcceptedBeforeExit'
    <3> SUFFICES ASSUME owner \in {"quit", "quita", "endless", "join", "clear"}
                 PROVE  /\ accepted \subseteq ran \cup InPort' \cup Running'
                        /\ \A i, j \in DOMAIN port' : port'[i] \in accepted /\ port'[j] = EXIT => i < j
                        /\ (\E k \in event_handlers_ : handler'[k] \in {"leave", "exited"})
                             => accepted \cap InPort' = {}
                        /\ owner = "clear" => accepted \subseteq ran
      BY <2>1 DEF AcceptedBeforeExit
    <3>1. EXIT \notin accepted
      BY DEF TypeOK, Task, EXIT
    <3>2. accepted \subseteq ran \cup InPort' \cup Running'
      BY <2>3, <2>4, <3>1 DEF TasksInv, AcceptedBeforeExit
    <3>3. \A i, j \in DOMAIN port' : port'[i] \in accepted /\ port'[j] = EXIT => i < j
      <4>1. ASSUME NEW i \in DOMAIN port', NEW j \in DOMAIN port',
                   port'[i] \in accepted, port'[j] = EXIT
            PROVE  i < j
        <5>1. i \in Int /\ j \in Int /\ i + 1 \in DOMAIN port /\ j + 1 \in DOMAIN port
          BY <2>3
        <5>2. i + 1 < j + 1
          BY <2>3, <4>1, <5>1 DEF TasksInv, AcceptedBeforeExit
        <5> QED BY <5>1, <5>2
      <4> QED BY <4>1
    <3>4. ASSUME NEW k \in event_handlers_, handler'[k] \in {"leave", "exited"}
          PROVE  accepted \cap InPort' = {}
      <4>1. CASE k # h
        <5>1. handler[k] \in {"leave", "exited"}
          BY <2>2, <3>4, <4>1 DEF TypeOK
        <5> QED BY <2>3, <5>1 DEF TasksInv, AcceptedBeforeExit
      <4>2. CASE k = h
        <5>1. Head(port) = EXIT /\ 1 \in DOMAIN port
          BY <2>2, <2>3, <3>4, <4>2
        <5>2. \A i \in DOMAIN port : port[i] \notin accepted
          BY <2>3, <5>1 DEF TasksInv, AcceptedBeforeExit
        <5>3. \A y \in InPort : y \notin accepted
          BY <5>2 DEF InPort
        <5> QED BY <2>3, <5>3
      <4> QED BY <4>1, <4>2
    <3>5. owner = "clear" => accepted \subseteq ran
      BY DEF TasksInv, AcceptedBeforeExit
    <3> QED BY <3>2, <3>3, <3>4, <3>5
  <2> QED BY <2>5, <2>6 DEF TasksInv
<1>4. ASSUME NEW h \in Handlers, Run(h) PROVE TasksInv'
  <2>1. /\ UNCHANGED <<port, event_handlers_, owner, client, task, made, accepted>>
        /\ ran' = ran \cup {running[h]} /\ handler[h] = "run"
        /\ handler' = [handler EXCEPT ![h] = "get"]
        /\ running' = [running EXCEPT ![h] = 0]
    BY <1>4 DEF Run, AfterTask, ownerVars, clientVars, portVars
  <2>2. /\ \A k \in Handlers \ {h} : handler'[k] = handler[k] /\ running'[k] = running[k]
        /\ handler'[h] = "get"
    BY <2>1 DEF TypeOK
  <2>3. /\ InPort' = InPort
        /\ \A x : x \in Running' => x \in Running
        /\ \A x : x \in Running => x \in Running' \/ x \in ran'
    BY <2>1, <2>2, RunningIs DEF InPort, Running
  <2>4. PostedIsNew'
    BY <2>1, <2>2, <2>3 DEF TasksInv, PostedIsNew
  <2>5. AcceptedBeforeExit'
    BY <2>1, <2>2, <2>3 DEF TasksInv, AcceptedBeforeExit, TypeOK
  <2> QED BY <2>4, <2>5 DEF TasksInv
<1>5. ASSUME NEW h \in Handlers, CountDown(h) PROVE TasksInv'
  <2>1. /\ UNCHANGED <<port, event_handlers_, running, ran, owner, client, task, made, accepted>>
        /\ handler[h] = "leave" /\ handler' = [handler EXCEPT ![h] = "exited"]
    BY <1>5 DEF CountDown, ownerVars, clientVars
  <2>2. /\ \A k \in Handlers \ {h} : handler'[k] = handler[k]
        /\ handler'[h] = "exited" /\ h \in event_handlers_
    BY <2>1 DEF TypeOK, ThreadsInv, GoneHaveEnded
  <2>3. InPort' = InPort /\ \A x : x \in Running' <=> x \in Running
    BY <2>1, <2>2, RunningIs DEF InPort, Running
  <2>4. PostedIsNew'
    BY <2>1, <2>2, <2>3 DEF TasksInv, PostedIsNew
  <2>5. AcceptedBeforeExit'
    BY <2>1, <2>2, <2>3 DEF TasksInv, AcceptedBeforeExit, TypeOK
  <2> QED BY <2>4, <2>5 DEF TasksInv
<1>6. ASSUME NEW c \in Clients, CheckPort(c) PROVE TasksInv'
  <2>1. /\ UNCHANGED <<port, event_handlers_, handler, running, ran, owner, accepted>>
        /\ made' = made + 1
        /\ task' = [task EXCEPT ![c] = made + 1]
        /\ client' = [client EXCEPT ![c] = "post"]
    BY <1>6 DEF CheckPort, portVars, handlerVars, ownerVars
  <2>2. /\ \A d \in Clients \ {c} : client'[d] = client[d] /\ task'[d] = task[d]
        /\ task'[c] = made' /\ made' \in 1..made' /\ made' \notin 0..made
        /\ \A n \in 1..made : n \in 1..made'
        /\ \A n \in 0..made : n \in 0..made'
    BY <1>0, <2>1 DEF TypeOK
  <2>3. InPort' = InPort /\ Running' = Running
    BY <2>1 DEF InPort, Running
  <2>4. made' \notin InPort \cup Running \cup accepted
    BY <1>0, <2>2, RunningIs DEF TasksInv, PostedIsNew
  <2>5. PostedIsNew'
    <3>1. ASSUME NEW d \in Clients, client'[d] = "post"
          PROVE  task'[d] \in 1..made' /\ task'[d] \notin InPort' \cup Running' \cup accepted'
      BY <2>1, <2>2, <2>3, <2>4, <3>1 DEF TasksInv, PostedIsNew
    <3>2. \A d, e \in Clients :
            client'[d] = "post" /\ client'[e] = "post" /\ task'[d] = task'[e] => d = e
      BY <2>2, <1>0 DEF TasksInv, PostedIsNew
    <3>3. \A h \in Handlers : handler'[h] = "run" => running'[h] \in 1..made'
      BY <2>1, <2>2 DEF TasksInv, PostedIsNew
    <3>4. InPort' \cup accepted' \subseteq 0..made'
      BY <2>1, <2>2, <2>3 DEF TasksInv, PostedIsNew
    <3> QED BY <3>1, <3>2, <3>3, <3>4 DEF PostedIsNew
  <2>6. AcceptedBeforeExit'
    BY <2>1, <2>3 DEF TasksInv, AcceptedBeforeExit
  <2> QED BY <2>5, <2>6 DEF TasksInv
<1>7. ASSUME NEW c \in Clients, PostTask(c) PROVE TasksInv'
  <2>1. /\ UNCHANGED <<event_handlers_, handler, running, ran, owner, task, made, accepted>>
        /\ client[c] = "post" /\ client' = [client EXCEPT ![c] = "idle"]
        /\ port' = port \/ port' = Append(port, task[c])
    BY <1>7 DEF PostTask, Post, handlerVars, ownerVars
  <2>2. /\ task[c] \in 1..made /\ task[c] \notin accepted /\ task[c] # EXIT
        /\ task[c] \in Task \cup {EXIT} /\ port \in Seq(Task \cup {EXIT})
    BY <1>0, <2>1 DEF TasksInv, PostedIsNew, EXIT, Task, TypeOK
  <2>3. /\ client'[c] = "idle"
        /\ \A d \in Clients \ {c} : client'[d] = client[d]
    BY <2>1 DEF TypeOK
  <2>4. Running' = Running
    BY <2>1 DEF Running
  <2>5. CASE port' = port
    <3>1. InPort' = InPort
      BY <2>5 DEF InPort
    <3> QED BY <2>1, <2>3, <2>4, <2>5, <3>1
      DEF TasksInv, PostedIsNew, AcceptedBeforeExit
  <2>6. CASE port' = Append(port, task[c])
    <3>1. /\ DOMAIN port = 1..Len(port) /\ DOMAIN port' = 1..Len(port) + 1
          /\ Len(port) \in Nat
          /\ \A i \in DOMAIN port : port'[i] = port[i]
          /\ port'[Len(port) + 1] = task[c]
          /\ \A y : y \in InPort' <=> y \in InPort \/ y = task[c]
      BY <2>2, <2>6, PacketAppended DEF InPort, In
    <3>2. PostedIsNew'
      BY <2>1, <2>2, <2>3, <2>4, <3>1 DEF TasksInv, PostedIsNew
    <3>3. \A i \in DOMAIN port' : port'[i] \in accepted \cup {EXIT} =>
            i \in DOMAIN port /\ port[i] = port'[i]
      BY <2>2, <3>1
    <3>4. AcceptedBeforeExit'
      BY <2>1, <2>2, <2>4, <3>1, <3>3 DEF TasksInv, AcceptedBeforeExit
    <3> QED BY <3>2, <3>4 DEF TasksInv
  <2> QED BY <2>1, <2>5, <2>6
<1>8. ASSUME NEW label \in {"quit", "quita"}, BeginQuit(label) PROVE TasksInv'
  <2>1. /\ UNCHANGED <<port, event_handlers_, handler, running, ran, client, task, made>>
        /\ owner = "up" /\ owner' = label
        /\ accepted' = (InPort \cup Running) \ {EXIT}
    BY <1>8 DEF BeginQuit, handlerVars, portVars, clientVars
  <2>2. InPort' = InPort /\ Running' = Running
    BY <2>1 DEF InPort, Running
  <2>3. PostedIsNew'
    <3>1. \A x \in Running : x \in 0..made
      BY RunningIs DEF TasksInv, PostedIsNew
    <3> QED BY <2>1, <2>2, <3>1 DEF TasksInv, PostedIsNew
  <2>4. AcceptedBeforeExit'
    BY <2>1, <2>2 DEF AcceptedBeforeExit, ThreadsInv, NoExitBeforeQuit
  <2> QED BY <2>3, <2>4 DEF TasksInv
<1>9. CASE PostExitSignal
  <2>1. /\ UNCHANGED <<event_handlers_, handler, running, ran, owner, client, task, made, accepted>>
        /\ port' = port \/ port' = Append(port, EXIT)
    BY <1>9 DEF PostExitSignal, Post, handlerVars, clientVars
  <2>2. EXIT \in Task \cup {EXIT} /\ port \in Seq(Task \cup {EXIT}) /\ EXIT \notin accepted
    BY DEF EXIT, Task, TypeOK
  <2>3. Running' = Running
    BY <2>1 DEF Running
  <2>4. CASE port' = port
    <3>1. InPort' = InPort
      BY <2>4 DEF InPort
    <3> QED BY <2>1, <2>3, <2>4, <3>1 DEF TasksInv, PostedIsNew, AcceptedBeforeExit
  <2>5. CASE port' = Append(port, EXIT)
    <3>1. /\ DOMAIN port = 1..Len(port) /\ DOMAIN port' = 1..Len(port) + 1
          /\ Len(port) \in Nat
          /\ \A i \in DOMAIN port : port'[i] = port[i]
          /\ port'[Len(port) + 1] = EXIT
          /\ \A y : y \in InPort' <=> y \in InPort \/ y = EXIT
      BY <2>2, <2>5, PacketAppended DEF InPort, In
    <3>2. PostedIsNew'
      BY <1>0, <2>1, <2>3, <3>1 DEF TasksInv, PostedIsNew, EXIT
    <3>3. \A i \in DOMAIN port' : port'[i] \in accepted => i \in DOMAIN port /\ port[i] = port'[i]
      BY <2>2, <3>1
    <3>4. \A i \in DOMAIN port' :
            \/ i \in DOMAIN port /\ port[i] = port'[i]
            \/ i = Len(port) + 1
      BY <3>1
    <3>5. AcceptedBeforeExit'
      <4> SUFFICES ASSUME owner \in {"quit", "quita", "endless", "join", "clear"}
                   PROVE  /\ accepted \subseteq ran \cup InPort' \cup Running
                          /\ \A i, j \in DOMAIN port' :
                               port'[i] \in accepted /\ port'[j] = EXIT => i < j
                          /\ (\E k \in event_handlers_ : handler[k] \in {"leave", "exited"})
                               => accepted \cap InPort' = {}
                          /\ owner = "clear" => accepted \subseteq ran
        BY <2>1, <2>3 DEF AcceptedBeforeExit
      <4>1. ASSUME NEW i \in DOMAIN port', NEW j \in DOMAIN port',
                   port'[i] \in accepted, port'[j] = EXIT
            PROVE  i < j
        BY <3>1, <3>3, <3>4, <4>1 DEF TasksInv, AcceptedBeforeExit
      <4>2. /\ accepted \subseteq ran \cup InPort' \cup Running
            /\ (\E k \in event_handlers_ : handler[k] \in {"leave", "exited"})
                 => accepted \cap InPort' = {}
            /\ owner = "clear" => accepted \subseteq ran
        BY <2>2, <3>1 DEF TasksInv, AcceptedBeforeExit
      <4> QED BY <4>1, <4>2
    <3> QED BY <3>2, <3>5 DEF TasksInv
  <2> QED BY <2>1, <2>4, <2>5
<1>10. CASE OwnerGoesOn
  <2>1. UNCHANGED <<port, event_handlers_, handler, running, ran, client, task, made, accepted>>
    BY <1>10 DEF OwnerGoesOn, WaitLatch, TimeOut, AWaitEndless, Join, Step, portVars,
      handlerVars, clientVars
  <2>2. InPort' = InPort /\ Running' = Running
    BY <2>1 DEF InPort, Running
  <2>3. owner \in {"quit", "quita", "endless", "join"}
    BY <1>10 DEF OwnerGoesOn, WaitLatch, TimeOut, AWaitEndless, Join, Waiting
  <2>4. CASE owner' # "clear"
    BY <2>1, <2>2, <2>3, <2>4 DEF TasksInv, PostedIsNew, AcceptedBeforeExit
  <2>5. CASE owner' = "clear"
    <3>1. Join
      BY <1>10, <2>5 DEF OwnerGoesOn, WaitLatch, TimeOut, AWaitEndless, Step
    <3>2. event_handlers_ = Handlers /\ \A h \in Handlers : handler[h] = "exited"
      BY <3>1 DEF Join, ThreadsInv, VectorIsFull
    <3>3. Running = {} /\ \E h \in Handlers : handler[h] = "exited"
      BY <3>2, ServerAssumption DEF Running
    <3>4. accepted \subseteq ran
      BY <2>3, <3>2, <3>3 DEF TasksInv, AcceptedBeforeExit
    <3> QED BY <2>1, <2>2, <2>3, <3>4 DEF TasksInv, PostedIsNew, AcceptedBeforeExit
  <2> QED BY <2>4, <2>5
<1>11. ASSUME NEW h \in Handlers, Clear(h) PROVE TasksInv'
  <2>1. /\ UNCHANGED <<port, running, ran, owner, client, task, made, accepted>>
        /\ owner \in {"clear", "kill"} /\ event_handlers_' = event_handlers_ \ {h}
        /\ handler' = [handler EXCEPT ![h] = IF @ = "exited" THEN @ ELSE "killed"]
    BY <1>11 DEF Clear, ownerVars, clientVars
  <2>2. /\ \A k \in Handlers : handler'[k] = "run" => handler[k] = "run"
        /\ owner = "clear" => handler' = handler
    BY <2>1 DEF TypeOK, ThreadsInv, VectorIsFull
  <2>3. /\ InPort' = InPort
        /\ \A x : x \in Running' => x \in Running
        /\ owner = "clear" => Running' = Running
    BY <2>1, <2>2, RunningIs DEF InPort, Running
  <2>4. PostedIsNew'
    BY <2>1, <2>2, <2>3 DEF TasksInv, PostedIsNew
  <2>5. AcceptedBeforeExit'
    BY <2>1, <2>2, <2>3 DEF TasksInv, AcceptedBeforeExit
  <2> QED BY <2>4, <2>5 DEF TasksInv
<1>12. CASE EndQuit
  <2>1. UNCHANGED <<port, handler, running, ran, client, task, made, accepted>> /\ owner' = "idle"
    BY <1>12 DEF EndQuit, handlerVars, clientVars
  <2>2. InPort' = InPort /\ Running' = Running
    BY <2>1 DEF InPort, Running
  <2> QED BY <2>1, <2>2 DEF TasksInv, PostedIsNew, AcceptedBeforeExit
<1> QED
  BY <1>1, <1>2, <1>3, <1>4, <1>5, <1>6, <1>7, <1>8, <1>9, <1>10, <1>11, <1>12
  DEF Next, OwnerStep, OwnerGoesOn, Quit, QuitA, Handler

-----------------------------------------------------------------------------
(* The exit signals *)

LEMMA ExitsStep ==
  ASSUME TypeOK, ThreadsInv, TasksInv, OneExitPerHandler, Next
  PROVE  OneExitPerHandler'
<1>0. /\ port \in Seq(Task \cup {EXIT}) /\ exits \in Nat /\ unsent \in Nat
      /\ ExitsInPort = Cardinality(ExitsAt(port)) /\ ExitsInPort \in Nat
  <2>1. port \in Seq(Task \cup {EXIT}) /\ exits \in Nat /\ unsent \in Nat
    BY DEF TypeOK
  <2>2. ExitsInPort = Cardinality(ExitsAt(port))
    BY DEF ExitsInPort, ExitsAt
  <2> QED BY <2>1, <2>2, ExitsFinite
<1>a. ExitsInPort' = Cardinality(ExitsAt(port'))
  BY DEF ExitsInPort, ExitsAt
<1>b. InLoop \in SUBSET Handlers /\ Cardinality(InLoop) \in Nat
  BY HandlersFinite DEF InLoop, TypeOK
<1>1. CASE CreatePort \/ EndQuit \/ \E h \in Handlers : StartHandler(h)
  BY <1>1 DEF CreatePort, EndQuit, StartHandler, OneExitPerHandler
<1>2. ASSUME NEW h \in Handlers, GetQueuedCompletionStatus(h) PROVE OneExitPerHandler'
  <2>1. /\ UNCHANGED <<event_handlers_, owner, exits, unsent>>
        /\ port # <<>> /\ port' = Tail(port)
        /\ handler[h] = "get" /\ h \in event_handlers_
        /\ handler' = [handler EXCEPT ![h] = IF Head(port) = EXIT THEN "leave" ELSE "run"]
    BY <1>2 DEF GetQueuedCompletionStatus, ownerVars, ThreadsInv, GoneHaveEnded
  <2>2. Cardinality(ExitsAt(port)) =
          IF Head(port) = EXIT THEN Cardinality(ExitsAt(port')) + 1
                               ELSE Cardinality(ExitsAt(port'))
    BY <1>0, <2>1, PacketTaken
  <2>3. Cardinality(ExitsAt(port')) \in Nat
    <3>1. port' \in Seq(Task \cup {EXIT})
      BY <1>0, <2>1
    <3> QED BY <3>1, ExitsFinite
  <2>4. /\ h \in InLoop
        /\ InLoop' = IF Head(port) = EXIT THEN InLoop \ {h} ELSE InLoop
    BY <2>1 DEF InLoop, TypeOK
  <2>5. Cardinality(InLoop \ {h}) = Cardinality(InLoop) - 1
    BY <1>b, <2>4, HandlersFinite
  <2> QED BY <1>0, <1>a, <1>b, <2>1, <2>2, <2>3, <2>4, <2>5 DEF OneExitPerHandler
<1>3. ASSUME NEW h \in Handlers, Run(h) \/ CountDown(h) PROVE OneExitPerHandler'
  <2>1. UNCHANGED <<port, event_handlers_, owner, exits, unsent>>
    BY <1>3 DEF Run, CountDown, portVars, ownerVars
  <2>2. InLoop' = InLoop
    BY <1>3 DEF Run, CountDown, AfterTask, portVars, InLoop, TypeOK
  <2> QED BY <2>1, <2>2 DEF OneExitPerHandler, ExitsInPort
<1>4. ASSUME NEW c \in Clients, CheckPort(c) \/ PostTask(c) PROVE OneExitPerHandler'
  <2>1. UNCHANGED <<event_handlers_, handler, owner, exits, unsent>>
    BY <1>4 DEF CheckPort, PostTask, portVars, handlerVars, ownerVars
  <2>2. port' = port \/ (port' = Append(port, task[c]) /\ task[c] \in 1..made)
    BY <1>4 DEF CheckPort, PostTask, Post, portVars, TasksInv, PostedIsNew
  <2>3. task[c] \in 1..made => task[c] \in Task \cup {EXIT} /\ task[c] # EXIT
    BY ServerAssumption DEF Task, EXIT, TypeOK
  <2>4. Cardinality(ExitsAt(port')) = Cardinality(ExitsAt(port))
    BY <1>0, <2>2, <2>3, PacketAppended
  <2> QED BY <1>0, <1>a, <2>1, <2>4 DEF OneExitPerHandler, InLoop
<1>5. ASSUME NEW label \in {"quit", "quita"}, BeginQuit(label) PROVE OneExitPerHandler'
  <2>1. /\ UNCHANGED <<port, event_handlers_, handler>> /\ owner = "up"
        /\ exits' = Cardinality(event_handlers_) /\ unsent' = 0
    BY <1>5 DEF BeginQuit, Signals, portVars, handlerVars
  <2>2. InLoop' = event_handlers_ /\ ExitsAt(port) = {}
    BY <2>1 DEF ThreadsInv, NoExitBeforeQuit, InLoop, ExitsAt
  <2>3. Cardinality(ExitsAt(port')) = 0 /\ exits' \in Nat
    BY <2>1, <2>2, FS_EmptySet, HandlersFinite DEF TypeOK
  <2> QED BY <1>a, <2>1, <2>2, <2>3 DEF OneExitPerHandler
<1>6. CASE PostExitSignal
  <2>1. /\ UNCHANGED <<event_handlers_, handler, owner>>
        /\ exits > 0 /\ exits' = exits - 1
        /\ \/ port' = Append(port, EXIT) /\ unsent' = unsent
           \/ port' = port /\ unsent' = unsent + 1
    <3>1. /\ UNCHANGED <<event_handlers_, handler, owner>>
          /\ exits > 0 /\ exits' = exits - 1
      BY <1>6 DEF PostExitSignal, handlerVars
    <3>2. \/ port' = Append(port, EXIT) /\ unsent' = unsent
          \/ port' = port /\ unsent' = unsent + 1
      BY <1>6 DEF PostExitSignal, Post
    <3> QED BY <3>1, <3>2
  <2>2. ASSUME port' = Append(port, EXIT)
        PROVE  Cardinality(ExitsAt(port')) = Cardinality(ExitsAt(port)) + 1
    <3>1. EXIT \in Task \cup {EXIT}
      OBVIOUS
    <3> QED BY <1>0, <2>2, <3>1, ExitAppended
  <2>3. InLoop' = InLoop
    BY <2>1 DEF InLoop
  <2> QED BY <1>0, <1>a, <2>1, <2>2, <2>3 DEF OneExitPerHandler
<1>7. CASE OwnerGoesOn
  <2>1. UNCHANGED <<port, event_handlers_, handler, exits, unsent>>
    BY <1>7 DEF OwnerGoesOn, WaitLatch, TimeOut, AWaitEndless, Join, Step, portVars,
      handlerVars
  <2>2. owner \in {"quit", "quita", "endless", "join"}
    BY <1>7 DEF OwnerGoesOn, WaitLatch, TimeOut, AWaitEndless, Join, Waiting
  <2> QED BY <2>1, <2>2 DEF OneExitPerHandler, InLoop, ExitsInPort
<1>8. ASSUME NEW h \in Handlers, Clear(h) PROVE OneExitPerHandler'
  <2>1. /\ UNCHANGED <<port, owner, exits, unsent>> /\ owner \in {"clear", "kill"}
        /\ event_handlers_' = event_handlers_ \ {h}
        /\ handler' = [handler EXCEPT ![h] = IF @ = "exited" THEN @ ELSE "killed"]
    BY <1>8 DEF Clear, ownerVars
  <2>2. owner = "clear" => InLoop' = InLoop
    BY <2>1 DEF InLoop, ThreadsInv, VectorIsFull, TypeOK
  <2> QED BY <2>1, <2>2 DEF OneExitPerHandler, ExitsInPort
<1> QED
  BY <1>1, <1>2, <1>3, <1>4, <1>5, <1>6, <1>7, <1>8
  DEF Next, OwnerStep, OwnerGoesOn, Quit, QuitA, Handler

-----------------------------------------------------------------------------
(* The types *)

LEMMA ServerTypesStep ==
  ASSUME TypeOK, ThreadsInv, TasksInv, OneExitPerHandler, Next
  PROVE  TypeOK'
<1>0. /\ Cardinality(Handlers) \in Nat \ {0} /\ made \in Nat /\ MaxTasks \in Nat
      /\ MaxLives \in Nat /\ 1..made \subseteq Task
  BY ServerAssumption, HandlersFinite DEF TypeOK, Task
<1>1. CASE CreatePort
  <2>1. port' \in Seq(Task \cup {EXIT}) /\ latch_' \in 0..Cardinality(Handlers)
    BY <1>0, <1>1 DEF CreatePort, LatchOf
  <2> QED BY <1>0, <1>1, <2>1 DEF CreatePort, TypeOK, handlerVars, clientVars
<1>2. ASSUME NEW h \in Handlers, StartHandler(h) PROVE TypeOK'
  BY <1>2 DEF StartHandler, TypeOK, clientVars
<1>3. ASSUME NEW h \in Handlers, GetQueuedCompletionStatus(h) PROVE TypeOK'
  <2>1. port' \in Seq(Task \cup {EXIT}) /\ Head(port) \in Task \cup {EXIT}
    BY <1>3 DEF GetQueuedCompletionStatus, TypeOK
  <2> QED BY <1>3, <2>1 DEF GetQueuedCompletionStatus, TypeOK, ownerVars,
    clientVars, EXIT
<1>4. ASSUME NEW h \in Handlers, Run(h) PROVE TypeOK'
  <2>1. running[h] \in Task
    BY <1>0, <1>4 DEF Run, TasksInv, PostedIsNew
  <2> QED BY <1>4, <2>1 DEF Run, AfterTask, TypeOK, portVars, ownerVars, clientVars
<1>5. ASSUME NEW h \in Handlers, CountDown(h) PROVE TypeOK'
  <2>1. latch_' \in 0..Cardinality(Handlers)
    BY <1>0, <1>5 DEF CountDown, Down, TypeOK
  <2> QED BY <1>5, <2>1 DEF CountDown, TypeOK, ownerVars, clientVars
<1>6. ASSUME NEW c \in Clients, CheckPort(c) PROVE TypeOK'
  <2>1. task' \in [Clients -> 0..made'] /\ made' \in 0..MaxTasks
    BY <1>0, <1>6 DEF CheckPort, TypeOK
  <2> QED BY <1>6, <2>1 DEF CheckPort, TypeOK, portVars, handlerVars, ownerVars
<1>7. ASSUME NEW c \in Clients, PostTask(c) PROVE TypeOK'
  <2>1. task[c] \in Task
    BY <1>0, <1>7 DEF PostTask, TasksInv, PostedIsNew
  <2>2. port' \in Seq(Task \cup {EXIT})
    <3>1. port' = port \/ port' = Append(port, task[c])
      BY <1>7 DEF PostTask, Post
    <3> QED BY <2>1, <3>1 DEF TypeOK
  <2> QED BY <1>7, <2>2 DEF PostTask, TypeOK, handlerVars, ownerVars
<1>8. ASSUME NEW label \in {"quit", "quita"}, BeginQuit(label) PROVE TypeOK'
  <2>1. exits' \in 0..Cardinality(Handlers)
    BY <1>8, HandlersFinite DEF BeginQuit, Signals, TypeOK
  <2>2. accepted' \subseteq Task
    BY <1>0, <1>8 DEF BeginQuit, InPort, Running, TypeOK, EXIT
  <2> QED BY <1>0, <1>8, <2>1, <2>2 DEF BeginQuit, TypeOK, portVars, handlerVars, clientVars
<1>9. CASE PostExitSignal
  <2>1. port' \in Seq(Task \cup {EXIT})
    <3>1. port' = port \/ port' = Append(port, EXIT)
      BY <1>9 DEF PostExitSignal, Post
    <3> QED BY <3>1 DEF TypeOK
  <2>2. exits' \in 0..Cardinality(Handlers) /\ unsent' \in 0..Cardinality(Handlers)
    <3>1. /\ Cardinality(InLoop) \in 0..Cardinality(Handlers)
          /\ Cardinality(InLoop) = ExitsInPort + exits + unsent
      BY <1>9, HandlersFinite DEF PostExitSignal, OneExitPerHandler, InLoop, TypeOK
    <3>2. ExitsInPort \in Nat
      BY ExitsFinite DEF ExitsInPort, ExitsAt, TypeOK
    <3> QED BY <1>0, <1>9, <3>1, <3>2 DEF PostExitSignal, TypeOK
  <2> QED BY <1>9, <2>1, <2>2 DEF PostExitSignal, TypeOK, handlerVars, clientVars
<1>10. CASE OwnerGoesOn
  BY <1>10 DEF OwnerGoesOn, WaitLatch, TimeOut, AWaitEndless, Join, Step, TypeOK,
    portVars, handlerVars, clientVars
<1>11. ASSUME NEW h \in Handlers, Clear(h) PROVE TypeOK'
  BY <1>11 DEF Clear, TypeOK, ownerVars, clientVars
<1>12. CASE EndQuit
  BY <1>12 DEF EndQuit, TypeOK, handlerVars, clientVars
<1> QED
  BY <1>1, <1>2, <1>3, <1>4, <1>5, <1>6, <1>7, <1>8, <1>9, <1>10, <1>11, <1>12
  DEF Next, OwnerStep, OwnerGoesOn, Quit, QuitA, Handler

-----------------------------------------------------------------------------
(* The invariant *)

ServerInv == TypeOK /\ ThreadsInv /\ TasksInv /\ OneExitPerHandler

LEMMA ServerInitInv == Init => ServerInv
<1> SUFFICES ASSUME Init PROVE ServerInv
  OBVIOUS
<1>0. /\ Cardinality(Handlers) \in Nat \ {0} /\ MaxTasks \in Nat /\ MaxLives \in Nat
  BY ServerAssumption, HandlersFinite
<1>1. port = <<>> /\ port \in Seq(Task \cup {EXIT}) /\ InPort = {} /\ Running = {}
  BY DEF Init, InPort, Running
<1>2. TypeOK
  BY <1>0, <1>1 DEF Init, TypeOK
<1>3. ThreadsInv
  BY DEF Init, ThreadsInv, GoneHaveEnded, NoExitBeforeQuit, VectorIsFull, LatchCounts,
    JoinDoesNotWait
<1>4. TasksInv /\ OneExitPerHandler
  BY <1>1 DEF Init, TasksInv, PostedIsNew, AcceptedBeforeExit, OneExitPerHandler
<1> QED BY <1>2, <1>3, <1>4 DEF ServerInv

LEMMA ServerNextInv == ServerInv /\ [Next]_vars => ServerInv'
<1> SUFFICES ASSUME ServerInv, [Next]_vars PROVE ServerInv'
  OBVIOUS
<1> USE DEF ServerInv
<1>1. CASE Next
  <2>1. PostedIsNew
    BY DEF TasksInv
  <2> QED BY <1>1, <2>1, ThreadsStep, TasksStep, ExitsStep, ServerTypesStep
<1>2. CASE UNCHANGED vars
  <2>1. UNCHANGED <<completion_port, port, latch_, event_handlers_, handler, running, ran,
                    owner, exits, count, lives, accepted, unsent, client, task, made>>
    BY <1>2 DEF vars, portVars, handlerVars, ownerVars, clientVars
  <2>2. InPort' = InPort /\ Running' = Running /\ InLoop' = InLoop /\ ExitsInPort' = ExitsInPort
    BY <2>1 DEF InPort, Running, InLoop, ExitsInPort
  <2> QED BY <2>1, <2>2 DEF TypeOK, ThreadsInv, GoneHaveEnded, NoExitBeforeQuit,
    VectorIsFull, LatchCounts, JoinDoesNotWait, TasksInv, PostedIsNew,
    AcceptedBeforeExit, OneExitPerHandler
<1> QED BY <1>1, <1>2

\* Every variable keeps its type: no packet but a task or the exit signal enters
\* the port, and the latch does not count below zero. (iocp_server.h)
THEOREM ServerTypes == Spec => []TypeOK
<1>1. ServerInv => TypeOK
  BY DEF ServerInv
<1> QED BY <1>1, ServerInitInv, ServerNextInv, PTL DEF Spec

\* While a server quits, there is one exit signal for every thread in its loop, in
\* the port, still to be posted, or lost. (iocp_server.cpp, PostExitSignal)
THEOREM OneExitEach == Spec => []OneExitPerHandler
<1>1. ServerInv => OneExitPerHandler
  BY DEF ServerInv
<1> QED BY <1>1, ServerInitInv, ServerNextInv, PTL DEF Spec

\* The join that follows the latch does not wait, unless Init was called with 0
\* handlers. (iocp_server.cpp, Quit and QuitA)
THEOREM JoinIsImmediate == Spec => []JoinDoesNotWait
<1>1. ServerInv => JoinDoesNotWait
  BY DEF ServerInv, ThreadsInv
<1> QED BY <1>1, ServerInitInv, ServerNextInv, PTL DEF Spec

\* The tasks that were accepted when Quit or QuitA was called have all run when it
\* has joined the threads, and none is running. (iocp_server.cpp, Quit and QuitA)
THEOREM QuitRunsTasks == Spec => []QuitRunsAccepted
<1>1. ServerInv => QuitRunsAccepted
  BY DEF ServerInv, ThreadsInv, VectorIsFull, TasksInv, AcceptedBeforeExit,
    QuitRunsAccepted, Running
<1> QED BY <1>1, ServerInitInv, ServerNextInv, PTL DEF Spec
-----------------------------------------------------------------------------
(* What a Quit waits for *)

\* A thread in the vector was started and not terminated; without a port it is in
\* its loop.
VectorIsAlive ==
  /\ \A h \in event_handlers_ : handler[h] \in {"get", "run", "leave", "exited"}
  /\ completion_port = "null" => \A h \in event_handlers_ : handler[h] = "get"
  /\ owner = "join" => exits = 0
  /\ count = 0 => latch_ = 0

LEMMA VectorIsAliveInit == Init => VectorIsAlive
BY DEF Init, VectorIsAlive

LEMMA VectorIsAliveStep ==
  ASSUME TypeOK, ThreadsInv, VectorIsAlive, [Next]_vars
  PROVE  VectorIsAlive'
<1>1. CASE CreatePort \/ EndQuit
  BY <1>1 DEF CreatePort, EndQuit, handlerVars, LatchOf,
    ThreadsInv, VectorIsFull, VectorIsAlive
<1>2. ASSUME NEW h \in Handlers, StartHandler(h) PROVE VectorIsAlive'
  BY <1>2 DEF StartHandler, VectorIsAlive, TypeOK
<1>3. ASSUME NEW h \in Handlers, Handler(h) PROVE VectorIsAlive'
  BY <1>3 DEF Handler, GetQueuedCompletionStatus, Run, CountDown, Down, AfterTask,
    portVars, ownerVars, VectorIsAlive, TypeOK
<1>4. ASSUME NEW c \in Clients, CheckPort(c) \/ PostTask(c) PROVE VectorIsAlive'
  BY <1>4 DEF CheckPort, PostTask, portVars, handlerVars, ownerVars, VectorIsAlive
<1>5. ASSUME NEW label \in {"quit", "quita"}, BeginQuit(label) PROVE VectorIsAlive'
  BY <1>5 DEF BeginQuit, portVars, handlerVars, VectorIsAlive
<1>6. CASE PostExitSignal \/ OwnerGoesOn
  BY <1>6 DEF PostExitSignal, OwnerGoesOn, WaitLatch, TimeOut, AWaitEndless, Join,
    Waiting, Step, portVars, handlerVars, VectorIsAlive
<1>7. ASSUME NEW h \in Handlers, Clear(h) PROVE VectorIsAlive'
  BY <1>7 DEF Clear, ownerVars, VectorIsAlive, TypeOK
<1>8. CASE UNCHANGED vars
  BY <1>8 DEF vars, portVars, handlerVars, ownerVars, VectorIsAlive
<1> QED
  BY <1>1, <1>2, <1>3, <1>4, <1>5, <1>6, <1>7, <1>8
  DEF Next, OwnerStep, OwnerGoesOn, Quit, QuitA

\* While a Quit whose signals were all posted waits, a thread can move: one that has not exited is
\* in a task, leaves, or is in its loop and has an exit signal in the port.
\* (iocp_server.cpp, Quit and QuitA)
THEOREM QuitNotStuck == Spec => []QuitIsNotStuck
<1>1. ServerInv /\ VectorIsAlive => QuitIsNotStuck
  <2> SUFFICES ASSUME ServerInv, VectorIsAlive, unsent = 0, StillWaits
               PROVE  \E h \in event_handlers_ :
                        handler[h] \in {"run", "leave"} \/ (handler[h] = "get" /\ port # <<>>)
    BY DEF QuitIsNotStuck
  <2>1. owner \in {"quit", "quita", "endless", "join"} /\ exits = 0 /\ event_handlers_ = Handlers
    BY DEF StillWaits, Waiting, VectorIsAlive, ServerInv, ThreadsInv, VectorIsFull
  <2>2. \E h \in Handlers : handler[h] # "exited"
    <3>1. CASE Waiting /\ latch_ > 0
      <4>1. count > 0
        BY <3>1 DEF VectorIsAlive, ServerInv, TypeOK
      <4>2. Cardinality(NotExited) > 0
        BY <3>1, <4>1 DEF Waiting, ServerInv, ThreadsInv, LatchCounts, NotExited
      <4>3. NotExited # {}
        BY <4>2, FS_EmptySet
      <4> QED BY <4>3 DEF NotExited
    <3> QED BY <2>1, <3>1 DEF StillWaits
  <2>3. PICK h \in Handlers : handler[h] # "exited"
    BY <2>2
  <2>4. handler[h] \in {"get", "run", "leave"}
    BY <2>1, <2>3 DEF VectorIsAlive
  <2>5. CASE handler[h] = "get"
    <3>1. h \in InLoop /\ InLoop \in SUBSET Handlers
      BY <2>1, <2>5 DEF InLoop
    <3>2. Cardinality(InLoop) # 0
      BY <3>1, HandlersFinite
    <3>3. ExitsInPort # 0
      <4>1. Cardinality(InLoop) = ExitsInPort + 0 + 0
        BY <2>1 DEF ServerInv, OneExitPerHandler
      <4> QED BY <3>2, <4>1
    <3>4. port # <<>>
      BY <3>3, FS_EmptySet DEF ExitsInPort
    <3> QED BY <2>1, <2>5, <3>4
  <2> QED BY <2>1, <2>4, <2>5
<1> QED
  BY <1>1, ServerInitInv, ServerNextInv, VectorIsAliveInit, VectorIsAliveStep, PTL
  DEF Spec, ServerInv

\* A Quit of a server without a port never ends. (iocp_server.cpp, Init and Quit)
THEOREM NullPortNeverQuits == Spec => [][NullPortHangs]_vars
<1>1. ServerInv /\ VectorIsAlive /\ [Next]_vars => [NullPortHangs]_vars
  <2> SUFFICES ASSUME ServerInv, VectorIsAlive, Next, completion_port = "null",
                      owner \in {"quit", "join"}
               PROVE  completion_port' = "null" /\ owner' \in {"quit", "join"}
    BY DEF NullPortHangs
  <2>1. \E h \in event_handlers_ : handler[h] # "exited"
    <3>1. event_handlers_ = Handlers /\ Handlers # {}
      BY ServerAssumption DEF ServerInv, ThreadsInv, VectorIsFull
    <3> QED BY <3>1 DEF VectorIsAlive
  <2>2. ~Join
    BY <2>1 DEF Join
  <2> QED BY <2>2 DEF Next, OwnerStep, Handler, CreatePort, StartHandler,
    GetQueuedCompletionStatus, Run, CountDown, CheckPort, PostTask, Quit, QuitA,
    BeginQuit, PostExitSignal, WaitLatch, TimeOut, AWaitEndless, Step, Clear,
    EndQuit, portVars, ownerVars
<1> QED
  BY <1>1, ServerInitInv, ServerNextInv, VectorIsAliveInit, VectorIsAliveStep, PTL
  DEF Spec, ServerInv
=============================================================================
