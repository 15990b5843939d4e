----------------------- MODULE ThreadMessageLoopProofs -----------------------
(***************************************************************************)
(* Proofs about ThreadMessageLoop, for any clients, threads that stop the  *)
(* loop and number of messages.  The argument: a message has one holder,   *)
(* its caller until it is posted, then the queue, then the loop; a latch   *)
(* that is down belongs to a task that the loop is done with; and what was *)
(* queued when Stop was called is ahead of every WM_QUIT.                  *)
(***************************************************************************)
EXTENDS ThreadMessageLoop, FiniteSetTheorems, TLAPS

PostLabels == {"checkstopped", "checkready", "post"}

\* Messages are numbered in the order in which they are made.
Numbered ==
  /\ \A n \in Task : n > made => kind[n] = "none" /\ n \notin heap \cup open \cup lost
  /\ \A n \in Queued : n <= made
  /\ current <= made
  /\ loop = "countdown" => current \in ran
  /\ \A t \in Clients : pc[t] \in PostLabels => task[t] \in Task

\* A message has one holder.
OneHolder ==
  /\ \A t, u \in Clients :
       pc[t] \in PostLabels /\ pc[u] \in PostLabels /\ task[t] = task[u] => t = u
  /\ \A i, j \in DOMAIN messages :
       messages[i] = messages[j] /\ messages[i] # WM_QUIT => i = j
  /\ \A t \in Clients : pc[t] \in PostLabels =>
       task[t] \notin Queued \cup lost \cup open /\ ~InLoop(task[t])
  /\ \A n \in Task : n \in Queued => n \notin lost \cup open /\ ~InLoop(n)
  /\ \A n \in Task : InLoop(n) => n \notin lost /\ (n \in open => loop = "delete")

Held(n) ==
  \/ \E t \in Clients : pc[t] \in PostLabels /\ task[t] = n
  \/ n \in Queued \/ InLoop(n) \/ n \in lost

\* What is on the heap has a holder, and what has one is on the heap.
HeapIsHeld == \A n \in Task : kind[n] \in TaskFns => (n \in heap <=> Held(n))

\* Nothing is posted before the loop is ready.
ReadyInv ==
  /\ loop \in {"peek", "check", "ready"} => ~ready
  /\ loop \in {"get", "dispatch", "countdown", "delete"} => ready
  /\ ~ready => /\ Queued \cap Task = {} /\ accepted \cap Task = {}
               /\ \A t \in Clients : pc[t] # "post"

\* The message n is in the queue, ahead of every WM_QUIT.
AheadOfQuit(n) ==
  \E i \in DOMAIN messages :
    messages[i] = n /\ \A j \in DOMAIN messages : j <= i => messages[j] # WM_QUIT

StopInv ==
  /\ \A t \in Stoppers : pc[t] = "quit" => is_stopped_
  /\ WM_QUIT \in Queued \/ loop = "exited" => is_stopped_
  /\ \A n \in accepted : n <= made
  /\ \A n \in accepted \cap Task :
       kind[n] \in TaskFns /\ n \notin ran \cup lost /\ loop # "killed" =>
         /\ loop # "exited"
         /\ AheadOfQuit(n) \/ (loop = "dispatch" /\ current = n)

LoopInv ==
  /\ TypeOK /\ Numbered /\ OneHolder /\ HeapIsHeld
  /\ FrameOutlivesTask /\ ReadyInv /\ StopInv

-----------------------------------------------------------------------------
(* The message queue *)

LEMMA Appended ==
  ASSUME NEW S, NEW s \in Seq(S), NEW e \in S, NEW r, r = Append(s, e)
  PROVE  /\ r \in Seq(S)
         /\ DOMAIN s = 1..Len(s) /\ DOMAIN r = 1..(Len(s) + 1) /\ Len(s) \in Nat
         /\ \A i \in DOMAIN s : r[i] = s[i]
         /\ r[Len(s) + 1] = e
         /\ \A x : (\E i \in DOMAIN r : r[i] = x) <=> (\E i \in DOMAIN s : s[i] = x) \/ x = e
<1>1. /\ r \in Seq(S)
      /\ DOMAIN s = 1..Len(s) /\ DOMAIN r = 1..(Len(s) + 1) /\ Len(s) \in Nat
      /\ \A i \in DOMAIN s : r[i] = s[i]
      /\ r[Len(s) + 1] = e
  OBVIOUS
<1>2. DOMAIN r = DOMAIN s \cup {Len(s) + 1}
  BY <1>1
<1>3. \A x : (\E i \in DOMAIN r : r[i] = x) <=> (\E i \in DOMAIN s : s[i] = x) \/ x = e
  BY <1>1, <1>2
<1> QED
  BY <1>1, <1>3

LEMMA Removed ==
  ASSUME NEW S, NEW s \in Seq(S), s # <<>>, NEW r, r = Tail(s)
  PROVE  /\ r \in Seq(S)
         /\ DOMAIN s = 1..Len(s) /\ DOMAIN r = 1..(Len(s) - 1) /\ Len(s) \in Nat \ {0}
         /\ \A i \in DOMAIN r : r[i] = s[i + 1]
         /\ Head(s) = s[1] /\ Head(s) \in S
OBVIOUS

-----------------------------------------------------------------------------
(* The steps, with what the guards say of each *)

Labels == {"idle", "checkready", "post", "wait", "waitready", "left"}

\* A thread goes on, and nothing else changes.
Passes(t, label) ==
  /\ Pass(t, label)
  /\ \/ /\ t \in Clients
        /\ \/ pc[t] = "checkstopped" /\ label = "checkready"
           \/ pc[t] = "checkready" /\ label = "post" /\ ready
           \/ pc[t] = "wait" /\ label = "idle" /\ task[t] \in open
           \/ pc[t] \in {"await", "waitready"} /\ label = "idle"
           \/ pc[t] = "await" /\ label = "wait"
           \/ pc[t] = "idle" /\ label = "waitready"
     \/ t \in Stoppers /\ pc[t] \in {"join", "refused"} /\ label = "left"

Refuses(t) == pc[t] \in PostLabels /\ Refuse(t)

Posts(t) ==
  /\ pc[t] = "post"
  /\ messages' = Append(messages, task[t])
  /\ pc' = [pc EXCEPT ![t] = AfterPost(kind[task[t]])]
  /\ HasQueue
  /\ UNCHANGED <<loopVars, task, made, kind, ready, is_stopped_, heap, accepted>>

LEMMA Steps ==
  ASSUME [Next]_vars
  PROVE  \/ UNCHANGED vars
         \/ PeekMessage \/ CheckStopped \/ Ready
         \/ GetMessage \/ Dispatch \/ CountDown \/ Delete
         \/ \E t \in Clients : Posts(t) \/ Refuses(t) \/ \E f \in PostFns : Call(t, f)
         \/ \E t \in Clients \cup Stoppers, label \in Labels : Passes(t, label)
         \/ \E t \in Stoppers : Stop(t) \/ PostQuit(t) \/ Destroy(t)
<1>1. ASSUME NEW t \in Clients,
             ClientStep(t) \/ AWaitEndless(t) \/ WaitReady(t) \/ TimeOutReady(t)
      PROVE  Posts(t) \/ Refuses(t) \/ \E label \in Labels : Passes(t, label)
  BY <1>1
  DEF ClientStep, WaitReady, TimeOutReady, CheckCall, IsReady, PostThreadMessage, Wait,
      AWait, AWaitEndless, EndWaitReady, Posts, Refuses, Passes, Goto, PostLabels, Labels
<1>2. ASSUME NEW t \in Stoppers, Join(t) \/ JoinFor(t)
      PROVE  \E label \in Labels : Passes(t, label)
  BY <1>2 DEF Join, JoinFor, Stopped, Passes, Labels
<1> QED
  BY <1>1, <1>2 DEF Next, Loop

-----------------------------------------------------------------------------
(* Types and numbers *)

LEMMA Functions ==
  ASSUME TypeOK
  PROVE  /\ pc = [t \in Clients \cup Stoppers |-> pc[t]]
         /\ task = [t \in Clients |-> task[t]]
         /\ kind = [n \in Task |-> kind[n]]
         /\ made \in Nat /\ MaxTasks \in Nat /\ made <= MaxTasks
         /\ \A t \in Clients : task[t] \in 0..made
BY LoopAssumption DEF TypeOK

LEMMA TypeStep ==
  ASSUME TypeOK, Numbered, [Next]_vars
  PROVE  TypeOK'
<1> USE DEF TypeOK
<1>0. /\ made \in Nat /\ MaxTasks \in Nat /\ made <= MaxTasks
      /\ \A t \in Clients : task[t] \in 0..made
  BY LoopAssumption
<1>1. CASE UNCHANGED vars
  BY <1>1 DEF vars, loopVars, callVars
<1>2. CASE PeekMessage \/ CheckStopped \/ Ready
  BY <1>2 DEF PeekMessage, CheckStopped, Ready, callVars
<1>3. CASE GetMessage
  <2>1. /\ messages' \in Seq(Task \cup {WM_QUIT})
        /\ Head(messages) \in Task \cup {WM_QUIT}
    BY <1>3, Removed DEF GetMessage
  <2> QED
    BY <1>3, <2>1 DEF GetMessage, Ends, callVars
<1>4. CASE Dispatch
  BY <1>4 DEF Dispatch, AfterRun, callVars
<1>5. CASE CountDown \/ Delete
  BY <1>5 DEF CountDown, Delete, callVars, Numbered
<1>6. ASSUME NEW t \in Clients, Posts(t) PROVE TypeOK'
  <2>1. task[t] \in Task \cup {WM_QUIT}
    BY <1>0 DEF Task, WM_QUIT
  <2>2. messages' \in Seq(Task \cup {WM_QUIT})
    BY <1>6, <2>1, Appended DEF Posts
  <2> QED
    BY <1>6, <2>2 DEF Posts, AfterPost, loopVars
<1>7. ASSUME NEW t \in Clients, Refuses(t) PROVE TypeOK'
  BY <1>7 DEF Refuses, Refuse, Goto, loopVars
<1>8. ASSUME NEW t \in Clients, NEW f \in PostFns, Call(t, f) PROVE TypeOK'
  <2>1. made + 1 \in Task /\ made' \in 0..MaxTasks
    BY <1>0, <1>8 DEF Call, Task
  <2>2. task' \in [Clients -> 0..made']
    BY <1>0, <1>8 DEF Call
  <2> QED
    BY <1>8, <2>1, <2>2 DEF Call, Goto, loopVars
<1>9. ASSUME NEW t \in Clients \cup Stoppers, NEW label \in Labels, Passes(t, label)
      PROVE  TypeOK'
  BY <1>9 DEF Passes, Pass, Goto, Labels, loopVars
<1>10. ASSUME NEW t \in Stoppers, Stop(t) PROVE TypeOK'
  <2>1. \A i \in DOMAIN messages : messages[i] \in Task \cup {WM_QUIT}
    OBVIOUS
  <2>2. accepted' \subseteq Task \cup {WM_QUIT}
    BY <1>10, <2>1 DEF Stop
  <2> QED
    BY <1>10, <2>2 DEF Stop, Goto, loopVars
<1>11. ASSUME NEW t \in Stoppers, PostQuit(t) PROVE TypeOK'
  <2>1. messages' \in Seq(Task \cup {WM_QUIT})
    BY <1>11, Appended DEF PostQuit
  <2> QED
    BY <1>11, <2>1 DEF PostQuit, Goto, loopVars
<1>12. ASSUME NEW t \in Stoppers, Destroy(t) PROVE TypeOK'
  BY <1>12 DEF Destroy
<1> QED
  BY <1>1, <1>2, <1>3, <1>4, <1>5, <1>6, <1>7, <1>8, <1>9, <1>10, <1>11, <1>12, Steps

\* What the queue holds, after a post and after a message is taken.
LEMMA QueueAfterPost ==
  ASSUME TypeOK, NEW e \in Task \cup {WM_QUIT}, messages' = Append(messages, e)
  PROVE  /\ Queued' = Queued \cup {e}
         /\ DOMAIN messages' = DOMAIN messages \cup {Len(messages) + 1}
         /\ Len(messages) + 1 \notin DOMAIN messages
         /\ \A i \in DOMAIN messages : messages'[i] = messages[i] /\ i < Len(messages) + 1
         /\ messages'[Len(messages) + 1] = e
<1>1. messages \in Seq(Task \cup {WM_QUIT})
  BY DEF TypeOK
<1>2. /\ DOMAIN messages = 1..Len(messages) /\ DOMAIN messages' = 1..(Len(messages) + 1)
      /\ Len(messages) \in Nat
      /\ \A i \in DOMAIN messages : messages'[i] = messages[i]
      /\ messages'[Len(messages) + 1] = e
  BY <1>1, Appended
<1>3. \A x : (\E i \in DOMAIN messages' : messages'[i] = x)
               <=> (\E i \in DOMAIN messages : messages[i] = x) \/ x = e
  BY <1>1, Appended
<1>4. \A x : x \in Queued' <=> x \in Queued \/ x = e
  BY <1>3 DEF Queued
<1> QED
  BY <1>2, <1>4

LEMMA QueueAfterGet ==
  ASSUME TypeOK, GetMessage
  PROVE  /\ Queued = Queued' \cup {current'}
         /\ current' \in Task \cup {WM_QUIT}
         /\ current' = messages[1] /\ 1 \in DOMAIN messages
         /\ DOMAIN messages \subseteq Nat \ {0} /\ DOMAIN messages' \subseteq Nat \ {0}
         /\ \A i \in DOMAIN messages' :
              i + 1 \in DOMAIN messages /\ messages'[i] = messages[i + 1]
         /\ \A i \in DOMAIN messages : i = 1 \/ i - 1 \in DOMAIN messages'
<1>1. messages \in Seq(Task \cup {WM_QUIT}) /\ messages # <<>>
  BY DEF TypeOK, GetMessage
<1>2. messages' = Tail(messages) /\ current' = Head(messages)
  BY DEF GetMessage
<1>3. /\ DOMAIN messages = 1..Len(messages) /\ DOMAIN messages' = 1..(Len(messages) - 1)
      /\ Len(messages) \in Nat \ {0}
      /\ \A i \in DOMAIN messages' : messages'[i] = messages[i + 1]
      /\ current' = messages[1] /\ current' \in Task \cup {WM_QUIT}
  BY <1>1, <1>2, Removed
<1>4. /\ 1 \in DOMAIN messages
      /\ \A i \in DOMAIN messages' : i + 1 \in DOMAIN messages
      /\ \A i \in DOMAIN messages :
           i = 1 \/ (i - 1 \in DOMAIN messages' /\ messages[i] = messages'[i - 1])
  BY <1>3
<1>5. \A x : (\E i \in DOMAIN messages : messages[i] = x)
              <=> (\E i \in DOMAIN messages' : messages'[i] = x) \/ x = current'
  BY <1>3, <1>4
<1>6. \A x : x \in Queued <=> x \in Queued' \/ x = current'
  BY <1>5 DEF Queued
<1> QED
  BY <1>3, <1>4, <1>6

LEMMA NumberStep ==
  ASSUME TypeOK, Numbered, [Next]_vars
  PROVE  Numbered'
<1> USE DEF Numbered
<1>0. /\ made \in Nat /\ MaxTasks \in Nat /\ made <= MaxTasks
      /\ \A t \in Clients : task[t] \in 0..made
      /\ pc = [t \in Clients \cup Stoppers |-> pc[t]]
      /\ task = [t \in Clients |-> task[t]]
      /\ kind = [n \in Task |-> kind[n]]
      /\ current \in Nat /\ \A n \in Task : n \in Nat
  BY Functions DEF TypeOK, Task, WM_QUIT
<1>1. CASE UNCHANGED vars
  BY <1>1 DEF vars, loopVars, callVars, Queued
<1>2. CASE PeekMessage \/ CheckStopped \/ Ready
  BY <1>2 DEF PeekMessage, CheckStopped, Ready, callVars, Queued
<1>3. CASE GetMessage
  <2>1. current' \in Queued /\ Queued' \subseteq Queued
    BY <1>3, QueueAfterGet
  <2> QED
    BY <1>3, <2>1 DEF GetMessage, callVars
<1>4. CASE Dispatch
  BY <1>0, <1>4 DEF Dispatch, AfterRun, callVars, Queued
<1>5. CASE CountDown \/ Delete
  BY <1>0, <1>5 DEF CountDown, Delete, callVars, Queued
<1>6. ASSUME NEW t \in Clients, Posts(t) PROVE Numbered'
  <2>1. task[t] \in Task /\ task[t] <= made
    BY <1>0, <1>6 DEF Posts, PostLabels
  <2>2. Queued' = Queued \cup {task[t]}
    BY <1>6, <2>1, QueueAfterPost DEF Posts
  <2>3. pc'[t] \notin PostLabels
    BY <1>0, <1>6 DEF Posts, AfterPost, PostLabels
  <2>4. \A u \in Clients : u # t => pc'[u] = pc[u]
    BY <1>0, <1>6 DEF Posts
  <2> QED
    BY <1>6, <2>1, <2>2, <2>3, <2>4 DEF Posts, loopVars
<1>7. ASSUME NEW t \in Clients, Refuses(t) PROVE Numbered'
  BY <1>0, <1>7 DEF Refuses, Refuse, Goto, loopVars, Queued, PostLabels
<1>8. ASSUME NEW t \in Clients, NEW f \in PostFns, Call(t, f) PROVE Numbered'
  <2>1. made + 1 \in Task /\ made' = made + 1
    BY <1>0, <1>8 DEF Call, Task
  <2>2. \A n \in Task : n > made' => kind'[n] = kind[n] /\ (n \in heap' <=> n \in heap)
    BY <1>0, <1>8, <2>1 DEF Call, Task
  <2>3. \A u \in Clients : u # t => pc'[u] = pc[u] /\ task'[u] = task[u]
    BY <1>0, <1>8 DEF Call, Goto
  <2>4. task'[t] \in Task
    BY <1>0, <1>8, <2>1 DEF Call
  <2>5. /\ Queued' = Queued
        /\ \A n \in Queued : n \in Nat /\ n <= made
        /\ current \in Nat
    BY <1>8 DEF Call, Queued, TypeOK, Task, WM_QUIT
  <2>6. UNCHANGED <<loopVars, messages, ready, is_stopped_, accepted>>
    BY <1>8 DEF Call
  <2>7. \A n \in Task : n > made' => n > made
    BY <1>0, <2>1 DEF Task
  <2> QED
    BY <1>0, <2>1, <2>2, <2>3, <2>4, <2>5, <2>6, <2>7 DEF loopVars
<1>9. ASSUME NEW t \in Clients \cup Stoppers, NEW label \in Labels, Passes(t, label)
      PROVE  Numbered'
  BY <1>0, <1>9, LoopAssumption DEF Passes, Pass, Goto, Labels, loopVars, Queued, PostLabels
<1>10. ASSUME NEW t \in Stoppers, Stop(t) PROVE Numbered'
  BY <1>0, <1>10 DEF Stop, Goto, loopVars, Queued, PostLabels
<1>11. ASSUME NEW t \in Stoppers, PostQuit(t) PROVE Numbered'
  <2>1. Queued' \subseteq Queued \cup {WM_QUIT}
    BY <1>11, QueueAfterPost DEF PostQuit, Queued
  <2>2. \A u \in Clients : pc'[u] \in PostLabels => pc[u] \in PostLabels
    BY <1>0, <1>11 DEF PostQuit, Goto, PostLabels
  <2> QED
    BY <1>0, <1>11, <2>1, <2>2 DEF PostQuit, loopVars, WM_QUIT
<1>12. ASSUME NEW t \in Stoppers, Destroy(t) PROVE Numbered'
  BY <1>12 DEF Destroy, Queued, PostLabels
<1> QED
  BY <1>1, <1>2, <1>3, <1>4, <1>5, <1>6, <1>7, <1>8, <1>9, <1>10, <1>11, <1>12, Steps

-----------------------------------------------------------------------------
(* One holder *)

LEMMA HolderStep ==
  ASSUME TypeOK, Numbered, OneHolder, [Next]_vars
  PROVE  OneHolder'
<1> USE DEF OneHolder
<1>0. /\ made \in Nat /\ MaxTasks \in Nat /\ \A t \in Clients : task[t] \in 0..made
      /\ pc = [t \in Clients \cup Stoppers |-> pc[t]]
      /\ task = [t \in Clients |-> task[t]]
      /\ \A n \in Task : n \in Nat /\ n # WM_QUIT
  BY Functions DEF TypeOK, Task, WM_QUIT
<1>1. CASE UNCHANGED vars
  BY <1>1 DEF vars, loopVars, callVars, Queued, InLoop
<1>2. CASE PeekMessage \/ CheckStopped \/ Ready
  BY <1>2 DEF PeekMessage, CheckStopped, Ready, callVars, Queued, InLoop
<1>3. CASE GetMessage
  <2>1. /\ \A i, j \in DOMAIN messages' :
             messages'[i] = messages'[j] /\ messages'[i] # WM_QUIT => i = j
        /\ current' \notin Queued' \ {WM_QUIT}
        /\ Queued' \subseteq Queued
        /\ current' \in Queued
    <3>1. /\ 1 \in DOMAIN messages /\ current' = messages[1]
          /\ DOMAIN messages' \subseteq Nat \ {0}
          /\ \A i \in DOMAIN messages' :
               i + 1 \in DOMAIN messages /\ messages'[i] = messages[i + 1]
          /\ Queued = Queued' \cup {current'}
      BY <1>3, QueueAfterGet
    <3>2. \A i, j \in DOMAIN messages' :
            messages'[i] = messages'[j] /\ messages'[i] # WM_QUIT => i = j
      BY <3>1
    <3>3. \A i \in DOMAIN messages' : messages'[i] = current' => current' = WM_QUIT
      BY <3>1
    <3> QED
      BY <3>1, <3>2, <3>3 DEF Queued
  <2>2. /\ loop = "get" /\ loop' \in {"dispatch", "exited"}
        /\ UNCHANGED <<ran, open, lost, callVars>>
    BY <1>3 DEF GetMessage
  <2>3. \A n : InLoop(n)' => n = current'
    BY DEF InLoop
  <2>4. \A t \in Clients : pc[t] \in PostLabels => task[t] # WM_QUIT
    BY <1>0 DEF Numbered
  <2> QED
    BY <1>0, <2>1, <2>2, <2>3, <2>4 DEF callVars
<1>4. CASE Dispatch
  BY <1>4 DEF Dispatch, AfterRun, callVars, Queued, InLoop
<1>5. CASE CountDown \/ Delete
  BY <1>5 DEF CountDown, Delete, callVars, Queued, InLoop
<1>6. ASSUME NEW t \in Clients, Posts(t) PROVE OneHolder'
  <2>1. /\ task[t] \in Task /\ pc[t] \in PostLabels
        /\ task[t] \notin Queued \cup lost \cup open /\ ~InLoop(task[t])
    BY <1>6 DEF Posts, PostLabels, Numbered
  <2>2. /\ Queued' = Queued \cup {task[t]}
        /\ DOMAIN messages' = DOMAIN messages \cup {Len(messages) + 1}
        /\ \A i \in DOMAIN messages : messages'[i] = messages[i]
        /\ messages'[Len(messages) + 1] = task[t]
    BY <1>6, <2>1, QueueAfterPost DEF Posts
  <2>3. pc'[t] \notin PostLabels /\ \A u \in Clients : u # t => pc'[u] = pc[u]
    BY <1>0, <1>6 DEF Posts, AfterPost, PostLabels
  <2>4. \A i \in DOMAIN messages : messages[i] # task[t]
    BY <2>1 DEF Queued
  <2>5. UNCHANGED <<loopVars, task>> /\ \A n : InLoop(n)' <=> InLoop(n)
    BY <1>6 DEF Posts, loopVars, InLoop
  <2>6. \A i, j \in DOMAIN messages' :
          messages'[i] = messages'[j] /\ messages'[i] # WM_QUIT => i = j
    BY <2>2, <2>4
  <2> QED
    BY <2>1, <2>2, <2>3, <2>5, <2>6 DEF loopVars
<1>7. ASSUME NEW t \in Clients, Refuses(t) PROVE OneHolder'
  <2>1. pc'[t] \notin PostLabels /\ \A u \in Clients : u # t => pc'[u] = pc[u]
    BY <1>0, <1>7 DEF Refuses, Refuse, Goto, PostLabels
  <2>2. UNCHANGED <<loopVars, task, messages>>
    BY <1>7 DEF Refuses, Refuse
  <2> QED
    BY <2>1, <2>2 DEF loopVars, Queued, InLoop
<1>8. ASSUME NEW t \in Clients, NEW f \in PostFns, Call(t, f) PROVE OneHolder'
  <2>1. /\ task'[t] = made + 1 /\ made + 1 \in Task
        /\ \A u \in Clients : u # t => pc'[u] = pc[u] /\ task'[u] = task[u]
    BY <1>0, <1>8 DEF Call, Goto, Task
  <2>2. UNCHANGED <<loopVars, messages>>
    BY <1>8 DEF Call
  <2>3. made + 1 \notin Queued \cup lost \cup open /\ made + 1 # current
    BY <1>0, <2>1 DEF Numbered
  <2>4. \A u \in Clients : task[u] # made + 1
    BY <1>0
  <2> QED
    BY <2>1, <2>2, <2>3, <2>4 DEF loopVars, Queued, InLoop
<1>9. ASSUME NEW t \in Clients \cup Stoppers, NEW label \in Labels, Passes(t, label)
      PROVE  OneHolder'
  <2>1. \A u \in Clients : pc'[u] \in PostLabels => pc[u] \in PostLabels
    BY <1>0, <1>9, LoopAssumption DEF Passes, Pass, Goto, Labels, PostLabels
  <2>2. UNCHANGED <<loopVars, task, messages>>
    BY <1>9 DEF Passes, Pass
  <2> QED
    BY <2>1, <2>2 DEF loopVars, Queued, InLoop
<1>10. ASSUME NEW t \in Stoppers, Stop(t) PROVE OneHolder'
  <2>1. \A u \in Clients : pc'[u] \in PostLabels => pc[u] \in PostLabels
    BY <1>0, <1>10 DEF Stop, Goto, PostLabels
  <2> QED
    BY <1>10, <2>1 DEF Stop, loopVars, Queued, InLoop
<1>11. ASSUME NEW t \in Stoppers, PostQuit(t) PROVE OneHolder'
  <2>1. \A u \in Clients : pc'[u] \in PostLabels => pc[u] \in PostLabels
    BY <1>0, <1>11 DEF PostQuit, Goto, PostLabels
  <2>2. UNCHANGED <<loopVars, task>>
    BY <1>11 DEF PostQuit
  <2>3. /\ Queued' \subseteq Queued \cup {WM_QUIT}
        /\ \A i, j \in DOMAIN messages' :
             messages'[i] = messages'[j] /\ messages'[i] # WM_QUIT => i = j
    <3>1. CASE messages' = messages
      BY <3>1 DEF Queued
    <3>2. CASE messages' = Append(messages, WM_QUIT)
      <4>1. /\ Queued' = Queued \cup {WM_QUIT}
            /\ DOMAIN messages' = DOMAIN messages \cup {Len(messages) + 1}
            /\ \A i \in DOMAIN messages : messages'[i] = messages[i]
            /\ messages'[Len(messages) + 1] = WM_QUIT
        BY <3>2, QueueAfterPost
      <4> QED
        BY <4>1
    <3> QED
      BY <1>11, <3>1, <3>2 DEF PostQuit
  <2>4. \A u \in Clients : pc[u] \in PostLabels => task[u] # WM_QUIT
    BY <1>0 DEF Numbered
  <2> QED
    BY <1>0, <2>1, <2>2, <2>3, <2>4 DEF loopVars, InLoop
<1>12. ASSUME NEW t \in Stoppers, Destroy(t) PROVE OneHolder'
  <2>1. /\ \A u \in Clients : pc'[u] \notin PostLabels
        /\ \A n : ~InLoop(n)'
        /\ \A n \in lost' : n \in lost \/ InLoop(n)
    BY <1>12 DEF Destroy, PostLabels, InLoop
  <2>2. UNCHANGED <<open, messages>>
    BY <1>12 DEF Destroy
  <2> QED
    BY <2>1, <2>2 DEF Queued
<1> QED
  BY <1>1, <1>2, <1>3, <1>4, <1>5, <1>6, <1>7, <1>8, <1>9, <1>10, <1>11, <1>12, Steps

-----------------------------------------------------------------------------
(* The heap *)

LEMMA HeapStep ==
  ASSUME TypeOK, Numbered, OneHolder, HeapIsHeld, [Next]_vars
  PROVE  HeapIsHeld'
<1> USE DEF HeapIsHeld
<1>0. /\ made \in Nat /\ MaxTasks \in Nat /\ \A t \in Clients : task[t] \in 0..made
      /\ pc = [t \in Clients \cup Stoppers |-> pc[t]]
      /\ task = [t \in Clients |-> task[t]]
      /\ kind = [n \in Task |-> kind[n]]
      /\ \A n \in Task : n \in Nat /\ n # WM_QUIT
  BY Functions DEF TypeOK, Task, WM_QUIT
<1>1. CASE UNCHANGED vars
  BY <1>1 DEF vars, loopVars, callVars, Queued, InLoop, Held
<1>2. CASE PeekMessage \/ CheckStopped \/ Ready
  BY <1>2 DEF PeekMessage, CheckStopped, Ready, callVars, Queued, InLoop, Held
<1>3. CASE GetMessage
  <2>1. Queued = Queued' \cup {current'}
    BY <1>3, QueueAfterGet
  <2>2. /\ loop = "get" /\ loop' = IF current' = WM_QUIT THEN "exited" ELSE "dispatch"
        /\ UNCHANGED <<lost, callVars, heap>>
    BY <1>3 DEF GetMessage, Ends
  <2>3. \A n \in Task : n \in Queued \/ InLoop(n) <=> n \in Queued' \/ InLoop(n)'
    BY <1>0, <2>1, <2>2 DEF InLoop
  <2> QED
    BY <2>2, <2>3 DEF Held, callVars
<1>4. CASE Dispatch
  <2>1. \A n \in Task : kind[n] \in TaskFns =>
          (InLoop(n) \/ n \in lost <=> InLoop(n)' \/ n \in lost')
    BY <1>4 DEF Dispatch, AfterRun, InLoop, TaskFns
  <2> QED
    BY <1>4, <2>1 DEF Dispatch, callVars, Queued, Held
<1>5. CASE CountDown
  BY <1>5 DEF CountDown, callVars, Queued, InLoop, Held
<1>6. CASE Delete
  <2>1. /\ UNCHANGED <<lost, callVars, messages, current>>
        /\ heap' = heap \ {current} /\ loop = "delete" /\ loop' = "get"
    BY <1>6 DEF Delete
  <2>2. \A n \in Task : Held(n)' <=> Held(n) /\ n # current
    BY <2>1 DEF OneHolder, Held, InLoop, Queued, callVars
  <2> QED
    BY <2>1, <2>2 DEF callVars
<1>7. ASSUME NEW t \in Clients, Posts(t) PROVE HeapIsHeld'
  <2>1. task[t] \in Task /\ pc[t] \in PostLabels
    BY <1>7 DEF Posts, PostLabels, Numbered
  <2>2. Queued' = Queued \cup {task[t]}
    BY <1>7, <2>1, QueueAfterPost DEF Posts
  <2>3. pc'[t] \notin PostLabels /\ \A u \in Clients : u # t => pc'[u] = pc[u]
    BY <1>0, <1>7 DEF Posts, AfterPost, PostLabels
  <2>4. UNCHANGED <<loopVars, task, kind, heap>> /\ \A n : InLoop(n)' <=> InLoop(n)
    BY <1>7 DEF Posts, loopVars, InLoop
  <2>5. \A n \in Task : Held(n)' <=> Held(n)
    BY <2>1, <2>2, <2>3, <2>4 DEF Held, loopVars
  <2> QED
    BY <2>4, <2>5
<1>8. ASSUME NEW t \in Clients, Refuses(t) PROVE HeapIsHeld'
  <2>1. pc'[t] \notin PostLabels /\ \A u \in Clients : u # t => pc'[u] = pc[u]
    BY <1>0, <1>8 DEF Refuses, Refuse, Goto, PostLabels
  <2>2. UNCHANGED <<loopVars, task, messages, kind>> /\ heap' = heap \ {task[t]}
    BY <1>8 DEF Refuses, Refuse
  <2>3. pc[t] \in PostLabels
    BY <1>8 DEF Refuses
  <2>4. \A n \in Task : Held(n)' <=> Held(n) /\ n # task[t]
    BY <2>1, <2>2, <2>3 DEF OneHolder, Held, InLoop, Queued, loopVars
  <2> QED
    BY <2>2, <2>4
<1>9. ASSUME NEW t \in Clients, NEW f \in PostFns, Call(t, f) PROVE HeapIsHeld'
  <2>1. /\ task'[t] = made + 1 /\ made + 1 \in Task /\ pc'[t] \in PostLabels
        /\ pc[t] \notin PostLabels
        /\ \A u \in Clients : u # t => pc'[u] = pc[u] /\ task'[u] = task[u]
    BY <1>0, <1>9 DEF Call, Goto, Task, PostLabels
  <2>2. UNCHANGED <<loopVars, messages>>
    BY <1>9 DEF Call
  <2>3. \A n \in Task : Held(n)' <=> Held(n) \/ n = made + 1
    BY <2>1, <2>2 DEF Held, loopVars, Queued, InLoop
  <2>4. /\ \A n \in Task : n # made + 1 => kind'[n] = kind[n] /\ (n \in heap' <=> n \in heap)
        /\ kind'[made + 1] = f /\ (f \in TaskFns => made + 1 \in heap')
    BY <1>0, <1>9, <2>1 DEF Call
  <2> QED
    BY <2>3, <2>4
<1>10. ASSUME NEW t \in Clients \cup Stoppers, NEW label \in Labels, Passes(t, label)
       PROVE  HeapIsHeld'
  <2>1. \A u \in Clients : pc'[u] \in PostLabels <=> pc[u] \in PostLabels
    BY <1>0, <1>10, LoopAssumption DEF Passes, Pass, Goto, Labels, PostLabels
  <2>2. UNCHANGED <<loopVars, task, kind, messages, heap>>
    BY <1>10 DEF Passes, Pass
  <2> QED
    BY <2>1, <2>2 DEF loopVars, Queued, InLoop, Held
<1>11. ASSUME NEW t \in Stoppers, Stop(t) PROVE HeapIsHeld'
  <2>1. \A u \in Clients : pc'[u] = pc[u]
    BY <1>0, <1>11, LoopAssumption DEF Stop, Goto
  <2> QED
    BY <1>11, <2>1 DEF Stop, loopVars, Queued, InLoop, Held
<1>12. ASSUME NEW t \in Stoppers, PostQuit(t) PROVE HeapIsHeld'
  <2>1. \A u \in Clients : pc'[u] = pc[u]
    BY <1>0, <1>12, LoopAssumption DEF PostQuit, Goto
  <2>2. Queued' = Queued \/ Queued' = Queued \cup {WM_QUIT}
    BY <1>12, QueueAfterPost DEF PostQuit, Queued
  <2>3. UNCHANGED <<loopVars, task, kind, heap>>
    BY <1>12 DEF PostQuit
  <2> QED
    BY <1>0, <2>1, <2>2, <2>3 DEF loopVars, InLoop, Held
<1>13. ASSUME NEW t \in Stoppers, Destroy(t) PROVE HeapIsHeld'
  <2>1. /\ \A u \in Clients : pc'[u] \notin PostLabels /\ pc[u] \notin PostLabels
        /\ \A n : ~InLoop(n)'
        /\ \A n : n \in lost' <=> n \in lost \/ (n \in heap /\ InLoop(n))
    BY <1>13 DEF Destroy, PostLabels, InLoop
  <2>2. UNCHANGED <<messages, kind, heap>>
    BY <1>13 DEF Destroy
  <2> QED
    BY <2>1, <2>2 DEF Queued, Held
<1> QED
  BY <1>1, <1>2, <1>3, <1>4, <1>5, <1>6, <1>7, <1>8, <1>9, <1>10, <1>11, <1>12, <1>13, Steps

-----------------------------------------------------------------------------
(* The frames of SendTask *)

\* The loop may still run the task of message n.
MayRun(n) == n \in Queued \/ (InLoop(n) /\ loop # "delete")

LEMMA FrameStep ==
  ASSUME TypeOK, Numbered, OneHolder, FrameOutlivesTask, [Next]_vars
  PROVE  FrameOutlivesTask'
<1>0. /\ made \in Nat /\ MaxTasks \in Nat /\ \A t \in Clients : task[t] \in 0..made
      /\ pc = [t \in Clients \cup Stoppers |-> pc[t]]
      /\ task = [t \in Clients |-> task[t]]
      /\ kind = [n \in Task |-> kind[n]]
      /\ \A n \in Task : n \in Nat /\ n # WM_QUIT
  BY Functions DEF TypeOK, Task, WM_QUIT
<1>a. \A n \in Task : kind[n] = "SendTask" /\ MayRun(n) =>
        \E t \in Clients : task[t] = n /\ pc[t] = "wait"
  BY DEF FrameOutlivesTask, MayRun
<1>b. SUFFICES ASSUME NEW n \in Task, (kind[n] = "SendTask" /\ MayRun(n))'
               PROVE  \E t \in Clients : task'[t] = n /\ pc'[t] = "wait"
  BY DEF FrameOutlivesTask, MayRun
<1> DEFINE Goal == \E t \in Clients : task'[t] = n /\ pc'[t] = "wait"
<1>c. ASSUME UNCHANGED callVars, MayRun(n) PROVE Goal
  BY <1>a, <1>b, <1>c DEF callVars
<1>1. CASE UNCHANGED vars
  <2>1. UNCHANGED callVars /\ MayRun(n)
    BY <1>1, <1>b DEF vars, loopVars, Queued, InLoop, MayRun
  <2> QED
    BY <1>c, <2>1
<1>2. CASE PeekMessage \/ CheckStopped \/ Ready
  <2>1. UNCHANGED callVars /\ MayRun(n)
    BY <1>2, <1>b DEF PeekMessage, CheckStopped, Ready, Queued, InLoop, MayRun
  <2> QED
    BY <1>c, <2>1
<1>3. CASE GetMessage
  <2>1. UNCHANGED callVars /\ Queued = Queued' \cup {current'}
    BY <1>3, QueueAfterGet DEF GetMessage
  <2> QED
    BY <1>b, <1>c, <2>1 DEF InLoop, MayRun
<1>4. CASE Dispatch \/ CountDown \/ Delete
  <2>1. UNCHANGED callVars /\ MayRun(n)
    BY <1>4, <1>b DEF Dispatch, CountDown, Delete, AfterRun, Queued, InLoop, MayRun
  <2> QED
    BY <1>c, <2>1
<1>5. ASSUME NEW t \in Clients, Posts(t) PROVE Goal
  <2>1. task[t] \in Task /\ pc[t] = "post"
    BY <1>5 DEF Posts, PostLabels, Numbered
  <2>2. Queued' = Queued \cup {task[t]}
    BY <1>5, <2>1, QueueAfterPost DEF Posts
  <2>3. UNCHANGED <<loopVars, task, kind>>
    BY <1>5 DEF Posts
  <2>4. CASE n = task[t]
    BY <1>0, <1>5, <1>b, <2>3, <2>4 DEF Posts, AfterPost
  <2>5. CASE n # task[t]
    <3>1. MayRun(n) /\ kind[n] = "SendTask"
      BY <1>b, <2>2, <2>3, <2>5 DEF MayRun, InLoop, loopVars
    <3>2. PICK u \in Clients : task[u] = n /\ pc[u] = "wait"
      BY <1>a, <3>1
    <3>3. pc'[u] = "wait"
      BY <1>0, <1>5, <2>5, <3>2 DEF Posts
    <3> QED
      BY <2>3, <3>2, <3>3
  <2> QED
    BY <2>4, <2>5
<1>6. ASSUME NEW t \in Clients, Refuses(t) PROVE Goal
  <2>1. \A u \in Clients : pc[u] = "wait" => pc'[u] = "wait"
    BY <1>0, <1>6 DEF Refuses, Refuse, Goto, PostLabels
  <2>2. UNCHANGED <<loopVars, task, messages, kind>>
    BY <1>6 DEF Refuses, Refuse
  <2>3. MayRun(n) /\ kind[n] = "SendTask"
    BY <1>b, <2>2 DEF MayRun, InLoop, loopVars, Queued
  <2> QED
    BY <1>a, <2>1, <2>2, <2>3
<1>7. ASSUME NEW t \in Clients, NEW f \in PostFns, Call(t, f) PROVE Goal
  <2>1. \A u \in Clients : pc[u] = "wait" => pc'[u] = "wait" /\ task'[u] = task[u]
    BY <1>0, <1>7 DEF Call, Goto
  <2>2. UNCHANGED <<loopVars, messages>>
    BY <1>7 DEF Call
  <2>3. MayRun(n)
    BY <1>b, <2>2 DEF MayRun, InLoop, loopVars, Queued
  <2>4. n <= made
    BY <2>3 DEF MayRun, InLoop, Numbered
  <2>5. kind[n] = "SendTask"
    BY <1>0, <1>7, <1>b, <2>4 DEF Call
  <2> QED
    BY <1>a, <2>1, <2>3, <2>5
<1>8. ASSUME NEW t \in Clients \cup Stoppers, NEW label \in Labels, Passes(t, label)
      PROVE  Goal
  <2>1. UNCHANGED <<loopVars, task, messages, kind>>
    BY <1>8 DEF Passes, Pass
  <2>2. MayRun(n) /\ kind[n] = "SendTask"
    BY <1>b, <2>1 DEF MayRun, InLoop, loopVars, Queued
  <2>3. PICK u \in Clients : task[u] = n /\ pc[u] = "wait"
    BY <1>a, <2>2
  <2>4. n \notin open
    BY <2>2 DEF MayRun, OneHolder
  <2>5. pc'[u] = "wait"
    BY <1>0, <1>8, <2>3, <2>4, LoopAssumption DEF Passes, Pass, Goto
  <2> QED
    BY <2>1, <2>3, <2>5
<1>9. ASSUME NEW t \in Stoppers, Stop(t) PROVE Goal
  <2>1. \A u \in Clients : pc'[u] = pc[u]
    BY <1>0, <1>9, LoopAssumption DEF Stop, Goto
  <2>2. UNCHANGED <<loopVars, task, messages, kind>>
    BY <1>9 DEF Stop
  <2>3. MayRun(n) /\ kind[n] = "SendTask"
    BY <1>b, <2>2 DEF MayRun, InLoop, loopVars, Queued
  <2> QED
    BY <1>a, <2>1, <2>2, <2>3
<1>10. ASSUME NEW t \in Stoppers, PostQuit(t) PROVE Goal
  <2>1. \A u \in Clients : pc'[u] = pc[u]
    BY <1>0, <1>10, LoopAssumption DEF PostQuit, Goto
  <2>2. Queued' = Queued \/ Queued' = Queued \cup {WM_QUIT}
    BY <1>10, QueueAfterPost DEF PostQuit, Queued
  <2>3. UNCHANGED <<loopVars, task, kind>>
    BY <1>10 DEF PostQuit
  <2>4. MayRun(n) /\ kind[n] = "SendTask"
    BY <1>0, <1>b, <2>2, <2>3 DEF MayRun, InLoop, loopVars
  <2> QED
    BY <1>a, <2>1, <2>3, <2>4
<1>11. ASSUME NEW t \in Stoppers, Destroy(t) PROVE Goal
  <2>1. UNCHANGED <<messages, kind>> /\ ~InLoop(n)'
    BY <1>11 DEF Destroy, InLoop
  <2>2. MayRun(n) /\ kind[n] = "SendTask"
    BY <1>b, <2>1 DEF MayRun, Queued
  <2>3. \A u \in Clients : pc[u] # "wait"
    BY <1>11 DEF Destroy
  <2> QED
    BY <1>a, <2>2, <2>3
<1> QED
  BY <1>1, <1>2, <1>3, <1>4, <1>5, <1>6, <1>7, <1>8, <1>9, <1>10, <1>11, Steps

-----------------------------------------------------------------------------
(* Before the loop is ready *)

LEMMA ReadyStep ==
  ASSUME TypeOK, Numbered, ReadyInv, [Next]_vars
  PROVE  ReadyInv'
<1> USE DEF ReadyInv
<1>0. /\ pc = [t \in Clients \cup Stoppers |-> pc[t]]
      /\ WM_QUIT \notin Task
  BY Functions DEF Task, WM_QUIT
<1>1. CASE UNCHANGED vars
  BY <1>1 DEF vars, loopVars, callVars, Queued
<1>2. CASE PeekMessage \/ CheckStopped \/ Ready
  BY <1>2 DEF PeekMessage, CheckStopped, Ready, callVars, Queued
<1>3. CASE GetMessage
  BY <1>3, QueueAfterGet DEF GetMessage, callVars
<1>4. CASE Dispatch \/ CountDown \/ Delete
  BY <1>4 DEF Dispatch, CountDown, Delete, AfterRun, callVars, Queued
<1>5. ASSUME NEW t \in Clients, Posts(t) PROVE ReadyInv'
  BY <1>5 DEF Posts, loopVars
<1>6. ASSUME NEW t \in Clients, Refuses(t) PROVE ReadyInv'
  BY <1>0, <1>6 DEF Refuses, Refuse, Goto, loopVars, Queued
<1>7. ASSUME NEW t \in Clients, NEW f \in PostFns, Call(t, f) PROVE ReadyInv'
  BY <1>0, <1>7 DEF Call, Goto, loopVars, Queued
<1>8. ASSUME NEW t \in Clients \cup Stoppers, NEW label \in Labels, Passes(t, label)
      PROVE  ReadyInv'
  BY <1>0, <1>8, LoopAssumption DEF Passes, Pass, Goto, loopVars, Queued
<1>9. ASSUME NEW t \in Stoppers, Stop(t) PROVE ReadyInv'
  <2>1. \A n \in accepted' : n \in accepted \cup Queued \/ (loop = "dispatch" /\ n = current)
    BY <1>9 DEF Stop, Queued
  <2>2. \A u \in Clients : pc'[u] = pc[u]
    BY <1>0, <1>9, LoopAssumption DEF Stop, Goto
  <2> QED
    BY <1>9, <2>1, <2>2 DEF Stop, loopVars, Queued
<1>10. ASSUME NEW t \in Stoppers, PostQuit(t) PROVE ReadyInv'
  <2>1. \A u \in Clients : pc'[u] = pc[u]
    BY <1>0, <1>10, LoopAssumption DEF PostQuit, Goto
  <2>2. Queued' = Queued \/ Queued' = Queued \cup {WM_QUIT}
    BY <1>10, QueueAfterPost DEF PostQuit, Queued
  <2> QED
    BY <1>0, <1>10, <2>1, <2>2 DEF PostQuit, loopVars
<1>11. ASSUME NEW t \in Stoppers, Destroy(t) PROVE ReadyInv'
  BY <1>11 DEF Destroy, Queued
<1> QED
  BY <1>1, <1>2, <1>3, <1>4, <1>5, <1>6, <1>7, <1>8, <1>9, <1>10, <1>11, Steps

-----------------------------------------------------------------------------
(* What was accepted before Stop *)

Kept(n) ==
  n \in ran \cup lost \/ loop = "killed" \/
    (loop # "exited" /\ (AheadOfQuit(n) \/ (loop = "dispatch" /\ current = n)))

\* A message that is ahead of every WM_QUIT stays so when others come behind it.
LEMMA StillAhead ==
  ASSUME TypeOK, NEW e \in Task \cup {WM_QUIT}, messages' = Append(messages, e),
         NEW n, AheadOfQuit(n)
  PROVE  AheadOfQuit(n)'
<1>1. /\ DOMAIN messages' = DOMAIN messages \cup {Len(messages) + 1}
      /\ \A i \in DOMAIN messages : messages'[i] = messages[i] /\ i < Len(messages) + 1
  BY QueueAfterPost
<1>2. PICK i \in DOMAIN messages :
        messages[i] = n /\ \A j \in DOMAIN messages : j <= i => messages[j] # WM_QUIT
  BY DEF AheadOfQuit
<1>3. i \in Nat /\ Len(messages) \in Nat
  BY DEF TypeOK
<1>4. \A j \in DOMAIN messages' : j <= i => j \in DOMAIN messages
  BY <1>1, <1>2, <1>3
<1>5. \A j \in DOMAIN messages' : j <= i => messages'[j] # WM_QUIT
  BY <1>1, <1>2, <1>4
<1>6. i \in DOMAIN messages' /\ messages'[i] = n
  BY <1>1, <1>2
<1> QED
  BY <1>5, <1>6 DEF AheadOfQuit

LEMMA StopStep ==
  ASSUME TypeOK, Numbered, ReadyInv, StopInv, [Next]_vars
  PROVE  StopInv'
<1>0. /\ made \in Nat
      /\ pc = [t \in Clients \cup Stoppers |-> pc[t]]
      /\ kind = [n \in Task |-> kind[n]]
      /\ WM_QUIT \notin Task /\ WM_QUIT \in Nat
      /\ accepted \subseteq Nat /\ current \in Nat /\ Queued \subseteq Nat
  BY Functions DEF TypeOK, Task, WM_QUIT, Queued
<1>a. \A n \in accepted \cap Task : kind[n] \in TaskFns => Kept(n)
  BY DEF StopInv, Kept
<1> DEFINE Stopping ==
      /\ \A t \in Stoppers : pc'[t] = "quit" => is_stopped_'
      /\ WM_QUIT \in Queued' \/ loop' = "exited" => is_stopped_'
      /\ \A n \in accepted' : n <= made'
      /\ \A n \in accepted' \cap Task : kind'[n] \in TaskFns => Kept(n)'
<1>b. SUFFICES Stopping
  BY DEF StopInv, Kept
<1>1. CASE UNCHANGED vars
  BY <1>1, <1>a DEF vars, loopVars, callVars, Queued, Kept, AheadOfQuit, StopInv
<1>2. CASE PeekMessage \/ CheckStopped \/ Ready
  <2>1. loop \in {"peek", "check", "ready"} /\ accepted \cap Task = {}
    BY <1>2 DEF PeekMessage, CheckStopped, Ready, ReadyInv
  <2> QED
    BY <1>2, <2>1 DEF PeekMessage, CheckStopped, Ready, callVars, Queued, StopInv
<1>3. CASE GetMessage
  <2>1. /\ Queued = Queued' \cup {current'}
        /\ 1 \in DOMAIN messages /\ current' = messages[1]
        /\ DOMAIN messages \subseteq Nat \ {0}
        /\ DOMAIN messages' \subseteq Nat \ {0}
        /\ \A i \in DOMAIN messages' :
             i + 1 \in DOMAIN messages /\ messages'[i] = messages[i + 1]
        /\ \A i \in DOMAIN messages : i = 1 \/ i - 1 \in DOMAIN messages'
    BY <1>3, QueueAfterGet
  <2>2. /\ loop = "get" /\ loop' = IF current' = WM_QUIT THEN "exited" ELSE "dispatch"
        /\ UNCHANGED <<ran, open, lost, callVars, is_stopped_, accepted>>
    BY <1>3 DEF GetMessage, Ends
  <2>3. ASSUME NEW n, AheadOfQuit(n)
        PROVE  /\ current' # WM_QUIT
               /\ current' = n \/ AheadOfQuit(n)'
    <3>1. PICK i \in DOMAIN messages :
            messages[i] = n /\ \A j \in DOMAIN messages : j <= i => messages[j] # WM_QUIT
      BY <2>3 DEF AheadOfQuit
    <3>2. i \in Nat \ {0} /\ 1 <= i
      BY <2>1
    <3>3. current' # WM_QUIT
      BY <2>1, <3>1, <3>2
    <3>4. CASE i = 1
      BY <2>1, <3>1, <3>3, <3>4
    <3>5. CASE i # 1
      <4>1. i - 1 \in DOMAIN messages' /\ messages'[i - 1] = n
        BY <2>1, <3>1, <3>2, <3>5
      <4>2. ASSUME NEW j \in DOMAIN messages', j <= i - 1
            PROVE  messages'[j] # WM_QUIT
        <5>1. /\ j \in Nat /\ j + 1 <= i
              /\ j + 1 \in DOMAIN messages /\ messages'[j] = messages[j + 1]
          BY <2>1, <3>2, <4>2
        <5> QED
          BY <3>1, <5>1
      <4> QED
        BY <3>3, <4>1, <4>2 DEF AheadOfQuit
    <3> QED
      BY <3>4, <3>5
  <2>4. \A n \in accepted \cap Task : kind[n] \in TaskFns => Kept(n)'
    BY <1>a, <2>2, <2>3 DEF Kept
  <2> QED
    BY <2>1, <2>2, <2>4 DEF StopInv, callVars
<1>4. CASE Dispatch
  <2>1. UNCHANGED <<callVars, messages, is_stopped_, accepted>> /\ loop' # "exited"
    BY <1>4 DEF Dispatch, AfterRun
  <2>2. \A n : AheadOfQuit(n) <=> AheadOfQuit(n)'
    BY <2>1 DEF AheadOfQuit
  <2>3. \A n \in accepted \cap Task : kind[n] \in TaskFns /\ Kept(n) => Kept(n)'
    BY <1>4, <2>2 DEF Dispatch, AfterRun, Kept, TaskFns
  <2> QED
    BY <1>a, <2>1, <2>3 DEF StopInv, callVars, Queued
<1>5. CASE CountDown \/ Delete
  <2>1. /\ UNCHANGED <<callVars, messages, is_stopped_, accepted, ran, lost>>
        /\ loop' \in {"delete", "get"} /\ loop \in {"countdown", "delete"}
    BY <1>5 DEF CountDown, Delete
  <2>2. \A n : AheadOfQuit(n) <=> AheadOfQuit(n)'
    BY <2>1 DEF AheadOfQuit
  <2>3. \A n : Kept(n) => Kept(n)'
    BY <2>1, <2>2 DEF Kept
  <2> QED
    BY <1>a, <2>1, <2>3 DEF StopInv, callVars, Queued
<1>6. ASSUME NEW t \in Clients, Posts(t) PROVE Stopping
  <2>1. task[t] \in Task /\ messages' = Append(messages, task[t])
    BY <1>6 DEF Posts, PostLabels, Numbered
  <2>2. Queued' = Queued \cup {task[t]} /\ \A n : AheadOfQuit(n) => AheadOfQuit(n)'
    BY <2>1, QueueAfterPost, StillAhead
  <2>3. UNCHANGED <<loopVars, task, made, kind, is_stopped_, accepted>>
    BY <1>6 DEF Posts
  <2>4. \A u \in Stoppers : pc'[u] = pc[u]
    BY <1>0, <1>6, LoopAssumption DEF Posts
  <2>5. \A n : Kept(n) => Kept(n)'
    BY <2>2, <2>3 DEF Kept, loopVars
  <2> QED
    BY <1>0, <1>a, <2>1, <2>2, <2>3, <2>4, <2>5 DEF StopInv, loopVars
<1>7. ASSUME NEW t \in Clients \cup Stoppers,
             (t \in Clients /\ Refuses(t)) \/ \E label \in Labels : Passes(t, label)
      PROVE  Stopping
  <2>1. UNCHANGED <<loopVars, made, kind, messages, is_stopped_, accepted>>
    BY <1>7 DEF Refuses, Refuse, Passes, Pass
  <2>2. \A u \in Stoppers : pc'[u] = "quit" => pc[u] = "quit"
    BY <1>0, <1>7, LoopAssumption DEF Refuses, Refuse, Passes, Pass, Goto, Labels
  <2>3. \A n : Kept(n) => Kept(n)'
    BY <2>1 DEF Kept, loopVars, AheadOfQuit
  <2> QED
    BY <1>a, <2>1, <2>2, <2>3 DEF StopInv, loopVars, Queued
<1>8. ASSUME NEW t \in Clients, NEW f \in PostFns, Call(t, f) PROVE Stopping
  <2>1. UNCHANGED <<loopVars, messages, is_stopped_, accepted>> /\ made' = made + 1
    BY <1>8 DEF Call
  <2>2. \A u \in Stoppers : pc'[u] = pc[u]
    BY <1>0, <1>8, LoopAssumption DEF Call, Goto
  <2>3. \A n \in accepted : n \in Nat /\ n <= made
    BY <1>0 DEF StopInv
  <2>4. \A n \in accepted \cap Task : kind'[n] = kind[n]
    BY <1>0, <1>8, <2>3 DEF Call
  <2>5. \A n : Kept(n) => Kept(n)'
    BY <2>1 DEF Kept, loopVars, AheadOfQuit
  <2>6. \A n \in accepted' : n <= made'
    BY <1>0, <2>1, <2>3
  <2> QED
    BY <1>a, <2>1, <2>2, <2>4, <2>5, <2>6 DEF StopInv, loopVars, Queued
<1>9. ASSUME NEW t \in Stoppers, Stop(t) PROVE Stopping
  <2>1. UNCHANGED <<loopVars, made, kind, messages>> /\ is_stopped_'
    BY <1>9 DEF Stop
  <2>2. \A n : Kept(n) => Kept(n)'
    BY <2>1 DEF Kept, loopVars, AheadOfQuit
  <2>3. CASE is_stopped_
    <3>1. accepted' = accepted
      BY <1>9, <2>3 DEF Stop
    <3> QED
      BY <1>a, <2>1, <2>2, <3>1 DEF StopInv, loopVars, Queued
  <2>4. CASE ~is_stopped_
    <3>1. \A n \in accepted' : n \in Queued \/ (loop = "dispatch" /\ n = current)
      BY <1>9, <2>4 DEF Stop, Queued
    <3>2. loop # "exited" /\ WM_QUIT \notin Queued
      BY <2>4 DEF StopInv
    <3>3. \A n \in Queued : AheadOfQuit(n)
      BY <3>2 DEF Queued, AheadOfQuit
    <3>4. \A n \in accepted' : Kept(n)
      BY <3>1, <3>2, <3>3 DEF Kept
    <3>5. \A n \in accepted' : n <= made'
      BY <2>1, <3>1 DEF Numbered
    <3> QED
      BY <2>1, <2>2, <3>4, <3>5
  <2> QED
    BY <2>3, <2>4
<1>10. ASSUME NEW t \in Stoppers, PostQuit(t) PROVE Stopping
  <2>1. UNCHANGED <<loopVars, made, kind, is_stopped_, accepted>> /\ is_stopped_
    BY <1>10 DEF PostQuit, StopInv
  <2>2. \A n : AheadOfQuit(n) => AheadOfQuit(n)'
    BY <1>10, StillAhead DEF PostQuit, AheadOfQuit
  <2>3. \A n : Kept(n) => Kept(n)'
    BY <2>1, <2>2 DEF Kept, loopVars
  <2> QED
    BY <1>a, <2>1, <2>3 DEF StopInv
<1>11. ASSUME NEW t \in Stoppers, Destroy(t) PROVE Stopping
  <2>1. /\ UNCHANGED <<ran, made, kind, messages, is_stopped_, accepted>>
        /\ lost \subseteq lost'
        /\ loop' = IF loop = "exited" THEN "exited" ELSE "killed"
        /\ \A u \in Stoppers : pc'[u] # "quit"
    BY <1>11 DEF Destroy
  <2>2. \A n : Kept(n) => Kept(n)'
    BY <2>1 DEF Kept
  <2> QED
    BY <1>a, <2>1, <2>2 DEF StopInv, Queued
<1> QED
  BY <1>1, <1>2, <1>3, <1>4, <1>5, <1>6, <1>7, <1>8, <1>9, <1>10, <1>11, Steps

-----------------------------------------------------------------------------
(* The invariant, and what it gives *)

LEMMA InitLoop == Init => LoopInv
<1> SUFFICES ASSUME Init PROVE LoopInv
  OBVIOUS
<1>1. MaxTasks \in Nat /\ Clients \cap Stoppers = {} /\ WM_QUIT \notin Task
  BY LoopAssumption DEF Task, WM_QUIT
<1>2. Queued = {} /\ \A n : ~InLoop(n)
  BY DEF Init, Queued, InLoop
<1>3. TypeOK
  <2>1. messages \in Seq(Task \cup {WM_QUIT}) /\ made \in 0..MaxTasks
    BY <1>1 DEF Init
  <2>2. /\ pc \in [Clients \cup Stoppers -> {"idle", "stop"}]
        /\ task \in [Clients -> 0..made]
        /\ kind \in [Task -> PostFns \cup {"none"}]
    BY DEF Init
  <2> QED
    BY <2>1, <2>2 DEF Init, TypeOK
<1>4. /\ \A t \in Clients : pc[t] = "idle"
      /\ \A t \in Stoppers : pc[t] = "stop"
  BY <1>1 DEF Init
<1>5. Numbered /\ OneHolder
  BY <1>2, <1>4 DEF Init, Numbered, OneHolder, PostLabels, WM_QUIT
<1>6. HeapIsHeld /\ FrameOutlivesTask
  BY <1>2, <1>4 DEF Init, HeapIsHeld, FrameOutlivesTask, Held, PostLabels
<1>7. ReadyInv /\ StopInv
  BY <1>2, <1>4 DEF Init, ReadyInv, StopInv
<1> QED
  BY <1>3, <1>5, <1>6, <1>7 DEF LoopInv

LEMMA LoopInvariant == Spec => []LoopInv
<1>1. LoopInv /\ [Next]_vars => LoopInv'
  BY TypeStep, NumberStep, HolderStep, HeapStep, FrameStep, ReadyStep, StopStep DEF LoopInv
<1> QED
  BY InitLoop, <1>1, PTL DEF Spec

\* A set with at most one element counts at most 1, and 0 if it has none.
LEMMA AtMostOne ==
  ASSUME NEW S, \A x, y \in S : x = y
  PROVE  /\ Cardinality(S) \in {0, 1}
         /\ S = {} => Cardinality(S) = 0
<1>1. CASE S = {}
  BY <1>1, FS_EmptySet
<1>2. CASE S # {}
  <2>1. PICK x : S = {x}
    BY <1>2
  <2> QED
    BY <1>2, <2>1, FS_Singleton
<1> QED
  BY <1>1, <1>2

LEMMA HoldersAreOwners ==
  ASSUME LoopInv
  PROVE  EveryTaskOwned
<1> SUFFICES ASSUME NEW n \in Task, kind[n] \in TaskFns
             PROVE
    /\ n \in heap <=> Callers(n) # {} \/ n \in Queued \/ InLoop(n) \/ n \in lost
    /\ Cardinality(Callers(n)) + Cardinality({i \in DOMAIN messages : messages[i] = n})
         + (IF InLoop(n) \/ n \in lost THEN 1 ELSE 0) <= 1
  BY DEF EveryTaskOwned
<1> DEFINE places == {i \in DOMAIN messages : messages[i] = n}
<1>1. /\ Callers(n) # {} <=> \E t \in Clients : pc[t] \in PostLabels /\ task[t] = n
      /\ places # {} <=> n \in Queued
  BY DEF Callers, PostLabels, Queued
<1>2. n \in heap <=> Callers(n) # {} \/ n \in Queued \/ InLoop(n) \/ n \in lost
  BY <1>1 DEF LoopInv, HeapIsHeld, Held
<1>3. n # WM_QUIT
  BY LoopAssumption DEF Task, WM_QUIT
<1>4. /\ \A t, u \in Callers(n) : t = u
      /\ \A i, j \in places : i = j
  BY <1>3 DEF LoopInv, OneHolder, Callers, PostLabels
<1>5. /\ Cardinality(Callers(n)) \in {0, 1} /\ Cardinality(places) \in {0, 1}
      /\ Callers(n) = {} => Cardinality(Callers(n)) = 0
      /\ places = {} => Cardinality(places) = 0
  BY <1>4, AtMostOne
<1>6. /\ Callers(n) # {} => places = {} /\ ~InLoop(n) /\ n \notin lost
      /\ places # {} => ~InLoop(n) /\ n \notin lost
  BY <1>1 DEF LoopInv, OneHolder
<1>7. Cardinality(Callers(n)) + Cardinality(places)
        + (IF InLoop(n) \/ n \in lost THEN 1 ELSE 0) <= 1
  BY <1>5, <1>6
<1> QED
  BY <1>2, <1>7

-----------------------------------------------------------------------------

\* The loop, its message queue and its callers have the types that they should.
THEOREM LoopTypeCorrect == Spec => []TypeOK
<1>1. LoopInv => TypeOK
  BY DEF LoopInv
<1> QED
  BY LoopInvariant, <1>1, PTL

\* A task is deleted once: by the caller whose post failed or by the loop that ran
\* it; it is lost only where EveryTaskOwned says so. (thread_message_loop.h:36, 60)
THEOREM TasksAreOwned == Spec => []EveryTaskOwned
BY LoopInvariant, HoldersAreOwners, PTL

\* No task of a SendTask runs when its caller's stack is gone.
\* (thread_message_loop.h:71, 76)
THEOREM FramesOutliveTasks == Spec => []FrameOutlivesTask
<1>1. LoopInv => FrameOutlivesTask
  BY DEF LoopInv
<1> QED
  BY LoopInvariant, <1>1, PTL

\* A loop that ends by itself has dispatched what was queued before Stop.
\* (thread_message_loop.h:28, 99)
THEOREM AcceptedAreKept == Spec => []StopKeepsAccepted
<1>1. LoopInv => StopKeepsAccepted
  <2> SUFFICES ASSUME LoopInv, loop = "exited",
                      NEW n \in accepted \cap Task, kind[n] \in TaskFns
               PROVE  n \in ran \cup lost
    BY DEF StopKeepsAccepted
  <2> QED
    BY DEF LoopInv, StopInv
<1> QED
  BY LoopInvariant, <1>1, PTL

=============================================================================
