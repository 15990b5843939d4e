------------------------ MODULE SharedObjectsProofs -------------------------
(***************************************************************************)
(* Proofs about two objects that many reach at once and one may take away, *)
(* for any number of them: the message window of a process and its         *)
(* threads, and the named mutex and memory of several processes.  The two  *)
(* modules share no name.                                                  *)
(***************************************************************************)
EXTENDS MessageWnd, ShareMemory, TLAPS

-----------------------------------------------------------------------------
(***************************************************************************)
(* MessageWnd, for any threads and any number of messages.  The invariant  *)
(* follows the two call_onces and each message: one function at a time is  *)
(* in an initialisation, the pointers say what the window is, and a        *)
(* message is with its caller, in a queue, in MessageWndProc or dropped.   *)
(***************************************************************************)

\* How far the two call_onces have come, and who is in them.
Onces ==
  /\ \A t \in Threads :
       /\ pc[t] = "create" => init.owner = t /\ ~init.flag_
       /\ pc[t] \in {"delete", "clear"} => uninit.owner = t
       /\ pc[t] = "clear" => global_message_wnd # "object"
       /\ pc[t] = "uninit" => ~First(init)
  /\ ~First(uninit) \/ global_message_wnd # "null" \/ creator # NoThread => ~First(init)
  /\ creator # NoThread \/ told => Done(init)

\* What the pointers and the answers say of the window.
Answers ==
  /\ First(uninit) /\ ~First(init) => global_message_wnd = "object"
  /\ told => ret
  /\ Done(init) /\ ret /\ First(uninit) => m_hWnd /\ window = "alive"
  /\ uninited => Done(uninit)
  /\ Done(uninit) => global_message_wnd = "null"

LEMMA OnceFlag ==
  ASSUME NEW once \in [owner : Threads \cup {NoThread}, flag_ : BOOLEAN]
  PROVE  once = once_flag <=> First(once)
BY DEF once_flag, First

LEMMA OncesStep ==
  ASSUME WndTypeOK, Onces, Answers, NEW t \in Threads, Begin(t) \/ WndStep(t)
  PROVE  Onces' /\ Answers'
<1>1. CASE AlreadyInit(t)
  BY <1>1 DEF AlreadyInit, objectVars, Onces, Answers, First, Done, WndTypeOK
<1>2. CASE NewMessageWnd(t)
  BY <1>2, WndAssumption DEF NewMessageWnd, Onces, Answers, First, Done, WndTypeOK,
    Enter, GoOn, Idle, historyVars
<1>3. CASE CreateWnd(t)
  BY <1>3, WndAssumption DEF CreateWnd, Onces, Answers, First, Done, WndTypeOK,
    Leave, GoOn
<1>4. CASE InitDeleted(t) \/ CallNull(t)
  BY <1>4 DEF InitDeleted, CallNull, EndProcess, objectVars, historyVars, Onces,
    Answers, First, Done, WndTypeOK
<1>5. CASE BeginUninit(t)
  BY <1>5 DEF BeginUninit, objectVars, historyVars, Onces, Answers, First, Done,
    WndTypeOK, GoOn
<1>6. CASE AlreadyUninit(t)
  BY <1>6 DEF AlreadyUninit, objectVars, historyVars, Onces, Answers, First, Done,
    WndTypeOK, GoOn
<1>7. CASE DestroyWindow(t)
  BY <1>7, WndAssumption DEF DestroyWindow, historyVars, Onces, Answers, First,
    Done, WndTypeOK, GoOn, Enter
<1>8. CASE Delete(t)
  BY <1>8, WndAssumption DEF Delete, historyVars, Onces, Answers, First, Done,
    WndTypeOK, GoOn, Enter
<1>9. CASE Clear(t)
  BY <1>9, WndAssumption DEF Clear, historyVars, Onces, Answers, First, Done,
    WndTypeOK, GoOn, Leave
<1>10. CASE \E f \in PostFns \cup SendFns : BeginCall(t, f)
  BY <1>10 DEF BeginCall, objectVars, historyVars, Onces, Answers, First, Done,
    WndTypeOK, GoOn
<1>11. ASSUME \/ PostToWindow(t) \/ PostToNobody(t) \/ PostFails(t) \/ SendToOwn(t)
              \/ Send(t) \/ SendToNobody(t) \/ EndSend(t)
       PROVE  Onces' /\ Answers'
  BY <1>11 DEF PostToWindow, PostToNobody, PostFails, SendToOwn, Send, SendToNobody,
    EndSend, Return, objectVars, historyVars, Onces, Answers, First, Done,
    WndTypeOK, GoOn
<1>12. CASE Dispatch(t) \/ RunTask(t) \/ OnWndMessage(t)
  BY <1>12 DEF Dispatch, RunTask, OnWndMessage, EndProcess, objectVars, historyVars,
    Onces, Answers, First, Done, WndTypeOK
<1> QED
  BY <1>1, <1>2, <1>3, <1>4, <1>5, <1>6, <1>7, <1>8, <1>9, <1>10, <1>11, <1>12
  DEF Begin, WndStep

-----------------------------------------------------------------------------
(* The messages *)

\* A message is with one caller, in the queue, in MessageWndProc or dropped.
OnePlace ==
  /\ \A t \in Threads :
       /\ pc[t] \in {"post", "send", "sending"} => message[t] \in 1..made
       /\ pc[t] = "post" =>
            /\ kind[message[t]] \in PostFns
            /\ message[t] \notin Queued \cup dropped
            /\ message[t] # current
       /\ pc[t] \in {"send", "sending"} => kind[message[t]] \in SendFns
  /\ \A t, u \in Threads :
       pc[t] = "post" /\ pc[u] = "post" /\ message[t] = message[u] => t = u
  /\ \A i, j \in DOMAIN posted : posted[i] = posted[j] => i = j
  /\ \A n \in Queued : n \in 1..made /\ n \notin dropped /\ n # current
  /\ dropped \cup sent \subseteq 1..made
  /\ current \in 0..made
  /\ current \in dropped => kind[current] \in SendFns

\* MessageWndProc runs in the thread of the window, between its calls.
InProc ==
  current # 0 => creator \in Threads /\ pc[creator] \in {"idle", "gone"}

LEMMA PostedAppended ==
  ASSUME NEW n, NEW S, posted \in Seq(S), n \in S, posted' = Append(posted, n)
  PROVE  /\ posted' \in Seq(S)
         /\ \A m : m \in Queued' <=> m \in Queued \/ m = n
         /\ (\A i, j \in DOMAIN posted : posted[i] = posted[j] => i = j) /\ n \notin Queued
              => \A i, j \in DOMAIN posted' : posted'[i] = posted'[j] => i = j
BY DEF Queued

LEMMA PostedTaken ==
  ASSUME NEW S, posted \in Seq(S), posted # <<>>, posted' = Tail(posted)
  PROVE  /\ posted' \in Seq(S)
         /\ Head(posted) \in S
         /\ \A m : m \in Queued <=> m \in Queued' \/ m = Head(posted)
         /\ (\A i, j \in DOMAIN posted : posted[i] = posted[j] => i = j)
              => /\ \A i, j \in DOMAIN posted' : posted'[i] = posted'[j] => i = j
                 /\ Head(posted) \notin Queued'
<1>1. /\ posted' \in Seq(S) /\ Len(posted) \in Nat \ {0}
      /\ DOMAIN posted = 1..Len(posted) /\ DOMAIN posted' = 1..(Len(posted) - 1)
      /\ \A i \in DOMAIN posted' : posted'[i] = posted[i + 1]
      /\ Head(posted) = posted[1] /\ Head(posted) \in S
  OBVIOUS
<1>2. ASSUME NEW m PROVE m \in Queued <=> m \in Queued' \/ m = Head(posted)
  <2>1. ASSUME NEW i \in DOMAIN posted, posted[i] = m
        PROVE  m = Head(posted) \/ \E j \in DOMAIN posted' : posted'[j] = m
    <3>1. CASE i = 1
      BY <1>1, <2>1, <3>1
    <3>2. CASE i # 1
      <4>1. i - 1 \in DOMAIN posted' /\ (i - 1) + 1 = i
        BY <1>1, <3>2
      <4> QED BY <1>1, <2>1, <4>1
    <3> QED BY <3>1, <3>2
  <2>2. ASSUME NEW j \in DOMAIN posted', posted'[j] = m
        PROVE  j + 1 \in DOMAIN posted /\ posted[j + 1] = m
    BY <1>1, <2>2
  <2>3. 1 \in DOMAIN posted
    BY <1>1
  <2> QED BY <1>1, <2>1, <2>2, <2>3 DEF Queued
<1>3. ASSUME \A i, j \in DOMAIN posted : posted[i] = posted[j] => i = j
      PROVE  /\ \A i, j \in DOMAIN posted' : posted'[i] = posted'[j] => i = j
             /\ Head(posted) \notin Queued'
  BY <1>1, <1>3 DEF Queued
<1> QED BY <1>1, <1>2, <1>3

\* A step that leaves the messages where they are.
Elsewhere(t) ==
  /\ UNCHANGED <<taskVars, queueVars>>
  /\ \/ EndProcess /\ UNCHANGED creator
     \/ UNCHANGED <<pc, creator>>
     \/ /\ \E label \in {"idle", "create", "uninit", "delete", "clear"} : GoOn(t, label)
        /\ pc[t] \notin {"post", "send", "sending"}
        /\ \/ UNCHANGED creator /\ (t = creator => current = 0 \/ pc'[t] = "idle")
           \/ creator' = t /\ creator = NoThread /\ pc'[t] = "idle"

LEMMA ElsewhereSteps ==
  ASSUME WndTypeOK, Onces, InProc, NEW t \in Threads,
         \/ AlreadyInit(t) \/ NewMessageWnd(t) \/ InitDeleted(t) \/ CreateWnd(t)
         \/ BeginUninit(t) \/ AlreadyUninit(t) \/ Delete(t) \/ Clear(t) \/ CallNull(t)
  PROVE  Elsewhere(t)
<1>1. CASE AlreadyInit(t)
  BY <1>1 DEF AlreadyInit, Elsewhere, objectVars
<1>2. CASE NewMessageWnd(t)
  BY <1>2 DEF NewMessageWnd, Elsewhere, GoOn, Idle, WndTypeOK
<1>3. CASE InitDeleted(t) \/ CallNull(t)
  BY <1>3 DEF InitDeleted, CallNull, Elsewhere, objectVars
<1>4. CASE CreateWnd(t)
  BY <1>4 DEF CreateWnd, Elsewhere, GoOn, WndTypeOK, Onces, Done
<1>5. CASE BeginUninit(t) \/ AlreadyUninit(t) \/ Delete(t) \/ Clear(t)
  BY <1>5 DEF BeginUninit, AlreadyUninit, Delete, Clear, Elsewhere, GoOn, WndTypeOK,
    objectVars, Idle, InProc
<1> QED
  BY <1>1, <1>2, <1>3, <1>4, <1>5

LEMMA ElsewhereKeeps ==
  ASSUME WndTypeOK, OnePlace, InProc, NEW t \in Threads, Elsewhere(t)
  PROVE  OnePlace' /\ InProc' /\ pc' \in [Threads -> {"idle", "create", "uninit",
           "delete", "clear", "post", "send", "sending", "gone"}]
<1>1. UNCHANGED <<message, made, kind, heap, posted, sent, current, dropped>> /\ Queued' = Queued
  BY DEF Elsewhere, taskVars, queueVars, Queued
<1>2. \A u \in Threads : pc'[u] \in {"post", "send", "sending"} => pc'[u] = pc[u]
  BY DEF Elsewhere, EndProcess, GoOn, WndTypeOK
<1>3. OnePlace'
  BY <1>1, <1>2 DEF OnePlace
<1>4. InProc'
  BY <1>1, WndAssumption DEF Elsewhere, InProc, EndProcess, GoOn, WndTypeOK
<1> QED BY <1>3, <1>4 DEF Elsewhere, EndProcess, GoOn, WndTypeOK

LEMMA PlacesStep ==
  ASSUME WndTypeOK, OnePlace, InProc, NEW t \in Threads,
         \/ \E f \in PostFns \cup SendFns : BeginCall(t, f)
         \/ PostToWindow(t) \/ PostToNobody(t) \/ PostFails(t) \/ SendToOwn(t)
         \/ Send(t) \/ SendToNobody(t) \/ EndSend(t)
         \/ Dispatch(t) \/ RunTask(t) \/ OnWndMessage(t) \/ DestroyWindow(t)
  PROVE  OnePlace' /\ InProc'
<1>1. CASE \E f \in PostFns \cup SendFns : BeginCall(t, f)
  <2>1. PICK f \in PostFns \cup SendFns : BeginCall(t, f)
    BY <1>1
  <2>a. /\ UNCHANGED <<posted, sent, current, dropped, creator>>
        /\ pc[t] = "idle" /\ (t = creator => current = 0)
        /\ made' = made + 1 /\ made < MaxTasks
        /\ message' = [message EXCEPT ![t] = made + 1]
        /\ kind' = [kind EXCEPT ![made + 1] = f]
        /\ pc' = [pc EXCEPT ![t] = IF f \in PostFns THEN "post" ELSE "send"]
    BY <2>1 DEF BeginCall, Idle, objectVars, queueVars, GoOn, Posts
  <2>b. made' \in Message
    BY <2>a, WndAssumption DEF Message, WndTypeOK
  <2>2. /\ UNCHANGED <<posted, sent, current, dropped, creator>> /\ Queued' = Queued
        /\ pc[t] = "idle" /\ (t = creator => current = 0)
        /\ made' = made + 1 /\ made' \in Message
        /\ message' = [message EXCEPT ![t] = made + 1]
        /\ kind' = [kind EXCEPT ![made + 1] = f]
        /\ \E label \in {"post", "send"} :
             /\ pc' = [pc EXCEPT ![t] = label]
             /\ label = "post" <=> f \in PostFns
    BY <2>a, <2>b DEF Queued
  <2>3. /\ \A n \in 1..made : n \in 1..made' /\ n # made' /\ kind'[n] = kind[n]
        /\ kind'[made'] = f /\ message'[t] = made' /\ made' \in 1..made' /\ made' # 0
        /\ \A u \in Threads : u # t => message'[u] = message[u] /\ pc'[u] = pc[u]
        /\ pc'[t] \in {"post", "send"} /\ (pc'[t] = "post" <=> f \in PostFns)
        /\ current \in 0..made' /\ current # made' /\ made' \notin dropped
        /\ made' \notin Queued
    BY <2>2, WndAssumption DEF WndTypeOK, Message, OnePlace
  <2>4. OnePlace'
    <3>1. ASSUME NEW u \in Threads
          PROVE  /\ pc'[u] \in {"post", "send", "sending"} => message'[u] \in 1..made'
                 /\ pc'[u] = "post" =>
                      /\ kind'[message'[u]] \in PostFns
                      /\ message'[u] \notin Queued' \cup dropped'
                      /\ message'[u] # current'
                 /\ pc'[u] \in {"send", "sending"} => kind'[message'[u]] \in SendFns
      <4>1. CASE u = t
        BY <2>1, <2>2, <2>3, <4>1
      <4>2. CASE u # t
        BY <2>2, <2>3, <4>2 DEF OnePlace
      <4> QED BY <4>1, <4>2
    <3>2. \A u, v \in Threads :
            pc'[u] = "post" /\ pc'[v] = "post" /\ message'[u] = message'[v] => u = v
      BY <2>2, <2>3 DEF OnePlace
    <3>3. current' \in dropped' => kind'[current'] \in SendFns
      BY <2>2, <2>3 DEF OnePlace
    <3>4. /\ \A n \in Queued' : n \in 1..made' /\ n \notin dropped' /\ n # current'
          /\ dropped' \cup sent' \subseteq 1..made' /\ current' \in 0..made'
      BY <2>2, <2>3 DEF OnePlace
    <3> QED BY <2>2, <3>1, <3>2, <3>3, <3>4 DEF OnePlace
  <2> QED BY <2>2, <2>4 DEF InProc, WndTypeOK
<1>2. CASE PostToWindow(t)
  <2>1. /\ posted' = Append(posted, message[t]) /\ posted \in Seq(Message)
        /\ pc[t] = "post" /\ message[t] \notin Queued /\ message[t] \in 1..made
        /\ message[t] \notin dropped /\ message[t] # current
        /\ UNCHANGED <<made, kind, creator, sent, current, dropped>>
        /\ pc' = [pc EXCEPT ![t] = "idle"] /\ message' = [message EXCEPT ![t] = 0]
    BY <1>2 DEF PostToWindow, Return, GoOn, OnePlace, WndTypeOK, objectVars
  <2>5. message[t] \in Message
    BY <2>1, WndAssumption DEF WndTypeOK, Message
  <2>2. /\ \A m : m \in Queued' <=> m \in Queued \/ m = message[t]
        /\ \A i, j \in DOMAIN posted' : posted'[i] = posted'[j] => i = j
    BY <2>1, <2>5, PostedAppended DEF OnePlace
  <2>3. /\ pc'[t] = "idle"
        /\ \A u \in Threads : u # t => pc'[u] = pc[u] /\ message'[u] = message[u]
    BY <2>1 DEF WndTypeOK
  <2>4. OnePlace'
    <3>1. ASSUME NEW u \in Threads, pc'[u] = "post"
          PROVE  message'[u] \notin Queued'
      BY <2>1, <2>2, <2>3, <3>1 DEF OnePlace
    <3>2. \A u, v \in Threads :
            pc'[u] = "post" /\ pc'[v] = "post" /\ message'[u] = message'[v] => u = v
      BY <2>3 DEF OnePlace
    <3> QED BY <2>1, <2>2, <2>3, <3>1, <3>2 DEF OnePlace
  <2> QED BY <2>1, <2>3, <2>4 DEF InProc, WndTypeOK
<1>3. CASE PostToNobody(t)
  BY <1>3 DEF PostToNobody, OnePlace, InProc, WndTypeOK, Return, GoOn, objectVars,
    Queued, PostFns, SendFns
<1>4. CASE PostFails(t)
  BY <1>4 DEF PostFails, OnePlace, InProc, WndTypeOK, Return, GoOn, objectVars,
    queueVars, Queued, PostFns, SendFns
<1>5. CASE SendToOwn(t)
  BY <1>5 DEF SendToOwn, OnePlace, InProc, WndTypeOK, Return, GoOn, objectVars,
    Queued, PostFns, SendFns
<1>6. CASE Send(t)
  BY <1>6 DEF Send, OnePlace, InProc, WndTypeOK, GoOn, objectVars, taskVars, Queued,
    PostFns, SendFns
<1>7. CASE SendToNobody(t)
  <2>1. /\ pc[t] = "send" /\ message[t] \in 1..made /\ kind[message[t]] \in SendFns
        /\ UNCHANGED <<made, kind, creator, posted, sent, current>> /\ Queued' = Queued
        /\ dropped' = dropped \cup {message[t]}
        /\ pc' = [pc EXCEPT ![t] = "idle"] /\ message' = [message EXCEPT ![t] = 0]
    BY <1>7 DEF SendToNobody, Return, GoOn, OnePlace, objectVars, Queued
  <2>2. /\ pc'[t] = "idle"
        /\ \A u \in Threads : u # t => pc'[u] = pc[u] /\ message'[u] = message[u]
    BY <2>1 DEF WndTypeOK
  <2>3. \A n : ~(kind[n] \in PostFns /\ kind[n] \in SendFns)
    BY DEF PostFns, SendFns
  <2>4. OnePlace'
    BY <2>1, <2>2, <2>3 DEF OnePlace, WndTypeOK
  <2> QED BY <2>1, <2>2, <2>4 DEF InProc, WndTypeOK
<1>8. CASE EndSend(t)
  BY <1>8 DEF EndSend, OnePlace, InProc, WndTypeOK, Return, GoOn, objectVars,
    queueVars, Queued, PostFns, SendFns
<1>9. CASE Dispatch(t)
  <2>1. /\ UNCHANGED <<pc, message, made, kind, creator, dropped>>
        /\ current = 0 /\ t = creator /\ pc[t] = "idle"
        /\ \/ posted # <<>> /\ current' = Head(posted) /\ posted' = Tail(posted) /\ sent' = sent
           \/ current' \in sent /\ sent' = sent \ {current'} /\ posted' = posted
    BY <1>9 DEF Dispatch, Idle, objectVars, taskVars
  <2>2. InProc'
    BY <2>1 DEF InProc
  <2>3. \A n : ~(kind[n] \in PostFns /\ kind[n] \in SendFns)
    BY DEF PostFns, SendFns
  <2>4. CASE posted # <<>> /\ current' = Head(posted) /\ posted' = Tail(posted) /\ sent' = sent
    <3>1. posted \in Seq(Message)
      BY DEF WndTypeOK
    <3>2. /\ \A m : m \in Queued <=> m \in Queued' \/ m = current'
          /\ \A i, j \in DOMAIN posted' : posted'[i] = posted'[j] => i = j
          /\ current' \notin Queued'
      BY <2>4, <3>1, PostedTaken DEF OnePlace
    <3>3. current' \in Queued /\ current' \in 1..made /\ current' \notin dropped
      BY <3>2 DEF OnePlace
    <3>4. \A u \in Threads : pc[u] = "post" => message[u] \notin Queued' /\ message[u] # current'
      BY <3>2 DEF OnePlace
    <3>5. OnePlace'
      <4>1. \A n \in Queued' : n \in 1..made /\ n \notin dropped /\ n # current'
        BY <3>2 DEF OnePlace
      <4>2. current' \in 0..made
        BY <3>3
      <4> QED BY <2>1, <2>4, <3>2, <3>3, <3>4, <4>1, <4>2 DEF OnePlace
    <3> QED BY <2>2, <3>5
  <2>5. CASE current' \in sent /\ sent' = sent \ {current'} /\ posted' = posted
    <3>1. Queued' = Queued /\ kind[current'] \in SendFns /\ current' \in 1..made
      BY <2>5 DEF Queued, WndTypeOK, OnePlace
    <3>2. OnePlace'
      BY <2>1, <2>3, <2>5, <3>1 DEF OnePlace, WndTypeOK
    <3> QED BY <2>2, <3>2
  <2> QED BY <2>1, <2>4, <2>5
<1>10. CASE RunTask(t) \/ OnWndMessage(t)
  BY <1>10 DEF RunTask, OnWndMessage, EndProcess, OnePlace, InProc, WndTypeOK,
    objectVars, taskVars, Queued, PostFns, SendFns
<1>11. CASE DestroyWindow(t)
  BY <1>11 DEF DestroyWindow, OnePlace, InProc, WndTypeOK, GoOn, taskVars, Queued,
    PostFns, SendFns
<1> QED
  BY <1>1, <1>2, <1>3, <1>4, <1>5, <1>6, <1>7, <1>8, <1>9, <1>10, <1>11
-----------------------------------------------------------------------------
(* The types *)

\* A step that leaves the messages where they are keeps what TypeOK says of them.
LEMMA TypesElsewhere ==
  ASSUME WndTypeOK, Onces, Answers, OnePlace, InProc, NEW t \in Threads,
         \/ AlreadyInit(t) \/ NewMessageWnd(t) \/ InitDeleted(t) \/ CreateWnd(t)
         \/ BeginUninit(t) \/ AlreadyUninit(t) \/ Delete(t) \/ Clear(t) \/ CallNull(t)
  PROVE  WndTypeOK'
<1>1. UNCHANGED <<message, made, kind, heap, posted, sent, current, dropped>> /\ Queued' = Queued
  BY ElsewhereSteps DEF Elsewhere, taskVars, queueVars, Queued
<1>2. pc' \in [Threads -> {"idle", "create", "uninit", "delete", "clear", "post", "send",
                           "sending", "gone"}]
  BY ElsewhereSteps, ElsewhereKeeps
<1>3. /\ global_message_wnd' \in {"null", "object", "deleted"}
      /\ m_hWnd' \in BOOLEAN /\ (m_hWnd' => global_message_wnd' = "object")
      /\ window' \in {"none", "alive", "destroyed"}
      /\ creator' \in Threads \cup {NoThread}
      /\ ret' \in BOOLEAN /\ told' \in BOOLEAN /\ uninited' \in BOOLEAN
  <2>1. CASE NewMessageWnd(t)
    BY <2>1 DEF WndTypeOK, NewMessageWnd, historyVars
  <2>2. CASE CreateWnd(t)
    <3>1. m_hWnd \in BOOLEAN /\ (m_hWnd => global_message_wnd = "object")
      BY DEF WndTypeOK
    <3>2. /\ m_hWnd' = m_hWnd \/ m_hWnd' = (global_message_wnd = "object")
          /\ global_message_wnd' = global_message_wnd
      BY <2>2, Zenon DEF CreateWnd
    <3>3. m_hWnd' \in BOOLEAN /\ (m_hWnd' => global_message_wnd' = "object")
      <4>1. CASE m_hWnd' = m_hWnd
        BY <3>1, <3>2, <4>1
      <4>2. CASE m_hWnd' = (global_message_wnd = "object")
        BY <3>2, <4>2
      <4> QED BY <3>2, <4>1, <4>2
    <3>4. ret' \in BOOLEAN
      BY <2>2, Zenon DEF CreateWnd
    <3>5. ret' \in BOOLEAN /\ told' \in BOOLEAN
      BY <2>2, <3>4, Zenon DEF CreateWnd, WndTypeOK
    <3> QED BY <2>2, <3>3, <3>5 DEF WndTypeOK, CreateWnd
  <2>3. CASE AlreadyInit(t)
    <3>1. told' \in BOOLEAN
      BY <2>3, Zenon DEF AlreadyInit, WndTypeOK
    <3> QED BY <2>3, <3>1 DEF AlreadyInit, WndTypeOK, objectVars
  <2>4. CASE Delete(t)
    BY <2>4 DEF WndTypeOK, Delete, historyVars
  <2>5. CASE Clear(t)
    <3>1. ~m_hWnd
      BY <2>5 DEF WndTypeOK, Onces, Clear
    <3> QED BY <2>5, <3>1 DEF WndTypeOK, Clear
  <2>6. CASE AlreadyUninit(t)
    BY <2>6 DEF WndTypeOK, AlreadyUninit, objectVars
  <2>7. CASE InitDeleted(t) \/ BeginUninit(t) \/ CallNull(t)
    BY <2>7 DEF WndTypeOK, InitDeleted, BeginUninit, CallNull, objectVars, historyVars
  <2> QED BY <2>1, <2>2, <2>3, <2>4, <2>5, <2>6, <2>7
<1>4. ASSUME NEW once \in {init', uninit'}
      PROVE  once \in [owner : Threads \cup {NoThread}, flag_ : BOOLEAN]
  <2>1. \A o \in {init, uninit} :
          /\ o \in [owner : Threads \cup {NoThread}, flag_ : BOOLEAN]
          /\ Enter(o, t) \in [owner : Threads \cup {NoThread}, flag_ : BOOLEAN]
          /\ Leave(o) \in [owner : Threads \cup {NoThread}, flag_ : BOOLEAN]
    BY DEF WndTypeOK, Enter, Leave
  <2>2. init' \in {init, Enter(init, t), Leave(init)}
    BY DEF AlreadyInit, NewMessageWnd, InitDeleted, CreateWnd, BeginUninit,
      AlreadyUninit, Delete, Clear, CallNull, objectVars
  <2>3. uninit' \in {uninit, Enter(uninit, t), Leave(uninit)}
    BY DEF AlreadyInit, NewMessageWnd, InitDeleted, CreateWnd, BeginUninit,
      AlreadyUninit, Delete, Clear, CallNull, objectVars
  <2> QED BY <2>1, <2>2, <2>3
<1> QED BY <1>1, <1>2, <1>3, <1>4 DEF WndTypeOK

\* So does one that moves a message.
LEMMA TypesStep ==
  ASSUME WndTypeOK, OnePlace, InProc, NEW t \in Threads,
         \/ \E f \in PostFns \cup SendFns : BeginCall(t, f)
         \/ PostToWindow(t) \/ PostToNobody(t) \/ PostFails(t) \/ SendToOwn(t)
         \/ Send(t) \/ SendToNobody(t) \/ EndSend(t)
         \/ Dispatch(t) \/ RunTask(t) \/ OnWndMessage(t) \/ DestroyWindow(t)
  PROVE  WndTypeOK'
<1>1. CASE \E f \in PostFns \cup SendFns : BeginCall(t, f)
  BY <1>1, WndAssumption DEF BeginCall, WndTypeOK, OnePlace, GoOn, Posts,
    objectVars, queueVars, historyVars, Queued, Message
<1>2. CASE PostToWindow(t)
  <2>1. message[t] \in Message /\ message[t] \in 1..made /\ kind[message[t]] \in PostFns
    BY <1>2, WndAssumption DEF PostToWindow, OnePlace, WndTypeOK, Message
  <2>2. posted' \in Seq(Message) /\ \A m : m \in Queued' <=> m \in Queued \/ m = message[t]
    BY <1>2, <2>1, PostedAppended DEF PostToWindow, WndTypeOK
  <2>3. \A n \in Queued' : kind'[n] \in PostFns
    BY <1>2, <2>1, <2>2 DEF PostToWindow, WndTypeOK, Return
  <2>4. /\ pc' \in [Threads -> {"idle", "create", "uninit", "delete", "clear", "post",
                                "send", "sending", "gone"}]
        /\ message' \in [Threads -> 0..MaxTasks]
    BY <1>2, WndAssumption DEF PostToWindow, WndTypeOK, Return, GoOn
  <2> QED BY <1>2, <2>2, <2>3, <2>4
    DEF PostToWindow, WndTypeOK, Return, objectVars, historyVars
<1>3. CASE PostToNobody(t)
  BY <1>3, WndAssumption DEF PostToNobody, OnePlace, WndTypeOK, Return, GoOn,
    objectVars, historyVars, Queued, Message
<1>4. CASE PostFails(t)
  BY <1>4, WndAssumption DEF PostFails, Deletes, WndTypeOK, Return, GoOn,
    objectVars, queueVars, historyVars, Queued
<1>5. CASE SendToOwn(t)
  BY <1>5, WndAssumption DEF SendToOwn, WndTypeOK, Return, GoOn, objectVars,
    historyVars, Queued
<1>6. CASE Send(t)
  BY <1>6, WndAssumption DEF Send, WndTypeOK, OnePlace, GoOn, objectVars, taskVars,
    historyVars, Queued, Message
<1>7. CASE SendToNobody(t)
  BY <1>7, WndAssumption DEF SendToNobody, OnePlace, WndTypeOK, Return, GoOn,
    objectVars, historyVars, Queued, Message
<1>8. CASE EndSend(t)
  BY <1>8, WndAssumption DEF EndSend, WndTypeOK, Return, GoOn, objectVars,
    queueVars, historyVars, Queued
<1>9. CASE Dispatch(t)
  <2>1. CASE posted # <<>> /\ current' = Head(posted) /\ posted' = Tail(posted) /\ sent' = sent
    <3>1. /\ posted' \in Seq(Message) /\ current' \in Message
          /\ \A m : m \in Queued <=> m \in Queued' \/ m = current'
      BY <2>1, PostedTaken DEF WndTypeOK
    <3> QED BY <1>9, <2>1, <3>1, WndAssumption
      DEF Dispatch, WndTypeOK, objectVars, taskVars, historyVars, Message
  <2>2. CASE \E n \in sent : current' = n /\ sent' = sent \ {n} /\ posted' = posted
    BY <1>9, <2>2, WndAssumption
      DEF Dispatch, WndTypeOK, objectVars, taskVars, historyVars, Message, Queued
  <2> QED BY <1>9, <2>1, <2>2 DEF Dispatch
<1>10. CASE RunTask(t)
  BY <1>10, WndAssumption DEF RunTask, WndTypeOK, objectVars, historyVars, Queued
<1>11. CASE OnWndMessage(t)
  BY <1>11, WndAssumption DEF OnWndMessage, EndProcess, WndTypeOK, objectVars,
    taskVars, historyVars, Queued
<1>12. CASE DestroyWindow(t)
  <2>1. posted' \in Seq(Message) /\ sent' \subseteq Message /\ Queued \subseteq Message
    <3>1. <<>> \in Seq(Message) /\ {} \subseteq Message
      OBVIOUS
    <3>2. posted' \in {<<>>, posted} /\ sent' \in {{}, sent}
      BY <1>12 DEF DestroyWindow
    <3>3. posted \in Seq(Message) /\ sent \subseteq Message
      BY DEF WndTypeOK
    <3>4. Queued \subseteq Message
      BY <3>3 DEF Queued
    <3> QED BY <3>1, <3>2, <3>3, <3>4
  <2>2. /\ \A n \in Queued' : kind'[n] \in PostFns
        /\ \A n \in sent' : kind'[n] \in SendFns
    BY <1>12 DEF DestroyWindow, WndTypeOK, Queued, taskVars
  <2>3. \A once \in {init', uninit'} : once \in [owner : Threads \cup {NoThread}, flag_ : BOOLEAN]
    BY <1>12 DEF DestroyWindow, WndTypeOK, Enter
  <2> QED BY <1>12, <2>1, <2>2, <2>3
    DEF DestroyWindow, WndTypeOK, GoOn, taskVars, historyVars
<1> QED
  BY <1>1, <1>2, <1>3, <1>4, <1>5, <1>6, <1>7, <1>8, <1>9, <1>10, <1>11, <1>12

-----------------------------------------------------------------------------
(* The tasks *)

\* What EveryTaskOwned says of one message.
Owned(n) ==
  /\ n \in 1..made /\ kind[n] = "Asyn"
  /\ \/ \E u \in Threads : pc[u] = "post" /\ message[u] = n
     \/ n \in Queued \cup dropped \/ n = current

LEMMA OwnedIs == EveryTaskOwned <=> Crashed \/ \A n : n \in heap <=> Owned(n)
BY DEF EveryTaskOwned, Owned

LEMMA OwnedStep ==
  ASSUME WndTypeOK, Onces, OnePlace, InProc, EveryTaskOwned,
         NEW t \in Threads, Begin(t) \/ WndStep(t)
  PROVE  EveryTaskOwned'
<1>0. pc[t] # "gone"
  BY DEF Begin, WndStep, AlreadyInit, NewMessageWnd, BeginUninit, BeginCall, Idle,
    CreateWnd, InitDeleted, AlreadyUninit, DestroyWindow, Delete, Clear, CallNull,
    PostToWindow, PostToNobody, PostFails, SendToOwn, Send, SendToNobody, EndSend,
    Dispatch, RunTask, OnWndMessage
<1>a. \A n : n \in heap <=> Owned(n)
  BY <1>0, OwnedIs DEF Crashed
<1>b. SUFFICES ASSUME ~Crashed', NEW n PROVE n \in heap' <=> Owned(n)'
  BY DEF EveryTaskOwned, Owned, Queued
<1>1. CASE Elsewhere(t)
  <2>1. UNCHANGED <<message, made, kind, heap, posted, current, dropped>> /\ Queued' = Queued
    BY <1>1 DEF Elsewhere, taskVars, queueVars, Queued
  <2>2. ~EndProcess
    BY <1>b DEF EndProcess, Crashed
  <2>3. \A u \in Threads : pc'[u] = "post" <=> pc[u] = "post"
    BY <1>1, <2>2 DEF Elsewhere, GoOn, WndTypeOK
  <2> QED BY <1>a, <2>1, <2>3 DEF Owned
<1>2. ASSUME NEW f \in PostFns \cup SendFns, BeginCall(t, f) PROVE n \in heap' <=> Owned(n)'
  <2>1. /\ UNCHANGED <<posted, current, dropped>> /\ Queued' = Queued
        /\ made' = made + 1 /\ made' \in Message /\ made \in Nat
        /\ message' = [message EXCEPT ![t] = made + 1]
        /\ kind' = [kind EXCEPT ![made + 1] = f]
        /\ heap' = IF f = "Asyn" THEN heap \cup {made + 1} ELSE heap
        /\ pc[t] = "idle"
        /\ pc' = [pc EXCEPT ![t] = IF f \in PostFns THEN "post" ELSE "send"]
    BY <1>2, WndAssumption DEF BeginCall, Idle, queueVars, Queued, GoOn, Message,
      WndTypeOK, Posts
  <2>2. \A u \in Threads \ {t} : message'[u] = message[u] /\ pc'[u] = pc[u]
    BY <2>1 DEF WndTypeOK
  <2>3. message'[t] = made' /\ (pc'[t] = "post" <=> f \in PostFns) /\ kind'[made'] = f
    BY <2>1 DEF WndTypeOK
  <2>4. CASE n = made'
    <3>1. made' \notin Queued \cup dropped /\ made' # current /\ ~Owned(n)
      BY <2>1, <2>4 DEF OnePlace, Owned
    <3>2. \A u \in Threads \ {t} : pc'[u] = "post" => message'[u] # made'
      BY <2>1, <2>2 DEF OnePlace
    <3>3. f = "Asyn" => f \in PostFns
      BY DEF PostFns
    <3> QED BY <1>a, <2>1, <2>3, <2>4, <3>1, <3>2, <3>3 DEF Owned
  <2>5. CASE n # made'
    <3>1. (n \in 1..made' <=> n \in 1..made) /\ (n \in 1..made => kind'[n] = kind[n])
      BY <2>1, <2>5, WndAssumption DEF WndTypeOK, Message
    <3> QED BY <1>a, <2>1, <2>2, <2>3, <2>5, <3>1 DEF Owned
  <2> QED BY <2>4, <2>5
<1>3. CASE \/ PostToWindow(t) \/ PostToNobody(t) \/ PostFails(t) \/ SendToOwn(t)
           \/ SendToNobody(t) \/ EndSend(t)
  <2>1. /\ UNCHANGED <<made, kind>> /\ pc[t] # "idle"
        /\ pc' = [pc EXCEPT ![t] = "idle"] /\ message' = [message EXCEPT ![t] = 0]
    BY <1>3 DEF PostToWindow, PostToNobody, PostFails, SendToOwn, SendToNobody,
      EndSend, Return, GoOn
  <2>2. /\ \A u \in Threads \ {t} : message'[u] = message[u] /\ pc'[u] = pc[u]
        /\ pc'[t] = "idle"
    BY <2>1 DEF WndTypeOK
  <2>3. \A k : ~(kind[k] = "Asyn" /\ kind[k] \in SendFns)
    BY DEF SendFns
  <2>4. CASE PostToWindow(t)
    <3>1. /\ pc[t] = "post" /\ UNCHANGED <<heap, current, dropped>>
          /\ posted' = Append(posted, message[t]) /\ message[t] \in Message
      BY <2>4, WndAssumption DEF PostToWindow, OnePlace, WndTypeOK, Message
    <3>2. \A m : m \in Queued' <=> m \in Queued \/ m = message[t]
      BY <3>1, PostedAppended DEF WndTypeOK
    <3> QED BY <1>a, <2>1, <2>2, <3>1, <3>2 DEF Owned
  <2>5. CASE PostToNobody(t)
    <3>1. pc[t] = "post" /\ UNCHANGED <<heap, posted, current>> /\ Queued' = Queued
          /\ dropped' = dropped \cup {message[t]}
      BY <2>5 DEF PostToNobody, Queued
    <3> QED BY <1>a, <2>1, <2>2, <3>1 DEF Owned
  <2>6. CASE PostFails(t)
    <3>1. /\ pc[t] = "post" /\ UNCHANGED <<posted, current, dropped>> /\ Queued' = Queued
          /\ heap' = heap \ {message[t]}
      BY <2>6 DEF PostFails, Deletes, Queued, queueVars
    <3>2. message[t] \notin Queued \cup dropped /\ message[t] # current
      BY <3>1 DEF OnePlace
    <3>3. \A u \in Threads : pc'[u] = "post" => message'[u] # message[t]
      BY <2>2, <3>1 DEF OnePlace
    <3> QED BY <1>a, <2>1, <2>2, <3>1, <3>2, <3>3 DEF Owned
  <2>7. CASE SendToOwn(t) \/ SendToNobody(t) \/ EndSend(t)
    <3>1. /\ pc[t] \in {"send", "sending"} /\ UNCHANGED <<heap, posted>> /\ Queued' = Queued
          /\ dropped' \in {dropped, dropped \cup {message[t]}}
          /\ kind[message[t]] \in SendFns
          /\ (current' = current \/ (current' = message[t] /\ current = 0))
      <4>1. CASE SendToOwn(t)
        <5>1. pc[t] = "send" /\ creator = t
          BY <4>1 DEF SendToOwn
        <5>2. current = 0
          BY <5>1 DEF InProc
        <5> QED BY <4>1, <5>1, <5>2 DEF SendToOwn, OnePlace, Queued
      <4>2. CASE SendToNobody(t) \/ EndSend(t)
        BY <4>2 DEF SendToNobody, EndSend, OnePlace, Queued, queueVars
      <4> QED BY <2>7, <4>1, <4>2
    <3>2. 0 \notin 1..made
      OBVIOUS
    <3> QED BY <1>a, <2>1, <2>2, <2>3, <3>1, <3>2 DEF Owned
  <2> QED BY <1>3, <2>4, <2>5, <2>6, <2>7
<1>4. CASE Send(t)
  <2>1. UNCHANGED <<message, made, kind, heap, posted, current, dropped>> /\ Queued' = Queued
    BY <1>4 DEF Send, taskVars, Queued
  <2>2. \A u \in Threads : pc'[u] = "post" <=> pc[u] = "post"
    BY <1>4 DEF Send, GoOn, WndTypeOK
  <2> QED BY <1>a, <2>1, <2>2 DEF Owned
<1>5. CASE Dispatch(t)
  <2>1. /\ UNCHANGED <<pc, message, made, kind, heap, dropped>> /\ current = 0
        /\ \/ posted # <<>> /\ current' = Head(posted) /\ posted' = Tail(posted)
           \/ current' \in sent /\ posted' = posted
    BY <1>5 DEF Dispatch, Idle, taskVars
  <2>2. CASE posted # <<>> /\ current' = Head(posted) /\ posted' = Tail(posted)
    <3>1. \A m : m \in Queued <=> m \in Queued' \/ m = current'
      BY <2>2, PostedTaken DEF WndTypeOK
    <3>2. 0 \notin 1..made
      OBVIOUS
    <3> QED BY <1>a, <2>1, <2>2, <3>1, <3>2 DEF Owned
  <2>3. CASE current' \in sent /\ posted' = posted
    <3>1. kind[current'] # "Asyn" /\ 0 \notin 1..made /\ Queued' = Queued
      BY <2>3 DEF WndTypeOK, SendFns, Queued
    <3> QED BY <1>a, <2>1, <2>3, <3>1 DEF Owned
  <2> QED BY <2>1, <2>2, <2>3
<1>6. CASE RunTask(t)
  <2>1. /\ UNCHANGED <<pc, message, made, kind, posted, dropped>> /\ Queued' = Queued
        /\ heap' = heap \ {current} /\ current' = 0 /\ current # 0
        /\ kind[current] \in {"Asyn", "Syn"}
    BY <1>6 DEF RunTask, IsTask, Queued
  <2>2. current \notin Queued /\ (kind[current] = "Asyn" => current \notin dropped)
    BY <2>1 DEF OnePlace, SendFns
  <2>3. \A u \in Threads : pc[u] = "post" => message[u] # current
    BY DEF OnePlace
  <2>4. 0 \notin 1..made
    OBVIOUS
  <2> QED BY <1>a, <2>1, <2>2, <2>3, <2>4 DEF Owned
<1>7. CASE OnWndMessage(t)
  <2>1. /\ UNCHANGED <<message, made, kind, heap, posted, dropped>> /\ Queued' = Queued
        /\ current' = 0 /\ ~IsTask(current)
    BY <1>7 DEF OnWndMessage, taskVars, Queued
  <2>2. UNCHANGED pc
    BY <1>7, <1>b DEF OnWndMessage, EndProcess, Crashed
  <2>3. kind[current] # "Asyn" /\ 0 \notin 1..made
    BY <2>1 DEF IsTask
  <2> QED BY <1>a, <2>1, <2>2, <2>3 DEF Owned
<1>8. CASE DestroyWindow(t)
  <2>1. UNCHANGED <<message, made, kind, heap, current>>
    BY <1>8 DEF DestroyWindow, taskVars
  <2>2. \A u \in Threads : pc'[u] = "post" <=> pc[u] = "post"
    BY <1>8 DEF DestroyWindow, GoOn, WndTypeOK
  <2>3. kind[n] = "Asyn" => (n \in Queued' \cup dropped' <=> n \in Queued \cup dropped)
    <3>1. CASE posted' = <<>> /\ dropped' = dropped \cup Queued \cup sent
      BY <3>1 DEF Queued, WndTypeOK, SendFns
    <3>2. CASE UNCHANGED <<posted, dropped>>
      BY <3>2 DEF Queued
    <3> QED BY <1>8, <3>1, <3>2 DEF DestroyWindow
  <2> QED BY <1>a, <2>1, <2>2, <2>3 DEF Owned
<1> QED
  BY <1>1, <1>2, <1>3, <1>4, <1>5, <1>6, <1>7, <1>8, ElsewhereSteps DEF Begin, WndStep

-----------------------------------------------------------------------------
(* The invariant *)

WndInv ==
  /\ WndTypeOK /\ Onces /\ Answers
  /\ OnePlace /\ InProc /\ EveryTaskOwned

LEMMA InitInv == WndInit => WndInv
<1> SUFFICES ASSUME WndInit PROVE WndInv
  OBVIOUS
<1>1. Queued = {} /\ MaxTasks \in Nat
  BY WndAssumption DEF WndInit, Queued
<1>2. WndTypeOK
  <2>1. once_flag \in [owner : Threads \cup {NoThread}, flag_ : BOOLEAN]
    BY DEF once_flag
  <2>2. <<>> \in Seq(Message)
    OBVIOUS
  <2>3. kind \in [Message -> PostFns \cup SendFns \cup {"none"}]
    BY DEF WndInit
  <2>4. /\ \A once \in {init, uninit} :
              once \in [owner : Threads \cup {NoThread}, flag_ : BOOLEAN]
        /\ posted \in Seq(Message) /\ sent = {} /\ heap \cup dropped = {}
    BY <2>1, <2>2 DEF WndInit
  <2>5. /\ global_message_wnd = "null" /\ m_hWnd = FALSE /\ window = "none"
        /\ creator = NoThread /\ ret = TRUE /\ told = FALSE /\ uninited = FALSE
        /\ made = 0 /\ current = 0
    BY DEF WndInit
  <2>6. /\ pc \in [Threads -> {"idle", "create", "uninit", "delete", "clear", "post",
                               "send", "sending", "gone"}]
        /\ message \in [Threads -> 0..MaxTasks]
    BY <1>1 DEF WndInit
  <2>7. made \in 0..MaxTasks /\ current \in 0..MaxTasks
    BY <1>1, <2>5
  <2> QED BY <1>1, <2>3, <2>4, <2>5, <2>6, <2>7 DEF WndTypeOK
<1>3. Onces /\ Answers /\ OnePlace /\ InProc
  BY <1>1 DEF WndInit, once_flag, First, Done, Onces, Answers, OnePlace, InProc
<1>4. EveryTaskOwned
  BY <1>1 DEF WndInit, EveryTaskOwned
<1> QED BY <1>2, <1>3, <1>4 DEF WndInv

LEMMA NextInv == WndInv /\ [WndNext]_wndVars => WndInv'
<1> SUFFICES ASSUME WndInv, [WndNext]_wndVars PROVE WndInv'
  OBVIOUS
<1> USE DEF WndInv
<1>1. ASSUME NEW t \in Threads, Begin(t) \/ WndStep(t) PROVE WndInv'
  <2>1. Onces' /\ Answers' /\ EveryTaskOwned'
    BY <1>1, OncesStep, OwnedStep
  <2>2. WndTypeOK' /\ OnePlace' /\ InProc'
    BY <1>1, TypesElsewhere, TypesStep, ElsewhereSteps, ElsewhereKeeps, PlacesStep
    DEF Begin, WndStep
  <2> QED BY <2>1, <2>2
<1>2. CASE UNCHANGED wndVars
  <2>1. UNCHANGED <<global_message_wnd, m_hWnd, window, creator, ret, init, uninit, pc,
                    message, made, kind, heap, posted, sent, current, dropped, told,
                    uninited>>
    BY <1>2 DEF wndVars, objectVars, taskVars, queueVars, historyVars
  <2>2. Queued' = Queued
    BY <2>1 DEF Queued
  <2> QED BY <2>1, <2>2 DEF WndTypeOK, Onces, Answers, First, Done, OnePlace, InProc,
    EveryTaskOwned, Crashed
<1> QED BY <1>1, <1>2 DEF WndNext

\* Every variable keeps its type; the queue of the window holds messages of Asyn
\* and PostMessage, the calls that wait in it are of Syn and SendMessage, and
\* only an object that is there has a window. (message_wnd.h, message_wnd.cpp)
THEOREM WndTypes == WndSpec => []WndTypeOK
<1>1. WndInv => WndTypeOK
  BY DEF WndInv
<1> QED BY <1>1, InitInv, NextInv, PTL DEF WndSpec

\* An AsyncTask is on the heap exactly while somebody is going to run it, or
\* Windows dropped its message: it leaks in no other way, and is deleted once.
\* (asyn_task.h, AsyncTask::Post and ExecuteAsynTask)
THEOREM TasksOwned == WndSpec => []EveryTaskOwned
<1>1. WndInv => EveryTaskOwned
  BY DEF WndInv
<1> QED BY <1>1, InitInv, NextInv, PTL DEF WndSpec

\* Who is told TRUE by InitMessageWnd has a window until somebody uninits:
\* the answer is read behind the call_once of whoever made the window.
\* (message_wnd.cpp, InitMessageWnd)
THEOREM InitTruth == WndSpec => []InitTellsTheTruth
<1>1. WndInv => InitTellsTheTruth
  BY OnceFlag DEF WndInv, WndTypeOK, Onces, Answers, InitTellsTheTruth
<1> QED BY <1>1, InitInv, NextInv, PTL DEF WndSpec

\* Once an UninitMessageWnd that found the object has returned, the pointer is
\* null for ever. (message_wnd.cpp, UninitMessageWnd)
THEOREM UninitFinal == WndSpec => []UninitIsFinal
<1>1. WndInv => UninitIsFinal
  BY DEF WndInv, Answers, UninitIsFinal
<1> QED BY <1>1, InitInv, NextInv, PTL DEF WndSpec
-----------------------------------------------------------------------------
(* Who waits for whom *)

Waits ==
  /\ creator \in Threads => pc[creator] # "sending"
  /\ sent # {} => window = "alive"
  /\ window = "alive" => creator \in Threads
  /\ uninit.owner \in Threads => pc[uninit.owner] \in {"delete", "clear", "gone"}
  /\ (\E t \in Threads : pc[t] = "gone") => Crashed

LEMMA WaitsInit == WndInit => Waits
BY WndAssumption DEF WndInit, Waits, once_flag

LEMMA WaitsStep ==
  ASSUME WndTypeOK, Onces, InProc, Waits, [WndNext]_wndVars
  PROVE  Waits'
<1>1. ASSUME NEW t \in Threads, Begin(t) \/ WndStep(t) PROVE Waits'
  <2>1. CASE AlreadyInit(t) \/ NewMessageWnd(t) \/ CreateWnd(t)
    BY <2>1, WndAssumption DEF AlreadyInit, NewMessageWnd, CreateWnd, GoOn, Onces,
      Done, Idle, objectVars, queueVars, Waits, Crashed, WndTypeOK
  <2>2. CASE InitDeleted(t) \/ CallNull(t)
    BY <2>2 DEF InitDeleted, CallNull, EndProcess, objectVars, queueVars, Waits,
      Crashed, WndTypeOK
  <2>3. CASE BeginUninit(t) \/ AlreadyUninit(t) \/ Delete(t)
    BY <2>3 DEF BeginUninit, AlreadyUninit, Delete, GoOn, Idle, objectVars,
      queueVars, Waits, Crashed, WndTypeOK
  <2>4. CASE DestroyWindow(t) \/ Clear(t)
    BY <2>4, WndAssumption DEF DestroyWindow, Clear, GoOn, First, Enter, Leave,
      queueVars, Waits, Crashed, WndTypeOK
  <2>5. CASE \E f \in PostFns \cup SendFns : BeginCall(t, f)
    BY <2>5 DEF BeginCall, GoOn, Idle, objectVars, queueVars, Waits, Crashed,
      WndTypeOK
  <2>6. CASE \/ PostToWindow(t) \/ PostToNobody(t) \/ PostFails(t) \/ SendToOwn(t)
             \/ SendToNobody(t) \/ EndSend(t)
    BY <2>6 DEF PostToWindow, PostToNobody, PostFails, SendToOwn, SendToNobody,
      EndSend, Return, GoOn, objectVars, queueVars, Waits, Crashed, WndTypeOK
  <2>7. CASE Send(t)
    BY <2>7 DEF Send, GoOn, objectVars, Waits, Crashed, WndTypeOK
  <2>8. CASE Dispatch(t) \/ RunTask(t) \/ OnWndMessage(t)
    BY <2>8 DEF Dispatch, RunTask, OnWndMessage, EndProcess, objectVars, Waits,
      Crashed, WndTypeOK
  <2> QED BY <1>1, <2>1, <2>2, <2>3, <2>4, <2>5, <2>6, <2>7, <2>8 DEF Begin, WndStep
<1>2. CASE UNCHANGED wndVars
  BY <1>2 DEF wndVars, objectVars, queueVars, Waits, Crashed
<1> QED BY <1>1, <1>2 DEF WndNext

\* No thread waits in SendMessage for itself, nor for one that waits for it or for
\* somebody who does not move. (message_wnd.cpp, SendMessage and UninitMessageWnd)
THEOREM NobodyWaitsInACircle == WndSpec => []NoCircularWait
<1>1. WndInv /\ Waits => NoCircularWait
  <2> SUFFICES ASSUME WndInv, Waits, NEW t \in Threads, pc[t] = "sending",
                      message[t] \in sent \cup {current}
               PROVE  /\ creator \in Threads /\ pc[creator] # "sending"
                      /\ pc[creator] = "uninit" /\ uninit.owner # NoThread =>
                           pc[uninit.owner] \in {"delete", "clear"}
    BY DEF NoCircularWait
  <2>1. message[t] # 0
    BY DEF WndInv, OnePlace
  <2>2. creator \in Threads
    BY <2>1 DEF WndInv, InProc, Waits
  <2>3. uninit.owner # NoThread => uninit.owner \in Threads
    BY DEF WndInv, WndTypeOK
  <2>4. \A u \in Threads : pc[u] # "gone"
    BY DEF Waits, Crashed
  <2> QED BY <2>2, <2>3, <2>4 DEF Waits
<1> QED
  BY <1>1, InitInv, NextInv, WaitsInit, WaitsStep, PTL DEF WndSpec, WndInv

-----------------------------------------------------------------------------
(***************************************************************************)
(* ShareMemory, for any processes, names and kernel objects: two processes *)
(* that opened one name share its memory and exclude each other.  The      *)
(* argument: the kernel gives an object one name and keeps it while a      *)
(* handle is open, so the names still stand for what a successful Create   *)
(* or Open found; and who is in user_fn owns the mutex it has.             *)
(***************************************************************************)

\* The object of a name is open in some process, and no object has two names.
NamesOfOpenObjects ==
  /\ \A k \in AllNames : named[k] # None =>
       \E p \in Processes : named[k] \in {file_map_[p], mtx_[p]}
  /\ \A j, k \in AllNames : named[j] = named[k] /\ named[j] # None => j = k

\* How far a Create or Open has come, and what holds when it returned true.
Opening(p) ==
  /\ at[p] \in {"map", "mutex"} \/ opened[p] =>
       /\ name[p] \in Names
       /\ file_map_[p] # None
       /\ named[name[p]] = file_map_[p]
  /\ at[p] = "mutex" \/ opened[p] => share_mem_[p] = file_map_[p]
  /\ opened[p] =>
       /\ at[p] \in {"idle", "lock", "use", "use after death"}
       /\ mtx_[p] # None
       /\ named[MutexName[name[p]]] = mtx_[p]

UserOwns(p) == InUse(p) /\ mtx_[p] # None => owner[mtx_[p]] = p

ShareInv ==
  /\ TypeOK
  /\ NamesOfOpenObjects
  /\ \A p \in Processes : Opening(p)
  /\ \A p \in Processes : UserOwns(p)

-----------------------------------------------------------------------------

\* A name stays with an object that some process still has open.
LEMMA NamesKept ==
  ASSUME NEW fm, NEW mx, NEW n, NEW new, NEW k \in AllNames, NEW p \in Processes,
         named[k] \in {fm[p], mx[p]},
         k = n /\ new # None => new = named[k]
  PROVE  NamesAfter(fm, mx, n, new)[k] = named[k]
BY DEF NamesAfter

\* What the kernel does with its names keeps them with open objects, one for each.
LEMMA NamesAfterSound ==
  ASSUME NEW fm, NEW mx, NEW n, NEW new, NEW q \in Processes,
         TypeOK, NamesOfOpenObjects,
         fm \in [Processes -> Sections \cup {None}],
         mx \in [Processes -> Mutexes \cup {None}],
         new \in Sections \cup Mutexes \cup {None},
         new # None => /\ n \in AllNames
                       /\ new \in {fm[q], mx[q]}
                       /\ \/ named[n] = new
                          \/ named[n] = None /\ \A k \in AllNames : named[k] # new,
         named' = NamesAfter(fm, mx, n, new),
         file_map_' = fm, mtx_' = mx
  PROVE  /\ NamesOfOpenObjects'
         /\ named' \in [AllNames -> Sections \cup Mutexes \cup {None}]
<1>1. named' \in [AllNames -> Sections \cup Mutexes \cup {None}]
  BY ShareAssumption DEF NamesAfter, TypeOK
<1>2. \A k \in AllNames : named'[k] # None =>
        \/ k = n /\ new # None /\ named'[k] = new
        \/ named'[k] = named[k] /\ \E p \in Processes : named[k] \in {fm[p], mx[p]}
  BY DEF NamesAfter
<1>3. \A k \in AllNames : named'[k] # None =>
        \E p \in Processes : named'[k] \in {fm[p], mx[p]}
  BY <1>2
<1>4. ASSUME NEW j \in AllNames, NEW k \in AllNames,
             named'[j] = named'[k], named'[j] # None
      PROVE  j = k
  BY <1>2, <1>4 DEF NamesOfOpenObjects
<1> QED
  BY <1>1, <1>3, <1>4 DEF NamesOfOpenObjects

-----------------------------------------------------------------------------

LEMMA InitShare == Init => ShareInv
BY ShareAssumption
DEF Init, ShareInv, TypeOK, NamesOfOpenObjects, Opening, UserOwns, InUse

\* A step of q in the names leaves a process alone that keeps its members, place
\* and result.
LEMMA OthersKeep ==
  ASSUME ShareInv, NEW fm, NEW mx, NEW n, NEW new, NEW p \in Processes,
         fm[p] = file_map_[p], mx[p] = mtx_[p],
         new # None => named[n] \in {new, None},
         named' = NamesAfter(fm, mx, n, new),
         file_map_' = fm, mtx_' = mx,
         at'[p] = at[p], opened'[p] = opened[p], name'[p] = name[p],
         share_mem_'[p] = share_mem_[p]
  PROVE  Opening(p)'
<1>1. Opening(p)
  BY DEF ShareInv
<1>2. ASSUME NEW k \in AllNames, named[k] # None, named[k] \in {file_map_[p], mtx_[p]}
      PROVE  named'[k] = named[k]
  <2>1. named[k] \in {fm[p], mx[p]} /\ (k = n /\ new # None => new = named[k])
    BY <1>2
  <2> QED
    BY <2>1, NamesKept
<1>3. name[p] \in Names => name[p] \in AllNames /\ MutexName[name[p]] \in AllNames
  BY ShareAssumption
<1> QED
  BY <1>1, <1>2, <1>3 DEF Opening

\* What Made returns is what the name stands for, or new and without a name.
LEMMA MadeSections ==
  ASSUME ShareInv, NEW n \in Names, NEW s \in Made(n, Sections, NewSections)
  PROVE  /\ s \in Sections \cup {None}
         /\ s # None => \/ named[n] = s
                        \/ named[n] = None /\ \A k \in AllNames : named[k] # s
<1>1. TypeOK /\ NamesOfOpenObjects
  BY DEF ShareInv
<1>2. ASSUME s \in NewSections, NEW k \in AllNames PROVE named[k] # s
  BY <1>1, <1>2, ShareAssumption DEF NewSections, TypeOK, NamesOfOpenObjects
<1> QED
  BY <1>2 DEF Made, NewSections

LEMMA MadeMutexes ==
  ASSUME ShareInv, NEW n \in AllNames, NEW m \in Made(n, Mutexes, NewMutexes)
  PROVE  /\ m \in Mutexes \cup {None}
         /\ m # None => \/ named[n] = m
                        \/ named[n] = None /\ \A k \in AllNames : named[k] # m
<1>1. TypeOK /\ NamesOfOpenObjects
  BY DEF ShareInv
<1>2. ASSUME m \in NewMutexes, NEW k \in AllNames PROVE named[k] # m
  <2>1. \A p \in Processes : m \notin {file_map_[p], mtx_[p]}
    BY <1>1, <1>2, ShareAssumption DEF NewMutexes, StillOpen, TypeOK
  <2>2. m # None
    BY <1>2, ShareAssumption DEF NewMutexes
  <2> QED
    BY <1>1, <2>1, <2>2 DEF NamesOfOpenObjects
<1> QED
  BY <1>2 DEF Made, NewMutexes

-----------------------------------------------------------------------------
(* Every action keeps the invariant. *)

LEMMA AssignFileMapKeeps ==
  ASSUME ShareInv, NEW q \in Processes, NEW n \in Names, NEW s \in Made(n, Sections, NewSections),
         AssignFileMap(q, n, s)
  PROVE  ShareInv'
<1> DEFINE fm == [file_map_ EXCEPT ![q] = s]
<1>1. TypeOK /\ NamesOfOpenObjects /\ n \in AllNames
  BY ShareAssumption DEF ShareInv
<1>2. /\ s \in Sections \cup {None}
      /\ s # None => \/ named[n] = s
                     \/ named[n] = None /\ \A k \in AllNames : named[k] # s
  BY MadeSections
<1>3. /\ file_map_' = fm /\ mtx_' = mtx_
      /\ named' = NamesAfter(fm, mtx_, n, s)
      /\ at' = [at EXCEPT ![q] = IF s = None THEN "idle" ELSE "map"]
      /\ name' = [name EXCEPT ![q] = n] /\ opened' = [opened EXCEPT ![q] = FALSE]
      /\ at[q] = "idle"
      /\ UNCHANGED <<owner, abandoned, share_mem_>>
  BY DEF AssignFileMap, Goto
<1>4. /\ fm \in [Processes -> Sections \cup {None}]
      /\ mtx_ \in [Processes -> Mutexes \cup {None}]
      /\ s # None => s \in {fm[q], mtx_[q]}
      /\ s # None => named[n] \in {s, None}
      /\ \A p \in Processes : p # q => fm[p] = file_map_[p]
      /\ fm[q] = s
  BY <1>1, <1>2 DEF TypeOK
<1> HIDE DEF fm
<1>5. /\ NamesOfOpenObjects'
      /\ named' \in [AllNames -> Sections \cup Mutexes \cup {None}]
  BY <1>1, <1>2, <1>3, <1>4, NamesAfterSound
<1>6. TypeOK'
  BY <1>1, <1>3, <1>4, <1>5 DEF TypeOK
<1>7. ASSUME NEW p \in Processes PROVE Opening(p)'
  <2>1. CASE p = q
    <3>1. s # None => named'[n] = s
      BY <1>1, <1>3, <1>4 DEF NamesAfter
    <3> QED
      BY <1>1, <1>3, <1>4, <2>1, <3>1 DEF Opening, TypeOK
  <2>2. CASE p # q
    <3>1. /\ at'[p] = at[p] /\ opened'[p] = opened[p] /\ name'[p] = name[p]
          /\ share_mem_'[p] = share_mem_[p]
      BY <1>1, <1>3, <2>2 DEF TypeOK
    <3> QED
      BY <1>3, <1>4, <2>2, <3>1, OthersKeep
  <2> QED
    BY <2>1, <2>2
<1>8. ASSUME NEW p \in Processes PROVE UserOwns(p)'
  BY <1>1, <1>3 DEF ShareInv, UserOwns, InUse, TypeOK
<1> QED
  BY <1>5, <1>6, <1>7, <1>8 DEF ShareInv

LEMMA CreateMutexKeeps ==
  ASSUME ShareInv, NEW q \in Processes, CreateMutex(q)
  PROVE  ShareInv'
<1> DEFINE n == MutexName[name[q]]
           fm == file_map_
<1>1. TypeOK /\ NamesOfOpenObjects /\ Opening(q)
  BY DEF ShareInv
<1>2. at[q] = "mutex" /\ name[q] \in Names /\ n \in AllNames
  BY <1>1, ShareAssumption DEF CreateMutex, Opening
<1>3. PICK m \in Made(n, Mutexes, NewMutexes) :
        /\ mtx_' = [mtx_ EXCEPT ![q] = m]
        /\ named' = NamesAfter(file_map_, [mtx_ EXCEPT ![q] = m], n, m)
        /\ abandoned' \subseteq abandoned
        /\ opened' = [opened EXCEPT ![q] = (m # None)]
  BY DEF CreateMutex
<1> DEFINE mx == [mtx_ EXCEPT ![q] = m]
<1>10. /\ m \in Mutexes \cup {None}
       /\ m # None => \/ named[n] = m
                      \/ named[n] = None /\ \A k \in AllNames : named[k] # m
  BY <1>2, MadeMutexes
<1>4. /\ file_map_' = fm /\ mtx_' = mx
      /\ named' = NamesAfter(fm, mx, n, m)
      /\ abandoned' \subseteq abandoned
      /\ at' = [at EXCEPT ![q] = "idle"]
      /\ UNCHANGED <<owner, share_mem_, name>>
  BY <1>3 DEF CreateMutex, Goto
<1>11. /\ opened' \in [Processes -> BOOLEAN]
       /\ opened'[q] <=> m # None
       /\ \A p \in Processes : p # q => opened'[p] = opened[p]
  BY <1>1, <1>3 DEF TypeOK
<1>5. /\ mx \in [Processes -> Mutexes \cup {None}]
      /\ fm \in [Processes -> Sections \cup {None}]
      /\ \A p \in Processes : fm[p] = file_map_[p]
      /\ m \in Sections \cup Mutexes \cup {None}
      /\ m # None => m \in {fm[q], mx[q]}
      /\ m # None => named[n] \in {m, None}
      /\ \A p \in Processes : p # q => mx[p] = mtx_[p]
      /\ mx[q] = m
  BY <1>1, <1>10 DEF TypeOK
<1> HIDE DEF mx, n, fm
<1>6. /\ NamesOfOpenObjects'
      /\ named' \in [AllNames -> Sections \cup Mutexes \cup {None}]
  BY <1>1, <1>2, <1>4, <1>5, <1>10, NamesAfterSound
<1>7. TypeOK'
  BY <1>1, <1>4, <1>5, <1>6, <1>11 DEF TypeOK
<1>8. ASSUME NEW p \in Processes PROVE Opening(p)'
  <2>1. CASE p = q
    <3>1. m # None => named'[n] = m
      BY <1>2, <1>4, <1>5 DEF NamesAfter
    <3>2. /\ file_map_[q] # None /\ named[name[q]] = file_map_[q]
          /\ share_mem_[q] = file_map_[q]
      BY <1>1, <1>2 DEF Opening
    <3>3. m # None => named'[name[q]] = file_map_[q]
      <4>1. m # None => m # file_map_[q]
        BY <1>1, <1>10, ShareAssumption DEF TypeOK
      <4>2. name[q] \in AllNames
        BY <1>2, ShareAssumption
      <4>3. m # None => (name[q] = n => named[name[q]] = m)
        BY <1>5, <3>2
      <4> QED
        BY <1>4, <1>5, <3>2, <4>1, <4>2, <4>3, NamesKept
    <3> QED
      BY <1>1, <1>2, <1>4, <1>5, <1>11, <2>1, <3>1, <3>2, <3>3 DEF Opening, TypeOK, n
  <2>2. CASE p # q
    <3>1. /\ at'[p] = at[p] /\ opened'[p] = opened[p] /\ name'[p] = name[p]
          /\ share_mem_'[p] = share_mem_[p]
      BY <1>1, <1>4, <1>11, <2>2 DEF TypeOK
    <3> QED
      BY <1>4, <1>5, <2>2, <3>1, OthersKeep
  <2> QED
    BY <2>1, <2>2
<1>9. ASSUME NEW p \in Processes PROVE UserOwns(p)'
  <2>1. CASE p = q
    BY <1>1, <1>4, <2>1 DEF UserOwns, InUse, TypeOK
  <2>2. CASE p # q
    BY <1>1, <1>4, <1>5, <2>2 DEF ShareInv, UserOwns, InUse, TypeOK
  <2> QED
    BY <2>1, <2>2
<1> QED
  BY <1>6, <1>7, <1>8, <1>9 DEF ShareInv

\* The handles of q are closed: by its destructor or by its death.
LEMMA ClosingKeeps ==
  ASSUME ShareInv, NEW q \in Processes, NEW fm, NEW mx,
         file_map_' = fm, mtx_' = mx,
         fm \in {file_map_, [file_map_ EXCEPT ![q] = None]},
         mx \in {mtx_, [mtx_ EXCEPT ![q] = None]},
         named' = NamesAfter(fm, mx, None, None),
         \/ share_mem_' = share_mem_
         \/ share_mem_' = [share_mem_ EXCEPT ![q] = None],
         NEW label \in {"idle", "closemutex", "closemap", "dead"},
         at' = [at EXCEPT ![q] = label],
         opened' = [opened EXCEPT ![q] = FALSE],
         \A m \in Mutexes : owner[m] # q => owner'[m] = owner[m],
         owner' \in [Mutexes -> Processes \cup {None}],
         abandoned' \subseteq Mutexes, name' = name
  PROVE  ShareInv'
<1>1. TypeOK /\ NamesOfOpenObjects
  BY DEF ShareInv
<1>2. /\ fm \in [Processes -> Sections \cup {None}]
      /\ mx \in [Processes -> Mutexes \cup {None}]
      /\ \A p \in Processes : p # q => fm[p] = file_map_[p] /\ mx[p] = mtx_[p]
  BY <1>1 DEF TypeOK
<1>3. /\ NamesOfOpenObjects'
      /\ named' \in [AllNames -> Sections \cup Mutexes \cup {None}]
  BY <1>1, <1>2, NamesAfterSound
<1>4. TypeOK'
  BY <1>1, <1>2, <1>3 DEF TypeOK
<1>5. ASSUME NEW p \in Processes PROVE Opening(p)' /\ UserOwns(p)'
  <2>1. CASE p = q
    BY <1>1, <2>1 DEF Opening, UserOwns, InUse, TypeOK
  <2>2. CASE p # q
    <3>1. /\ opened'[p] = opened[p] /\ share_mem_'[p] = share_mem_[p]
          /\ at'[p] = at[p]
      BY <1>1, <2>2 DEF TypeOK
    <3>2. Opening(p)'
      BY <1>2, <2>2, <3>1, OthersKeep
    <3>3. UserOwns(p)'
      <4>1. UserOwns(p) /\ mtx_'[p] = mtx_[p]
        BY <1>2, <2>2 DEF ShareInv
      <4>2. mtx_[p] # None => mtx_[p] \in Mutexes
        BY <1>1 DEF TypeOK
      <4> QED
        BY <2>2, <3>1, <4>1, <4>2 DEF UserOwns, InUse
    <3> QED
      BY <3>2, <3>3
  <2> QED
    BY <2>1, <2>2
<1> QED
  BY <1>3, <1>4, <1>5 DEF ShareInv

\* The actions that leave the names and the handles alone.
LEMMA UsingKeeps ==
  ASSUME ShareInv, NEW q \in Processes,
         \/ MapViewOfFile(q) \/ BeginUse(q) \/ LockNothing(q) \/ Lock(q) \/ EndUse(q)
         \/ UnmapViewOfFile(q) \/ Restart(q)
  PROVE  ShareInv'
<1>1. TypeOK /\ NamesOfOpenObjects
  BY DEF ShareInv
<1>2. UNCHANGED <<named, file_map_, mtx_, name>>
  BY DEF MapViewOfFile, BeginUse, LockNothing, Lock, EndUse, UnmapViewOfFile, Restart,
         kernel, members
<1>3. NamesOfOpenObjects'
  BY <1>1, <1>2 DEF NamesOfOpenObjects
<1>4. TypeOK'
  <2>1. CASE MapViewOfFile(q)
    BY <1>1, <1>2, <2>1 DEF MapViewOfFile, kernel, Goto, TypeOK
  <2>2. CASE BeginUse(q) \/ LockNothing(q) \/ Restart(q)
    BY <1>1, <1>2, <2>2 DEF BeginUse, LockNothing, Restart, kernel, members, Goto,
      TypeOK
  <2>3. CASE Lock(q)
    BY <1>1, <1>2, <2>3 DEF Lock, members, Goto, TypeOK
  <2>4. CASE EndUse(q)
    BY <1>1, <1>2, <2>4 DEF EndUse, members, Goto, TypeOK
  <2>5. CASE UnmapViewOfFile(q)
    BY <1>1, <1>2, <2>5 DEF UnmapViewOfFile, kernel, Goto, TypeOK
  <2> QED
    BY <2>1, <2>2, <2>3, <2>4, <2>5
<1>6. ASSUME NEW p \in Processes PROVE Opening(p)'
  <2>1. Opening(p)
    BY DEF ShareInv
  <2>2. CASE p # q
    <3>1. /\ at'[p] = at[p] /\ opened'[p] = opened[p]
          /\ share_mem_'[p] = share_mem_[p]
      BY <1>1, <2>2
      DEF MapViewOfFile, BeginUse, LockNothing, Lock, EndUse, UnmapViewOfFile,
        Restart, kernel, members, Goto, TypeOK
    <3> QED
      BY <1>2, <2>1, <3>1 DEF Opening
  <2>3. CASE p = q /\ MapViewOfFile(q)
    BY <1>1, <1>2, <2>1, <2>3 DEF MapViewOfFile, Goto, TypeOK, Opening
  <2>4. CASE p = q /\ (BeginUse(q) \/ LockNothing(q) \/ Lock(q) \/ EndUse(q))
    BY <1>1, <1>2, <2>1, <2>4
    DEF BeginUse, LockNothing, Lock, EndUse, InUse, members, Goto, TypeOK, Opening
  <2>5. CASE p = q /\ (UnmapViewOfFile(q) \/ Restart(q))
    BY <1>1, <1>2, <2>1, <2>5 DEF UnmapViewOfFile, Restart, members, Goto, TypeOK,
      Opening
  <2> QED
    BY <2>2, <2>3, <2>4, <2>5
<1>5. ASSUME NEW p \in Processes PROVE UserOwns(p)'
  <2>1. UserOwns(p) /\ UserOwns(q)
    BY DEF ShareInv
  <2>2. CASE Lock(q)
    BY <1>1, <1>2, <2>1, <2>2, ShareAssumption DEF Lock, Goto, TypeOK, UserOwns, InUse
  <2>3. CASE EndUse(q)
    BY <1>1, <1>2, <2>1, <2>3 DEF EndUse, Goto, TypeOK, UserOwns, InUse
  <2>4. CASE ~Lock(q) /\ ~EndUse(q)
    BY <1>1, <1>2, <2>1, <2>4
    DEF MapViewOfFile, BeginUse, LockNothing, UnmapViewOfFile, Restart, kernel,
      members, Goto, TypeOK, UserOwns, InUse
  <2> QED
    BY <2>2, <2>3, <2>4
<1> QED
  BY <1>3, <1>4, <1>5, <1>6 DEF ShareInv

LEMMA EndingKeeps ==
  ASSUME ShareInv, NEW q \in Processes, CloseMutex(q) \/ CloseFileMap(q) \/ Crash(q)
  PROVE  ShareInv'
<1>1. TypeOK /\ Opening(q)
  BY DEF ShareInv
<1>2. CASE CloseMutex(q)
  <2>1. opened' = [opened EXCEPT ![q] = FALSE]
    BY <1>1, <1>2 DEF CloseMutex, Opening, TypeOK
  <2> QED
    BY <1>1, <1>2, <2>1, ClosingKeeps DEF CloseMutex, Goto, TypeOK
<1>3. CASE CloseFileMap(q)
  <2>1. opened' = [opened EXCEPT ![q] = FALSE]
    BY <1>1, <1>3 DEF CloseFileMap, Opening, TypeOK
  <2> QED
    BY <1>1, <1>3, <2>1, ClosingKeeps DEF CloseFileMap, Goto, TypeOK
<1>4. CASE Crash(q)
  <2>1. /\ owner' \in [Mutexes -> Processes \cup {None}]
        /\ \A m \in Mutexes : owner[m] # q => owner'[m] = owner[m]
        /\ abandoned' \subseteq Mutexes
    BY <1>1, <1>4 DEF Crash, TypeOK
  <2> QED
    BY <1>4, <2>1, ClosingKeeps DEF Crash, Goto
<1> QED
  BY <1>2, <1>3, <1>4

-----------------------------------------------------------------------------

\* ShareInv is an invariant of the specification.
LEMMA StepKeepsShare == ShareInv /\ [Next]_vars => ShareInv'
<1> SUFFICES ASSUME ShareInv, [Next]_vars PROVE ShareInv'
  OBVIOUS
<1>1. CASE UNCHANGED vars
  BY <1>1 DEF vars, kernel, members, ShareInv, TypeOK, NamesOfOpenObjects, Opening,
              UserOwns, InUse
<1>2. ASSUME NEW p \in Processes, Step(p) \/ Call(p) \/ Crash(p) \/ Restart(p)
      PROVE  ShareInv'
  <2>1. CASE \E n \in Names : Create(p, n) \/ Open(p, n)
    <3>1. \E n \in Names, s \in {None} \cup Sections : 
             s \in Made(n, Sections, NewSections) /\ AssignFileMap(p, n, s)
      BY <2>1 DEF Create, Open, Made, NewSections
    <3> QED
      BY <3>1, AssignFileMapKeeps
  <2>2. CASE CreateMutex(p)
    BY <2>2, CreateMutexKeeps
  <2>3. CASE \/ MapViewOfFile(p) \/ BeginUse(p) \/ LockNothing(p) \/ Lock(p) \/ EndUse(p)
             \/ UnmapViewOfFile(p) \/ Restart(p)
    BY <2>3, UsingKeeps
  <2>4. CASE CloseMutex(p) \/ CloseFileMap(p) \/ Crash(p)
    BY <2>4, EndingKeeps
  <2> QED
    BY <1>2, <2>1, <2>2, <2>3, <2>4 DEF Step, Call
<1> QED
  BY <1>1, <1>2 DEF Next

\* Type correctness of the objects and of the kernel's names and mutexes.
\* (share_memory.h, named_mutex.h)
THEOREM ShareTypeCorrect == Spec => []TypeOK
<1>1. ShareInv => TypeOK
  BY DEF ShareInv
<1> QED
  BY <1>1, InitShare, StepKeepsShare, PTL DEF Spec

\* Two processes whose Create or Open of one name returned true see the same memory
\* and exclude each other in user_fn, for any number of processes, whoever dies,
\* fails or destroys his object. (MapFileAndCreateMutex, Use)
THEOREM OpenedIsSharedAndExclusive == Spec => []SharedAndExclusive
<1>1. ShareInv => SharedAndExclusive
  <2> SUFFICES ASSUME ShareInv, NEW p \in Processes, NEW q \in Processes,
                      p # q, opened[p], opened[q]
               PROVE  /\ name[p] = name[q] => share_mem_[p] = share_mem_[q]
                      /\ share_mem_[p] = share_mem_[q] => ~(InUse(p) /\ InUse(q))
    BY DEF SharedAndExclusive
  <2>1. Opening(p) /\ Opening(q) /\ UserOwns(p) /\ UserOwns(q) /\ NamesOfOpenObjects
    BY DEF ShareInv
  <2>2. name[p] = name[q] => share_mem_[p] = share_mem_[q] /\ mtx_[p] = mtx_[q]
    BY <2>1 DEF Opening
  <2>3. share_mem_[p] = share_mem_[q] => name[p] = name[q]
    <3>1. name[p] \in AllNames /\ name[q] \in AllNames
      BY <2>1, ShareAssumption DEF Opening
    <3>2. /\ share_mem_[p] = named[name[p]] /\ share_mem_[q] = named[name[q]]
          /\ named[name[p]] # None
      BY <2>1 DEF Opening
    <3> QED
      BY <2>1, <3>1, <3>2 DEF NamesOfOpenObjects
  <2> QED
    BY <2>1, <2>2, <2>3 DEF UserOwns, Opening
<1> QED
  BY <1>1, InitShare, StepKeepsShare, PTL DEF Spec

=============================================================================
