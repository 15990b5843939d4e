------------------------------ MODULE MessageWnd ------------------------------
(***************************************************************************)
(* The global message window (message_wnd.h, message_wnd.cpp) with the     *)
(* call_once of mutex.h that makes and deletes it and the AsyncTask of     *)
(* asyn_task.h that it runs.                                               *)
(*                                                                         *)
(* Every thread may call every function, and runs a message loop between   *)
(* its calls.  Of Windows: a window belongs to the thread that made it,    *)
(* and only that thread can destroy it; its posted messages go with it,    *)
(* and calls of SendMessage to it return.  A message posted to no window   *)
(* goes to the caller's own queue, which has no use for it; one sent to no *)
(* window is not sent.  A call that finds the object deleted under it may  *)
(* do any of these or, through a null pointer, end the process.            *)
(***************************************************************************)
EXTENDS Naturals, Sequences

CONSTANTS
  Threads, NoThread,
  MaxTasks      \* bound: how many messages are made

Message == 1..MaxTasks
PostFns == {"Asyn", "PostMessage"}
SendFns == {"Syn", "SendMessage"}

ASSUME WndAssumption == NoThread \notin Threads /\ MaxTasks \in Nat

VARIABLES
  global_message_wnd,   \* "null", or to an "object" or a "deleted" one
  m_hWnd,               \* whether the object has a window
  window, creator,      \* the window itself, and its thread
  ret,                  \* of InitMessageWnd
  init, uninit,         \* the two once_flags: the owner of mtx_, and flag_
  pc, message,          \* where each thread is, and with which message
  made, kind,           \* the function each message comes from
  posted, sent,         \* the messages of the window
  current,              \* the message MessageWndProc is in, 0 for none
  heap,                 \* the AsyncTasks that are allocated
  told,                 \* history: whether an InitMessageWnd returned TRUE
  uninited,             \* history: whether an UninitMessageWnd returned that had
                        \* found the object
  dropped               \* history: the messages that no window got, or that went
                        \* with the window

objectVars == <<global_message_wnd, m_hWnd, window, creator, ret, init, uninit>>
taskVars == <<message, made, kind, heap>>
queueVars == <<posted, sent, current, dropped>>
historyVars == <<told, uninited>>
wndVars == <<objectVars, pc, taskVars, queueVars, historyVars>>

once_flag == [owner |-> NoThread, flag_ |-> FALSE]

WndInit ==
  /\ global_message_wnd = "null" /\ m_hWnd = FALSE
  /\ window = "none" /\ creator = NoThread /\ ret = TRUE
  /\ init = once_flag /\ uninit = once_flag
  /\ pc = [t \in Threads |-> "idle"]
  /\ message = [t \in Threads |-> 0]
  /\ made = 0 /\ kind = [n \in Message |-> "none"] /\ heap = {}
  /\ posted = <<>> /\ sent = {} /\ current = 0 /\ dropped = {}
  /\ told = FALSE /\ uninited = FALSE

GoOn(t, label) == pc' = [pc EXCEPT ![t] = label]

\* The process ends with all its threads.
EndProcess == pc' = [t \in Threads |-> "gone"]
Crashed == \A t \in Threads : pc[t] = "gone"

\* A thread calls a function when it is in none, and in no message.
Idle(t) == pc[t] = "idle" /\ (t = creator => current = 0)

-----------------------------------------------------------------------------
(* call_once *)

\* Mutant: flag_ is asked for without the lock first, and set first.
DoneUnlocked(once) == once.owner # NoThread \/ once.flag_

Done(once) == once.owner = NoThread /\ once.flag_

\* Mutant: flag_ is not looked at.
FirstAlways(once) == once.owner = NoThread

First(once) == once.owner = NoThread /\ ~once.flag_

\* The callable runs inside the lock; flag_ is set when it is over.
Enter(once, t) == [once EXCEPT !.owner = t]

\* Mutant: the lock is not released.
LeaveLocked(once) == [once EXCEPT !.flag_ = TRUE]

Leave(once) == [owner |-> NoThread, flag_ |-> TRUE]

-----------------------------------------------------------------------------
(* InitMessageWnd *)

AlreadyInit(t) ==
  /\ Idle(t) /\ Done(init)
  /\ told' = (told \/ ret)
  /\ UNCHANGED <<objectVars, pc, taskVars, queueVars, uninited>>

NewMessageWnd(t) ==
  /\ Idle(t) /\ First(init)
  /\ init' = Enter(init, t)
  /\ global_message_wnd' = "object"
  /\ m_hWnd' = FALSE
  /\ GoOn(t, "create")
  /\ UNCHANGED <<window, creator, ret, uninit, taskVars, queueVars, historyVars>>

\* The object may be deleted by then, or the pointer null.
InitDeleted(t) ==
  /\ pc[t] = "create" /\ global_message_wnd # "object"
  /\ EndProcess
  /\ UNCHANGED <<objectVars, taskVars, queueVars, historyVars>>

\* The class, the window and its pointer to the object, which may all fail.
CreateWnd(t) ==
  /\ pc[t] = "create"
  /\ \/ /\ window' = "alive" /\ creator' = t
        /\ m_hWnd' = (global_message_wnd = "object")
        /\ ret' = TRUE
     \/ /\ ret' = FALSE
        /\ UNCHANGED <<window, creator, m_hWnd>>
  /\ init' = Leave(init)
  /\ told' = (told \/ ret')
  /\ GoOn(t, "idle")
  /\ UNCHANGED <<global_message_wnd, uninit, taskVars, queueVars, uninited>>

-----------------------------------------------------------------------------
(* UninitMessageWnd *)

BeginUninit(t) ==
  /\ Idle(t)
  /\ global_message_wnd # "null"
  /\ GoOn(t, "uninit")
  /\ UNCHANGED <<objectVars, taskVars, queueVars, historyVars>>

AlreadyUninit(t) ==
  /\ pc[t] = "uninit" /\ Done(uninit)
  /\ uninited' = TRUE
  /\ GoOn(t, "idle")
  /\ UNCHANGED <<objectVars, taskVars, queueVars, told>>

Queued == {posted[i] : i \in DOMAIN posted}

\* ~MessageWnd
DestroyWindow(t) ==
  /\ pc[t] = "uninit" /\ First(uninit)
  /\ uninit' = Enter(uninit, t)
  /\ \/ /\ m_hWnd /\ creator = t
        /\ window' = "destroyed"
        /\ posted' = <<>> /\ sent' = {}
        /\ dropped' = dropped \cup Queued \cup sent
     \/ /\ ~(m_hWnd /\ creator = t)
        /\ UNCHANGED <<window, posted, sent, dropped>>
  /\ GoOn(t, "delete")
  /\ UNCHANGED <<global_message_wnd, m_hWnd, creator, ret, init, taskVars, current,
                 historyVars>>

Delete(t) ==
  /\ pc[t] = "delete"
  /\ m_hWnd' = FALSE
  /\ global_message_wnd' = "deleted"
  /\ GoOn(t, "clear")
  /\ UNCHANGED <<window, creator, ret, init, uninit, taskVars, queueVars, historyVars>>

Clear(t) ==
  /\ pc[t] = "clear"
  /\ global_message_wnd' = "null"
  /\ uninit' = Leave(uninit)
  /\ uninited' = TRUE
  /\ GoOn(t, "idle")
  /\ UNCHANGED <<m_hWnd, window, creator, ret, init, taskVars, queueVars, told>>

-----------------------------------------------------------------------------
(* Asyn, PostMessage, Syn and SendMessage *)

Posts(f) == f \in PostFns

\* The pointer is read here and again when it is used.
BeginCall(t, f) ==
  /\ Idle(t) /\ made < MaxTasks
  /\ global_message_wnd # "null"
  /\ made' = made + 1
  /\ message' = [message EXCEPT ![t] = made + 1]
  /\ kind' = [kind EXCEPT ![made + 1] = f]
  /\ heap' = IF f = "Asyn" THEN heap \cup {made + 1} ELSE heap
  /\ GoOn(t, IF Posts(f) THEN "post" ELSE "send")
  /\ UNCHANGED <<objectVars, queueVars, historyVars>>

CallNull(t) ==
  /\ pc[t] \in {"post", "send"} /\ global_message_wnd = "null"
  /\ EndProcess
  /\ UNCHANGED <<objectVars, taskVars, queueVars, historyVars>>

\* What m_hWnd may be read as: of a deleted object, anything.
MayReadWindow == m_hWnd \/ global_message_wnd # "object"
MayReadNull == ~m_hWnd

\* Mutant: AsyncTask::Post keeps the task it could not post.
DeletesNot(n) == heap

Deletes(n) == heap \ {n}

Return(t) ==
  /\ GoOn(t, "idle")
  /\ message' = [message EXCEPT ![t] = 0]
  /\ UNCHANGED <<objectVars, made, kind, historyVars>>

PostToWindow(t) ==
  /\ pc[t] = "post" /\ MayReadWindow /\ window = "alive"
  /\ posted' = Append(posted, message[t])
  /\ Return(t)
  /\ UNCHANGED <<heap, sent, current, dropped>>

PostToNobody(t) ==
  /\ pc[t] = "post" /\ MayReadNull
  /\ dropped' = dropped \cup {message[t]}
  /\ Return(t)
  /\ UNCHANGED <<heap, posted, sent, current>>

\* The window is gone, or it is there and the queue is full.  (A build with
\* assertions ends the process here, at asyn_task.h:26.)
PostFails(t) ==
  /\ pc[t] = "post" /\ MayReadWindow
  /\ heap' = Deletes(message[t])
  /\ Return(t)
  /\ UNCHANGED queueVars

\* A message to a window of the caller's own is handled at once.
SendToOwn(t) ==
  /\ pc[t] = "send" /\ MayReadWindow /\ window = "alive" /\ creator = t
  /\ current' = message[t]
  /\ Return(t)
  /\ UNCHANGED <<heap, posted, sent, dropped>>

Send(t) ==
  /\ pc[t] = "send" /\ MayReadWindow /\ window = "alive" /\ creator # t
  /\ sent' = sent \cup {message[t]}
  /\ GoOn(t, "sending")
  /\ UNCHANGED <<objectVars, taskVars, posted, current, dropped, historyVars>>

SendToNobody(t) ==
  /\ pc[t] = "send" /\ (MayReadNull \/ window # "alive")
  /\ dropped' = dropped \cup {message[t]}
  /\ Return(t)
  /\ UNCHANGED <<heap, posted, sent, current>>

EndSend(t) ==
  /\ pc[t] = "sending" /\ message[t] \notin sent \cup {current}
  /\ Return(t)
  /\ UNCHANGED <<heap, queueVars>>

-----------------------------------------------------------------------------
(* The message loop of the window's thread, and MessageWndProc in it *)

Dispatch(t) ==
  /\ t = creator /\ Idle(t)
  /\ \/ /\ posted # <<>>
        /\ current' = Head(posted) /\ posted' = Tail(posted) /\ UNCHANGED sent
     \/ \E n \in sent :
          current' = n /\ sent' = sent \ {n} /\ UNCHANGED posted
  /\ UNCHANGED <<objectVars, pc, taskVars, dropped, historyVars>>

IsTask(n) == kind[n] \in {"Asyn", "Syn"}

\* A task runs, and an AsyncTask is deleted; another message goes to the
\* observers of the object the window points to.
RunTask(t) ==
  /\ t = creator /\ pc[t] = "idle" /\ current # 0 /\ IsTask(current)
  /\ heap' = heap \ {current}
  /\ current' = 0
  /\ UNCHANGED <<objectVars, pc, message, made, kind, posted, sent, dropped, historyVars>>

OnWndMessage(t) ==
  /\ t = creator /\ pc[t] = "idle" /\ current # 0 /\ ~IsTask(current)
  /\ current' = 0
  /\ UNCHANGED pc \/ (global_message_wnd # "object" /\ EndProcess)
  /\ UNCHANGED <<objectVars, taskVars, posted, sent, dropped, historyVars>>

-----------------------------------------------------------------------------

\* Every step of a call after its first, and of the loop.
WndStep(t) ==
  \/ CreateWnd(t) \/ InitDeleted(t)
  \/ AlreadyUninit(t) \/ DestroyWindow(t) \/ Delete(t) \/ Clear(t)
  \/ CallNull(t) \/ PostToWindow(t) \/ PostToNobody(t) \/ PostFails(t)
  \/ SendToOwn(t) \/ Send(t) \/ SendToNobody(t) \/ EndSend(t)
  \/ Dispatch(t) \/ RunTask(t) \/ OnWndMessage(t)

Begin(t) ==
  \/ AlreadyInit(t) \/ NewMessageWnd(t) \/ BeginUninit(t)
  \/ \E f \in PostFns \cup SendFns : BeginCall(t, f)

WndNext == \E t \in Threads : Begin(t) \/ WndStep(t)

WndSpec == WndInit /\ [][WndNext]_wndVars

\* The scheduler runs every thread, and the window's thread comes back to its
\* message loop; nobody has to call anything.
WndFairness == \A t \in Threads : WF_wndVars(WndStep(t))

WndFairSpec == WndSpec /\ WndFairness

-----------------------------------------------------------------------------

WndTypeOK ==
  /\ global_message_wnd \in {"null", "object", "deleted"}
  /\ m_hWnd \in BOOLEAN /\ (m_hWnd => global_message_wnd = "object")
  /\ window \in {"none", "alive", "destroyed"}
  /\ creator \in Threads \cup {NoThread}
  /\ ret \in BOOLEAN
  /\ \A once \in {init, uninit} :
       once \in [owner : Threads \cup {NoThread}, flag_ : BOOLEAN]
  /\ pc \in [Threads -> {"idle", "create", "uninit", "delete", "clear", "post",
                         "send", "sending", "gone"}]
  /\ message \in [Threads -> 0..MaxTasks]
  /\ made \in 0..MaxTasks
  /\ kind \in [Message -> PostFns \cup SendFns \cup {"none"}]
  /\ posted \in Seq(Message) /\ sent \subseteq Message
  /\ \A n \in Queued : kind[n] \in PostFns
  /\ \A n \in sent : kind[n] \in SendFns
  /\ current \in 0..MaxTasks
  /\ heap \cup dropped \subseteq Message
  /\ told \in BOOLEAN /\ uninited \in BOOLEAN

\* The AsyncTask of an Asyn is on the heap exactly while its caller is posting
\* it, its message is in the queue of the window or in MessageWndProc, or was
\* dropped by Windows (posted to no window, or lost with the queue of a window
\* that was destroyed), which are the only ones that leak: a post that fails
\* deletes its task, a task that ran is deleted once.  (AsyncTask::Post,
\* ExecuteAsynTask)
EveryTaskOwned ==
  ~Crashed =>
  heap = {n \in 1..made :
            /\ kind[n] = "Asyn"
            /\ \/ \E t \in Threads : pc[t] = "post" /\ message[t] = n
               \/ n \in Queued \cup dropped \/ n = current}

\* Who is told TRUE by InitMessageWnd, by its own call or by having waited for
\* the call of another thread, has a window until somebody uninits.
\* (InitMessageWnd reads ret behind call_once)
InitTellsTheTruth ==
  told /\ uninit = once_flag => m_hWnd /\ window = "alive"

\* When an UninitMessageWnd that found the object has returned, the pointer is
\* null, for whoever waited for another thread's Uninit too, and stays so: no
\* Init makes a second object.  (UninitMessageWnd)
UninitIsFinal == uninited => global_message_wnd = "null"

\* What SynReturns rests on: a caller that waits in SendMessage, and may not return
\* yet, waits for the thread of the window, which does not wait in a SendMessage
\* itself, and in the call_once of UninitMessageWnd only for a thread that deletes
\* the object and waits for nobody.  (message_wnd.cpp, call_once)
NoCircularWait ==
  \A t \in Threads :
    pc[t] = "sending" /\ message[t] \in sent \cup {current} =>
      /\ creator \in Threads /\ pc[creator] # "sending"
      /\ pc[creator] = "uninit" /\ uninit.owner # NoThread =>
           pc[uninit.owner] \in {"delete", "clear"}

\* Syn and SendMessage return, whoever uninits meanwhile: a creator that waits
\* for a call_once is let go, and a window that is destroyed sends its callers
\* home.  (UninitMessageWnd, call_once)
SynReturns ==
  \A t \in Threads : pc[t] = "sending" ~> pc[t] = "idle" \/ Crashed
=============================================================================
