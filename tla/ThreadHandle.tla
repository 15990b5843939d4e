----------------------------- MODULE ThreadHandle -----------------------------
(***************************************************************************)
(* class thread (thread.h, thread.cpp): objects that own the handle of a   *)
(* Windows thread.  A thread of Callers uses the objects; the operations   *)
(* are one step each, but for join and join_for, which sleep, and which    *)
(* two callers may make of one object at once, as two callers of           *)
(* ThreadPool::Wait do.  Handle values and thread ids come from the        *)
(* kernel, which gives them out again.                                     *)
(*                                                                         *)
(* What the workers do is for the modules that compose this one; here they *)
(* begin and end, or are terminated in the middle of anything.             *)
(***************************************************************************)
EXTENDS FiniteSets

CONSTANTS
  Callers,      \* threads that use thread objects
  Joiners,      \* of these, the ones that only join
  Objects,      \* thread objects
  Workers,      \* the threads that can be made
  Handles, Ids, \* the numbers the kernel gives out
  None          \* nullptr, and no thread

ASSUME HandleAssumption ==
  /\ Joiners \subseteq Callers
  /\ None \notin Workers \cup Handles \cup Ids \cup Objects

VARIABLES
  native_handle_, thread_id_,  \* of each object
  table,        \* the thread each handle value refers to
  life,         \* of each worker
  id,           \* of each worker, kept after its end
  call,         \* the object each caller joins, and how far it is
  meant,        \* history: the worker that was last put into each object, until
                \* it is moved away, joined, detached or destroyed
  joined,       \* history: the workers whose objects were joined
  overlapped,   \* history: two callers joined one object at once
  lost          \* history: the handles that a move assignment overwrote

handleVars ==
  <<native_handle_, thread_id_, table, life, id, call, meant, joined, overlapped,
    lost>>

NoCall == [object |-> None, at |-> "idle", thread |-> None]

HandleInit ==
  /\ native_handle_ = [o \in Objects |-> None]
  /\ thread_id_ = [o \in Objects |-> None]
  /\ table = [h \in Handles |-> None]
  /\ life = [w \in Workers |-> "unborn"]
  /\ id = [w \in Workers |-> None]
  /\ call = [c \in Callers |-> NoCall]
  /\ meant = [o \in Objects |-> None]
  /\ joined = {}
  /\ overlapped = FALSE
  /\ lost = {}

joinable(o) == native_handle_[o] # None

-----------------------------------------------------------------------------
(* The kernel *)

\* A thread is known to the kernel until it has ended and its handles are closed.
Known(w) == life[w] = "running" \/ \E h \in Handles : table[h] = w

FreeIds == Ids \ {id[w] : w \in {v \in Workers : Known(v)}}

FreeHandles == {h \in Handles : table[h] = None}

\* The kernel gives out any number that is free.  (TLC takes the least, so that
\* one that is free again is given out again: the hard case.)
AnyOf(numbers) == CHOOSE n \in numbers : TRUE

\* The table after CloseHandle(h): a value that is not open makes it fail.
Closed(h) == IF h = None THEN table ELSE [table EXCEPT ![h] = None]

\* The lives after TerminateThread(h), which fails likewise.
Terminated(h) ==
  [w \in Workers |->
     IF h # None /\ table[h] = w /\ life[w] = "running" THEN "killed" ELSE life[w]]

\* WaitForSingleObject returns: the thread has ended, or the handle is not open.
Signalled(w) == w \notin {v \in Workers : life[v] = "running"}

-----------------------------------------------------------------------------
(* The operations of one step.  Whoever destroys, detaches or moves an object *)
(* does so while nobody joins it.                                             *)

MayUse(c, o) ==
  /\ c \notin Joiners
  /\ call[c] = NoCall
  /\ \A b \in Callers : call[b].object # o

\* thread(f), into an object that owns nothing.
Create(c, o) ==
  LET w == CHOOSE v \in Workers : life[v] = "unborn"
      h == AnyOf(FreeHandles)
      i == AnyOf(FreeIds)
  IN  /\ MayUse(c, o)
      /\ ~joinable(o)
      /\ \E v \in Workers : life[v] = "unborn"
      /\ FreeHandles # {} /\ FreeIds # {}
      /\ table' = [table EXCEPT ![h] = w]
      /\ native_handle_' = [native_handle_ EXCEPT ![o] = h]
      /\ thread_id_' = [thread_id_ EXCEPT ![o] = i]
      /\ id' = [id EXCEPT ![w] = i]
      /\ life' = [life EXCEPT ![w] = "running"]
      /\ meant' = [meant EXCEPT ![o] = w]
      /\ UNCHANGED <<call, joined, overlapped, lost>>

\* Mutant: the source keeps its handle.
MoveOutKeeping(from, to) ==
  /\ native_handle_' = [native_handle_ EXCEPT ![to] = native_handle_[from]]
  /\ thread_id_' = [thread_id_ EXCEPT ![to] = thread_id_[from], ![from] = None]
  /\ meant' = [meant EXCEPT ![to] = meant[from], ![from] = None]

MoveOut(from, to) ==
  /\ native_handle_' = [native_handle_ EXCEPT ![to] = native_handle_[from], ![from] = None]
  /\ thread_id_' = [thread_id_ EXCEPT ![to] = thread_id_[from], ![from] = None]
  /\ meant' = [meant EXCEPT ![to] = meant[from], ![from] = None]

\* thread(thread&&): the new object is one that owns nothing.
MoveConstruct(c, from, to) ==
  /\ MayUse(c, from) /\ MayUse(c, to)
  /\ ~joinable(to) /\ joinable(from)
  /\ MoveOut(from, to)
  /\ UNCHANGED <<table, life, id, call, joined, overlapped, lost>>

\* operator=(thread&&), also of an object to itself: a thread that the target
\* owns is terminated, and its handle is forgotten, not closed.
MoveAssign(c, from, to) ==
  /\ MayUse(c, from) /\ MayUse(c, to)
  /\ joinable(to)
  /\ life' = Terminated(native_handle_[to])
  /\ lost' = lost \cup {native_handle_[to]}
  /\ MoveOut(from, to)
  /\ UNCHANGED <<table, id, call, joined, overlapped>>

\* Mutant: the object keeps the value of the handle that was closed.
ReleaseKeeping(o) ==
  /\ thread_id_' = [thread_id_ EXCEPT ![o] = None]
  /\ meant' = [meant EXCEPT ![o] = None]
  /\ UNCHANGED native_handle_

Release(o) ==
  /\ native_handle_' = [native_handle_ EXCEPT ![o] = None]
  /\ thread_id_' = [thread_id_ EXCEPT ![o] = None]
  /\ meant' = [meant EXCEPT ![o] = None]

\* ~thread
Destroy(c, o) ==
  /\ MayUse(c, o)
  /\ joinable(o)
  /\ life' = Terminated(native_handle_[o])
  /\ table' = Closed(native_handle_[o])
  /\ Release(o)
  /\ UNCHANGED <<id, call, joined, overlapped, lost>>

detach(c, o) ==
  /\ MayUse(c, o)
  /\ joinable(o)
  /\ table' = Closed(native_handle_[o])
  /\ Release(o)
  /\ UNCHANGED <<life, id, call, joined, overlapped, lost>>

-----------------------------------------------------------------------------
(* join and join_for *)

\* joinable(), and the call of WaitForSingleObject with the handle read then.
\* An object that is not joinable throws.
BeginJoin(c, o) ==
  /\ call[c] = NoCall
  /\ joinable(o)
  /\ call' = [call EXCEPT ![c] = [object |-> o, at |-> "wait",
                                  thread |-> table[native_handle_[o]]]]
  /\ overlapped' = (overlapped \/ \E b \in Callers : call[b].object = o)
  /\ UNCHANGED <<native_handle_, thread_id_, table, life, id, meant, joined, lost>>

EndWait(c) ==
  /\ call[c].at = "wait"
  /\ Signalled(call[c].thread)
  /\ call' = [call EXCEPT ![c].at = "close"]
  /\ UNCHANGED <<native_handle_, thread_id_, table, life, id, meant, joined, overlapped, lost>>

\* join_for, when its time is over: false, and the object is as before.
TimeOut(c) ==
  /\ call[c].at = "wait"
  /\ call' = [call EXCEPT ![c] = NoCall]
  /\ UNCHANGED <<native_handle_, thread_id_, table, life, id, meant, joined, overlapped, lost>>

\* CloseHandle(native_handle_), the member being read again.
CloseJoined(c) ==
  /\ call[c].at = "close"
  /\ table' = Closed(native_handle_[call[c].object])
  /\ call' = [call EXCEPT ![c].at = "clear"]
  /\ UNCHANGED <<native_handle_, thread_id_, life, id, meant, joined, overlapped, lost>>

EndJoin(c) ==
  /\ call[c].at = "clear"
  /\ Release(call[c].object)
  /\ joined' = joined \cup {meant[call[c].object]}
  /\ call' = [call EXCEPT ![c] = NoCall]
  /\ UNCHANGED <<table, life, id, overlapped, lost>>

JoinStep(c) == EndWait(c) \/ CloseJoined(c) \/ EndJoin(c)

CallerStep(c) ==
  \/ JoinStep(c) \/ TimeOut(c)
  \/ \E o \in Objects :
       \/ Create(c, o) \/ Destroy(c, o) \/ detach(c, o) \/ BeginJoin(c, o)
       \/ \E p \in Objects : MoveConstruct(c, o, p) \/ MoveAssign(c, o, p)

-----------------------------------------------------------------------------
(* ThreadProc *)

\* The function returns and is deleted; _endthreadex.
EndThread(w) ==
  /\ life[w] = "running"
  /\ life' = [life EXCEPT ![w] = "ended"]
  /\ UNCHANGED <<native_handle_, thread_id_, table, id, call, meant, joined, overlapped, lost>>

-----------------------------------------------------------------------------

HandleTypeOK ==
  /\ native_handle_ \in [Objects -> Handles \cup {None}]
  /\ thread_id_ \in [Objects -> Ids \cup {None}]
  /\ table \in [Handles -> Workers \cup {None}]
  /\ life \in [Workers -> {"unborn", "running", "ended", "killed"}]
  /\ id \in [Workers -> Ids \cup {None}]
  /\ call \in [Callers -> [object : Objects \cup {None}, thread : Workers \cup {None},
                           at : {"idle", "wait", "close", "clear"}]]
  /\ meant \in [Objects -> Workers \cup {None}]
  /\ joined \subseteq Workers \cup {None}
  /\ overlapped \in BOOLEAN
  /\ lost \subseteq Handles

\* Between the CloseHandle of a join and the assignment after it.
Closing(o) == \E c \in Callers : call[c].object = o /\ call[c].at = "clear"

\* While no two callers join one object at once, every open handle is in exactly
\* one object, or was overwritten by a move assignment and stays open for good;
\* an object that is not in the middle of a join has an open handle, with the id
\* of its thread, though the kernel gives values out again. (thread.cpp)
HandlesOwned ==
  ~overlapped =>
    /\ \A h \in Handles : table[h] # None =>
         Cardinality({o \in Objects : native_handle_[o] = h /\ ~Closing(o)})
           = IF h \in lost THEN 0 ELSE 1
    /\ \A o \in Objects : joinable(o) /\ ~Closing(o) =>
         /\ table[native_handle_[o]] # None
         /\ id[table[native_handle_[o]]] = thread_id_[o]

\* While no two callers join one object at once, a join that returned had found in
\* its object a thread that somebody made or moved into it, and that thread has
\* ended: an object whose thread was moved away, joined or detached is not joined
\* again by the handle it had, whatever thread the kernel gave that handle to, and
\* join_for does not take the end of its time for an end. (join, join_for)
JoinedMeansEnded ==
  ~overlapped => joined \subseteq {w \in Workers : life[w] \in {"ended", "killed"}}

=============================================================================
