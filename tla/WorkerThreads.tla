---------------------------- MODULE WorkerThreads ----------------------------
(***************************************************************************)
(* Threads that are made, moved, joined, detached and terminated through   *)
(* thread objects (ThreadHandle) while they use one SingletonT (Singleton) *)
(* and one ThreadLocalT (ThreadLocal).  TerminateThread, which the         *)
(* destructor and the move assignment of a thread object call, stops a     *)
(* thread wherever it is, in a critical section too, which nobody leaves   *)
(* any more; and the id of a thread that is gone is given to another one.  *)
(***************************************************************************)
EXTENDS ThreadHandle, Naturals

CONSTANTS
  Addresses,
  MaxCalls      \* bound: how many calls the workers make in all

ASSUME WorkerAssumption ==
  /\ None \notin Addresses
  /\ "unset" \notin Workers \cup {None}
  /\ MaxCalls \in Nat

VARIABLES
  at,
  singleton_mtx_, instance_, allocated, overlappedGets,
  local_mtx_, stored_data_, mine,
  calls         \* how many calls have begun

singletonVars == <<singleton_mtx_, instance_, allocated, overlappedGets>>
localVars == <<local_mtx_, stored_data_, mine>>
vars == <<handleVars, at, singletonVars, localVars, calls>>

S == INSTANCE Singleton WITH Threads <- Workers, overlapped <- overlappedGets
L == INSTANCE ThreadLocal WITH Threads <- Workers

Init ==
  /\ HandleInit
  /\ at = [w \in Workers |-> "idle"]
  /\ S!SingletonInit
  /\ L!LocalInit
  /\ calls = 0

-----------------------------------------------------------------------------

Caller(c) == CallerStep(c) /\ UNCHANGED <<at, singletonVars, localVars, calls>>

\* A step inside a call of a worker.
InCall(w) ==
  /\ life[w] = "running"
  /\ \/ S!SingletonStep(w) /\ UNCHANGED localVars
     \/ L!LocalStep(w) /\ UNCHANGED singletonVars
  /\ UNCHANGED <<handleVars, calls>>

BeginCall(w) ==
  /\ life[w] = "running"
  /\ calls < MaxCalls
  /\ calls' = calls + 1
  /\ \/ S!SingletonCall(w) /\ UNCHANGED localVars
     \/ (L!CallLocal(w) \/ L!GetRef(w)) /\ UNCHANGED singletonVars
  /\ UNCHANGED handleVars

\* The function of the thread returns when it has made its calls.
End(w) ==
  /\ at[w] = "idle"
  /\ EndThread(w)
  /\ UNCHANGED <<at, singletonVars, localVars, calls>>

Next ==
  \/ \E c \in Callers : Caller(c)
  \/ \E w \in Workers : InCall(w) \/ BeginCall(w) \/ End(w)

Spec == Init /\ [][Next]_vars

\* The scheduler runs every thread that can run, and the functions of the workers
\* end; nobody has to make, join or end a thread, or to call anything.
Fairness ==
  /\ \A w \in Workers : WF_vars(InCall(w)) /\ WF_vars(End(w))
  /\ \A c \in Callers : WF_vars(JoinStep(c) /\ UNCHANGED <<at, singletonVars, localVars, calls>>)

FairSpec == Spec /\ Fairness

-----------------------------------------------------------------------------

TypeOK ==
  /\ HandleTypeOK
  /\ S!SingletonTypeOK
  /\ at \in [Workers -> {"idle", "locallock", "localunlock"}
                         \cup S!GetLabels \cup S!ReleaseLabels]
  /\ local_mtx_ \in Workers \cup {None}
  /\ stored_data_ \in [Ids -> Workers \cup {None}]
  /\ mine \in [Workers -> Workers \cup {None, "unset"}]

OneInstance == S!OneInstance

\* What is stored for the id of a running thread is what its own calls left
\* there. Before the first that stores or erases it may be the value of a thread
\* that had the id before and ended without Remove. (the key of stored_data_)
OwnValue ==
  \A w \in Workers : life[w] = "running" =>
    \/ stored_data_[id[w]] = mine[w]
    \/ /\ mine[w] = "unset"
       /\ \/ stored_data_[id[w]] = None
          \/ \E v \in Workers : /\ stored_data_[id[w]] = v
                                /\ id[v] = id[w] /\ life[v] \in {"ended", "killed"}

\* A call stays only behind a critical section whose owner was terminated, and a
\* join only behind a thread that does. (TerminateThread in thread.cpp:17 and :31)
LeftLocked(mtx) == mtx # None /\ life[mtx] = "killed"

Stuck(w) ==
  \/ at[w] \in {"getlock", "rellock"} /\ LeftLocked(singleton_mtx_)
  \/ at[w] = "locallock" /\ LeftLocked(local_mtx_)

CallsReturn ==
  /\ \A w \in Workers :
       at[w] # "idle" ~> (at[w] = "idle" \/ life[w] = "killed" \/ Stuck(w))
  /\ \A c \in Callers :
       call[c].at # "idle" ~> (call[c].at = "idle" \/ \E w \in Workers : Stuck(w))

=============================================================================
