----------------------------- MODULE ThreadLocal -----------------------------
(***************************************************************************)
(* ThreadLocalT (thread_local.h): a map from thread ids to values under    *)
(* one mutex.  A value here is the thread that stored it: what matters is  *)
(* whose value a thread reads when the kernel gives an id out again.       *)
(***************************************************************************)
CONSTANTS
  Threads, Ids, None

VARIABLES
  at,           \* where each thread is
  id,           \* GetCurrentThreadId() of each thread
  local_mtx_,
  stored_data_, \* None for an id that is not in the map
  mine          \* history: what each thread's own calls left there, "unset"
                \* before the first that stores or erases

localDataVars == <<local_mtx_, stored_data_, mine>>

LocalInit ==
  /\ local_mtx_ = None
  /\ stored_data_ = [i \in Ids |-> None]
  /\ mine = [t \in Threads |-> "unset"]

CallLocal(t) ==
  /\ at[t] = "idle"
  /\ at' = [at EXCEPT ![t] = "locallock"]
  /\ UNCHANGED localDataVars

Store(t, v) ==
  /\ stored_data_' = [stored_data_ EXCEPT ![id[t]] = v]
  /\ mine' = [mine EXCEPT ![t] = v]

\* Mutant: insert alone, which leaves an element that is there.
SetInserting(t) ==
  IF stored_data_[id[t]] = None THEN Store(t, t)
  ELSE mine' = [mine EXCEPT ![t] = t] /\ UNCHANGED stored_data_

\* Set assigns to the element of the thread's id or inserts one.
Set(t) == Store(t, t)

\* Remove erases it.
Remove(t) == Store(t, None)

\* Get with set_if_not_exist, and GetRef, insert a default where there is none.
GetOrSet(t) ==
  IF stored_data_[id[t]] = None THEN Store(t, t)
  ELSE UNCHANGED <<stored_data_, mine>>

\* The lock, and what each function does under it; Get and IsExistData only read.
LockedCall(t) ==
  /\ at[t] = "locallock"
  /\ local_mtx_ = None
  /\ local_mtx_' = t
  /\ \/ Set(t) \/ Remove(t) \/ GetOrSet(t)
     \/ UNCHANGED <<stored_data_, mine>>
  /\ at' = [at EXCEPT ![t] = "localunlock"]

UnlockLocal(t) ==
  /\ at[t] = "localunlock"
  /\ local_mtx_' = None
  /\ at' = [at EXCEPT ![t] = "idle"]
  /\ UNCHANGED <<stored_data_, mine>>

\* GetRef takes no lock: it is for surroundings that are safe without one, so
\* that no other thread is in the map.
GetRef(t) ==
  /\ at[t] = "idle"
  /\ local_mtx_ = None
  /\ GetOrSet(t)
  /\ UNCHANGED <<at, local_mtx_>>

LocalStep(t) == LockedCall(t) \/ UnlockLocal(t)

=============================================================================
