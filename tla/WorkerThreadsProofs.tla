------------------------- MODULE WorkerThreadsProofs -------------------------
(***************************************************************************)
(* Proofs about WorkerThreads, for any threads, objects, handles, ids and  *)
(* addresses: the singleton, the thread-local map and join keep what they  *)
(* promise though threads are terminated anywhere and ids are given out    *)
(* again.  The three invariants are independent but for the lives and the  *)
(* ids of the workers, which join and the map rest on.                     *)
(***************************************************************************)
EXTENDS WorkerThreads, FiniteSetTheorems, TLAPS

Labels == {"idle", "locallock", "localunlock"} \cup S!GetLabels \cup S!ReleaseLabels

Dead == {"ended", "killed"}

\* A worker that runs has an id that no other running worker has; one that is
\* reached by a handle or a join was born, and one whose join has returned from
\* the wait is dead.
HandleInv ==
  /\ HandleTypeOK
  /\ \A w \in Workers : life[w] = "running" => id[w] \in Ids
  /\ \A v, w \in Workers :
       life[v] = "running" /\ life[w] = "running" /\ id[v] = id[w] => v = w
  /\ \A h \in Handles : table[h] # None => life[table[h]] # "unborn"
  /\ \A c \in Callers : call[c].thread # None =>
       /\ life[call[c].thread] # "unborn"
       /\ call[c].at \in {"close", "clear"} => life[call[c].thread] \in Dead
  /\ \A c \in Callers : call[c].at # "idle" => call[c].object \in Objects

\* Who is in the critical section owns it, and what instance_ is there; a
\* GetInstance that returns no instance was overlapped.
SingletonInv ==
  /\ S!SingletonTypeOK
  /\ at \in [Workers -> Labels]
  /\ \A w \in Workers :
       at[w] \in {"new", "getunlock", "delete", "clear", "relunlock"} => singleton_mtx_ = w
  /\ \A w \in Workers : at[w] \in {"getunlock", "delete", "clear"} => instance_ # None
  /\ \A w \in Workers : at[w] \in {"new", "relunlock"} => instance_ = None
  /\ instance_ = None => allocated = {}
  /\ (\E w \in Workers : at[w] = "clear") => allocated = {}
  /\ instance_ # None /\ (\A w \in Workers : at[w] # "clear") => allocated = {instance_}
  /\ S!Releasing # {} => S!Getting \subseteq overlappedGets
  /\ \A w \in Workers : at[w] = "return" /\ w \notin overlappedGets => instance_ # None

\* A value belongs to a worker that was born, has the id and has stored; a running
\* worker that has stored or erased finds what it left.
LocalInv ==
  /\ local_mtx_ \in Workers \cup {None}
  /\ stored_data_ \in [Ids -> Workers \cup {None}]
  /\ mine \in [Workers -> Workers \cup {None, "unset"}]
  /\ \A w \in Workers : life[w] = "unborn" => mine[w] = "unset"
  /\ \A i \in Ids : stored_data_[i] # None =>
       /\ id[stored_data_[i]] = i
       /\ life[stored_data_[i]] # "unborn"
       /\ mine[stored_data_[i]] # "unset"
  /\ \A w \in Workers : life[w] = "running" /\ mine[w] # "unset" =>
       stored_data_[id[w]] = mine[w]

WorkerInv == HandleInv /\ SingletonInv /\ LocalInv

-----------------------------------------------------------------------------

LEMMA InitWorker == Init => WorkerInv
<1> SUFFICES ASSUME Init PROVE WorkerInv
  OBVIOUS
<1>1. HandleInv
  BY HandleAssumption DEF Init, HandleInit, HandleInv, HandleTypeOK, NoCall
<1>2. SingletonInv
  BY DEF Init, S!SingletonInit, SingletonInv, S!SingletonTypeOK, Labels, S!GetLabels,
         S!ReleaseLabels, S!Releasing, S!Getting
<1>3. LocalInv
  BY DEF Init, HandleInit, L!LocalInit, LocalInv
<1> QED
  BY <1>1, <1>2, <1>3 DEF WorkerInv

-----------------------------------------------------------------------------
(* The singleton *)

\* Every step of the singleton keeps its invariant.
LEMMA SingletonKeeps ==
  ASSUME SingletonInv, NEW w \in Workers,
         S!SingletonStep(w) \/ S!SingletonCall(w)
  PROVE  SingletonInv'
<1> USE HandleAssumption, WorkerAssumption
<1> USE DEF SingletonInv, S!SingletonTypeOK, S!Goto, Labels, S!GetLabels, S!ReleaseLabels,
            S!Releasing, S!Getting, S!dataVars
<1>1. CASE S!LockGet(w)
  BY <1>1 DEF S!LockGet
<1>2. CASE S!New(w)
  BY <1>2 DEF S!New
<1>3. CASE S!UnlockGet(w)
  BY <1>3 DEF S!UnlockGet
<1>4. CASE S!ReturnInstance(w)
  BY <1>4 DEF S!ReturnInstance
<1>5. CASE S!LockRelease(w)
  BY <1>5 DEF S!LockRelease
<1>6. CASE S!Delete(w)
  BY <1>6 DEF S!Delete
<1>7. CASE S!Clear(w)
  BY <1>7 DEF S!Clear
<1>8. CASE S!UnlockRelease(w)
  BY <1>8 DEF S!UnlockRelease
<1>9. CASE S!CheckGet(w)
  BY <1>9 DEF S!CheckGet
<1>10. CASE S!CheckRelease(w)
  BY <1>10 DEF S!CheckRelease
<1> QED
  BY <1>1, <1>2, <1>3, <1>4, <1>5, <1>6, <1>7, <1>8, <1>9, <1>10
  DEF S!SingletonStep, S!SingletonCall

-----------------------------------------------------------------------------
(* The thread objects *)

\* What a step of a caller or the end of a thread does with lives and ids.
LifeGoesOn ==
  \A v \in Workers :
    /\ life'[v] = "unborn" => life[v] = "unborn"
    /\ life[v] # "unborn" =>
         /\ id'[v] = id[v]
         /\ \/ life'[v] = life[v]
            \/ life[v] = "running" /\ life'[v] \in Dead

LEMMA CreateKeeps ==
  ASSUME HandleInv, NEW c \in Callers, NEW o \in Objects, Create(c, o)
  PROVE  HandleInv' /\ LifeGoesOn
<1> DEFINE w == CHOOSE v \in Workers : life[v] = "unborn"
           h == AnyOf(FreeHandles)
           i == AnyOf(FreeIds)
<1>1. w \in Workers /\ life[w] = "unborn"
  BY DEF Create
<1>2. h \in Handles /\ table[h] = None
  BY DEF Create, AnyOf, FreeHandles
<1>3. i \in Ids /\ \A v \in Workers : life[v] = "running" => id[v] # i
  BY DEF Create, AnyOf, FreeIds, Known
<1>4. /\ table' = [table EXCEPT ![h] = w]
      /\ native_handle_' = [native_handle_ EXCEPT ![o] = h]
      /\ thread_id_' = [thread_id_ EXCEPT ![o] = i]
      /\ id' = [id EXCEPT ![w] = i]
      /\ life' = [life EXCEPT ![w] = "running"]
      /\ meant' = [meant EXCEPT ![o] = w]
      /\ UNCHANGED <<call, joined, overlapped, lost>>
  BY DEF Create
<1> HIDE DEF w, h, i
<1> QED
  BY <1>1, <1>2, <1>3, <1>4, HandleAssumption DEF HandleInv, HandleTypeOK, LifeGoesOn, Dead

\* Moving, destroying and detaching: threads may die, handles close, objects change.
LEMMA ObjectKeeps ==
  ASSUME HandleInv, NEW c \in Callers, NEW o \in Objects, NEW p \in Objects,
         MoveConstruct(c, o, p) \/ MoveAssign(c, o, p) \/ Destroy(c, o) \/ detach(c, o)
  PROVE  HandleInv' /\ LifeGoesOn
<1> USE DEF HandleInv, HandleTypeOK, LifeGoesOn, Dead
<1>1. CASE MoveConstruct(c, o, p)
  BY <1>1 DEF MoveConstruct, MoveOut
<1>2. CASE MoveAssign(c, o, p)
  BY <1>2 DEF MoveAssign, MoveOut, Terminated, joinable
<1>3. CASE Destroy(c, o)
  BY <1>3 DEF Destroy, Release, Terminated, Closed
<1>4. CASE detach(c, o)
  BY <1>4 DEF detach, Release, Closed
<1> QED
  BY <1>1, <1>2, <1>3, <1>4

LEMMA JoinKeeps ==
  ASSUME HandleInv, NEW c \in Callers,
         JoinStep(c) \/ TimeOut(c) \/ (\E o \in Objects : BeginJoin(c, o))
  PROVE  HandleInv' /\ LifeGoesOn
<1> USE HandleAssumption DEF HandleInv, HandleTypeOK, LifeGoesOn, Dead
<1>1. CASE EndWait(c)
  BY <1>1 DEF EndWait, Signalled
<1>2. CASE CloseJoined(c)
  BY <1>2 DEF CloseJoined, Closed
<1>3. CASE EndJoin(c)
  <2>1. joined' \in SUBSET (Workers \cup {None}) /\ meant' \in [Objects -> Workers \cup {None}]
    BY <1>3 DEF EndJoin, Release
  <2>2. /\ UNCHANGED <<table, life, id, overlapped, lost>>
        /\ native_handle_' \in [Objects -> Handles \cup {None}]
        /\ thread_id_' \in [Objects -> Ids \cup {None}]
        /\ call' = [call EXCEPT ![c] = NoCall]
    BY <1>3 DEF EndJoin, Release
  <2> QED BY <2>1, <2>2 DEF NoCall
<1>4. CASE TimeOut(c)
  BY <1>4 DEF TimeOut, NoCall
<1>5. ASSUME NEW o \in Objects, BeginJoin(c, o)
      PROVE  HandleInv' /\ LifeGoesOn
  BY <1>5 DEF BeginJoin, joinable
<1> QED
  BY <1>1, <1>2, <1>3, <1>4, <1>5 DEF JoinStep

LEMMA EndThreadKeeps ==
  ASSUME HandleInv, NEW w \in Workers, EndThread(w)
  PROVE  HandleInv' /\ LifeGoesOn
BY DEF EndThread, HandleInv, HandleTypeOK, LifeGoesOn, Dead

LEMMA CallerKeeps ==
  ASSUME HandleInv, NEW c \in Callers, CallerStep(c)
  PROVE  HandleInv' /\ LifeGoesOn
BY CreateKeeps, ObjectKeeps, JoinKeeps DEF CallerStep

-----------------------------------------------------------------------------
(* The thread-local map *)

\* A value stays right while threads are made and end.
LEMMA LivesKeepLocal ==
  ASSUME LocalInv, LifeGoesOn, UNCHANGED localVars
  PROVE  LocalInv'
BY DEF localVars, LocalInv, LifeGoesOn, Dead

\* A running worker changes the value of its own id only, which no other running
\* worker has.
LEMMA LocalKeeps ==
  ASSUME HandleInv, LocalInv, NEW w \in Workers, life[w] = "running",
         UNCHANGED <<life, id>>,
         L!LocalStep(w) \/ L!CallLocal(w) \/ L!GetRef(w)
  PROVE  LocalInv'
<1>1. \/ L!Set(w) \/ L!Remove(w) \/ L!GetOrSet(w)
      \/ UNCHANGED <<stored_data_, mine>>
  BY DEF L!LocalStep, L!LockedCall, L!UnlockLocal, L!CallLocal, L!GetRef, L!localDataVars
<1>2. local_mtx_' \in Workers \cup {None}
  BY DEF LocalInv, L!LocalStep, L!LockedCall, L!UnlockLocal, L!CallLocal, L!GetRef,
         L!localDataVars
<1>3. \/ \E v \in {w, None} : L!Store(w, v)
      \/ UNCHANGED <<stored_data_, mine>>
  BY <1>1 DEF L!Set, L!Remove, L!GetOrSet
<1>4. ASSUME NEW v \in {w, None}, L!Store(w, v) PROVE LocalInv'
  BY <1>2, <1>4, HandleAssumption, WorkerAssumption DEF L!Store, LocalInv, HandleInv
<1>5. CASE UNCHANGED <<stored_data_, mine>>
  BY <1>2, <1>5 DEF LocalInv
<1> QED
  BY <1>3, <1>4, <1>5

\* The places of the workers in the calls of the map are none of the singleton's.
LEMMA LocalKeepsSingleton ==
  ASSUME SingletonInv, NEW w \in Workers, UNCHANGED singletonVars,
         L!LocalStep(w) \/ L!CallLocal(w) \/ L!GetRef(w)
  PROVE  SingletonInv'
<1>1. \/ at' = at
      \/ /\ at[w] \in {"idle", "locallock", "localunlock"}
         /\ \E l \in {"idle", "locallock", "localunlock"} : at' = [at EXCEPT ![w] = l]
  BY DEF L!LocalStep, L!LockedCall, L!UnlockLocal, L!CallLocal, L!GetRef
<1> QED
  BY <1>1 DEF SingletonInv, singletonVars, S!SingletonTypeOK, Labels, S!GetLabels,
              S!ReleaseLabels, S!Releasing, S!Getting

-----------------------------------------------------------------------------

LEMMA StepKeepsWorker == WorkerInv /\ [Next]_vars => WorkerInv'
<1> SUFFICES ASSUME WorkerInv, [Next]_vars PROVE WorkerInv'
  OBVIOUS
<1>1. HandleInv /\ SingletonInv /\ LocalInv
  BY DEF WorkerInv
<1>2. CASE UNCHANGED vars
  BY <1>1, <1>2
  DEF vars, handleVars, singletonVars, localVars, WorkerInv, HandleInv, HandleTypeOK,
      SingletonInv, S!SingletonTypeOK, S!Releasing, S!Getting, LocalInv
<1>3. ASSUME NEW c \in Callers, Caller(c) PROVE WorkerInv'
  <2>1. HandleInv' /\ LifeGoesOn
    BY <1>1, <1>3, CallerKeeps DEF Caller
  <2>2. SingletonInv'
    BY <1>1, <1>3 DEF Caller, singletonVars, SingletonInv, S!SingletonTypeOK, S!Releasing,
                      S!Getting
  <2>3. LocalInv'
    BY <1>1, <1>3, <2>1, LivesKeepLocal DEF Caller
  <2> QED
    BY <2>1, <2>2, <2>3 DEF WorkerInv
<1>4. ASSUME NEW w \in Workers, End(w) PROVE WorkerInv'
  <2>1. HandleInv' /\ LifeGoesOn
    BY <1>1, <1>4, EndThreadKeeps DEF End
  <2>2. SingletonInv'
    BY <1>1, <1>4 DEF End, singletonVars, SingletonInv, S!SingletonTypeOK, S!Releasing,
                      S!Getting
  <2>3. LocalInv'
    BY <1>1, <1>4, <2>1, LivesKeepLocal DEF End
  <2> QED
    BY <2>1, <2>2, <2>3 DEF WorkerInv
<1>5. ASSUME NEW w \in Workers, InCall(w) \/ BeginCall(w) PROVE WorkerInv'
  <2>1. life[w] = "running" /\ UNCHANGED handleVars
    BY <1>5 DEF InCall, BeginCall
  <2>2. HandleInv'
    BY <1>1, <2>1 DEF handleVars, HandleInv, HandleTypeOK
  <2>3. CASE /\ S!SingletonStep(w) \/ S!SingletonCall(w)
             /\ UNCHANGED localVars
    <3>1. SingletonInv'
      BY <1>1, <2>3, SingletonKeeps
    <3>2. LocalInv'
      BY <1>1, <2>1, <2>3 DEF LocalInv, handleVars, localVars
    <3> QED
      BY <2>2, <3>1, <3>2 DEF WorkerInv
  <2>4. CASE /\ L!LocalStep(w) \/ L!CallLocal(w) \/ L!GetRef(w)
             /\ UNCHANGED singletonVars
    <3>1. SingletonInv'
      BY <1>1, <2>4, LocalKeepsSingleton
    <3>2. LocalInv'
      BY <1>1, <2>1, <2>4, LocalKeeps DEF handleVars
    <3> QED
      BY <2>2, <3>1, <3>2 DEF WorkerInv
  <2> QED
    BY <1>5, <2>3, <2>4 DEF InCall, BeginCall
<1> QED
  BY <1>2, <1>3, <1>4, <1>5 DEF Next

LEMMA WorkerInvariant == Spec => []WorkerInv
BY InitWorker, StepKeepsWorker, PTL DEF Spec

\* Type correctness of the thread objects, the singleton and the map, and of what
\* the kernel knows about threads. (thread.h, singleton.h, thread_local.h)
THEOREM WorkersTypeCorrect == Spec => []TypeOK
<1>1. WorkerInv => TypeOK
  <2> SUFFICES ASSUME WorkerInv PROVE TypeOK
    OBVIOUS
  <2> QED
    BY DEF WorkerInv, HandleInv, SingletonInv, LocalInv, TypeOK, Labels
<1> QED
  BY <1>1, WorkerInvariant, PTL

\* There is at most one instance, only an instance that exists is deleted, and a
\* GetInstance that no ReleaseInstance overlaps returns it, for any number of
\* threads, terminated anywhere. (singleton.h)
THEOREM InstanceIsUnique == Spec => []OneInstance
<1>1. WorkerInv => OneInstance
  <2> SUFFICES ASSUME SingletonInv PROVE OneInstance
    BY DEF WorkerInv
  <2>1. \A a, b \in allocated : a = b
    BY DEF SingletonInv
  <2>2. ASSUME NEW w \in Workers, at[w] = "delete" PROVE instance_ \in allocated
    BY <2>2 DEF SingletonInv
  <2>3. ASSUME NEW w \in Workers, at[w] = "return", w \notin overlappedGets
        PROVE  instance_ \in allocated
    BY <2>3 DEF SingletonInv, S!Releasing, S!Getting, S!GetLabels, S!ReleaseLabels
  <2> QED
    BY <2>1, <2>2, <2>3 DEF OneInstance, S!OneInstance
<1> QED
  BY <1>1, WorkerInvariant, PTL

\* What is stored for a running thread is its own, or, until it stores or erases,
\* what a dead thread of the same id left behind, for any ids. (thread_local.h)
THEOREM ValueIsOwn == Spec => []OwnValue
<1>1. WorkerInv => OwnValue
  <2> SUFFICES ASSUME HandleInv, LocalInv, NEW w \in Workers, life[w] = "running",
                      stored_data_[id[w]] # mine[w], stored_data_[id[w]] # None
               PROVE  /\ mine[w] = "unset"
                      /\ \E v \in Workers : /\ stored_data_[id[w]] = v
                                            /\ id[v] = id[w] /\ life[v] \in Dead
    BY DEF WorkerInv, OwnValue, LocalInv, Dead
  <2>1. mine[w] = "unset" /\ id[w] \in Ids
    BY DEF HandleInv, LocalInv
  <2> DEFINE v == stored_data_[id[w]]
  <2>2. v \in Workers /\ id[v] = id[w] /\ life[v] # "unborn" /\ mine[v] # "unset"
    BY <2>1 DEF LocalInv
  <2>3. life[v] \in Dead
    BY <2>1, <2>2 DEF HandleInv, HandleTypeOK, Dead
  <2> QED
    BY <2>1, <2>2, <2>3
<1> QED
  BY <1>1, WorkerInvariant, PTL

-----------------------------------------------------------------------------
(* Who owns a handle *)

\* An object that is out of a join and has a handle.
Out(o) == joinable(o) /\ ~Closing(o)

\* A call has an object while it is in progress.
CallsHaveObjects == \A c \in Callers : call[c].at = "idle" <=> call[c].object = None

JoinAlone ==
  \A b, c \in Callers :
    call[b].object = call[c].object /\ call[b].object # None => b = c

\* The object keeps its handle until the call closes it.
JoinKeepsHandle ==
  \A c \in Callers : call[c].at \in {"wait", "close"} => joinable(call[c].object)

HandleIsOpen ==
  \A o \in Objects : Out(o) =>
    /\ table[native_handle_[o]] # None
    /\ id[table[native_handle_[o]]] = thread_id_[o]
    /\ native_handle_[o] \notin lost

HandleIsSingle ==
  \A o, p \in Objects :
    Out(o) /\ Out(p) /\ native_handle_[o] = native_handle_[p] => o = p

OpenIsOwned ==
  \A h \in Handles : table[h] # None /\ h \notin lost =>
    \E o \in Objects : native_handle_[o] = h /\ Out(o)

LostIsOpen == \A h \in lost : table[h] # None

OwnedInv ==
  /\ CallsHaveObjects
  /\ ~overlapped =>
       /\ JoinAlone /\ JoinKeepsHandle
       /\ HandleIsOpen /\ HandleIsSingle /\ OpenIsOwned /\ LostIsOpen

LEMMA InitOwned == Init => OwnedInv
BY DEF Init, HandleInit, OwnedInv, NoCall, joinable, CallsHaveObjects, JoinAlone,
       JoinKeepsHandle, HandleIsOpen, HandleIsSingle, OpenIsOwned, LostIsOpen, Out

LEMMA CreateKeepsOwned ==
  ASSUME HandleInv, OwnedInv, NEW c \in Callers, NEW o \in Objects, Create(c, o)
  PROVE  OwnedInv'
<1> DEFINE w == CHOOSE v \in Workers : life[v] = "unborn"
           h == AnyOf(FreeHandles)
           i == AnyOf(FreeIds)
<1>1. w \in Workers /\ life[w] = "unborn"
  BY DEF Create
<1>2. h \in Handles /\ table[h] = None /\ h # None
  BY HandleAssumption DEF Create, AnyOf, FreeHandles
<1>3. /\ table' = [table EXCEPT ![h] = w]
      /\ native_handle_' = [native_handle_ EXCEPT ![o] = h]
      /\ thread_id_' = [thread_id_ EXCEPT ![o] = i]
      /\ id' = [id EXCEPT ![w] = i]
      /\ UNCHANGED <<call, overlapped, lost>>
      /\ ~joinable(o) /\ \A b \in Callers : call[b].object # o
  BY DEF Create, MayUse
<1> HIDE DEF w, h, i
<1>4. \A p \in Objects : Closing(p)' <=> Closing(p)
  BY <1>3 DEF Closing
<1>5. \A p \in Objects : p # o =>
        native_handle_'[p] = native_handle_[p] /\ thread_id_'[p] = thread_id_[p]
  BY <1>3 DEF HandleInv, HandleTypeOK
<1>6. native_handle_'[o] = h /\ thread_id_'[o] = i /\ id'[w] = i /\ table'[h] = w
  BY <1>1, <1>2, <1>3 DEF HandleInv, HandleTypeOK
<1>7. \A k \in Handles : k # h => table'[k] = table[k]
  BY <1>3 DEF HandleInv, HandleTypeOK
<1>8. \A k \in Handles : table[k] # None => id'[table[k]] = id[table[k]]
  BY <1>1, <1>3 DEF HandleInv, HandleTypeOK
<1>9. \A p \in Objects : native_handle_[p] \in Handles \cup {None}
  BY DEF HandleInv, HandleTypeOK
<1>10. ~Closing(o) /\ w # None /\ lost \subseteq Handles
  BY <1>1, <1>3, HandleAssumption DEF Closing, HandleInv, HandleTypeOK
<1>11. Out(o)' /\ ~Out(o) /\ (\A p \in Objects : p # o => (Out(p)' <=> Out(p)))
  BY <1>2, <1>3, <1>4, <1>5, <1>6, <1>10 DEF Out, joinable
<1>12. CallsHaveObjects'
  BY <1>3 DEF OwnedInv, CallsHaveObjects
<1>13. ASSUME ~overlapped
       PROVE  /\ JoinAlone' /\ JoinKeepsHandle'
              /\ HandleIsOpen' /\ HandleIsSingle' /\ OpenIsOwned' /\ LostIsOpen'
  <2>1. JoinAlone' /\ JoinKeepsHandle'
    BY <1>3, <1>5, <1>13, HandleAssumption
    DEF OwnedInv, JoinAlone, JoinKeepsHandle, joinable, HandleInv, HandleTypeOK, CallsHaveObjects
  <2>2. \A p \in Objects : p # o /\ Out(p) =>
          native_handle_[p] \in Handles /\ native_handle_[p] # h
    BY <1>2, <1>9, <1>13 DEF OwnedInv, HandleIsOpen, Out, joinable
  <2>3. HandleIsOpen'
    <3>1. h \notin lost
      BY <1>2, <1>13 DEF OwnedInv, LostIsOpen
    <3>2. ASSUME NEW p \in Objects, p # o, Out(p)
          PROVE  /\ table'[native_handle_'[p]] # None
                 /\ id'[table'[native_handle_'[p]]] = thread_id_'[p]
                 /\ native_handle_'[p] \notin lost
      BY <1>5, <1>7, <1>8, <1>13, <2>2, <3>2 DEF OwnedInv, HandleIsOpen
    <3> QED
      BY <1>3, <1>6, <1>10, <1>11, <3>1, <3>2 DEF HandleIsOpen
  <2>4. HandleIsSingle'
    BY <1>5, <1>6, <1>11, <1>13, <2>2 DEF OwnedInv, HandleIsSingle
  <2>5. OpenIsOwned'
    BY <1>3, <1>5, <1>6, <1>7, <1>11, <1>13 DEF OwnedInv, OpenIsOwned
  <2>6. LostIsOpen'
    BY <1>2, <1>3, <1>7, <1>10, <1>13 DEF OwnedInv, LostIsOpen
  <2> QED
    BY <2>1, <2>3, <2>4, <2>5, <2>6
<1> QED
  BY <1>3, <1>12, <1>13 DEF OwnedInv

LEMMA MoveKeepsOwned ==
  ASSUME HandleInv, OwnedInv, NEW c \in Callers, NEW o \in Objects, NEW p \in Objects,
         MoveConstruct(c, o, p) \/ MoveAssign(c, o, p)
  PROVE  OwnedInv'
<1>1. /\ MoveOut(o, p)
      /\ UNCHANGED <<table, id, call, overlapped>>
      /\ \A b \in Callers : call[b].object \notin {o, p}
      /\ \/ ~joinable(p) /\ lost' = lost
         \/ joinable(p) /\ lost' = lost \cup {native_handle_[p]}
  BY DEF MoveConstruct, MoveAssign, MayUse
<1>2. \A q \in Objects : Closing(q)' <=> Closing(q)
  BY <1>1 DEF Closing
<1>3. ~Closing(o) /\ ~Closing(p)
  BY <1>1 DEF Closing
<1>4. /\ native_handle_'[o] = None
      /\ p # o => /\ native_handle_'[p] = native_handle_[o]
                  /\ thread_id_'[p] = thread_id_[o]
      /\ \A q \in Objects \ {o, p} : /\ native_handle_'[q] = native_handle_[q]
                                     /\ thread_id_'[q] = thread_id_[q]
      /\ \A q \in Objects : native_handle_[q] \in Handles \cup {None}
  BY <1>1 DEF MoveOut, HandleInv, HandleTypeOK
<1>5. /\ ~Out(o)'
      /\ p # o => (Out(p)' <=> Out(o))
      /\ \A q \in Objects \ {o, p} : Out(q)' <=> Out(q)
      /\ Out(p) <=> joinable(p)
  BY <1>2, <1>3, <1>4 DEF Out, joinable
<1>6. CallsHaveObjects'
  BY <1>1 DEF OwnedInv, CallsHaveObjects
<1>7. ASSUME ~overlapped
      PROVE  /\ JoinAlone' /\ JoinKeepsHandle'
             /\ HandleIsOpen' /\ HandleIsSingle' /\ OpenIsOwned' /\ LostIsOpen'
  <2>1. JoinAlone' /\ JoinKeepsHandle'
    BY <1>1, <1>4, <1>7, HandleAssumption
    DEF OwnedInv, JoinAlone, JoinKeepsHandle, joinable, HandleInv, HandleTypeOK, CallsHaveObjects
  <2>2. HandleIsOpen'
    BY <1>1, <1>4, <1>5, <1>7 DEF OwnedInv, HandleIsOpen, HandleIsSingle
  <2>3. HandleIsSingle'
    BY <1>4, <1>5, <1>7 DEF OwnedInv, HandleIsSingle
  <2>4. OpenIsOwned'
    BY <1>1, <1>4, <1>5, <1>7, HandleAssumption DEF OwnedInv, OpenIsOwned
  <2>5. LostIsOpen'
    BY <1>1, <1>5, <1>7 DEF OwnedInv, LostIsOpen, HandleIsOpen
  <2> QED
    BY <2>1, <2>2, <2>3, <2>4, <2>5
<1> QED
  BY <1>1, <1>6, <1>7 DEF OwnedInv

LEMMA CloseKeepsOwned ==
  ASSUME HandleInv, OwnedInv, NEW c \in Callers, NEW o \in Objects,
         Destroy(c, o) \/ detach(c, o)
  PROVE  OwnedInv'
<1>1. /\ Release(o)
      /\ table' = Closed(native_handle_[o])
      /\ UNCHANGED <<id, call, overlapped, lost>>
      /\ \A b \in Callers : call[b].object # o
      /\ joinable(o)
  BY DEF Destroy, detach, MayUse
<1>2. \A q \in Objects : Closing(q)' <=> Closing(q)
  BY <1>1 DEF Closing
<1>3. ~Closing(o)
  BY <1>1 DEF Closing
<1>4. /\ native_handle_'[o] = None
      /\ \A q \in Objects \ {o} : /\ native_handle_'[q] = native_handle_[q]
                                  /\ thread_id_'[q] = thread_id_[q]
      /\ \A q \in Objects : native_handle_[q] \in Handles \cup {None}
      /\ \A h \in Handles : table'[h] = IF h = native_handle_[o] THEN None ELSE table[h]
      /\ lost \subseteq Handles
  BY <1>1 DEF Release, Closed, joinable, HandleInv, HandleTypeOK
<1>5. /\ ~Out(o)' /\ Out(o)
      /\ \A q \in Objects \ {o} : Out(q)' <=> Out(q)
  BY <1>1, <1>2, <1>3, <1>4 DEF Out, joinable
<1>6. CallsHaveObjects'
  BY <1>1 DEF OwnedInv, CallsHaveObjects
<1>7. ASSUME ~overlapped
      PROVE  /\ JoinAlone' /\ JoinKeepsHandle'
             /\ HandleIsOpen' /\ HandleIsSingle' /\ OpenIsOwned' /\ LostIsOpen'
  <2>1. JoinAlone' /\ JoinKeepsHandle'
    BY <1>1, <1>4, <1>7, HandleAssumption
    DEF OwnedInv, JoinAlone, JoinKeepsHandle, joinable, HandleInv, HandleTypeOK, CallsHaveObjects
  <2>2. \A q \in Objects \ {o} : Out(q) =>
          native_handle_[q] \in Handles /\ native_handle_[q] # native_handle_[o]
    BY <1>4, <1>5, <1>7 DEF OwnedInv, HandleIsSingle, Out, joinable
  <2>3. HandleIsOpen'
    BY <1>1, <1>4, <1>5, <1>7, <2>2 DEF OwnedInv, HandleIsOpen
  <2>4. HandleIsSingle'
    BY <1>4, <1>5, <1>7 DEF OwnedInv, HandleIsSingle
  <2>5. OpenIsOwned'
    BY <1>1, <1>4, <1>5, <1>7 DEF OwnedInv, OpenIsOwned
  <2>6. LostIsOpen'
    BY <1>1, <1>4, <1>5, <1>7 DEF OwnedInv, LostIsOpen, HandleIsOpen
  <2> QED
    BY <2>1, <2>3, <2>4, <2>5, <2>6
<1> QED
  BY <1>1, <1>6, <1>7 DEF OwnedInv

LEMMA BeginJoinKeepsOwned ==
  ASSUME HandleInv, OwnedInv, NEW c \in Callers, NEW o \in Objects, BeginJoin(c, o)
  PROVE  OwnedInv'
<1>1. /\ call[c] = NoCall /\ joinable(o)
      /\ call'[c].object = o /\ call'[c].at = "wait"
      /\ \A b \in Callers : b # c => call'[b] = call[b]
      /\ UNCHANGED <<native_handle_, thread_id_, table, id, lost>>
      /\ overlapped' = (overlapped \/ \E b \in Callers : call[b].object = o)
      /\ o # None
  BY HandleAssumption DEF BeginJoin, HandleInv, HandleTypeOK
<1>2. CallsHaveObjects'
  BY <1>1 DEF OwnedInv, CallsHaveObjects
<1>3. ASSUME ~overlapped, \A b \in Callers : call[b].object # o
      PROVE  /\ JoinAlone' /\ JoinKeepsHandle'
             /\ HandleIsOpen' /\ HandleIsSingle' /\ OpenIsOwned' /\ LostIsOpen'
  <2>1. \A q \in Objects : Out(q)' <=> Out(q)
    BY <1>1, <1>3 DEF Out, joinable, Closing, NoCall
  <2>2. JoinAlone' /\ JoinKeepsHandle'
    BY <1>1, <1>3 DEF OwnedInv, JoinAlone, JoinKeepsHandle, joinable
  <2>3. HandleIsOpen' /\ HandleIsSingle' /\ OpenIsOwned' /\ LostIsOpen'
    BY <1>1, <1>3, <2>1
    DEF OwnedInv, HandleIsOpen, HandleIsSingle, OpenIsOwned, LostIsOpen
  <2> QED
    BY <2>2, <2>3
<1> QED
  BY <1>1, <1>2, <1>3 DEF OwnedInv

\* A wait that ends, either way: nothing is closed yet.
LEMMA WaitKeepsOwned ==
  ASSUME HandleInv, OwnedInv, NEW c \in Callers, EndWait(c) \/ TimeOut(c)
  PROVE  OwnedInv'
<1>1. /\ call[c].at = "wait"
      /\ \/ call'[c].at = "close" /\ call'[c].object = call[c].object
         \/ call'[c].at = "idle" /\ call'[c].object = None
      /\ \A b \in Callers : b # c => call'[b] = call[b]
      /\ UNCHANGED <<native_handle_, thread_id_, table, id, lost, overlapped>>
  BY DEF EndWait, TimeOut, NoCall, HandleInv, HandleTypeOK
<1>2. CallsHaveObjects'
  BY <1>1 DEF OwnedInv, CallsHaveObjects
<1>3. ASSUME ~overlapped
      PROVE  /\ JoinAlone' /\ JoinKeepsHandle'
             /\ HandleIsOpen' /\ HandleIsSingle' /\ OpenIsOwned' /\ LostIsOpen'
  <2>1. \A q \in Objects : Out(q)' <=> Out(q)
    BY <1>1, <1>3, HandleAssumption DEF Out, joinable, Closing
  <2>2. JoinAlone' /\ JoinKeepsHandle'
    BY <1>1, <1>3 DEF OwnedInv, JoinAlone, JoinKeepsHandle, joinable
  <2>3. HandleIsOpen' /\ HandleIsSingle' /\ OpenIsOwned' /\ LostIsOpen'
    BY <1>1, <1>3, <2>1
    DEF OwnedInv, HandleIsOpen, HandleIsSingle, OpenIsOwned, LostIsOpen
  <2> QED
    BY <2>2, <2>3
<1> QED
  BY <1>1, <1>2, <1>3 DEF OwnedInv

LEMMA CloseJoinedKeepsOwned ==
  ASSUME HandleInv, OwnedInv, NEW c \in Callers, CloseJoined(c)
  PROVE  OwnedInv'
<1>1. PICK o \in Objects : call[c].object = o
  BY DEF CloseJoined, OwnedInv, CallsHaveObjects, HandleInv, HandleTypeOK
<1>2. /\ call[c].at = "close"
      /\ call'[c].at = "clear" /\ call'[c].object = o
      /\ \A b \in Callers : b # c => call'[b] = call[b]
      /\ UNCHANGED <<native_handle_, thread_id_, id, lost, overlapped>>
      /\ table' = Closed(native_handle_[o])
  BY <1>1 DEF CloseJoined, HandleInv, HandleTypeOK
<1>3. CallsHaveObjects'
  BY <1>2, HandleAssumption DEF OwnedInv, CallsHaveObjects
<1>4. ASSUME ~overlapped
      PROVE  /\ JoinAlone' /\ JoinKeepsHandle'
             /\ HandleIsOpen' /\ HandleIsSingle' /\ OpenIsOwned' /\ LostIsOpen'
  <2>1. Out(o)
    <3>1. joinable(o)
      BY <1>1, <1>2, <1>4 DEF OwnedInv, JoinKeepsHandle
    <3>2. ~Closing(o)
      BY <1>1, <1>2, <1>4, HandleAssumption DEF OwnedInv, JoinAlone, Closing
    <3> QED
      BY <3>1, <3>2 DEF Out
  <2>2. ~Out(o)' /\ \A q \in Objects \ {o} : Out(q)' <=> Out(q)
    BY <1>2 DEF Out, joinable, Closing
  <2>3. /\ native_handle_[o] \in Handles /\ native_handle_[o] \notin lost
        /\ \A h \in Handles : table'[h] = IF h = native_handle_[o] THEN None ELSE table[h]
        /\ lost \subseteq Handles
        /\ \A q \in Objects : native_handle_[q] \in Handles \cup {None}
    BY <1>2, <1>4, <2>1, HandleAssumption
    DEF Closed, Out, joinable, HandleInv, HandleTypeOK, OwnedInv, HandleIsOpen
  <2>4. \A q \in Objects \ {o} : Out(q) =>
          native_handle_[q] \in Handles /\ native_handle_[q] # native_handle_[o]
    BY <1>4, <2>1, <2>3 DEF OwnedInv, HandleIsSingle, Out, joinable
  <2>5. JoinAlone' /\ JoinKeepsHandle'
    BY <1>1, <1>2, <1>4 DEF OwnedInv, JoinAlone, JoinKeepsHandle, joinable
  <2>6. HandleIsOpen'
    <3> SUFFICES ASSUME NEW q \in Objects, Out(q)'
                 PROVE  /\ table'[native_handle_[q]] # None
                        /\ id[table'[native_handle_[q]]] = thread_id_[q]
                        /\ native_handle_[q] \notin lost
      BY <1>2 DEF HandleIsOpen
    <3>1. q \in Objects \ {o} /\ Out(q)
      BY <2>2
    <3>2. table'[native_handle_[q]] = table[native_handle_[q]]
      BY <2>3, <2>4, <3>1
    <3> QED
      BY <1>4, <3>1, <3>2 DEF OwnedInv, HandleIsOpen
  <2>7. HandleIsSingle'
    BY <1>2, <1>4, <2>2 DEF OwnedInv, HandleIsSingle
  <2>8. OpenIsOwned' /\ LostIsOpen'
    BY <1>2, <1>4, <2>2, <2>3 DEF OwnedInv, OpenIsOwned, LostIsOpen
  <2> QED
    BY <2>5, <2>6, <2>7, <2>8
<1> QED
  BY <1>2, <1>3, <1>4 DEF OwnedInv

LEMMA EndJoinKeepsOwned ==
  ASSUME HandleInv, OwnedInv, NEW c \in Callers, EndJoin(c)
  PROVE  OwnedInv'
<1>1. PICK o \in Objects : call[c].object = o
  BY DEF EndJoin, OwnedInv, CallsHaveObjects, HandleInv, HandleTypeOK
<1>2. /\ call[c].at = "clear"
      /\ call'[c].at = "idle" /\ call'[c].object = None
      /\ \A b \in Callers : b # c => call'[b] = call[b]
      /\ UNCHANGED <<table, id, lost, overlapped>>
      /\ Release(o)
      /\ native_handle_'[o] = None
      /\ \A q \in Objects \ {o} : /\ native_handle_'[q] = native_handle_[q]
                                  /\ thread_id_'[q] = thread_id_[q]
  BY <1>1 DEF EndJoin, Release, NoCall, HandleInv, HandleTypeOK
<1>3. CallsHaveObjects'
  BY <1>2 DEF OwnedInv, CallsHaveObjects
<1>4. ASSUME ~overlapped
      PROVE  /\ JoinAlone' /\ JoinKeepsHandle'
             /\ HandleIsOpen' /\ HandleIsSingle' /\ OpenIsOwned' /\ LostIsOpen'
  <2>1. ~Out(o) /\ ~Out(o)'
    <3>1. Closing(o)
      BY <1>1, <1>2 DEF Closing
    <3> QED
      BY <1>2, <3>1 DEF Out, joinable
  <2>2. \A q \in Objects \ {o} : Out(q)' <=> Out(q)
    BY <1>1, <1>2, HandleAssumption DEF Out, joinable, Closing
  <2>3. \A b \in Callers : b # c => call[b].object # o
    BY <1>1, <1>2, <1>4, HandleAssumption DEF OwnedInv, JoinAlone
  <2>4. \A b \in Callers : call[b].object \in Objects \cup {None}
    BY DEF HandleInv, HandleTypeOK
  <2>5. JoinAlone'
    BY <1>2, <1>4 DEF OwnedInv, JoinAlone
  <2>6. JoinKeepsHandle'
    BY <1>2, <1>4, <2>3, <2>4 DEF OwnedInv, JoinKeepsHandle, CallsHaveObjects, joinable
  <2>7. HandleIsOpen'
    BY <1>2, <1>4, <2>1, <2>2 DEF OwnedInv, HandleIsOpen
  <2>8. HandleIsSingle'
    BY <1>2, <1>4, <2>1, <2>2 DEF OwnedInv, HandleIsSingle
  <2>9. OpenIsOwned' /\ LostIsOpen'
    BY <1>2, <1>4, <2>1, <2>2 DEF OwnedInv, OpenIsOwned, LostIsOpen
  <2> QED
    BY <2>5, <2>6, <2>7, <2>8, <2>9
<1> QED
  BY <1>2, <1>3, <1>4 DEF OwnedInv

LEMMA EndThreadKeepsOwned ==
  ASSUME OwnedInv, NEW w \in Workers, EndThread(w)
  PROVE  OwnedInv'
BY DEF EndThread, OwnedInv, CallsHaveObjects, JoinAlone, JoinKeepsHandle, HandleIsOpen,
       HandleIsSingle, OpenIsOwned, LostIsOpen, Out, joinable, Closing

LEMMA StepKeepsOwned == WorkerInv /\ OwnedInv /\ [Next]_vars => OwnedInv'
<1> SUFFICES ASSUME HandleInv, OwnedInv, [Next]_vars PROVE OwnedInv'
  BY DEF WorkerInv
<1>1. CASE UNCHANGED handleVars
  BY <1>1 DEF handleVars, OwnedInv, CallsHaveObjects, JoinAlone, JoinKeepsHandle,
              HandleIsOpen, HandleIsSingle, OpenIsOwned, LostIsOpen, Out, joinable, Closing
<1>2. ASSUME NEW c \in Callers, CallerStep(c) PROVE OwnedInv'
  BY <1>2, CreateKeepsOwned, MoveKeepsOwned, CloseKeepsOwned, BeginJoinKeepsOwned,
     WaitKeepsOwned, CloseJoinedKeepsOwned, EndJoinKeepsOwned
  DEF CallerStep, JoinStep
<1>3. ASSUME NEW w \in Workers, EndThread(w) PROVE OwnedInv'
  BY <1>3, EndThreadKeepsOwned
<1> QED
  BY <1>1, <1>2, <1>3 DEF Next, Caller, InCall, BeginCall, End, vars

\* While no two callers join one object at once, an open handle has exactly one
\* owner, or was lost by a move assignment; and an object out of a join has an open
\* handle with the id of its thread, for any callers, objects and handles.
\* (thread.cpp)
THEOREM HandlesAreOwned == Spec => []HandlesOwned
<1>1. HandleInv /\ OwnedInv => HandlesOwned
  <2> SUFFICES ASSUME HandleInv, OwnedInv, ~overlapped PROVE HandlesOwned
    BY DEF HandlesOwned
  <2> DEFINE Owners(h) == {o \in Objects : native_handle_[o] = h /\ ~Closing(o)}
  <2>1. ASSUME NEW h \in Handles, table[h] # None
        PROVE  Cardinality(Owners(h)) = IF h \in lost THEN 0 ELSE 1
    <3>1. \A o \in Owners(h) : Out(o)
      BY HandleAssumption DEF Out, joinable
    <3>2. CASE h \in lost
      <4>1. Owners(h) = {}
        BY <3>1, <3>2 DEF OwnedInv, HandleIsOpen
      <4> QED
        BY <3>2, <4>1, FS_EmptySet
    <3>3. CASE h \notin lost
      <4>1. PICK o \in Objects : native_handle_[o] = h /\ Out(o)
        BY <2>1, <3>3 DEF OwnedInv, OpenIsOwned
      <4>2. Owners(h) = {o}
        BY <3>1, <4>1 DEF OwnedInv, HandleIsSingle, Out
      <4> QED
        BY <3>3, <4>2, FS_Singleton
    <3> QED
      BY <3>2, <3>3
  <2>2. \A o \in Objects : joinable(o) /\ ~Closing(o) =>
          /\ table[native_handle_[o]] # None
          /\ id[table[native_handle_[o]]] = thread_id_[o]
    BY DEF OwnedInv, HandleIsOpen, Out
  <2> QED
    BY <2>1, <2>2 DEF HandlesOwned
<1>2. Spec => []OwnedInv
  BY InitOwned, StepKeepsOwned, WorkerInvariant, PTL DEF Spec
<1> QED
  BY <1>1, <1>2, WorkerInvariant, PTL DEF WorkerInv

-----------------------------------------------------------------------------
(***************************************************************************)
(* Who is joined.  An object that is out of a join has the handle of the   *)
(* thread it was meant to have, and a join has read that handle, since no  *)
(* two objects have one handle and none has a handle that was closed: that *)
(* is OwnedInv, without which a handle value given out again would lead a  *)
(* join to another thread.                                                 *)
(***************************************************************************)

HandleIsMeant == \A o \in Objects : Out(o) => table[native_handle_[o]] = meant[o]

JoinsTheMeant ==
  \A c \in Callers : call[c].at # "idle" =>
    call[c].thread = meant[call[c].object] /\ call[c].thread # None

JoinedAreDead == \A w \in joined : w \in Workers /\ life[w] \in Dead

MeantInv == ~overlapped => HandleIsMeant /\ JoinsTheMeant /\ JoinedAreDead

LEMMA InitMeant == Init => MeantInv
BY DEF Init, HandleInit, MeantInv, NoCall, joinable, HandleIsMeant, JoinsTheMeant,
       JoinedAreDead, Out

LEMMA CreateKeepsMeant ==
  ASSUME HandleInv, OwnedInv, MeantInv, LifeGoesOn, ~overlapped,
         NEW c \in Callers, NEW o \in Objects, Create(c, o)
  PROVE  HandleIsMeant' /\ JoinsTheMeant' /\ JoinedAreDead'
<1> DEFINE w == CHOOSE v \in Workers : life[v] = "unborn"
           h == AnyOf(FreeHandles)
<1>1. h \in Handles /\ table[h] = None /\ h # None
  BY HandleAssumption DEF Create, AnyOf, FreeHandles
<1>2. /\ table' = [table EXCEPT ![h] = w]
      /\ native_handle_' = [native_handle_ EXCEPT ![o] = h]
      /\ meant' = [meant EXCEPT ![o] = w]
      /\ UNCHANGED <<call, joined>>
      /\ \A b \in Callers : call[b].object # o
  BY DEF Create, MayUse
<1> HIDE DEF w, h
<1>3. \A p \in Objects : Closing(p)' <=> Closing(p)
  BY <1>2 DEF Closing
<1>4. /\ native_handle_'[o] = h /\ meant'[o] = w /\ table'[h] = w
      /\ \A p \in Objects \ {o} :
           native_handle_'[p] = native_handle_[p] /\ meant'[p] = meant[p]
      /\ \A k \in Handles \ {h} : table'[k] = table[k]
      /\ \A p \in Objects : native_handle_[p] \in Handles \cup {None}
  BY <1>1, <1>2 DEF HandleInv, HandleTypeOK
<1>5. ASSUME NEW p \in Objects, Out(p)' PROVE table'[native_handle_'[p]] = meant'[p]
  <2>1. CASE p = o
    BY <1>4, <2>1
  <2>2. CASE p # o
    <3>1. Out(p)
      BY <1>3, <1>4, <1>5, <2>2 DEF Out, joinable
    <3>2. table[native_handle_[p]] # None /\ native_handle_[p] \in Handles
      BY <1>4, <3>1 DEF OwnedInv, HandleIsOpen, Out, joinable
    <3>3. table[native_handle_[p]] = meant[p]
      BY <3>1 DEF MeantInv, HandleIsMeant
    <3> QED BY <1>1, <1>4, <2>2, <3>2, <3>3
  <2> QED BY <2>1, <2>2
<1>6. JoinsTheMeant'
  <2>1. \A b \in Callers : call[b].at # "idle" => call[b].object \in Objects \ {o}
    BY <1>2 DEF OwnedInv, CallsHaveObjects, HandleInv, HandleTypeOK
  <2> QED BY <1>2, <1>4, <2>1 DEF MeantInv, JoinsTheMeant
<1>7. JoinedAreDead'
  BY <1>2 DEF MeantInv, JoinedAreDead, LifeGoesOn, Dead
<1> QED BY <1>5, <1>6, <1>7 DEF HandleIsMeant

LEMMA MoveKeepsMeant ==
  ASSUME HandleInv, OwnedInv, MeantInv, LifeGoesOn, ~overlapped,
         NEW c \in Callers, NEW o \in Objects, NEW p \in Objects,
         MoveConstruct(c, o, p) \/ MoveAssign(c, o, p)
  PROVE  HandleIsMeant' /\ JoinsTheMeant' /\ JoinedAreDead'
<1>1. /\ MoveOut(o, p)
      /\ UNCHANGED <<table, call, joined>>
      /\ \A b \in Callers : call[b].object \notin {o, p}
  BY DEF MoveConstruct, MoveAssign, MayUse
<1>2. \A q \in Objects : Closing(q)' <=> Closing(q)
  BY <1>1 DEF Closing
<1>3. ~Closing(o) /\ ~Closing(p)
  BY <1>1 DEF Closing
<1>4. /\ native_handle_'[o] = None
      /\ p # o => native_handle_'[p] = native_handle_[o] /\ meant'[p] = meant[o]
      /\ \A q \in Objects \ {o, p} :
           native_handle_'[q] = native_handle_[q] /\ meant'[q] = meant[q]
  BY <1>1 DEF MoveOut, HandleInv, HandleTypeOK
<1>5. /\ ~Out(o)'
      /\ p # o => (Out(p)' <=> Out(o))
      /\ \A q \in Objects \ {o, p} : Out(q)' <=> Out(q)
  BY <1>2, <1>3, <1>4 DEF Out, joinable
<1>6. HandleIsMeant'
  BY <1>1, <1>4, <1>5 DEF MeantInv, HandleIsMeant
<1>7. JoinsTheMeant'
  <2>1. \A b \in Callers : call[b].at # "idle" => call[b].object \in Objects \ {o, p}
    BY <1>1 DEF OwnedInv, CallsHaveObjects, HandleInv, HandleTypeOK
  <2> QED BY <1>1, <1>4, <2>1 DEF MeantInv, JoinsTheMeant
<1>8. JoinedAreDead'
  BY <1>1 DEF MeantInv, JoinedAreDead, LifeGoesOn, Dead
<1> QED BY <1>6, <1>7, <1>8

LEMMA CloseKeepsMeant ==
  ASSUME HandleInv, OwnedInv, MeantInv, LifeGoesOn, ~overlapped,
         NEW c \in Callers, NEW o \in Objects, Destroy(c, o) \/ detach(c, o)
  PROVE  HandleIsMeant' /\ JoinsTheMeant' /\ JoinedAreDead'
<1>1. /\ Release(o)
      /\ table' = Closed(native_handle_[o])
      /\ UNCHANGED <<call, joined>>
      /\ \A b \in Callers : call[b].object # o
      /\ joinable(o)
  BY DEF Destroy, detach, MayUse
<1>2. \A q \in Objects : Closing(q)' <=> Closing(q)
  BY <1>1 DEF Closing
<1>3. Out(o)
  BY <1>1 DEF Out, Closing
<1>4. /\ native_handle_'[o] = None
      /\ \A q \in Objects \ {o} :
           native_handle_'[q] = native_handle_[q] /\ meant'[q] = meant[q]
      /\ \A q \in Objects : native_handle_[q] \in Handles \cup {None}
      /\ \A h \in Handles : table'[h] = IF h = native_handle_[o] THEN None ELSE table[h]
  BY <1>1 DEF Release, Closed, joinable, HandleInv, HandleTypeOK
<1>5. ASSUME NEW q \in Objects, Out(q)' PROVE table'[native_handle_'[q]] = meant'[q]
  <2>1. q # o /\ Out(q)
    BY <1>2, <1>4, <1>5 DEF Out, joinable
  <2>2. native_handle_[q] \in Handles /\ native_handle_[q] # native_handle_[o]
    BY <1>3, <1>4, <2>1 DEF OwnedInv, HandleIsSingle, Out, joinable
  <2> QED BY <1>4, <2>1, <2>2 DEF MeantInv, HandleIsMeant
<1>6. JoinsTheMeant'
  <2>1. \A b \in Callers : call[b].at # "idle" => call[b].object \in Objects \ {o}
    BY <1>1 DEF OwnedInv, CallsHaveObjects, HandleInv, HandleTypeOK
  <2> QED BY <1>1, <1>4, <2>1 DEF MeantInv, JoinsTheMeant
<1>7. JoinedAreDead'
  BY <1>1 DEF MeantInv, JoinedAreDead, LifeGoesOn, Dead
<1> QED BY <1>5, <1>6, <1>7 DEF HandleIsMeant

\* A join begins with the thread that is meant: the object is out of a join.
LEMMA BeginJoinKeepsMeant ==
  ASSUME HandleInv, OwnedInv, MeantInv, ~overlapped,
         NEW c \in Callers, NEW o \in Objects, BeginJoin(c, o), ~overlapped'
  PROVE  HandleIsMeant' /\ JoinsTheMeant' /\ JoinedAreDead'
<1>1. /\ call[c] = NoCall /\ joinable(o)
      /\ call'[c].object = o /\ call'[c].at = "wait"
      /\ call'[c].thread = table[native_handle_[o]]
      /\ \A b \in Callers : b # c => call'[b] = call[b]
      /\ UNCHANGED <<native_handle_, table, life, meant, joined>>
      /\ \A b \in Callers : call[b].object # o
  BY DEF BeginJoin, HandleInv, HandleTypeOK
<1>2. \A q \in Objects : Out(q)' <=> Out(q)
  BY <1>1 DEF Out, joinable, Closing, NoCall
<1>3. Out(o)
  BY <1>1 DEF Out, Closing
<1>4. table[native_handle_[o]] = meant[o] /\ table[native_handle_[o]] # None
  BY <1>3 DEF MeantInv, HandleIsMeant, OwnedInv, HandleIsOpen
<1>5. HandleIsMeant'
  BY <1>1, <1>2 DEF MeantInv, HandleIsMeant
<1>6. JoinsTheMeant'
  BY <1>1, <1>4 DEF MeantInv, JoinsTheMeant
<1>7. JoinedAreDead'
  BY <1>1 DEF MeantInv, JoinedAreDead
<1> QED BY <1>5, <1>6, <1>7

LEMMA WaitKeepsMeant ==
  ASSUME HandleInv, MeantInv, ~overlapped, NEW c \in Callers, EndWait(c) \/ TimeOut(c)
  PROVE  HandleIsMeant' /\ JoinsTheMeant' /\ JoinedAreDead'
<1>1. /\ call[c].at = "wait"
      /\ \/ /\ call'[c].at = "close" /\ call'[c].object = call[c].object
            /\ call'[c].thread = call[c].thread
         \/ call'[c].at = "idle"
      /\ \A b \in Callers : b # c => call'[b] = call[b]
      /\ UNCHANGED <<native_handle_, table, life, meant, joined>>
  BY DEF EndWait, TimeOut, NoCall, HandleInv, HandleTypeOK
<1>2. \A q \in Objects : Out(q)' <=> Out(q)
  BY <1>1 DEF Out, joinable, Closing
<1>3. HandleIsMeant'
  BY <1>1, <1>2 DEF MeantInv, HandleIsMeant
<1>4. JoinsTheMeant'
  BY <1>1 DEF MeantInv, JoinsTheMeant
<1>5. JoinedAreDead'
  BY <1>1 DEF MeantInv, JoinedAreDead
<1> QED BY <1>3, <1>4, <1>5

LEMMA CloseJoinedKeepsMeant ==
  ASSUME HandleInv, OwnedInv, MeantInv, ~overlapped, NEW c \in Callers, CloseJoined(c)
  PROVE  HandleIsMeant' /\ JoinsTheMeant' /\ JoinedAreDead'
<1>1. PICK o \in Objects : call[c].object = o
  BY DEF CloseJoined, OwnedInv, CallsHaveObjects, HandleInv, HandleTypeOK
<1>2. /\ call[c].at = "close"
      /\ call'[c].at = "clear" /\ call'[c].object = o /\ call'[c].thread = call[c].thread
      /\ \A b \in Callers : b # c => call'[b] = call[b]
      /\ UNCHANGED <<native_handle_, life, meant, joined>>
      /\ table' = Closed(native_handle_[o])
  BY <1>1 DEF CloseJoined, HandleInv, HandleTypeOK
<1>3. Out(o)
  <2>1. joinable(o)
    BY <1>1, <1>2 DEF OwnedInv, JoinKeepsHandle
  <2>2. ~Closing(o)
    BY <1>1, <1>2, HandleAssumption DEF OwnedInv, JoinAlone, Closing
  <2> QED BY <2>1, <2>2 DEF Out
<1>4. ~Out(o)' /\ \A q \in Objects \ {o} : Out(q)' <=> Out(q)
  BY <1>2 DEF Out, joinable, Closing
<1>5. /\ \A h \in Handles : table'[h] = IF h = native_handle_[o] THEN None ELSE table[h]
      /\ \A q \in Objects : native_handle_[q] \in Handles \cup {None}
  BY <1>2, <1>3 DEF Closed, Out, joinable, HandleInv, HandleTypeOK
<1>6. ASSUME NEW q \in Objects, Out(q)' PROVE table'[native_handle_[q]] = meant[q]
  <2>1. q # o /\ Out(q)
    BY <1>4, <1>6
  <2>2. native_handle_[q] \in Handles /\ native_handle_[q] # native_handle_[o]
    BY <1>3, <1>5, <2>1 DEF OwnedInv, HandleIsSingle, Out, joinable
  <2> QED BY <1>5, <2>1, <2>2 DEF MeantInv, HandleIsMeant
<1>7. HandleIsMeant'
  BY <1>2, <1>6 DEF HandleIsMeant
<1>8. JoinsTheMeant'
  BY <1>1, <1>2 DEF MeantInv, JoinsTheMeant
<1>9. JoinedAreDead'
  BY <1>2 DEF MeantInv, JoinedAreDead
<1> QED BY <1>7, <1>8, <1>9

\* What a join reports is the thread it waited for, which has ended.
LEMMA EndJoinKeepsMeant ==
  ASSUME HandleInv, OwnedInv, MeantInv, ~overlapped, NEW c \in Callers, EndJoin(c)
  PROVE  HandleIsMeant' /\ JoinsTheMeant' /\ JoinedAreDead'
<1>1. PICK o \in Objects : call[c].object = o
  BY DEF EndJoin, OwnedInv, CallsHaveObjects, HandleInv, HandleTypeOK
<1>2. /\ call[c].at = "clear"
      /\ call'[c].at = "idle"
      /\ \A b \in Callers : b # c => call'[b] = call[b]
      /\ UNCHANGED <<table, life>>
      /\ joined' = joined \cup {meant[o]}
      /\ native_handle_'[o] = None
      /\ \A q \in Objects \ {o} :
           native_handle_'[q] = native_handle_[q] /\ meant'[q] = meant[q]
  BY <1>1 DEF EndJoin, Release, NoCall, HandleInv, HandleTypeOK
<1>3. ~Out(o)' /\ \A q \in Objects \ {o} : Out(q)' <=> Out(q)
  BY <1>1, <1>2, HandleAssumption DEF Out, joinable, Closing
<1>4. \A b \in Callers \ {c} : call[b].at # "idle" => call[b].object \in Objects \ {o}
  BY <1>1, <1>2, HandleAssumption
  DEF OwnedInv, JoinAlone, CallsHaveObjects, HandleInv, HandleTypeOK
<1>5. call[c].thread = meant[o] /\ call[c].thread # None
  BY <1>1, <1>2 DEF MeantInv, JoinsTheMeant
<1>6. meant[o] \in Workers /\ life[meant[o]] \in Dead
  BY <1>2, <1>5 DEF HandleInv, HandleTypeOK
<1>7. HandleIsMeant'
  BY <1>2, <1>3 DEF MeantInv, HandleIsMeant
<1>8. JoinsTheMeant'
  BY <1>2, <1>4 DEF MeantInv, JoinsTheMeant
<1>9. JoinedAreDead'
  BY <1>2, <1>6 DEF MeantInv, JoinedAreDead
<1> QED BY <1>7, <1>8, <1>9

LEMMA StepKeepsMeant == WorkerInv /\ OwnedInv /\ MeantInv /\ [Next]_vars => MeantInv'
<1> SUFFICES ASSUME HandleInv, OwnedInv, MeantInv, [Next]_vars, ~overlapped'
             PROVE  HandleIsMeant' /\ JoinsTheMeant' /\ JoinedAreDead'
  BY DEF WorkerInv, MeantInv
<1>1. CASE UNCHANGED handleVars
  BY <1>1 DEF handleVars, MeantInv, HandleIsMeant, JoinsTheMeant, JoinedAreDead,
              Out, joinable, Closing
<1>2. ASSUME NEW c \in Callers, CallerStep(c)
      PROVE  HandleIsMeant' /\ JoinsTheMeant' /\ JoinedAreDead'
  <2>1. LifeGoesOn
    BY <1>2, CallerKeeps
  <2>2. ~overlapped
    BY <1>2 DEF CallerStep, JoinStep, Create, MoveConstruct, MoveAssign, Destroy, detach,
                BeginJoin, EndWait, TimeOut, CloseJoined, EndJoin
  <2> QED
    BY <1>2, <2>1, <2>2, CreateKeepsMeant, MoveKeepsMeant, CloseKeepsMeant,
       BeginJoinKeepsMeant, WaitKeepsMeant, CloseJoinedKeepsMeant, EndJoinKeepsMeant
    DEF CallerStep, JoinStep
<1>3. ASSUME NEW w \in Workers, EndThread(w)
      PROVE  HandleIsMeant' /\ JoinsTheMeant' /\ JoinedAreDead'
  <2>1. LifeGoesOn
    BY <1>3, EndThreadKeeps
  <2>2. ~overlapped /\ UNCHANGED <<native_handle_, table, call, meant, joined>>
    BY <1>3 DEF EndThread
  <2> QED
    BY <2>1, <2>2 DEF MeantInv, HandleIsMeant, JoinsTheMeant, JoinedAreDead,
                      Out, joinable, Closing, LifeGoesOn, Dead
<1> QED
  BY <1>1, <1>2, <1>3 DEF Next, Caller, InCall, BeginCall, End, vars

\* While no two callers join one object at once, a join that returned waited for
\* the thread that was last made or moved into its object, and that thread has
\* ended: never for one that was moved away, joined or detached before, nor for a
\* stranger that the kernel gave the handle value to. For any callers, objects,
\* threads and handle values. (thread::join, thread::join_for)
THEOREM JoinedHaveEnded == Spec => []JoinedMeansEnded
<1>1. MeantInv => JoinedMeansEnded
  BY DEF MeantInv, JoinedAreDead, JoinedMeansEnded, Dead
<1>2. Spec => []OwnedInv
  BY InitOwned, StepKeepsOwned, WorkerInvariant, PTL DEF Spec
<1> QED
  BY <1>1, <1>2, InitMeant, StepKeepsMeant, WorkerInvariant, PTL DEF Spec

=============================================================================
