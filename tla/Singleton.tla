------------------------------ MODULE Singleton ------------------------------
(***************************************************************************)
(* SingletonT (singleton.h): GetInstance and ReleaseInstance, each with a  *)
(* double check.  The first check, and the pointer that GetInstance        *)
(* returns, are read without the mutex.                                    *)
(***************************************************************************)
CONSTANTS
  Threads, None,
  Addresses     \* what operator new may return

VARIABLES
  at,           \* where each thread is
  singleton_mtx_,
  instance_,
  allocated,    \* the instances that exist
  overlapped    \* history: the threads whose GetInstance and a ReleaseInstance
                \* were in progress together

dataVars == <<singleton_mtx_, instance_, allocated, overlapped>>

SingletonInit ==
  /\ singleton_mtx_ = None
  /\ instance_ = None
  /\ allocated = {}
  /\ overlapped = {}

Goto(t, label) == at' = [at EXCEPT ![t] = label]

GetLabels == {"getlock", "new", "getunlock", "return"}
ReleaseLabels == {"rellock", "delete", "clear", "relunlock"}

Getting == {t \in Threads : at[t] \in GetLabels}
Releasing == {t \in Threads : at[t] \in ReleaseLabels}

-----------------------------------------------------------------------------
(* GetInstance *)

CheckGet(t) ==
  /\ at[t] = "idle"
  /\ Goto(t, IF instance_ = None THEN "getlock" ELSE "return")
  /\ overlapped' = IF Releasing = {} THEN overlapped \ {t} ELSE overlapped \cup {t}
  /\ UNCHANGED <<singleton_mtx_, instance_, allocated>>

\* Mutant: no second check.
LockGetOnce(t) ==
  /\ at[t] = "getlock"
  /\ singleton_mtx_ = None
  /\ singleton_mtx_' = t
  /\ Goto(t, "new")
  /\ UNCHANGED <<instance_, allocated, overlapped>>

\* Mutant: when the second check finds an instance, the mutex is kept.
LockGetKeeping(t) ==
  /\ at[t] = "getlock"
  /\ singleton_mtx_ = None
  /\ singleton_mtx_' = t
  /\ Goto(t, IF instance_ = None THEN "new" ELSE "return")
  /\ UNCHANGED <<instance_, allocated, overlapped>>

LockGet(t) ==
  /\ at[t] = "getlock"
  /\ singleton_mtx_ = None
  /\ singleton_mtx_' = t
  /\ Goto(t, IF instance_ = None THEN "new" ELSE "getunlock")
  /\ UNCHANGED <<instance_, allocated, overlapped>>

\* instance_ = new T.  A reader may see the pointer before the object is
\* constructed; the model knows only whether it is allocated.
New(t) ==
  /\ at[t] = "new"
  /\ \E a \in Addresses \ allocated :
       allocated' = allocated \cup {a} /\ instance_' = a
  /\ Goto(t, "getunlock")
  /\ UNCHANGED <<singleton_mtx_, overlapped>>

UnlockGet(t) ==
  /\ at[t] = "getunlock"
  /\ singleton_mtx_' = None
  /\ Goto(t, "return")
  /\ UNCHANGED <<instance_, allocated, overlapped>>

\* return instance_, read again.
ReturnInstance(t) ==
  /\ at[t] = "return"
  /\ Goto(t, "idle")
  /\ UNCHANGED dataVars

-----------------------------------------------------------------------------
(* ReleaseInstance *)

CheckRelease(t) ==
  /\ at[t] = "idle"
  /\ instance_ # None
  /\ Goto(t, "rellock")
  /\ overlapped' = overlapped \cup Getting
  /\ UNCHANGED <<singleton_mtx_, instance_, allocated>>

LockRelease(t) ==
  /\ at[t] = "rellock"
  /\ singleton_mtx_ = None
  /\ singleton_mtx_' = t
  /\ Goto(t, IF instance_ = None THEN "relunlock" ELSE "delete")
  /\ UNCHANGED <<instance_, allocated, overlapped>>

Delete(t) ==
  /\ at[t] = "delete"
  /\ allocated' = allocated \ {instance_}
  /\ Goto(t, "clear")
  /\ UNCHANGED <<singleton_mtx_, instance_, overlapped>>

Clear(t) ==
  /\ at[t] = "clear"
  /\ instance_' = None
  /\ Goto(t, "relunlock")
  /\ UNCHANGED <<singleton_mtx_, allocated, overlapped>>

UnlockRelease(t) ==
  /\ at[t] = "relunlock"
  /\ singleton_mtx_' = None
  /\ Goto(t, "idle")
  /\ UNCHANGED <<instance_, allocated, overlapped>>

-----------------------------------------------------------------------------

SingletonStep(t) ==
  \/ LockGet(t) \/ New(t) \/ UnlockGet(t) \/ ReturnInstance(t)
  \/ LockRelease(t) \/ Delete(t) \/ Clear(t) \/ UnlockRelease(t)

SingletonCall(t) == CheckGet(t) \/ CheckRelease(t)

-----------------------------------------------------------------------------

SingletonTypeOK ==
  /\ singleton_mtx_ \in Threads \cup {None}
  /\ instance_ \in Addresses \cup {None}
  /\ allocated \subseteq Addresses
  /\ overlapped \subseteq Threads

\* There is at most one instance, whoever races for it and whoever is terminated
\* on the way; only one that exists is deleted; and a GetInstance that no
\* ReleaseInstance overlaps returns it. (the second check, under the mutex)
OneInstance ==
  /\ \A a, b \in allocated : a = b
  /\ \A t \in Threads : at[t] = "delete" => instance_ \in allocated
  /\ \A t \in Threads : at[t] = "return" /\ t \notin overlapped =>
       instance_ \in allocated

=============================================================================
