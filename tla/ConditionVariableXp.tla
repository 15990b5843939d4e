------------------------- MODULE ConditionVariableXp -------------------------
(***************************************************************************)
(* The condition variable every other part of the library sleeps on:       *)
(* CONDITION_VARIABLE_XP, a counter of waiters and one auto-reset event,   *)
(* used together with the CRITICAL_SECTION of a mutex.                     *)
(*                                                                         *)
(* SleepConditionVariableXp gives up the critical section in one call and  *)
(* waits for the event in another, so a waiter that is already counted may *)
(* not be blocked yet; WakeAllConditionVariableXp sets the event once per  *)
(* counted waiter, and setting a set event does nothing.  Each of these    *)
(* calls is a step of its own here.                                        *)
(*                                                                         *)
(* Next is the most general client: any thread, at any time, with or       *)
(* without the critical section where the code allows both.  The modules   *)
(* of the classes built on top INSTANCE this one and conjoin its actions   *)
(* with their own.  The critical section is never entered twice by one     *)
(* thread here: nothing in the library waits with a nested lock.           *)
(***************************************************************************)
EXTENDS Naturals, FiniteSets

CONSTANTS
  Threads,    \* the threads of the process
  NoThread    \* the owner of a critical section nobody is in

ASSUME ThreadsAssumption ==
  /\ IsFiniteSet(Threads)
  /\ NoThread \notin Threads

VARIABLES
  owner,      \* the thread inside the critical section, or NoThread
  cv          \* the CONDITION_VARIABLE_XP, and where each thread is in its functions

cvVars == <<owner, cv>>

(***************************************************************************)
(* Where a thread is in SleepConditionVariableXp: outside it; counted and  *)
(* out of the critical section; blocked in WaitForSingleObject; back from  *)
(* it with WAIT_OBJECT_0 or with WAIT_TIMEOUT, on its way to               *)
(* EnterCriticalSection.                                                   *)
(***************************************************************************)
Position == {"out", "counted", "blocked", "signalled", "timedout"}

Blocked == {t \in Threads : cv.pos[t] = "blocked"}
Asleep  == {t \in Threads : cv.pos[t] \in {"counted", "blocked"}}
Inside  == {t \in Threads : cv.pos[t] # "out"}

(***************************************************************************)
(* cv.count[t] is the local count of WakeAllConditionVariableXp in thread  *)
(* t: the calls of SetEvent it still has to make.                          *)
(***************************************************************************)
InitializeConditionVariableXp ==
  [ wait_count_ |-> 0,
    event_      |-> FALSE,
    pos         |-> [t \in Threads |-> "out"],
    count       |-> [t \in Threads |-> 0] ]

Idle(t) == cv.pos[t] = "out" /\ cv.count[t] = 0

-----------------------------------------------------------------------------
(* The mutex. *)

Lock(t) ==
  /\ owner = NoThread
  /\ Idle(t)
  /\ owner' = t
  /\ UNCHANGED cv

Unlock(t) ==
  /\ owner = t
  /\ cv.count[t] = 0
  /\ owner' = NoThread
  /\ UNCHANGED cv

-----------------------------------------------------------------------------
(* SleepConditionVariableXp, in the order of its calls. *)

Sleep(t) ==
  /\ owner = t
  /\ cv.count[t] = 0
  /\ cv' = [cv EXCEPT !.wait_count_ = @ + 1, !.pos[t] = "counted"]
  /\ owner' = NoThread

WaitForSingleObject(t) ==
  /\ cv.pos[t] = "counted"
  /\ \/ /\ cv.event_
        /\ cv' = [cv EXCEPT !.event_ = FALSE, !.pos[t] = "signalled"]
     \/ /\ ~cv.event_
        /\ cv' = [cv EXCEPT !.pos[t] = "blocked"]
  /\ UNCHANGED owner

TimeOut(t) ==
  /\ cv.pos[t] = "blocked"
  /\ cv' = [cv EXCEPT !.pos[t] = "timedout"]
  /\ UNCHANGED owner

\* Mutant: a wait that timed out is not counted down again.
ResumeCounted(t) ==
  /\ cv.pos[t] \in {"signalled", "timedout"}
  /\ owner = NoThread
  /\ cv' = [cv EXCEPT !.wait_count_ = IF cv.pos[t] = "timedout" THEN @ ELSE @ - 1,
                      !.pos[t] = "out"]
  /\ owner' = t

Resume(t) ==
  /\ cv.pos[t] \in {"signalled", "timedout"}
  /\ owner = NoThread
  /\ cv' = [cv EXCEPT !.wait_count_ = @ - 1, !.pos[t] = "out"]
  /\ owner' = t

-----------------------------------------------------------------------------
(* Waking: the caller may or may not be in the critical section. *)

\* Mutant: while (--count) for while (count--).
NotifyAllButOne(t) ==
  /\ Idle(t)
  /\ cv' = [cv EXCEPT !.count[t] = IF cv.wait_count_ = 0 THEN 0 ELSE cv.wait_count_ - 1]
  /\ UNCHANGED owner

NotifyAll(t) ==
  /\ Idle(t)
  /\ cv' = [cv EXCEPT !.count[t] = cv.wait_count_]
  /\ UNCHANGED owner

NotifyOne(t) ==
  /\ Idle(t)
  /\ cv' = [cv EXCEPT !.count[t] = 1]
  /\ UNCHANGED owner

(***************************************************************************)
(* SetEvent on an auto-reset event lets one blocked thread go and leaves   *)
(* the event reset; with no thread blocked it leaves the event set.  Which *)
(* thread goes first is the kernel's choice.                               *)
(***************************************************************************)
SetEvent(t) ==
  /\ cv.count[t] > 0
  /\ \/ \E b \in Blocked :
          cv' = [cv EXCEPT !.count[t] = @ - 1, !.pos[b] = "signalled"]
     \/ /\ Blocked = {}
        /\ cv' = [cv EXCEPT !.count[t] = @ - 1, !.event_ = TRUE]
  /\ UNCHANGED owner

-----------------------------------------------------------------------------

CvInit ==
  /\ owner = NoThread
  /\ cv = InitializeConditionVariableXp

CvNext ==
  \E t \in Threads :
    \/ Lock(t) \/ Unlock(t)
    \/ Sleep(t) \/ WaitForSingleObject(t) \/ TimeOut(t) \/ Resume(t)
    \/ NotifyAll(t) \/ NotifyOne(t) \/ SetEvent(t)

CvSpec == CvInit /\ [][CvNext]_cvVars

-----------------------------------------------------------------------------

CvTypeOK ==
  /\ owner \in Threads \cup {NoThread}
  /\ cv \in [ wait_count_ : Nat,
              event_      : BOOLEAN,
              pos         : [Threads -> Position],
              count       : [Threads -> Nat] ]

\* wait_count_ counts exactly the threads inside SleepConditionVariableXp, the
\* ones that are back from the event but not yet in the critical section
\* included; the thread in the critical section is never one of them.
\* (wait_count_++ and wait_count_-- of SleepConditionVariableXp)
CountsWaiters ==
  /\ cv.wait_count_ = Cardinality(Inside)
  /\ owner \notin Inside

=============================================================================
