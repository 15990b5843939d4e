---------------------------- MODULE CountDownLatch ----------------------------
(***************************************************************************)
(* CountDownLatch, QuitLatch and WorkSimultaneously (count_down_latch.h,   *)
(* work_simultaneously.h) on the condition variable of the library, with   *)
(* the predicate and the interrupt condition of ConditionVariableExt.      *)
(*                                                                         *)
(* Every thread runs one program, given by the sets it is in: a thread of  *)
(* Counters calls CountDown (Ready, Quit); one of Waiters or TimedWaiters  *)
(* calls Wait (WaitAllReady) or AWait (AWaitAllReady, InterruptedSleep); a *)
(* thread in both calls CountDownAndWait (ReadyThenWaitAllReady ...); one  *)
(* of Interrupters assigns true to the InterruptedState, which then calls  *)
(* Notify without the lock; one of Resetters calls QuitLatch::Reset.       *)
(***************************************************************************)
EXTENDS Naturals, FiniteSets

CONSTANTS
  Threads, NoThread,
  Counters, Waiters, TimedWaiters, Interrupters, Resetters,
  Count,        \* the argument of the constructor
  MaxULong      \* ULONG_MAX

ASSUME LatchAssumption ==
  /\ IsFiniteSet(Threads)
  /\ NoThread \notin Threads
  /\ Counters \cup Waiters \cup TimedWaiters \cup Interrupters \cup Resetters = Threads
  /\ Waiters \cap TimedWaiters = {}
  /\ (Interrupters \cup Resetters) \cap (Counters \cup Waiters \cup TimedWaiters) = {}
  /\ Interrupters \cap Resetters = {}
  /\ MaxULong \in Nat \ {0}
  /\ Count \in 0..MaxULong

VARIABLES
  owner,        \* of mtx_
  cv,           \* cv_
  count_,
  interrupted,  \* is_Interrupted of the InterruptedState behind the predicate
  pc,           \* where each thread is in its program
  ret,          \* what its Wait or AWait returned
  midway        \* history: who was counted, but not blocked yet, when a
                \* CountDown notified last, since the last Reset

vars == <<owner, cv, count_, interrupted, pc, ret, midway>>

CV == INSTANCE ConditionVariableXp

Waiting == Waiters \cup TimedWaiters

FirstCall(t) ==
  IF t \in Counters THEN "countdown"
  ELSE IF t \in Waiting THEN "wait"
  ELSE IF t \in Interrupters THEN "interrupt" ELSE "reset"

Init ==
  /\ CV!CvInit
  /\ count_ = Count
  /\ interrupted = FALSE
  /\ pc = [t \in Threads |-> FirstCall(t)]
  /\ ret = [t \in Threads |-> "none"]
  /\ midway = {}

Goto(t, label) == pc' = [pc EXCEPT ![t] = label]

\* History: those who were midway are remembered while somebody sleeps.
Remember == midway' = IF CV!Asleep' = {} THEN {} ELSE midway

-----------------------------------------------------------------------------
(* CountDown *)

\* Where a thread goes when its CountDown returns.
AfterCountDown(t) == IF t \in Waiting THEN "wait" ELSE "done"

\* The first check, without the lock.
CheckCount(t) ==
  /\ pc[t] = "countdown"
  /\ Goto(t, IF count_ > 0 THEN "lock" ELSE AfterCountDown(t))
  /\ UNCHANGED <<owner, cv, count_, interrupted, ret, midway>>

Decrement(n) == IF n = 0 THEN MaxULong ELSE n - 1

\* Mutant: count_-- == 0 for --count_ == 0.
CountDownPostfix(t) ==
  /\ pc[t] = "lock"
  /\ CV!Lock(t)
  /\ \/ /\ count_ > 0
        /\ count_' = Decrement(count_)
        /\ Goto(t, IF count_ = 0 THEN "notify" ELSE "unlock")
     \/ /\ count_ = 0
        /\ Goto(t, "unlock")
        /\ UNCHANGED count_
  /\ UNCHANGED <<interrupted, ret, midway>>

\* Mutant: the count goes down in the first check, outside the critical section.
CountDownUnlocked(t) ==
  /\ pc[t] = "lock"
  /\ count_ > 0
  /\ count_' = Decrement(count_)
  /\ Goto(t, IF count_' = 0 THEN "notify" ELSE AfterCountDown(t))
  /\ UNCHANGED <<owner, cv, interrupted, ret, midway>>

\* The lock and the second check; the call that reaches zero notifies.
CountDownLocked(t) ==
  /\ pc[t] = "lock"
  /\ CV!Lock(t)
  /\ \/ /\ count_ > 0
        /\ count_' = Decrement(count_)
        /\ Goto(t, IF count_' = 0 THEN "notify" ELSE "unlock")
     \/ /\ count_ = 0
        /\ Goto(t, "unlock")
        /\ UNCHANGED count_
  /\ UNCHANGED <<interrupted, ret, midway>>

NotifyLocked(t) ==
  /\ pc[t] = "notify"
  /\ CV!NotifyAll(t)
  /\ midway' = {u \in Threads : cv.pos[u] = "counted"}
  /\ Goto(t, "unlock")
  /\ UNCHANGED <<count_, interrupted, ret>>

\* ~unique_lock, at the end of every locked operation.
Unlock(t) ==
  /\ pc[t] = "unlock"
  /\ CV!Unlock(t)
  /\ Goto(t, IF t \in Waiting /\ ret[t] = "none" THEN "wait" ELSE "done")
  /\ UNCHANGED <<count_, interrupted, ret, midway>>

-----------------------------------------------------------------------------
(* Wait and AWait *)

\* One evaluation of PredicateAndInterrupte inside the critical section, and
\* what wait or wait_until make of it.  The interrupt condition comes first.
\* late says that the deadline of the call has passed.
Evaluate(t, late) ==
  \/ /\ interrupted
     /\ ret' = [ret EXCEPT ![t] = "Interrupted"]
     /\ Goto(t, "unlock")
  \/ /\ ~interrupted /\ count_ = 0
     /\ ret' = [ret EXCEPT ![t] = "Success"]
     /\ Goto(t, "unlock")
  \/ /\ ~interrupted /\ count_ > 0 /\ late
     /\ ret' = [ret EXCEPT ![t] = "TimeOut"]
     /\ Goto(t, "unlock")
  \/ /\ ~interrupted /\ count_ > 0 /\ ~late
     /\ Goto(t, "sleep")
     /\ UNCHANGED ret

MayBeLate(t) == IF t \in TimedWaiters THEN BOOLEAN ELSE {FALSE}

BeginWait(t) ==
  /\ pc[t] = "wait"
  /\ CV!Lock(t)
  /\ \E late \in MayBeLate(t) : Evaluate(t, late)
  /\ UNCHANGED <<count_, interrupted, midway>>

\* The time left is computed from a second reading of the clock.  When that one
\* is past the deadline the difference is negative and as a DWORD has no end.
Sleep(t) ==
  /\ pc[t] = "sleep"
  /\ CV!Sleep(t)
  /\ \E label \in IF t \in TimedWaiters THEN {"asleep", "endless"} ELSE {"asleep"} :
       Goto(t, label)
  /\ UNCHANGED <<count_, interrupted, ret, midway>>

WaitForSingleObject(t) ==
  /\ CV!WaitForSingleObject(t)
  /\ Remember
  /\ UNCHANGED <<count_, interrupted, pc, ret>>

\* Mutant: INFINITE is passed for the time that is left, and the other way round.
TimeOutSwapped(t) ==
  /\ t \in Waiters
  /\ CV!TimeOut(t)
  /\ Remember
  /\ UNCHANGED <<count_, interrupted, pc, ret>>

TimeOut(t) ==
  /\ t \in TimedWaiters /\ pc[t] = "asleep"
  /\ CV!TimeOut(t)
  /\ Remember
  /\ UNCHANGED <<count_, interrupted, pc, ret>>

\* Mutant: "if (!pred()) wait" for "while (!pred()) wait".
WakeUpOnce(t) ==
  /\ pc[t] \in {"asleep", "endless"}
  /\ CV!Resume(t)
  /\ ret' = [ret EXCEPT ![t] =
               IF cv.pos[t] = "timedout" THEN "TimeOut" ELSE "Success"]
  /\ Goto(t, "unlock")
  /\ UNCHANGED <<count_, interrupted, midway>>

\* Back from the event, in the critical section again, and round the loop.
WakeUp(t) ==
  /\ pc[t] \in {"asleep", "endless"}
  /\ CV!Resume(t)
  /\ \E late \in IF cv.pos[t] = "timedout" THEN {TRUE} ELSE MayBeLate(t) :
        Evaluate(t, late)
  /\ UNCHANGED <<count_, interrupted, midway>>

-----------------------------------------------------------------------------
(* InterruptedState::operator= with its notify function, and Reset *)

SetInterrupted(t) ==
  /\ pc[t] = "interrupt"
  /\ interrupted' = TRUE
  /\ Goto(t, "wake")
  /\ UNCHANGED <<owner, cv, count_, ret, midway>>

\* CountDownLatch::Notify takes no lock.
Notify(t) ==
  /\ pc[t] = "wake"
  /\ CV!NotifyAll(t)
  /\ Goto(t, "done")
  /\ UNCHANGED <<count_, interrupted, ret, midway>>

SetEvent(t) ==
  /\ CV!SetEvent(t)
  /\ Remember
  /\ UNCHANGED <<count_, interrupted, pc, ret>>

Reset(t) ==
  /\ pc[t] = "reset"
  /\ CV!Lock(t)
  /\ count_' = 1
  /\ midway' = {}
  /\ Goto(t, "unlock")
  /\ UNCHANGED <<interrupted, ret>>

-----------------------------------------------------------------------------

Step(t) ==
  \/ CheckCount(t) \/ CountDownLocked(t) \/ NotifyLocked(t) \/ Unlock(t)
  \/ BeginWait(t) \/ Sleep(t) \/ WaitForSingleObject(t) \/ WakeUp(t)
  \/ SetInterrupted(t) \/ Notify(t) \/ SetEvent(t) \/ Reset(t)

AllDone == \A t \in Threads : pc[t] = "done" /\ cv.count[t] = 0

\* The process lives on when every call has returned.
Finished == AllDone /\ UNCHANGED vars

Next == (\E t \in Threads : Step(t) \/ TimeOut(t)) \/ Finished

Spec == Init /\ [][Next]_vars

\* The threads that need not call anything: the others call CountDown.
NotCalled(t) == t \notin Counters /\ pc[t] = FirstCall(t)

\* The scheduler runs every thread that can run, and the timer of a wait runs
\* down; nobody has to call Wait, AWait or Reset, or to interrupt.
Fairness == \A t \in Threads : WF_vars(~NotCalled(t) /\ Step(t))
TimerFairness == \A t \in TimedWaiters : WF_vars(TimeOut(t))

FairSpec == Spec /\ Fairness /\ TimerFairness

-----------------------------------------------------------------------------

Labels ==
  {"countdown", "lock", "notify", "unlock", "wait", "sleep", "asleep",
   "endless", "interrupt", "wake", "reset", "done"}

TypeOK ==
  /\ CV!CvTypeOK
  /\ count_ \in 0..MaxULong
  /\ interrupted \in BOOLEAN
  /\ pc \in [Threads -> Labels]
  /\ ret \in [Threads -> {"none", "Success", "TimeOut", "Interrupted"}]
  /\ midway \subseteq Threads

\* The latch implements its abstract specification: the double check of
\* CountDown never takes count_ below zero, which would close the gate for
\* good, and the outcome of a wait is true at one instant of the wait, the
\* predicate being evaluated again after a time-out. (count_down_latch.h,
\* condition_variable.h wait_until)
L == INSTANCE Latch WITH
       Callers <- Threads, Timed <- TimedWaiters, Resettable <- Resetters # {},
       remaining <- count_, interrupt <- interrupted, outcome <- ret

ImplementsLatch == L!LatchSpec

\* The call that took the count to zero has not made all its wake-ups yet.
Notifying ==
  \E t \in Threads : pc[t] = "notify" \/ (pc[t] = "unlock" /\ cv.count[t] > 0)

\* Nobody is forgotten when the count reaches zero.  Once the call that took it
\* there has set its events, whoever was blocked has been let go, whatever
\* CountDowns, time-outs and interrupts ran around it, and nobody goes to sleep
\* any more.  Only of the threads that were counted and not blocked yet some may
\* sleep on, because their wake-ups merged; then the event is set, or another one
\* of them has left its sleep. (count_down_latch.h CountDown, Wait, AWait)
NobodyForgotten ==
  count_ = 0 /\ ~Notifying =>
    /\ CV!Asleep \subseteq midway
    /\ CV!Asleep # {} => cv.event_ \/ CV!Asleep # midway

Called(t) == ~NotCalled(t)

\* While a single thread waits and nobody interrupts or resets, its wait returns,
\* without a deadline too: no wake-up is lost, whatever the CountDowns do around
\* the sleep. (condition_variable_xp.h Wait, NotifyAll)
CallersButCounters ==
  {t \in Threads \ Counters : Called(t)} \cup (Counters \cap Waiting)

LoneWaitReturns ==
  \A t \in Waiters :
    Called(t) ~> (pc[t] = "done" \/ Cardinality(CallersButCounters) > 1)

\* Every CountDown, Reset and interrupt returns, and every wait with a deadline,
\* whatever happens to the wake-ups, unless the deadline passes between the two
\* readings of the clock. (condition_variable.h wait_until)
BoundedCallsReturn ==
  \A t \in Threads \ Waiters : Called(t) ~> pc[t] \in {"done", "endless"}

=============================================================================
