--------------------------- MODULE QuickStartCancel ---------------------------
(***************************************************************************)
(* QuickStartCancel (quick_start_cancel.h): a task that can be started and *)
(* cancelled again and again without waiting for its end.                  *)
(*                                                                         *)
(* Each function holds mtx_ from its first line to its last, so each is    *)
(* one step.  The actions are called inside it, as the last thing of the   *)
(* function; one that calls back (the mutex is recursive) does what the    *)
(* same call does right after the function.  An action that was never set  *)
(* throws, and so may one that makes a thread (thread.h:24): the lock goes *)
(* and the flags stay.                                                     *)
(*                                                                         *)
(* A task is a number, in the order the tasks were started.  It ends by    *)
(* itself or because it was cancelled, and calls OnTaskEnd.                *)
(***************************************************************************)
EXTENDS Naturals, FiniteSets

CONSTANTS
  MaxStarts     \* bound: how many tasks are started

ASSUME StartAssumption == MaxStarts \in Nat

VARIABLES
  start_action_, cancel_action_,  \* whether they are set
  is_running_, is_canceling_, should_start_when_finished_,
  started,      \* the number of tasks started
  alive,        \* the tasks that have not called OnTaskEnd
  cancelled,    \* the tasks cancel_action_ was called for
  mark,         \* history: the tasks started when PushCancel was last called
  asked,        \* history: whether PushStart was called after the last start
                \* and after the last PushCancel
  threw         \* history: whether an action threw

flags == <<is_running_, is_canceling_, should_start_when_finished_>>
startVars == <<start_action_, cancel_action_, flags, started, alive, cancelled,
               mark, asked, threw>>

\* Both constructors.
StartInit ==
  /\ start_action_ \in BOOLEAN /\ cancel_action_ = start_action_
  /\ is_running_ = FALSE /\ is_canceling_ = FALSE
  /\ should_start_when_finished_ = FALSE
  /\ started = 0 /\ alive = {} /\ cancelled = {}
  /\ mark = 0 /\ asked = FALSE /\ threw = FALSE

-----------------------------------------------------------------------------

\* A call of start_action_, and one of cancel_action_.  rest are the tasks alive.
CallStart(set, rest) ==
  \/ /\ set /\ started < MaxStarts
     /\ started' = started + 1
     /\ alive' = rest \cup {started + 1}
     /\ asked' = FALSE
     /\ UNCHANGED threw
  \/ /\ threw' = TRUE
     /\ alive' = rest
     /\ UNCHANGED <<started, asked>>

CallCancel(set) ==
  \/ set /\ cancelled' = cancelled \cup alive /\ UNCHANGED threw
  \/ threw' = TRUE /\ UNCHANGED cancelled

SetStartAction ==
  /\ start_action_' = TRUE
  /\ UNCHANGED <<cancel_action_, flags, started, alive, cancelled, mark, asked, threw>>

SetCancelAction ==
  /\ cancel_action_' = TRUE
  /\ UNCHANGED <<start_action_, flags, started, alive, cancelled, mark, asked, threw>>

\* Mutant: a task that is being cancelled is not waited for.
OccupiedByRunning == is_running_

\* Whether PushStart leaves the start to OnTaskEnd.
Occupied == is_running_ \/ is_canceling_

\* Mutant: the wish is not noted while the task is being cancelled.
NoteRunning == should_start_when_finished_' = is_running_

Note == should_start_when_finished_' = TRUE

PushStart(given) ==
  /\ start_action_' = (start_action_ \/ given)
  /\ \/ /\ Occupied /\ Note
        /\ asked' = TRUE
        /\ UNCHANGED <<is_running_, started, alive, threw>>
     \/ /\ ~Occupied
        /\ should_start_when_finished_' = FALSE
        /\ is_running_' = TRUE
        /\ CallStart(start_action_', alive)
  /\ UNCHANGED <<cancel_action_, is_canceling_, cancelled, mark>>

-----------------------------------------------------------------------------

\* Mutant: a wish to start again is dropped instead of the task.
CancelsTheWishAlways == is_canceling_ \/ should_start_when_finished_

\* The first PushCancel of a task keeps the wish to start again; the second one
\* drops it.
CancelsTheWish == is_canceling_

Canceling == is_running_' = FALSE /\ is_canceling_' = TRUE

PushCancel(given) ==
  /\ cancel_action_' = (cancel_action_ \/ given)
  /\ mark' = started
  /\ asked' = FALSE
  /\ \/ /\ CancelsTheWish
        /\ should_start_when_finished_' = FALSE
        /\ UNCHANGED <<is_running_, is_canceling_, cancelled, threw>>
     \/ /\ ~CancelsTheWish /\ is_running_ /\ Canceling
        /\ CallCancel(cancel_action_')
        /\ UNCHANGED should_start_when_finished_
     \/ /\ ~CancelsTheWish /\ ~is_running_
        /\ UNCHANGED <<flags, cancelled, threw>>
  /\ UNCHANGED <<start_action_, started, alive>>

\* Mutant: is_canceling_ is not reset at the end of the task.
EndedCanceling == is_running_' = should_start_when_finished_ /\ UNCHANGED is_canceling_

Ended == is_running_' = should_start_when_finished_ /\ is_canceling_' = FALSE

OnTaskEnd(t) ==
  /\ t \in alive
  /\ Ended
  /\ should_start_when_finished_' = FALSE
  /\ \/ should_start_when_finished_ /\ CallStart(start_action_, alive \ {t})
     \/ /\ ~should_start_when_finished_
        /\ alive' = alive \ {t}
        /\ UNCHANGED <<started, asked, threw>>
  /\ UNCHANGED <<start_action_, cancel_action_, cancelled, mark>>

-----------------------------------------------------------------------------

End == \E t \in alive : OnTaskEnd(t)

StartNext ==
  \/ SetStartAction \/ SetCancelAction
  \/ \E given \in BOOLEAN : PushStart(given) \/ PushCancel(given)
  \/ End

StartSpec == StartInit /\ [][StartNext]_startVars

\* Every task comes to its end.
StartFairSpec == StartSpec /\ WF_startVars(End)

-----------------------------------------------------------------------------

StartTypeOK ==
  /\ start_action_ \in BOOLEAN /\ cancel_action_ \in BOOLEAN
  /\ is_running_ \in BOOLEAN /\ is_canceling_ \in BOOLEAN
  /\ ~(is_running_ /\ is_canceling_)
  /\ should_start_when_finished_ \in BOOLEAN
  /\ started \in 0..MaxStarts
  /\ alive \subseteq 1..started
  /\ cancelled \subseteq 1..started
  /\ mark \in 0..started
  /\ asked \in BOOLEAN /\ threw \in BOOLEAN

Busy == is_running_ \/ is_canceling_

\* At most one task is alive, also after an action threw, and the flags say so.
\* (is_running_ || is_canceling_ of PushStart, and OnTaskEnd)
OneTaskAtATime ==
  /\ \A s, t \in alive : s = t
  /\ alive # {} => Busy

\* While no action has thrown, the object is busy only with a task, and a wish to
\* start again is noted only while it is: nothing waits for an OnTaskEnd that
\* nobody will call. (PushStart and OnTaskEnd)
BusyWithATask ==
  ~threw => /\ Busy => alive # {}
            /\ should_start_when_finished_ => Busy

\* No task that was alive when PushCancel was called goes on uncancelled, unless
\* cancel_action_ threw: a task that runs uncancelled was started later.
\* (PushCancel)
CancelReachesTheTask ==
  ~threw => \A t \in alive : t <= mark => t \in cancelled

\* A PushStart is followed by the start of a task, or by a PushCancel, as long as
\* the actions do not throw. (should_start_when_finished_)
EveryStartAnswered ==
  asked ~> (~asked \/ threw)

=============================================================================
