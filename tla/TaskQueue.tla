------------------------------ MODULE TaskQueue ------------------------------
(***************************************************************************)
(* What a BlockTaskQueue promises its callers, without threads, locks or   *)
(* wake-ups: a first-in first-out queue of bounded length that gives every *)
(* accepted task to exactly one caller, and calls that give up only for    *)
(* the reason they report.                                                 *)
(***************************************************************************)
EXTENDS Naturals, Sequences

CONSTANTS
  Threads,        \* the callers
  Interruptible,  \* the functions that are called with an interrupt condition
  Task,
  Capacity        \* 0: no limit

VARIABLES
  queue,
  interrupt,      \* whether the interrupt condition holds
  fn,             \* the function each caller is in, or "none"
  got,            \* the tasks each caller was given, in order
  ret             \* the result of its last call, "none" during a call

queueVars == <<queue, interrupt, fn, got, ret>>

Room == Capacity = 0 \/ Len(queue) < Capacity

QueueInit ==
  /\ queue = <<>>
  /\ interrupt = FALSE
  /\ fn = [t \in Threads |-> "none"]
  /\ got = [t \in Threads |-> <<>>]
  /\ ret = [t \in Threads |-> "none"]

Call(t, f) ==
  /\ fn[t] = "none"
  /\ fn' = [fn EXCEPT ![t] = f]
  /\ ret' = [ret EXCEPT ![t] = "none"]
  /\ UNCHANGED <<queue, interrupt, got>>

Return(t) ==
  /\ ret[t] # "none"
  /\ fn' = [fn EXCEPT ![t] = "none"]
  /\ UNCHANGED <<queue, interrupt, got, ret>>

Settle(t, result) == ret[t] = "none" /\ ret' = [ret EXCEPT ![t] = result]

Add(t, n) ==
  /\ fn[t] \in {"AddTask", "AddTaskA"}
  /\ Room
  /\ queue' = Append(queue, n)
  /\ Settle(t, "Success")
  /\ UNCHANGED <<interrupt, fn, got>>

Fetch(t) ==
  /\ fn[t] \in {"FetchTask", "FetchTaskA"}
  /\ queue # <<>>
  /\ got' = [got EXCEPT ![t] = Append(@, Head(queue))]
  /\ queue' = Tail(queue)
  /\ Settle(t, "Success")
  /\ UNCHANGED <<interrupt, fn>>

FetchAll(t) ==
  /\ fn[t] = "FetchAllTask"
  /\ got' = [got EXCEPT ![t] = @ \o queue]
  /\ queue' = <<>>
  /\ Settle(t, "Success")
  /\ UNCHANGED <<interrupt, fn>>

\* A call is interrupted only under its interrupt condition, and times out only
\* while it could not have been served.
GiveUp(t) ==
  /\ \/ /\ interrupt /\ fn[t] \in Interruptible
        /\ Settle(t, "Interrupted")
     \/ /\ \/ fn[t] = "AddTaskA" /\ ~Room
           \/ fn[t] = "FetchTaskA" /\ queue = <<>>
        /\ Settle(t, "TimeOut")
  /\ UNCHANGED <<queue, interrupt, fn, got>>

Interrupt ==
  /\ interrupt' = TRUE
  /\ UNCHANGED <<queue, fn, got, ret>>

\* The interrupting call has no outcome of its own.
EndInterrupt(t) ==
  /\ fn[t] \in {"InterruptFetch", "InterruptAdd"} /\ interrupt
  /\ Settle(t, "Success")
  /\ fn' = [fn EXCEPT ![t] = "none"]
  /\ UNCHANGED <<queue, interrupt, got>>

QueueNext ==
  \/ Interrupt
  \/ \E t \in Threads :
       \/ \E f \in {"AddTask", "AddTaskA", "FetchTask", "FetchTaskA",
                    "FetchAllTask", "InterruptFetch", "InterruptAdd"} : Call(t, f)
       \/ \E n \in Task : Add(t, n)
       \/ Fetch(t) \/ FetchAll(t) \/ GiveUp(t) \/ EndInterrupt(t) \/ Return(t)

QueueSpec == QueueInit /\ [][QueueNext]_queueVars

=============================================================================
