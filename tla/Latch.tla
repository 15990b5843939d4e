-------------------------------- MODULE Latch --------------------------------
(***************************************************************************)
(* What a CountDownLatch promises its callers, without threads, locks or   *)
(* wake-ups: a gate that opens after Count calls of CountDown, and one     *)
(* outcome for each wait, given at a single instant.                       *)
(***************************************************************************)
EXTENDS Naturals

CONSTANTS
  Callers,      \* the calls of Wait, AWait and their variants, one per thread
  Timed,        \* the ones among them that have a deadline
  Count,        \* the argument of the constructor
  Resettable    \* whether it is a QuitLatch, whose Reset closes the gate again

VARIABLES remaining, interrupt, outcome

latchVars == <<remaining, interrupt, outcome>>

LatchInit ==
  /\ remaining = Count
  /\ interrupt = FALSE
  /\ outcome = [c \in Callers |-> "none"]

CountDown ==
  /\ remaining > 0
  /\ remaining' = remaining - 1
  /\ UNCHANGED <<interrupt, outcome>>

Reset ==
  /\ Resettable
  /\ remaining' = 1
  /\ UNCHANGED <<interrupt, outcome>>

Interrupt ==
  /\ interrupt' = TRUE
  /\ UNCHANGED <<remaining, outcome>>

\* A wait ends well only while the gate is open, by its deadline only while it
\* is closed, and is broken off only when the interrupt condition holds.
Return(c, o) ==
  /\ outcome[c] = "none"
  /\ \/ o = "Success"     /\ remaining = 0 /\ ~interrupt
     \/ o = "TimeOut"     /\ remaining > 0 /\ ~interrupt /\ c \in Timed
     \/ o = "Interrupted" /\ interrupt
  /\ outcome' = [outcome EXCEPT ![c] = o]
  /\ UNCHANGED <<remaining, interrupt>>

LatchNext ==
  \/ CountDown \/ Reset \/ Interrupt
  \/ \E c \in Callers, o \in {"Success", "TimeOut", "Interrupted"} : Return(c, o)

LatchSpec == LatchInit /\ [][LatchNext]_latchVars

=============================================================================
