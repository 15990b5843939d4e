------------------------- MODULE MCThreadMessageLoop -------------------------
(* Two clients and two threads that stop the loop.                           *)
EXTENDS ThreadMessageLoop

CONSTANTS a1, a2, s1, s2

MCClients == {a1, a2}
MCStoppers == {s1, s2}

=============================================================================
