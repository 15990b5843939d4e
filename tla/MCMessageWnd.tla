----------------------------- MODULE MCMessageWnd -----------------------------
(* Small sets of threads and messages for the message window.                *)
EXTENDS MessageWnd, TLC

CONSTANTS t1, t2, t3

MCThreads == {t1, t2, t3}
=============================================================================
