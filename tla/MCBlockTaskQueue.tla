--------------------------- MODULE MCBlockTaskQueue ---------------------------
(* Small sets of threads for the queue; each .cfg says who calls what.        *)
EXTENDS BlockTaskQueue, TLC

CONSTANTS p1, p2, w1, w2, x1

ThreeThreads == {p1, w1, x1}
TwoAndTwo == {p1, p2, w1, w2}
OneAndInterrupt == {w1, x1}

\* Every function of the queue, between three threads.
AllFunctions ==
  p1 :> {"AddTask", "AddTaskA"} @@ w1 :> {"FetchTask", "FetchTaskA"}
    @@ x1 :> {"AddTaskA", "FetchTaskA", "FetchAllTask", "InterruptFetch", "InterruptAdd"}

TwoWorkers ==
  p1 :> {"AddTask"} @@ p2 :> {"AddTask"} @@ w1 :> {"FetchTask"} @@ w2 :> {"FetchTask"}

FetchAndInterrupt == w1 :> {"FetchTask"} @@ x1 :> {"InterruptFetch"}

SomeInterruptible == {"AddTask", "FetchTask"}
NoFunction == {}
NoOne == {}
W12 == {w1, w2}

=============================================================================
