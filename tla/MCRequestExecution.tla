------------------------- MODULE MCRequestExecution -------------------------
(* Instance of RequestExecution for TLC: two workers and the event loop,    *)
(* three or four requests of which one has method HEAD. Two threads that    *)
(* reach processWaitingRequests at once need three requests: two that ask   *)
(* for exclusive access and one that is rejected or still running.          *)
EXTENDS RequestExecution, TLC

CONSTANTS w1, w2, r1, r2, r3, r4

MCWorkers == {w1, w2}
MCRequests3 == {r1, r2, r3}
MCRequests4 == {r1, r2, r3, r4}
MCHead == {r3}

\* Workers are interchangeable, and so are the requests that are not HEAD.
Symmetry3 == Permutations(MCWorkers) \cup Permutations({r1, r2})
=============================================================================
