-------------------------- MODULE MCServiceShutdown --------------------------
(***************************************************************************)
(* Instance of ServiceShutdown for TLC: two workers, the event loop and    *)
(* three requests, one of them HEAD: one that waits, one that is delegated *)
(* or throws, and one that comes later.                                    *)
(***************************************************************************)
EXTENDS ServiceShutdown

CONSTANTS w1, w2, r1, r2, r3

MCWorkers == {w1, w2}
MCRequests3 == {r1, r2, r3}
MCHead == {r3}
=============================================================================
