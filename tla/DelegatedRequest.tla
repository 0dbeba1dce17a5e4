-------------------------- MODULE DelegatedRequest --------------------------
(***************************************************************************)
(* What delegation promises to the thread that hands a request over: the   *)
(* response is completed once, and then, once, the request leaves the      *)
(* counter of running requests. RequestExecution relies on it: it is the   *)
(* request's way through CompleteDelegated and DoneRunRequest there.       *)
(***************************************************************************)
VARIABLE phase

DInit == phase = "open"

Respond == phase = "open" /\ phase' = "responded"

Terminate == phase = "responded" /\ phase' = "terminated"

DSpec == /\ DInit /\ [][Respond \/ Terminate]_phase
         /\ WF_phase(Respond \/ Terminate)
=============================================================================
