------------------------ MODULE ServiceShutdown_proofs ------------------------
(***************************************************************************)
(* Proofs about ServiceShutdown, for every number of workers and requests  *)
(* and any exceptions.                                                     *)
(*                                                                         *)
(* What RequestExecution maintains is maintained through the shutdown,     *)
(* because every step is one of its steps or none (CalmStep). While no     *)
(* exception was thrown there is moreover somebody for the waiting list;   *)
(* the closure is freed when all threads are idle, and stays as it is.     *)
(* Put together: nobody but the delegated is left to answer (OnlyLost).    *)
(***************************************************************************)
EXTENDS ServiceShutdown, RequestExecution_proofs

\* A freed closure has no thread at work.
FreedIsIdle == stage = "freed" => \A t \in Threads : pc[t] = "idle"

ServedUnlessThrown == ~threw => WaitingHasProcessor /\ NoHarm

ShutdownInv ==
    /\ InvLost
    /\ threw \in BOOLEAN
    /\ ServedUnlessThrown
    /\ FreedIsIdle

----------------------------------------------------------------------------
\* A step of the service that is shut down is a step of RequestExecution, and
\* one without an exception unless threw tells so.
LEMMA CalmStep ==
    ASSUME threw \in BOOLEAN, [ShutdownNext]_shutdownVars
    PROVE  /\ [Next]_vars
           /\ threw' \in BOOLEAN
           /\ ~threw' => ~threw /\ [QuietNext]_vars
<1>1. ASSUME NEW t \in Workers, ReceiveWhileServing(t)
      PROVE  Next /\ QuietNext /\ threw' = threw
  BY <1>1 DEF ReceiveWhileServing, Next, QuietNext
<1>2. ASSUME NEW t \in Threads, GoOn(t)
      PROVE  Next /\ QuietNext /\ threw' = threw
  BY <1>2 DEF GoOn, Next, QuietNext
<1>5. ASSUME NEW t \in Threads, ThrowUp(t)
      PROVE  Next /\ threw' = TRUE
  BY <1>5 DEF ThrowUp, Next
<1>3. CASE AnswerWhileLoopRuns
  BY <1>3 DEF AnswerWhileLoopRuns, Next, QuietNext
<1>4. CASE \/ StopEventLoop \/ StopService \/ Free \/ UNCHANGED shutdownVars
  BY <1>4 DEF StopEventLoop, StopService, Free, shutdownVars
<1> QED BY <1>1, <1>2, <1>3, <1>4, <1>5 DEF ShutdownNext

\* The behaviour of the requests under a shutdown is one of RequestExecution.
THEOREM ShutdownIsExecution == ShutdownSpec => Spec
<1> DEFINE T == threw \in BOOLEAN
<1>1. ShutdownInit => Init /\ T
  BY DEF ShutdownInit
<1>2. T /\ [ShutdownNext]_shutdownVars => [Next]_vars /\ T'
  BY CalmStep
<1> HIDE DEF T
<1> QED BY <1>1, <1>2, PTL DEF ShutdownSpec, Spec

\* Freeing needs idle threads, and afterwards nothing moves.
LEMMA FreedStep == FreedIsIdle /\ [ShutdownNext]_shutdownVars => FreedIsIdle'
<1> SUFFICES ASSUME FreedIsIdle, [ShutdownNext]_shutdownVars, stage' = "freed"
             PROVE  (\A t \in Threads : pc[t] = "idle")'
  BY DEF FreedIsIdle
<1>1. UNCHANGED vars
  BY DEF ShutdownNext, ReceiveWhileServing, GoOn, ThrowUp,
     AnswerWhileLoopRuns, StopEventLoop, StopService, Free, shutdownVars
<1>2. \A t \in Threads : pc[t] = "idle"
  BY DEF FreedIsIdle, ShutdownNext, ReceiveWhileServing, GoOn, ThrowUp,
     AnswerWhileLoopRuns, StopEventLoop, StopService, Free, shutdownVars
<1> QED BY <1>1, <1>2 DEF vars

\* The invariant of the shutdown holds in every state.
LEMMA ShutdownInvHolds == ShutdownSpec => []ShutdownInv
<1>1. ShutdownInit => ShutdownInv
  <2> SUFFICES ASSUME ShutdownInit PROVE ShutdownInv
    OBVIOUS
  <2>1. InvLost BY LostInit DEF ShutdownInit
  <2>2. WaitingHasProcessor /\ NoHarm
    BY DEF ShutdownInit, Init, WaitingHasProcessor, NoHarm
  <2> QED
    BY <2>1, <2>2 DEF ShutdownInit, ShutdownInv, ServedUnlessThrown,
       FreedIsIdle
<1>2. ShutdownInv /\ [ShutdownNext]_shutdownVars => ShutdownInv'
  <2> SUFFICES ASSUME ShutdownInv, [ShutdownNext]_shutdownVars
               PROVE  ShutdownInv'
    OBVIOUS
  <2>1. [Next]_vars /\ threw' \in BOOLEAN
    BY CalmStep DEF ShutdownInv
  <2>2. InvLost'
    BY <2>1, LostInvStep DEF ShutdownInv
  <2>3. ASSUME ~threw' PROVE (WaitingHasProcessor /\ NoHarm)'
    <3>1. ~threw /\ [QuietNext]_vars
      BY <2>3, CalmStep DEF ShutdownInv
    <3>2. InvWaiting
      BY <3>1 DEF ShutdownInv, InvLost, ServedUnlessThrown, InvWaiting
    <3> QED
      BY <3>1, <3>2, WaitingStep, NoHarmStep DEF InvWaiting
  <2>4. FreedIsIdle'
    BY FreedStep DEF ShutdownInv
  <2> QED BY <2>1, <2>2, <2>3, <2>4 DEF ShutdownInv, ServedUnlessThrown
<1> QED BY <1>1, <1>2, PTL DEF ShutdownSpec

----------------------------------------------------------------------------
\* serviceClosure.hpp:62 stops the event loop before the service: the shutdown
\* costs nobody his answer but the delegated requests and, through them, those
\* that wait for exclusive access.
THEOREM OnlyLost == ShutdownSpec => []OnlyDelegatedLost
<1>1. ShutdownInv => OnlyDelegatedLost
  <2> SUFFICES ASSUME ShutdownInv, stage = "freed", ~threw, delegated = {}
               PROVE  /\ waiting = <<>> /\ ~halted /\ running = 0
                      /\ \A r \in arrived : replies[r] > 0
    BY DEF OnlyDelegatedLost
  <2>1. \A t \in Threads : pc[t] = "idle"
    BY DEF ShutdownInv, FreedIsIdle
  <2>0. WaitingHasProcessor /\ surplus = 0 /\ lost = {} /\ ~pushFailed
    BY DEF ShutdownInv, ServedUnlessThrown, NoHarm
  <2>2. waiting = <<>>
    BY <2>0, <2>1 DEF WaitingHasProcessor, CountedPCs
  <2>3. ~halted
    BY <2>0, <2>2 DEF ShutdownInv, InvLost, IInv, FlagIsList
  <2>4. running = 0
    <3>1. {t \in Threads : pc[t] \in CountedPCs} = {}
      BY <2>1 DEF CountedPCs
    <3>2. Cardinality({}) = 0 BY FS_EmptySet
    <3>3. running = Cardinality({}) + Cardinality({}) - 0
      BY <2>0, <3>1 DEF ShutdownInv, InvLost, IInv, RunningIsCounted
    <3> QED BY <3>2, <3>3
  <2>5. ASSUME NEW r \in arrived PROVE replies[r] > 0
    <3>1. HeldBy(r) = {} BY <2>1 DEF HeldBy, HeldPCs
    <3>2. DOMAIN waiting = {} BY <2>2
    <3>3. Placed(r)
      BY <2>0 DEF ShutdownInv, InvLost, Accounted
    <3> QED BY <3>1, <3>2, <3>3 DEF Placed
  <2> QED BY <2>2, <2>3, <2>4, <2>5
<1> QED BY <1>1, ShutdownInvHolds, PTL
=============================================================================
