----------------------- MODULE RequestExecution_proofs -----------------------
(***************************************************************************)
(* Proofs about RequestExecution, for every number of threads and requests.*)
(*                                                                         *)
(* The inductive invariant has four parts besides the types: no request is *)
(* in the hands of two threads or of a thread and the event loop's backlog *)
(* (Owners), the mutex is owned by the thread that processes the list      *)
(* (MutexOwned), flag and list agree but for a push that failed            *)
(* (FlagIsList), and the counter counts (RunningIsCounted). Owners is what *)
(* RunningIsCounted needs: handing a request to the event loop must add a  *)
(* new element to the backlog.                                             *)
(***************************************************************************)
EXTENDS RequestExecution, FiniteSetTheorems, TLAPS

\* The thread works for a request.
AtWork(t) == pc[t] \notin {"idle", "issued"}

\* A request belongs to one thread or to the backlog of delegated requests.
Owners ==
    /\ delegated \subseteq arrived
    /\ \A t \in Threads : AtWork(t) => cur[t] \in arrived \ delegated
    /\ \A t, u \in Threads :
          t # u /\ AtWork(t) /\ AtWork(u) => cur[t] # cur[u]

MutexOwned == \A t \in Threads : pc[t] = "process" <=> mutex = t

FlagIsList == halted <=> waiting # <<>> \/ pushFailed

IInv == TypeOK /\ Owners /\ MutexOwned /\ FlagIsList /\ RunningIsCounted

CountedThreads == {t \in Threads : pc[t] \in CountedPCs}

----------------------------------------------------------------------------
(* Type correctness *)

\* Every variable keeps its type: in particular a thread that is not idle
\* works for a request (Owners is what makes the pushes type correct).
LEMMA TypeInit == Init => TypeOK /\ Owners
<1> SUFFICES ASSUME Init PROVE TypeOK /\ Owners
  OBVIOUS
<1>1. TypeOK
  <2>1. pc \in [Threads -> PCs] BY DEF Init, PCs
  <2>2. cur \in [Threads -> Requests \cup {NoRequest}] BY DEF Init
  <2>3. pos \in [Threads -> Nat] BY DEF Init
  <2>4. replies \in [Requests -> Nat] BY DEF Init
  <2>5. waiting \in Seq(Requests) BY DEF Init
  <2>6. halted \in BOOLEAN BY DEF Init
  <2>7. arrived \subseteq Requests /\ delegated \subseteq Requests
    BY DEF Init
  <2>8. running \in Int /\ mutex \in Threads \cup {NoThread}
    BY DEF Init
  <2>9. /\ open \subseteq Threads /\ released \subseteq Threads
        /\ lost \subseteq Requests /\ surplus \in Nat /\ pushFailed \in BOOLEAN
    BY DEF Init
  <2> QED BY <2>1, <2>2, <2>3, <2>4, <2>5, <2>6, <2>7, <2>8, <2>9 DEF TypeOK
<1>2. Owners BY DEF Init, Owners, AtWork
<1> QED BY <1>1, <1>2

\* The effects the actions are built from keep the types.
LEMMA EffectTypes ==
    ASSUME TypeOK, NEW t \in Threads
    PROVE  /\ \A l \in PCs : Goto(t, l) => pc' \in [Threads -> PCs]
           /\ \A r : Reply(r) => replies' \in [Requests -> Nat]
           /\ Return(t) \/ Leave(t) =>
                /\ pc' \in [Threads -> PCs]
                /\ cur' \in [Threads -> Requests \cup {NoRequest}]
                /\ open' \subseteq Threads /\ released' \subseteq Threads
<1>1. \A l \in PCs : Goto(t, l) => pc' \in [Threads -> PCs]
  BY DEF TypeOK, Goto
<1>2. ASSUME NEW r, Reply(r) PROVE replies' \in [Requests -> Nat]
  <2>1. replies \in [Requests -> Nat]
    BY DEF TypeOK
  <2>2. \A q \in Requests : replies[q] \in Nat /\ replies[q] + 1 \in Nat
    BY <2>1
  <2> QED BY <1>2, <2>1, <2>2 DEF Reply
<1>3. Return(t) \/ Leave(t) =>
        /\ cur' \in [Threads -> Requests \cup {NoRequest}]
        /\ open' \subseteq Threads /\ released' \subseteq Threads
  BY DEF TypeOK, Return, Leave
<1>4. "idle" \in PCs /\ "issued" \in PCs
  BY DEF PCs
<1> QED BY <1>1, <1>2, <1>3, <1>4 DEF Return, Leave

\* What the handlers of runRequest do when the loop throws keeps the types.
LEMMA UnwindTypes ==
    ASSUME TypeOK, NEW t \in Threads, Unwind(t)
    PROVE  /\ pc' \in [Threads -> PCs]
           /\ cur' \in [Threads -> Requests \cup {NoRequest}]
           /\ pos' \in [Threads -> Nat] /\ replies' \in [Requests -> Nat]
           /\ running' \in Int /\ surplus' \in Nat
           /\ open' \subseteq Threads /\ released' \subseteq Threads
<1>1. running' \in Int /\ surplus' \in Nat
  <2>1. CASE t \in open BY <2>1 DEF Unwind, TypeOK
  <2>2. CASE t \notin open BY <2>2 DEF Unwind, TypeOK
  <2> QED BY <2>1, <2>2
<1>2. replies' \in [Requests -> Nat]
  BY EffectTypes DEF Unwind, TypeOK
<1>3. pos' \in [Threads -> Nat]
  BY DEF Unwind, TypeOK
<1> QED BY <1>1, <1>2, <1>3, EffectTypes DEF Unwind

\* No step of a thread or of the event loop leaves the types.
LEMMA TypeStep == TypeOK /\ Owners /\ [Next]_vars => TypeOK'
<1> SUFFICES ASSUME TypeOK, Owners, [Next]_vars
             PROVE  TypeOK'
  OBVIOUS
<1>0. {"idle", "test", "prepare", "execute", "push", "done", "halted",
       "acquire", "process", "issued"} \subseteq PCs
  BY DEF PCs
<1>1. ASSUME NEW t \in Workers, NEW r \in Requests, Arrive(t, r) PROVE TypeOK'
  <2>1. t \in Threads BY DEF Threads
  <2>2. pc' \in [Threads -> PCs] BY <1>0, <1>1, <2>1, EffectTypes DEF Arrive
  <2>3. cur' \in [Threads -> Requests \cup {NoRequest}]
    BY <1>1 DEF Arrive, TypeOK
  <2> QED BY <1>1, <2>2, <2>3 DEF Arrive, TypeOK, handVars, ghostVars
<1>2. ASSUME NEW t \in Threads, Work(t) \/ Throw(t) PROVE TypeOK'
  <2>0. AtWork(t) => cur[t] \in Requests
    BY DEF Owners, TypeOK
  <2> USE <1>0, EffectTypes DEF TypeOK, handVars, ghostVars
  <2>1. CASE RejectHalted(t) BY <2>1 DEF RejectHalted
  <2>2. CASE PassHalted(t) BY <2>2 DEF PassHalted
  <2>3. CASE RejectInvalid(t) BY <2>3 DEF RejectInvalid
  <2>4. CASE StartRunRequest(t) BY <2>4 DEF StartRunRequest
  <2>5. CASE ExecuteReply(t) BY <2>5 DEF ExecuteReply
  <2>6. CASE ExecuteDelegate(t)
    <3>1. cur' \in [Threads -> Requests \cup {NoRequest}]
      BY <2>6 DEF ExecuteDelegate
    <3>2. delegated' \subseteq Requests
      BY <2>0, <2>6 DEF ExecuteDelegate, AtWork
    <3> QED BY <2>6, <3>1, <3>2 DEF ExecuteDelegate
  <2>7. CASE ExecuteNeedExclusive(t) BY <2>7 DEF ExecuteNeedExclusive
  <2>8. CASE ExecuteThrow(t) BY <2>8 DEF ExecuteThrow
  <2>9. CASE PushWaitingRequest(t)
    BY <2>0, <2>9 DEF PushWaitingRequest, AtWork
  <2>10. CASE DoneRunRequest(t) BY <2>10 DEF DoneRunRequest
  <2>11. CASE HaltedForMaintenance(t) BY <2>11 DEF HaltedForMaintenance
  <2>12. CASE ProcessBegin(t) BY <2>12 DEF ProcessBegin
  <2>13. CASE ProcessRequest(t) BY <2>13 DEF ProcessRequest
  <2>14. CASE ProcessEnd(t)
    <3>1. waiting' \in Seq(Requests) BY <2>14 DEF ProcessEnd
    <3>2. halted' \in BOOLEAN BY <2>14 DEF ProcessEnd
    <3> QED BY <2>14, <3>1, <3>2 DEF ProcessEnd
  <2>15. CASE ProcessThrow(t)
    BY <2>15, UnwindTypes DEF ProcessThrow, Unwind
  <2>16. CASE ExecuteIssueEnds(t) BY <2>16 DEF ExecuteIssueEnds
  <2>17. CASE ReleaseThrow(t) BY <2>0, <2>17 DEF ReleaseThrow, AtWork
  <2>18. CASE PushThrow(t) BY <2>0, <2>18 DEF PushThrow, AtWork
  <2>19. CASE IssueReturn(t) BY <2>19 DEF IssueReturn
  <2>20. CASE IssueThrow(t) BY <2>20 DEF IssueThrow
  <2> QED
    BY <1>2, <2>1, <2>2, <2>3, <2>4, <2>5, <2>6, <2>7, <2>8, <2>9, <2>10,
       <2>11, <2>12, <2>13, <2>14, <2>15, <2>16, <2>17, <2>18, <2>19, <2>20
       DEF Work, Throw
<1>3. ASSUME NEW r \in Requests, CompleteDelegated(r) PROVE TypeOK'
  <2>1. EventLoop \in Threads BY DEF Threads
  <2>2. /\ pc' \in [Threads -> PCs]
        /\ replies' \in [Requests -> Nat]
    BY <1>0, <1>3, <2>1, EffectTypes DEF CompleteDelegated
  <2>3. cur' \in [Threads -> Requests \cup {NoRequest}]
    BY <1>3 DEF CompleteDelegated, TypeOK
  <2> QED
    BY <1>3, <2>1, <2>2, <2>3 DEF CompleteDelegated, TypeOK, ghostVars
<1>4. CASE UNCHANGED vars
  BY <1>4 DEF vars, TypeOK, handVars, ghostVars
<1> QED
  BY <1>1, <1>2, <1>3, <1>4 DEF Next, QuietNext, Receive, DelegateAnswer

----------------------------------------------------------------------------
(* Ownership *)

\* Handing a request from thread to thread never leaves it with two owners.
LEMMA OwnersStep == TypeOK /\ Owners /\ [Next]_vars => Owners'
<1> SUFFICES ASSUME TypeOK, Owners, [Next]_vars
             PROVE  Owners'
  OBVIOUS
<1> USE DEF Owners, TypeOK, Goto, AtWork
<1>1. ASSUME NEW t \in Workers, NEW r \in Requests, Arrive(t, r)
      PROVE Owners'
  BY <1>1 DEF Arrive, Threads
<1>2. ASSUME NEW t \in Threads, Work(t) \/ Throw(t) PROVE Owners'
  \* The thread keeps its request or has none; nobody gets another one.
  <2>1. CASE ExecuteDelegate(t) BY <2>1 DEF ExecuteDelegate
  <2>2. CASE /\ UNCHANGED <<arrived, delegated>>
             /\ AtWork(t)
             /\ \E l \in PCs : Goto(t, l) /\ UNCHANGED cur
    BY <2>2 DEF PCs
  <2>3. CASE /\ UNCHANGED <<arrived, delegated>>
             /\ \E l \in {"idle", "issued"} :
                   Goto(t, l) /\ cur' = [cur EXCEPT ![t] = NoRequest]
    BY <2>3
  <2>4. CASE UNCHANGED <<arrived, delegated, pc, cur>>
    BY <2>4
  <2>5. ASSUME ~ExecuteDelegate(t)
        PROVE  /\ UNCHANGED <<arrived, delegated>>
               /\ \/ AtWork(t) /\ \E l \in PCs : Goto(t, l) /\ UNCHANGED cur
                  \/ Return(t)
                  \/ Leave(t)
                  \/ UNCHANGED <<pc, cur>>
    BY <1>2, <2>5
       DEF Work, Throw, RejectHalted, PassHalted, RejectInvalid,
           StartRunRequest, ExecuteReply, ExecuteIssueEnds,
           ExecuteNeedExclusive, ExecuteThrow, ReleaseThrow, PushThrow,
           IssueThrow, PushWaitingRequest, DoneRunRequest, IssueReturn,
           HaltedForMaintenance, ProcessBegin, ProcessRequest, ProcessEnd,
           ProcessThrow, Unwind, PCs
  <2>6. Return(t) \/ Leave(t) =>
          \E l \in {"idle", "issued"} :
             Goto(t, l) /\ cur' = [cur EXCEPT ![t] = NoRequest]
    BY DEF Return, Leave
  <2> QED BY <2>1, <2>2, <2>3, <2>4, <2>5, <2>6
<1>3. ASSUME NEW r \in Requests, CompleteDelegated(r) PROVE Owners'
  BY <1>3 DEF CompleteDelegated, Threads
<1>4. CASE UNCHANGED vars
  BY <1>4 DEF vars
<1> QED
  BY <1>1, <1>2, <1>3, <1>4 DEF Next, QuietNext, Receive, DelegateAnswer

\* Type correctness of RequestExecution.
THEOREM TypeCorrect == Spec => []TypeOK
<1>1. Init => TypeOK /\ Owners
  BY TypeInit
<1>2. TypeOK /\ Owners /\ [Next]_vars => (TypeOK /\ Owners)'
  BY TypeStep, OwnersStep
<1> QED
  BY <1>1, <1>2, PTL DEF Spec

----------------------------------------------------------------------------
(* Flag and waiting list *)

\* The thread in the loop of processWaitingRequests owns the mutex.
LEMMA MutexStep == TypeOK /\ Owners /\ MutexOwned /\ [Next]_vars => MutexOwned'
<1> SUFFICES ASSUME TypeOK, MutexOwned, [Next]_vars
             PROVE  MutexOwned'
  OBVIOUS
<1> USE ThreadAssumption DEF MutexOwned, TypeOK, Goto, Return, Leave, Threads
<1>1. ASSUME NEW t \in Workers, NEW r \in Requests, Arrive(t, r)
      PROVE MutexOwned'
  BY <1>1 DEF Arrive
<1>2. ASSUME NEW t \in Threads, Work(t) \/ Throw(t) PROVE MutexOwned'
  <2>1. CASE ProcessBegin(t) BY <2>1 DEF ProcessBegin
  <2>2. CASE ProcessEnd(t) BY <2>2 DEF ProcessEnd
  <2>3. CASE ProcessThrow(t) BY <2>3 DEF ProcessThrow, Unwind
  <2>4. CASE ProcessRequest(t) BY <2>4 DEF ProcessRequest
  <2>5. CASE /\ mutex' = mutex
             /\ pc[t] # "process"
             /\ \E l \in PCs \ {"process"} : Goto(t, l)
    BY <2>5
  <2>6. CASE (Work(t) \/ Throw(t)) /\ ~ProcessBegin(t) /\ ~ProcessEnd(t)
             /\ ~ProcessThrow(t) /\ ~ProcessRequest(t)
    BY <2>5, <2>6 DEF Work, Throw, RejectHalted, PassHalted, RejectInvalid,
       StartRunRequest, ExecuteReply, ExecuteDelegate, ExecuteIssueEnds,
       ExecuteNeedExclusive, ExecuteThrow, ReleaseThrow, PushThrow,
       IssueThrow, PushWaitingRequest, DoneRunRequest, IssueReturn,
       HaltedForMaintenance, PCs, Leave
  <2> QED BY <1>2, <2>1, <2>2, <2>3, <2>4, <2>6
<1>3. ASSUME NEW r \in Requests, CompleteDelegated(r) PROVE MutexOwned'
  BY <1>3 DEF CompleteDelegated
<1>4. CASE UNCHANGED vars
  BY <1>4 DEF vars
<1> QED
  BY <1>1, <1>2, <1>3, <1>4 DEF Next, QuietNext, Receive, DelegateAnswer

\* pushWaitingRequest sets the flag with the list, or alone if it throws;
\* processWaitingRequests clears both; nothing else touches one of them.
LEMMA FlagStep == TypeOK /\ FlagIsList /\ [Next]_vars => FlagIsList'
<1> SUFFICES ASSUME TypeOK, FlagIsList, [Next]_vars
             PROVE  FlagIsList'
  OBVIOUS
<1> USE DEF FlagIsList
<1>1. ASSUME NEW t \in Threads, PushWaitingRequest(t) PROVE FlagIsList'
  <2>1. waiting' # <<>>
    BY <1>1 DEF PushWaitingRequest, TypeOK
  <2> QED BY <1>1, <2>1 DEF PushWaitingRequest
<1>2. ASSUME NEW t \in Threads, ProcessEnd(t) PROVE FlagIsList'
  BY <1>2 DEF ProcessEnd
<1>3. ASSUME NEW t \in Threads, PushThrow(t) PROVE FlagIsList'
  BY <1>3 DEF PushThrow
<1>4. CASE UNCHANGED <<halted, waiting, pushFailed>>
  BY <1>4
<1>5. \/ \E t \in Threads :
           PushWaitingRequest(t) \/ ProcessEnd(t) \/ PushThrow(t)
      \/ UNCHANGED <<halted, waiting, pushFailed>>
  BY DEF Next, QuietNext, Receive, DelegateAnswer, Work, Throw, Arrive,
     RejectHalted, PassHalted, RejectInvalid, StartRunRequest, ExecuteReply,
     ExecuteDelegate, ExecuteIssueEnds, ExecuteNeedExclusive, ExecuteThrow,
     ReleaseThrow, IssueThrow, DoneRunRequest, IssueReturn,
     HaltedForMaintenance, ProcessBegin, ProcessRequest, ProcessThrow, Unwind,
     CompleteDelegated, ghostVars, vars
<1> QED
  BY <1>1, <1>2, <1>3, <1>4, <1>5

----------------------------------------------------------------------------
(* The counter of running requests *)

\* The workers and the event loop are finitely many.
LEMMA FiniteThreads == IsFiniteSet(Threads)
BY ThreadAssumption, FS_AddElement DEF Threads

\* What the counter counts are finite sets.
LEMMA CountedFinite ==
    TypeOK => IsFiniteSet(CountedThreads) /\ IsFiniteSet(delegated)
BY FiniteThreads, RequestAssumption, FS_Subset DEF CountedThreads, TypeOK

\* A thread that starts, keeps or gives up a counted place.
LEMMA CountedMove ==
    ASSUME TypeOK, NEW t \in Threads, NEW l \in PCs, Goto(t, l)
    PROVE  /\ l \in CountedPCs => CountedThreads' = CountedThreads \cup {t}
           /\ l \notin CountedPCs => CountedThreads' = CountedThreads \ {t}
BY DEF TypeOK, Goto, CountedThreads

\* No path counts a request twice or forgets it, and the exceptions behind
\* issueDelegateRequests are the only ones that take it off twice.
LEMMA CountedStep ==
    TypeOK /\ Owners /\ RunningIsCounted /\ [Next]_vars => RunningIsCounted'
<1> SUFFICES ASSUME TypeOK, Owners, RunningIsCounted, [Next]_vars
             PROVE  RunningIsCounted'
  OBVIOUS
<1> DEFINE C == Cardinality(CountedThreads)
           D == Cardinality(delegated)
<1>1. IsFiniteSet(CountedThreads) /\ IsFiniteSet(delegated)
  BY CountedFinite
<1>2. /\ C \in Nat /\ D \in Nat /\ surplus \in Nat
      /\ running = C + D - surplus
  BY <1>1, FS_CardinalityType DEF RunningIsCounted, CountedThreads, TypeOK
<1>3. RunningIsCounted' <=>
        running' = Cardinality(CountedThreads') + Cardinality(delegated')
                     - surplus'
  BY DEF RunningIsCounted, CountedThreads
<1>4. \A t \in Threads : t \in CountedThreads <=> pc[t] \in CountedPCs
  BY DEF CountedThreads
<1>5. /\ CountedPCs \subseteq PCs
      /\ {"idle", "test", "prepare", "halted", "acquire", "process", "issued"}
           = PCs \ CountedPCs
      /\ CountedPCs = {"execute", "push", "done"}
  BY DEF CountedPCs, PCs
<1> USE DEF ghostVars
<1>6. CASE UNCHANGED <<CountedThreads, delegated, running, surplus>>
  BY <1>2, <1>3, <1>6
<1>7. ASSUME NEW t \in Workers, NEW r \in Requests, Arrive(t, r)
      PROVE  RunningIsCounted'
  <2>1. t \in Threads BY DEF Threads
  <2>2. CountedThreads' = CountedThreads \ {t}
    BY <1>5, <1>7, <2>1, CountedMove DEF Arrive
  <2>3. t \notin CountedThreads
    BY <1>4, <1>5, <1>7, <2>1 DEF Arrive
  <2> QED BY <1>6, <1>7, <2>2, <2>3 DEF Arrive
<1>8. ASSUME NEW t \in Threads, Work(t) \/ Throw(t) PROVE RunningIsCounted'
  <2>1. CASE StartRunRequest(t)
    <3>1. CountedThreads' = CountedThreads \cup {t} /\ t \notin CountedThreads
      BY <1>4, <1>5, <2>1, CountedMove DEF StartRunRequest
    <3>2. Cardinality(CountedThreads') = C + 1
      BY <1>1, <3>1, FS_AddElement
    <3> QED BY <1>2, <1>3, <2>1, <3>2 DEF StartRunRequest
  <2>2. CASE ExecuteDelegate(t)
    <3>1. CountedThreads' = CountedThreads \ {t} /\ t \in CountedThreads
      BY <1>4, <1>5, <2>2, CountedMove DEF ExecuteDelegate
    <3>2. Cardinality(CountedThreads') = C - 1
      BY <1>1, <3>1, FS_RemoveElement
    <3>3. cur[t] \notin delegated
      BY <2>2 DEF ExecuteDelegate, Owners, AtWork
    <3>4. Cardinality(delegated') = D + 1
      BY <1>1, <2>2, <3>3, FS_AddElement DEF ExecuteDelegate
    <3> QED BY <1>2, <1>3, <2>2, <3>2, <3>4 DEF ExecuteDelegate
  <2>3. CASE ExecuteThrow(t) \/ ReleaseThrow(t) \/ PushThrow(t)
    <3>1. CountedThreads' = CountedThreads \ {t} /\ t \in CountedThreads
      BY <1>4, <1>5, <2>3, CountedMove
         DEF ExecuteThrow, ReleaseThrow, PushThrow, Return
    <3>2. Cardinality(CountedThreads') = C - 1
      BY <1>1, <3>1, FS_RemoveElement
    <3> QED BY <1>2, <1>3, <2>3, <3>2 DEF ExecuteThrow, ReleaseThrow, PushThrow
  <2>4. CASE DoneRunRequest(t)
    <3>1. CountedThreads' = CountedThreads \ {t} /\ t \in CountedThreads
      BY <1>4, <1>5, <2>4, CountedMove DEF DoneRunRequest, Leave
    <3>2. Cardinality(CountedThreads') = C - 1
      BY <1>1, <3>1, FS_RemoveElement
    <3> QED BY <1>2, <1>3, <2>4, <3>2 DEF DoneRunRequest
  \* The thread stays counted.
  <2>5. CASE \/ ExecuteReply(t) \/ ExecuteIssueEnds(t)
             \/ ExecuteNeedExclusive(t) \/ PushWaitingRequest(t)
    <3>0. /\ pc[t] \in CountedPCs
          /\ \E l \in CountedPCs : Goto(t, l)
      BY <1>5, <2>5
         DEF ExecuteReply, ExecuteIssueEnds, ExecuteNeedExclusive,
             PushWaitingRequest
    <3>1. CountedThreads' = CountedThreads
      <4>1. CountedThreads' = CountedThreads \cup {t}
        BY <1>5, <3>0, CountedMove
      <4> QED BY <1>4, <3>0, <4>1
    <3> QED BY <1>6, <2>5, <3>1
         DEF ExecuteReply, ExecuteIssueEnds, ExecuteNeedExclusive,
             PushWaitingRequest
  \* The thread was not counted and is not.
  <2>6. CASE \/ RejectHalted(t) \/ PassHalted(t) \/ RejectInvalid(t)
             \/ HaltedForMaintenance(t) \/ ProcessBegin(t)
             \/ ProcessEnd(t) \/ IssueReturn(t)
    <3>0. /\ pc[t] \notin CountedPCs
          /\ \E l \in PCs \ CountedPCs : Goto(t, l)
      BY <1>5, <2>6
         DEF RejectHalted, PassHalted, RejectInvalid, HaltedForMaintenance,
             ProcessBegin, ProcessEnd, IssueReturn, Return, Leave
    <3>1. CountedThreads' = CountedThreads
      BY <1>4, <3>0, CountedMove
    <3> QED BY <1>6, <2>6, <3>1
         DEF RejectHalted, PassHalted, RejectInvalid, HaltedForMaintenance,
             ProcessBegin, ProcessEnd, IssueReturn
  \* Nor was it when the handler takes the request off, so that it takes one
  \* off that was counted for nobody.
  <2>8. CASE ProcessThrow(t) \/ IssueThrow(t)
    <3>0. pc[t] \notin CountedPCs /\ Return(t)
      BY <1>5, <2>8 DEF ProcessThrow, Unwind, IssueThrow
    <3>1. CountedThreads' = CountedThreads
      BY <1>4, <1>5, <3>0, CountedMove DEF Return
    <3>2. /\ \/ running' = running - 1 /\ surplus' = surplus + 1
             \/ UNCHANGED <<running, surplus>>
          /\ delegated' = delegated
      BY <2>8 DEF ProcessThrow, Unwind, IssueThrow
    <3> QED BY <1>2, <1>3, <3>1, <3>2
  <2>7. CASE ProcessRequest(t)
    BY <1>6, <2>7 DEF ProcessRequest, CountedThreads
  <2> QED
    BY <1>8, <2>1, <2>2, <2>3, <2>4, <2>5, <2>6, <2>7, <2>8 DEF Work, Throw
<1>9. ASSUME NEW r \in Requests, CompleteDelegated(r) PROVE RunningIsCounted'
  <2>1. EventLoop \in Threads BY DEF Threads
  <2>2. /\ CountedThreads' = CountedThreads \cup {EventLoop}
        /\ EventLoop \notin CountedThreads
    BY <1>4, <1>5, <1>9, <2>1, CountedMove DEF CompleteDelegated
  <2>3. Cardinality(CountedThreads') = C + 1
    BY <1>1, <2>2, FS_AddElement
  <2>4. Cardinality(delegated') = D - 1
    BY <1>1, <1>9, FS_RemoveElement DEF CompleteDelegated
  <2> QED BY <1>2, <1>3, <1>9, <2>3, <2>4 DEF CompleteDelegated
<1>10. CASE UNCHANGED vars
  BY <1>6, <1>10 DEF vars, CountedThreads
<1> QED
  BY <1>7, <1>8, <1>9, <1>10 DEF Next, QuietNext, Receive, DelegateAnswer

----------------------------------------------------------------------------
(* The inductive invariant and what follows from it *)

\* The inductive invariant holds when the service starts.
LEMMA InvInit == Init => IInv
<1> SUFFICES ASSUME Init PROVE IInv
  OBVIOUS
<1>1. TypeOK /\ Owners BY TypeInit
<1>2. MutexOwned BY ThreadAssumption DEF Init, MutexOwned, Threads
<1>3. FlagIsList BY DEF Init, FlagIsList
<1>4. RunningIsCounted
  <2>1. {t \in Threads : pc[t] \in CountedPCs} = {}
    BY DEF Init, CountedPCs
  <2>2. running = 0 /\ delegated = {} /\ surplus = 0 BY DEF Init
  <2>3. Cardinality({}) = 0 BY FS_EmptySet
  <2> QED BY <2>1, <2>2, <2>3 DEF RunningIsCounted
<1> QED BY <1>1, <1>2, <1>3, <1>4 DEF IInv

\* Every step keeps the inductive invariant.
LEMMA InvStep == IInv /\ [Next]_vars => IInv'
BY TypeStep, OwnersStep, MutexStep, FlagStep, CountedStep DEF IInv

\* The inductive invariant holds in every state.
LEMMA InvHolds == Spec => []IInv
<1>1. Init => IInv BY InvInit
<1>2. IInv /\ [Next]_vars => IInv' BY InvStep
<1> QED BY <1>1, <1>2, PTL DEF Spec

\* The counter of running requests is exact, with or without exceptions, but
\* for what those behind issueDelegateRequests take off a second time.
THEOREM RunningExact == Spec => []RunningIsCounted
<1>1. IInv => RunningIsCounted BY DEF IInv
<1> QED BY <1>1, InvHolds, PTL

\* The maintenance flag is set exactly while requests wait, or after a push
\* that failed.
THEOREM FlagExact == Spec => []HaltedIffWaiting
<1>1. IInv => HaltedIffWaiting
  BY DEF IInv, FlagIsList, HaltedIffWaiting
<1> QED BY <1>1, InvHolds, PTL

----------------------------------------------------------------------------
(* Somebody will look at the waiting list *)

\* No exception has left anything behind.
NoHarm == surplus = 0 /\ lost = {} /\ ~pushFailed

InvWaiting == IInv /\ WaitingHasProcessor /\ NoHarm

\* What does not throw leaves nothing behind either.
LEMMA NoHarmStep == NoHarm /\ [QuietNext]_vars => NoHarm'
<1> SUFFICES ASSUME NoHarm, [QuietNext]_vars PROVE NoHarm'
  OBVIOUS
<1>1. UNCHANGED <<surplus, lost>> /\ (pushFailed' = pushFailed \/ ~pushFailed')
  BY DEF QuietNext, Receive, DelegateAnswer, Work, Arrive, RejectHalted,
     PassHalted, RejectInvalid, StartRunRequest, ExecuteReply,
     ExecuteDelegate, ExecuteIssueEnds, ExecuteNeedExclusive,
     PushWaitingRequest, DoneRunRequest, IssueReturn, HaltedForMaintenance,
     ProcessBegin, ProcessRequest, ProcessEnd, CompleteDelegated, ghostVars,
     vars
<1> QED BY <1>1 DEF NoHarm

\* The thread that brings the counter to zero goes on to test the flag; for
\* any other the exact counter shows that somebody is still running. This is
\* where the exception handlers of runRequest break it: they bring the counter
\* to zero and do not test the flag.
LEMMA WaitingStep ==
    InvWaiting /\ [QuietNext]_vars => WaitingHasProcessor'
<1> SUFFICES ASSUME InvWaiting, [QuietNext]_vars, waiting' # <<>>
             PROVE  \/ \E t \in Threads : pc'[t] \in CountedPCs
                          \cup {"halted", "acquire", "process"}
                    \/ delegated' # {}
  BY DEF WaitingHasProcessor, InvWaiting
<1>7. IInv /\ WaitingHasProcessor /\ NoHarm
  BY DEF InvWaiting
<1>9. [Next]_vars
  BY DEF Next
<1> DEFINE Busy == CountedPCs \cup {"halted", "acquire", "process"}
<1>0. TypeOK /\ FlagIsList /\ RunningIsCounted
  BY <1>7 DEF IInv
\* A thread that goes to a busy place is the one looked for.
<1>1. ASSUME NEW t \in Threads, NEW l \in Busy, Goto(t, l)
      PROVE  \E u \in Threads : pc'[u] \in Busy
  BY <1>0, <1>1 DEF TypeOK, Goto
\* A step of a thread that was not busy leaves the others where they are.
<1>2. ASSUME NEW t \in Threads, NEW l, Goto(t, l), pc[t] \notin Busy,
             waiting' = waiting, delegated' = delegated
      PROVE  (\E u \in Threads : pc'[u] \in Busy) \/ delegated' # {}
  <2>1. CASE delegated # {} BY <1>2, <2>1
  <2>2. CASE \E u \in Threads : pc[u] \in Busy
    <3>1. PICK u \in Threads : pc[u] \in Busy BY <2>2
    <3>2. pc'[u] = pc[u] BY <1>0, <1>2, <3>1 DEF TypeOK, Goto
    <3> QED BY <3>1, <3>2
  <2> QED BY <1>2, <1>7, <2>1, <2>2 DEF WaitingHasProcessor
<1>3. ASSUME NEW t \in Workers, NEW r \in Requests, Arrive(t, r)
      PROVE  (\E u \in Threads : pc'[u] \in Busy) \/ delegated' # {}
  <2>1. t \in Threads /\ pc[t] \notin Busy
    BY <1>3 DEF Arrive, Threads, CountedPCs
  <2> QED BY <1>2, <1>3, <2>1 DEF Arrive
<1>4. ASSUME NEW t \in Threads, Work(t)
      PROVE  (\E u \in Threads : pc'[u] \in Busy) \/ delegated' # {}
  <2>1. CASE \/ RejectHalted(t) \/ PassHalted(t) \/ RejectInvalid(t)
             \/ IssueReturn(t)
    <3>1. pc[t] \notin Busy
      BY <2>1 DEF RejectHalted, PassHalted, RejectInvalid, IssueReturn,
         CountedPCs
    <3> QED BY <1>2, <2>1, <3>1
            DEF RejectHalted, PassHalted, RejectInvalid, IssueReturn, Return
  <2>2. CASE \/ StartRunRequest(t) \/ ExecuteReply(t) \/ ExecuteIssueEnds(t)
             \/ ExecuteNeedExclusive(t) \/ PushWaitingRequest(t)
             \/ ProcessBegin(t)
    <3>1. \E l \in Busy : Goto(t, l)
      BY <2>2 DEF StartRunRequest, ExecuteReply, ExecuteIssueEnds,
         ExecuteNeedExclusive, PushWaitingRequest, ProcessBegin, CountedPCs
    <3> QED BY <1>1, <3>1
  <2>3. CASE ExecuteDelegate(t)
    BY <2>3 DEF ExecuteDelegate
  <2>4. CASE DoneRunRequest(t)
    <3>1. CASE running - 1 = 0
      BY <1>1, <2>4, <3>1 DEF DoneRunRequest
    <3>2. CASE running - 1 # 0
      <4>1. /\ CountedThreads' = CountedThreads \ {t}
            /\ t \in CountedThreads
        BY <1>0, <2>4, <3>2, CountedMove
           DEF DoneRunRequest, Leave, CountedThreads, CountedPCs, PCs
      <4>2. /\ running' = Cardinality(CountedThreads')
                           + Cardinality(delegated) - 0
            /\ running' # 0
        <5>1. RunningIsCounted'
          BY <1>7, <1>9, CountedStep DEF IInv
        <5>2. running' = Cardinality(CountedThreads')
                           + Cardinality(delegated') - surplus'
          BY <5>1 DEF RunningIsCounted, CountedThreads
        <5>3. /\ running' # 0 /\ delegated' = delegated /\ surplus' = 0
          BY <1>7, <2>4, <3>2 DEF DoneRunRequest, ghostVars, NoHarm
        <5> QED BY <5>2, <5>3
      <4>3. Cardinality({}) = 0
        BY FS_EmptySet
      <4>4. CountedThreads' # {} \/ delegated # {}
        <5>1. ASSUME CountedThreads' = {}, delegated = {} PROVE FALSE
          <6>1. Cardinality(CountedThreads') = 0 /\ Cardinality(delegated) = 0
            BY <4>3, <5>1
          <6>2. running' = 0 + 0 - 0
            BY <4>2, <6>1
          <6> QED BY <4>2, <6>2
        <5> QED BY <5>1
      <4> QED BY <2>4, <4>4 DEF DoneRunRequest, CountedThreads
    <3> QED BY <3>1, <3>2
  <2>5. CASE HaltedForMaintenance(t)
    <3>1. halted
      BY <1>0, <2>5 DEF HaltedForMaintenance, FlagIsList
    <3> QED BY <1>1, <2>5, <3>1 DEF HaltedForMaintenance
  <2>6. CASE ProcessRequest(t)
    BY <2>6 DEF ProcessRequest
  <2>7. CASE ProcessEnd(t)
    BY <2>7 DEF ProcessEnd
  <2> QED BY <1>4, <2>1, <2>2, <2>3, <2>4, <2>5, <2>6, <2>7
          DEF Work
<1>5. ASSUME NEW r \in Requests, CompleteDelegated(r)
      PROVE  (\E u \in Threads : pc'[u] \in Busy) \/ delegated' # {}
  BY <1>1, <1>5 DEF CompleteDelegated, Threads, CountedPCs
<1>6. CASE UNCHANGED vars
  BY <1>6, <1>7 DEF vars, WaitingHasProcessor
<1> QED
  BY <1>3, <1>4, <1>5, <1>6 DEF QuietNext, Receive, DelegateAnswer

\* Without exceptions a waiting request is never left without a thread that
\* will come to process the list.
THEOREM WaitingServed == QuietSpec => []WaitingHasProcessor
<1>1. Init => InvWaiting
  BY InvInit DEF Init, InvWaiting, WaitingHasProcessor, NoHarm
<1>2. InvWaiting /\ [QuietNext]_vars => InvWaiting'
  <2>1. [QuietNext]_vars => [Next]_vars
    BY DEF Next
  <2> QED BY <2>1, InvStep, WaitingStep, NoHarmStep DEF InvWaiting
<1>3. InvWaiting => WaitingHasProcessor
  BY DEF InvWaiting
<1> QED BY <1>1, <1>2, <1>3, PTL DEF QuietSpec

----------------------------------------------------------------------------
(* No request is lost *)

\* What lies before the position of the thread in the loop of
\* processWaitingRequests has its answer.
ListAnswered ==
    \A t \in Threads : pc[t] = "process" =>
        \A i \in DOMAIN waiting : i < pos[t] => replies[waiting[i]] > 0

\* The loop starts with the first request of the list.
LoopStarted == \A t \in Threads : pc[t] = "process" => pos[t] > 0

\* Nobody has answered the request, and it is not in the list.
Untouched(r) ==
    replies[r] = 0 /\ \A i \in DOMAIN waiting : waiting[i] # r

\* A request is untouched while the thread that has it comes to its execution,
\* and for ever when it was dropped: then nobody has it.
Fresh ==
    /\ \A r \in Requests \ arrived : Untouched(r)
    /\ \A t \in Threads : pc[t] \in HeldPCs => Untouched(cur[t])
    /\ lost \subseteq arrived \ delegated
    /\ \A r \in lost :
          Untouched(r) /\ \A t \in Threads : AtWork(t) => cur[t] # r

\* Where the answer of a request is, or will come from.
Placed(r) ==
    replies[r] > 0 \/ HeldBy(r) # {} \/ r \in delegated
                   \/ \E i \in DOMAIN waiting : waiting[i] = r

Accounted == \A r \in arrived : r \in lost \/ Placed(r)

InvLost == IInv /\ ListAnswered /\ LoopStarted /\ Fresh /\ Accounted

\* Replies are only ever added.
LEMMA RepliesGrow ==
    ASSUME TypeOK, Owners, [Next]_vars, NEW r \in Requests
    PROVE  replies[r] > 0 => replies'[r] > 0
<1>1. ASSUME NEW q, Reply(q) PROVE replies[r] > 0 => replies'[r] > 0
  BY <1>1 DEF TypeOK, Reply
<1>2. (\E q : Reply(q)) \/ UNCHANGED replies
  BY DEF Next, QuietNext, Receive, DelegateAnswer, Work, Throw, Arrive,
     RejectHalted, PassHalted, RejectInvalid, StartRunRequest, ExecuteReply,
     ExecuteDelegate, ExecuteIssueEnds, ExecuteNeedExclusive, ExecuteThrow,
     ReleaseThrow, PushThrow, IssueThrow, PushWaitingRequest, DoneRunRequest,
     IssueReturn, HaltedForMaintenance, ProcessBegin, ProcessRequest,
     ProcessEnd, ProcessThrow, Unwind, CompleteDelegated, vars, Leave
<1> QED BY <1>1, <1>2

\* The list changes only while nobody is in the loop, but for the thread that
\* leaves it.
LEMMA ListStep ==
    IInv /\ ListAnswered /\ [Next]_vars => ListAnswered'
<1> SUFFICES ASSUME IInv, ListAnswered, [Next]_vars,
                    NEW u \in Threads, pc'[u] = "process",
                    NEW i \in DOMAIN waiting', i < pos'[u]
             PROVE  replies'[waiting'[i]] > 0
  BY DEF ListAnswered
<1>0. TypeOK /\ Owners /\ MutexOwned
  BY DEF IInv
\* The thread was in the loop, at this position, with this list.
<1>1. ASSUME pc[u] = "process", waiting' = waiting, i < pos[u]
      PROVE  replies'[waiting'[i]] > 0
  <2>1. waiting[i] \in Requests BY <1>0, <1>1 DEF TypeOK
  <2>2. replies[waiting[i]] > 0 BY <1>1 DEF ListAnswered
  <2> QED BY <1>0, <1>1, <2>1, <2>2, RepliesGrow
<1>2. ASSUME pc'[u] = pc[u], pos'[u] = pos[u], waiting' = waiting
      PROVE  replies'[waiting'[i]] > 0
  BY <1>1, <1>2
<1>3. ASSUME NEW t \in Workers, NEW r \in Requests, Arrive(t, r)
      PROVE  replies'[waiting'[i]] > 0
  <2>1. t \in Threads BY DEF Threads
  <2> QED BY <1>0, <1>2, <1>3, <2>1 DEF Arrive, Goto, TypeOK
<1>4. ASSUME NEW t \in Threads, Work(t) \/ Throw(t)
      PROVE  replies'[waiting'[i]] > 0
  <2>1. CASE ProcessBegin(t)
    <3>1. CASE u = t
      <4>1. pos'[u] = 1 BY <1>0, <2>1, <3>1 DEF ProcessBegin, TypeOK
      <4>2. i \in Nat /\ i >= 1
        BY <1>0, <2>1 DEF ProcessBegin, TypeOK
      <4> QED BY <4>1, <4>2
    <3>2. CASE u # t
      BY <1>0, <1>2, <2>1, <3>2 DEF ProcessBegin, Goto, TypeOK
    <3> QED BY <3>1, <3>2
  <2>2. CASE ProcessRequest(t)
    <3>1. CASE u = t
      <4>1. CASE i < pos[t] BY <1>1, <2>2, <3>1, <4>1 DEF ProcessRequest
      <4>2. CASE i = pos[t]
        <5>1. waiting[i] \in Requests /\ waiting' = waiting
          BY <1>0, <2>2 DEF ProcessRequest, TypeOK
        <5>2. replies'[waiting[i]] = replies[waiting[i]] + 1
          BY <1>0, <2>2, <4>2, <5>1 DEF ProcessRequest, Reply, TypeOK
        <5> QED BY <1>0, <5>1, <5>2 DEF TypeOK
      <4>3. i \in Nat /\ pos[t] \in Nat /\ pos'[t] = pos[t] + 1
        BY <1>0, <2>2 DEF ProcessRequest, TypeOK
      <4> QED BY <3>1, <4>1, <4>2, <4>3
    <3>2. CASE u # t
      BY <1>0, <1>2, <2>2, <3>2 DEF ProcessRequest, TypeOK
    <3> QED BY <3>1, <3>2
  <2>3. CASE ProcessEnd(t) \/ ProcessThrow(t)
    <3>1. mutex' = NoThread /\ MutexOwned'
      BY <1>0, <2>3, MutexStep DEF ProcessEnd, ProcessThrow
    <3> QED BY <3>1, ThreadAssumption DEF MutexOwned, Threads
  <2>4. CASE PushWaitingRequest(t)
    <3>1. mutex' = NoThread /\ MutexOwned'
      BY <1>0, <2>4, MutexStep DEF PushWaitingRequest
    <3> QED BY <3>1, ThreadAssumption DEF MutexOwned, Threads
  <2>5. CASE /\ UNCHANGED <<pos, waiting>>
             /\ \E l \in PCs \ {"process"} : Goto(t, l)
    BY <1>0, <1>2, <2>5 DEF Goto, TypeOK
  <2> QED
    BY <1>4, <2>1, <2>2, <2>3, <2>4, <2>5
       DEF Work, Throw, RejectHalted, PassHalted, RejectInvalid,
          StartRunRequest, ExecuteReply, ExecuteDelegate, ExecuteIssueEnds,
          ExecuteNeedExclusive, ExecuteThrow, ReleaseThrow, PushThrow,
          IssueThrow, DoneRunRequest, IssueReturn, HaltedForMaintenance,
          Return, PCs, Leave
<1>5. ASSUME NEW r \in Requests, CompleteDelegated(r)
      PROVE  replies'[waiting'[i]] > 0
  BY <1>0, <1>2, <1>5 DEF CompleteDelegated, Goto, TypeOK, Threads
<1>6. CASE UNCHANGED vars
  BY <1>2, <1>6 DEF vars
<1> QED
  BY <1>3, <1>4, <1>5, <1>6 DEF Next, QuietNext, Receive, DelegateAnswer

\* Nobody is in the loop before its first request.
LEMMA LoopStep == TypeOK /\ LoopStarted /\ [Next]_vars => LoopStarted'
<1> SUFFICES ASSUME TypeOK, LoopStarted, [Next]_vars,
                    NEW u \in Threads, pc'[u] = "process"
             PROVE  pos'[u] > 0
  BY DEF LoopStarted
<1>1. ASSUME pc[u] = "process", pos'[u] = pos[u] PROVE pos'[u] > 0
  BY <1>1 DEF LoopStarted
<1>2. ASSUME NEW t \in Workers, NEW r \in Requests, Arrive(t, r)
      PROVE  pos'[u] > 0
  BY <1>1, <1>2 DEF Arrive, Goto, TypeOK, Threads
<1>3. ASSUME NEW t \in Threads, Work(t) \/ Throw(t) PROVE pos'[u] > 0
  <2>1. CASE ProcessBegin(t)
    BY <1>1, <2>1 DEF ProcessBegin, Goto, TypeOK
  <2>2. CASE ProcessRequest(t)
    <3>1. CASE u = t
      BY <2>2, <3>1 DEF ProcessRequest, TypeOK
    <3>2. CASE u # t
      BY <1>1, <2>2, <3>2 DEF ProcessRequest, TypeOK
    <3> QED BY <3>1, <3>2
  <2>3. CASE ProcessEnd(t) \/ ProcessThrow(t)
    BY <1>1, <2>3
       DEF ProcessEnd, ProcessThrow, Unwind, Return, Leave, Goto, TypeOK
  <2>4. CASE pos' = pos /\ \E l \in PCs \ {"process"} : Goto(t, l)
    BY <1>1, <2>4 DEF Goto, TypeOK
  <2> QED
    BY <1>3, <2>1, <2>2, <2>3, <2>4
       DEF Work, Throw, RejectHalted, PassHalted, RejectInvalid,
          StartRunRequest, ExecuteReply, ExecuteDelegate, ExecuteIssueEnds,
          ExecuteNeedExclusive, ExecuteThrow, ReleaseThrow, PushThrow,
          IssueThrow, PushWaitingRequest, DoneRunRequest, IssueReturn,
          HaltedForMaintenance, Return, PCs, Leave
<1>4. ASSUME NEW r \in Requests, CompleteDelegated(r) PROVE pos'[u] > 0
  BY <1>1, <1>4 DEF CompleteDelegated, Goto, TypeOK, Threads
<1>5. CASE UNCHANGED vars
  BY <1>1, <1>5 DEF vars
<1> QED
  BY <1>2, <1>3, <1>4, <1>5 DEF Next, QuietNext, Receive, DelegateAnswer

\* A step touches no request but that of the thread, those in the list and
\* those of the event loop.
LEMMA UntouchedStep ==
    ASSUME TypeOK, LoopStarted, NEW t \in Threads, Work(t) \/ Throw(t),
           NEW q \in Requests, Untouched(q), cur[t] # q
    PROVE  Untouched(q)'
<1>1. CASE ProcessRequest(t)
  <2>1. waiting[pos[t]] # q
    <3>1. pos[t] \in DOMAIN waiting
      BY <1>1 DEF ProcessRequest, LoopStarted, TypeOK
    <3> QED BY <3>1 DEF Untouched
  <2>2. replies'[q] = replies[q] /\ waiting' = waiting
    BY <1>1, <2>1 DEF ProcessRequest, Reply, TypeOK
  <2> QED BY <2>2 DEF Untouched
<1>2. CASE ~ProcessRequest(t)
  <2>1. Reply(cur[t]) \/ UNCHANGED replies
    BY <1>2 DEF Work, Throw, RejectHalted, PassHalted, RejectInvalid,
       StartRunRequest, ExecuteReply, ExecuteDelegate, ExecuteIssueEnds,
       ExecuteNeedExclusive, ExecuteThrow, ReleaseThrow, PushThrow,
       IssueThrow, PushWaitingRequest, DoneRunRequest, IssueReturn,
       HaltedForMaintenance, ProcessBegin, ProcessRequest, ProcessEnd,
       ProcessThrow, Unwind, Leave
  <2>2. replies'[q] = 0
    BY <2>1 DEF Reply, TypeOK, Untouched
  <2>3. CASE PushWaitingRequest(t)
    <3>1. waiting' = Append(waiting, cur[t])
      BY <2>3 DEF PushWaitingRequest
    <3>2. ASSUME NEW i \in DOMAIN waiting' PROVE waiting'[i] # q
      <4>1. CASE i \in DOMAIN waiting
        <5>1. waiting'[i] = waiting[i]
          BY <3>1, <4>1 DEF TypeOK
        <5> QED BY <4>1, <5>1 DEF Untouched
      <4>2. CASE i \notin DOMAIN waiting
        <5>1. waiting'[i] = cur[t]
          BY <3>1, <3>2, <4>2 DEF TypeOK
        <5> QED BY <5>1
      <4> QED BY <4>1, <4>2
    <3> QED BY <2>2, <3>2 DEF Untouched
  <2>4. CASE ProcessEnd(t)
    BY <2>2, <2>4 DEF ProcessEnd, Untouched
  <2>5. CASE UNCHANGED waiting
    BY <2>2, <2>5 DEF Untouched
  <2> QED
    BY <1>2, <2>3, <2>4, <2>5 DEF Work, Throw, RejectHalted, PassHalted,
       RejectInvalid, StartRunRequest, ExecuteReply, ExecuteDelegate,
       ExecuteIssueEnds, ExecuteNeedExclusive, ExecuteThrow, ReleaseThrow,
       PushThrow, IssueThrow, DoneRunRequest, IssueReturn,
       HaltedForMaintenance, ProcessBegin, ProcessRequest, ProcessThrow,
       Unwind, Leave
<1> QED BY <1>1, <1>2

\* A request becomes answered or is put into the list by the thread that has
\* it; the exceptions behind release_context drop the request of the thread.
LEMMA FreshStep == IInv /\ LoopStarted /\ Fresh /\ [Next]_vars => Fresh'
<1> SUFFICES ASSUME IInv, LoopStarted, Fresh, [Next]_vars PROVE Fresh'
  OBVIOUS
<1>0. TypeOK /\ Owners /\ TypeOK' /\ Owners'
  BY InvStep DEF IInv
<1>a. HeldPCs \subseteq {l \in PCs : l \notin {"idle", "issued"}}
  BY DEF HeldPCs, PCs
<1>b. lost \subseteq Requests
  BY <1>0 DEF TypeOK
<1>1. ASSUME NEW t \in Workers, NEW r \in Requests, Arrive(t, r)
      PROVE  Fresh'
  <2>1. t \in Threads BY DEF Threads
  <2>2. \A q : Untouched(q) => Untouched(q)'
    BY <1>1 DEF Arrive, Untouched
  <2>3. \A u \in Threads : pc'[u] \in HeldPCs => Untouched(cur[u])'
    <3>1. ASSUME NEW u \in Threads, pc'[u] \in HeldPCs
          PROVE  Untouched(cur[u])'
      <4>1. CASE u = t
        <5>1. cur'[u] = r /\ r \in Requests \ arrived
          BY <1>0, <1>1, <2>1, <4>1 DEF Arrive, TypeOK
        <5>2. Untouched(r)
          BY <5>1 DEF Fresh
        <5> QED BY <2>2, <5>1, <5>2
      <4>2. CASE u # t
        <5>1. cur'[u] = cur[u] /\ pc'[u] = pc[u]
          BY <1>0, <1>1, <2>1, <4>2 DEF Arrive, Goto, TypeOK
        <5>2. Untouched(cur[u])
          BY <3>1, <5>1 DEF Fresh
        <5> QED BY <2>2, <5>1, <5>2
      <4> QED BY <4>1, <4>2
    <3> QED BY <3>1
  <2>4. /\ lost' \subseteq arrived' \ delegated'
        /\ \A q \in lost' : q # r
    BY <1>1 DEF Arrive, Fresh, ghostVars
  <2>5. ASSUME NEW q \in lost', NEW u \in Threads, AtWork(u)'
        PROVE  cur'[u] # q
    <3>1. CASE u = t
      BY <1>0, <1>1, <2>1, <2>4, <3>1 DEF Arrive, TypeOK
    <3>2. CASE u # t
      BY <1>0, <1>1, <2>1, <2>5, <3>2
         DEF Arrive, Goto, TypeOK, Fresh, AtWork, ghostVars
    <3> QED BY <3>1, <3>2
  <2>6. \A q \in lost' : Untouched(q)'
    BY <1>1, <2>2 DEF Arrive, Fresh, ghostVars
  <2>7. \A q \in Requests \ arrived' : Untouched(q)'
    BY <1>1, <2>2 DEF Arrive, Fresh
  <2> QED BY <2>3, <2>4, <2>5, <2>6, <2>7 DEF Fresh
<1>2. ASSUME NEW t \in Threads, Work(t) \/ Throw(t) PROVE Fresh'
  <2>1. /\ arrived' = arrived
        /\ \A u \in Threads \ {t} : pc'[u] = pc[u] /\ cur'[u] = cur[u]
        /\ cur'[t] = cur[t] \/ ~AtWork(t)'
    BY <1>0, <1>2 DEF Work, Throw, RejectHalted, PassHalted, RejectInvalid,
       StartRunRequest, ExecuteReply, ExecuteDelegate, ExecuteIssueEnds,
       ExecuteNeedExclusive, ExecuteThrow, ReleaseThrow, PushThrow,
       IssueThrow, PushWaitingRequest, DoneRunRequest, IssueReturn,
       HaltedForMaintenance, ProcessBegin, ProcessRequest, ProcessEnd,
       ProcessThrow, Unwind, Goto, Return, Leave, TypeOK, AtWork
  <2>2. AtWork(t)' => AtWork(t)
    BY <1>0, <1>2 DEF Work, Throw, RejectHalted, PassHalted, RejectInvalid,
       StartRunRequest, ExecuteReply, ExecuteDelegate, ExecuteIssueEnds,
       ExecuteNeedExclusive, ExecuteThrow, ReleaseThrow, PushThrow,
       IssueThrow, PushWaitingRequest, DoneRunRequest, IssueReturn,
       HaltedForMaintenance, ProcessBegin, ProcessRequest, ProcessEnd,
       ProcessThrow, Unwind, Leave, Goto, Return, TypeOK, AtWork
  <2>a. \/ delegated' = delegated
        \/ /\ pc[t] \in HeldPCs /\ ~AtWork(t)'
           /\ delegated' = delegated \cup {cur[t]}
    <3>1. CASE ExecuteDelegate(t)
      BY <1>0, <3>1 DEF ExecuteDelegate, Goto, TypeOK, AtWork, HeldPCs
    <3>2. CASE ~ExecuteDelegate(t)
      BY <1>2, <3>2 DEF Work, Throw, RejectHalted, PassHalted, RejectInvalid,
         StartRunRequest, ExecuteReply, ExecuteIssueEnds,
         ExecuteNeedExclusive, ExecuteThrow, ReleaseThrow, PushThrow,
         IssueThrow, PushWaitingRequest, DoneRunRequest, IssueReturn,
         HaltedForMaintenance, ProcessBegin, ProcessRequest, ProcessEnd,
         ProcessThrow, Unwind
    <3> QED BY <3>1, <3>2
  <2>b. \/ lost' = lost
        \/ /\ pc[t] \in HeldPCs /\ ~AtWork(t)'
           /\ lost' = lost \cup {cur[t]}
           /\ UNCHANGED <<delegated, replies, waiting>>
    <3>1. CASE ReleaseThrow(t) \/ PushThrow(t)
      BY <1>0, <3>1
         DEF ReleaseThrow, PushThrow, Return, Goto, TypeOK, AtWork, HeldPCs
    <3>2. CASE ~ReleaseThrow(t) /\ ~PushThrow(t)
      BY <1>2, <3>2 DEF Work, Throw, RejectHalted, PassHalted, RejectInvalid,
         StartRunRequest, ExecuteReply, ExecuteDelegate, ExecuteIssueEnds,
         ExecuteNeedExclusive, ExecuteThrow, IssueThrow, PushWaitingRequest,
         DoneRunRequest, IssueReturn, HaltedForMaintenance, ProcessBegin,
         ProcessRequest, ProcessEnd, ProcessThrow, Unwind, ghostVars
    <3> QED BY <3>1, <3>2
  <2>3. /\ \/ delegated' = delegated
           \/ /\ pc[t] \in HeldPCs /\ ~AtWork(t)'
              /\ delegated' = delegated \cup {cur[t]}
        /\ \/ lost' = lost
           \/ /\ pc[t] \in HeldPCs /\ ~AtWork(t)'
              /\ lost' = lost \cup {cur[t]}
              /\ UNCHANGED <<delegated, replies, waiting>>
    BY <2>a, <2>b
  \* Who has no request, or another one, leaves it alone.
  <2>4. ASSUME NEW q \in Requests, Untouched(q),
               AtWork(t) => cur[t] # q
        PROVE  Untouched(q)'
    <3>1. CASE AtWork(t)
      BY <1>0, <1>2, <2>4, <3>1, UntouchedStep
    <3>2. CASE ~AtWork(t)
      <4>1. UNCHANGED <<replies, waiting>>
        BY <1>2, <3>2 DEF Work, Throw, RejectHalted, PassHalted,
           RejectInvalid, StartRunRequest, ExecuteReply, ExecuteDelegate,
           ExecuteIssueEnds, ExecuteNeedExclusive, ExecuteThrow, ReleaseThrow,
           PushThrow, IssueThrow, PushWaitingRequest, DoneRunRequest,
           IssueReturn, HaltedForMaintenance, ProcessBegin, ProcessRequest,
           ProcessEnd, ProcessThrow, Unwind, Leave, AtWork
      <4> QED BY <2>4, <4>1 DEF Untouched
    <3> QED BY <3>1, <3>2
  <2>5. \A q \in Requests \ arrived' : Untouched(q)'
    <3>1. ASSUME NEW q \in Requests \ arrived PROVE Untouched(q)'
      BY <1>0, <2>4, <3>1 DEF Fresh, Owners
    <3> QED BY <2>1, <3>1
  <2>6. ASSUME NEW u \in Threads, pc'[u] \in HeldPCs
        PROVE  Untouched(cur[u])'
    <3>1. CASE u = t
      <4>1. /\ pc[t] \in HeldPCs /\ cur'[t] = cur[t]
            /\ UNCHANGED <<replies, waiting>>
        BY <1>0, <1>2, <2>6, <3>1
           DEF Work, Throw, RejectHalted, PassHalted, RejectInvalid,
              StartRunRequest, ExecuteReply, ExecuteDelegate,
              ExecuteIssueEnds, ExecuteNeedExclusive, ExecuteThrow,
              ReleaseThrow, PushThrow, IssueThrow, PushWaitingRequest,
              DoneRunRequest, IssueReturn, HaltedForMaintenance, ProcessBegin,
              ProcessRequest, ProcessEnd, ProcessThrow, Unwind, Leave, Goto,
              Return, TypeOK, HeldPCs
      <4> QED BY <3>1, <4>1 DEF Fresh, Untouched
    <3>2. CASE u # t
      <4>1. pc[u] \in HeldPCs /\ cur'[u] = cur[u] /\ AtWork(u)
        BY <1>a, <2>1, <2>6, <3>2 DEF AtWork
      <4>2. cur[u] \in Requests /\ (AtWork(t) => cur[t] # cur[u])
        BY <1>0, <3>2, <4>1 DEF Owners, TypeOK
      <4>3. Untouched(cur[u])
        BY <4>1 DEF Fresh
      <4>4. Untouched(cur[u])'
        BY <2>4, <4>1, <4>2, <4>3 DEF Untouched
      <4> QED BY <4>1, <4>4
    <3> QED BY <3>1, <3>2
  <2>7. ASSUME NEW q \in lost'
        PROVE  /\ q \in arrived' \ delegated' /\ Untouched(q)'
               /\ \A u \in Threads : AtWork(u)' => cur'[u] # q
    <3>1. CASE q \in lost
      <4>1. /\ q \in arrived \ delegated /\ Untouched(q) /\ q \in Requests
            /\ \A u \in Threads : AtWork(u) => cur[u] # q
        BY <1>b, <3>1 DEF Fresh
      <4>2. Untouched(q)'
        BY <2>4, <4>1
      <4>3. q \in arrived' \ delegated'
        BY <1>a, <2>1, <2>3, <4>1 DEF AtWork
      <4>4. ASSUME NEW u \in Threads, AtWork(u)' PROVE cur'[u] # q
        BY <2>1, <2>2, <4>1, <4>4 DEF AtWork
      <4> QED BY <4>2, <4>3, <4>4
    <3>2. CASE q \notin lost
      <4>1. /\ pc[t] \in HeldPCs /\ q = cur[t] /\ ~AtWork(t)'
            /\ UNCHANGED <<delegated, replies, waiting>>
        BY <2>3, <2>7, <3>2
      <4>2. AtWork(t)
        BY <1>a, <4>1 DEF AtWork
      <4>3. q \in arrived \ delegated
        BY <1>0, <4>1, <4>2 DEF Owners
      <4>4. Untouched(q)'
        BY <4>1 DEF Fresh, Untouched
      <4>5. ASSUME NEW u \in Threads, AtWork(u)' PROVE cur'[u] # q
        <5>1. u # t /\ AtWork(u) /\ cur'[u] = cur[u]
          BY <2>1, <4>1, <4>5 DEF AtWork
        <5> QED BY <1>0, <4>1, <4>2, <5>1 DEF Owners
      <4> QED BY <2>1, <4>1, <4>3, <4>4, <4>5
    <3> QED BY <3>1, <3>2
  <2> QED BY <2>5, <2>6, <2>7 DEF Fresh
<1>3. ASSUME NEW r \in Requests, CompleteDelegated(r) PROVE Fresh'
  <2>1. EventLoop \in Threads BY DEF Threads
  <2>2. ASSUME NEW q \in Requests, Untouched(q), q \notin delegated
        PROVE  Untouched(q)'
    BY <1>0, <1>3, <2>2 DEF CompleteDelegated, Reply, TypeOK, Untouched
  <2>3. r \in arrived /\ r \notin lost
    BY <1>0, <1>3 DEF CompleteDelegated, Owners, Fresh
  <2>4. \A u \in Threads \ {EventLoop} : pc'[u] = pc[u] /\ cur'[u] = cur[u]
    BY <1>0, <1>3, <2>1 DEF CompleteDelegated, Goto, TypeOK
  <2>5. /\ pc'[EventLoop] = "done" /\ cur'[EventLoop] = r
        /\ arrived' = arrived /\ lost' = lost
        /\ delegated' = delegated \ {r}
    BY <1>0, <1>3, <2>1 DEF CompleteDelegated, Goto, TypeOK, ghostVars
  <2>6. \A q \in Requests \ arrived' : Untouched(q)'
    BY <1>0, <2>2, <2>5 DEF Fresh, Owners
  <2>7. ASSUME NEW u \in Threads, pc'[u] \in HeldPCs
        PROVE  Untouched(cur[u])'
    <3>1. u # EventLoop
      BY <2>5, <2>7 DEF HeldPCs
    <3>2. pc[u] \in HeldPCs /\ cur'[u] = cur[u] /\ AtWork(u)
      BY <1>a, <2>4, <2>7, <3>1 DEF AtWork
    <3>3. cur[u] \in Requests \ delegated /\ Untouched(cur[u])
      BY <1>0, <3>2 DEF Owners, TypeOK, Fresh
    <3>4. Untouched(cur[u])'
      BY <2>2, <3>2, <3>3 DEF Untouched
    <3> QED BY <3>2, <3>4
  <2>8. \A q \in lost' : Untouched(q)' /\ q \in arrived' \ delegated'
    BY <1>b, <2>2, <2>5 DEF Fresh
  <2>9. ASSUME NEW q \in lost', NEW u \in Threads, AtWork(u)'
        PROVE  cur'[u] # q
    <3>1. CASE u = EventLoop
      BY <2>3, <2>5, <2>9, <3>1
    <3>2. CASE u # EventLoop
      BY <2>4, <2>5, <2>9, <3>2 DEF AtWork, Fresh
    <3> QED BY <3>1, <3>2
  <2> QED BY <2>6, <2>7, <2>8, <2>9 DEF Fresh
<1>4. CASE UNCHANGED vars
  BY <1>4 DEF vars, ghostVars, Fresh, Untouched, AtWork
<1> QED
  BY <1>1, <1>2, <1>3, <1>4 DEF Next, QuietNext, Receive, DelegateAnswer

Moved(r) == r \in lost' \/ Placed(r)'

\* A request moves on from one of these places to another one, or is dropped.
LEMMA AccountedStep ==
    IInv /\ ListAnswered /\ Accounted /\ [Next]_vars => Accounted'
<1> SUFFICES ASSUME IInv, ListAnswered, Accounted, [Next]_vars,
                    NEW r \in arrived'
             PROVE  Moved(r)
  BY DEF Accounted, Moved
<1>0. TypeOK /\ TypeOK' /\ Owners
  BY InvStep DEF IInv
<1>8. ASSUME r \in lost PROVE Moved(r)
  <2>1. lost \subseteq lost'
    BY DEF Next, QuietNext, Receive, DelegateAnswer, Work, Throw, Arrive,
       RejectHalted, PassHalted, RejectInvalid, StartRunRequest, ExecuteReply,
       ExecuteDelegate, ExecuteIssueEnds, ExecuteNeedExclusive, ExecuteThrow,
       ReleaseThrow, PushThrow, IssueThrow, PushWaitingRequest,
       DoneRunRequest, IssueReturn, HaltedForMaintenance, ProcessBegin,
       ProcessRequest, ProcessEnd, ProcessThrow, Unwind, CompleteDelegated,
       ghostVars, vars, Leave
  <2> QED BY <1>8, <2>1 DEF Moved
<1>9. r \in arrived => r \in lost \/ Placed(r)
  BY DEF Accounted
<1>1. r \in Requests
  BY <1>0 DEF TypeOK
<1>2. ASSUME NEW t \in Threads, cur'[t] = r, pc'[t] \in HeldPCs
      PROVE  Moved(r)
  BY <1>2 DEF Placed, HeldBy, Moved
<1>3. ASSUME r \in arrived, replies[r] > 0 PROVE Moved(r)
  BY <1>0, <1>1, <1>3, RepliesGrow DEF Placed, Moved
<1>4. ASSUME NEW t \in Workers, NEW q \in Requests, Arrive(t, q)
      PROVE  Moved(r)
  <2>1. t \in Threads BY DEF Threads
  <2>2. CASE r = q
    BY <1>0, <1>2, <1>4, <2>1, <2>2 DEF Arrive, Goto, TypeOK, HeldPCs
  <2>3. CASE r # q
    <3>0. CASE r \in lost BY <1>8, <3>0
    <3>1. r \in arrived /\ (r \in lost \/ Placed(r))
      BY <1>4, <1>9, <2>3 DEF Arrive
    <3>2. CASE HeldBy(r) # {}
      <4>1. PICK u \in Threads : cur[u] = r /\ pc[u] \in HeldPCs
        BY <3>2 DEF HeldBy
      <4>2. u # t BY <1>4, <4>1 DEF Arrive, HeldPCs
      <4> QED
        BY <1>0, <1>2, <1>4, <4>1, <4>2 DEF Arrive, Goto, TypeOK
    <3> QED BY <1>4, <3>0, <3>1, <3>2 DEF Arrive, Placed, Moved
  <2> QED BY <2>2, <2>3
<1>5. ASSUME NEW t \in Threads, Work(t) \/ Throw(t) PROVE Moved(r)
  <2>0. r \in arrived
    BY <1>5 DEF Work, Throw, RejectHalted, PassHalted, RejectInvalid,
       StartRunRequest, ExecuteReply, ExecuteDelegate, ExecuteIssueEnds,
       ExecuteNeedExclusive, ExecuteThrow, ReleaseThrow, PushThrow,
       IssueThrow, PushWaitingRequest, DoneRunRequest, IssueReturn,
       HaltedForMaintenance, ProcessBegin, ProcessRequest, ProcessEnd,
       ProcessThrow, Unwind
  <2>1. CASE r \in delegated
    <3>1. r \in delegated'
      BY <1>5, <2>1 DEF Work, Throw, RejectHalted, PassHalted, RejectInvalid,
         StartRunRequest, ExecuteReply, ExecuteDelegate, ExecuteIssueEnds,
         ExecuteNeedExclusive, ExecuteThrow, ReleaseThrow, PushThrow,
         IssueThrow, PushWaitingRequest, DoneRunRequest, IssueReturn,
         HaltedForMaintenance, ProcessBegin, ProcessRequest, ProcessEnd,
         ProcessThrow, Unwind, Leave
    <3> QED BY <3>1 DEF Placed, Moved
  <2>2. CASE \E i \in DOMAIN waiting : waiting[i] = r
    <3>1. PICK i \in DOMAIN waiting : waiting[i] = r BY <2>2
    <3>2. CASE ProcessEnd(t)
      <4>1. i < pos[t] /\ pc[t] = "process"
        BY <1>0, <3>2 DEF ProcessEnd, TypeOK
      <4> QED BY <1>3, <2>0, <3>1, <4>1 DEF ListAnswered
    <3>3. CASE PushWaitingRequest(t)
      <4>1. i \in DOMAIN waiting' /\ waiting'[i] = r
        <5>1. cur[t] \in Requests
          BY <1>0, <3>3 DEF PushWaitingRequest, Owners, TypeOK
        <5> QED BY <1>0, <3>1, <3>3, <5>1 DEF PushWaitingRequest, TypeOK
      <4> QED BY <4>1 DEF Placed, Moved
    <3>4. CASE UNCHANGED waiting
      BY <3>1, <3>4 DEF Placed, Moved
    <3> QED
      BY <1>5, <3>2, <3>3, <3>4 DEF Work, Throw, RejectHalted, PassHalted,
         RejectInvalid, StartRunRequest, ExecuteReply, ExecuteDelegate,
         ExecuteIssueEnds, ExecuteNeedExclusive, ExecuteThrow, ReleaseThrow,
         PushThrow, IssueThrow, DoneRunRequest, IssueReturn,
         HaltedForMaintenance, ProcessBegin, ProcessRequest, ProcessThrow,
         Unwind, Leave
  <2>3. CASE HeldBy(r) # {}
    <3>1. PICK u \in Threads : cur[u] = r /\ pc[u] \in HeldPCs
      BY <2>3 DEF HeldBy
    <3>2. CASE u # t
      <4>1. pc'[u] = pc[u] /\ cur'[u] = cur[u]
        BY <1>0, <1>5, <3>2 DEF TypeOK, Work, Throw, RejectHalted, PassHalted,
           RejectInvalid, StartRunRequest, ExecuteReply, ExecuteDelegate,
           ExecuteIssueEnds, ExecuteNeedExclusive, ExecuteThrow, ReleaseThrow,
           PushThrow, IssueThrow, PushWaitingRequest, DoneRunRequest,
           IssueReturn, HaltedForMaintenance, ProcessBegin, ProcessRequest,
           ProcessEnd, ProcessThrow, Unwind, Goto, Return, Leave
      <4> QED BY <1>2, <3>1, <4>1
    <3>3. CASE u = t
      <4>1. CASE \/ RejectHalted(t) \/ RejectInvalid(t)
                 \/ ExecuteReply(t) \/ ExecuteIssueEnds(t)
                 \/ ExecuteThrow(t)
        <5>1. Reply(r)
          BY <3>1, <3>3, <4>1
             DEF RejectHalted, RejectInvalid, ExecuteReply,
                 ExecuteIssueEnds, ExecuteThrow
        <5>2. replies'[r] > 0
          BY <1>0, <1>1, <5>1 DEF Reply, TypeOK
        <5> QED BY <5>2 DEF Placed, Moved
      <4>2. CASE PassHalted(t) \/ StartRunRequest(t) \/ ExecuteNeedExclusive(t)
        BY <1>0, <1>2, <3>1, <3>3, <4>2
           DEF PassHalted, StartRunRequest, ExecuteNeedExclusive, Goto, TypeOK,
               HeldPCs
      <4>3. CASE ExecuteDelegate(t)
        BY <3>1, <3>3, <4>3 DEF ExecuteDelegate, Placed, Moved
      <4>4. CASE PushWaitingRequest(t)
        <5>1. /\ Len(waiting) + 1 \in DOMAIN waiting'
              /\ waiting'[Len(waiting) + 1] = r
          BY <1>0, <1>1, <3>1, <3>3, <4>4 DEF PushWaitingRequest, TypeOK
        <5> QED BY <5>1 DEF Placed, Moved
      <4>5. CASE ReleaseThrow(t) \/ PushThrow(t)
        BY <3>1, <3>3, <4>5 DEF ReleaseThrow, PushThrow, Moved
      <4> QED
        BY <1>5, <3>1, <3>3, <4>1, <4>2, <4>3, <4>4, <4>5
           DEF Work, Throw, DoneRunRequest, IssueReturn, HaltedForMaintenance,
              ProcessBegin, ProcessRequest, ProcessEnd, ProcessThrow, Unwind,
              IssueThrow, HeldPCs
    <3> QED BY <3>2, <3>3
  <2> QED BY <1>3, <1>8, <1>9, <2>0, <2>1, <2>2, <2>3 DEF Placed
<1>6. ASSUME NEW q \in Requests, CompleteDelegated(q) PROVE Moved(r)
  <2>1. r \in arrived
    BY <1>6 DEF CompleteDelegated
  <2>2. CASE r = q
    <3>1. replies'[r] > 0
      BY <1>0, <1>1, <1>6, <2>2 DEF CompleteDelegated, Reply, TypeOK
    <3> QED BY <3>1 DEF Placed, Moved
  <2>3. CASE HeldBy(r) # {}
    <3>1. PICK u \in Threads : cur[u] = r /\ pc[u] \in HeldPCs
      BY <2>3 DEF HeldBy
    <3>2. u # EventLoop BY <1>6, <3>1 DEF CompleteDelegated, HeldPCs
    <3> QED
      BY <1>0, <1>2, <1>6, <3>1, <3>2 DEF CompleteDelegated, Goto, TypeOK
  <2>4. CASE r # q /\ r \in delegated
    BY <1>6, <2>4 DEF CompleteDelegated, Placed, Moved
  <2>5. CASE \E i \in DOMAIN waiting : waiting[i] = r
    BY <1>6, <2>5 DEF CompleteDelegated, Placed, Moved
  <2> QED BY <1>3, <1>8, <1>9, <2>1, <2>2, <2>3, <2>4, <2>5 DEF Placed
<1>7. CASE UNCHANGED vars
  BY <1>7 DEF vars, ghostVars, Accounted, Moved, Placed, HeldBy
<1> QED
  BY <1>4, <1>5, <1>6, <1>7 DEF Next, QuietNext, Receive, DelegateAnswer

\* No request is lost when the service starts.
LEMMA LostInit == Init => InvLost
<1> SUFFICES ASSUME Init PROVE InvLost
  OBVIOUS
<1>1. ListAnswered /\ LoopStarted /\ Accounted
  BY DEF Init, ListAnswered, LoopStarted, Accounted
<1>2. Fresh
  BY DEF Init, Fresh, Untouched, HeldPCs
<1> QED BY <1>1, <1>2, InvInit DEF InvLost

\* Every step keeps what is needed for NothingLost.
LEMMA LostInvStep == InvLost /\ [Next]_vars => InvLost'
BY InvStep, ListStep, LoopStep, FreshStep, AccountedStep DEF InvLost, IInv

\* The invariant for NothingLost holds in every state.
LEMMA LostHolds == Spec => []InvLost
<1>1. Init => InvLost BY LostInit
<1>2. InvLost /\ [Next]_vars => InvLost' BY LostInvStep
<1> QED BY <1>1, <1>2, PTL DEF Spec

\* A request that was accepted has an answer or a place its answer will come
\* from, whatever is thrown in runRequest, in pushWaitingRequest or in the loop
\* of processWaitingRequests; exactly those an exception drops behind
\* release_context have neither.
THEOREM NeverLost == Spec => []NothingLost
<1>1. InvLost => NothingLost
  <2> SUFFICES ASSUME InvLost, NEW r \in arrived
               PROVE  r \in lost <=>
                        /\ replies[r] = 0
                        /\ HeldBy(r) = {} /\ r \notin delegated
                        /\ \A i \in DOMAIN waiting : waiting[i] # r
    BY DEF NothingLost
  <2>1. TypeOK /\ Fresh /\ Accounted
    BY DEF InvLost, IInv
  <2>2. replies[r] \in Nat
    BY <2>1 DEF TypeOK
  <2>3. ASSUME r \in lost
        PROVE  Untouched(r) /\ r \notin delegated /\ HeldBy(r) = {}
    <3>1. \A l \in HeldPCs : l \notin {"idle", "issued"}
      BY DEF HeldPCs
    <3> QED BY <2>1, <2>3, <3>1 DEF Fresh, HeldBy, AtWork
  <2>4. r \in lost \/ Placed(r)
    BY <2>1 DEF Accounted
  <2> QED BY <2>2, <2>3, <2>4 DEF Untouched, Placed
<1> QED BY <1>1, LostHolds, PTL

\* processWaitingRequests opens the service again only after it has answered
\* the whole list, whatever exceptions are thrown.
THEOREM ResumesAfterAnswers == Spec => ResumeAfterAnswers
<1>1. InvLost /\ [Next]_vars =>
        [halted /\ ~halted' =>
            \A i \in DOMAIN waiting : replies[waiting[i]] > 0]_vars
  <2> SUFFICES ASSUME InvLost, [Next]_vars, halted, ~halted',
                      NEW i \in DOMAIN waiting
               PROVE  replies[waiting[i]] > 0
    OBVIOUS
  <2>0. TypeOK /\ ListAnswered BY DEF InvLost, IInv
  <2>1. PICK t \in Threads : ProcessEnd(t)
    BY DEF Next, QuietNext, Receive, DelegateAnswer, Work, Throw, Arrive,
       RejectHalted, PassHalted, RejectInvalid, StartRunRequest, ExecuteReply,
       ExecuteDelegate, ExecuteIssueEnds, ExecuteNeedExclusive, ExecuteThrow,
       ReleaseThrow, PushThrow, IssueThrow, PushWaitingRequest,
       DoneRunRequest, IssueReturn, HaltedForMaintenance, ProcessBegin,
       ProcessRequest, ProcessThrow, Unwind, CompleteDelegated, vars, Leave
  <2>2. i < pos[t] /\ pc[t] = "process"
    BY <2>0, <2>1 DEF ProcessEnd, TypeOK
  <2> QED BY <2>0, <2>2 DEF ListAnswered
<1> QED BY <1>1, LostHolds, PTL DEF Spec, ResumeAfterAnswers
=============================================================================
