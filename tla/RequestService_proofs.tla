------------------------ MODULE RequestService_proofs ------------------------
(***************************************************************************)
(* Proofs that RequestExecution without exceptions keeps the promise of    *)
(* RequestService, for every number of workers and requests.               *)
(*                                                                         *)
(* The heart is that an accepted request is in exactly one place: answered,*)
(* held by a thread, delegated, or still in the list (OnePlace). The list  *)
(* has it once (NoRepetition), so that the loop of processWaitingRequests  *)
(* answers it once.                                                        *)
(***************************************************************************)
EXTENDS RequestExecution_proofs

NoRepetition ==
    \A i, j \in DOMAIN waiting : waiting[i] = waiting[j] => i = j

OnePlace(r) ==
    replies[r] + (IF HeldBy(r) = {} THEN 0 ELSE 1)
      + (IF StillWaiting(r) = {} THEN 0 ELSE 1)
      + (IF r \in delegated THEN 1 ELSE 0)
    = (IF r \in arrived THEN 1 ELSE 0)

Placement == LoopStarted /\ NoRepetition /\ \A r \in Requests : OnePlace(r)

AnswerInv == IInv /\ ListAnswered /\ Placement

----------------------------------------------------------------------------
(* Who holds a request, and what of the list is still to do *)

\* A step of a thread for its request changes only who holds that one.
LEMMA HeldStep ==
    ASSUME TypeOK, Owners, NEW t \in Threads, AtWork(t),
           NEW q \in Requests, q = cur[t], NEW l \in PCs, Goto(t, l),
           \A u \in Threads \ {t} : cur'[u] = cur[u],
           cur'[t] \in {q, NoRequest}, l \in HeldPCs => cur'[t] = q
    PROVE  /\ \A r \in Requests \ {q} : HeldBy(r)' = HeldBy(r)
           /\ HeldBy(q) = IF pc[t] \in HeldPCs THEN {t} ELSE {}
           /\ HeldBy(q)' = IF l \in HeldPCs THEN {t} ELSE {}
<1>0. /\ pc \in [Threads -> PCs]
      /\ cur \in [Threads -> Requests \cup {NoRequest}]
      /\ \A u \in Threads \ {t} : AtWork(u) => cur[u] # q
      /\ \A u \in Threads : pc[u] \in HeldPCs => AtWork(u)
  BY DEF TypeOK, Owners, HeldPCs, AtWork
<1>1. \A u \in Threads \ {t} : pc'[u] = pc[u] /\ cur'[u] = cur[u]
  BY <1>0 DEF Goto
<1>2. pc'[t] = l /\ (l \in HeldPCs => cur'[t] = q)
  BY <1>0 DEF Goto
<1>3. \A r \in Requests \ {q} : cur'[t] # r
  BY <1>0, RequestAssumption
<1>4. \A r \in Requests :
         /\ HeldBy(r) = {u \in Threads : cur[u] = r /\ pc[u] \in HeldPCs}
         /\ HeldBy(r)' = {u \in Threads : cur'[u] = r /\ pc'[u] \in HeldPCs}
  BY DEF HeldBy, HeldPCs
<1>5. ASSUME NEW r \in Requests \ {q} PROVE HeldBy(r)' = HeldBy(r)
  <2>1. cur[t] # r /\ cur'[t] # r BY <1>3
  <2>2. \A u \in Threads : cur'[u] = r /\ pc'[u] \in HeldPCs
                           <=> cur[u] = r /\ pc[u] \in HeldPCs
    BY <1>1, <2>1
  <2>3. {u \in Threads : cur'[u] = r /\ pc'[u] \in HeldPCs}
          = {u \in Threads : cur[u] = r /\ pc[u] \in HeldPCs}
    BY <2>2
  <2> QED BY <1>4, <2>3
<1>6. HeldBy(q) = IF pc[t] \in HeldPCs THEN {t} ELSE {}
  BY <1>0, <1>4
<1>7. HeldBy(q)' = IF l \in HeldPCs THEN {t} ELSE {}
  BY <1>0, <1>1, <1>2, <1>4
<1> QED BY <1>5, <1>6, <1>7

\* The same for a step that leaves the request with the thread.
LEMMA HeldGo ==
    ASSUME TypeOK, Owners, NEW t \in Threads, AtWork(t),
           NEW q \in Requests, q = cur[t], NEW l \in PCs,
           l \notin HeldPCs, Goto(t, l), UNCHANGED cur
    PROVE  /\ \A r \in Requests \ {q} : HeldBy(r)' = HeldBy(r)
           /\ HeldBy(q) = IF pc[t] \in HeldPCs THEN {t} ELSE {}
           /\ HeldBy(q)' = {}
<1>1. /\ \A u \in Threads \ {t} : cur'[u] = cur[u]
      /\ cur'[t] \in {q, NoRequest}
      /\ l \in HeldPCs => cur'[t] = q
  OBVIOUS
<1>2. /\ \A r \in Requests \ {q} : HeldBy(r)' = HeldBy(r)
      /\ HeldBy(q) = IF pc[t] \in HeldPCs THEN {t} ELSE {}
      /\ HeldBy(q)' = IF l \in HeldPCs THEN {t} ELSE {}
  BY <1>1, HeldStep
<1> QED BY <1>2

\* While nobody processes the list, all of it is still to do.
LEMMA StillFree ==
    ASSUME MutexOwned, mutex = NoThread, NEW r
    PROVE  StillWaiting(r) = {i \in DOMAIN waiting : waiting[i] = r}
BY ThreadAssumption DEF MutexOwned, StillWaiting, Threads

\* The thread that processes it has its position to go on from.
LEMMA StillOwned ==
    ASSUME MutexOwned, NEW p \in Threads, pc[p] = "process", NEW r
    PROVE  StillWaiting(r) =
             {i \in DOMAIN waiting : waiting[i] = r /\ pos[p] <= i}
BY DEF MutexOwned, StillWaiting

\* Steps elsewhere leave it, and who is in the loop.
LEMMA StillSame ==
    ASSUME TypeOK, NEW t \in Threads, pc[t] # "process",
           NEW l \in PCs \ {"process"}, Goto(t, l), UNCHANGED <<pos, waiting>>
    PROVE  /\ \A r \in Requests : StillWaiting(r)' = StillWaiting(r)
           /\ LoopStarted => LoopStarted'
<1>1. \A u \in Threads : pc'[u] = "process" <=> pc[u] = "process"
  BY DEF TypeOK, Goto
<1> QED BY <1>1 DEF StillWaiting, LoopStarted

\* A request that is held, delegated or to be answered has no answer yet, and
\* is nowhere else; one that is not in the list still to do is not in the
\* list, or has its answer.
LEMMA OnlyPlace ==
    ASSUME TypeOK, NEW r \in Requests, OnePlace(r)
    PROVE  /\ HeldBy(r) # {} =>
                /\ r \in arrived /\ r \notin delegated
                /\ replies[r] = 0 /\ StillWaiting(r) = {}
           /\ r \in delegated =>
                /\ r \in arrived /\ replies[r] = 0
                /\ HeldBy(r) = {} /\ StillWaiting(r) = {}
           /\ StillWaiting(r) # {} =>
                /\ r \in arrived /\ r \notin delegated
                /\ replies[r] = 0 /\ HeldBy(r) = {}
<1>1. replies[r] \in Nat BY DEF TypeOK
<1> QED BY <1>1 DEF OnePlace

\* The requests of the list are all still to do or answered.
LEMMA ListedOrAnswered ==
    ASSUME TypeOK, MutexOwned, ListAnswered, NEW i \in DOMAIN waiting,
           NEW r, waiting[i] = r, replies[r] = 0
    PROVE  i \in StillWaiting(r)
<1>0. waiting \in Seq(Requests) /\ pos \in [Threads -> Nat] BY DEF TypeOK
<1>1. i \in Nat BY <1>0
<1>2. ASSUME NEW u \in Threads, pc[u] = "process" PROVE pos[u] <= i
  <2>1. ~(i < pos[u]) BY <1>2 DEF ListAnswered
  <2> QED BY <1>0, <1>1, <2>1
<1> QED BY <1>2 DEF StillWaiting

----------------------------------------------------------------------------
(* One place: a step moves a request from one place to one place *)

\* A step that leaves the list and takes only request q from one of the other
\* places to another.
LEMMA MoveStep ==
    ASSUME TypeOK, Owners, Placement, NEW t \in Threads,
           AtWork(t), pc[t] # "process",
           NEW q \in Requests, q = cur[t],
           NEW l \in PCs \ {"process"}, Goto(t, l),
           \A u \in Threads \ {t} : cur'[u] = cur[u],
           cur'[t] \in {q, NoRequest}, l \in HeldPCs => cur'[t] = q,
           pos' = pos, waiting' = waiting, arrived' = arrived,
           \A r \in Requests \ {q} : /\ replies'[r] = replies[r]
                                     /\ r \in delegated' <=> r \in delegated,
           replies'[q] + (IF q \in delegated' THEN 1 ELSE 0)
             + (IF l \in HeldPCs THEN 1 ELSE 0)
           = replies[q] + (IF pc[t] \in HeldPCs THEN 1 ELSE 0),
           replies'[q] \in Nat
    PROVE  Placement'
<1>0. /\ LoopStarted /\ NoRepetition
      /\ \A r \in Requests : OnePlace(r) /\ replies[r] \in Nat
      /\ q \in arrived /\ q \notin delegated
  BY DEF Placement, Owners, TypeOK
<1>1. /\ \A r \in Requests \ {q} : HeldBy(r)' = HeldBy(r)
      /\ HeldBy(q) = IF pc[t] \in HeldPCs THEN {t} ELSE {}
      /\ HeldBy(q)' = IF l \in HeldPCs THEN {t} ELSE {}
  BY HeldStep
<1>2. LoopStarted' /\ \A r \in Requests : StillWaiting(r)' = StillWaiting(r)
  BY <1>0, StillSame
<1>3. NoRepetition' BY <1>0 DEF NoRepetition
<1>4. ASSUME NEW r \in Requests \ {q} PROVE OnePlace(r)'
  <2>1. OnePlace(r) BY <1>0
  <2> QED BY <1>1, <1>2, <2>1 DEF OnePlace
<1>5. OnePlace(q)'
  <2>1. OnePlace(q) /\ replies[q] \in Nat BY <1>0
  <2>2. (IF HeldBy(q) = {} THEN 0 ELSE 1) = IF pc[t] \in HeldPCs THEN 1 ELSE 0
    BY <1>1
  <2>3. (IF HeldBy(q)' = {} THEN 0 ELSE 1) = IF l \in HeldPCs THEN 1 ELSE 0
    BY <1>1
  <2>4. StillWaiting(q)' = StillWaiting(q) BY <1>2
  <2> QED BY <1>0, <2>1, <2>2, <2>3, <2>4 DEF OnePlace
<1> QED BY <1>2, <1>3, <1>4, <1>5 DEF Placement

\* A new request has its first place in the hands of a worker.
LEMMA ArriveStep ==
    ASSUME TypeOK, Owners, Placement, NEW t \in Threads, NEW q \in Requests,
           Arrive(t, q)
    PROVE  Placement'
<1>0. /\ pc[t] = "idle" /\ Goto(t, "test") /\ q \notin arrived
      /\ arrived' = arrived \cup {q} /\ cur' = [cur EXCEPT ![t] = q]
      /\ UNCHANGED <<pos, replies, delegated, waiting>>
      /\ LoopStarted /\ NoRepetition
      /\ \A r \in Requests : OnePlace(r) /\ replies[r] \in Nat
  BY DEF Arrive, Placement, TypeOK
<1>1. LoopStarted' /\ \A r \in Requests : StillWaiting(r)' = StillWaiting(r)
  BY <1>0, StillSame DEF PCs
<1>2. t \in HeldBy(q)' BY <1>0 DEF Goto, HeldBy, HeldPCs, TypeOK
<1>3. \A r \in Requests \ {q} : HeldBy(r)' = HeldBy(r)
  BY <1>0 DEF Goto, HeldBy, HeldPCs, TypeOK
<1>4. OnePlace(q)'
  <2>1. OnePlace(q) /\ replies[q] \in Nat BY <1>0
  <2> QED BY <1>0, <1>1, <1>2, <2>1 DEF OnePlace
<1>5. ASSUME NEW r \in Requests \ {q} PROVE OnePlace(r)'
  <2>1. OnePlace(r) BY <1>0
  <2> QED BY <1>0, <1>1, <1>3, <2>1 DEF OnePlace
<1>6. NoRepetition' BY <1>0 DEF NoRepetition
<1> QED BY <1>1, <1>4, <1>5, <1>6 DEF Placement

\* A request is pushed once: it was held, so that it is not in the list.
LEMMA PushStep ==
    ASSUME TypeOK, Owners, MutexOwned, MutexOwned', Placement,
           NEW t \in Threads, NEW q \in Requests, q = cur[t],
           PushWaitingRequest(t)
    PROVE  Placement'
<1>0. /\ pc[t] = "push" /\ Goto(t, "done") /\ mutex = NoThread
      /\ waiting' = Append(waiting, q)
      /\ UNCHANGED <<cur, pos, arrived, replies, delegated, mutex>>
      /\ LoopStarted /\ NoRepetition /\ waiting \in Seq(Requests)
      /\ \A r \in Requests : OnePlace(r) /\ replies[r] \in Nat
  BY DEF PushWaitingRequest, Placement, TypeOK
<1>1. /\ \A r \in Requests \ {q} : HeldBy(r)' = HeldBy(r)
      /\ HeldBy(q) = {t} /\ HeldBy(q)' = {}
  <2>1. /\ "done" \in PCs /\ "done" \notin HeldPCs
        /\ "push" \in HeldPCs /\ AtWork(t)
    BY <1>0 DEF PCs, HeldPCs, AtWork
  <2> QED BY <1>0, <2>1, HeldGo
<1>2. StillWaiting(q) = {} /\ OnePlace(q) /\ replies[q] \in Nat
  BY <1>0, <1>1, OnlyPlace
<1>3. \A i \in DOMAIN waiting : waiting[i] # q
  BY <1>0, <1>2, StillFree
<1>4. /\ Len(waiting') = Len(waiting) + 1 /\ waiting'[Len(waiting')] = q
      /\ \A i \in DOMAIN waiting : waiting'[i] = waiting[i]
      /\ DOMAIN waiting' = DOMAIN waiting \cup {Len(waiting')}
      /\ Len(waiting') \notin DOMAIN waiting
  BY <1>0
<1>5. /\ \A r \in Requests : StillWaiting(r)' =
                               {i \in DOMAIN waiting' : waiting'[i] = r}
      /\ \A r \in Requests : StillWaiting(r) =
                               {i \in DOMAIN waiting : waiting[i] = r}
  <2>1. mutex' = NoThread BY <1>0
  <2>2. \A u \in Threads : pc'[u] # "process"
    BY <2>1, ThreadAssumption DEF MutexOwned, Threads
  <2> QED BY <1>0, <2>2, StillFree DEF StillWaiting
<1>6. StillWaiting(q)' # {}
  BY <1>4, <1>5
<1>7. \A r \in Requests \ {q} : StillWaiting(r)' = StillWaiting(r)
  <2> SUFFICES ASSUME NEW r \in Requests \ {q}
               PROVE  {i \in DOMAIN waiting' : waiting'[i] = r}
                        = {i \in DOMAIN waiting : waiting[i] = r}
    BY <1>5
  <2>1. waiting'[Len(waiting')] # r BY <1>4
  <2> QED BY <1>4, <2>1
<1>8. NoRepetition' BY <1>0, <1>3, <1>4 DEF NoRepetition
<1>9. LoopStarted' BY <1>0 DEF LoopStarted, Goto, TypeOK
<1>10. OnePlace(q)' BY <1>0, <1>1, <1>2, <1>6 DEF OnePlace
<1>11. ASSUME NEW r \in Requests \ {q} PROVE OnePlace(r)'
  <2>1. OnePlace(r) BY <1>0
  <2> QED BY <1>0, <1>1, <1>7, <2>1 DEF OnePlace
<1> QED BY <1>8, <1>9, <1>10, <1>11 DEF Placement

\* The loop starts with the whole list still to do.
LEMMA BeginStep ==
    ASSUME TypeOK, Owners, MutexOwned, MutexOwned', Placement,
           NEW t \in Threads, NEW q \in Requests, q = cur[t], ProcessBegin(t)
    PROVE  Placement'
<1>0. /\ pc[t] = "acquire" /\ Goto(t, "process") /\ mutex = NoThread
      /\ pos' = [pos EXCEPT ![t] = 1] /\ mutex' = t
      /\ UNCHANGED <<cur, arrived, replies, delegated, waiting>>
      /\ NoRepetition /\ waiting \in Seq(Requests)
      /\ \A r \in Requests : OnePlace(r)
  BY DEF ProcessBegin, Placement, TypeOK
<1>1. \A r \in Requests : HeldBy(r)' = HeldBy(r)
  <2>1. /\ \A r \in Requests \ {q} : HeldBy(r)' = HeldBy(r)
        /\ HeldBy(q) = {} /\ HeldBy(q)' = {}
    <3>1. /\ "process" \in PCs /\ "process" \notin HeldPCs
          /\ "acquire" \notin HeldPCs /\ AtWork(t)
      BY <1>0 DEF PCs, HeldPCs, AtWork
    <3> QED BY <1>0, <3>1, HeldGo
  <2> QED BY <2>1
<1>2. pc'[t] = "process" /\ pos'[t] = 1
  BY <1>0 DEF Goto, TypeOK
<1>3. \A u \in Threads : pc'[u] = "process" => u = t
  BY <1>2 DEF MutexOwned
<1>4. \A r \in Requests : StillWaiting(r)' = StillWaiting(r)
  <2>1. \A i \in DOMAIN waiting : i >= 1 BY <1>0
  <2> QED BY <1>0, <1>2, <1>3, <2>1, StillFree DEF StillWaiting
<1>5. LoopStarted' BY <1>2, <1>3 DEF LoopStarted
<1> QED BY <1>0, <1>1, <1>4, <1>5 DEF Placement, NoRepetition, OnePlace

\* One turn of the loop answers the request at its position, which is the only
\* one with that request.
LEMMA TurnStep ==
    ASSUME TypeOK, MutexOwned, Placement, NEW t \in Threads, ProcessRequest(t)
    PROVE  Placement'
<1>0. /\ pc[t] = "process" /\ pos[t] <= Len(waiting)
      /\ Reply(waiting[pos[t]]) /\ pos' = [pos EXCEPT ![t] = pos[t] + 1]
      /\ UNCHANGED <<pc, cur, arrived, delegated, waiting, mutex>>
      /\ LoopStarted /\ NoRepetition /\ waiting \in Seq(Requests)
      /\ pos \in [Threads -> Nat] /\ replies \in [Requests -> Nat]
      /\ \A r \in Requests : OnePlace(r)
  BY DEF ProcessRequest, Placement, TypeOK
<1>1. pos[t] \in DOMAIN waiting /\ pos'[t] = pos[t] + 1 /\ pos[t] \in Nat
  BY <1>0 DEF LoopStarted
<1>2. PICK w \in Requests : w = waiting[pos[t]]
  BY <1>0, <1>1
<1>3. MutexOwned' /\ pc'[t] = "process"
  BY <1>0 DEF MutexOwned
<1>4. \A r \in Requests :
        /\ StillWaiting(r)
             = {i \in DOMAIN waiting : waiting[i] = r /\ pos[t] <= i}
        /\ StillWaiting(r)'
             = {i \in DOMAIN waiting : waiting[i] = r /\ pos[t] + 1 <= i}
  <2>1. \A u \in Threads : pc[u] = "process" <=> u = t
    BY <1>0 DEF MutexOwned
  <2> QED BY <1>0, <1>1, <2>1 DEF StillWaiting
<1>5. \A r \in Requests : HeldBy(r)' = HeldBy(r)
  BY <1>0 DEF HeldBy
<1>6. StillWaiting(w) # {} /\ StillWaiting(w)' = {}
  <2>1. pos[t] \in StillWaiting(w) BY <1>1, <1>2, <1>4
  <2>2. \A i \in DOMAIN waiting : waiting[i] = w => i = pos[t]
    BY <1>0, <1>1, <1>2 DEF NoRepetition
  <2>3. ~(pos[t] + 1 <= pos[t]) BY <1>1
  <2> QED BY <1>4, <2>1, <2>2, <2>3
<1>7. replies'[w] = replies[w] + 1 /\ replies[w] \in Nat
  BY <1>0, <1>2 DEF Reply
<1>8. OnePlace(w)'
  <2>1. OnePlace(w) BY <1>0
  <2> QED BY <1>0, <1>5, <1>6, <1>7, <2>1 DEF OnePlace
<1>9. ASSUME NEW r \in Requests, r # w PROVE OnePlace(r)'
  <2>1. OnePlace(r) /\ replies'[r] = replies[r]
    BY <1>0, <1>2, <1>9 DEF Reply
  <2>2. \A i \in DOMAIN waiting :
           waiting[i] = r => (pos[t] <= i <=> pos[t] + 1 <= i)
    <3> SUFFICES ASSUME NEW i \in DOMAIN waiting, waiting[i] = r
                 PROVE  pos[t] <= i <=> pos[t] + 1 <= i
      OBVIOUS
    <3>1. i # pos[t] /\ i \in Nat BY <1>0, <1>2, <1>9
    <3> QED BY <1>1, <3>1
  <2>3. StillWaiting(r)' = StillWaiting(r) BY <1>4, <2>2
  <2> QED BY <1>0, <1>5, <2>1, <2>3 DEF OnePlace
<1>10. LoopStarted'
  <2>1. ASSUME NEW u \in Threads, pc'[u] = "process" PROVE pos'[u] > 0
    BY <1>0, <1>1, <2>1 DEF LoopStarted
  <2> QED BY <2>1 DEF LoopStarted
<1>11. NoRepetition' BY <1>0 DEF NoRepetition
<1> QED BY <1>8, <1>9, <1>10, <1>11 DEF Placement

\* When the list is cleared nothing of it is still to do.
LEMMA EndStep ==
    ASSUME TypeOK, Owners, MutexOwned, MutexOwned', Placement,
           NEW t \in Threads, NEW q \in Requests, q = cur[t], ProcessEnd(t)
    PROVE  Placement'
<1>0. /\ pc[t] = "process" /\ pos[t] > Len(waiting) /\ waiting' = <<>>
      /\ \E l \in {"idle", "issued"} : Goto(t, l)
      /\ cur' = [cur EXCEPT ![t] = NoRequest]
      /\ mutex' = NoThread
      /\ UNCHANGED <<arrived, replies, delegated>>
      /\ waiting \in Seq(Requests) /\ pos \in [Threads -> Nat]
      /\ \A r \in Requests : OnePlace(r)
  BY DEF ProcessEnd, Leave, Placement, TypeOK
<1>1. \A r \in Requests : HeldBy(r)' = HeldBy(r)
  BY <1>0 DEF HeldBy, HeldPCs, Goto, TypeOK
<1>2. \A r \in Requests : StillWaiting(r) = {} /\ StillWaiting(r)' = {}
  <2>1. \A i \in DOMAIN waiting : ~(pos[t] <= i)
    BY <1>0
  <2>2. DOMAIN waiting' = {} BY <1>0
  <2> QED BY <1>0, <2>1, <2>2, StillOwned DEF StillWaiting
<1>3. LoopStarted'
  BY <1>0, ThreadAssumption DEF LoopStarted, MutexOwned, Threads
<1>4. NoRepetition' BY <1>0 DEF NoRepetition
<1> QED BY <1>0, <1>1, <1>2, <1>3, <1>4 DEF Placement, OnePlace

\* The end of issueDelegateRequests moves no request.
LEMMA ReturnStep ==
    ASSUME TypeOK, Placement, NEW t \in Threads, IssueReturn(t)
    PROVE  Placement'
<1>0. /\ pc[t] = "issued" /\ Goto(t, "idle")
      /\ cur' = [cur EXCEPT ![t] = NoRequest]
      /\ UNCHANGED <<pos, arrived, replies, delegated, waiting>>
      /\ LoopStarted /\ NoRepetition
      /\ \A r \in Requests : OnePlace(r)
  BY DEF IssueReturn, Return, Placement
<1>1. LoopStarted' /\ \A r \in Requests : StillWaiting(r)' = StillWaiting(r)
  BY <1>0, StillSame DEF PCs
<1>2. \A r \in Requests : HeldBy(r)' = HeldBy(r)
  BY <1>0 DEF HeldBy, HeldPCs, Goto, TypeOK
<1> QED BY <1>0, <1>1, <1>2 DEF Placement, NoRepetition, OnePlace

\* A delegated request becomes answered.
LEMMA CompleteStep ==
    ASSUME TypeOK, Placement, NEW q \in Requests, CompleteDelegated(q)
    PROVE  Placement'
<1>0. /\ pc[EventLoop] = "idle" /\ q \in delegated
      /\ delegated' = delegated \ {q} /\ Reply(q)
      /\ cur' = [cur EXCEPT ![EventLoop] = q] /\ Goto(EventLoop, "done")
      /\ UNCHANGED <<pos, arrived, waiting>>
      /\ LoopStarted /\ NoRepetition
      /\ \A r \in Requests : OnePlace(r) /\ replies[r] \in Nat
  BY DEF CompleteDelegated, Placement, TypeOK
<1>1. EventLoop \in Threads BY DEF Threads
<1>2. LoopStarted' /\ \A r \in Requests : StillWaiting(r)' = StillWaiting(r)
  <2>1. "done" \in PCs \ {"process"} /\ pc[EventLoop] # "process"
    BY <1>0 DEF PCs
  <2>2. UNCHANGED <<pos, waiting>> BY <1>0
  <2> QED BY <1>0, <1>1, <2>1, <2>2, StillSame
<1>3. \A r \in Requests : HeldBy(r)' = HeldBy(r)
  BY <1>0, <1>1 DEF HeldBy, HeldPCs, Goto, TypeOK
<1>4. OnePlace(q)'
  <2>1. replies'[q] = replies[q] + 1 BY <1>0 DEF Reply, TypeOK
  <2>2. OnePlace(q) /\ replies[q] \in Nat BY <1>0
  <2> QED BY <1>0, <1>2, <1>3, <2>1, <2>2 DEF OnePlace
<1>5. ASSUME NEW r \in Requests \ {q} PROVE OnePlace(r)'
  <2>1. replies'[r] = replies[r] BY <1>0 DEF Reply, TypeOK
  <2>2. OnePlace(r) BY <1>0
  <2> QED BY <1>0, <1>2, <1>3, <2>1, <2>2 DEF OnePlace
<1>6. NoRepetition' BY <1>0 DEF NoRepetition
<1> QED BY <1>2, <1>4, <1>5, <1>6 DEF Placement

\* Without exceptions every step keeps a request in one place.
LEMMA PlacementStep ==
    ASSUME TypeOK, Owners, MutexOwned, MutexOwned', Placement,
           [QuietNext]_vars
    PROVE  Placement'
<1>1. ASSUME NEW t \in Workers, NEW q \in Requests, Arrive(t, q)
      PROVE  Placement'
  BY <1>1, ArriveStep DEF Threads
<1>2. ASSUME NEW t \in Threads, Work(t) PROVE Placement'
  <2>0. CASE IssueReturn(t)
    BY <2>0, ReturnStep
  <2>a. SUFFICES ASSUME ~IssueReturn(t)
                 PROVE  Placement'
    BY <2>0
  <2>b. AtWork(t)
    BY <1>2, <2>a DEF Work, RejectHalted, PassHalted, RejectInvalid,
       StartRunRequest, ExecuteReply, ExecuteDelegate, ExecuteIssueEnds,
       ExecuteNeedExclusive, PushWaitingRequest, DoneRunRequest,
       HaltedForMaintenance, ProcessBegin, ProcessRequest, ProcessEnd, AtWork
  <2>1. PICK q \in Requests : q = cur[t]
    BY <2>b DEF Owners, TypeOK
  <2>2. CASE PushWaitingRequest(t) BY <2>1, <2>2, PushStep
  <2>3. CASE ProcessBegin(t) BY <2>1, <2>3, BeginStep
  <2>4. CASE ProcessRequest(t) BY <2>4, TurnStep
  <2>5. CASE ProcessEnd(t) BY <2>1, <2>5, EndStep
  <2>6. CASE \/ RejectHalted(t) \/ RejectInvalid(t) \/ ExecuteReply(t)
             \/ ExecuteDelegate(t) \/ ExecuteIssueEnds(t) \/ PassHalted(t)
             \/ StartRunRequest(t) \/ ExecuteNeedExclusive(t)
             \/ DoneRunRequest(t) \/ HaltedForMaintenance(t)
    <3>0. /\ replies \in [Requests -> Nat] /\ pc \in [Threads -> PCs]
          /\ cur \in [Threads -> Requests \cup {NoRequest}]
          /\ q \notin delegated
      BY <2>b, <2>1 DEF TypeOK, Owners
    <3>1. /\ pc[t] # "process"
          /\ pos' = pos /\ waiting' = waiting /\ arrived' = arrived
      BY <2>6 DEF RejectHalted, RejectInvalid, ExecuteReply,
         ExecuteDelegate, ExecuteIssueEnds, PassHalted, StartRunRequest,
         ExecuteNeedExclusive, DoneRunRequest, HaltedForMaintenance
    <3>2. PICK l \in PCs \ {"process"} :
            /\ Goto(t, l)
            /\ \A u \in Threads \ {t} : cur'[u] = cur[u]
            /\ cur'[t] \in {q, NoRequest}
            /\ l \in HeldPCs => cur'[t] = q
            /\ \A r \in Requests \ {q} :
                  /\ replies'[r] = replies[r]
                  /\ r \in delegated' <=> r \in delegated
            /\ replies'[q] + (IF q \in delegated' THEN 1 ELSE 0)
                 + (IF l \in HeldPCs THEN 1 ELSE 0)
               = replies[q] + (IF pc[t] \in HeldPCs THEN 1 ELSE 0)
            /\ replies'[q] \in Nat
      <4>1. CASE \/ RejectHalted(t) \/ RejectInvalid(t)
                 \/ ExecuteReply(t) \/ ExecuteDelegate(t)
                 \/ ExecuteIssueEnds(t)
        <5>1. \/ Reply(q) /\ delegated' = delegated
              \/ replies' = replies /\ delegated' = delegated \cup {q}
          BY <2>1, <4>1 DEF RejectHalted, RejectInvalid, ExecuteReply,
             ExecuteDelegate, ExecuteIssueEnds
        <5>2. /\ \A r \in Requests \ {q} :
                   /\ replies'[r] = replies[r]
                   /\ r \in delegated' <=> r \in delegated
              /\ replies'[q] + (IF q \in delegated' THEN 1 ELSE 0)
                   = replies[q] + 1
              /\ replies'[q] \in Nat
          BY <3>0, <5>1 DEF Reply
        <5>3. pc[t] \in HeldPCs
          BY <4>1 DEF RejectHalted, RejectInvalid, ExecuteReply,
             ExecuteDelegate, ExecuteIssueEnds, HeldPCs
        <5>4. PICK l \in {"idle", "done", "issued"} :
                /\ Goto(t, l)
                /\ cur' = cur \/ cur' = [cur EXCEPT ![t] = NoRequest]
          BY <4>1 DEF RejectHalted, RejectInvalid, ExecuteReply,
             ExecuteDelegate, ExecuteIssueEnds, Return
        <5>5. /\ \A u \in Threads \ {t} : cur'[u] = cur[u]
              /\ cur'[t] \in {q, NoRequest}
          BY <2>1, <3>0, <5>4
        <5>6. l \in PCs \ {"process"} /\ l \notin HeldPCs
          BY <5>4 DEF PCs, HeldPCs
        <5> QED BY <3>0, <5>2, <5>3, <5>4, <5>5, <5>6
      <4>2. CASE \/ PassHalted(t) \/ StartRunRequest(t)
                 \/ ExecuteNeedExclusive(t) \/ DoneRunRequest(t)
                 \/ HaltedForMaintenance(t)
        <5>1. replies' = replies /\ delegated' = delegated
          BY <4>2 DEF PassHalted, StartRunRequest, ExecuteNeedExclusive,
             DoneRunRequest, HaltedForMaintenance
        <5>2. PICK l \in PCs \ {"process"} :
                /\ Goto(t, l) /\ (pc[t] \in HeldPCs <=> l \in HeldPCs)
                /\ \/ cur' = cur
                   \/ l \notin HeldPCs /\ cur' = [cur EXCEPT ![t] = NoRequest]
          BY <4>2 DEF PassHalted, StartRunRequest, ExecuteNeedExclusive,
             DoneRunRequest, HaltedForMaintenance, Leave, PCs, HeldPCs
        <5>3. /\ \A u \in Threads \ {t} : cur'[u] = cur[u]
              /\ cur'[t] \in {q, NoRequest}
              /\ l \in HeldPCs => cur'[t] = q
          BY <2>1, <3>0, <5>2
        <5> QED BY <3>0, <5>1, <5>2, <5>3
      <4> QED BY <2>6, <4>1, <4>2
    <3> QED BY <2>1, <2>b, <3>1, <3>2, MoveStep
  <2> QED
    BY <1>2, <2>a, <2>2, <2>3, <2>4, <2>5, <2>6 DEF Work
<1>3. ASSUME NEW q \in Requests, CompleteDelegated(q) PROVE Placement'
  BY <1>3, CompleteStep
<1>4. CASE UNCHANGED vars
  BY <1>4 DEF vars, Placement, LoopStarted, NoRepetition, OnePlace, HeldBy,
     StillWaiting
<1> QED BY <1>1, <1>2, <1>3, <1>4 DEF QuietNext, Receive, DelegateAnswer

\* Every step without exceptions keeps the invariant.
LEMMA AnswerInvStep == AnswerInv /\ [QuietNext]_vars => AnswerInv'
<1> SUFFICES ASSUME AnswerInv, [QuietNext]_vars PROVE AnswerInv'
  OBVIOUS
<1>1. [Next]_vars BY DEF Next
<1>2. IInv' /\ ListAnswered' BY <1>1, InvStep, ListStep DEF AnswerInv
<1>3. Placement' BY <1>2, PlacementStep DEF AnswerInv, IInv
<1> QED BY <1>2, <1>3 DEF AnswerInv

\* No request is anywhere when the service starts.
LEMMA AnswerInit == Init => AnswerInv
<1> SUFFICES ASSUME Init PROVE AnswerInv
  OBVIOUS
<1>1. ListAnswered /\ LoopStarted /\ NoRepetition
  BY DEF Init, ListAnswered, LoopStarted, NoRepetition
<1>2. \A r \in Requests : HeldBy(r) = {} /\ StillWaiting(r) = {}
  BY DEF Init, HeldBy, HeldPCs, StillWaiting
<1>3. \A r \in Requests : OnePlace(r)
  BY <1>2 DEF Init, OnePlace
<1> QED BY <1>1, <1>3, InvInit DEF AnswerInv, Placement

\* The invariant holds in every state of a service where nothing throws.
LEMMA AnswerHolds == QuietSpec => []AnswerInv
BY AnswerInit, AnswerInvStep, PTL DEF QuietSpec

\* The places of the invariant counted as the property counts them.
LEMMA PlacesCounted == AnswerInv => AnsweredOnce
<1> SUFFICES ASSUME AnswerInv, NEW r \in Requests
    PROVE  replies[r] + Cardinality(HeldBy(r)) + Cardinality(StillWaiting(r))
             + (IF r \in delegated THEN 1 ELSE 0)
           = (IF r \in arrived THEN 1 ELSE 0)
  BY DEF AnsweredOnce
<1>0. OnePlace(r) /\ replies[r] \in Nat
  BY DEF AnswerInv, Placement, IInv, TypeOK
<1>1. Cardinality(HeldBy(r)) = IF HeldBy(r) = {} THEN 0 ELSE 1
  <2>1. \A t, u \in HeldBy(r) : t = u
    BY DEF AnswerInv, IInv, Owners, AtWork, HeldBy, HeldPCs
  <2>2. HeldBy(r) = {} \/ \E t : HeldBy(r) = {t}
    BY <2>1
  <2> QED BY <2>2, FS_EmptySet, FS_Singleton
<1>2. Cardinality(StillWaiting(r)) = IF StillWaiting(r) = {} THEN 0 ELSE 1
  <2>1. \A i, j \in StillWaiting(r) : i = j
    BY DEF AnswerInv, Placement, NoRepetition, StillWaiting
  <2>2. StillWaiting(r) = {} \/ \E i : StillWaiting(r) = {i}
    BY <2>1
  <2> QED BY <2>2, FS_EmptySet, FS_Singleton
<1> QED BY <1>0, <1>1, <1>2 DEF OnePlace

\* Without exceptions every accepted request has one response or one place it
\* will come from: held by a thread, delegated or waiting.
THEOREM AnsweredExactlyOnce == QuietSpec => []AnsweredOnce
BY AnswerHolds, PlacesCounted, PTL

----------------------------------------------------------------------------
(* Refinement of RequestService *)

\* A response to a request without one, and nothing else a client sees, is
\* Answer of the promise.
LEMMA AnswerMaps ==
    ASSUME TypeOK, NEW q \in Requests, q \in arrived, replies[q] = 0,
           Reply(q), arrived' = arrived, waiting' = waiting, halted' = halted
    PROVE  Service!Answer(q)
<1>0. /\ replies'[q] = 1
      /\ \A r \in Requests \ {q} : replies'[r] = replies[r]
  BY DEF Reply, TypeOK
<1>1. StatusOf(q) \in {"open", "parked"} /\ StatusOf(q)' = "answered"
  BY <1>0 DEF StatusOf
<1>2. \A r \in Requests \ {q} : StatusOf(r)' = StatusOf(r)
  BY <1>0 DEF StatusOf
<1> QED BY <1>1, <1>2 DEF Service!Answer

\* A step no client sees.
LEMMA StutterMaps ==
    ASSUME replies' = replies, arrived' = arrived, waiting' = waiting,
           halted' = halted
    PROVE  UNCHANGED Service!svars
BY DEF Service!svars, StatusOf

\* A new request is accepted.
LEMMA ArriveMaps ==
    ASSUME TypeOK, Placement, NEW t \in Threads, NEW q \in Requests,
           Arrive(t, q), MutexOwned, ListAnswered
    PROVE  Service!Accept(q)
<1>0. /\ q \notin arrived /\ arrived' = arrived \cup {q}
      /\ replies' = replies /\ waiting' = waiting /\ halted' = halted
  BY DEF Arrive
<1>1. replies[q] = 0 /\ StillWaiting(q) = {}
  <2>1. replies[q] \in Nat /\ OnePlace(q) BY DEF Placement, TypeOK
  <2> QED BY <1>0, <2>1 DEF OnePlace
<1>2. \A i \in DOMAIN waiting : waiting[i] # q
  BY <1>1, ListedOrAnswered
<1>3. StatusOf(q) = "unseen" /\ StatusOf(q)' = "open"
  BY <1>0, <1>1, <1>2 DEF StatusOf
<1>4. \A r \in Requests \ {q} : StatusOf(r)' = StatusOf(r)
  BY <1>0 DEF StatusOf
<1> QED BY <1>0, <1>3, <1>4 DEF Service!Accept

\* A pushed request is parked.
LEMMA PushMaps ==
    ASSUME TypeOK, Placement, NEW t \in Threads, NEW q \in Requests,
           q = cur[t], PushWaitingRequest(t), MutexOwned, ListAnswered
    PROVE  Service!Park(q)
<1>0. /\ pc[t] = "push" /\ waiting' = Append(waiting, q) /\ halted' = TRUE
      /\ replies' = replies /\ arrived' = arrived
      /\ waiting \in Seq(Requests)
  BY DEF PushWaitingRequest, TypeOK
<1>1. q \in arrived /\ replies[q] = 0 /\ StillWaiting(q) = {}
  <2>1. t \in HeldBy(q) BY <1>0 DEF HeldBy, HeldPCs
  <2> QED BY <2>1, OnlyPlace DEF Placement
<1>2. \A i \in DOMAIN waiting : waiting[i] # q
  BY <1>1, ListedOrAnswered
<1>3. \A r : (\E i \in DOMAIN waiting' : waiting'[i] = r)
               <=> r = q \/ \E i \in DOMAIN waiting : waiting[i] = r
  BY <1>0
<1>4. StatusOf(q) = "open" /\ StatusOf(q)' = "parked"
  BY <1>0, <1>1, <1>2, <1>3 DEF StatusOf
<1>5. \A r \in Requests \ {q} : StatusOf(r)' = StatusOf(r)
  BY <1>0, <1>3 DEF StatusOf
<1> QED BY <1>0, <1>4, <1>5 DEF Service!Park

\* The service opens again when every parked request has been answered.
LEMMA EndMaps ==
    ASSUME TypeOK, NEW t \in Threads, ProcessEnd(t), ListAnswered, FlagIsList
    PROVE  Service!Reopen \/ UNCHANGED Service!svars
<1>0. /\ pc[t] = "process" /\ pos[t] > Len(waiting) /\ waiting' = <<>>
      /\ halted' = FALSE /\ replies' = replies /\ arrived' = arrived
      /\ waiting \in Seq(Requests) /\ pos \in [Threads -> Nat]
  BY DEF ProcessEnd, TypeOK
<1>1. \A i \in DOMAIN waiting : replies[waiting[i]] > 0
  BY <1>0 DEF ListAnswered
<1>2. \A r \in Requests : StatusOf(r) # "parked"
  <2> SUFFICES ASSUME NEW r \in Requests, StatusOf(r) = "parked" PROVE FALSE
    OBVIOUS
  <2>1. /\ ~(replies[r] > 0) /\ \E i \in DOMAIN waiting : waiting[i] = r
    BY DEF StatusOf
  <2> QED BY <1>1, <2>1
<1>3. \A r \in Requests : StatusOf(r)' = StatusOf(r)
  <2> SUFFICES ASSUME NEW r \in Requests PROVE StatusOf(r)' = StatusOf(r)
    OBVIOUS
  <2>1. ~\E i \in DOMAIN waiting' : waiting'[i] = r BY <1>0
  <2>2. StatusOf(r) # "parked" BY <1>2
  <2> QED BY <1>0, <2>1, <2>2 DEF StatusOf
<1>4. CASE halted
  BY <1>0, <1>2, <1>3, <1>4 DEF Service!Reopen
<1>5. CASE ~halted
  <2>1. halted' = halted
    BY <1>0, <1>5 DEF TypeOK
  <2> QED BY <1>3, <2>1 DEF Service!svars
<1> QED BY <1>4, <1>5

\* Every step without exceptions is a step of the promise, or one no client
\* sees.
LEMMA ServiceStep ==
    AnswerInv /\ [QuietNext]_vars => [Service!SNext]_(Service!svars)
<1> SUFFICES ASSUME AnswerInv, [QuietNext]_vars
             PROVE  Service!SNext \/ UNCHANGED Service!svars
  OBVIOUS
<1>0. /\ TypeOK /\ Owners /\ MutexOwned /\ FlagIsList /\ ListAnswered
      /\ Placement /\ LoopStarted
      /\ \A r \in Requests : OnePlace(r)
  BY DEF AnswerInv, IInv, Placement
<1> USE DEF Service!SNext
<1>1. ASSUME NEW t \in Workers, NEW q \in Requests, Arrive(t, q)
      PROVE  Service!SNext
  <2>1. t \in Threads BY DEF Threads
  <2> QED BY <1>0, <1>1, <2>1, ArriveMaps
<1>2. ASSUME NEW t \in Threads, Work(t)
      PROVE  Service!SNext \/ UNCHANGED Service!svars
  <2>0. CASE IssueReturn(t)
    BY <2>0, StutterMaps DEF IssueReturn
  <2>a. SUFFICES ASSUME ~IssueReturn(t)
                 PROVE  Service!SNext \/ UNCHANGED Service!svars
    BY <2>0
  <2>b. AtWork(t)
    BY <1>2, <2>a DEF Work, RejectHalted, PassHalted, RejectInvalid,
       StartRunRequest, ExecuteReply, ExecuteDelegate, ExecuteIssueEnds,
       ExecuteNeedExclusive, PushWaitingRequest, DoneRunRequest,
       HaltedForMaintenance, ProcessBegin, ProcessRequest, ProcessEnd, AtWork
  <2>1. PICK q \in Requests : q = cur[t]
    BY <1>0, <2>b DEF Owners, TypeOK
  <2>2. CASE \/ RejectHalted(t) \/ RejectInvalid(t) \/ ExecuteReply(t)
             \/ ExecuteIssueEnds(t)
    <3>1. t \in HeldBy(q)
      BY <2>1, <2>2 DEF HeldBy, HeldPCs, RejectHalted, RejectInvalid,
         ExecuteReply, ExecuteIssueEnds
    <3>2. q \in arrived /\ replies[q] = 0
      BY <1>0, <3>1, OnlyPlace
    <3>3. /\ Reply(q) /\ arrived' = arrived /\ waiting' = waiting
          /\ halted' = halted
      BY <2>1, <2>2 DEF RejectHalted, RejectInvalid, ExecuteReply,
         ExecuteIssueEnds
    <3> QED BY <1>0, <3>2, <3>3, AnswerMaps
  <2>3. CASE PushWaitingRequest(t)
    BY <1>0, <2>1, <2>3, PushMaps
  <2>4. CASE ProcessRequest(t)
    <3>0. /\ pc[t] = "process" /\ pos[t] <= Len(waiting)
          /\ Reply(waiting[pos[t]]) /\ arrived' = arrived
          /\ waiting' = waiting /\ halted' = halted
          /\ waiting \in Seq(Requests) /\ pos[t] \in Nat /\ pos[t] >= 1
      BY <1>0, <2>4 DEF ProcessRequest, TypeOK, LoopStarted
    <3>1. PICK w \in Requests : w = waiting[pos[t]]
      BY <3>0
    <3>2. pos[t] \in StillWaiting(w)
      BY <1>0, <3>0, <3>1, StillOwned
    <3>3. w \in arrived /\ replies[w] = 0
      BY <1>0, <3>2, OnlyPlace
    <3> QED BY <1>0, <3>0, <3>1, <3>3, AnswerMaps
  <2>5. CASE ProcessEnd(t)
    BY <1>0, <2>5, EndMaps
  <2>6. CASE \/ PassHalted(t) \/ StartRunRequest(t) \/ ExecuteDelegate(t)
             \/ ExecuteNeedExclusive(t) \/ DoneRunRequest(t)
             \/ HaltedForMaintenance(t) \/ ProcessBegin(t)
    <3>1. /\ replies' = replies /\ arrived' = arrived
          /\ waiting' = waiting /\ halted' = halted
      BY <2>6 DEF PassHalted, StartRunRequest, ExecuteDelegate,
         ExecuteNeedExclusive, DoneRunRequest, HaltedForMaintenance,
         ProcessBegin
    <3> QED BY <3>1, StutterMaps
  <2> QED BY <1>2, <2>a, <2>2, <2>3, <2>4, <2>5, <2>6 DEF Work
<1>3. ASSUME NEW q \in Requests, CompleteDelegated(q) PROVE Service!SNext
  <2>1. /\ q \in delegated /\ Reply(q) /\ arrived' = arrived
        /\ waiting' = waiting /\ halted' = halted
    BY <1>3 DEF CompleteDelegated
  <2>2. q \in arrived /\ replies[q] = 0
    BY <1>0, <2>1, OnlyPlace
  <2> QED BY <1>0, <2>1, <2>2, AnswerMaps
<1>4. CASE UNCHANGED vars
  <2>1. /\ replies' = replies /\ arrived' = arrived
        /\ waiting' = waiting /\ halted' = halted
    BY <1>4 DEF vars
  <2> QED BY <2>1, StutterMaps
<1> QED BY <1>1, <1>2, <1>3, <1>4 DEF QuietNext, Receive, DelegateAnswer

\* The threads of the service implement the promise to the clients: one answer
\* each, and no end of the maintenance mode before the parked ones have it.
THEOREM KeepsPromise == QuietSpec => ImplementsService
<1>1. Init => Service!SInit
  BY DEF Init, Service!SInit, StatusOf
<1>2. AnswerInv /\ [QuietNext]_vars => [Service!SNext]_(Service!svars)
  BY ServiceStep
<1> QED
  BY <1>1, <1>2, AnswerHolds, PTL DEF QuietSpec, ImplementsService,
     Service!SSpec
=============================================================================
