------------------------ MODULE DelegateRequests_proofs ------------------------
(***************************************************************************)
(* Proofs about DelegateRequests, for lists of any length, any number of   *)
(* them, and any number of counters. The types hold whatever the lists;    *)
(* one response, and the counter, need lists that keep the two threads     *)
(* apart (Calm), since they share the counter without a lock.              *)
(***************************************************************************)
EXTENDS DelegateRequests, TLAPS

Frames == [list : Seq(Kinds), at : Nat, ctr : Counters, size : Nat]

\* A call of issueDelegateRequests belongs to a list that was handed out.
TInv ==
    /\ TypeOK
    /\ frame \in [Threads -> Frames]
    /\ calls <= lists

----------------------------------------------------------------------------
(* Types *)

\* A list to issue starts at its first element; without one there is nothing.
LEMMA FrameTypes ==
    /\ NoFrame \in Frames
    /\ NoFrame.list = <<>> /\ NoFrame.at = 1 /\ NoFrame.ctr = 1
    /\ \A l \in FirstLists \cup FollowLists, c \in Counters :
         /\ Frame(l, c) \in Frames
         /\ Frame(l, c).list = l /\ Frame(l, c).at = 1
         /\ Frame(l, c).ctr = c /\ Frame(l, c).size = Len(l)
         /\ l \in Seq(Kinds) /\ l # <<>> /\ Len(l) \in Nat /\ Len(l) >= 1
<1>1. 1 \in Counters BY ListAssumption DEF Counters
<1>2. NoFrame \in Frames BY <1>1 DEF NoFrame, Frames
<1>3. ASSUME NEW l \in FirstLists \cup FollowLists, NEW c \in Counters
      PROVE  /\ Frame(l, c) \in Frames
             /\ l \in Seq(Kinds) /\ l # <<>> /\ Len(l) \in Nat /\ Len(l) >= 1
  <2>1. l \in Seq(Kinds) /\ l # <<>> BY ListAssumption
  <2>2. Len(l) \in Nat /\ Len(l) >= 1 BY <2>1
  <2> QED BY <2>1, <2>2 DEF Frame, Frames
<1> QED BY <1>2, <1>3 DEF NoFrame, Frame

\* Where a thread goes on to the next element, there was one.
LEMMA NextTypes ==
    ASSUME TInv, NEW t \in Threads, NextElement(t), More(t)
    PROVE  /\ frame' \in [Threads -> Frames]
           /\ frame'[t].at = frame[t].at + 1
           /\ frame'[t].list = frame[t].list
           /\ frame'[t].ctr = frame[t].ctr /\ frame'[t].size = frame[t].size
           /\ \A u \in Threads \ {t} : frame'[u] = frame[u]
           /\ \A u \in Threads : frame'[u].at \in 1 .. Len(frame'[u].list) + 1
<1>1. frame[t] \in Frames /\ frame \in [Threads -> Frames] BY DEF TInv
<1>2. frame' = [frame EXCEPT ![t] = [frame[t] EXCEPT !.at = frame[t].at + 1]]
  BY DEF NextElement
<1>3. [frame[t] EXCEPT !.at = frame[t].at + 1] \in Frames
  BY <1>1 DEF Frames
<1>4. frame' \in [Threads -> Frames] BY <1>1, <1>2, <1>3
<1>5. /\ frame'[t].at = frame[t].at + 1
      /\ frame'[t].list = frame[t].list
      /\ frame'[t].ctr = frame[t].ctr /\ frame'[t].size = frame[t].size
      /\ \A u \in Threads \ {t} : frame'[u] = frame[u]
  BY <1>1, <1>2 DEF Frames
<1>6. \A u \in Threads : frame'[u].at \in 1 .. Len(frame'[u].list) + 1
  <2>1. frame[t].at \in 1 .. Len(frame[t].list) + 1
        /\ frame[t].at <= Len(frame[t].list) /\ Len(frame[t].list) \in Nat
    BY DEF TInv, TypeOK, More
  <2>2. frame'[t].at \in 1 .. Len(frame'[t].list) + 1 BY <1>5, <2>1
  <2> QED BY <1>5, <2>2 DEF TInv, TypeOK
<1> QED BY <1>4, <1>5, <1>6

\* A call that begins, or ends, leaves the frame of the other thread.
LEMMA NewTypes ==
    ASSUME TInv, NEW t \in Threads, NEW f \in Frames,
           frame' = [frame EXCEPT ![t] = f], f.at = 1
    PROVE  /\ frame' \in [Threads -> Frames] /\ frame'[t] = f
           /\ \A u \in Threads \ {t} : frame'[u] = frame[u]
           /\ \A u \in Threads : frame'[u].at \in 1 .. Len(frame'[u].list) + 1
<1>1. /\ frame' \in [Threads -> Frames] /\ frame'[t] = f
      /\ \A u \in Threads \ {t} : frame'[u] = frame[u]
  BY DEF TInv
<1>2. frame'[t].at \in 1 .. Len(frame'[t].list) + 1
  <2>1. Len(f.list) \in Nat BY DEF Frames
  <2> QED BY <1>1, <2>1
<1> QED BY <1>1, <1>2 DEF TInv, TypeOK

\* How the comparison of the counter with zero goes on.
LEMMA TestOutcomes ==
    ASSUME NEW t \in Threads, TestCounter(t)
    PROVE  /\ UNCHANGED <<tmp, counter, lists, calls, inflight, responses,
                         signals>>
           /\ pc[t] = "test"
           /\ \E v \in {tmp[t] - 1, counter[frame[t].ctr]} :
                \/ /\ v # 0 /\ Issuing(t)
                   /\ Goto(t, "issue") /\ NextElement(t)
                   /\ UNCHANGED <<todo, then>>
                \/ /\ v # 0 /\ ~Issuing(t)
                   /\ Goto(t, "idle")
                   /\ frame' = [frame EXCEPT ![t] = NoFrame]
                   /\ UNCHANGED <<todo, then>>
                \/ /\ v = 0 /\ Issuing(t) /\ frame[t].at # frame[t].size
                   /\ Do(t, <<"respond", "signal">>, "follow")
                   /\ UNCHANGED frame
                \/ /\ v = 0 /\ (Issuing(t) => frame[t].at = frame[t].size)
                   /\ Goto(t, "follow")
                   /\ UNCHANGED <<frame, todo, then>>
<1>1. PICK v \in {tmp[t] - 1, counter[frame[t].ctr]} :
        CASE v # 0 /\ Issuing(t) ->
                /\ Goto(t, "issue") /\ NextElement(t)
                /\ UNCHANGED <<todo, then>>
          [] v # 0 /\ ~Issuing(t) ->
                /\ Goto(t, "idle")
                /\ frame' = [frame EXCEPT ![t] = NoFrame]
                /\ UNCHANGED <<todo, then>>
          [] v = 0 /\ Issuing(t) /\ frame[t].at # frame[t].size ->
                /\ Do(t, <<"respond", "signal">>, "follow")
                /\ UNCHANGED frame
          [] OTHER ->
                /\ Goto(t, "follow")
                /\ UNCHANGED <<frame, todo, then>>
  BY DEF TestCounter
<1>2. CASE v # 0 /\ Issuing(t) BY <1>1, <1>2 DEF TestCounter
<1>3. CASE v # 0 /\ ~Issuing(t) BY <1>1, <1>3 DEF TestCounter
<1>4. CASE v = 0 /\ Issuing(t) /\ frame[t].at # frame[t].size
  BY <1>1, <1>4 DEF TestCounter
<1>5. CASE v = 0 /\ (Issuing(t) => frame[t].at = frame[t].size)
  BY <1>1, <1>5 DEF TestCounter
<1> QED BY <1>2, <1>3, <1>4, <1>5

\* What is not the frame keeps its type in every step.
LEMMA TypeStep == TInv /\ [Next]_vars => TInv'
<1> SUFFICES ASSUME TInv, [Next]_vars PROVE TInv'
  OBVIOUS
<1> DEFINE FrameOK == /\ frame' \in [Threads -> Frames]
                      /\ \A u \in Threads :
                           frame'[u].at \in 1 .. Len(frame'[u].list) + 1
           Rest == /\ pc \in [Threads -> {"idle", "issue", "put", "load",
                                          "store", "test", "follow", "tail"}]
                   /\ tmp \in [Threads -> Int]
                   /\ todo \in [Threads -> Seq({"respond", "signal", "zero"})]
                   /\ then \in [Threads -> {"idle", "issue", "follow"}]
                   /\ counter \in [Counters -> Int]
                   /\ lists \in Counters /\ calls \in Counters
                   /\ calls <= lists
                   /\ inflight \in [Counters -> Nat]
                   /\ responses \in Nat /\ signals \in Nat
<1>0. /\ Rest /\ "loop" \in Threads
      /\ \A u \in Threads : frame[u] \in Frames /\ frame[u].ctr \in Counters
      /\ frame \in [Threads -> Frames]
  BY DEF TInv, TypeOK, Threads, Frames
<1>00. UNCHANGED frame => FrameOK
  BY DEF TInv, TypeOK
<1>000. FrameOK /\ Rest' => TInv'
  BY DEF TInv, TypeOK, Frames
<1>n. ASSUME NEW t \in Threads, frame' = [frame EXCEPT ![t] = NoFrame]
      PROVE  FrameOK
  BY <1>n, FrameTypes, NewTypes
<1>1. ASSUME NEW t \in Threads, Step(t) PROVE TInv'
  <2> USE <1>0 DEF Goto, Do
  <2>1. CASE SendDelegate(t)
    <3>1. FrameOK BY <2>1, NextTypes DEF SendDelegate
    <3>2. Rest' BY <2>1 DEF SendDelegate
    <3> QED BY <1>000, <3>1, <3>2
  <2>2. CASE SendFails(t)
    <3>1. Rest' BY <2>2 DEF SendFails
    <3> QED BY <1>00, <1>000, <2>2, <3>1 DEF SendFails
  <2>3. CASE FeedItself(t)
    <3>1. Rest' BY <2>3 DEF FeedItself
    <3> QED BY <1>00, <1>000, <2>3, <3>1 DEF FeedItself
  <2>4. CASE FeedItselfFails(t)
    <3>1. Rest' BY <2>4 DEF FeedItselfFails
    <3> QED BY <1>00, <1>000, <2>4, <3>1 DEF FeedItselfFails
  <2>5. CASE IssueEnd(t)
    <3>1. Rest' BY <2>5 DEF IssueEnd
    <3>2. FrameOK BY <1>n, <2>5 DEF IssueEnd
    <3> QED BY <1>000, <3>1, <3>2
  <2>6. CASE LoadCounter(t)
    <3>1. Rest' BY <2>6 DEF LoadCounter
    <3> QED BY <1>00, <1>000, <2>6, <3>1 DEF LoadCounter
  <2>7. CASE StoreCounter(t)
    <3>1. Rest' BY <2>7 DEF StoreCounter
    <3> QED BY <1>00, <1>000, <2>7, <3>1 DEF StoreCounter
  <2>8. CASE TestCounter(t)
    <3>1. Rest'
      <4>1. \/ /\ \E l \in {"issue", "idle", "follow"} : Goto(t, l)
               /\ UNCHANGED <<todo, then>>
            \/ Do(t, <<"respond", "signal">>, "follow")
        BY <2>8, TestOutcomes
      <4>2. UNCHANGED <<tmp, counter, lists, calls, inflight, responses,
                        signals>>
        BY <2>8, TestOutcomes
      <4>3. /\ pc' \in [Threads -> {"idle", "issue", "put", "load", "store",
                                     "test", "follow", "tail"}]
            /\ todo' \in [Threads -> Seq({"respond", "signal", "zero"})]
            /\ then' \in [Threads -> {"idle", "issue", "follow"}]
        <5>1. CASE \E l \in {"issue", "idle", "follow"} :
                     /\ Goto(t, l)
                     /\ UNCHANGED <<todo, then>>
          BY <5>1
        <5>2. CASE Do(t, <<"respond", "signal">>, "follow")
          BY <5>2
        <5> QED BY <4>1, <5>1, <5>2
      <4> QED BY <4>2, <4>3
    <3>2. \/ UNCHANGED frame
          \/ NextElement(t) /\ More(t)
          \/ frame' = [frame EXCEPT ![t] = NoFrame]
      BY <2>8, TestOutcomes DEF Issuing
    <3>3. FrameOK BY <1>00, <1>n, <3>2, NextTypes
    <3> QED BY <1>000, <3>1, <3>3
  <2>9. CASE FollowNone(t)
    <3>1. \E l \in {"issue", "idle"} : Do(t, <<"respond", "signal">>, l)
      BY <2>9 DEF FollowNone, FollowNoneWith
    <3>2. Rest' BY <2>9, <3>1 DEF FollowNone, FollowNoneWith
    <3>3. FrameOK
      BY <1>00, <2>9, NextTypes DEF FollowNone, FollowNoneWith, Issuing
    <3> QED BY <1>000, <3>2, <3>3
  <2>10. ASSUME NEW l \in FollowLists, FollowWithNewCounter(t, l) PROVE TInv'
    <3>1. lists < MaxLists BY <2>10 DEF FollowWithNewCounter
    <3>2. /\ calls + 1 \in Counters /\ lists + 1 \in Counters
          /\ calls + 1 <= lists + 1
      BY <3>1, ListAssumption DEF Counters
    <3>3. /\ Frame(l, calls + 1) \in Frames /\ Frame(l, calls + 1).at = 1
          /\ Len(l) \in Int
      BY <3>2, FrameTypes
    <3>4. Rest' BY <2>10, <3>2, <3>3 DEF FollowWithNewCounter
    <3>5. frame' = [frame EXCEPT ![t] = Frame(l, calls + 1)]
      BY <2>10 DEF FollowWithNewCounter
    <3>6. FrameOK BY <3>3, <3>5, NewTypes
    <3> QED BY <1>000, <3>4, <3>6
  <2>11. ASSUME NEW l \in FollowLists, FollowAgain(t, l) PROVE TInv'
    <3>1. lists < MaxLists BY <2>11 DEF FollowAgain
    <3>2. lists + 1 \in Counters /\ calls <= lists + 1
      BY <3>1, ListAssumption DEF Counters
    <3>3. frame[t].size \in Int BY DEF Frames
    <3>4. Rest' BY <2>11, <3>2, <3>3 DEF FollowAgain
    <3>5. l \in Seq(Kinds) BY FrameTypes
    <3>6. PICK f : f = [frame[t] EXCEPT !.list = l, !.at = 1]
      OBVIOUS
    <3>7. f \in Frames /\ f.at = 1 BY <3>5, <3>6 DEF Frames
    <3>8. frame' = [frame EXCEPT ![t] = [frame[t] EXCEPT !.list = l, !.at = 1]]
      BY <2>11 DEF FollowAgain
    <3>9. frame' = [frame EXCEPT ![t] = f] BY <3>6, <3>8
    <3>10. FrameOK BY <3>7, <3>9, NewTypes
    <3> QED BY <1>000, <3>4, <3>10
  <2>12. CASE Effect(t)
    <3>1. Tail(todo[t]) \in Seq({"respond", "signal", "zero"})
      BY <2>12 DEF Effect
    <3>2. Rest' BY <2>12, <3>1 DEF Effect
    <3> QED BY <1>00, <1>000, <2>12, <3>2 DEF Effect
  <2>13. CASE TailEnd(t)
    <3>1. Rest' BY <2>13 DEF TailEnd
    <3>2. FrameOK BY <1>00, <1>n, <2>13 DEF TailEnd
    <3> QED BY <1>000, <3>1, <3>2
  <2> QED
    BY <1>1, <2>1, <2>2, <2>3, <2>4, <2>5, <2>6, <2>7, <2>8, <2>9, <2>10,
       <2>11, <2>12, <2>13 DEF Step
<1>2. ASSUME NEW c \in Counters, PutAnswer(c) PROVE TInv'
  <2>1. Rest'
    <3>1. inflight[c] - 1 \in Nat BY <1>0, <1>2 DEF PutAnswer
    <3>2. pc' = pc \/ pc' = [pc EXCEPT !["loop"] = "put"]
      BY <1>2 DEF PutAnswer, PutAnswerUnless, Goto
    <3> QED BY <1>0, <1>2, <3>1, <3>2 DEF PutAnswer, PutAnswerUnless
  <2>2. FrameOK
    <3>1. CASE UNCHANGED frame BY <1>00, <3>1
    <3>2. CASE frame' = [frame EXCEPT !["loop"] = [NoFrame EXCEPT !.ctr = c]]
      <4>1. /\ [NoFrame EXCEPT !.ctr = c] \in Frames
            /\ [NoFrame EXCEPT !.ctr = c].at = 1
        BY FrameTypes DEF NoFrame, Frames
      <4> QED BY <1>0, <3>2, <4>1, NewTypes
    <3> QED BY <1>2, <3>1, <3>2 DEF PutAnswer, PutAnswerUnless
  <2> QED BY <1>000, <2>1, <2>2
<1>3. CASE AnswerAccepted
  <2>1. Rest' BY <1>0, <1>3 DEF AnswerAccepted, Goto
  <2> QED BY <1>00, <1>000, <1>3, <2>1 DEF AnswerAccepted
<1>4. CASE AnswerFailed
  <2>1. Rest' BY <1>0, <1>4 DEF AnswerFailed, AnswerFailedWith, Do, Goto
  <2> QED BY <1>00, <1>000, <1>4, <2>1 DEF AnswerFailed, AnswerFailedWith
<1>5. CASE UNCHANGED vars
  BY <1>5 DEF vars, TInv, TypeOK
<1> QED BY <1>1, <1>2, <1>3, <1>4, <1>5 DEF Next, LoopAnswer

\* The types hold in the beginning.
LEMMA TypeInit == Init => TInv
<1> SUFFICES ASSUME Init PROVE TInv
  OBVIOUS
<1>1. 1 \in Counters BY ListAssumption DEF Counters
<1>2. PICK l \in FirstLists :
        /\ frame = [t \in Threads |-> IF t = "worker" THEN Frame(l, 1)
                                                      ELSE NoFrame]
        /\ counter = [c \in Counters |-> IF c = 1 THEN Len(l) ELSE 0]
  BY DEF Init
<1>3. frame \in [Threads -> Frames] BY <1>1, <1>2, FrameTypes
<1>4. \A u \in Threads : frame[u].at \in 1 .. Len(frame[u].list) + 1
  BY <1>1, <1>2, FrameTypes
<1>5. counter \in [Counters -> Int] BY <1>2, FrameTypes
<1> QED BY <1>1, <1>3, <1>4, <1>5 DEF Init, TInv, TypeOK, Frames

\* Every variable keeps its type, whatever fails and however the lists mix: in
\* particular no element behind the end of a list is issued.
THEOREM DelegateTypes == Spec => []TypeOK
<1>1. TInv => TypeOK BY DEF TInv
<1> QED BY <1>1, TypeInit, TypeStep, PTL DEF Spec

----------------------------------------------------------------------------
(* The counter without a race: an inductive invariant *)

\* What keeps the threads apart: the worker sends to other servers only, fails to
\* send at most a list of one, and all follow-up lists are of one length, so that
\* goto AGAIN sets the counter right.
Calm ==
    /\ FirstLists \subseteq Seq({"url"})
    /\ \A l \in FirstLists \cap Unreachable : Len(l) = 1
    /\ \A l, m \in FollowLists : Len(l) = Len(m)

Missing(c) == Left("worker", c) + Left("loop", c) + inflight[c] + InHand(c)

\* The worker issues the first list with the first counter, and as long as it
\* has sent nothing it is alone.
WorkerPlace ==
    /\ pc["worker"] \in {"idle", "issue", "tail"}
    /\ frame["worker"].ctr = 1
    /\ pc["worker"] = "idle" => frame["worker"] = NoFrame
    /\ pc["worker"] # "idle" => frame["worker"].list \in FirstLists
    /\ pc["worker"] = "tail" => /\ frame["worker"].at = 1
                               /\ then["worker"] = "idle"
    /\ pc["worker"] # "idle" /\ frame["worker"].at = 1 =>
            /\ calls = 1 /\ pc["loop"] = "idle"
            /\ \A c \in Counters : inflight[c] = 0
            /\ pc["worker"] = "issue" => responses = 0

\* The event loop thread works with the counter of the last call.
LoopPlace ==
    /\ IF pc["loop"] = "idle" THEN frame["loop"] = NoFrame
                             ELSE frame["loop"].ctr = calls
    /\ frame["loop"].list # <<>> =>
            /\ frame["loop"].list \in FollowLists
            /\ frame["loop"].size = Len(frame["loop"].list)
            /\ calls > 1
    /\ pc["loop"] = "put" => frame["loop"].list = <<>>
    /\ pc["loop"] = "issue" => frame["loop"].list # <<>>
    /\ pc["loop"] \in {"load", "store", "test", "follow"} =>
            frame["loop"].list = <<>> \/ More("loop")
    /\ pc["loop"] = "tail" =>
            \/ then["loop"] = "idle"
            \/ then["loop"] = "issue" /\ frame["loop"].list # <<>> /\ ~More("loop")

\* Before the response every counter is what is missing, and all but the last
\* one are through.
Open ==
    /\ responses = 0 /\ signals = 0
    /\ \A t \in Threads : pc[t] # "tail"
    /\ \A c \in Counters : counter[c] = Missing(c)
    /\ \A c \in Counters \ {calls} : counter[c] = 0
    /\ pc["loop"] = "store" => tmp["loop"] = counter[calls]
    /\ pc["loop"] = "test" => tmp["loop"] - 1 = counter[calls]
    /\ pc["loop"] = "follow" => counter[calls] = 0

\* What may be left of the straight ends of the functions.
RespondAhead ==
    {<<"respond", "signal", "zero">>, <<"zero", "respond", "signal">>,
     <<"respond", "zero", "signal">>, <<"respond", "signal">>}
SignalAhead ==
    RespondAhead \cup {<<"signal", "zero">>, <<"zero", "signal">>, <<"signal">>}
ZeroAhead ==
    {<<"respond", "signal", "zero">>, <<"signal", "zero">>, <<"zero">>,
     <<"zero", "respond", "signal">>, <<"respond", "zero", "signal">>,
     <<"zero", "signal">>}
Tails == SignalAhead \cup ZeroAhead \cup {<<>>}

\* One thread responds, leaves the running requests and clears the counter.
Ending(t) ==
    /\ pc[t] = "tail"
    /\ \A u \in Threads \ {t} : pc[u] # "tail"
    /\ todo[t] \in Tails
    /\ responses = IF todo[t] \in RespondAhead THEN 0 ELSE 1
    /\ signals = IF todo[t] \in SignalAhead THEN 0 ELSE 1
    /\ \A c \in Counters :
          counter[c] # 0 => c = frame[t].ctr /\ todo[t] \in ZeroAhead

\* Afterwards there is nothing to count, only late answers to drop.
Over ==
    /\ responses = 1 /\ signals = 1
    /\ pc["worker"] # "tail"
    /\ pc["loop"] # "idle" => pc["loop"] = "issue" /\ ~More("loop")
    /\ \A c \in Counters : counter[c] = 0

CInv ==
    /\ TInv
    /\ WorkerPlace
    /\ LoopPlace
    /\ Open \/ (\E t \in Threads : Ending(t)) \/ Over

----------------------------------------------------------------------------
(* What is missing, piece by piece *)

\* A sum of natural numbers.
LEMMA SumIsZero ==
    ASSUME NEW a \in Nat, NEW b \in Nat, NEW c \in Nat, NEW d \in Nat,
           a + b + c + d = 0
    PROVE  a = 0 /\ b = 0 /\ c = 0 /\ d = 0
  OBVIOUS

\* No part of what is missing is negative.
LEMMA PartTypes ==
    ASSUME TInv
    PROVE  /\ \A t \in Threads : /\ Len(frame[t].list) \in Nat
                                 /\ frame[t].at \in Nat /\ frame[t].at >= 1
                                 /\ frame[t].at <= Len(frame[t].list) + 1
                                 /\ frame[t].ctr \in Counters
           /\ \A t \in Threads, c \in Counters : Left(t, c) \in Nat
           /\ \A c \in Counters : InHand(c) \in Nat /\ inflight[c] \in Nat
           /\ \A c \in Counters : Missing(c) = 0 =>
                 /\ Left("worker", c) = 0 /\ Left("loop", c) = 0
                 /\ inflight[c] = 0 /\ InHand(c) = 0
<1>1. ASSUME NEW t \in Threads
      PROVE  /\ Len(frame[t].list) \in Nat
             /\ frame[t].at \in Nat /\ frame[t].at >= 1
             /\ frame[t].at <= Len(frame[t].list) + 1
             /\ frame[t].ctr \in Counters
  BY DEF TInv, TypeOK, Frames
<1>2. ASSUME NEW t \in Threads, NEW c \in Counters PROVE Left(t, c) \in Nat
  BY <1>1 DEF Left, Issuing, More
<1>3. ASSUME NEW c \in Counters PROVE InHand(c) \in Nat /\ inflight[c] \in Nat
  BY DEF InHand, TInv, TypeOK
<1>4. ASSUME NEW c \in Counters, Missing(c) = 0
      PROVE  /\ Left("worker", c) = 0 /\ Left("loop", c) = 0
             /\ inflight[c] = 0 /\ InHand(c) = 0
  <2>1. /\ Left("worker", c) \in Nat /\ Left("loop", c) \in Nat
        /\ inflight[c] \in Nat /\ InHand(c) \in Nat
    BY <1>2, <1>3 DEF Threads
  <2> QED BY <1>4, <2>1, SumIsZero DEF Missing
<1> QED BY <1>1, <1>2, <1>3, <1>4

\* Behind the end of its list a thread has nothing left to issue.
LEMMA LeftNone ==
    ASSUME TInv, NEW t \in Threads, ~More(t)
    PROVE  \A c \in Counters : Left(t, c) = 0
<1>1. Len(frame[t].list) \in Nat /\ frame[t].at = Len(frame[t].list) + 1
  BY PartTypes DEF More
<1>2. Len(frame[t].list) - frame[t].at + 1 = 0 BY <1>1
<1> QED BY <1>2 DEF Left, Issuing

\* Where a thread stays at its element nothing is taken from what it has left.
LEMMA LeftKept ==
    ASSUME NEW t \in Threads, frame'[t] = frame[t],
           pc'[t] \in {"test", "follow"} <=> pc[t] \in {"test", "follow"}
    PROVE  /\ \A c \in Counters : Left(t, c)' = Left(t, c)
           /\ More(t)' = More(t) /\ Issuing(t)' = Issuing(t)
  BY DEF Left, More, Issuing

\* No answer is taken, and none goes, where the event loop stays as it is.
LEMMA HandKept ==
    ASSUME frame'["loop"] = frame["loop"],
           pc'["loop"] \in {"put", "load", "store"}
             <=> pc["loop"] \in {"put", "load", "store"}
    PROVE  \A c \in Counters : InHand(c)' = InHand(c)
  BY DEF InHand, More, Issuing

\* The three things that may be done at the end, each of them once.
LEMMA TailSteps ==
    ASSUME NEW s \in Tails, s # <<>>
    PROVE  /\ Tail(s) \in Tails
           /\ \/ /\ Head(s) = "respond"
                 /\ s \in RespondAhead /\ Tail(s) \notin RespondAhead
                 /\ s \in SignalAhead /\ Tail(s) \in SignalAhead
                 /\ s \in ZeroAhead <=> Tail(s) \in ZeroAhead
              \/ /\ Head(s) = "signal"
                 /\ s \notin RespondAhead /\ Tail(s) \notin RespondAhead
                 /\ s \in SignalAhead /\ Tail(s) \notin SignalAhead
                 /\ s \in ZeroAhead <=> Tail(s) \in ZeroAhead
              \/ /\ Head(s) = "zero"
                 /\ s \in RespondAhead <=> Tail(s) \in RespondAhead
                 /\ s \in SignalAhead <=> Tail(s) \in SignalAhead
                 /\ s \in ZeroAhead /\ Tail(s) \notin ZeroAhead
<1> USE DEF Tails, RespondAhead, SignalAhead, ZeroAhead
<1>1. CASE s = <<"respond", "signal", "zero">> BY <1>1
<1>2. CASE s = <<"signal", "zero">> BY <1>2
<1>3. CASE s = <<"zero">> BY <1>3
<1>4. CASE s = <<"zero", "respond", "signal">> BY <1>4
<1>5. CASE s = <<"respond", "zero", "signal">> BY <1>5
<1>6. CASE s = <<"zero", "signal">> BY <1>6
<1>7. CASE s = <<"respond", "signal">> BY <1>7
<1>8. CASE s = <<"signal">> BY <1>8
<1> QED
  BY <1>1, <1>2, <1>3, <1>4, <1>5, <1>6, <1>7, <1>8

----------------------------------------------------------------------------
(* Steps of the worker *)

\* Which phase it is, seen from a thread.
LEMMA PhaseKnown ==
    ASSUME CInv
    PROVE  /\ \A t \in Threads : pc[t] = "tail" => Ending(t)
           /\ pc["loop"] \in {"put", "load", "store", "test", "follow"} => Open
           /\ pc["loop"] = "issue" /\ More("loop") => Open
           /\ pc["worker"] = "issue" /\ frame["worker"].at = 1 => Open
<1>1. pc["worker"] = "tail" => pc["loop"] = "idle" BY DEF CInv, WorkerPlace
<1>2. CASE Open BY <1>2 DEF Open
<1>3. ASSUME NEW t \in Threads, Ending(t)
      PROVE  /\ \A u \in Threads : pc[u] = "tail" => u = t
             /\ pc["loop"] \in {"idle", "tail"}
             /\ pc["worker"] = "issue" => frame["worker"].at # 1
  <2>1. /\ \A u \in Threads : pc[u] = "tail" => u = t
        /\ pc["loop"] \in {"idle", "tail"}
    BY <1>1, <1>3 DEF Ending, Threads
  <2>2. CASE pc["worker"] = "issue"
    <3>1. pc["loop"] = "tail" BY <1>3, <2>2 DEF Ending, Threads
    <3> QED BY <2>2, <3>1, <2>1 DEF CInv, WorkerPlace
  <2> QED BY <2>1, <2>2
<1>4. CASE Over
  <2>1. pc["loop"] \in {"idle", "issue"} /\ responses # 0 BY <1>4 DEF Over
  <2>2. \A t \in Threads : pc[t] # "tail" BY <1>4, <2>1 DEF Over, Threads
  <2>3. ~ (pc["loop"] = "issue" /\ More("loop")) BY <1>4 DEF Over
  <2>4. ~ (pc["worker"] = "issue" /\ frame["worker"].at = 1)
    BY <2>1 DEF CInv, WorkerPlace
  <2> QED BY <2>1, <2>2, <2>3, <2>4
<1>5. ASSUME NEW t \in Threads, Ending(t)
      PROVE  /\ \A u \in Threads : pc[u] = "tail" => Ending(u)
             /\ pc["loop"] \in {"idle", "tail"}
             /\ pc["worker"] = "issue" => frame["worker"].at # 1
  BY <1>3, <1>5
<1>6. CASE \E t \in Threads : Ending(t) BY <1>5, <1>6
<1> QED BY <1>2, <1>4, <1>6 DEF CInv

\* What the event loop thread stands for does not depend on the worker.
LEMMA LoopKept ==
    ASSUME LoopPlace, frame'["loop"] = frame["loop"], pc'["loop"] = pc["loop"],
           calls' = calls, then'["loop"] = then["loop"]
    PROVE  LoopPlace'
<1>1. More("loop")' = More("loop") BY DEF More
<1> QED BY <1>1 DEF LoopPlace

\* The first list has elements with an url only.
LEMMA WorkerHasUrls ==
    ASSUME Calm, CInv, pc["worker"] = "issue", More("worker")
    PROVE  /\ Element("worker") = "url"
           /\ frame["worker"].list \in Unreachable => frame["worker"].at = 1
<1>1. /\ frame["worker"].list \in FirstLists
      /\ frame["worker"].at \in Nat /\ frame["worker"].at >= 1
      /\ frame["worker"].at <= Len(frame["worker"].list)
  BY PartTypes DEF CInv, WorkerPlace, Threads, More
<1>2. frame["worker"].list \in Seq({"url"}) BY <1>1 DEF Calm
<1>3. Element("worker") = "url" BY <1>1, <1>2 DEF Element
<1>4. ASSUME frame["worker"].list \in Unreachable PROVE frame["worker"].at = 1
  <2>1. Len(frame["worker"].list) = 1 BY <1>1, <1>4 DEF Calm
  <2> QED BY <1>1, <2>1
<1> QED BY <1>3, <1>4

\* A request more on its way is an element less to issue.
LEMMA OneMoved ==
    ASSUME NEW a \in Nat, NEW b \in Nat, NEW c \in Nat, NEW d \in Nat
    PROVE  (a - 1) + b + (c + 1) + d = a + b + c + d
  OBVIOUS

\* Sending: what was to issue is on its way.
LEMMA SendCounts ==
    ASSUME CInv, NEW t \in Threads, SendDelegate(t)
    PROVE  /\ \A c \in Counters : Missing(c)' = Missing(c)
           /\ \A u \in Threads \ {t} : frame'[u] = frame[u]
           /\ frame'[t].at = frame[t].at + 1
           /\ frame'[t].list = frame[t].list
           /\ frame'[t].ctr = frame[t].ctr /\ frame'[t].size = frame[t].size
<1>1. /\ pc' = pc /\ pc[t] = "issue" /\ NextElement(t) /\ More(t)
      /\ inflight' = [inflight EXCEPT ![frame[t].ctr] = @ + 1]
  BY DEF SendDelegate
<1>2. /\ frame' \in [Threads -> Frames]
      /\ \A u \in Threads \ {t} : frame'[u] = frame[u]
      /\ frame'[t].at = frame[t].at + 1
      /\ frame'[t].list = frame[t].list
      /\ frame'[t].ctr = frame[t].ctr /\ frame'[t].size = frame[t].size
  BY <1>1, NextTypes DEF CInv
<1>3. \A u \in Threads \ {t} : \A c \in Counters : Left(u, c)' = Left(u, c)
  BY <1>1, <1>2, LeftKept
<1>4. ASSUME NEW c \in Counters PROVE InHand(c)' = InHand(c)
  <2>1. CASE t = "loop"
    BY <1>1, <2>1 DEF InHand
  <2>2. CASE t = "worker"
    BY <1>1, <1>2, <2>2, HandKept DEF Threads
  <2> QED BY <2>1, <2>2 DEF Threads
<1>5. ASSUME NEW c \in Counters PROVE Missing(c)' = Missing(c)
  <2>1. CASE c # frame[t].ctr
    <3>1. Left(t, c)' = Left(t, c) BY <1>2, <2>1 DEF Left
    <3>2. inflight'[c] = inflight[c]
      BY <1>1, <2>1 DEF CInv, TInv, TypeOK
    <3> QED BY <1>3, <1>4, <3>1, <3>2 DEF Missing, Threads
  <2>2. CASE c = frame[t].ctr
    <3>1. /\ Left(t, c) = Len(frame[t].list) - frame[t].at + 1
          /\ Left(t, c)' = Len(frame[t].list) - (frame[t].at + 1) + 1
      BY <1>1, <1>2, <2>2, PartTypes DEF Left, CInv
    <3>2. Left(t, c)' = Left(t, c) - 1
      <4>1. Len(frame[t].list) \in Nat /\ frame[t].at \in Nat
        BY PartTypes DEF CInv
      <4>2. Len(frame[t].list) - (frame[t].at + 1) + 1
              = (Len(frame[t].list) - frame[t].at + 1) - 1
        BY <4>1
      <4> QED BY <3>1, <4>2
    <3>3. inflight'[c] = inflight[c] + 1
      BY <1>1, <2>2 DEF CInv, TInv, TypeOK
    <3>4. /\ Left("worker", c) \in Nat /\ Left("loop", c) \in Nat
          /\ inflight[c] \in Nat /\ InHand(c) \in Nat
      BY PartTypes DEF CInv, Threads
    <3>5. CASE t = "worker"
      <4>1. Missing(c)' = (Left("worker", c) - 1) + Left("loop", c)
                          + (inflight[c] + 1) + InHand(c)
        BY <1>3, <1>4, <3>2, <3>3, <3>5 DEF Missing, Threads
      <4> QED BY <3>4, <4>1, OneMoved DEF Missing
    <3>6. CASE t = "loop"
      <4>1. Missing(c)' = Left("worker", c) + (Left("loop", c) - 1)
                          + (inflight[c] + 1) + InHand(c)
        BY <1>3, <1>4, <3>2, <3>3, <3>6 DEF Missing, Threads
      <4> QED BY <3>4, <4>1 DEF Missing
    <3> QED BY <3>5, <3>6 DEF Threads
  <2> QED BY <2>1, <2>2
<1> QED BY <1>2, <1>5

\* The worker sends a request while the event loop does whatever it does.
LEMMA WorkerSends ==
    ASSUME Calm, CInv, TInv', SendDelegate("worker")
    PROVE  CInv'
<1>0. /\ UNCHANGED <<pc, tmp, todo, then, counter, calls, responses, signals>>
      /\ pc["worker"] = "issue" /\ "worker" \in Threads /\ "loop" \in Threads
  BY DEF SendDelegate, Threads
<1>1. /\ \A c \in Counters : Missing(c)' = Missing(c)
      /\ frame'["loop"] = frame["loop"]
      /\ frame'["worker"].at = frame["worker"].at + 1
      /\ frame'["worker"].list = frame["worker"].list
      /\ frame'["worker"].ctr = frame["worker"].ctr
  BY <1>0, SendCounts DEF Threads
<1>2. WorkerPlace'
  <2>1. frame'["worker"].at # 1 BY <1>0, <1>1, PartTypes DEF CInv
  <2> QED BY <1>0, <1>1, <2>1 DEF CInv, WorkerPlace
<1>3. LoopPlace' BY <1>0, <1>1, LoopKept DEF CInv
<1>4. Open => Open' BY <1>0, <1>1 DEF Open
<1>5. ASSUME NEW t \in Threads, Ending(t) PROVE Ending(t)'
  <2>1. frame'[t].ctr = frame[t].ctr BY <1>1 DEF Threads
  <2> QED BY <1>0, <1>5, <2>1 DEF Ending
<1>6. Over => Over'
  BY <1>0, <1>1 DEF Over, More
<1> QED BY <1>2, <1>3, <1>4, <1>5, <1>6 DEF CInv

\* The only request there is cannot be sent: nothing is on its way.
LEMMA WorkerFails ==
    ASSUME Calm, CInv, TInv', SendFails("worker")
    PROVE  CInv'
<1>0. /\ UNCHANGED <<frame, tmp, counter, calls, inflight, responses, signals>>
      /\ pc["worker"] = "issue" /\ More("worker")
      /\ frame["worker"].list \in Unreachable
      /\ pc' = [pc EXCEPT !["worker"] = "tail"]
      /\ todo' = [todo EXCEPT !["worker"] = <<"zero", "respond", "signal">>]
      /\ then' = [then EXCEPT !["worker"] = "idle"]
      /\ "worker" \in Threads /\ "loop" \in Threads
  BY DEF SendFails, Do, Goto, Threads
<1>1. /\ pc'["worker"] = "tail" /\ pc'["loop"] = pc["loop"]
      /\ todo'["worker"] = <<"zero", "respond", "signal">>
      /\ then'["worker"] = "idle" /\ then'["loop"] = then["loop"]
  BY <1>0 DEF CInv, TInv, TypeOK
<1>2. frame["worker"].at = 1 BY <1>0, WorkerHasUrls
<1>3. /\ calls = 1 /\ pc["loop"] = "idle" /\ Open
      /\ \A c \in Counters : inflight[c] = 0
  BY <1>0, <1>2, PhaseKnown DEF CInv, WorkerPlace
<1>4. WorkerPlace' BY <1>0, <1>1, <1>2, <1>3 DEF CInv, WorkerPlace
<1>5. LoopPlace' BY <1>0, <1>1, LoopKept DEF CInv
<1>6. Ending("worker")'
  <2>1. /\ todo'["worker"] \in Tails /\ todo'["worker"] \in RespondAhead
        /\ todo'["worker"] \in SignalAhead /\ todo'["worker"] \in ZeroAhead
    BY <1>1 DEF Tails, RespondAhead, SignalAhead, ZeroAhead
  <2>2. responses' = 0 /\ signals' = 0 BY <1>0, <1>3 DEF Open
  <2>3. \A c \in Counters : counter'[c] # 0 => c = frame'["worker"].ctr
    BY <1>0, <1>3 DEF Open, CInv, WorkerPlace
  <2>4. \A u \in Threads \ {"worker"} : pc'[u] # "tail"
    BY <1>1, <1>3 DEF Threads
  <2> QED BY <1>1, <2>1, <2>2, <2>3, <2>4 DEF Ending
<1> QED BY <1>0, <1>4, <1>5, <1>6 DEF CInv

\* The worker has sent everything.
LEMMA WorkerEnds ==
    ASSUME Calm, CInv, TInv', IssueEnd("worker")
    PROVE  CInv'
<1>0. /\ UNCHANGED <<tmp, todo, then, counter, calls, inflight, responses,
                     signals>>
      /\ pc["worker"] = "issue" /\ ~More("worker")
      /\ pc' = [pc EXCEPT !["worker"] = "idle"]
      /\ frame' = [frame EXCEPT !["worker"] = NoFrame]
      /\ "worker" \in Threads /\ "loop" \in Threads
  BY DEF IssueEnd, Goto, Threads
<1>1. /\ pc'["worker"] = "idle" /\ pc'["loop"] = pc["loop"]
      /\ frame'["worker"] = NoFrame /\ frame'["loop"] = frame["loop"]
  BY <1>0 DEF CInv, TInv, TypeOK
<1>2. WorkerPlace' BY <1>0, <1>1, FrameTypes DEF WorkerPlace
<1>3. LoopPlace' BY <1>0, <1>1, LoopKept DEF CInv
<1>4. CASE Open
  <2>1. \A c \in Counters : Left("loop", c)' = Left("loop", c)
    BY <1>0, <1>1, LeftKept
  <2>2. \A c \in Counters : InHand(c)' = InHand(c)
    BY <1>0, <1>1, HandKept
  <2>3. ASSUME NEW c \in Counters
        PROVE  Left("worker", c) = 0 /\ Left("worker", c)' = 0
    <3>2. Left("worker", c) = 0 BY <1>0, LeftNone DEF CInv
    <3>3. Left("worker", c)' = 0
      BY <1>1, FrameTypes DEF Left, Issuing, More
    <3> QED BY <3>2, <3>3
  <2>4. \A c \in Counters : Missing(c)' = Missing(c)
    BY <1>0, <2>1, <2>2, <2>3 DEF Missing
  <2>5. Open' BY <1>0, <1>1, <1>4, <2>4 DEF Open, Threads
  <2> QED BY <1>2, <1>3, <2>5 DEF CInv
<1>5. ASSUME NEW t \in Threads, Ending(t) PROVE Ending(t)'
  <2>1. t = "loop" BY <1>0, <1>5 DEF Ending, Threads
  <2> QED BY <1>0, <1>1, <1>5, <2>1 DEF Ending, Threads
<1>6. Over => Over'
  BY <1>0, <1>1 DEF Over, More
<1> QED BY <1>2, <1>3, <1>4, <1>5, <1>6 DEF CInv

----------------------------------------------------------------------------
(* The straight ends *)

\* Once it has sent something, the worker stays what it is in a step of the
\* event loop thread.
LEMMA WorkerApart ==
    ASSUME CInv, pc["worker"] = "idle" \/ frame["worker"].at # 1,
           frame'["worker"] = frame["worker"], pc'["worker"] = pc["worker"],
           then'["worker"] = then["worker"]
    PROVE  WorkerPlace' /\ \A c \in Counters : Left("worker", c)' = Left("worker", c)
<1>1. WorkerPlace' BY DEF CInv, WorkerPlace
<1>2. \A c \in Counters : Left("worker", c)' = Left("worker", c)
  BY LeftKept DEF Threads
<1> QED BY <1>1, <1>2

\* The event loop thread has work only after the worker has sent something.
LEMMA LoopBusy ==
    ASSUME CInv, pc["loop"] # "idle"
    PROVE  /\ pc["worker"] = "idle" \/ frame["worker"].at # 1
           /\ pc["worker"] # "tail" /\ frame["loop"].ctr = calls
           /\ "loop" \in Threads /\ "worker" \in Threads
  BY DEF CInv, WorkerPlace, LoopPlace, Threads

\* The event loop thread is about to end the request: by a failure, or because
\* nothing is missing.
LEMMA LoopEnds ==
    ASSUME CInv, TInv', Open, pc["loop"] # "idle",
           NEW s \in RespondAhead, NEW l \in {"idle", "issue"},
           pc' = [pc EXCEPT !["loop"] = "tail"],
           todo' = [todo EXCEPT !["loop"] = s],
           then' = [then EXCEPT !["loop"] = l],
           UNCHANGED <<counter, calls, inflight, responses, signals>>,
           frame'["worker"] = frame["worker"],
           frame'["loop"].list = frame["loop"].list,
           frame'["loop"].ctr = frame["loop"].ctr,
           frame'["loop"].size = frame["loop"].size,
           s \in ZeroAhead \/ counter[calls] = 0,
           l = "issue" => frame["loop"].list # <<>> /\ ~More("loop")'
    PROVE  CInv'
<1>1. /\ pc'["loop"] = "tail" /\ pc'["worker"] = pc["worker"]
      /\ todo'["loop"] = s
      /\ then'["loop"] = l /\ then'["worker"] = then["worker"]
  BY DEF CInv, TInv, TypeOK, Threads
<1>2. WorkerPlace' BY <1>1, LoopBusy, WorkerApart
<1>3. LoopPlace' BY <1>1, LoopBusy DEF CInv, LoopPlace
<1>4. Ending("loop")'
  <2>1. s \in Tails /\ s \in SignalAhead BY DEF Tails, SignalAhead
  <2>2. \A u \in Threads \ {"loop"} : pc'[u] # "tail"
    BY <1>1, LoopBusy DEF Threads
  <2>3. responses' = 0 /\ signals' = 0 BY DEF Open
  <2>4. \A c \in Counters :
          counter'[c] # 0 => c = frame'["loop"].ctr /\ s \in ZeroAhead
    BY LoopBusy DEF Open
  <2> QED BY <1>1, <2>1, <2>2, <2>3, <2>4 DEF Ending
<1> QED BY <1>2, <1>3, <1>4, LoopBusy DEF CInv

\* Respond, signal or clear: each once.
LEMMA EffectKeeps ==
    ASSUME CInv, TInv', NEW t \in Threads, Effect(t)
    PROVE  CInv'
<1>0. /\ UNCHANGED <<pc, frame, tmp, then, lists, calls, inflight>>
      /\ pc[t] = "tail" /\ todo[t] # <<>>
      /\ todo' = [todo EXCEPT ![t] = Tail(todo[t])]
      /\ responses' = IF Head(todo[t]) = "respond" THEN responses + 1
                                                   ELSE responses
      /\ signals' = IF Head(todo[t]) = "signal" THEN signals + 1 ELSE signals
      /\ counter' = IF Head(todo[t]) = "zero"
                    THEN [counter EXCEPT ![frame[t].ctr] = 0] ELSE counter
  BY DEF Effect
<1>1. Ending(t) BY <1>0, PhaseKnown
<1>2. todo'[t] = Tail(todo[t]) BY <1>0 DEF CInv, TInv, TypeOK
<1>3. WorkerPlace'
  <2>1. pc["worker"] = "issue" => frame["worker"].at # 1
    BY <1>0 DEF CInv, WorkerPlace, Threads
  <2> QED BY <1>0, <2>1 DEF CInv, WorkerPlace
<1>4. LoopPlace' BY <1>0, LoopKept DEF CInv
<1>5. Ending(t)'
  <2>1. todo[t] \in Tails BY <1>1 DEF Ending
  <2>2. CASE Head(todo[t]) = "zero"
    <3>1. \A c \in Counters : counter'[c] = 0
      BY <1>0, <1>1, <2>2 DEF Ending, CInv, TInv, TypeOK
    <3> QED BY <1>0, <1>1, <1>2, <2>1, <2>2, <3>1, TailSteps DEF Ending
  <2>3. CASE Head(todo[t]) = "respond"
    BY <1>0, <1>1, <1>2, <2>1, <2>3, TailSteps DEF Ending
  <2>4. CASE Head(todo[t]) = "signal"
    BY <1>0, <1>1, <1>2, <2>1, <2>4, TailSteps DEF Ending
  <2> QED BY <1>0, <2>1, <2>2, <2>3, <2>4, TailSteps
<1> QED BY <1>3, <1>4, <1>5 DEF CInv

\* After the last of them the request is over.
LEMMA TailEndKeeps ==
    ASSUME CInv, TInv', NEW t \in Threads, TailEnd(t)
    PROVE  CInv'
<1>0. /\ UNCHANGED <<tmp, todo, then, counter, lists, calls, inflight,
                     responses, signals>>
      /\ pc[t] = "tail" /\ todo[t] = <<>>
      /\ pc' = [pc EXCEPT ![t] = then[t]]
      /\ frame' = IF then[t] = "idle" THEN [frame EXCEPT ![t] = NoFrame] ELSE frame
  BY DEF TailEnd, Goto
<1>1. Ending(t) BY <1>0, PhaseKnown
<1>2. /\ pc'[t] = then[t]
      /\ \A u \in Threads \ {t} : pc'[u] = pc[u] /\ frame'[u] = frame[u]
      /\ frame'[t] = IF then[t] = "idle" THEN NoFrame ELSE frame[t]
  BY <1>0 DEF CInv, TInv, TypeOK
<1>3. /\ responses = 1 /\ signals = 1
      /\ \A c \in Counters : counter[c] = 0
  <2>1. /\ <<>> \notin RespondAhead /\ <<>> \notin SignalAhead
        /\ <<>> \notin ZeroAhead
    BY DEF RespondAhead, SignalAhead, ZeroAhead
  <2> QED BY <1>0, <1>1, <2>1 DEF Ending
<1>4. CASE t = "worker"
  <2>1. pc["loop"] = "idle" /\ then["worker"] = "idle"
    BY <1>0, <1>4 DEF CInv, WorkerPlace
  <2>2. /\ pc'["worker"] = "idle" /\ frame'["worker"] = NoFrame
        /\ pc'["loop"] = pc["loop"] /\ frame'["loop"] = frame["loop"]
    BY <1>2, <1>4, <2>1 DEF Threads
  <2>3. WorkerPlace' BY <2>2, FrameTypes DEF WorkerPlace
  <2>4. LoopPlace' BY <1>0, <2>2, LoopKept DEF CInv
  <2>5. Over' BY <1>0, <1>3, <2>1, <2>2 DEF Over
  <2> QED BY <2>3, <2>4, <2>5 DEF CInv
<1>5. CASE t = "loop"
  <2>1. pc["loop"] # "idle" BY <1>0, <1>5
  <2>2. /\ pc'["worker"] = pc["worker"] /\ frame'["worker"] = frame["worker"]
        /\ then'["worker"] = then["worker"]
    BY <1>0, <1>2, <1>5 DEF Threads
  <2>3. WorkerPlace' BY <2>1, <2>2, LoopBusy, WorkerApart
  <2>4. CASE then["loop"] = "idle"
    <3>1. LoopPlace'
      BY <1>0, <1>2, <1>5, <2>4, FrameTypes DEF LoopPlace
    <3>2. Over' BY <1>0, <1>2, <1>3, <1>5, <2>1, <2>2, <2>4, LoopBusy DEF Over
    <3> QED BY <2>3, <3>1, <3>2 DEF CInv
  <2>5. CASE then["loop"] = "issue" /\ frame["loop"].list # <<>> /\ ~More("loop")
    <3>1. pc'["loop"] = "issue" /\ frame'["loop"] = frame["loop"]
      BY <1>2, <1>5, <2>5
    <3>2. ~More("loop")' BY <2>5, <3>1 DEF More
    <3>3. LoopPlace' BY <1>0, <2>1, <2>5, <3>1 DEF CInv, LoopPlace
    <3>4. Over' BY <1>0, <1>3, <2>1, <2>2, <3>1, <3>2, LoopBusy DEF Over
    <3> QED BY <2>3, <3>3, <3>4 DEF CInv
  <2> QED BY <1>0, <1>5, <2>4, <2>5 DEF CInv, LoopPlace
<1> QED BY <1>4, <1>5 DEF Threads

----------------------------------------------------------------------------
(* Steps of the event loop thread *)

\* The counter can be compared with what is missing where only the event loop
\* thread moves.
LEMMA OpenKept ==
    ASSUME CInv, TInv', Open, pc["loop"] # "idle",
           frame'["worker"] = frame["worker"], pc'["worker"] = pc["worker"],
           UNCHANGED <<then, responses, signals>>,
           pc'["loop"] \in {"issue", "load", "store", "test", "follow"},
           LoopPlace',
           \A c \in Counters : counter'[c] = Missing(c)',
           \A c \in Counters \ {calls'} : counter'[c] = 0,
           pc'["loop"] = "store" => tmp'["loop"] = counter'[calls'],
           pc'["loop"] = "test" => tmp'["loop"] - 1 = counter'[calls'],
           pc'["loop"] = "follow" => counter'[calls'] = 0
    PROVE  CInv'
<1>1. WorkerPlace' BY LoopBusy, WorkerApart
<1>2. Open' BY LoopBusy DEF Open, Threads
<1> QED BY <1>1, <1>2 DEF CInv

\* A list with an element at hand is a follow-up list.
LEMMA LoopList ==
    ASSUME CInv, More("loop")
    PROVE  /\ frame["loop"].list # <<>>
           /\ frame["loop"].list \in FollowLists
           /\ frame["loop"].size = Len(frame["loop"].list)
           /\ calls > 1
<1>1. frame["loop"].list # <<>>
  BY PartTypes DEF CInv, More, Threads
<1> QED BY <1>1 DEF CInv, LoopPlace

\* The event loop thread sends a request of a follow-up list.
LEMMA LoopSends ==
    ASSUME CInv, TInv', SendDelegate("loop")
    PROVE  CInv'
<1>0. /\ UNCHANGED <<pc, tmp, todo, then, counter, calls, responses, signals>>
      /\ pc["loop"] = "issue" /\ More("loop")
      /\ "worker" \in Threads /\ "loop" \in Threads
  BY DEF SendDelegate, Threads
<1>1. /\ \A c \in Counters : Missing(c)' = Missing(c)
      /\ frame'["worker"] = frame["worker"]
      /\ frame'["loop"].list = frame["loop"].list
      /\ frame'["loop"].ctr = frame["loop"].ctr
      /\ frame'["loop"].size = frame["loop"].size
  BY <1>0, SendCounts DEF Threads
<1>2. Open BY <1>0, PhaseKnown
<1>3. LoopPlace' BY <1>0, <1>1 DEF CInv, LoopPlace
<1> QED BY <1>0, <1>1, <1>2, <1>3, OpenKept DEF Open

\* A failure while the list is issued.
LEMMA LoopFails ==
    ASSUME CInv, TInv', SendFails("loop") \/ FeedItselfFails("loop")
    PROVE  CInv'
<1>1. PICK s \in RespondAhead :
        /\ Do("loop", s, "idle") /\ s \in ZeroAhead
        /\ UNCHANGED <<frame, counter, calls, inflight, responses, signals>>
        /\ pc["loop"] = "issue" /\ More("loop")
  BY DEF SendFails, FeedItselfFails, RespondAhead, ZeroAhead
<1>2. Open BY <1>1, PhaseKnown
<1> QED BY <1>1, <1>2, LoopEnds DEF Do, Goto

\* The list is at its end.
LEMMA LoopListEnds ==
    ASSUME CInv, TInv', IssueEnd("loop")
    PROVE  CInv'
<1>0. /\ UNCHANGED <<tmp, todo, then, counter, calls, inflight, responses,
                     signals>>
      /\ pc["loop"] = "issue" /\ ~More("loop")
      /\ pc' = [pc EXCEPT !["loop"] = "idle"]
      /\ frame' = [frame EXCEPT !["loop"] = NoFrame]
      /\ "worker" \in Threads /\ "loop" \in Threads
  BY DEF IssueEnd, Goto, Threads
<1>1. /\ pc'["loop"] = "idle" /\ pc'["worker"] = pc["worker"]
      /\ frame'["loop"] = NoFrame /\ frame'["worker"] = frame["worker"]
  BY <1>0 DEF CInv, TInv, TypeOK
<1>2. WorkerPlace' /\ \A c \in Counters : Left("worker", c)' = Left("worker", c)
  BY <1>0, <1>1, LoopBusy, WorkerApart
<1>3. LoopPlace' BY <1>1, FrameTypes DEF LoopPlace
<1>4. CASE Open
  <2>1. ~More("loop")' BY <1>1, FrameTypes DEF More
  <2>2. \A c \in Counters : Left("loop", c) = 0 /\ Left("loop", c)' = 0
    <3>1. \A c \in Counters : Left("loop", c) = 0
      BY <1>0, LeftNone DEF CInv
    <3>2. \A c \in Counters : Left("loop", c)' = 0
      BY <1>1, FrameTypes DEF Left, Issuing, More
    <3> QED BY <3>1, <3>2
  <2>3. \A c \in Counters : InHand(c)' = InHand(c)
    BY <1>0, <1>1 DEF InHand
  <2>4. \A c \in Counters : Missing(c)' = Missing(c)
    BY <1>0, <1>2, <2>2, <2>3 DEF Missing
  <2>5. Open' BY <1>0, <1>1, <1>4, <2>4 DEF Open, Threads
  <2> QED BY <1>2, <1>3, <2>5 DEF CInv
<1>5. CASE Over
  <2>1. Over' BY <1>0, <1>1, <1>5 DEF Over
  <2> QED BY <1>2, <1>3, <2>1 DEF CInv
<1>6. ASSUME NEW t \in Threads, Ending(t) PROVE FALSE
  BY <1>0, <1>6, LoopBusy DEF Ending, Threads
<1> QED BY <1>4, <1>5, <1>6 DEF CInv

\* An element without url, or an answer, is accepted: the counter is next.
LEMMA LoopAccepts ==
    ASSUME CInv, TInv', FeedItself("loop") \/ AnswerAccepted
    PROVE  CInv'
<1>0. /\ UNCHANGED <<frame, tmp, todo, then, counter, calls, inflight,
                     responses, signals>>
      /\ \/ pc["loop"] = "issue" /\ More("loop")
         \/ pc["loop"] = "put"
      /\ pc' = [pc EXCEPT !["loop"] = "load"]
      /\ "worker" \in Threads /\ "loop" \in Threads
  BY DEF FeedItself, AnswerAccepted, Goto, Threads
<1>1. pc'["loop"] = "load" /\ pc'["worker"] = pc["worker"]
  BY <1>0 DEF CInv, TInv, TypeOK
<1>2. Open BY <1>0, PhaseKnown
<1>3. More("loop")' = More("loop") BY <1>0 DEF More
<1>4. LoopPlace'
  BY <1>0, <1>1, <1>3 DEF CInv, LoopPlace
<1>5. \A c \in Counters : Missing(c)' = Missing(c)
  <2>1. \A c \in Counters : Left("worker", c)' = Left("worker", c)
    BY <1>0, <1>1, LeftKept
  <2>2. \A c \in Counters : Left("loop", c)' = Left("loop", c)
    BY <1>0, <1>1, LeftKept
  <2>3. \A c \in Counters : InHand(c)' = InHand(c)
    BY <1>0, <1>1, <1>3 DEF InHand, Issuing
  <2> QED BY <1>0, <2>1, <2>2, <2>3 DEF Missing
<1> QED BY <1>0, <1>1, <1>2, <1>4, <1>5, OpenKept DEF Open

\* The counter is loaded.
LEMMA LoopLoads ==
    ASSUME CInv, TInv', LoadCounter("loop")
    PROVE  CInv'
<1>0. /\ UNCHANGED <<frame, todo, then, counter, calls, inflight,
                     responses, signals>>
      /\ pc["loop"] = "load"
      /\ pc' = [pc EXCEPT !["loop"] = "store"]
      /\ tmp' = [tmp EXCEPT !["loop"] = counter[frame["loop"].ctr]]
      /\ "worker" \in Threads /\ "loop" \in Threads
  BY DEF LoadCounter, Goto, Threads
<1>1. /\ pc'["loop"] = "store" /\ pc'["worker"] = pc["worker"]
      /\ tmp'["loop"] = counter[calls]
  BY <1>0, LoopBusy DEF CInv, TInv, TypeOK
<1>2. Open BY <1>0, PhaseKnown
<1>3. More("loop")' = More("loop") BY <1>0 DEF More
<1>4. LoopPlace' BY <1>0, <1>1, <1>3 DEF CInv, LoopPlace
<1>5. \A c \in Counters : Missing(c)' = Missing(c)
  <2>1. \A c \in Counters : Left("worker", c)' = Left("worker", c)
    BY <1>0, <1>1, LeftKept
  <2>2. \A c \in Counters : Left("loop", c)' = Left("loop", c)
    BY <1>0, <1>1, LeftKept
  <2>3. \A c \in Counters : InHand(c)' = InHand(c)
    BY <1>0, <1>1, HandKept
  <2> QED BY <1>0, <2>1, <2>2, <2>3 DEF Missing
<1> QED BY <1>0, <1>1, <1>2, <1>4, <1>5, OpenKept DEF Open

\* An answer, or an element, less.
LEMMA OneTaken ==
    ASSUME NEW a \in Int, NEW b \in Int, NEW c \in Int, NEW d \in Int
    PROVE  /\ a + b + c + (d - 1) = (a + b + c + d) - 1
           /\ a + (b - 1) + c + d = (a + b + c + d) - 1
  OBVIOUS

\* The counter is stored one less: the answer in hand, or the element at hand,
\* is not missing any longer.
LEMMA LoopStores ==
    ASSUME CInv, TInv', StoreCounter("loop")
    PROVE  CInv'
<1>0. /\ UNCHANGED <<frame, tmp, todo, then, calls, inflight, responses, signals>>
      /\ pc["loop"] = "store"
      /\ pc' = [pc EXCEPT !["loop"] = "test"]
      /\ counter' = [counter EXCEPT ![frame["loop"].ctr] = tmp["loop"] - 1]
      /\ "worker" \in Threads /\ "loop" \in Threads
      /\ frame["loop"].ctr = calls /\ calls \in Counters
  BY LoopBusy DEF StoreCounter, Goto, Threads, CInv, TInv, TypeOK
<1>1. pc'["loop"] = "test" /\ pc'["worker"] = pc["worker"]
  BY <1>0 DEF CInv, TInv, TypeOK
<1>2. Open BY <1>0, PhaseKnown
<1>3. /\ counter'[calls] = tmp["loop"] - 1
      /\ \A c \in Counters \ {calls} : counter'[c] = counter[c]
      /\ tmp["loop"] = counter[calls]
  BY <1>0, <1>2 DEF CInv, TInv, TypeOK, Open
<1>4. More("loop")' = More("loop") BY <1>0 DEF More
<1>5. LoopPlace' BY <1>0, <1>1, <1>4 DEF CInv, LoopPlace
<1>6. \A c \in Counters : Left("worker", c)' = Left("worker", c)
  BY <1>0, <1>1, LeftKept
<1>7. ASSUME NEW c \in Counters, c # calls PROVE Missing(c)' = Missing(c)
  BY <1>0, <1>6, <1>7 DEF Missing, Left, InHand
<1>8. Missing(calls)' = Missing(calls) - 1
  <2>1. /\ Left("worker", calls) \in Nat /\ Left("loop", calls) \in Nat
        /\ inflight[calls] \in Nat /\ InHand(calls) \in Nat
    BY <1>0, PartTypes DEF CInv
  <2>2. CASE More("loop")
    <3>1. InHand(calls) = 0 /\ InHand(calls)' = 0
      BY <1>4, <2>2 DEF InHand, Issuing
    <3>2. Left("loop", calls)' = Left("loop", calls) - 1
      BY <1>0, <1>1, <1>4, <2>2, PartTypes DEF Left, Issuing, CInv
    <3> QED BY <1>0, <1>6, <2>1, <3>1, <3>2, OneTaken DEF Missing
  <2>3. CASE ~More("loop")
    <3>1. InHand(calls) = 1 /\ InHand(calls)' = 0
      BY <1>0, <1>1, <2>3 DEF InHand, Issuing
    <3>2. Left("loop", calls)' = Left("loop", calls)
      BY <1>0, <1>4, <2>3 DEF Left, Issuing
    <3> QED BY <1>0, <1>6, <2>1, <3>1, <3>2, OneTaken DEF Missing
  <2> QED BY <2>2, <2>3
<1>9. ASSUME NEW c \in Counters PROVE counter'[c] = Missing(c)'
  <2>1. counter[c] = Missing(c) BY <1>2 DEF Open
  <2>2. CASE c = calls
    <3>1. Missing(c)' = Missing(c) - 1 BY <1>0, <1>8, <2>2
    <3>2. counter'[c] = counter[c] - 1 BY <1>3, <2>2
    <3> QED BY <2>1, <3>1, <3>2
  <2>3. CASE c # calls BY <1>3, <1>7, <2>1, <2>3
  <2> QED BY <2>2, <2>3
<1> QED BY <1>0, <1>1, <1>2, <1>3, <1>5, <1>9, OpenKept DEF Open

\* The request is answered with a failure.
LEMMA LoopAnswerFails ==
    ASSUME CInv, TInv', AnswerFailed
    PROVE  CInv'
<1>1. PICK s \in RespondAhead :
        /\ Do("loop", s, "idle") /\ s \in ZeroAhead
        /\ UNCHANGED <<frame, counter, calls, inflight, responses, signals>>
        /\ pc["loop"] = "put"
  BY DEF AnswerFailed, AnswerFailedWith, RespondAhead, ZeroAhead
<1>2. Open BY <1>1, PhaseKnown
<1> QED BY <1>1, <1>2, LoopEnds DEF Do, Goto

\* Nothing is missing and there is no follow-up.
LEMMA LoopCompletes ==
    ASSUME CInv, TInv', FollowNone("loop")
    PROVE  CInv'
<1>0. /\ UNCHANGED <<counter, calls, inflight, responses, signals>>
      /\ pc["loop"] = "follow" /\ "loop" \in Threads /\ "worker" \in Threads
  BY DEF FollowNone, FollowNoneWith, Threads
<1>1. Open /\ counter[calls] = 0 /\ calls \in Counters
  BY <1>0, PhaseKnown DEF Open, CInv, TInv, TypeOK
<1>2. <<"respond", "signal">> \in RespondAhead BY DEF RespondAhead
<1>3. CASE More("loop")
  <2>1. NextElement("loop") /\ Do("loop", <<"respond", "signal">>, "issue")
    BY <1>3 DEF FollowNone, FollowNoneWith, Issuing
  <2>2. /\ frame'["loop"].at = frame["loop"].at + 1
        /\ frame'["loop"].list = frame["loop"].list
        /\ frame'["loop"].ctr = frame["loop"].ctr
        /\ frame'["loop"].size = frame["loop"].size
        /\ frame'["worker"] = frame["worker"]
    BY <1>0, <1>3, <2>1, NextTypes DEF CInv, Threads
  <2>3. Left("loop", calls) = 0
    BY <1>1, PartTypes DEF Open, CInv
  <2>4. Left("loop", calls)
          = Len(frame["loop"].list) - frame["loop"].at + 1 - 1
    BY <1>0, <1>3, LoopBusy DEF Left, Issuing
  <2>5. ~More("loop")'
    <3>1. Len(frame["loop"].list) \in Nat /\ frame["loop"].at \in Nat
      BY <1>0, PartTypes DEF CInv
    <3>2. frame["loop"].at = Len(frame["loop"].list)
      BY <2>3, <2>4, <3>1
    <3> QED BY <2>2, <3>1, <3>2 DEF More
  <2> QED
    BY <1>0, <1>1, <1>2, <1>3, <2>1, <2>2, <2>5, LoopEnds, LoopList
    DEF Do, Goto
<1>4. CASE ~More("loop")
  <2>1. UNCHANGED frame /\ Do("loop", <<"respond", "signal">>, "idle")
    BY <1>4 DEF FollowNone, FollowNoneWith, Issuing
  <2> QED BY <1>0, <1>1, <1>2, <2>1, LoopEnds DEF Do, Goto
<1> QED BY <1>3, <1>4

\* The new value is tested, and is the one stored: nobody else has changed it.
LEMMA LoopTests ==
    ASSUME CInv, TInv', TestCounter("loop")
    PROVE  CInv'
<1>0. /\ UNCHANGED <<tmp, counter, calls, inflight, responses, signals>>
      /\ pc["loop"] = "test" /\ "loop" \in Threads /\ "worker" \in Threads
      /\ frame["loop"].ctr = calls /\ calls \in Counters
  BY LoopBusy, TestOutcomes DEF Threads, TestCounter, CInv, TInv, TypeOK
<1>1. Open /\ tmp["loop"] - 1 = counter[calls] BY <1>0, PhaseKnown DEF Open
<1>2. \A c \in Counters : counter'[c] = Missing(c) BY <1>0, <1>1 DEF Open
<1>3. CASE /\ Goto("loop", "issue") /\ NextElement("loop") /\ More("loop")
           /\ UNCHANGED <<todo, then>>
  <2>1. /\ frame'["loop"].at = frame["loop"].at + 1
        /\ frame'["loop"].list = frame["loop"].list
        /\ frame'["loop"].ctr = frame["loop"].ctr
        /\ frame'["loop"].size = frame["loop"].size
        /\ frame'["worker"] = frame["worker"]
    BY <1>0, <1>3, NextTypes DEF CInv, Threads
  <2>2. pc'["loop"] = "issue" /\ pc'["worker"] = pc["worker"]
    BY <1>3 DEF Goto, CInv, TInv, TypeOK, Threads
  <2>3. LoopPlace'
    BY <1>0, <1>3, <2>1, <2>2, LoopList DEF CInv, LoopPlace
  <2>4. \A c \in Counters : Left("worker", c)' = Left("worker", c)
    BY <1>0, <2>1, <2>2, LeftKept
  <2>5. ASSUME NEW c \in Counters PROVE Left("loop", c)' = Left("loop", c)
    <3>1. CASE c # calls BY <1>0, <2>1, <3>1 DEF Left
    <3>2. CASE c = calls
      <4>1. /\ Left("loop", c)
                 = Len(frame["loop"].list) - frame["loop"].at + 1 - 1
            /\ Left("loop", c)'
                 = Len(frame["loop"].list) - (frame["loop"].at + 1) + 1 - 0
        BY <1>0, <1>3, <2>1, <2>2, <3>2 DEF Left, Issuing
      <4>2. Len(frame["loop"].list) \in Nat /\ frame["loop"].at \in Nat
        BY <1>0, PartTypes DEF CInv
      <4>3. Len(frame["loop"].list) - (frame["loop"].at + 1) + 1 - 0
              = Len(frame["loop"].list) - frame["loop"].at + 1 - 1
        BY <4>2
      <4> QED BY <4>1, <4>3
    <3> QED BY <3>1, <3>2
  <2>6. \A c \in Counters : InHand(c)' = InHand(c)
    BY <1>0, <2>2 DEF InHand
  <2>7. \A c \in Counters : Missing(c)' = Missing(c)
    BY <1>0, <2>4, <2>5, <2>6 DEF Missing
  <2> QED
    BY <1>0, <1>1, <1>2, <1>3, <2>1, <2>2, <2>3, <2>7, OpenKept DEF Open
<1>4. CASE /\ Goto("loop", "idle") /\ ~More("loop")
           /\ frame' = [frame EXCEPT !["loop"] = NoFrame]
           /\ UNCHANGED <<todo, then>>
  <2>1. /\ pc'["loop"] = "idle" /\ pc'["worker"] = pc["worker"]
        /\ frame'["loop"] = NoFrame /\ frame'["worker"] = frame["worker"]
    BY <1>0, <1>4 DEF Goto, CInv, TInv, TypeOK
  <2>2. /\ WorkerPlace'
        /\ \A c \in Counters : Left("worker", c)' = Left("worker", c)
    BY <1>0, <1>4, <2>1, LoopBusy, WorkerApart
  <2>3. LoopPlace' BY <2>1, FrameTypes DEF LoopPlace
  <2>4. \A c \in Counters : Left("loop", c) = 0
    BY <1>0, <1>4, LeftNone DEF CInv
  <2>5. \A c \in Counters : Left("loop", c)' = 0
    BY <2>1, FrameTypes DEF Left, Issuing, More
  <2>6. \A c \in Counters : InHand(c)' = InHand(c)
    BY <1>0, <2>1 DEF InHand
  <2>7. \A c \in Counters : Missing(c)' = Missing(c)
    BY <1>0, <2>2, <2>4, <2>5, <2>6 DEF Missing
  <2>8. Open' BY <1>0, <1>1, <2>1, <2>7 DEF Open, Threads
  <2> QED BY <2>2, <2>3, <2>8 DEF CInv
<1>5. CASE /\ counter[calls] = 0
           /\ Goto("loop", "follow")
           /\ UNCHANGED <<frame, todo, then>>
  <2>1. pc'["loop"] = "follow" /\ pc'["worker"] = pc["worker"]
    BY <1>0, <1>5 DEF Goto, CInv, TInv, TypeOK
  <2>2. More("loop")' = More("loop") BY <1>5 DEF More
  <2>3. LoopPlace' BY <1>0, <1>5, <2>1, <2>2 DEF CInv, LoopPlace
  <2>4. \A c \in Counters : Left("worker", c)' = Left("worker", c)
    BY <1>0, <1>5, <2>1, LeftKept
  <2>5. \A c \in Counters : Left("loop", c)' = Left("loop", c)
    BY <1>0, <1>5, <2>1, LeftKept
  <2>6. \A c \in Counters : InHand(c)' = InHand(c)
    BY <1>0, <2>1 DEF InHand
  <2>7. \A c \in Counters : Missing(c)' = Missing(c)
    BY <1>0, <2>4, <2>5, <2>6 DEF Missing
  <2> QED BY <1>0, <1>1, <1>5, <2>1, <2>3, <2>7, OpenKept DEF Open
\* No bad counter value: when nothing is missing it was the last element.
<1>6. ASSUME counter[calls] = 0, More("loop")
      PROVE  frame["loop"].at = frame["loop"].size
  <2>1. Left("loop", calls) = 0
    BY <1>0, <1>1, <1>6, PartTypes DEF Open, CInv
  <2>2. Left("loop", calls)
          = Len(frame["loop"].list) - frame["loop"].at + 1 - 1
    BY <1>0, <1>6 DEF Left, Issuing
  <2>3. Len(frame["loop"].list) \in Nat /\ frame["loop"].at \in Nat
    BY <1>0, PartTypes DEF CInv
  <2>4. frame["loop"].at = Len(frame["loop"].list) BY <2>1, <2>2, <2>3
  <2> QED BY <1>6, <2>4, LoopList
<1>7. \A v \in {tmp["loop"] - 1, counter[frame["loop"].ctr]} : v = counter[calls]
  BY <1>0, <1>1
<1> QED
  BY <1>0, <1>3, <1>4, <1>5, <1>6, <1>7, TestOutcomes DEF Issuing

\* A list that begins is missing as a whole.
LEMMA ListBegins ==
    ASSUME CInv, TInv', pc["loop"] = "follow", NEW l \in FollowLists,
           NEW n \in Counters, n > 1, calls' = n, Missing(n) = 0,
           UNCHANGED <<then, inflight, responses, signals>>,
           pc' = [pc EXCEPT !["loop"] = "issue"],
           frame'["worker"] = frame["worker"],
           frame'["loop"].list = l, frame'["loop"].at = 1,
           frame'["loop"].ctr = n, frame'["loop"].size = Len(l),
           counter' = [counter EXCEPT ![n] = Len(l)],
           \A c \in Counters : Left("loop", c) = 0
    PROVE  CInv'
<1>0. /\ pc'["loop"] = "issue" /\ pc'["worker"] = pc["worker"]
      /\ "loop" \in Threads /\ "worker" \in Threads
      /\ l # <<>> /\ Len(l) \in Nat /\ Len(l) >= 1
      /\ frame["loop"].ctr = calls /\ calls \in Counters
  BY FrameTypes, LoopBusy DEF CInv, TInv, TypeOK, Threads
<1>1. Open /\ counter[calls] = 0 BY PhaseKnown DEF Open
<1>2. \A c \in Counters : counter[c] = 0 BY <1>1 DEF Open
<1>3. LoopPlace' BY <1>0 DEF LoopPlace
<1>4. \A c \in Counters : Left("worker", c)' = Left("worker", c)
  BY <1>0, LeftKept
<1>5. \A c \in Counters : InHand(c) = 0 /\ InHand(c)' = 0
  BY <1>0 DEF InHand
<1>6. ASSUME NEW c \in Counters, c # n
      PROVE  counter'[c] = 0 /\ Missing(c)' = 0
  <2>1. counter'[c] = 0 BY <1>2, <1>6 DEF CInv, TInv, TypeOK
  <2>2. Left("loop", c)' = 0 BY <1>6 DEF Left
  <2>3. Missing(c)' = Missing(c) BY <1>4, <1>5, <2>2 DEF Missing
  <2> QED BY <1>1, <1>2, <2>1, <2>3 DEF Open
<1>7. counter'[n] = Len(l) /\ Missing(n)' = Len(l)
  <2>1. counter'[n] = Len(l) BY DEF CInv, TInv, TypeOK
  <2>2. Left("loop", n)' = Len(l)
    <3>1. Len(l) - 1 + 1 - 0 = Len(l) BY <1>0
    <3> QED BY <1>0, <3>1 DEF Left
  <2>3. Left("worker", n) = 0 /\ inflight[n] = 0
    BY PartTypes DEF CInv
  <2> QED BY <1>0, <1>4, <1>5, <2>1, <2>2, <2>3 DEF Missing
<1>8. \A c \in Counters : counter'[c] = Missing(c)'
  BY <1>6, <1>7
<1> QED BY <1>0, <1>1, <1>3, <1>6, <1>8, OpenKept

\* A follow-up list gets a counter of its own.
LEMMA LoopFollows ==
    ASSUME CInv, TInv', NEW l \in FollowLists, FollowWithNewCounter("loop", l)
    PROVE  CInv'
<1>0. /\ pc["loop"] = "follow" /\ ~More("loop")
      /\ lists < MaxLists
      /\ calls' = calls + 1
      /\ frame' = [frame EXCEPT !["loop"] = Frame(l, calls + 1)]
      /\ counter' = [counter EXCEPT ![calls + 1] = Len(l)]
      /\ pc' = [pc EXCEPT !["loop"] = "issue"]
      /\ UNCHANGED <<then, inflight, responses, signals>>
      /\ "loop" \in Threads /\ "worker" \in Threads
  BY DEF FollowWithNewCounter, Issuing, Goto, Threads
<1>1. calls + 1 \in Counters /\ calls + 1 > 1 /\ calls + 1 # calls
  BY <1>0, ListAssumption DEF Counters, CInv, TInv, TypeOK
<1>2. Open BY <1>0, PhaseKnown
<1>3. Missing(calls + 1) = 0 BY <1>1, <1>2 DEF Open
<1>4. \A c \in Counters : Left("loop", c) = 0
  BY <1>0, LeftNone DEF CInv
<1>5. /\ frame'["worker"] = frame["worker"]
      /\ frame'["loop"].list = l /\ frame'["loop"].at = 1
      /\ frame'["loop"].ctr = calls + 1 /\ frame'["loop"].size = Len(l)
  <2>1. /\ frame'["worker"] = frame["worker"]
        /\ frame'["loop"] = Frame(l, calls + 1)
    BY <1>0 DEF CInv, TInv
  <2> QED BY <1>1, <2>1, FrameTypes
<1> QED BY <1>0, <1>1, <1>3, <1>4, <1>5, ListBegins

\* goto AGAIN: the list is as long as the one before.
LEMMA LoopGoesAgain ==
    ASSUME Calm, CInv, TInv', NEW l \in FollowLists, FollowAgain("loop", l)
    PROVE  CInv'
<1>0. /\ pc["loop"] = "follow" /\ More("loop")
      /\ frame' = [frame EXCEPT !["loop"] =
                      [frame["loop"] EXCEPT !.list = l, !.at = 1]]
      /\ counter' = [counter EXCEPT ![frame["loop"].ctr] = frame["loop"].size]
      /\ pc' = [pc EXCEPT !["loop"] = "issue"]
      /\ UNCHANGED <<calls, then, inflight, responses, signals>>
      /\ "loop" \in Threads /\ "worker" \in Threads
  BY DEF FollowAgain, Issuing, Goto, Threads
<1>1. /\ frame["loop"].ctr = calls /\ calls \in Counters /\ calls > 1
      /\ frame["loop"].list \in FollowLists
      /\ frame["loop"].size = Len(frame["loop"].list)
  BY <1>0, LoopBusy, LoopList DEF CInv, TInv, TypeOK
<1>2. frame["loop"].size = Len(l) BY <1>1 DEF Calm
<1>3. Open /\ Missing(calls) = 0 BY <1>0, <1>1, PhaseKnown DEF Open
<1>4. \A c \in Counters : Left("loop", c) = 0
  <2>1. Left("loop", calls) = 0 BY <1>1, <1>3, PartTypes DEF CInv
  <2> QED BY <1>1, <2>1 DEF Left
<1>5. /\ frame'["worker"] = frame["worker"]
      /\ frame'["loop"].list = l /\ frame'["loop"].at = 1
      /\ frame'["loop"].ctr = calls /\ frame'["loop"].size = Len(l)
  <2>1. /\ frame'["worker"] = frame["worker"]
        /\ frame'["loop"] = [frame["loop"] EXCEPT !.list = l, !.at = 1]
    BY <1>0 DEF CInv, TInv
  <2>2. frame["loop"] \in Frames BY <1>0 DEF CInv, TInv
  <2> QED BY <1>1, <1>2, <2>1, <2>2 DEF Frames
<1> QED BY <1>0, <1>1, <1>2, <1>3, <1>4, <1>5, ListBegins

\* An answer comes in: it is taken while the counter is not zero, and dropped
\* afterwards.
LEMMA LoopTakesAnswer ==
    ASSUME CInv, TInv', NEW c \in Counters, PutAnswer(c)
    PROVE  CInv'
<1>0. /\ UNCHANGED <<tmp, todo, then, counter, calls, responses, signals>>
      /\ pc["loop"] = "idle" /\ inflight[c] > 0
      /\ inflight' = [inflight EXCEPT ![c] = inflight[c] - 1]
      /\ IF counter[c] <= 0
         THEN UNCHANGED <<pc, frame>>
         ELSE /\ pc' = [pc EXCEPT !["loop"] = "put"]
              /\ frame' = [frame EXCEPT !["loop"] = [NoFrame EXCEPT !.ctr = c]]
      /\ "loop" \in Threads /\ "worker" \in Threads
  BY DEF PutAnswer, PutAnswerUnless, Goto, Threads
<1>1. pc["worker"] = "idle" \/ frame["worker"].at # 1
  BY <1>0 DEF CInv, WorkerPlace
<1>2. pc["worker"] # "tail"
  BY <1>1 DEF CInv, WorkerPlace
<1>3. CASE counter[c] <= 0
  <2>1. UNCHANGED <<pc, frame>> BY <1>0, <1>3
  <2>2. WorkerPlace' BY <1>0, <1>1, <2>1, WorkerApart
  <2>3. LoopPlace' BY <1>0, <2>1, LoopKept DEF CInv
  <2>4. ~Open
    <3>1. SUFFICES ASSUME Open PROVE FALSE
      OBVIOUS
    <3>2. counter[c] = Missing(c) BY <3>1 DEF Open
    <3>3. /\ Left("worker", c) \in Nat /\ Left("loop", c) \in Nat
          /\ inflight[c] \in Nat /\ InHand(c) \in Nat
      BY <1>0, PartTypes DEF CInv
    <3>4. Missing(c) > 0
      <4>1. \A a, b, d, e \in Nat : d > 0 => a + b + d + e > 0
        OBVIOUS
      <4> QED BY <1>0, <3>3, <4>1 DEF Missing
    <3>5. counter[c] \in Int BY DEF CInv, TInv, TypeOK
    <3> QED BY <1>3, <3>2, <3>4, <3>5
  <2>5. \A t \in Threads : ~Ending(t) BY <1>0, <1>2 DEF Ending, Threads
  <2>6. Over BY <2>4, <2>5 DEF CInv
  <2>7. Over' BY <1>0, <2>1, <2>6 DEF Over
  <2> QED BY <2>2, <2>3, <2>7 DEF CInv
<1>4. CASE ~(counter[c] <= 0)
  <2>1. /\ pc'["loop"] = "put" /\ pc'["worker"] = pc["worker"]
        /\ frame'["worker"] = frame["worker"]
        /\ frame'["loop"] = [NoFrame EXCEPT !.ctr = c]
    BY <1>0, <1>4 DEF CInv, TInv, TypeOK
  <2>2. /\ frame'["loop"].list = <<>> /\ frame'["loop"].at = 1
        /\ frame'["loop"].ctr = c
    BY <2>1 DEF NoFrame
  <2>3. ~More("loop")' BY <2>2 DEF More
  <2>4. Open
    <3>1. ~Over BY <1>4 DEF Over
    <3>2. \A t \in Threads : ~Ending(t) BY <1>0, <1>2 DEF Ending, Threads
    <3> QED BY <3>1, <3>2 DEF CInv
  <2>5. c = calls BY <1>4, <2>4 DEF Open
  <2>6. LoopPlace' BY <1>0, <2>1, <2>2, <2>5 DEF LoopPlace
  <2>7. /\ WorkerPlace'
        /\ \A d \in Counters : Left("worker", d)' = Left("worker", d)
    BY <1>0, <1>1, <2>1, WorkerApart
  <2>8. \A d \in Counters : Left("loop", d) = 0
    <3>1. ~More("loop") BY <1>0, FrameTypes DEF CInv, LoopPlace, More
    <3> QED BY <1>0, <3>1, LeftNone DEF CInv
  <2>9. \A d \in Counters : Left("loop", d)' = 0
    BY <2>1, <2>2, <2>3 DEF Left, Issuing
  <2>10. ASSUME NEW d \in Counters PROVE Missing(d)' = Missing(d)
    <3>1. CASE d # c
      <4>1. InHand(d) = 0 /\ InHand(d)' = 0
        BY <1>0, <2>2, <3>1 DEF InHand
      <4>2. inflight'[d] = inflight[d]
        BY <1>0, <3>1 DEF CInv, TInv, TypeOK
      <4> QED BY <2>7, <2>8, <2>9, <4>1, <4>2 DEF Missing
    <3>2. CASE d = c
      <4>1. InHand(d) = 0 /\ InHand(d)' = 1
        BY <1>0, <2>1, <2>2, <2>3, <3>2 DEF InHand, Issuing
      <4>2. inflight'[d] = inflight[d] - 1
        BY <1>0, <3>2 DEF CInv, TInv, TypeOK
      <4>3. Left("worker", d) \in Nat /\ inflight[d] \in Nat
        BY <1>0, PartTypes DEF CInv
      <4>4. \A a, b \in Nat : a + 0 + (b - 1) + 1 = a + 0 + b + 0
        OBVIOUS
      <4> QED BY <2>7, <2>8, <2>9, <4>1, <4>2, <4>3, <4>4 DEF Missing
    <3> QED BY <3>1, <3>2
  <2>11. Open' BY <1>0, <1>2, <2>1, <2>4, <2>10 DEF Open, Threads
  <2> QED BY <2>6, <2>7, <2>11 DEF CInv
<1> QED BY <1>3, <1>4

----------------------------------------------------------------------------
(* The theorems *)

\* The worker issues the first list; a list is never empty.
LEMMA CalmInit == Calm /\ Init => CInv
<1> SUFFICES ASSUME Calm, Init PROVE CInv
  OBVIOUS
<1>1. 1 \in Counters /\ "worker" \in Threads /\ "loop" \in Threads
  BY ListAssumption DEF Counters, Threads
<1>2. PICK l \in FirstLists :
        /\ frame = [t \in Threads |-> IF t = "worker" THEN Frame(l, 1)
                                                      ELSE NoFrame]
        /\ counter = [c \in Counters |-> IF c = 1 THEN Len(l) ELSE 0]
  BY DEF Init
<1>3. /\ frame["worker"].list = l /\ frame["worker"].at = 1
      /\ frame["worker"].ctr = 1 /\ frame["loop"] = NoFrame
      /\ pc["worker"] = "issue" /\ pc["loop"] = "idle"
      /\ Len(l) \in Nat
  BY <1>1, <1>2, FrameTypes DEF Init
<1>4. WorkerPlace BY <1>2, <1>3 DEF Init, WorkerPlace
<1>5. LoopPlace BY <1>3, FrameTypes DEF LoopPlace
<1>6. ASSUME NEW c \in Counters
      PROVE  /\ counter[c] = Missing(c)
             /\ c # 1 => counter[c] = 0
  <2>1. counter[c] = IF c = 1 THEN Len(l) ELSE 0 BY <1>2
  <2>2. Left("worker", c) = IF c = 1 THEN Len(l) ELSE 0
    <3>1. Len(l) - 1 + 1 - 0 = Len(l) BY <1>3
    <3> QED BY <1>3, <3>1 DEF Left
  <2>3. Left("loop", c) = 0
    <3>1. 0 - 1 + 1 - 0 = 0 OBVIOUS
    <3>2. Len(NoFrame.list) = 0 /\ NoFrame.at = 1 BY FrameTypes
    <3> QED BY <1>3, <3>1, <3>2 DEF Left, Issuing, More
  <2>4. inflight[c] = 0 /\ InHand(c) = 0 BY <1>3 DEF Init, InHand
  <2> QED BY <1>3, <2>1, <2>2, <2>3, <2>4 DEF Missing
<1>7. Open BY <1>3, <1>6 DEF Init, Open, Threads
<1> QED BY <1>4, <1>5, <1>7, TypeInit DEF CInv

\* The invariant is kept: the worker moves on in its list, all the rest is done
\* by the event loop thread.
LEMMA CalmStep == Calm /\ CInv /\ [Next]_vars => CInv'
<1> SUFFICES ASSUME Calm, CInv, [Next]_vars PROVE CInv'
  OBVIOUS
<1>0. TInv' BY TypeStep DEF CInv
<1>1. CASE Step("worker")
  <2>1. pc["worker"] \in {"idle", "issue", "tail"} BY DEF CInv, WorkerPlace
  <2>2. ~FeedItself("worker") /\ ~FeedItselfFails("worker")
    BY WorkerHasUrls DEF FeedItself, FeedItselfFails
  <2>3. /\ ~LoadCounter("worker") /\ ~StoreCounter("worker")
        /\ ~TestCounter("worker") /\ ~FollowNone("worker")
        /\ \A l \in FollowLists : /\ ~FollowWithNewCounter("worker", l)
                                  /\ ~FollowAgain("worker", l)
    BY <2>1 DEF LoadCounter, StoreCounter, TestCounter, FollowNone,
                FollowNoneWith, FollowWithNewCounter, FollowAgain
  <2>4. \/ SendDelegate("worker") \/ SendFails("worker") \/ IssueEnd("worker")
        \/ Effect("worker") \/ TailEnd("worker")
    BY <1>1, <2>2, <2>3 DEF Step
  <2> QED
    BY <1>0, <2>4, WorkerSends, WorkerFails, WorkerEnds, EffectKeeps,
       TailEndKeeps DEF Threads
<1>2. CASE Step("loop")
  <2>1. CASE \E l \in FollowLists :
                FollowWithNewCounter("loop", l) \/ FollowAgain("loop", l)
    BY <1>0, <2>1, LoopFollows, LoopGoesAgain
  <2>2. CASE \/ SendDelegate("loop") \/ SendFails("loop") \/ FeedItself("loop")
             \/ FeedItselfFails("loop") \/ IssueEnd("loop")
    BY <1>0, <2>2, LoopSends, LoopFails, LoopAccepts, LoopListEnds
  <2>3. CASE \/ LoadCounter("loop") \/ StoreCounter("loop")
             \/ TestCounter("loop") \/ FollowNone("loop")
    BY <1>0, <2>3, LoopLoads, LoopStores, LoopTests, LoopCompletes
  <2>4. CASE Effect("loop") \/ TailEnd("loop")
    BY <1>0, <2>4, EffectKeeps, TailEndKeeps DEF Threads
  <2> QED BY <1>2, <2>1, <2>2, <2>3, <2>4 DEF Step
<1>3. CASE LoopAnswer
  BY <1>0, <1>3, LoopTakesAnswer, LoopAccepts, LoopAnswerFails DEF LoopAnswer
<1>4. CASE UNCHANGED vars
  <2>1. UNCHANGED <<pc, frame, tmp, todo, then, counter, calls, inflight,
                    responses, signals>>
    BY <1>4 DEF vars
  <2>2. WorkerPlace' BY <2>1 DEF CInv, WorkerPlace
  <2>3. LoopPlace' BY <2>1, LoopKept DEF CInv
  <2>4. \A c \in Counters : Missing(c)' = Missing(c)
    BY <2>1 DEF Missing, Left, InHand, Issuing, More
  <2>5. Open => Open' BY <2>1, <2>4 DEF Open
  <2>6. \A t \in Threads : Ending(t) => Ending(t)' BY <2>1 DEF Ending
  <2>7. Over => Over' BY <2>1 DEF Over, More
  <2> QED BY <1>0, <2>2, <2>3, <2>5, <2>6, <2>7 DEF CInv
<1> QED BY <1>1, <1>2, <1>3, <1>4 DEF Next, Threads

\* Nothing but the effects of a tail responds and signals, one at a time.
LEMMA EffectsOnly ==
    ASSUME TInv, [Next]_vars
    PROVE  \/ responses' = responses /\ signals' = signals
           \/ responses' = responses + 1 /\ signals' = signals
           \/ responses' = responses /\ signals' = signals + 1
<1>1. ASSUME NEW t \in Threads, Effect(t)
      PROVE  \/ responses' = responses /\ signals' = signals
             \/ responses' = responses + 1 /\ signals' = signals
             \/ responses' = responses /\ signals' = signals + 1
  BY <1>1 DEF Effect
<1>2. ASSUME NEW t \in Threads, Step(t), ~Effect(t)
      PROVE  responses' = responses /\ signals' = signals
  <2>1. CASE \E l \in FollowLists : FollowWithNewCounter(t, l) \/ FollowAgain(t, l)
    BY <2>1 DEF FollowWithNewCounter, FollowAgain
  <2>2. CASE TestCounter(t) BY <2>2 DEF TestCounter
  <2>3. CASE SendDelegate(t) \/ SendFails(t) \/ FeedItself(t)
    BY <2>3 DEF SendDelegate, SendFails, FeedItself
  <2>4. CASE FeedItselfFails(t) \/ IssueEnd(t) \/ FollowNone(t)
    BY <2>4 DEF FeedItselfFails, IssueEnd, FollowNone, FollowNoneWith
  <2>5. CASE LoadCounter(t) \/ StoreCounter(t) \/ TailEnd(t)
    BY <2>5 DEF LoadCounter, StoreCounter, TailEnd
  <2> QED BY <1>2, <2>1, <2>2, <2>3, <2>4, <2>5 DEF Step
<1>3. CASE LoopAnswer
  BY <1>3 DEF LoopAnswer, PutAnswer, PutAnswerUnless, AnswerAccepted,
              AnswerFailed, AnswerFailedWith
<1>4. CASE UNCHANGED vars BY <1>4 DEF vars
<1> QED BY <1>1, <1>2, <1>3, <1>4 DEF Next

\* One response, then one signal.
LEMMA CalmOneResponse == CInv => OneResponse
<1> SUFFICES ASSUME CInv PROVE OneResponse
  OBVIOUS
<1>1. \A s \in RespondAhead : s \in SignalAhead BY DEF SignalAhead
<1>2. CASE Open BY <1>2 DEF Open, OneResponse
<1>3. ASSUME NEW t \in Threads, Ending(t) PROVE OneResponse
  BY <1>1, <1>3 DEF Ending, OneResponse
<1>4. CASE Over BY <1>4 DEF Over, OneResponse
<1> QED BY <1>2, <1>3, <1>4 DEF CInv

\* The client gets one response, and the request leaves the running ones once
\* and after it, whatever follow-ups there are and whatever fails.
THEOREM RespondsOnce == Calm => (Spec => []OneResponse)
<1> SUFFICES ASSUME Calm PROVE Spec => []OneResponse
  OBVIOUS
<1>1. Init => CInv BY CalmInit
<1>2. CInv /\ [Next]_vars => CInv' BY CalmStep
<1>3. CInv => OneResponse BY CalmOneResponse
<1> QED BY <1>1, <1>2, <1>3, PTL DEF Spec

\* With lists on which worker and event loop never write the counter at the same
\* time, follow-up lists and elements fed to the request itself keep it at the
\* number of answers still missing, until a failure clears it. That the code
\* writes it from two threads without a lock (webRequestDelegateContext.cpp:61,
\* 164) is assumed away by Calm and not shown to be harmless: it is not.
THEOREM CounterExact == Calm => (Spec => []CounterIsMissing)
<1> SUFFICES ASSUME Calm PROVE Spec => []CounterIsMissing
  OBVIOUS
<1>1. Init => CInv BY CalmInit
<1>2. CInv /\ [Next]_vars => CInv' BY CalmStep
<1>3. CInv => CounterIsMissing
  <2>1. Open => CounterIsMissing BY DEF Open, Missing, CounterIsMissing
  <2>2. ASSUME NEW t \in Threads, Ending(t) PROVE CounterIsMissing
    BY <2>2 DEF Ending, CounterIsMissing, Failing
  <2>3. Over => CounterIsMissing BY DEF Over, CounterIsMissing
  <2> QED BY <2>1, <2>2, <2>3 DEF CInv
<1> QED BY <1>1, <1>2, <1>3, PTL DEF Spec

\* An answer that is late, since another one failed or could not be asked for,
\* never gets to the request: its counter is cleared before the next is taken.
THEOREM LateDropped == Calm => (Spec => LateAnswersDropped)
<1> SUFFICES ASSUME Calm PROVE Spec => LateAnswersDropped
  OBVIOUS
<1>1. Init => CInv BY CalmInit
<1>2. CInv /\ [Next]_vars => CInv' BY CalmStep
<1>3. CInv /\ [Next]_vars =>
        [pc["loop"] = "idle" /\ pc'["loop"] = "put" => signals = 0]_vars
  <2> SUFFICES ASSUME CInv, [Next]_vars, pc["loop"] = "idle", pc'["loop"] = "put"
               PROVE  signals = 0
    OBVIOUS
  <2>1. CInv' BY <1>2
  <2>2. ~Over' BY DEF Over
  <2>3. ASSUME NEW t \in Threads, Ending(t)' PROVE FALSE
    <3>1. pc'["worker"] = "tail" BY <2>3 DEF Ending, Threads
    <3> QED BY <2>1, <3>1 DEF CInv, WorkerPlace
  <2>4. signals' = 0 BY <2>1, <2>2, <2>3 DEF CInv, Open
  <2>5. signals \in Nat BY DEF CInv, TInv, TypeOK
  <2> QED BY <2>4, <2>5, EffectsOnly DEF CInv
<1> QED BY <1>1, <1>2, <1>3, PTL DEF Spec, LateAnswersDropped

\* Delegation is what DelegatedRequest says of it, fairness aside: a response is
\* completed, then the request terminated, and nothing of it twice.
THEOREM DelegationKept ==
    Calm => (Spec => /\ Delegated!DInit
                     /\ [][Delegated!Respond \/ Delegated!Terminate]_Phase)
<1> SUFFICES ASSUME Calm
             PROVE  Spec => /\ Delegated!DInit
                            /\ [][Delegated!Respond \/ Delegated!Terminate]_Phase
  OBVIOUS
<1>1. Init => CInv BY CalmInit
<1>2. CInv /\ [Next]_vars => CInv' BY CalmStep
<1>3. Init => Delegated!DInit BY DEF Init, Delegated!DInit, Phase
<1>4. CInv /\ [Next]_vars =>
        [Delegated!Respond \/ Delegated!Terminate]_Phase
  <2> SUFFICES ASSUME CInv, [Next]_vars
               PROVE  [Delegated!Respond \/ Delegated!Terminate]_Phase
    OBVIOUS
  <2>1. /\ responses \in Nat /\ signals \in Nat
        /\ responses <= 1 /\ signals <= responses
    BY CalmOneResponse DEF OneResponse, CInv, TInv, TypeOK
  <2>2. CInv' BY <1>2
  <2>3. CInv' => OneResponse'
    BY CalmOneResponse, PTL
  <2>4. /\ responses' \in Nat /\ signals' \in Nat
        /\ responses' <= 1 /\ signals' <= responses'
    BY <2>2, <2>3 DEF OneResponse, CInv, TInv, TypeOK
  <2>5. CASE responses' = responses /\ signals' = signals
    BY <2>5 DEF Phase
  <2>6. CASE responses' = responses + 1 /\ signals' = signals
    <3>1. /\ responses = 0 /\ signals = 0
          /\ responses' = 1 /\ signals' = 0
      BY <2>1, <2>4, <2>6
    <3>2. Phase = "open" /\ Phase' = "responded" BY <3>1 DEF Phase
    <3> QED BY <3>2 DEF Delegated!Respond
  <2>7. CASE responses' = responses /\ signals' = signals + 1
    <3>1. /\ responses = 1 /\ signals = 0
          /\ responses' = 1 /\ signals' = 1
      BY <2>1, <2>4, <2>7
    <3>2. Phase = "responded" /\ Phase' = "terminated" BY <3>1 DEF Phase
    <3> QED BY <3>2 DEF Delegated!Terminate
  <2> QED BY <2>5, <2>6, <2>7, EffectsOnly DEF CInv
<1> QED BY <1>1, <1>2, <1>3, <1>4, PTL DEF Spec
=============================================================================
