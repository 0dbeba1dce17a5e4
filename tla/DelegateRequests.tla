-------------------------- MODULE DelegateRequests --------------------------
(***************************************************************************)
(* One request that is answered with the help of delegate requests to      *)
(* other servers: WebRequestDelegateContext. A list of delegate requests   *)
(* is issued by issueDelegateRequests, first in the worker thread of the   *)
(* request, follow-ups in the thread that got the last answer. An element  *)
(* with an url is sent, its answer comes back through putAnswer in the     *)
(* event loop thread; an element without url is fed to the request itself  *)
(* right away. All share a counter of the answers still missing: a plain   *)
(* int, which worker and event loop access without a lock.                 *)
(*                                                                         *)
(* Access to the counter is modelled load by load and store by store, the  *)
(* straight tails of the functions effect by effect.                       *)
(***************************************************************************)
EXTENDS Integers, Sequences

CONSTANTS
    FirstLists,     \* lists of delegate requests the worker may start with
    FollowLists,    \* lists getDelegateRequests may return later
    MaxLists,       \* bound on the number of non-empty lists of one request
    Unreachable     \* lists with elements the request handler may fail to send

Threads == {"worker", "loop"}

\* An element of a list is known by how it is issued.
Kinds == {"url", "self"}

ASSUME ListAssumption ==
    /\ FirstLists \subseteq Seq(Kinds) \ {<<>>}
    /\ FollowLists \subseteq Seq(Kinds) \ {<<>>}
    /\ MaxLists \in Nat \ {0}
    /\ Unreachable \subseteq FirstLists \cup FollowLists

Counters == 1 .. MaxLists

VARIABLES
    pc,         \* where each thread is
    frame,      \* issueDelegateRequests of each thread: its list, the index
                \* of the element to issue, its counter and the length of
                \* the list it was called with (delegateRequests.size())
    tmp,        \* value of the counter a thread has loaded
    todo,       \* effects left in the straight tail of a function
    then,       \* where a thread continues after them
    counter,    \* the counters, one for each call of issueDelegateRequests
    lists,      \* lists handed out by the request context so far
    calls,      \* calls of issueDelegateRequests so far
    inflight,   \* delegate requests sent with a counter and not yet answered
    responses,  \* responses completed for the request
    signals     \* calls of doneRunRequest for the request

vars == <<pc, frame, tmp, todo, then, counter, lists, calls, inflight,
          responses, signals>>

NoFrame == [list |-> <<>>, at |-> 1, ctr |-> 1, size |-> 0]

Frame(l, c) == [list |-> l, at |-> 1, ctr |-> c, size |-> Len(l)]

\* issueDelegateRequests as runRequest calls it.
Init ==
    /\ pc = [t \in Threads |-> IF t = "worker" THEN "issue" ELSE "idle"]
    /\ \E l \in FirstLists :
          /\ frame = [t \in Threads |-> IF t = "worker" THEN Frame(l, 1)
                                                        ELSE NoFrame]
          /\ counter = [c \in Counters |-> IF c = 1 THEN Len(l) ELSE 0]
    /\ tmp = [t \in Threads |-> 0]
    /\ todo = [t \in Threads |-> <<>>]
    /\ then = [t \in Threads |-> "idle"]
    /\ lists = 1
    /\ calls = 1
    /\ inflight = [c \in Counters |-> 0]
    /\ responses = 0
    /\ signals = 0

TypeOK ==
    /\ pc \in [Threads -> {"idle", "issue", "put", "load", "store", "test",
                           "follow", "tail"}]
    /\ \A t \in Threads : /\ frame[t].list \in Seq(Kinds)
                          /\ frame[t].at \in 1 .. Len(frame[t].list) + 1
                          /\ frame[t].ctr \in Counters
                          /\ frame[t].size \in Nat
    /\ tmp \in [Threads -> Int]
    /\ todo \in [Threads -> Seq({"respond", "signal", "zero"})]
    /\ then \in [Threads -> {"idle", "issue", "follow"}]
    /\ counter \in [Counters -> Int]
    /\ lists \in Counters /\ calls \in Counters
    /\ inflight \in [Counters -> Nat]
    /\ responses \in Nat
    /\ signals \in Nat

Goto(t, l) == pc' = [pc EXCEPT ![t] = l]

\* The thread goes through the effects one by one and continues at l.
Do(t, effects, l) ==
    /\ todo' = [todo EXCEPT ![t] = effects]
    /\ then' = [then EXCEPT ![t] = l]
    /\ Goto(t, "tail")

Element(t) == frame[t].list[frame[t].at]
More(t) == frame[t].at <= Len(frame[t].list)

\* Is the thread in issueDelegateRequests, with an element of the list at hand?
\* In putAnswer itself the event loop thread has no list.
Issuing(t) == More(t)

NextElement(t) == frame' = [frame EXCEPT ![t].at = @ + 1]

----------------------------------------------------------------------------
(* issueDelegateRequests *)

SendDelegate(t) ==
    /\ pc[t] = "issue" /\ More(t) /\ Element(t) = "url"
    /\ inflight' = [inflight EXCEPT ![frame[t].ctr] = @ + 1]
    /\ NextElement(t)
    /\ UNCHANGED <<pc, tmp, todo, then, counter, lists, calls, responses,
                   signals>>

\* delegateRequest returns false: the counter is cleared, 500 is reported and
\* the loop left.
SendFails(t) ==
    /\ frame[t].list \in Unreachable
    /\ pc[t] = "issue" /\ More(t) /\ Element(t) = "url"
    /\ Do(t, <<"zero", "respond", "signal">>, "idle")
    /\ UNCHANGED <<frame, tmp, counter, lists, calls, inflight, responses,
                   signals>>

\* Wrong variant: what the request feeds to itself is not taken off the counter.
FeedItselfUncounted(t) ==
    /\ pc[t] = "issue" /\ More(t) /\ Element(t) = "self"
    /\ NextElement(t)
    /\ UNCHANGED <<pc, tmp, todo, then, counter, lists, calls, inflight,
                   responses, signals>>

\* The request context takes its own content as the answer.
FeedItself(t) ==
    /\ pc[t] = "issue" /\ More(t) /\ Element(t) = "self"
    /\ Goto(t, "load")
    /\ UNCHANGED <<frame, tmp, todo, then, counter, lists, calls, inflight,
                   responses, signals>>

FeedItselfFails(t) ==
    /\ pc[t] = "issue" /\ More(t) /\ Element(t) = "self"
    /\ Do(t, <<"respond", "zero", "signal">>, "idle")
    /\ UNCHANGED <<frame, tmp, counter, lists, calls, inflight, responses,
                   signals>>

IssueEnd(t) ==
    /\ pc[t] = "issue" /\ ~More(t)
    /\ Goto(t, "idle")
    /\ frame' = [frame EXCEPT ![t] = NoFrame]
    /\ UNCHANGED <<tmp, todo, then, counter, lists, calls, inflight,
                   responses, signals>>

----------------------------------------------------------------------------
(* putAnswer, called by the event loop once for every request sent *)

PutAnswerUnless(c, dropped) ==
    /\ pc["loop"] = "idle"
    /\ inflight' = [inflight EXCEPT ![c] = @ - 1]
    /\ IF dropped
       THEN UNCHANGED <<pc, frame>>
       ELSE /\ Goto("loop", "put")
            /\ frame' = [frame EXCEPT !["loop"] = [NoFrame EXCEPT !.ctr = c]]
    /\ UNCHANGED <<tmp, todo, then, counter, lists, calls, responses, signals>>

\* Wrong variants: an answer to a request that failed already is not dropped;
\* a request is answered more than once.
PutLateAnswer(c) == inflight[c] > 0 /\ PutAnswerUnless(c, FALSE)
PutAnswerAgain(c) == inflight[c] >= 0 /\ PutAnswerUnless(c, counter[c] <= 0)

\* The answer is dropped when the counter is not positive; otherwise it goes to
\* the request context. While putAnswer runs the frame holds the counter.
PutAnswer(c) == inflight[c] > 0 /\ PutAnswerUnless(c, counter[c] <= 0)

AnswerAccepted ==
    /\ pc["loop"] = "put"
    /\ Goto("loop", "load")
    /\ UNCHANGED <<frame, tmp, todo, then, counter, lists, calls, inflight,
                   responses, signals>>

AnswerFailedWith(effects) ==
    /\ pc["loop"] = "put"
    /\ Do("loop", effects, "idle")
    /\ UNCHANGED <<frame, tmp, counter, lists, calls, inflight, responses,
                   signals>>

\* Wrong variant: the counter is left to the answers that follow.
AnswerFailedKeepsCounter == AnswerFailedWith(<<"respond", "signal">>)

\* A status that is not 2xx, or an answer the request context refuses:
\* handleFailure.
AnswerFailed == AnswerFailedWith(<<"respond", "signal", "zero">>)

----------------------------------------------------------------------------
(* The counter is decremented and compared with zero, in both functions *)

LoadCounter(t) ==
    /\ pc[t] = "load"
    /\ tmp' = [tmp EXCEPT ![t] = counter[frame[t].ctr]]
    /\ Goto(t, "store")
    /\ UNCHANGED <<frame, todo, then, counter, lists, calls, inflight,
                   responses, signals>>

StoreCounter(t) ==
    /\ pc[t] = "store"
    /\ counter' = [counter EXCEPT ![frame[t].ctr] = tmp[t] - 1]
    /\ Goto(t, "test")
    /\ UNCHANGED <<frame, tmp, todo, then, lists, calls, inflight, responses,
                   signals>>

\* The value tested is the one just stored, or the counter loaded again.
TestCounter(t) ==
    /\ pc[t] = "test"
    /\ \E v \in {tmp[t] - 1, counter[frame[t].ctr]} :
          CASE v # 0 /\ Issuing(t) ->
                  /\ Goto(t, "issue") /\ NextElement(t)
                  /\ UNCHANGED <<todo, then>>
            [] v # 0 /\ ~Issuing(t) ->
                  /\ Goto(t, "idle")
                  /\ frame' = [frame EXCEPT ![t] = NoFrame]
                  /\ UNCHANGED <<todo, then>>
            \* "race: bad counter value": reports, and goes on with the follow-up
            [] v = 0 /\ Issuing(t) /\ frame[t].at # frame[t].size ->
                  /\ Do(t, <<"respond", "signal">>, "follow")
                  /\ UNCHANGED frame
            [] OTHER ->
                  /\ Goto(t, "follow")
                  /\ UNCHANGED <<frame, todo, then>>
    /\ UNCHANGED <<tmp, counter, lists, calls, inflight, responses, signals>>

----------------------------------------------------------------------------
(* handleSuccess, and the same in issueDelegateRequests *)

FollowNoneWith(t, effects) ==
    /\ pc[t] = "follow"
    /\ IF Issuing(t)
       THEN NextElement(t) /\ Do(t, effects, "issue")
       ELSE UNCHANGED frame /\ Do(t, effects, "idle")
    /\ UNCHANGED <<tmp, counter, lists, calls, inflight, responses, signals>>

\* Wrong variant: the request leaves the running ones before its response.
FollowNoneSignalsFirst(t) == FollowNoneWith(t, <<"signal", "respond">>)

\* No follow-up: completeResponse, then the rest of the loop, if any.
FollowNone(t) == FollowNoneWith(t, <<"respond", "signal">>)

\* handleSuccess starts issueDelegateRequests with a counter of its own.
FollowWithNewCounter(t, l) ==
    /\ pc[t] = "follow" /\ ~Issuing(t)
    /\ lists < MaxLists
    /\ lists' = lists + 1
    /\ calls' = calls + 1
    /\ frame' = [frame EXCEPT ![t] = Frame(l, calls + 1)]
    /\ counter' = [counter EXCEPT ![calls + 1] = Len(l)]
    /\ Goto(t, "issue")
    /\ UNCHANGED <<tmp, todo, then, inflight, responses, signals>>

\* goto AGAIN: the loop starts over with the new list, the counter with the
\* length of the list issueDelegateRequests was called with.
FollowAgain(t, l) ==
    /\ pc[t] = "follow" /\ Issuing(t)
    /\ lists < MaxLists
    /\ lists' = lists + 1
    /\ frame' = [frame EXCEPT ![t] = [@ EXCEPT !.list = l, !.at = 1]]
    /\ counter' = [counter EXCEPT ![frame[t].ctr] = frame[t].size]
    /\ Goto(t, "issue")
    /\ UNCHANGED <<tmp, todo, then, calls, inflight, responses, signals>>

----------------------------------------------------------------------------
\* The next effect of a straight tail: a response completed, a request taken
\* off the counter of running requests (signalTermination), *counter = 0.
Effect(t) ==
    /\ pc[t] = "tail" /\ todo[t] # <<>>
    /\ todo' = [todo EXCEPT ![t] = Tail(@)]
    /\ responses' = IF Head(todo[t]) = "respond" THEN responses + 1 ELSE responses
    /\ signals' = IF Head(todo[t]) = "signal" THEN signals + 1 ELSE signals
    /\ counter' = IF Head(todo[t]) = "zero"
                  THEN [counter EXCEPT ![frame[t].ctr] = 0] ELSE counter
    /\ UNCHANGED <<pc, frame, tmp, then, lists, calls, inflight>>

TailEnd(t) ==
    /\ pc[t] = "tail" /\ todo[t] = <<>>
    /\ Goto(t, then[t])
    /\ frame' = IF then[t] = "idle" THEN [frame EXCEPT ![t] = NoFrame] ELSE frame
    /\ UNCHANGED <<tmp, todo, then, counter, lists, calls, inflight,
                   responses, signals>>

Step(t) ==
    \/ SendDelegate(t) \/ SendFails(t) \/ FeedItself(t) \/ FeedItselfFails(t)
    \/ IssueEnd(t) \/ LoadCounter(t) \/ StoreCounter(t) \/ TestCounter(t)
    \/ FollowNone(t)
    \/ \E l \in FollowLists : FollowWithNewCounter(t, l) \/ FollowAgain(t, l)
    \/ Effect(t) \/ TailEnd(t)

LoopAnswer ==
    \/ \E c \in Counters : PutAnswer(c)
    \/ AnswerAccepted \/ AnswerFailed

Next == (\E t \in Threads : Step(t)) \/ LoopAnswer

Spec == Init /\ [][Next]_vars

\* Both threads are scheduled; the event loop gives an answer to every request
\* it has taken, an error after a timeout if need be.
FairSpec == Spec /\ (\A t \in Threads : WF_vars(Step(t))) /\ WF_vars(LoopAnswer)

----------------------------------------------------------------------------
(* Properties *)

\* What is still missing for a counter: elements a thread has to issue,
\* requests on their way, and the answer in the hands of putAnswer.
Left(t, c) ==
    IF frame[t].ctr # c THEN 0
    ELSE Len(frame[t].list) - frame[t].at + 1
         - (IF Issuing(t) /\ pc[t] \in {"test", "follow"} THEN 1 ELSE 0)
InHand(c) ==
    IF frame["loop"].ctr = c /\ ~Issuing("loop")
       /\ pc["loop"] \in {"put", "load", "store"} THEN 1 ELSE 0
Failing(c) == \E t \in Threads : pc[t] = "tail" /\ frame[t].ctr = c

\* The counter is exactly what is missing until a failure clears it, so that
\* reaching zero determines when the request can be completed
\* (webRequestDelegateContext.hpp:73).
CounterIsMissing ==
    \A c \in Counters :
        counter[c] # 0 /\ ~Failing(c) =>
            counter[c] = Left("worker", c) + Left("loop", c) + inflight[c]
                         + InHand(c)

\* The client gets one response however many delegate requests there are, and
\* the request leaves the counter of running requests once.
OneResponse == responses <= 1 /\ signals <= responses

\* A delegated request ends as RequestExecution expects it to.
Phase == CASE responses = 0 -> "open"
           [] responses > 0 /\ signals = 0 -> "responded"
           [] OTHER -> "terminated"

Delegated == INSTANCE DelegatedRequest WITH phase <- Phase

\* One response, then one termination, and both eventually.
ImplementsDelegated == Delegated!DSpec

\* A request that was delegated is completed at last.
EventuallyCompleted == <>(responses > 0)

\* After the response of a failure no late answer reaches the request context:
\* putAnswer finds the counter cleared.
LateAnswersDropped ==
    [][pc["loop"] = "idle" /\ pc'["loop"] = "put" => signals = 0]_vars
=============================================================================
