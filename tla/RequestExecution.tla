-------------------------- MODULE RequestExecution --------------------------
(***************************************************************************)
(* How the strus web service runs content requests and puts requests that  *)
(* need exclusive access aside until nobody else is running: the part of   *)
(* ServiceClosure shared by all threads (the maintenance flag, the counter *)
(* of running requests and the mutex protected list of waiting requests)   *)
(* and the paths of ApplicationImpl::exec_request, runRequest and          *)
(* WebRequestDelegateContext::signalTermination that use it.               *)
(*                                                                         *)
(* A step is a stretch of code between two accesses to shared state.  The  *)
(* waiting list is only touched under the mutex, so a critical section     *)
(* that accesses the atomic flag once is one step; only the loop of        *)
(* processWaitingRequests, that holds the mutex while it executes          *)
(* requests, takes several.                                                *)
(***************************************************************************)
EXTENDS Integers, Sequences, FiniteSets

CONSTANTS
    Workers,        \* worker threads of the cppcms service
    EventLoop,      \* the thread of the event loop that gets delegate answers
    Requests,       \* HTTP requests that may arrive
    HeadRequests,   \* those with method HEAD (do_reply_content = false)
    Faults,         \* where an exception may be thrown, see FaultKinds
    NoRequest, NoThread

\* "execute": in the try block of runRequest while it has the http context;
\* "release": there, after release_context has given it away;
\* "push": std::bad_alloc in m_waitingContextList.push_back;
\* "issue": in issueDelegateRequests after the request went to the event loop,
\*          or was ended there;
\* "process": in the loop of processWaitingRequests.
FaultKinds == {"execute", "release", "push", "issue", "process"}

ASSUME ThreadAssumption ==
    /\ IsFiniteSet(Workers)
    /\ EventLoop \notin Workers
    /\ NoThread \notin Workers \cup {EventLoop}

ASSUME RequestAssumption ==
    /\ IsFiniteSet(Requests)
    /\ HeadRequests \subseteq Requests
    /\ NoRequest \notin Requests

ASSUME FaultAssumption == Faults \subseteq FaultKinds

Threads == Workers \cup {EventLoop}

VARIABLES
    pc,         \* where each thread is
    cur,        \* the request each thread works for
    pos,        \* index of a thread in the list it processes
    arrived,    \* requests the server has accepted
    replies,    \* how often a response was produced for each request
    delegated,  \* requests whose completion was left to the event loop
    halted,     \* m_waitForExclusiveAccess
    running,    \* m_runningRequestCounter
    mutex,      \* owner of m_mutex_waitingContextList
    waiting,    \* m_waitingContextList
    open,       \* threads in runRequest with open = true
    released,   \* threads that gave away the http context of their request
    lost,       \* requests whose released context was dropped by an exception
    surplus,    \* requests that were taken off the counter a second time
    pushFailed  \* the flag was set by a push_back that failed

\* What runRequest remembers for the exception handlers.
handVars == <<open, released>>

\* What exceptions have left behind.
ghostVars == <<lost, surplus, pushFailed>>

vars == <<pc, cur, pos, arrived, replies, delegated, halted, running, mutex,
          waiting, handVars, ghostVars>>

PCs == {"idle", "test", "prepare", "execute", "push", "done", "halted",
        "acquire", "process", "issued"}

\* The places of a thread whose request is in m_runningRequestCounter.
CountedPCs == {"execute", "push", "done"}

TypeOK ==
    /\ pc \in [Threads -> PCs]
    /\ cur \in [Threads -> Requests \cup {NoRequest}]
    /\ pos \in [Threads -> Nat]
    /\ arrived \subseteq Requests
    /\ replies \in [Requests -> Nat]
    /\ delegated \subseteq Requests
    /\ halted \in BOOLEAN
    /\ running \in Int
    /\ mutex \in Threads \cup {NoThread}
    /\ waiting \in Seq(Requests)
    /\ open \subseteq Threads
    /\ released \subseteq Threads
    /\ lost \subseteq Requests
    /\ surplus \in Nat
    /\ pushFailed \in BOOLEAN

Init ==
    /\ pc = [t \in Threads |-> "idle"]
    /\ cur = [t \in Threads |-> NoRequest]
    /\ pos = [t \in Threads |-> 0]
    /\ arrived = {}
    /\ replies = [r \in Requests |-> 0]
    /\ delegated = {}
    /\ halted = FALSE
    /\ running = 0
    /\ mutex = NoThread
    /\ waiting = <<>>
    /\ open = {}
    /\ released = {}
    /\ lost = {}
    /\ surplus = 0
    /\ pushFailed = FALSE

Goto(t, l) == pc' = [pc EXCEPT ![t] = l]

Reply(r) == replies' = [replies EXCEPT ![r] = @ + 1]

\* The handler returns: the thread is free for another request.
Return(t) == /\ Goto(t, "idle")
             /\ cur' = [cur EXCEPT ![t] = NoRequest]
             /\ open' = open \ {t}
             /\ released' = released \ {t}

\* doneRunRequest and processWaitingRequests are over. The handler returns, but
\* for one that was called by signalTermination in issueDelegateRequests.
Leave(t) == /\ Goto(t, IF t \in open THEN "issued" ELSE "idle")
            /\ cur' = [cur EXCEPT ![t] = NoRequest]
            /\ released' = released \ {t}
            /\ UNCHANGED open

----------------------------------------------------------------------------
(* exec_request *)

\* The dispatcher calls exec_request in a free worker thread.
Arrive(t, r) ==
    /\ pc[t] = "idle"
    /\ r \notin arrived
    /\ arrived' = arrived \cup {r}
    /\ cur' = [cur EXCEPT ![t] = r]
    /\ Goto(t, "test")
    /\ UNCHANGED <<pos, replies, delegated, halted, running, mutex, waiting,
                   handVars, ghostVars>>

\* Wrong variant: the return after the temporal reject is missing.
RejectHaltedGoesOn(t) ==
    /\ pc[t] = "test"
    /\ halted
    /\ Reply(cur[t])
    /\ Goto(t, "prepare")
    /\ UNCHANGED <<cur, pos, arrived, delegated, halted, running, mutex,
                   waiting, handVars, ghostVars>>

\* While the service is halted for maintenance a request gets 503.
RejectHalted(t) ==
    /\ pc[t] = "test"
    /\ halted
    /\ Reply(cur[t])
    /\ Return(t)
    /\ UNCHANGED <<pos, arrived, delegated, halted, running, mutex, waiting,
                   ghostVars>>

PassHalted(t) ==
    /\ pc[t] = "test"
    /\ ~halted
    /\ Goto(t, "prepare")
    /\ UNCHANGED <<cur, pos, arrived, replies, delegated, halted, running,
                   mutex, waiting, handVars, ghostVars>>

\* createContext fails, or URL parameters are mixed with content (400).
RejectInvalid(t) ==
    /\ pc[t] = "prepare"
    /\ Reply(cur[t])
    /\ Return(t)
    /\ UNCHANGED <<pos, arrived, delegated, halted, running, mutex, waiting,
                   ghostVars>>

\* Wrong variant: runRequest without startRunRequest.
StartUncounted(t) ==
    /\ pc[t] = "prepare"
    /\ open' = open \cup {t}
    /\ Goto(t, "execute")
    /\ UNCHANGED <<cur, pos, arrived, replies, delegated, halted, running,
                   mutex, waiting, released, ghostVars>>

\* startRunRequest at the beginning of runRequest.
StartRunRequest(t) ==
    /\ pc[t] = "prepare"
    /\ running' = running + 1
    /\ open' = open \cup {t}
    /\ Goto(t, "execute")
    /\ UNCHANGED <<cur, pos, arrived, replies, delegated, halted, mutex,
                   waiting, released, ghostVars>>

----------------------------------------------------------------------------
(* runRequest: what execute of the request context can lead to *)

\* An answer without delegate requests, an error or a temporal reject is
\* reported.
ExecuteReply(t) ==
    /\ pc[t] = "execute"
    /\ Reply(cur[t])
    /\ open' = open \ {t}
    /\ Goto(t, "done")
    /\ UNCHANGED <<cur, pos, arrived, delegated, halted, running, mutex,
                   waiting, released, ghostVars>>

\* Delegate requests are issued with the released context: the request stays
\* counted, the event loop thread completes it (module DelegateRequests), maybe
\* before the worker has come to the end of the list.
ExecuteDelegate(t) ==
    /\ pc[t] = "execute"
    /\ delegated' = delegated \cup {cur[t]}
    /\ cur' = [cur EXCEPT ![t] = NoRequest]
    /\ Goto(t, "issued")
    /\ UNCHANGED <<pos, arrived, replies, halted, running, mutex, waiting,
                   handVars, ghostVars>>

\* What the request has issued ends it in the same thread: it cannot be sent,
\* or is fed to the request itself. signalTermination runs with open = true.
ExecuteIssueEnds(t) ==
    /\ pc[t] = "execute"
    /\ Reply(cur[t])
    /\ released' = released \cup {t}
    /\ Goto(t, "done")
    /\ UNCHANGED <<cur, pos, arrived, delegated, halted, running, mutex,
                   waiting, open, ghostVars>>

\* Wrong variant: the request context is gone when it is to be pushed.
ExecuteReleased(t) ==
    /\ pc[t] = "execute"
    /\ cur[t] \notin HeadRequests
    /\ cur' = [cur EXCEPT ![t] = NoRequest]
    /\ released' = released \cup {t}
    /\ Goto(t, "push")
    /\ UNCHANGED <<pos, arrived, replies, delegated, halted, running,
                   mutex, waiting, open, ghostVars>>

\* ErrorCodeServiceNeedExclusiveAccess: the context is released for the list
\* of waiting requests. A HEAD request gets 405 instead (ExecuteReply).
ExecuteNeedExclusive(t) ==
    /\ pc[t] = "execute"
    /\ cur[t] \notin HeadRequests
    /\ released' = released \cup {t}
    /\ Goto(t, "push")
    /\ UNCHANGED <<cur, pos, arrived, replies, delegated, halted, running,
                   mutex, waiting, open, ghostVars>>

\* An exception while the request has its context: the handlers call
\* doneRunRequest for its effect only, exec_request reports 500.
ExecuteThrow(t) ==
    /\ "execute" \in Faults
    /\ pc[t] = "execute"
    /\ running' = running - 1
    /\ Reply(cur[t])
    /\ Return(t)
    /\ UNCHANGED <<pos, arrived, delegated, halted, mutex, waiting, ghostVars>>

\* The same after release_context, before another thread or the list has the
\* context: exec_request has none to report to, and the request is dropped
\* with the last reference to its context. (To report to no context may also
\* end the process; then the behaviour ends here.)
ReleaseThrow(t) ==
    /\ "release" \in Faults
    /\ pc[t] \in {"execute", "push"}
    /\ running' = running - 1
    /\ lost' = lost \cup {cur[t]}
    /\ Return(t)
    /\ UNCHANGED <<pos, arrived, replies, delegated, halted, mutex, waiting,
                   surplus, pushFailed>>

\* Wrong variant: the list without the flag.
PushWithoutFlag(t) ==
    /\ pc[t] = "push"
    /\ mutex = NoThread
    /\ waiting' = Append(waiting, cur[t])
    /\ open' = open \ {t}
    /\ Goto(t, "done")
    /\ UNCHANGED <<cur, pos, arrived, replies, delegated, halted, running,
                   mutex, released, ghostVars>>

PushWaitingRequest(t) ==
    /\ pc[t] = "push"
    /\ mutex = NoThread
    /\ halted' = TRUE
    /\ waiting' = Append(waiting, cur[t])
    /\ open' = open \ {t}
    /\ Goto(t, "done")
    /\ UNCHANGED <<cur, pos, arrived, replies, delegated, running, mutex,
                   released, ghostVars>>

\* push_back throws: the flag is set before, and stays set.
PushThrow(t) ==
    /\ "push" \in Faults
    /\ pc[t] = "push"
    /\ mutex = NoThread
    /\ halted' = TRUE
    /\ pushFailed' = TRUE
    /\ running' = running - 1
    /\ lost' = lost \cup {cur[t]}
    /\ Return(t)
    /\ UNCHANGED <<pos, arrived, replies, delegated, mutex, waiting, surplus>>

\* The event loop thread completes the response of a delegated request.
CompleteDelegated(r) ==
    /\ pc[EventLoop] = "idle"
    /\ r \in delegated
    /\ delegated' = delegated \ {r}
    /\ Reply(r)
    /\ cur' = [cur EXCEPT ![EventLoop] = r]
    /\ released' = released \cup {EventLoop}
    /\ Goto(EventLoop, "done")
    /\ UNCHANGED <<pos, arrived, halted, running, mutex, waiting, open,
                   ghostVars>>

----------------------------------------------------------------------------
(* doneRunRequest() && haltedForMaintenance() ? processWaitingRequests() *)

\* Wrong variant: allocDecrement returns the old value, here it is tested as if
\* it were the new one.
DoneTestsOldValue(t) ==
    /\ pc[t] = "done"
    /\ running' = running - 1
    /\ IF running = 0
       THEN Goto(t, "halted") /\ UNCHANGED <<cur, handVars>>
       ELSE Leave(t)
    /\ UNCHANGED <<pos, arrived, replies, delegated, halted, mutex, waiting,
                   ghostVars>>

\* Only the thread that brings the counter down to zero looks at the flag.
DoneRunRequest(t) ==
    /\ pc[t] = "done"
    /\ running' = running - 1
    /\ IF running - 1 = 0
       THEN Goto(t, "halted") /\ UNCHANGED <<cur, handVars>>
       ELSE Leave(t)
    /\ UNCHANGED <<pos, arrived, replies, delegated, halted, mutex, waiting,
                   ghostVars>>

HaltedForMaintenance(t) ==
    /\ pc[t] = "halted"
    /\ IF halted
       THEN Goto(t, "acquire") /\ UNCHANGED <<cur, handVars>>
       ELSE Leave(t)
    /\ UNCHANGED <<pos, arrived, replies, delegated, halted, running, mutex,
                   waiting, ghostVars>>

ProcessBegin(t) ==
    /\ pc[t] = "acquire"
    /\ mutex = NoThread
    /\ mutex' = t
    /\ pos' = [pos EXCEPT ![t] = 1]
    /\ Goto(t, "process")
    /\ UNCHANGED <<cur, arrived, replies, delegated, halted, running, waiting,
                   handVars, ghostVars>>

\* One turn of the loop: the waiting request is executed and gets its answer,
\* its error, or 500 when it wants to delegate.
ProcessRequest(t) ==
    /\ pc[t] = "process"
    /\ pos[t] <= Len(waiting)
    /\ Reply(waiting[pos[t]])
    /\ pos' = [pos EXCEPT ![t] = @ + 1]
    /\ UNCHANGED <<pc, cur, arrived, delegated, halted, running, mutex,
                   waiting, handVars, ghostVars>>

\* Wrong variant: the maintenance mode ends before the loop does.
ProcessEndEarly(t) ==
    /\ pc[t] = "process"
    /\ waiting' = <<>>
    /\ halted' = FALSE
    /\ pushFailed' = FALSE
    /\ mutex' = NoThread
    /\ pos' = [pos EXCEPT ![t] = 0]
    /\ Leave(t)
    /\ UNCHANGED <<arrived, replies, delegated, running, lost, surplus>>

ProcessEnd(t) ==
    /\ pc[t] = "process"
    /\ pos[t] > Len(waiting)
    /\ waiting' = <<>>
    /\ halted' = FALSE
    /\ pushFailed' = FALSE
    /\ mutex' = NoThread
    /\ pos' = [pos EXCEPT ![t] = 0]
    /\ Leave(t)
    /\ UNCHANGED <<arrived, replies, delegated, running, lost, surplus>>

\* Wrong variant: the handlers do not test open.
UnwindAlwaysDone(t) ==
    /\ "process" \in Faults
    /\ pc[t] = "process"
    /\ pos[t] <= Len(waiting)
    /\ running' = running - 1
    /\ surplus' = IF t \in open THEN surplus + 1 ELSE surplus
    /\ IF t \in released THEN UNCHANGED replies ELSE Reply(cur[t])
    /\ pos' = [pos EXCEPT ![t] = 0]
    /\ Return(t)
    /\ UNCHANGED <<arrived, delegated, lost, pushFailed>>

\* What the handlers do when processWaitingRequests throws: in a worker that
\* called it with open = true the request is taken off the counter again, and
\* exec_request reports 500 on its own request, unless the context was
\* released.
Unwind(t) ==
    /\ "process" \in Faults
    /\ pc[t] = "process"
    /\ pos[t] <= Len(waiting)
    /\ IF t \in open
       THEN running' = running - 1 /\ surplus' = surplus + 1
       ELSE UNCHANGED <<running, surplus>>
    /\ IF t \in released THEN UNCHANGED replies ELSE Reply(cur[t])
    /\ pos' = [pos EXCEPT ![t] = 0]
    /\ Return(t)
    /\ UNCHANGED <<arrived, delegated, lost, pushFailed>>

\* Wrong variants: unwinding resets the flag, drops the list, or does not
\* release the lock.
ProcessThrowResumes(t) ==
    Unwind(t) /\ mutex' = NoThread /\ halted' = FALSE /\ UNCHANGED waiting

ProcessThrowDrops(t) ==
    Unwind(t) /\ mutex' = NoThread /\ halted' = FALSE /\ waiting' = <<>>

ProcessThrowKeepsLock(t) ==
    Unwind(t) /\ UNCHANGED <<mutex, halted, waiting>>

\* An exception in the loop: the lock is released on unwinding, the list and
\* the flag stay as they are.
ProcessThrow(t) ==
    Unwind(t) /\ mutex' = NoThread /\ UNCHANGED <<halted, waiting>>

\* The end of issueDelegateRequests in the worker.
IssueReturn(t) ==
    /\ pc[t] = "issued"
    /\ Return(t)
    /\ UNCHANGED <<pos, arrived, replies, delegated, halted, running, mutex,
                   waiting, ghostVars>>

\* An exception in issueDelegateRequests when the request is with the event
\* loop or ended: signalTermination takes it off the counter, or has done so,
\* and the handler does it as well. Nothing is reported without context.
IssueThrow(t) ==
    /\ "issue" \in Faults
    /\ pc[t] = "issued"
    /\ running' = running - 1
    /\ surplus' = surplus + 1
    /\ Return(t)
    /\ UNCHANGED <<pos, arrived, replies, delegated, halted, mutex, waiting,
                   lost, pushFailed>>

----------------------------------------------------------------------------
Receive(t) == \E r \in Requests : Arrive(t, r)

\* What a thread does for the request it has, if nothing throws.
Work(t) ==
    \/ RejectHalted(t) \/ PassHalted(t) \/ RejectInvalid(t)
    \/ StartRunRequest(t) \/ ExecuteReply(t) \/ ExecuteDelegate(t)
    \/ ExecuteIssueEnds(t) \/ ExecuteNeedExclusive(t) \/ PushWaitingRequest(t)
    \/ DoneRunRequest(t) \/ HaltedForMaintenance(t) \/ ProcessBegin(t)
    \/ ProcessRequest(t) \/ ProcessEnd(t) \/ IssueReturn(t)

Throw(t) ==
    \/ ExecuteThrow(t) \/ ReleaseThrow(t) \/ PushThrow(t) \/ IssueThrow(t)
    \/ ProcessThrow(t)

DelegateAnswer == \E r \in Requests : CompleteDelegated(r)

\* Without exceptions.
QuietNext ==
    \/ \E t \in Workers : Receive(t)
    \/ \E t \in Threads : Work(t)
    \/ DelegateAnswer

Next == QuietNext \/ \E t \in Threads : Throw(t)

Spec == Init /\ [][Next]_vars

QuietSpec == Init /\ [][QuietNext]_vars

\* Threads are scheduled by the operating system and no handler blocks for
\* ever; a delegate request is answered or given up by the event loop. Nobody
\* has to send a request, and nothing has to throw.
Fairness ==
    /\ \A t \in Threads : WF_vars(Work(t))
    /\ WF_vars(DelegateAnswer)

FairSpec == Spec /\ Fairness

QuietFairSpec == QuietSpec /\ Fairness

----------------------------------------------------------------------------
(* Properties *)

\* The counter of running requests counts the requests a thread is running
\* plus those left to the event loop, less what an exception that came out of
\* issueDelegateRequests took off twice (applicationImpl.cpp:328, 333, 338
\* after 285): no other path of runRequest, of its exception handlers or of
\* signalTermination counts a request twice or forgets it.
RunningIsCounted ==
    running = Cardinality({t \in Threads : pc[t] \in CountedPCs})
              + Cardinality(delegated) - surplus

\* Whenever nobody holds the list mutex, the service is halted for maintenance
\* exactly when requests are waiting, or the push of one failed since the list
\* was processed last (serviceClosure.hpp:139-140, .cpp:304).
HaltedIffWaiting ==
    mutex = NoThread => (halted <=> waiting # <<>> \/ pushFailed)

\* Somebody will look at the waiting list: a thread with a running request,
\* the event loop with a delegated one, or a thread on its way to process it.
\* Without this the service answers 503 for ever.
WaitingHasProcessor ==
    waiting # <<>> =>
        \/ \E t \in Threads : pc[t] \in CountedPCs \cup {"halted", "acquire",
                                                         "process"}
        \/ delegated # {}

\* Where the response of a request has still to come from.
HeldPCs == {"test", "prepare", "execute", "push"}

HeldBy(r) == {t \in Threads : cur[t] = r /\ pc[t] \in HeldPCs}
StillWaiting(r) ==
    {i \in DOMAIN waiting : waiting[i] = r
        /\ \A t \in Threads : pc[t] = "process" => pos[t] <= i}

\* Every accepted request has one response, or one place it will come from:
\* it is held by one thread, delegated, or waiting; nothing answers twice and
\* nothing is dropped on the way through the list.
AnsweredOnce ==
    \A r \in Requests :
        replies[r] + Cardinality(HeldBy(r)) + Cardinality(StillWaiting(r))
          + (IF r \in delegated THEN 1 ELSE 0)
        = (IF r \in arrived THEN 1 ELSE 0)

\* What holds with exceptions too: a request that was accepted has got an
\* answer, or there is a place its answer will come from; an exception in the
\* loop of processWaitingRequests keeps the list for the next one. The others,
\* and only they, were dropped by an exception behind release_context
\* (applicationImpl.cpp:284, 306): they never get an answer.
NothingLost ==
    \A r \in arrived :
        r \in lost <=> /\ replies[r] = 0
                      /\ HeldBy(r) = {} /\ r \notin delegated
                      /\ \A i \in DOMAIN waiting : waiting[i] # r

\* Maintenance mode ends only after every request that waited was answered.
ResumeAfterAnswers ==
    [][halted /\ ~halted' =>
         \A i \in DOMAIN waiting : replies[waiting[i]] > 0]_vars

\* The temporal reject of exec_request is temporal: the maintenance mode ends.
HaltIsTemporary == halted ~> ~halted

\* What a client sees of the state.
StatusOf(r) ==
    CASE r \notin arrived -> "unseen"
      [] r \in arrived /\ replies[r] > 0 -> "answered"
      [] OTHER -> IF \E i \in DOMAIN waiting : waiting[i] = r
                  THEN "parked" ELSE "open"

Service == INSTANCE RequestService
             WITH status <- [r \in Requests |-> StatusOf(r)], closed <- halted

\* The threads implement the promise made to the clients: one answer each, and
\* no end of the maintenance mode before every parked request is answered.
ImplementsService == Service!SSpec

\* The same with what it promises to happen eventually.
ImplementsFairService == Service!SFairSpec

\* A waiting request is executed with exclusive access: no other request is
\* in execute and none is delegated while the list is processed.
ExclusiveAccess ==
    \A t \in Threads :
        pc[t] = "process" /\ pos[t] <= Len(waiting) =>
            /\ \A u \in Threads : pc[u] # "execute"
            /\ delegated = {}
=============================================================================
