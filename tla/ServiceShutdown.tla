--------------------------- MODULE ServiceShutdown ---------------------------
(***************************************************************************)
(* What becomes of the requests of RequestExecution when the service is    *)
(* shut down: ServiceClosure::shutdown stops the event loop first, then    *)
(* the service, and the closure is freed once its threads have ended.      *)
(* Who calls shutdown and when is the subject of ServiceLifecycle.         *)
(***************************************************************************)
EXTENDS RequestExecution

VARIABLES
    stage,      \* how far the shutdown has come
    threw       \* an exception was thrown in runRequest or in the loop of
                \* processWaitingRequests

shutdownVars == <<vars, stage, threw>>

Stages == {"serving", "loop stopped", "stopped", "freed"}

ShutdownInit == Init /\ stage = "serving" /\ threw = FALSE

----------------------------------------------------------------------------
\* The dispatcher gets requests until the service is told to stop.
ReceiveWhileServing(t) ==
    /\ stage \in {"serving", "loop stopped"}
    /\ Receive(t)
    /\ UNCHANGED <<stage, threw>>

\* A thread goes on with what it has begun, whatever is stopped meanwhile. What
\* it delegates to an event loop that has stopped is either refused, which is
\* answered with an error, or stays where it is.
GoOn(t) ==
    /\ stage # "freed"
    /\ Work(t)
    /\ UNCHANGED <<stage, threw>>

\* One of the exceptions of RequestExecution.
ThrowUp(t) ==
    /\ stage # "freed"
    /\ Throw(t)
    /\ threw' = TRUE
    /\ UNCHANGED stage

AnswerWhileLoopRuns ==
    /\ stage = "serving"
    /\ DelegateAnswer
    /\ UNCHANGED <<stage, threw>>

\* m_eventloop->stop(): no answer is passed on to a request any more.
StopEventLoop ==
    /\ stage = "serving"
    /\ stage' = "loop stopped"
    /\ UNCHANGED <<vars, threw>>

\* m_service->shutdown().
StopService ==
    /\ stage = "loop stopped"
    /\ stage' = "stopped"
    /\ UNCHANGED <<vars, threw>>

\* ~ServiceClosure, after the threads of cppcms and the event loop were joined;
\* what is in the list of waiting requests, or delegated, is dropped.
Free ==
    /\ stage = "stopped"
    /\ \A t \in Threads : pc[t] = "idle"
    /\ stage' = "freed"
    /\ UNCHANGED <<vars, threw>>

ShutdownNext ==
    \/ \E t \in Workers : ReceiveWhileServing(t)
    \/ \E t \in Threads : GoOn(t) \/ ThrowUp(t)
    \/ AnswerWhileLoopRuns
    \/ StopEventLoop \/ StopService \/ Free

\* The threads are scheduled, and so is the one that shuts down, once it has
\* begun; nobody has to shut the service down.
ShutdownSpec ==
    /\ ShutdownInit /\ [][ShutdownNext]_shutdownVars
    /\ \A t \in Threads : WF_shutdownVars(GoOn(t))
    /\ WF_shutdownVars(StopService \/ Free)

----------------------------------------------------------------------------
(* Properties *)

\* Stopping the event loop before the service (serviceClosure.hpp:62) costs the
\* delegated requests their answer, and those that wait behind one of them for
\* exclusive access. It costs nobody else his answer: with no exception and
\* nothing delegated when the closure is freed, every request was answered.
OnlyDelegatedLost ==
    stage = "freed" /\ ~threw /\ delegated = {} =>
        /\ waiting = <<>> /\ ~halted /\ running = 0
        /\ \A r \in arrived : replies[r] > 0

\* Once the event loop was told to stop, the closure is freed: no thread hangs
\* in maintenance mode, on the mutex of the waiting list or behind a request
\* that is not answered any more, exceptions or not.
GoesDown == stage = "loop stopped" ~> stage = "freed"
=============================================================================
