-------------------------- MODULE ServiceLifecycle --------------------------
(***************************************************************************)
(* The life of the service process: the loop in main that creates, runs    *)
(* and replaces the ServiceClosure, the SIGHUP handler, the /quit request  *)
(* and the flags g_terminate and g_got_sighup they communicate with.       *)
(*                                                                         *)
(* ServiceClosure::shutdown stops the event loop, then the service; the    *)
(* signal handler and exec_quit call it concurrently with main. Whether    *)
(* cppcms remembers that it was told to stop before run was called is left *)
(* open.                                                                   *)
(***************************************************************************)
EXTENDS Naturals

CONSTANTS
    MaxStarts,      \* bound on the instances of ServiceClosure created
    MaxHups,        \* bound on the SIGHUPs sent
    HupAnytime,     \* SIGHUP may arrive while the service is starting too
    QuitEnabled,    \* debug.protocol.quit_enabled
    StartMayFail    \* init, mount_applications or run may throw

ASSUME BoundAssumption == MaxStarts \in Nat /\ MaxHups \in Nat

ASSUME SwitchAssumption ==
    {HupAnytime, QuitEnabled, StartMayFail} \subseteq BOOLEAN

NoInstance == 0

\* Who may be in ServiceClosure::shutdown besides main.
Callers == {"handler", "quit"}

VARIABLES
    mpc,        \* where main is
    instance,   \* g_serviceClosure: number of the instance, or NoInstance
    starts,     \* instances created so far
    service,    \* m_service of the instance exists
    eventloop,  \* m_eventloop of the instance exists and runs
    stopping,   \* the service of the instance was told to stop
    terminate,  \* g_terminate
    sighup,     \* g_got_sighup
    call,       \* where a caller is in shutdown
    target,     \* the instance a caller has got hold of
    hups,       \* SIGHUPs sent
    asked,      \* how a shutdown was asked for, "quit" or "term"
    failed      \* an exception was caught on the way up

vars == <<mpc, instance, starts, service, eventloop, stopping, terminate,
          sighup, call, target, hups, asked, failed>>

TypeOK ==
    /\ mpc \in {"check", "new", "init", "loop", "mount", "clear", "run",
                "serving", "returned", "leave", "exit"}
    /\ instance \in 0 .. MaxStarts /\ starts \in 0 .. MaxStarts
    /\ service \in BOOLEAN /\ eventloop \in BOOLEAN /\ stopping \in BOOLEAN
    /\ terminate \in BOOLEAN /\ sighup \in BOOLEAN /\ failed \in BOOLEAN
    /\ service \/ eventloop \/ stopping => instance # NoInstance
    /\ asked \subseteq {"quit", "term"}
    /\ call \in [Callers -> {"idle", "eventloop", "service"}]
    /\ target \in [Callers -> 0 .. MaxStarts]
    /\ hups \in 0 .. MaxHups

\* The configuration was read, the handler installed.
Init ==
    /\ mpc = "check"
    /\ instance = NoInstance /\ starts = 0
    /\ service = FALSE /\ eventloop = FALSE /\ stopping = FALSE
    /\ terminate = FALSE /\ sighup = FALSE
    /\ call = [c \in Callers |-> "idle"]
    /\ target = [c \in Callers |-> NoInstance]
    /\ hups = 0
    /\ asked = {} /\ failed = FALSE

closure == <<instance, starts, service, eventloop, stopping>>
callers == <<call, target>>
world == <<hups, asked>>

----------------------------------------------------------------------------
(* main *)

\* Wrong variant: the next instance before the last one is freed.
CheckTerminateKeeps ==
    /\ mpc = "check"
    /\ mpc' = (IF terminate THEN "leave" ELSE "new")
    /\ instance' = (IF terminate THEN instance ELSE NoInstance)
    /\ UNCHANGED <<starts, service, eventloop, stopping, terminate, sighup,
                   callers, world, failed>>

\* while (!g_terminate.test()); the old instance is freed, which waits for its
\* worker threads (cppcms joins them), so for a /quit one of them handles.
CheckTerminate ==
    /\ mpc = "check"
    /\ terminate \/ call["quit"] = "idle"
    /\ IF terminate
       THEN mpc' = "leave" /\ UNCHANGED closure
       ELSE /\ mpc' = "new"
            /\ instance' = NoInstance
            /\ service' = FALSE /\ eventloop' = FALSE /\ stopping' = FALSE
            /\ UNCHANGED starts
    /\ UNCHANGED <<terminate, sighup, callers, world, failed>>

NewClosure ==
    /\ mpc = "new"
    /\ starts < MaxStarts
    /\ starts' = starts + 1
    /\ instance' = starts + 1
    /\ mpc' = "init"
    /\ UNCHANGED <<service, eventloop, stopping, terminate, sighup, callers,
                   world, failed>>

\* ServiceClosure::init creates the service, then the event loop.
InitService ==
    /\ mpc = "init"
    /\ service' = TRUE
    /\ mpc' = "loop"
    /\ UNCHANGED <<instance, starts, eventloop, stopping, terminate, sighup,
                   callers, world, failed>>

\* Wrong variant: the event loop is created but not started.
InitEventLoopUnstarted ==
    /\ mpc = "loop"
    /\ mpc' = "mount"
    /\ UNCHANGED <<closure, terminate, sighup, callers, world, failed>>

InitEventLoop ==
    /\ mpc = "loop"
    /\ eventloop' = TRUE
    /\ mpc' = "mount"
    /\ UNCHANGED <<instance, starts, service, stopping, terminate, sighup,
                   callers, world, failed>>

\* An exception of init, before or after the event loop is started, is caught
\* around the body of the loop.
InitThrows ==
    /\ StartMayFail
    /\ mpc \in {"init", "loop"}
    /\ terminate' = TRUE
    /\ failed' = TRUE
    /\ mpc' = "check"
    /\ eventloop' \in {FALSE, mpc = "loop"}
    /\ UNCHANGED <<instance, starts, service, stopping, sighup, callers, world>>

\* callService catches what mount_applications throws; main goes on.
MountApplications ==
    /\ mpc = "mount"
    /\ mpc' = "clear"
    /\ \/ UNCHANGED <<terminate, failed>>
       \/ StartMayFail /\ terminate' = TRUE /\ failed' = TRUE
    /\ UNCHANGED <<closure, sighup, callers, world>>

\* Wrong variant: the flag of the last restart stays.
SighupKept ==
    /\ mpc = "clear"
    /\ mpc' = "run"
    /\ UNCHANGED <<closure, terminate, sighup, callers, world, failed>>

ClearSighup ==
    /\ mpc = "clear"
    /\ sighup' = FALSE
    /\ mpc' = "run"
    /\ UNCHANGED <<closure, terminate, callers, world, failed>>

\* m_service->run.
Run ==
    /\ mpc = "run"
    /\ mpc' = "serving"
    /\ stopping' \in {stopping, FALSE}
    /\ UNCHANGED <<instance, starts, service, eventloop, terminate, sighup,
                   callers, world, failed>>

RunThrows ==
    /\ StartMayFail
    /\ mpc = "run"
    /\ terminate' = TRUE
    /\ failed' = TRUE
    /\ mpc' = "returned"
    /\ UNCHANGED <<closure, sighup, callers, world>>

RunReturns ==
    /\ mpc = "serving"
    /\ stopping
    /\ mpc' = "returned"
    /\ UNCHANGED <<closure, terminate, sighup, callers, world, failed>>

\* Wrong variant: a restart leaves g_terminate set.
AfterRunTerminates ==
    /\ mpc = "returned"
    /\ terminate' = TRUE
    /\ eventloop' = FALSE
    /\ mpc' = "check"
    /\ UNCHANGED <<instance, starts, service, stopping, sighup, callers,
                   world, failed>>

\* Reload on SIGHUP, or else shut down, once.
AfterRun ==
    /\ mpc = "returned"
    /\ mpc' = "check"
    /\ IF sighup
       THEN UNCHANGED <<terminate, eventloop, stopping>>
       ELSE /\ terminate' = TRUE
            /\ IF terminate THEN UNCHANGED <<eventloop, stopping>>
                            ELSE eventloop' = FALSE /\ stopping' = TRUE
    /\ UNCHANGED <<instance, starts, service, sighup, callers, world, failed>>

\* The end of main: shutdown and reset of the last instance.
Leave ==
    /\ mpc = "leave"
    /\ call["quit"] = "idle"
    /\ instance' = NoInstance
    /\ service' = FALSE /\ eventloop' = FALSE /\ stopping' = FALSE
    /\ mpc' = "exit"
    /\ UNCHANGED <<starts, terminate, sighup, callers, world, failed>>

Main ==
    \/ CheckTerminate \/ NewClosure \/ InitService \/ InitEventLoop
    \/ InitThrows \/ MountApplications \/ ClearSighup \/ Run \/ RunThrows
    \/ RunReturns \/ AfterRun \/ Leave

----------------------------------------------------------------------------
(* ServiceClosure::shutdown in the signal handler and in exec_quit *)

\* Wrong variant: shutdown of the event loop only.
StopEventLoopOnly(c) ==
    /\ call[c] = "eventloop"
    /\ call' = [call EXCEPT ![c] = "idle"]
    /\ eventloop' = (eventloop /\ target[c] # instance)
    /\ UNCHANGED <<mpc, instance, starts, service, stopping, terminate, sighup,
                   target, world, failed>>

\* An instance that main has replaced is kept alive by the caller's reference;
\* stopping it has no effect on the current one.
StopEventLoop(c) ==
    /\ call[c] = "eventloop"
    /\ call' = [call EXCEPT ![c] = "service"]
    /\ eventloop' = (eventloop /\ target[c] # instance)
    /\ UNCHANGED <<mpc, instance, starts, service, stopping, terminate, sighup,
                   target, world, failed>>

StopService(c) ==
    /\ call[c] = "service"
    /\ call' = [call EXCEPT ![c] = "idle"]
    /\ stopping' = (stopping \/ (target[c] = instance /\ service))
    /\ UNCHANGED <<mpc, instance, starts, service, eventloop, terminate, sighup,
                   target, world, failed>>

\* Only the signal that sets the flag calls shutdown, if there is an instance.
SignalHandler ==
    /\ hups < MaxHups
    /\ call["handler"] = "idle"
    /\ mpc # "exit"
    /\ HupAnytime \/ mpc = "serving"
    /\ hups' = hups + 1
    /\ sighup' = TRUE
    /\ IF ~sighup /\ instance # NoInstance
       THEN /\ call' = [call EXCEPT !["handler"] = "eventloop"]
            /\ target' = [target EXCEPT !["handler"] = instance]
       ELSE UNCHANGED callers
    /\ UNCHANGED <<mpc, closure, terminate, asked, failed>>

\* GET /quit in a worker: replies "service to shutdown" and shuts down.
ExecQuit ==
    /\ QuitEnabled
    /\ mpc = "serving" /\ call["quit"] = "idle"
    /\ asked' = asked \cup {"quit"}
    /\ call' = [call EXCEPT !["quit"] = "eventloop"]
    /\ target' = [target EXCEPT !["quit"] = instance]
    /\ UNCHANGED <<mpc, closure, terminate, sighup, hups, failed>>

\* cppcms itself handles SIGTERM and SIGINT while it runs.
Term ==
    /\ mpc = "serving"
    /\ asked' = asked \cup {"term"}
    /\ stopping' = TRUE
    /\ UNCHANGED <<mpc, instance, starts, service, eventloop, terminate, sighup,
                   callers, hups, failed>>

Shutdown(c) == StopEventLoop(c) \/ StopService(c)

Next ==
    \/ Main
    \/ \E c \in Callers : Shutdown(c)
    \/ SignalHandler \/ ExecQuit \/ Term

Spec == Init /\ [][Next]_vars

\* main and the threads in shutdown are scheduled; no signal or request has to
\* come.
FairSpec ==
    Spec /\ WF_vars(Main) /\ \A c \in Callers : WF_vars(Shutdown(c))

----------------------------------------------------------------------------
(* Properties *)

\* The process ends because somebody asked for it or because it could not
\* start; a SIGHUP alone never ends it.
EndsForReason == mpc \in {"leave", "exit"} => asked # {} \/ failed

\* While the service takes requests its event loop runs, unless somebody is
\* about to stop the service: no request is delegated to a dead event loop.
ServingHasEventLoop ==
    mpc = "serving" /\ ~eventloop =>
        stopping \/ \E c \in Callers : call[c] = "service" /\ target[c] = instance

\* A SIGHUP or a shutdown taken while an instance serves ends that instance.
ShutdownEndsInstance ==
    \A i \in 1 .. MaxStarts :
        (/\ instance = i /\ mpc = "serving"
         /\ sighup \/ stopping \/ call["quit"] # "idle") ~> (instance # i)

\* Every instance but the first is there because of a SIGHUP: an old signal
\* does not restart the service twice.
RestartsByHup == starts <= hups + 1
=============================================================================
