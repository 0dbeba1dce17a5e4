------------------------ MODULE ServiceLifecycle_proofs ------------------------
(***************************************************************************)
(* Proofs about ServiceLifecycle, for every bound on starts and signals.   *)
(*                                                                         *)
(* RestartsByHup holds with signals at any time; EndsForReason and         *)
(* ServingHasEventLoop need that a SIGHUP comes only while an instance     *)
(* serves. What makes them inductive is where a caller of shutdown can be  *)
(* with the instance it holds (CallsAreCurrent), and who can have told an  *)
(* instance to stop (StopsForReason).                                      *)
(***************************************************************************)
EXTENDS ServiceLifecycle, Integers, TLAPS

WithInstance == {"init", "loop", "mount", "clear", "run", "serving", "returned"}

\* Between the creation of an instance and the check it is the last created.
Current == mpc \in WithInstance => instance = starts /\ instance # NoInstance

TInv == TypeOK /\ Current

----------------------------------------------------------------------------
(* Type correctness *)

\* Everything is in its type when the process starts.
LEMMA TypeInit == Init => TInv
<1>1. 0 \in 0 .. MaxStarts /\ 0 \in 0 .. MaxHups
  BY BoundAssumption
<1> QED
  BY <1>1 DEF Init, TInv, TypeOK, Current, WithInstance, Callers, NoInstance

\* No step leaves the types: an instance that does not exist has no service, no
\* event loop and nothing to stop.
LEMMA TypeStep == TInv /\ [Next]_vars => TInv'
<1> SUFFICES ASSUME TInv, [Next]_vars PROVE TInv'
  OBVIOUS
<1> USE BoundAssumption
    DEF TInv, TypeOK, Current, WithInstance, NoInstance, closure, callers,
        world
<1>0. 0 \in 0 .. MaxStarts
  BY BoundAssumption
<1>1. CASE CheckTerminate BY <1>0, <1>1 DEF CheckTerminate
<1>2. CASE NewClosure BY <1>2 DEF NewClosure
<1>3. CASE InitService BY <1>3 DEF InitService
<1>4. CASE InitEventLoop BY <1>4 DEF InitEventLoop
<1>5. CASE InitThrows BY <1>5 DEF InitThrows
<1>6. CASE MountApplications BY <1>6 DEF MountApplications
<1>7. CASE ClearSighup BY <1>7 DEF ClearSighup
<1>8. CASE Run BY <1>8 DEF Run
<1>9. CASE RunThrows BY <1>9 DEF RunThrows
<1>10. CASE RunReturns BY <1>10 DEF RunReturns
<1>11. CASE AfterRun BY <1>11 DEF AfterRun
<1>12. CASE Leave BY <1>0, <1>12 DEF Leave
<1>13. ASSUME NEW c \in Callers, StopEventLoop(c) PROVE TInv'
  <2>1. eventloop' \in BOOLEAN BY <1>13 DEF StopEventLoop
  <2>2. call' \in [Callers -> {"idle", "eventloop", "service"}]
    BY <1>13 DEF StopEventLoop
  <2>3. eventloop' => eventloop
    BY <1>13 DEF StopEventLoop
  <2> QED BY <1>13, <2>1, <2>2, <2>3 DEF StopEventLoop
<1>14. ASSUME NEW c \in Callers, StopService(c) PROVE TInv'
  <2>1. stopping' \in BOOLEAN BY <1>14 DEF StopService
  <2>2. call' \in [Callers -> {"idle", "eventloop", "service"}]
    BY <1>14 DEF StopService
  <2>3. stopping' => stopping \/ service
    BY <1>14 DEF StopService
  <2> QED BY <1>14, <2>1, <2>2, <2>3 DEF StopService
<1>15. CASE SignalHandler BY <1>15 DEF SignalHandler, Callers
<1>16. CASE ExecQuit
  <2>1. asked' \subseteq {"quit", "term"} BY <1>16 DEF ExecQuit
  <2> QED BY <1>16, <2>1 DEF ExecQuit, Callers
<1>17. CASE Term
  <2>1. asked' \subseteq {"quit", "term"} BY <1>17 DEF Term
  <2> QED BY <1>17, <2>1 DEF Term
<1>18. CASE UNCHANGED vars BY <1>18 DEF vars
<1> QED
  BY <1>1, <1>2, <1>3, <1>4, <1>5, <1>6, <1>7, <1>8, <1>9, <1>10, <1>11,
     <1>12, <1>13, <1>14, <1>15, <1>16, <1>17, <1>18
     DEF Next, Main, Shutdown

\* Every variable keeps its type.
THEOREM LifecycleTypes == Spec => []TypeOK
<1>1. TInv => TypeOK BY DEF TInv
<1> QED BY <1>1, TypeInit, TypeStep, PTL DEF Spec

----------------------------------------------------------------------------
(* Restarts *)

\* The SIGHUPs sent cover the instances created, and while main is not through
\* with one of them, or has a signal to act on, there is one to spare.
HupsCover ==
    /\ starts <= hups + 1
    /\ mpc = "new" \/ (mpc = "check" /\ ~terminate) => starts <= hups
    /\ sighup /\ mpc \in {"run", "serving", "returned"} => starts <= hups

\* Only a SIGHUP since the flag was cleared (strusWebService.cpp:430) lets main
\* create another instance, whenever the signals come.
THEOREM RestartsCounted == Spec => []RestartsByHup
<1>1. Init => HupsCover
  BY DEF Init, HupsCover
<1>2. TInv /\ HupsCover /\ [Next]_vars => HupsCover'
  <2> SUFFICES ASSUME TInv, HupsCover, [Next]_vars PROVE HupsCover'
    OBVIOUS
  <2>0. starts \in Int /\ hups \in Int
    BY DEF TInv, TypeOK
  <2> USE <2>0 DEF HupsCover, closure, callers, world
  <2>1. CASE CheckTerminate BY <2>1 DEF CheckTerminate
  <2>2. CASE NewClosure BY <2>2 DEF NewClosure
  <2>3. CASE \/ InitService \/ InitEventLoop \/ InitThrows
             \/ MountApplications \/ ClearSighup
    BY <2>3 DEF InitService, InitEventLoop, InitThrows, MountApplications,
       ClearSighup
  <2>4. CASE Run \/ RunThrows \/ RunReturns
    <3>1. CASE Run BY <3>1 DEF Run
    <3>2. CASE RunThrows BY <3>2 DEF RunThrows
    <3>3. CASE RunReturns BY <3>3 DEF RunReturns
    <3> QED BY <2>4, <3>1, <3>2, <3>3
  <2>5. CASE AfterRun BY <2>5 DEF AfterRun
  <2>6. CASE Leave BY <2>6 DEF Leave
  <2>7. CASE SignalHandler BY <2>7 DEF SignalHandler
  <2>8. CASE UNCHANGED <<mpc, starts, terminate, sighup, hups>>
    BY <2>8
  <2>9. (\E c \in Callers : Shutdown(c)) \/ ExecQuit \/ Term
          \/ UNCHANGED vars
            => UNCHANGED <<mpc, starts, terminate, sighup, hups>>
    BY DEF Shutdown, StopEventLoop, StopService, ExecQuit, Term, vars
  <2> QED
    BY <2>1, <2>2, <2>3, <2>4, <2>5, <2>6, <2>7, <2>8, <2>9 DEF Next, Main
<1>3. HupsCover => RestartsByHup
  BY DEF HupsCover, RestartsByHup
<1> QED BY <1>1, <1>2, <1>3, TypeInit, TypeStep, PTL DEF Spec

----------------------------------------------------------------------------
(* Shutdown, with signals that come while an instance serves *)

\* A caller of shutdown has got hold of an instance that was created, and if it
\* is the one of main, then main is past its start.
CallsAreCurrent ==
    \A c \in Callers : call[c] # "idle" =>
        /\ target[c] # NoInstance /\ target[c] <= starts
        /\ target[c] = instance =>
              mpc \in {"serving", "returned", "check", "leave"}

IsUp ==
    /\ mpc \in {"loop", "mount", "clear", "run", "serving", "returned"}
          => service
    /\ mpc \in {"mount", "clear", "run"} => eventloop

\* While nobody asked for the end and nothing failed, an instance stops because
\* of the signal whose flag is set.
StopsForReason ==
    asked = {} /\ ~failed =>
        /\ ~terminate
        /\ call["quit"] = "idle"
        /\ stopping => sighup /\ mpc \in {"serving", "returned", "check"}
        /\ mpc = "returned" => sighup
        /\ call["handler"] # "idle" /\ target["handler"] = instance => sighup

LeavesTerminated == mpc \in {"leave", "exit"} => terminate

\* The instance a caller stops is not one that main is about to start.
LEMMA CallsStep ==
    ASSUME HupAnytime = FALSE, TInv, CallsAreCurrent, [Next]_vars
    PROVE  CallsAreCurrent'
<1> USE DEF CallsAreCurrent, closure, callers, world, NoInstance
<1>0. /\ starts \in Int /\ instance \in Int
      /\ call \in [Callers -> {"idle", "eventloop", "service"}]
      /\ target \in [Callers -> 0 .. MaxStarts]
      /\ \A c \in Callers : target[c] \in Int
      /\ mpc \in WithInstance => instance = starts /\ instance # 0
  BY BoundAssumption DEF TInv, TypeOK, Current
<1>1. CASE CheckTerminate BY <1>0, <1>1 DEF CheckTerminate
<1>2. CASE NewClosure BY <1>0, <1>2 DEF NewClosure
<1>3. CASE \/ InitService \/ InitEventLoop \/ InitThrows
           \/ MountApplications \/ ClearSighup
  BY <1>3 DEF InitService, InitEventLoop, InitThrows, MountApplications,
     ClearSighup
<1>4. CASE Run \/ RunThrows \/ RunReturns \/ AfterRun
  BY <1>4 DEF Run, RunThrows, RunReturns, AfterRun
<1>5. CASE Leave BY <1>5 DEF Leave
<1>6. ASSUME NEW c \in Callers, Shutdown(c) PROVE CallsAreCurrent'
  BY <1>0, <1>6 DEF Shutdown, StopEventLoop, StopService
<1>7. CASE SignalHandler
  BY <1>0, <1>7 DEF SignalHandler, WithInstance, Callers
<1>8. CASE ExecQuit BY <1>0, <1>8 DEF ExecQuit, WithInstance, Callers
<1>9. CASE Term BY <1>9 DEF Term
<1>10. CASE UNCHANGED vars BY <1>10 DEF vars
<1> QED
  BY <1>1, <1>2, <1>3, <1>4, <1>5, <1>6, <1>7, <1>8, <1>9, <1>10
     DEF Next, Main

\* An instance that serves, or is about to, has its service, and its event loop
\* until somebody stops it.
LEMMA UpStep ==
    ASSUME TInv, CallsAreCurrent, IsUp, ServingHasEventLoop, [Next]_vars
    PROVE  IsUp' /\ ServingHasEventLoop'
<1> USE DEF IsUp, ServingHasEventLoop, closure, callers, world
<1>0. /\ service \in BOOLEAN /\ eventloop \in BOOLEAN /\ stopping \in BOOLEAN
      /\ call \in [Callers -> {"idle", "eventloop", "service"}]
      /\ target \in [Callers -> 0 .. MaxStarts]
  BY DEF TInv, TypeOK
<1>1. CASE CheckTerminate \/ NewClosure \/ InitService \/ InitEventLoop
  BY <1>0, <1>1 DEF CheckTerminate, NewClosure, InitService, InitEventLoop
<1>2. CASE InitThrows BY <1>0, <1>2 DEF InitThrows
<1>3. CASE MountApplications \/ ClearSighup
  BY <1>0, <1>3 DEF MountApplications, ClearSighup
<1>4. CASE Run BY <1>0, <1>4 DEF Run
<1>5. CASE RunThrows \/ RunReturns BY <1>0, <1>5 DEF RunThrows, RunReturns
<1>6. CASE AfterRun BY <1>0, <1>6 DEF AfterRun
<1>7. CASE Leave BY <1>0, <1>7 DEF Leave
<1>8. ASSUME NEW c \in Callers, StopEventLoop(c)
      PROVE  IsUp' /\ ServingHasEventLoop'
  <2>1. CASE target[c] = instance
    <3>1. call[c] # "idle" BY <1>8 DEF StopEventLoop
    <3>2. mpc \in {"serving", "returned", "check", "leave"}
      BY <2>1, <3>1 DEF CallsAreCurrent
    <3>3. call'[c] = "service" /\ target'[c] = instance'
      BY <1>0, <1>8, <2>1 DEF StopEventLoop
    <3> QED BY <1>8, <3>2, <3>3 DEF StopEventLoop
  <2>2. CASE target[c] # instance
    <3>1. eventloop' = eventloop BY <1>0, <1>8, <2>2 DEF StopEventLoop
    <3>2. \A d \in Callers : d # c => call'[d] = call[d]
      BY <1>0, <1>8 DEF StopEventLoop
    <3> QED BY <1>8, <2>2, <3>1, <3>2 DEF StopEventLoop
  <2> QED BY <2>1, <2>2
<1>9. ASSUME NEW c \in Callers, StopService(c)
      PROVE  IsUp' /\ ServingHasEventLoop'
  <2>1. CASE target[c] = instance /\ service
    <3>1. stopping' BY <1>9, <2>1 DEF StopService
    <3> QED BY <1>9, <3>1 DEF StopService
  <2>2. CASE target[c] # instance
    <3>1. stopping' = stopping BY <1>0, <1>9, <2>2 DEF StopService
    <3>2. \A d \in Callers : d # c => call'[d] = call[d]
      BY <1>0, <1>9 DEF StopService
    <3> QED BY <1>9, <2>2, <3>1, <3>2 DEF StopService
  <2>3. CASE ~service
    BY <1>9, <2>3 DEF StopService
  <2> QED BY <2>1, <2>2, <2>3
<1>10. CASE SignalHandler
  <2>1. \A d \in Callers : call[d] = "service" =>
            call'[d] = "service" /\ target'[d] = target[d]
    BY <1>0, <1>10 DEF SignalHandler, Callers
  <2> QED BY <1>10, <2>1 DEF SignalHandler
<1>11. CASE ExecQuit
  <2>1. \A d \in Callers : call[d] = "service" =>
            call'[d] = "service" /\ target'[d] = target[d]
    BY <1>0, <1>11 DEF ExecQuit, Callers
  <2> QED BY <1>11, <2>1 DEF ExecQuit
<1>12. CASE Term BY <1>12 DEF Term
<1>13. CASE UNCHANGED vars BY <1>13 DEF vars
<1> QED
  BY <1>1, <1>2, <1>3, <1>4, <1>5, <1>6, <1>7, <1>8, <1>9, <1>10, <1>11,
     <1>12, <1>13 DEF Next, Main, Shutdown

\* An instance stops for a reason, and main leaves when it has one.
LEMMA ReasonStep ==
    ASSUME HupAnytime = FALSE, TInv, CallsAreCurrent, StopsForReason,
           LeavesTerminated, [Next]_vars
    PROVE  StopsForReason' /\ LeavesTerminated'
<1> USE DEF StopsForReason, LeavesTerminated, closure, callers, world
<1>0. /\ service \in BOOLEAN /\ eventloop \in BOOLEAN /\ stopping \in BOOLEAN
      /\ terminate \in BOOLEAN /\ sighup \in BOOLEAN /\ failed \in BOOLEAN
      /\ call \in [Callers -> {"idle", "eventloop", "service"}]
      /\ target \in [Callers -> 0 .. MaxStarts]
      /\ "quit" \in Callers /\ "handler" \in Callers
  BY DEF TInv, TypeOK, Callers
<1>1. CASE CheckTerminate
  <2>1. call["handler"] # "idle" => target["handler"] # NoInstance
    BY <1>0 DEF CallsAreCurrent
  <2> QED BY <1>0, <1>1, <2>1 DEF CheckTerminate
<1>2. CASE NewClosure
  <2>1. call["handler"] # "idle" => target["handler"] # starts + 1
    BY <1>0 DEF CallsAreCurrent, TInv, TypeOK
  <2> QED BY <1>0, <1>2, <2>1 DEF NewClosure
<1>3. CASE InitService \/ InitEventLoop
  BY <1>0, <1>3 DEF InitService, InitEventLoop
<1>4. CASE InitThrows \/ RunThrows
  BY <1>0, <1>4 DEF InitThrows, RunThrows
<1>5. CASE MountApplications BY <1>0, <1>5 DEF MountApplications
<1>6. CASE ClearSighup
  BY <1>0, <1>6 DEF ClearSighup, CallsAreCurrent
<1>7. CASE Run
  <2>1. stopping' => stopping BY <1>7 DEF Run
  <2> QED BY <1>0, <1>7, <2>1 DEF Run
<1>8. CASE RunReturns BY <1>0, <1>8 DEF RunReturns
<1>9. CASE AfterRun BY <1>0, <1>9 DEF AfterRun
<1>10. CASE Leave
  <2>1. call["handler"] # "idle" => target["handler"] # NoInstance
    BY <1>0 DEF CallsAreCurrent
  <2> QED BY <1>0, <1>10, <2>1 DEF Leave
<1>11. ASSUME NEW c \in Callers, StopEventLoop(c)
      PROVE  StopsForReason' /\ LeavesTerminated'
  <2>1. \A d \in Callers : call'[d] # "idle" => call[d] # "idle"
    BY <1>0, <1>11 DEF StopEventLoop
  <2>2. c = "quit" => call["quit"] # "idle"
    BY <1>11 DEF StopEventLoop
  <2> QED BY <1>0, <1>11, <2>1, <2>2 DEF StopEventLoop
<1>12. ASSUME NEW c \in Callers, StopService(c)
      PROVE  StopsForReason' /\ LeavesTerminated'
  <2>1. \A d \in Callers : call'[d] # "idle" => call[d] # "idle"
    BY <1>0, <1>12 DEF StopService
  <2>2. call[c] # "idle" BY <1>12 DEF StopService
  <2>3. stopping' = stopping \/ target[c] = instance
    BY <1>0, <1>12 DEF StopService
  <2>4. c = "handler" \/ c = "quit" BY DEF Callers
  <2>5. target[c] = instance =>
            mpc \in {"serving", "returned", "check", "leave"}
    BY <2>2 DEF CallsAreCurrent
  <2> QED BY <1>0, <1>12, <2>1, <2>2, <2>3, <2>4, <2>5 DEF StopService
<1>13. CASE SignalHandler
  BY <1>0, <1>13 DEF SignalHandler
<1>14. CASE ExecQuit
  <2>1. asked' # {} BY <1>14 DEF ExecQuit
  <2> QED BY <1>14, <2>1 DEF ExecQuit
<1>15. CASE Term
  <2>1. asked' # {} BY <1>15 DEF Term
  <2> QED BY <1>15, <2>1 DEF Term
<1>16. CASE UNCHANGED vars BY <1>16 DEF vars
<1> QED
  BY <1>1, <1>2, <1>3, <1>4, <1>5, <1>6, <1>7, <1>8, <1>9, <1>10, <1>11,
     <1>12, <1>13, <1>14, <1>15, <1>16 DEF Next, Main, Shutdown

ServingInv ==
    TInv /\ CallsAreCurrent /\ IsUp /\ ServingHasEventLoop /\ StopsForReason
         /\ LeavesTerminated

\* The invariant holds in every state if signals come to an instance that serves.
LEMMA ServingHolds ==
    ASSUME HupAnytime = FALSE
    PROVE  Spec => []ServingInv
<1>1. Init => ServingInv
  BY TypeInit DEF Init, ServingInv, CallsAreCurrent, IsUp, Callers,
     ServingHasEventLoop, StopsForReason, LeavesTerminated
<1>2. ServingInv /\ [Next]_vars => ServingInv'
  BY TypeStep, CallsStep, UpStep, ReasonStep DEF ServingInv
<1> QED BY <1>1, <1>2, PTL DEF Spec

\* The loop in main ends because somebody asked for it or because something
\* failed, if no SIGHUP comes during a start.
THEOREM EndsOnlyForReason ==
    ASSUME HupAnytime = FALSE
    PROVE  Spec => []EndsForReason
<1>1. ServingInv => EndsForReason
  BY DEF ServingInv, StopsForReason, LeavesTerminated, EndsForReason
<1> QED BY <1>1, ServingHolds, PTL

\* No request is delegated to an event loop that is stopped, unless the service
\* is about to stop too (serviceClosure.hpp:62), if no SIGHUP comes during a
\* start.
THEOREM ServingConnected ==
    ASSUME HupAnytime = FALSE
    PROVE  Spec => []ServingHasEventLoop
<1>1. ServingInv => ServingHasEventLoop
  BY DEF ServingInv
<1> QED BY <1>1, ServingHolds, PTL
=============================================================================
