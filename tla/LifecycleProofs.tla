--------------------------- MODULE LifecycleProofs ---------------------------
(***************************************************************************)
(* Proofs about the process of module Lifecycle: its types, what may run   *)
(* in which phase of main, what the registrar's outcome says, and that the *)
(* process treats the monitor as module Watcher does, for any backoffs and *)
(* bounds and however Kubernetes, clients, signals and the listener        *)
(* behave.                                                                 *)
(***************************************************************************)
EXTENDS Lifecycle, TLAPS

-----------------------------------------------------------------------------
(* The registrar's variables keep their types in every step of its own:    *)
(* the doubled backoff is capped, and the failures are bounded.            *)
LEMMA RegistrarTypes ==
  ASSUME R!RegTypeOK, R!Start \/ R!Post \/ R!WaitEnds \/ R!WaitCancelled
  PROVE  R!RegTypeOK'
<1> USE DEF R!RegTypeOK
<1>1. CASE R!Start
  BY <1>1 DEF R!Start
<1>2. CASE R!Accepted \/ R!Refused
  BY <1>2 DEF R!Accepted, R!Refused, R!Finish
<1>3. CASE R!WaitEnds
  BY <1>3, LifecycleAssumption DEF R!WaitEnds
<1>4. CASE R!WaitCancelled
  BY <1>4 DEF R!WaitCancelled, R!Finish
<1>5. CASE R!SendFails
  <2>1. failures' \in 0 .. MaxFailures
    BY <1>5, LifecycleAssumption DEF R!SendFails
  <2>2. registered' \in BOOLEAN
    BY <1>5, Zenon DEF R!SendFails
  <2> QED BY <1>5, <2>1, <2>2 DEF R!SendFails
<1> QED BY <1>1, <1>2, <1>3, <1>4, <1>5 DEF R!Post

(* They keep them as well in a step that leaves them alone.                *)
LEMMA RegistrarRests == R!RegTypeOK /\ UNCHANGED registrar => R!RegTypeOK'
BY DEF R!RegTypeOK, registrar

(* Every variable keeps its type: action by action.                        *)
LEMMA TypeStep == TypeOK /\ [Next]_vars => TypeOK'
<1> SUFFICES ASSUME TypeOK, [Next]_vars PROVE TypeOK'
  OBVIOUS
<1> USE LifecycleAssumption
    DEF TypeOK, Phases, KubeStates, server, prober, cluster, watcher
<1>1. CASE Probing
  BY <1>1, RegistrarRests DEF Probing, ProbeSent, ProbeAnswered, ProbeFails, ProbeAgain
<1>2. CASE DeadlineExpires \/ ProbeGivesUp
  BY <1>2, RegistrarRests DEF DeadlineExpires, ProbeGivesUp
<1>3. CASE OnReady
  BY <1>3, RegistrarTypes DEF OnReady
<1>4. CASE Cancelled
  BY <1>4, RegistrarRests DEF Cancelled
<1>5. CASE ServeError \/ ShutdownEnds \/ ClosePublisher \/ StopSignals \/ Exit
  <2>1. ctxDone' \in BOOLEAN
    BY <1>5, Zenon DEF ServeError, ShutdownEnds, ClosePublisher, StopSignals, Exit
  <2> QED BY <1>5, <2>1, RegistrarRests
          DEF ServeError, ShutdownEnds, ClosePublisher, StopSignals, Exit
<1>6. CASE Registrar
  BY <1>6, RegistrarTypes DEF Registrar, RegistrarGoesOn, RegistrarCancelled
<1>7. CASE PublishBegins \/ Watching
  <2> USE DEF PublishBegins, Watching, PublishEnds, MonitorStops, MonitorReturns,
          W!PublishBegins, W!PublishEnds, W!MonitorStops, W!MonitorReturns
  <2>1. publishing' \in BOOLEAN
    BY <1>7, Zenon
  <2> QED BY <1>7, <2>1, RegistrarRests
<1>8. CASE Signal \/ ServeFails
  <2>1. ctxDone' \in BOOLEAN
    BY <1>8, Zenon DEF Signal, W!Cancel, ServeFails
  <2> QED BY <1>8, <2>1, RegistrarRests DEF Signal, W!Cancel, ServeFails
<1>9. CASE RequestBegins \/ RequestEnds \/ StuckEnds
  BY <1>9, RegistrarRests DEF RequestBegins, RequestEnds, StuckEnds
<1>10. CASE KubeTurns
  BY <1>10, RegistrarRests DEF KubeTurns
<1>11. CASE UNCHANGED vars
  BY <1>11, RegistrarRests DEF vars
<1> QED BY <1>1, <1>2, <1>3, <1>4, <1>5, <1>6, <1>7, <1>8, <1>9, <1>10, <1>11
        DEF Next, Running, World

(* The types hold at first: the first backoff is not above the maximum.    *)
LEMMA TypeInit == Init => TypeOK
<1> SUFFICES ASSUME Init PROVE TypeOK
  OBVIOUS
<1>1. R!RegTypeOK
  <2>1. R!Init
    BY DEF Init
  <2>2. {MaxFailures, InitialBackoff, MaxBackoff} \subseteq Nat
        /\ InitialBackoff <= MaxBackoff
    BY LifecycleAssumption
  <2>3. registered \in BOOLEAN
    BY <2>1, Zenon DEF R!Init
  <2> QED BY <2>1, <2>2, <2>3 DEF R!Init, R!RegTypeOK
<1>2. {ctxDone, deadline, hung, publishing} \subseteq BOOLEAN
  BY Zenon DEF Init
<1> QED BY <1>1, <1>2, LifecycleAssumption DEF Init, TypeOK, Phases, KubeStates

(* Every variable keeps its type, for any backoffs and bounds; the backoff *)
(* stays between the initial and the maximal one, however often it is      *)
(* doubled.                                                                *)
THEOREM TypesHold == Spec => []TypeOK
<1> QED BY TypeInit, TypeStep, PTL DEF Spec

-----------------------------------------------------------------------------
(* What has been started, and by whom: before main has called onReady      *)
(* neither the registrar nor the monitor runs, and both start together.    *)
StartedTogether ==
  /\ main \in {"probing", "ready"} => loop = "off"
  /\ loop = "off" <=> monitor = "off"

(* What the registrar's outcome says: it has one when its loop is over and *)
(* not before; registered means that the registry has the provider, and    *)
(* cancelled that the context is.                                          *)
OutcomeTrue ==
  /\ outcome # "none" <=> loop = "done"
  /\ outcome = "registered" => registered
  /\ outcome = "cancelled" => ctxDone

(* The monitor publishes only while it runs or is being stopped, and stops *)
(* only after the context.                                                 *)
WatcherOrder ==
  /\ publishing => monitor \in {"running", "stopping"}
  /\ monitor \in {"stopping", "returned"} => ctxDone

(* How main ends: the server is shut down, the listener closed and the     *)
(* process gone only with the context cancelled, or after Serve failed.    *)
EndsForAReason ==
  /\ main \in {"shutdown", "stopped", "exited"} => ctxDone
  /\ serve = "closed" => ctxDone /\ main \notin {"probing", "ready", "serving"}
  /\ main \in {"shutdown", "returned", "closed", "stopped", "exited"} => serve # "serving"

(* The inductive invariant of the process.                                 *)
LInv == StartedTogether /\ OutcomeTrue /\ WatcherOrder /\ EndsForAReason

(* It holds at first ...                                                   *)
LEMMA LInit == Init => LInv
BY DEF Init, R!Init, LInv, StartedTogether, OutcomeTrue, WatcherOrder, EndsForAReason

(* ... and every step keeps it.                                            *)
LEMMA LStep == LInv /\ [Next]_vars => LInv'
<1> SUFFICES ASSUME LInv, [Next]_vars PROVE LInv'
  OBVIOUS
<1> USE DEF LInv, StartedTogether, OutcomeTrue, WatcherOrder, EndsForAReason,
        server, prober, cluster, watcher, registrar
<1>1. CASE Probing
  BY <1>1 DEF Probing, ProbeSent, ProbeAnswered, ProbeFails, ProbeAgain
<1>2. CASE DeadlineExpires \/ ProbeGivesUp
  BY <1>2 DEF DeadlineExpires, ProbeGivesUp
<1>3. CASE OnReady
  BY <1>3 DEF OnReady, R!Start
<1>4. CASE Cancelled
  BY <1>4 DEF Cancelled
<1>5. CASE ServeError \/ ShutdownEnds \/ ClosePublisher \/ StopSignals \/ Exit
  BY <1>5 DEF ServeError, ShutdownEnds, ClosePublisher, StopSignals, Exit
<1>6. CASE Registrar
  <2>1. UNCHANGED <<main, ctxDone, serve, watcher>>
    BY <1>6 DEF Registrar, RegistrarGoesOn, RegistrarCancelled
  <2>2. CASE R!Accepted \/ R!Refused
    BY <2>1, <2>2 DEF R!Accepted, R!Refused, R!Finish
  <2>3. CASE R!SendFails \/ R!WaitEnds
    BY <2>1, <2>3 DEF R!SendFails, R!WaitEnds
  <2>4. CASE R!WaitCancelled
    BY <2>1, <2>4 DEF R!WaitCancelled, R!Finish
  <2> QED BY <1>6, <2>2, <2>3, <2>4 DEF Registrar, RegistrarGoesOn, RegistrarCancelled, R!Post
<1>7. CASE PublishBegins \/ Watching
  BY <1>7
  DEF PublishBegins, Watching, PublishEnds, MonitorStops, MonitorReturns,
      W!PublishBegins, W!PublishEnds, W!MonitorStops, W!MonitorReturns
<1>8. CASE Signal \/ ServeFails
  BY <1>8 DEF Signal, W!Cancel, ServeFails
<1>9. CASE RequestBegins \/ RequestEnds \/ StuckEnds \/ KubeTurns
  BY <1>9 DEF RequestBegins, RequestEnds, StuckEnds, KubeTurns
<1>10. CASE UNCHANGED vars
  BY <1>10 DEF vars
<1> QED BY <1>1, <1>2, <1>3, <1>4, <1>5, <1>6, <1>7, <1>8, <1>9, <1>10
        DEF Next, Running, World

(* Whatever fails, is cancelled or is lost: nothing registers or watches   *)
(* before a probe was answered 200, what the registrar ends with is true,  *)
(* the monitor publishes neither before it starts nor after it returns,    *)
(* and main ends only for a signal or a failed listener.                   *)
THEOREM ProcessSafe == Spec => []LInv
<1> QED BY LInit, LStep, PTL DEF Spec

-----------------------------------------------------------------------------
(* onReady is called at most once, and only from the phase that follows a  *)
(* probe answered 200: main never goes back.                               *)
PhaseOrder ==
  [probing |-> 0, ready |-> 1, serving |-> 2, shutdown |-> 3, returned |-> 4,
   closed |-> 5, stopped |-> 6, exited |-> 7]

(* A step of the process is a step of Watcher, or leaves what it shows     *)
(* alone, or is the one call of onReady, which starts the monitor.         *)
WatcherSteps == [][W!Next \/ OnReady]_(W!watching)

(* main's phases come in order, the outcome of a registration is final,    *)
(* and an entry in the registry stays.                                     *)
NeverBack ==
  [][/\ main' # main => PhaseOrder[main] < PhaseOrder[main']
     /\ outcome # "none" => UNCHANGED <<loop, outcome>>
     /\ registered => registered'
     /\ ctxDone => ctxDone']_vars

(* The process does to the monitor what module Watcher allows: that it is  *)
(* composed with Watcher's steps and not with the whole of StatusMonitor   *)
(* loses nothing, since StatusMonitorProofs shows the monitor to implement *)
(* Watcher.                                                                *)
THEOREM WatcherComposed == Spec => WatcherSteps
<1>1. LInv /\ [Next]_vars => [W!Next \/ OnReady]_(W!watching)
  <2> SUFFICES ASSUME LInv, [Next]_vars PROVE [W!Next \/ OnReady]_(W!watching)
    OBVIOUS
  <2> USE DEF W!watching, W!Next, watcher
  <2>1. CASE Probing
    BY <2>1 DEF Probing, ProbeSent, ProbeAnswered, ProbeFails, ProbeAgain
  <2>2. CASE DeadlineExpires \/ ProbeGivesUp
    BY <2>2 DEF DeadlineExpires, ProbeGivesUp
  <2>3. CASE Cancelled \/ ServeError \/ ShutdownEnds \/ ClosePublisher \/ Exit
    BY <2>3 DEF Cancelled, ServeError, ShutdownEnds, ClosePublisher, Exit
  <2>4. CASE StopSignals
    BY <2>4 DEF StopSignals, W!Cancel
  <2>5. CASE Registrar
    BY <2>5 DEF Registrar, RegistrarGoesOn, RegistrarCancelled
  <2>6. CASE PublishBegins \/ Watching
    BY <2>6 DEF PublishBegins, Watching, PublishEnds, MonitorStops, MonitorReturns
  <2>7. CASE World
    BY <2>7 DEF World, Signal, ServeFails, RequestBegins, RequestEnds, StuckEnds, KubeTurns
  <2>8. CASE UNCHANGED vars
    BY <2>8 DEF vars
  <2> QED BY <2>1, <2>2, <2>3, <2>4, <2>5, <2>6, <2>7, <2>8 DEF Next, Running
<1> QED BY <1>1, LInit, LStep, PTL DEF Spec, WatcherSteps

(* Nothing is started or settled twice: main never goes back to a phase, a *)
(* registration that has settled stays so and nothing takes its entry      *)
(* away, and a cancelled context stays cancelled.                          *)
THEOREM NothingTwice == Spec => NeverBack
<1> DEFINE Step == /\ main' # main => PhaseOrder[main] < PhaseOrder[main']
                   /\ outcome # "none" => UNCHANGED <<loop, outcome>>
                   /\ registered => registered'
                   /\ ctxDone => ctxDone'
<1>1. LInv /\ [Next]_vars => [Step]_vars
  <2> SUFFICES ASSUME LInv, Next PROVE Step
    OBVIOUS
  <2> USE DEF LInv, OutcomeTrue, StartedTogether, PhaseOrder, registrar
  <2>1. CASE Probing
    BY <2>1 DEF Probing, ProbeSent, ProbeAnswered, ProbeFails, ProbeAgain
  <2>2. CASE DeadlineExpires \/ ProbeGivesUp
    BY <2>2 DEF DeadlineExpires, ProbeGivesUp
  <2>3. CASE OnReady
    BY <2>3 DEF OnReady, R!Start
  <2>4. CASE Cancelled \/ ServeError \/ ShutdownEnds
    BY <2>4 DEF Cancelled, ServeError, ShutdownEnds
  <2>5. CASE ClosePublisher \/ StopSignals \/ Exit
    BY <2>5 DEF ClosePublisher, StopSignals, Exit
  <2>6. CASE Registrar
    BY <2>6 DEF Registrar, RegistrarGoesOn, RegistrarCancelled, R!Post, R!Accepted,
       R!Refused, R!SendFails, R!WaitEnds, R!WaitCancelled, R!Finish
  <2>7. CASE PublishBegins \/ Watching
    BY <2>7 DEF PublishBegins, Watching, PublishEnds, MonitorStops, MonitorReturns,
       W!PublishBegins, W!PublishEnds, W!MonitorStops, W!MonitorReturns
  <2>8. CASE World
    BY <2>8 DEF World, Signal, W!Cancel, ServeFails, RequestBegins, RequestEnds, StuckEnds,
       KubeTurns
  <2> QED BY <2>1, <2>2, <2>3, <2>4, <2>5, <2>6, <2>7, <2>8 DEF Next, Running
<1> QED BY <1>1, LInit, LStep, PTL DEF Spec, NeverBack
=============================================================================
