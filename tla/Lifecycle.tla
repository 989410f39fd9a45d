------------------------------ MODULE Lifecycle ------------------------------
(***************************************************************************)
(* The process: main's run, Server.Run with its readiness probe, the       *)
(* registrar (module Registration) and the monitor's goroutine, from the   *)
(* start of the listener to the exit.                                      *)
(*                                                                         *)
(* Run probes its own health endpoint, whose handler asks Kubernetes, and  *)
(* calls onReady after the first 200.  onReady starts the registrar and    *)
(* the monitor, for which nothing waits later.  The monitor is abstracted  *)
(* to module Watcher, which module StatusMonitor implements.               *)
(***************************************************************************)
EXTENDS Integers

CONSTANTS
  InitialBackoff, MaxBackoff, MaxFailures,   \* as in Registration
  MaxRequests,      \* bound: client requests being served at a time
  MaxKubeChanges,   \* bound: changes of how Kubernetes answers
  MaxStuck          \* bound: health handlers that wait for Kubernetes

ASSUME LifecycleAssumption ==
  /\ {MaxRequests, MaxKubeChanges, MaxStuck, MaxFailures} \subseteq Nat
  /\ InitialBackoff \in Nat \ {0} /\ MaxBackoff \in Nat /\ InitialBackoff <= MaxBackoff

(* up: answers; down: answers with an error or refuses; hangs: does not    *)
(* answer within the second that the probe's client waits.                 *)
KubeStates == {"up", "down", "hangs"}

(***************************************************************************)
(* probing   in waitForReady                                               *)
(* ready     a probe has been answered 200                                 *)
(* serving   in the select at the end of Run                               *)
(* shutdown  in srv.Shutdown                                               *)
(* returned  Run has returned; main's deferred calls follow                *)
(* closed    publisher.Close has run                                       *)
(* stopped   stop has run, which cancels the context                       *)
(* exited    the process is gone                                           *)
(***************************************************************************)
Phases == {"probing", "ready", "serving", "shutdown", "returned", "closed",
           "stopped", "exited"}

VARIABLES
  main,        \* where main's goroutine is
  ctxDone,     \* the context of signal.NotifyContext is cancelled
  serve,       \* srv.Serve: serving, failed, closed
  probe,       \* the readiness probe: none, sent, failed
  deadline,    \* readinessProbeTimeout is over
  requests,    \* client requests being served
  stuck,       \* health handlers whose client is gone
  kube,        \* how Kubernetes answers
  kubeChanges, \* how often that has changed
  hung,        \* history: Kubernetes has hung
  monitor,     \* off, running, stopping, returned
  publishing,  \* the monitor is in publishWithRetry
  loop, outcome, backoff, registered, failures

R == INSTANCE Registration
W == INSTANCE Watcher

registrar == <<loop, outcome, backoff, registered, failures>>
cluster   == <<kube, kubeChanges, hung>>
server    == <<serve, requests, stuck>>
prober    == <<probe, deadline>>
watcher   == <<monitor, publishing>>
vars == <<main, ctxDone, server, prober, cluster, watcher, registrar>>

Init ==
  /\ main = "probing" /\ ctxDone = FALSE
  /\ serve = "serving" /\ requests = 0 /\ stuck = 0
  /\ probe = "none" /\ deadline = FALSE
  /\ kube \in KubeStates /\ kubeChanges = 0 /\ hung = (kube = "hangs")
  /\ monitor = "off" /\ publishing = FALSE
  /\ R!Init

Alive == main # "exited"

-----------------------------------------------------------------------------
(* The readiness probe.                                                    *)

ProbeSent ==
  /\ main = "probing" /\ probe = "none"
  /\ probe' = "sent"
  /\ UNCHANGED <<main, ctxDone, server, deadline, cluster, watcher, registrar>>

(* Mutant of ProbeAnswered: an unhealthy provider is not answered 200.     *)
ProbeAnsweredHealthy ==
  /\ main = "probing" /\ probe = "sent"
  /\ serve = "serving" /\ kube = "up"
  /\ main' = "ready"
  /\ UNCHANGED <<ctxDone, server, prober, cluster, watcher, registrar>>

(* The health handler answers 200, also when Kubernetes is unreachable and *)
(* the body says unhealthy.                                                *)
ProbeAnswered ==
  /\ main = "probing" /\ probe = "sent"
  /\ serve = "serving" /\ kube # "hangs"
  /\ main' = "ready"
  /\ UNCHANGED <<ctxDone, server, prober, cluster, watcher, registrar>>

(* The probe's client gives up: nobody listens, its context is cancelled,  *)
(* or its second is over, while the handler still waits for Kubernetes.    *)
ProbeFails ==
  /\ main = "probing" /\ probe = "sent"
  /\ serve = "failed" \/ ctxDone \/ kube = "hangs"
  /\ probe' = "failed"
  /\ stuck' = IF serve = "serving" /\ kube = "hangs" /\ stuck < MaxStuck
                THEN stuck + 1 ELSE stuck
  /\ UNCHANGED <<main, ctxDone, serve, requests, deadline, cluster, watcher, registrar>>

(* The select of waitForReady: the ticker, ...                             *)
ProbeAgain ==
  /\ main = "probing" /\ probe = "failed"
  /\ probe' = "none"
  /\ UNCHANGED <<main, ctxDone, server, deadline, cluster, watcher, registrar>>

DeadlineExpires ==
  /\ main = "probing" /\ ~deadline
  /\ deadline' = TRUE
  /\ UNCHANGED <<main, ctxDone, server, probe, cluster, watcher, registrar>>

(* ... the context or the deadline, after which Run skips onReady.         *)
ProbeGivesUp ==
  /\ main = "probing" /\ probe = "failed"
  /\ ctxDone \/ deadline
  /\ main' = "serving"
  /\ UNCHANGED <<ctxDone, server, prober, cluster, watcher, registrar>>

(* onReady: registrar.Start and the goroutine of monitor.Start.            *)
OnReady ==
  /\ main = "ready"
  /\ main' = "serving"
  /\ R!Start
  /\ monitor' = "running"
  /\ UNCHANGED <<ctxDone, server, prober, cluster, publishing>>

-----------------------------------------------------------------------------
(* The rest of Run and of main.                                            *)

(* The select: the context; Shutdown closes the listener and waits.        *)
Cancelled ==
  /\ main = "serving" /\ ctxDone
  /\ main' = "shutdown"
  /\ serve' = IF serve = "serving" THEN "closed" ELSE serve
  /\ UNCHANGED <<ctxDone, requests, stuck, prober, cluster, watcher, registrar>>

(* ... or the error of Serve, with which Run returns at once.              *)
ServeError ==
  /\ main = "serving" /\ serve = "failed"
  /\ main' = "returned"
  /\ UNCHANGED <<ctxDone, server, prober, cluster, watcher, registrar>>

(* Mutant of ShutdownEnds: without a timeout.                              *)
ShutdownDrains ==
  /\ main = "shutdown"
  /\ requests + stuck = 0
  /\ main' = "returned"
  /\ UNCHANGED <<ctxDone, server, prober, cluster, watcher, registrar>>

(* Shutdown returns when every handler has, or after ShutdownTimeout.      *)
ShutdownEnds ==
  /\ main = "shutdown"
  /\ main' = "returned"
  /\ UNCHANGED <<ctxDone, server, prober, cluster, watcher, registrar>>

(* main's deferred calls, last one first.                                  *)
ClosePublisher ==
  /\ main = "returned"
  /\ main' = "closed"
  /\ UNCHANGED <<ctxDone, server, prober, cluster, watcher, registrar>>

StopSignals ==
  /\ main = "closed"
  /\ main' = "stopped"
  /\ ctxDone' = TRUE
  /\ UNCHANGED <<server, prober, cluster, watcher, registrar>>

Exit ==
  /\ main = "stopped"
  /\ main' = "exited"
  /\ UNCHANGED <<ctxDone, server, prober, cluster, watcher, registrar>>

-----------------------------------------------------------------------------
(* The goroutines onReady has started.                                     *)

RegistrarGoesOn ==
  /\ Alive
  /\ R!Post \/ R!WaitEnds
  /\ UNCHANGED <<main, ctxDone, server, prober, cluster, watcher>>

RegistrarCancelled ==
  /\ Alive
  /\ R!WaitCancelled
  /\ UNCHANGED <<main, ctxDone, server, prober, cluster, watcher>>

Registrar == RegistrarGoesOn \/ RegistrarCancelled

PublishBegins ==
  /\ Alive /\ W!PublishBegins
  /\ UNCHANGED <<main, server, prober, cluster, registrar>>

PublishEnds ==
  /\ Alive /\ W!PublishEnds
  /\ UNCHANGED <<main, server, prober, cluster, registrar>>

MonitorStops ==
  /\ Alive /\ W!MonitorStops
  /\ UNCHANGED <<main, server, prober, cluster, registrar>>

MonitorReturns ==
  /\ Alive /\ W!MonitorReturns
  /\ UNCHANGED <<main, server, prober, cluster, registrar>>

-----------------------------------------------------------------------------
(* What happens to the process.                                            *)

Signal ==
  /\ Alive /\ W!Cancel
  /\ UNCHANGED <<main, server, prober, cluster, registrar>>

ServeFails ==
  /\ Alive /\ serve = "serving"
  /\ serve' = "failed"
  /\ UNCHANGED <<main, ctxDone, requests, stuck, prober, cluster, watcher, registrar>>

RequestBegins ==
  /\ Alive /\ serve = "serving" /\ requests < MaxRequests
  /\ requests' = requests + 1
  /\ UNCHANGED <<main, ctxDone, serve, stuck, prober, cluster, watcher, registrar>>

RequestEnds ==
  /\ Alive /\ requests > 0
  /\ requests' = requests - 1
  /\ UNCHANGED <<main, ctxDone, serve, stuck, prober, cluster, watcher, registrar>>

StuckEnds ==
  /\ Alive /\ stuck > 0 /\ kube # "hangs"
  /\ stuck' = stuck - 1
  /\ UNCHANGED <<main, ctxDone, serve, requests, prober, cluster, watcher, registrar>>

KubeTurns ==
  /\ Alive /\ kubeChanges < MaxKubeChanges
  /\ kube' \in KubeStates \ {kube}
  /\ kubeChanges' = kubeChanges + 1
  /\ hung' = (hung \/ kube' = "hangs")
  /\ UNCHANGED <<main, ctxDone, server, prober, watcher, registrar>>

Probing  == ProbeSent \/ ProbeAnswered \/ ProbeFails \/ ProbeAgain
Running  == OnReady \/ Cancelled \/ ServeError \/ ShutdownEnds
            \/ ClosePublisher \/ StopSignals \/ Exit
Watching == PublishEnds \/ MonitorStops \/ MonitorReturns
World    == Signal \/ ServeFails \/ RequestBegins \/ RequestEnds \/ StuckEnds \/ KubeTurns

Next ==
  \/ Probing \/ DeadlineExpires \/ ProbeGivesUp \/ Running
  \/ Registrar \/ PublishBegins \/ Watching \/ World

(***************************************************************************)
(* Goroutines run and timers fire.  Go's select chooses at random among    *)
(* what is ready, so neither waitForReady nor the registrar's loop can     *)
(* prefer the ticker or the timer to the context for ever (SF).  No client *)
(* request need end, Kubernetes need not answer again, and nobody need     *)
(* send a signal.                                                          *)
(***************************************************************************)
Fairness ==
  /\ WF_vars(Probing) /\ WF_vars(DeadlineExpires) /\ SF_vars(ProbeGivesUp)
  /\ WF_vars(Running) /\ WF_vars(Watching)
  /\ WF_vars(Registrar) /\ SF_vars(RegistrarCancelled)

Spec == Init /\ [][Next]_vars
FairSpec == Spec /\ Fairness

-----------------------------------------------------------------------------
TypeOK ==
  /\ main \in Phases /\ ctxDone \in BOOLEAN
  /\ serve \in {"serving", "failed", "closed"}
  /\ requests \in 0 .. MaxRequests /\ stuck \in 0 .. MaxStuck
  /\ probe \in {"none", "sent", "failed"} /\ deadline \in BOOLEAN
  /\ kube \in KubeStates /\ kubeChanges \in 0 .. MaxKubeChanges /\ hung \in BOOLEAN
  /\ monitor \in {"off", "running", "stopping", "returned"} /\ publishing \in BOOLEAN
  /\ R!RegTypeOK

(* Registration and monitoring start, although readiness is asked of a     *)
(* health endpoint that depends on Kubernetes, unless Kubernetes hangs:    *)
(* that it is down does not matter.                                        *)
StartsWhenReady ==
  <>(monitor # "off" \/ ctxDone \/ serve = "failed" \/ hung)

(* A registration once started ends with an outcome, or the process does:  *)
(* no failure, lost response or cancellation leaves it without one.        *)
RegistrationSettles ==
  loop = "sending" ~> outcome # "none" \/ main = "exited"

(* A signal ends the process, whatever is probing, being served, stuck or  *)
(* being registered (TC-I079: it does not hang), and so does the failure   *)
(* of the listener, also while the readiness probe still tries to reach it.*)
ProcessEnds == ctxDone \/ serve = "failed" ~> main = "exited"

(* Resource watchers are stopped during the graceful shutdown (AC-MON-130):*)
(* when main, having shut the server down, closes the NATS connection, the *)
(* monitor has returned.                                                   *)
WatchersStopped ==
  serve = "closed" /\ main \in {"closed", "stopped", "exited"} =>
    monitor \in {"off", "returned"}
=============================================================================
