---------------------------- MODULE StatusMonitor ----------------------------
(***************************************************************************)
(* The status monitor of internal/monitoring: two informers (Deployments   *)
(* and Pods) each keep a cache of the cluster and notify handlers, the     *)
(* handlers reconcile a Deployment and a Pod into a status and submit it   *)
(* to the debouncer (module Debouncer), whose callbacks publish it to NATS *)
(* with retries.                                                           *)
(*                                                                         *)
(* The informers (client-go) are modelled as the monitor uses them: a      *)
(* watch delivers the changes of its kind in order and at its own pace; a  *)
(* change enters the cache before its handler runs; each informer runs its *)
(* handlers one at a time on a goroutine of its own, so the two kinds of   *)
(* handlers interleave, with each other and with both caches; a resync     *)
(* repeats every cached object as an update; a broken watch is replaced by *)
(* a new list.                                                             *)
(***************************************************************************)
EXTENDS Integers, FiniteSets, Sequences, SequencesExt

CONSTANTS
  Instances,           \* instance IDs
  Pods,                \* the Pods an instance may have at a time
  PodPhases,           \* the phases the Pods go through
  Prompt,              \* do an instance's timers, all of one length, expire in
                       \* order, each after the callback of the one before is
                       \* over (150 ms of backoff in a window of 500 ms)?
  MaxAttempts,         \* maxAttempts of publishWithRetry
  MayStop,             \* may the monitor's context be cancelled?
  MaxChanges,          \* bound: changes in the cluster
  MaxResyncs,          \* bound: resyncs of each informer
  MaxLosses,           \* bound: broken watches and crashes of the provider
  MaxRestarts,         \* bound: the crashes among them
  MaxPublishFailures,  \* bound: Publish calls that return an error
  MaxSubmits           \* bound: events submitted to the debouncer

ASSUME MonitorAssumption ==
  /\ PodPhases \subseteq {"Pending", "Running", "Failed", "Unknown", "Succeeded"}
  /\ {Prompt, MayStop} \subseteq BOOLEAN
  /\ MaxAttempts \in Nat \ {0}
  /\ {MaxChanges, MaxResyncs, MaxLosses, MaxRestarts, MaxPublishFailures} \subseteq Nat
  /\ MaxSubmits \in Nat /\ "none" \notin Instances   \* as in Debouncer
  /\ IsFiniteSet(Instances) /\ IsFiniteSet(Pods)     \* so that a list ends
  /\ "deployment" \notin Pods                         \* objects of distinct kinds

Informers == {"deployments", "pods"}
Deployment == "deployment"

(* Every object is a Deployment or a Pod of an instance.                   *)
Objects == Instances \X ({Deployment} \cup Pods)
Watches(o) == IF o[2] = Deployment THEN "deployments" ELSE "pods"
Watched(inf) == {o \in Objects : Watches(o) = inf}

(* healthy: replicas wanted, no ReplicaFailure condition; failing: scaled  *)
(* to zero, or ReplicaFailure is true.                                     *)
Absent == "absent"
DeploymentStates == {Absent, "healthy", "failing"}
PodStates == {Absent} \cup PodPhases
StatesOf(o) == IF o[2] = Deployment THEN DeploymentStates ELSE PodStates

NoStatus == "none"
Statuses == {NoStatus, "PENDING", "RUNNING", "FAILED", "UNKNOWN", "DELETED"}

VARIABLES
  objs,        \* the cluster: the state of every object
  stream,      \* changes an informer's watch has still to deliver
  cache,       \* the informers' indexers
  notes,       \* notifications whose handler has not run
  listed,      \* the informers whose watch is established
  submitting,  \* the event a handler has computed and not submitted yet
  event,       \* the status carried by each timer's event, until it is done with
  attempts,    \* failed Publish calls of an event being published
  published,   \* the last status published for each instance
  unreported,  \* history: instances whose last event was dropped and that
               \* no resync has repeated since
  tracked,     \* history: instances that have been in a cache of this process
  resynced,    \* history: informers that have resynced since the handlers
               \* were done with the last change
  older,       \* history: informers whose handler holds an event that is older
               \* than one the other has computed for the instance since
  overtaken,   \* history: instances of which an older event was, or is about
               \* to be, submitted after the newest
  ctxDone,     \* the context of Start is cancelled
  shut,        \* Start has returned
  budget,      \* how often the bounded actions have happened
  submits, owner, phase, timers, wg, stopped, stopPC

D == INSTANCE Debouncer

debouncer == <<submits, owner, phase, timers, wg, stopped, stopPC>>
informers == <<stream, cache, notes, listed>>
race      == <<older, overtaken>>
vars == <<objs, informers, submitting, event, attempts, published, unreported,
          tracked, resynced, race, ctxDone, shut, budget, debouncer>>

Spend(what, max) ==
  /\ budget[what] < max
  /\ budget' = [budget EXCEPT ![what] = @ + 1]

MayLose == budget["disconnects"] + budget["restarts"] < MaxLosses

-----------------------------------------------------------------------------
(* ReconcileStatus and what it uses.                                       *)

StatusOfPhase == [Pending |-> "PENDING", Running |-> "RUNNING", Failed |-> "FAILED",
                  Unknown |-> "UNKNOWN", Succeeded |-> NoStatus]

Priority == [Failed |-> 4, Unknown |-> 3, Pending |-> 2, Running |-> 1, Succeeded |-> 0]

(* Mutant of ReconcileStatus: the Pod's phase is passed on unmapped.       *)
ReconcileUnmapped(deploy, pod) ==
  IF pod # Absent THEN pod ELSE IF deploy = Absent THEN "DELETED" ELSE "PENDING"

(* The status of a Deployment and a Pod; NoStatus means do not publish.    *)
ReconcileStatus(deploy, pod) ==
  CASE pod # Absent                      -> StatusOfPhase[pod]
    [] pod = Absent /\ deploy = Absent    -> "DELETED"
    [] pod = Absent /\ deploy = "failing" -> "FAILED"
    [] pod = Absent /\ deploy = "healthy" -> "PENDING"

(* lookupPodByIndex: the phase of the instance's most concerning Pod.      *)
LookupPod(objects, i) ==
  LET phases == {objects[<<i, p>>] : p \in Pods} \ {Absent}
  IN  IF phases = {} THEN Absent
      ELSE CHOOSE f \in phases : \A g \in phases : Priority[f] >= Priority[g]

(* lookupDeployByIndex                                                     *)
LookupDeployment(objects, i) == objects[<<i, Deployment>>]

(* Mutant of Reconciled: a deleted Deployment is reported at once.         *)
ReconciledAtOnce(o, state) ==
  LET i == o[1] IN
  IF o[2] = Deployment
    THEN IF state = Absent THEN "DELETED" ELSE ReconcileStatus(state, LookupPod(cache, i))
    ELSE ReconcileStatus(LookupDeployment(cache, i), state)

(* What the handler of a notification computes: the deployment handlers    *)
(* look the Pod up, the pod add and update handler uses the Pod it is      *)
(* notified of, the pod delete handler looks both up.  It does so one      *)
(* after the other; taking both at once loses nothing, since a Pod decides *)
(* alone and without one the change of the Pod's cache in between has a    *)
(* notification of its own to come.                                        *)
Reconciled(o, state) ==
  LET i == o[1] IN
  IF o[2] = Deployment  THEN ReconcileStatus(state, LookupPod(cache, i))
  ELSE IF state # Absent THEN ReconcileStatus(LookupDeployment(cache, i), state)
  ELSE ReconcileStatus(LookupDeployment(cache, i), LookupPod(cache, i))

(* What the cluster says, with REQ-MON-050's precedence among Pods.        *)
TrueStatus(i) == ReconcileStatus(LookupDeployment(objs, i), LookupPod(objs, i))

(* The status a Get or List shows of an instance, which the store's        *)
(* enrichFromCluster works out apart from the monitor: that of its only    *)
(* Pod, and PENDING without one; several Pods are a conflict (a rolling    *)
(* update, which shows one of two, is left out).  The mutant shows UNKNOWN *)
(* without a Pod.                                                          *)
ShownOfPod(i) ==
  LET present == {p \in Pods : objs[<<i, p>>] # Absent}
  IN  IF Cardinality(present) = 1 THEN StatusOfPhase[LookupPod(objs, i)] ELSE "UNKNOWN"

ShownStatus(i) ==
  LET present == {p \in Pods : objs[<<i, p>>] # Absent}
  IN CASE present = {}              -> "PENDING"
       [] Cardinality(present) = 1  -> StatusOfPhase[LookupPod(objs, i)]
       [] Cardinality(present) > 1  -> "conflict"

-----------------------------------------------------------------------------
Empty   == [inf \in Informers |-> <<>>]
Unfired == [t \in D!Timer |-> NoStatus]

(* The monitor starts on a cluster that has some instances already.        *)
Init ==
  /\ objs \in {f \in [Objects -> {Absent, "healthy"} \cup PodPhases] :
                 \A o \in Objects :
                   /\ f[o] \in StatesOf(o)
                   /\ f[o] # Absent => f[<<o[1], Deployment>>] # Absent}
  /\ stream = Empty /\ notes = Empty /\ submitting = Empty
  /\ cache = [o \in Objects |-> Absent] /\ listed = {}
  /\ event = Unfired /\ attempts = [t \in D!Timer |-> 0]
  /\ published = [i \in Instances |-> NoStatus]
  /\ unreported = {} /\ tracked = {} /\ resynced = {}
  /\ older = {} /\ overtaken = {}
  /\ ctxDone = FALSE /\ shut = FALSE
  /\ budget = [changes |-> 0, deployments |-> 0, pods |-> 0,
               disconnects |-> 0, restarts |-> 0, failures |-> 0]
  /\ D!Init

(* The provider crashes, in whatever step, and is started again: nothing   *)
(* survives but the cluster and what subscribers have been told.           *)
Restart ==
  /\ Spend("restarts", MaxRestarts)
  /\ MayLose
  /\ stream' = Empty /\ notes' = Empty /\ submitting' = Empty
  /\ cache' = [o \in Objects |-> Absent] /\ listed' = {}
  /\ event' = Unfired /\ attempts' = [t \in D!Timer |-> 0]
  /\ unreported' = {} /\ tracked' = {} /\ resynced' = {}
  /\ older' = {} /\ overtaken' = {}
  /\ ctxDone' = FALSE /\ shut' = FALSE
  /\ submits' = 0 /\ wg' = 0 /\ stopped' = FALSE /\ stopPC' = "running"
  /\ owner' = [t \in D!Timer |-> D!NoOwner]
  /\ phase' = [t \in D!Timer |-> "unused"]
  /\ timers' = [i \in Instances |-> D!NoTimer]
  /\ UNCHANGED <<objs, published>>

(* The cluster changes an object; a Pod appears only under a Deployment.   *)
ClusterChanges(o, state) ==
  /\ Spend("changes", MaxChanges)
  /\ state # objs[o]
  /\ objs[o] = Absent =>
       IF o[2] = Deployment THEN state = "healthy"
       ELSE state = "Pending" /\ objs[<<o[1], Deployment>>] # Absent
  /\ objs' = [objs EXCEPT ![o] = state]
  /\ stream' = IF Watches(o) \in listed
                 THEN [stream EXCEPT ![Watches(o)] = Append(@, <<o, state>>)]
                 ELSE stream
  /\ resynced' = {}
  /\ UNCHANGED <<cache, notes, listed, submitting, event, attempts, published,
                 unreported, tracked, race, ctxDone, shut, debouncer>>

-----------------------------------------------------------------------------
(* The informers.                                                          *)

(* The watch delivers its next change: the cache is updated and the        *)
(* handler's notification queued.                                          *)
Deliver(inf) ==
  /\ stream[inf] # <<>>
  /\ LET change == Head(stream[inf]) IN
       /\ cache' = [cache EXCEPT ![change[1]] = change[2]]
       /\ notes' = [notes EXCEPT ![inf] = Append(@, change)]
       /\ tracked' = tracked \cup {change[1][1]}
  /\ stream' = [stream EXCEPT ![inf] = Tail(@)]
  /\ UNCHANGED <<objs, listed, submitting, event, attempts, published, unreported,
                 resynced, race, ctxDone, shut, budget, debouncer>>

(* The first list, and the one after a broken watch: the cache is replaced,*)
(* every object listed is notified, then every one that has disappeared.   *)
List(inf) ==
  /\ inf \notin listed /\ ~ctxDone
  /\ LET present == {o \in Watched(inf) : objs[o] # Absent}
         gone    == {o \in Watched(inf) : objs[o] = Absent /\ cache[o] # Absent}
         note(o) == <<o, objs[o]>>
     IN  /\ notes' = [notes EXCEPT ![inf] =
              @ \o SetToSeq({note(o) : o \in present}) \o SetToSeq({note(o) : o \in gone})]
         /\ tracked' = tracked \cup {o[1] : o \in present}
  /\ cache' = [o \in Objects |-> IF o \in Watched(inf) THEN objs[o] ELSE cache[o]]
  /\ listed' = listed \cup {inf}
  /\ UNCHANGED <<objs, stream, submitting, event, attempts, published, unreported,
                 resynced, race, ctxDone, shut, budget, debouncer>>

(* The watch breaks and what it had not delivered is lost.                 *)
Disconnect(inf) ==
  /\ inf \in listed
  /\ Spend("disconnects", MaxLosses)
  /\ MayLose
  /\ listed' = listed \ {inf}
  /\ stream' = [stream EXCEPT ![inf] = <<>>]
  /\ UNCHANGED <<objs, cache, notes, submitting, event, attempts, published, unreported, tracked,
                 resynced, race, ctxDone, shut, debouncer>>

(* Every change has been delivered and handled.                            *)
Delivered ==
  /\ listed = Informers
  /\ \A inf \in Informers :
       stream[inf] = <<>> /\ notes[inf] = <<>> /\ submitting[inf] = <<>>

(* Mutant of Resync: with a resync period of 0 nothing is notified.        *)
ResyncNothing(inf) ==
  /\ inf \in listed /\ ~ctxDone
  /\ Spend(inf, MaxResyncs)
  /\ resynced' = IF resynced # {} \/ Delivered THEN resynced \cup {inf} ELSE resynced
  /\ UNCHANGED <<objs, stream, cache, notes, listed, submitting, event, attempts,
                 published, unreported, tracked, race, ctxDone, shut, debouncer>>

(* The resync period ends: an update of every cached object is notified.   *)
Resync(inf) ==
  /\ inf \in listed /\ ~ctxDone
  /\ Spend(inf, MaxResyncs)
  /\ LET cached == {o \in Watched(inf) : cache[o] # Absent} IN
       /\ notes' = [notes EXCEPT ![inf] = @ \o SetToSeq({<<o, cache[o]>> : o \in cached})]
       /\ unreported' = unreported \ {o[1] : o \in cached}
  /\ resynced' = IF resynced # {} \/ Delivered THEN resynced \cup {inf} ELSE resynced
  /\ UNCHANGED <<objs, stream, cache, listed, submitting, event, attempts, published,
                 tracked, race, ctxDone, shut, debouncer>>

-----------------------------------------------------------------------------
(* The handlers.                                                           *)

(* The informers whose handler holds an event of an instance.              *)
Holders(i) == {inf \in Informers : submitting[inf] # <<>> /\ submitting[inf][1] = i}

(* A handler looks up what it needs and reconciles it.  An event that the  *)
(* other handler holds for the instance is the older one from now on (what *)
(* is submitted during the shutdown is not followed).                      *)
HandlerReads(inf) ==
  /\ notes[inf] # <<>> /\ ~shut
  /\ submitting[inf] = <<>>
  /\ LET note == Head(notes[inf])
         i == note[1][1]
         status == Reconciled(note[1], note[2])
     IN  IF status = NoStatus THEN UNCHANGED <<submitting, race>>
         ELSE /\ submitting' = [submitting EXCEPT ![inf] = <<i, status>>]
              /\ older' = IF ctxDone THEN older ELSE older \cup Holders(i)
              /\ UNCHANGED overtaken
  /\ notes' = [notes EXCEPT ![inf] = Tail(@)]
  /\ UNCHANGED <<objs, stream, cache, listed, event, attempts, published, unreported, tracked,
                 resynced, ctxDone, shut, budget, debouncer>>

(* It submits the event, which a stopped debouncer ignores.  No lock spans *)
(* the lookup and Submit: the older of two events may be submitted last,   *)
(* and stands until the next event of the instance.                        *)
HandlerSubmits(inf) ==
  /\ submitting[inf] # <<>>
  /\ submitting' = [submitting EXCEPT ![inf] = <<>>]
  /\ \/ /\ \E i \in Instances : submitting[inf][1] = i /\ D!Submit(i)
        /\ event' = [t \in D!Timer |-> IF t = submits + 1 THEN submitting[inf][2]
                                      ELSE IF phase'[t] = "halted" THEN NoStatus
                                      ELSE event[t]]
     \/ stopped /\ UNCHANGED <<event, debouncer>>
  /\ older' = older \ {inf}
  /\ LET i == submitting[inf][1] IN
       overtaken' = IF inf \in older THEN overtaken
                    ELSE IF Holders(i) \cap older # {} THEN overtaken \cup {i}
                    ELSE overtaken \ {i}
  /\ UNCHANGED <<objs, informers, attempts, published, unreported, tracked, resynced, ctxDone,
                 shut, budget>>

-----------------------------------------------------------------------------
(* The debouncer's timers and callbacks.                                   *)

NotOurs == <<objs, informers, submitting, tracked, resynced, race, ctxDone, shut>>

TimerExpires(t) ==
  /\ D!Expire(t)
  /\ Prompt => \A u \in 1 .. t - 1 :
       owner[u] = owner[t] => phase[u] \notin {"armed", "fired", "publishing"}
  /\ UNCHANGED <<NotOurs, event, attempts, published, unreported, budget>>

CallbackRuns(t) ==
  /\ D!Callback(t)
  /\ UNCHANGED <<NotOurs, event, attempts, published, unreported, budget>>

(* publishWithRetry returns; the event and the attempt count are gone.     *)
PublishEnds(t) ==
  /\ D!PublishReturns(t)
  /\ event' = [event EXCEPT ![t] = NoStatus]
  /\ attempts' = [attempts EXCEPT ![t] = 0]

(* An attempt that succeeds.                                               *)
PublishSucceeds(t) ==
  /\ PublishEnds(t)
  /\ published' = [published EXCEPT ![owner[t]] = event[t]]
  /\ unreported' = unreported \ {owner[t]}
  /\ UNCHANGED <<NotOurs, budget>>

(* An attempt that fails: after the last one the event is dropped, before  *)
(* it the backoff elapses and the loop goes on.                            *)
PublishFails(t) ==
  /\ phase[t] = "publishing"
  /\ Spend("failures", MaxPublishFailures)
  /\ \/ /\ attempts[t] + 1 = MaxAttempts
        /\ PublishEnds(t)
        /\ unreported' = unreported \cup {owner[t]}
     \/ /\ attempts[t] + 1 < MaxAttempts
        /\ attempts' = [attempts EXCEPT ![t] = @ + 1]
        /\ UNCHANGED <<event, unreported, debouncer>>
  /\ UNCHANGED <<NotOurs, published>>

(* The backoff is cut short by the cancelled context.                      *)
PublishAborts(t) ==
  /\ ctxDone /\ attempts[t] > 0
  /\ PublishEnds(t)
  /\ UNCHANGED <<NotOurs, published, unreported, budget>>

-----------------------------------------------------------------------------
(* Start returns after its context is cancelled: first debouncer.Stop,     *)
(* then factory.Shutdown, which waits for the handlers.                    *)
Cancel ==
  /\ MayStop /\ ~ctxDone
  /\ ctxDone' = TRUE
  /\ older' = {} /\ overtaken' = {}
  /\ UNCHANGED <<objs, informers, submitting, event, attempts, published, unreported, tracked,
                 resynced, shut, budget, debouncer>>

StopDebouncer ==
  /\ ctxDone
  /\ D!StopLocked \/ D!StopReturns
  /\ UNCHANGED <<NotOurs, event, attempts, published, unreported, budget>>

Shutdown ==
  /\ stopPC = "returned" /\ ~shut
  /\ \A inf \in Informers : submitting[inf] = <<>>
  /\ shut' = TRUE
  /\ UNCHANGED <<objs, informers, submitting, event, attempts, published, unreported, tracked,
                 resynced, race, ctxDone, budget, debouncer>>

-----------------------------------------------------------------------------
Informer(inf) == Deliver(inf) \/ List(inf)
Handler(inf)  == HandlerReads(inf) \/ HandlerSubmits(inf)
Publish(t)    == PublishSucceeds(t) \/ PublishFails(t) \/ PublishAborts(t)
Stop          == StopDebouncer \/ Shutdown

(* What the provider, its runtime and its informers do by themselves.      *)
System ==
  \/ \E inf \in Informers : Informer(inf) \/ Handler(inf)
  \/ \E t \in D!Timer : TimerExpires(t) \/ CallbackRuns(t) \/ Publish(t)
  \/ Stop

Next ==
  \/ \E o \in Objects : \E state \in StatesOf(o) : ClusterChanges(o, state)
  \/ \E inf \in Informers : Disconnect(inf) \/ Resync(inf)
  \/ Cancel \/ Restart
  \/ System

(***************************************************************************)
(* Watches deliver, goroutines run, timers expire, publishing ends.  The   *)
(* cluster, the resync ticker, the network and the caller do as they like. *)
(* One condition for all of System is enough, since the bounds make every  *)
(* behaviour finite: it rules out only that everything stops at once.      *)
(***************************************************************************)
Fairness == WF_vars(System)

Spec == Init /\ [][Next]_vars
FairSpec == Spec /\ Fairness

-----------------------------------------------------------------------------
TypeOK ==
  /\ DOMAIN objs = Objects /\ DOMAIN cache = Objects
  /\ \A o \in Objects : objs[o] \in StatesOf(o) /\ cache[o] \in StatesOf(o)
  /\ \A inf \in Informers : \A k \in 1 .. Len(notes[inf]) : notes[inf][k][1] \in Watched(inf)
  /\ listed \subseteq Informers /\ resynced \subseteq Informers
  /\ event \in [D!Timer -> Statuses]
  /\ attempts \in [D!Timer -> 0 .. MaxAttempts]
  /\ published \in [Instances -> Statuses]
  /\ tracked \subseteq Instances /\ unreported \subseteq Instances
  /\ older \subseteq Informers /\ overtaken \subseteq Instances
  /\ D!TypeOK

(* What was published last agrees with the cluster (a Succeeded Pod has no *)
(* status to publish).                                                     *)
Agrees(i) == TrueStatus(i) \in {NoStatus, published[i]}

(* Nothing is on its way, and no timer is pending either.                  *)
Settled ==
  /\ Delivered /\ ~ctxDone
  /\ \A t \in D!Timer : phase[t] \notin {"armed", "fired", "publishing"}

Exists(i) == \E o \in Objects : o[1] = i /\ objs[o] # Absent

(* The instances whose newest event is the last one submitted, and was not *)
(* dropped after its last retry.                                           *)
UpToDate == tracked \ (unreported \cup overtaken)

(* Once the cluster is quiet, the last status published for an instance    *)
(* the monitor has seen is, and stays, the one REQ-MON-050 to 070 ask for, *)
(* DELETED included.  The exceptions are the two ways a newest event is    *)
(* lost: it was dropped after its last retry, or the handler of one        *)
(* informer computed an older event and submitted it after the newest,     *)
(* which the other informer's handler had computed and submitted meanwhile *)
(* (no resync repairs that for a DELETED, see DeletedWhenGone).  It is     *)
(* assumed that an instance's timers expire in order, each after the       *)
(* callback of the one before (Prompt).                                    *)
Converges ==
  <>[](\A i \in UpToDate : Agrees(i) \/ ctxDone)

(* Clients who poll and subscribers who listen are told the same, although *)
(* two parts of the program work the status out: once nothing is on its    *)
(* way, what a read shows of an instance is what was published last.  The  *)
(* exceptions are those of Converges, a status that is not published,      *)
(* several Pods, and a Deployment that fails before it has a Pod, which    *)
(* only the monitor reports (REQ-MON-060 and REQ-K8S-240 differ).  Prompt  *)
(* is assumed here too.                                                    *)
ShownAsPublished ==
  Settled =>
    \A i \in UpToDate :
      LET deploy == LookupDeployment(objs, i)
      IN  /\ deploy # Absent
          /\ deploy = "failing" => LookupPod(objs, i) # Absent
          => ShownStatus(i) \in {NoStatus, "conflict", published[i]}

(* A resync repairs the status of every instance that still exists, when   *)
(* an event was dropped after its last retry, and even when handlers       *)
(* interleave between lookup and Submit so that an older status has        *)
(* replaced a newer one.  Only when the repeated event is dropped as well  *)
(* does it not.                                                            *)
ResyncRepairs ==
  resynced = Informers /\ Settled =>
    \A i \in tracked \ unreported : Exists(i) => Agrees(i)

(* Once Start has returned no goroutine of the monitor publishes, retries  *)
(* or submits (main closes the publisher next), ...                        *)
QuietAfterShutdown ==
  shut => D!Publishing = {} /\ \A inf \in Informers : submitting[inf] = <<>>

(* ... the monitor keeps to what module Lifecycle assumes of it, ...       *)
Stage     == IF shut THEN "returned" ELSE IF stopped THEN "stopping" ELSE "running"
UnderWay  == D!Publishing # {}
Watching  == INSTANCE Watcher WITH monitor <- Stage, publishing <- UnderWay

ImplementsWatcher == Watching!Spec

(* ... and it does return after its context is cancelled, whatever is      *)
(* being retried or reconciled then.                                       *)
ShutdownCompletes == ctxDone ~> shut

(* "When neither Deployment nor Pod exists for a previously tracked        *)
(* instance, the status MUST be DELETED" (REQ-MON-070).                    *)
DeletedWhenGone ==
  Settled => \A i \in tracked \ unreported : ~Exists(i) => published[i] = "DELETED"

=============================================================================
