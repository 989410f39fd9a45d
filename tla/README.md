# Verification of the DCM Kubernetes container service provider

TLA+ modules, TLC configurations and TLAPS proofs for the container service
provider in `src/`: an HTTP service that keeps *containers* as Kubernetes
Deployments and Services, watches them with informers, and publishes their
status to NATS.

Run a model with `tlc -workers 2 -config X.cfg M` and check a proof with
`tlapm M.tla`; `PROJECT.json` lists which configuration belongs to which module,
which source lines every definition stands for, and the mutations each property
is known to catch.

## 1. Inventory

| Component | State | Operations | Talks to |
|---|---|---|---|
| Container handlers (`internal/handlers/container`) | none | Create, Get, List, Delete, GetHealth; validation; error mapping | one goroutine per request, calls the store |
| Container store (`internal/kubernetes/store*.go`) | none of its own: Deployments, Services and Pods in the cluster, found by the label `dcm.project/dcm-instance-id` | Create (check, Deployment, Service, rollback), Get, List, Delete, CheckHealth | several Kubernetes calls per request, no lock and no transaction |
| Conversion (`convert.go`, `units`) | none | container to Deployment and Service and back | used by the store |
| Status monitor (`internal/monitoring/monitor.go`) | two informer caches (client-go) | event handlers, reconciliation, publication with retries, Start | watches the cluster; submits to the debouncer; publishes |
| Debouncer (`debouncer.go`) | timers by instance, wait group, stopped flag | Submit, timer callback, Stop | called by two informer goroutines, calls back the monitor |
| Publisher (`publisher.go`, `event.go`) | NATS connection | Publish, Close | NATS client buffers while disconnected |
| Registration (`internal/registration`) | once, done channel, backoff | Start, run, register | HTTP POST to the DCM registry |
| HTTP server (`internal/apiserver`) | listener, onReady callback | middleware, readiness probe, Run, shutdown | probes its own health endpoint, starts registration and monitor |
| `main` | signal context | wiring, deferred Close | everything |
| Configuration, generated API code, helpers | none | | |

How they interact: a client's request and the monitor never share memory. The
store changes the cluster; the informers see the change later, each kind of
object on a stream and a goroutine of its own; the handlers read both caches and
submit a status; a timer publishes it. `Run` probes `GetHealth` (which asks
Kubernetes) until it answers and then starts registration and monitor once.

### What is hard here

* **Requests interleave between Kubernetes calls** and nothing in the cluster
  enforces that an ID is unique: objects have generated names.
* **Partial failure**: a call in the middle fails, or takes effect and loses its
  response; the process dies between two calls; the rollback fails as well.
* **Two caches and two handler goroutines**: a lookup is stale by the time its
  result is submitted.
* **A timer that has expired cannot be stopped** any more; its callback competes
  for the lock with Submit and Stop.
* **Retries** run outside the lock while newer events arrive and while Stop waits.
* **Readiness, shutdown and registration** are loops with timeouts that race.

### What makes each component correct

* *Store*: requests are linearizable (every answer is one that an atomic registry
  of IDs could give, at a moment between call and answer); no two containers with
  one ID; no Service without its container; a container answered 201 is complete;
  an ID answered 204 is gone, leftovers of earlier failures included; every answer
  has a status the API documents.
* *Debouncer*: no publication after Stop; at most one tracked timer per instance,
  the newest; the last event of an instance is not lost; every publication and
  Stop come to an end.
* *Monitor*: when the cluster is quiet the last status published is the right
  one, whatever was lost on the way, a crash included, and it is the one a read
  shows, unless an older event has overtaken it; shutdown ends and is quiet.
* *Registration*: it ends on success, 4xx or cancellation and on nothing else; the
  wait between posts stays within its maximum.
* *Server lifecycle*: registration and monitoring start although readiness depends
  on Kubernetes; a signal or a failing listener ends the process whatever hangs;
  nothing uses the NATS connection after main closed it.
* *Paging*: a listing misses or repeats a container only because of deletes or
  creates, one for each, although answers are lost and asked for again; it ends.
* *Conversion*: a read shows the ports and the memory as the create asked for them,
  as far as one Service per container and Kubernetes' quantities can tell.
* *Middleware*: every request is answered once, whatever panics or breaks on the
  way, and logged with the status that was sent.

## 2. Modules

| Module | Models | Proofs |
|---|---|---|
| `Debouncer` | `debouncer.go` | `DebouncerProofs` |
| `Watcher` | abstract: what the process relies on of the monitor's goroutine | |
| `StatusMonitor` (instantiates `Debouncer`, refines `Watcher`) | `monitor.go`, `reconcile.go`, `indexer.go`, `publisher.go`, informers as used, the status a read shows | `StatusMonitorProofs` |
| `ContainerRegistry` | abstract: the set of IDs, changed atomically | |
| `ContainerStore` (refines `ContainerRegistry`) | `store*.go` under the handlers | `ContainerStoreProofs`, `ContainerStoreObjects`, `ContainerStoreDeletes`, `ContainerStoreRefinement` |
| `MCContainerStore` | the store's symmetry for TLC | |
| `Registration` | `registration.go` | `LifecycleProofs` |
| `Lifecycle` (instantiates `Registration` and `Watcher`) | `main.go`, `Run` and `waitForReady` of `server.go`, `GetHealth` | `LifecycleProofs` |
| `Conversion` | ports, visibility and memory in `convert.go`, `units`, `store_create.go`, as operators | `ListPagingProofs` |
| `Requests` | the layers of `apiserver/server.go` and of the generated server, the client's reading of an answer, as operators | `ListPagingProofs` |
| `ListPaging` (extends `Conversion` and `Requests`) | `store_list.go`, with every answer through the layers | `ListPagingProofs` |
| `MCListPaging` | the ports and memory asked for in TLC's run | |

**Debouncer.** One action per mutex section; `Expire` is the runtime starting a
callback's goroutine, which reaches the lock at any later time. Timers have the
number of their Submit call. `timers`, `wg` and `stopped` are the struct's
fields, `phase` is where each timer is in its life. Instances and the number of Submit calls are parameters.

**ContainerStore.** One action is one Kubernetes call with what the code does up
to the next one; `pc` is the call a request is about to make and each disjunct of
an action an outcome: it works, it fails, or it fails after taking effect. A
request names what it creates: `deploys` and `services` are sets of create
requests, and the label of an object is the ID of that request. Names are generated
by Kubernetes; that one exists already is an error of the Deployment's create call
with an answer of its own, 409 (`"409-name"`, to tell it from the 409 for a taken ID).
`Answers` is `openapi.yaml`'s list of statuses, and `TypeOK` says that no operation
answers anything else. `pods` counts what carries the label of a Deployment, also after
its deletion (background propagation). A crash ends the requests in flight. The
rollback and the final Deployment delete use a context that survives the client
(`context.WithoutCancel`), which needs no modelling: they are attempted always.
Not modelled: the fields of the answers, the name given by the client (it only seeds the generated name), the rolling-update fields of a Deployment's
status (two Pods are accepted or refused nondeterministically).

**ContainerRegistry** makes three concessions to a failing cluster: an answer 500 at
any time, with or without effect; a failing create may withdraw what it took; and a
create may be refused without effect because its generated name exists, whether its
ID is free or not (`Collide`). The refinement maps the
Deployments' IDs to the registry's containers; a create takes its ID when its
Deployment is created, reads happen when the Deployments are listed.

**StatusMonitor.** The cluster changes objects; each informer has a stream of
undelivered changes, a cache, and a queue of notifications; handlers look up and
submit in two steps. Publication attempts fail up to a bound; the fifth failure
(here `MaxAttempts`) drops the event. Statuses and phases are abstracted to their
names, messages are left out. `Restart` is a crash in whatever step, followed by a
new start: nothing survives but the cluster and what subscribers have been told.
No lock spans a handler's lookup (`HandlerReads`) and its Submit (`HandlerSubmits`),
and the two informers' handlers interleave there in every run. Two history variables
tell which of two events is the older one: `older` has the handlers that hold an event
computed before the newest one of its instance, and `overtaken` the instances whose
newest event was submitted while the other handler still held an older one; they are
exempt from `Converges` and `ShownAsPublished` until their next event is submitted.
Both are empty from the cancellation on, since nothing is claimed of the statuses then.
`unreported` remembers the instances whose last event was dropped after its last
retry, until a publication or a resync (which repeats what is cached) makes up for
it. `ShownStatus` is the status that a Get or List works out for itself, so that
`ShownAsPublished` can compare the two.

**Watcher** is the monitor's goroutine as seen from outside: running, stopping,
returned, and whether a publication is under way. `Lifecycle` composes the process
from its steps; `StatusMonitor` implements them (`ImplementsWatcher`), for one life
of the provider, since `Lifecycle` ends with the process.

**Registration** and **Lifecycle.** The registrar's goroutine is `loop` (sending,
waiting) with the `backoff` its next wait takes; a post may take effect and lose
its response. `main` is where the main goroutine stands, from the readiness probe
over `Run`'s select to the deferred calls. Kubernetes is up, down or hangs: the
health handler answers 200 in the first two cases, so being down does not delay
readiness, and leaves the probe without an answer in the third. Client requests
and health handlers that wait for Kubernetes are counted, since `Shutdown` waits
for them until its timeout. The monitor's steps are those of `Watcher`.

**ListPaging.** A client follows the tokens of one listing while the cluster
changes between any two Kubernetes calls: the Deployments are listed and cut into
a page at once, the Services are read one by one. Names are numbers, for their
order; a page is a set, since only which containers it has matters. Creates and
deletes of other clients are reduced to the life of a Deployment and its Service;
`ContainerStore` has their requests. The create's ports and memory go through
`Conversion` into Deployment and Service and back. Each request that ends leaves its
exchange in `last`; the client counts a page only when it has received all of it and
asks for the same page again otherwise.

**Conversion** has memory as a number with a unit, worth a number of bytes. The parser
turns what exceeds Kubernetes' largest amount (2^63 - 1) into it, and the handler compares minimum and
maximum after that. Kubernetes then rewrites an amount to its canonical text, with the
largest unit that leaves no fraction, or keeps the text it was given (`KeptTexts`, any set
of amounts); the read turns the unit back into one of the API if it knows one. `Step`,
1024 in the code, is what one unit is of the next smaller one: TLC's integers have 32
bits, so its run has 4 there, and the largest amount is 8 * 4^6 - 1. The proofs are for
any step. `ShownAsAsked` and `SameMemory` say what a read owes the create.

**Requests** has one operator per layer, each taking the exchange so far and what
the next layer makes of it, composed by `Serve` in the order in which `New` puts them: recovery,
logging, validation, router, parameter binding, strict handler. A *flaw* is
something wrong with the request, which one of the layers refuses; a *fault* is
something that goes wrong with the answer: a panic before or after the status line,
a body that cannot be encoded, a connection that breaks, an abort. The exchange
records the status sent, how many status lines were asked for, whether the body is
whole, and what was logged.

## 3. Runs

| Run | Question | Bounds |
|---|---|---|
| `debouncer` | all invariants, publication and Stop end | 2 instances, 4 Submits: two on one instance and two on the other, or up to four on one |
| `debouncer_replaced` (violated) | is the previous event always replaced in its window? | 1 instance, 3 Submits |
| `store_serial` | linearizability and what follows, for clients that wait; only documented statuses? | 2 IDs, 3 requests of any kind, 2 Pods, 2 faults, 1 crash |
| `store_concurrent` | what holds when clients do not wait | 1 ID, 4 creates and deletes, 1 fault, 1 crash |
| `store_duplicate_id` (violated) | is the ID unique then? | 1 ID, 2 creates |
| `monitor` | does the last status published end up right, and as a read shows it, unless an older event overtakes it? | 1 instance, 1 Pod, 2 changes after the start state, 1 broken watch or crash, 1 failed publication |
| `monitor_resync` | does a resync repair an overtaken and a dropped event; does shutdown end, quietly; is `Watcher` implemented? | 1 change, 1 resync per informer, 2 failed publications, cancellation |
| `monitor_lost_delete` (violated) | is DELETED always the last status? | 2 changes |
| `monitor_worst_pod` (violated) | is the worst Pod reported? | 2 Pods, no change: the first listing suffices |
| `lifecycle` | do registration and monitoring start, does registration settle, does the process end? | 2 failed registrations, backoff 1 to 3, 1 request, 1 stuck handler, 1 change of Kubernetes |
| `lifecycle_watchers` (violated) | has the monitor stopped when the NATS connection is closed? | the same |
| `list_paging` | what do pages miss or repeat; are ports and memory shown as asked; is every request answered once and logged as answered; does paging end? | 3 names, pages of 1 and 2, 3 combinations of ports and memory, 2 creates or deletes, 1 request refused, failing or with its answer going wrong |

Why these bounds are enough to be interesting: three Submits of one instance are
what the stale callback needs and a fourth gives another instance a part in it;
a create that fails, its retry and a reader are three requests, and a delete
against a create, its retry and a second delete are four; two failures are a
failing call and a failing rollback. The monitor's instances share nothing but
the informers' order and the debouncer's flag, so one instance is followed
through every start state with two further changes, before, between and after which
a watch may break or the provider crash (both would be a crash alone, after which
everything is listed anew); two failures in a row drop an event (`MaxAttempts` is 2
there). A backoff of 1 that doubles
past a maximum of 3 meets the cap; one stuck handler is enough to hold `Shutdown`
up. Three names and pages of one are what a delete before the offset, or a create
before it, needs to make the next page skip or repeat. One thing going wrong with a
request is enough for the layers, which share no state between requests, and all
flaws, faults and decisions are tried for it.

**Environment assumptions that are constants.** `SerialWriters`: clients wait for
the answer to a change of an ID before the next change of it; nothing in the code
enforces it, and `store_concurrent` and `store_duplicate_id` drop it.
`Prompt`: timers of one instance have one length, so they expire in the order they
were armed, and a publication with its 150 ms of backoffs is over before a window of
500 ms that started later is. It is a statement about time that nothing in the code
enforces: a publisher that takes longer may publish an older status last, and no run
covers that.

**Fairness.** Weak fairness of the runtime (armed timers fire, goroutines run),
of the informers (a watch delivers, a broken one is replaced), and of a
publication's end (five attempts at most). Nothing obliges a client, the cluster,
the resync ticker or the one who cancels. The debouncer has one condition per
timer and goroutine; the monitor has a single one for everything that runs by
itself, which is weaker, and enough because the bounds make its behaviours
finite. In the lifecycle goroutines run, timers fire and `Shutdown` returns at its
timeout; two conditions are strong, because Go's select picks at random among
ready cases: `waitForReady` does not prefer its ticker to the deadline for ever,
nor the registrar its timer to the context. Requests need not end, Kubernetes
need not answer and nobody need send a signal. A paging client goes on asking.

**Findings.** (1) Two overlapping creates of an ID both succeed, and then get and
delete of that ID answer 500. (2) A stale callback deletes a newer timer's map
entry, so an event can be published although a later one replaced it within its
window; this is wasteful rather than wrong (`LastEventKept` and `TrackedIsNewest`
still hold). (3) A Pod update reports that Pod, not the worst. (4) DELETED can be
overtaken by an older status, and stays wrong. (5) After a signal, main closes the
NATS connection and exits without waiting for the monitor. `PROJECT.json` quotes the
statements these contradict.

## 4. Proofs

`DebouncerProofs` proves, for any set of instances and any bound on Submit calls,
that the conjunction `IInv` of `Debouncer` is inductive, and with it the four
safety invariants of the run `debouncer`. Why the strengthening is needed:
`QuietAfterStop` speaks of phases, but Stop returns on the wait group's counter,
so the counter must be shown to be the number of publishing callbacks
(`WgCountsPublishing`); a callback adds to it after Stop only if the flag is
clear, which ties the flag to Stop's progress (`StopStages`); and the map must
never name an older timer (`TrackedIsNewest`), or Submit would halt the wrong one
(`LastEventKept`). `Numbered` says which timers exist. The only assumption is
`DebouncerAssumption` (the bound is a natural number, the owner of an unused
timer is no instance).

`ContainerStoreProofs` proves, for any IDs, requests and bounds on Pods, faults
and crashes, type correctness, that every answer has a status documented for its
operation (`DocumentedStep`), and two statements about the duplicate check.
`DuplicatesOnlyFromOverlap` holds whatever clients do; `UniqueInstanceId` holds
under the hypothesis `SerialWriters`. The invariant `SInv` adds to the type what
the argument needs: which operation a step belongs to and who may own a
Deployment (`Roles`), that the requests over when another began stay over
(`EndedIsOver`), and that a Deployment of one of those cannot coexist with a
create that has passed its check (`CheckSaw`). `StepFacts` collects what every
action respects, so that the invariant's parts follow without going through the
actions again. Uniqueness then needs only that of two changes of one ID one was
over when the other began (`WritersOrdered`), which is what waiting means.
`StoreAssumption` is used for the bounds and the set of operations.

`ContainerStoreObjects` goes on to what is in the cluster. `OrphansExplained` and
`CreatedStaysComplete` hold whatever clients do. That a Service keeps its Deployment
is not inductive: what matters is the delete that could take only one of the two.
So `OInv` adds to `SInv` that a delete works on one Deployment and on Services of its
ID (`DeleteKnows`), that a Service is made by a create with nothing left to do but
its rollback after a lost response (`ServiceRoles`), that a delete has all Services
of the requests over before it in its list and none is left when it comes to the
Deployment (`SweepSees`), and hence that only a delete in flight with the create
separates the two (`DeploymentStays`). `Finite` is needed because
`FindDeployment` counts the Deployments with an ID. As before, `StepEffects` collects
what the actions respect. With `SerialWriters`, no delete overlaps a create of its ID:
`OrphansWhenSerial` and `DeletedIsGone` follow from `OInv` and `WritersOrdered`.

`ContainerStoreDeletes` proves `DeletedAtMostOnce`, also whatever clients do. It
compares three cardinalities, for which no step-by-step count is kept: `DInv` says
that a delete answered 204 still knows the Deployment it deleted, that no two know the
same (`DeletersKnow`), and that a Deployment that is gone never comes back, since its
create is past that step (`MadeIt`). So there is an injection from those deletes into
the creates whose Deployment is gone, which are finitely many as requests begin one at
a time.

`ContainerStoreRefinement` proves `StoreLinearizable` from the same invariants: the
initial states are the registry's, and each action is a step of the registry or
none, with one lemma per action. Most steps change the stage of one request and
nothing else. Three need the invariant: a create finds its ID free when it
makes the Deployment (`ClearToTake`, from `CheckSaw` and `WritersOrdered`), and a
delete or a rollback that removes a Deployment removes the last one of its ID
(`Removed`, from `UniqueInstanceId`). A create that is refused because its generated
name exists is the registry's `Collide`. The hypothesis `SerialWriters` cannot be
dropped: `store_duplicate_id` shows two creates that both succeed.

`StatusMonitorProofs` proves, for any finite sets of instances and Pods and any bounds,
three groups of results.

*Shutdown.* The monitor is quiet once `Start` has returned (`ShutdownIsQuiet`), however
often the provider crashes, and it implements `Watcher` (`WatcherImplemented`), under
the hypothesis `MaxRestarts = 0`, since `Watcher` describes one life of the process. The
invariant `MInv` is the debouncer's `IInv`, which is not proved again but taken
from `DebouncerProofs` through an instance of it, and the order of shutdown
(`ShutdownInOrder`): the debouncer stops only after the cancellation, and `Start`
returns only after the debouncer has and with no handler under way. `MonitorMoves`
says which steps of the monitor are steps of its debouncer, so that its invariant
carries over; `PublishingChanges` says what a debouncer's step does to the set of
publications under way, which is all `Watcher` sees of it.

*Types* (`TypesHold`). `TypeOK` says nothing of the streams or of the events being
submitted; `Typed` does and is inductive together with `MInv`. The lemmas it rests on
(`PhaseFound`, `StatusType`) say that the lookup of the most concerning Pod and the
reconciliation are defined for every cluster.

*What is published is right.* `TruthReported` is the safety half of `Converges`: in
every state in which nothing is on its way, the last status published of an instance
the monitor has seen is the one the cluster gives it. `ReadersSeeWhatIsPublished`
(`ShownAsPublished`) follows from it. Neither is inductive, since each speaks only of
states at rest; the argument follows a status from the cluster to the subscriber. `KInv`
is `MInv`, `Typed` and the first two of these; the third is the heart of it:

1. `InformersTrue`: what is known of the cluster is late but never wrong. The last
   change of an object in a stream is the object's state, an object without changes
   has its state in the cache, and the last notification of an object is what the
   cache says.
2. `InOrder`: while a timer of an instance is active, no later one has expired, so that
   the newest event is published last. Only this needs `Prompt`.
3. `Answered`: for every instance seen, a notification waits (`Noted`), or the status of
   the cache is `Kept`: every handler that holds a newest event of the instance
   (`Fresh`) holds this status, and if there is none, either an older event has
   overtaken it or no handler holds any and the status is in the pipeline (`Pipeline`:
   about to be submitted, with no handler about to submit another; or carried by the
   newest timer; or, with no timer active, published or dropped). A handler that takes
   the last notification computes the status of the whole instance, whichever object it
   was notified of (`ReconcilesCache`), and is then the only one that holds a newest
   event (`KeptReads`). When it submits, the other handler either holds nothing of the
   instance, and the status is in the pipeline, or holds an older event, and the
   instance is marked as overtaken (`KeptSubmits`). `KeptRests` and `KeptMoves` are the
   other steps.

The only hypothesis is that of the run `monitor`, `Prompt`. Instances with several Pods
are exempt (`OnePod`), because there `ReconcilesCache` is false (`monitor_worst_pod`), and
so are those whose newest event was overtaken: `monitor_lost_delete` shows that the code
does publish a wrong status last then. Since nothing else is exempt, DELETED included,
that race and a dropped event are the only ways to it as long as publications are prompt.

`ResyncRepairsHolds` (`ResyncRepairs`) is also about what was overtaken, under the same
hypothesis: once a cluster at rest has been resynced, `Repaired` says that the caches are right and that every
notification and every event about to be submitted says the same of an instance, so
that it does not matter how the handlers interleave. The property speaks of all
instances and holds when none has two Pods; `ResyncShowsOnePod` has no such hypothesis
and speaks of the instances with at most one.

`MonitorAssumption` says that the cluster's objects are finitely many and that no Pod
is called like the Deployment, which keeps the two kinds apart.

`ListPagingProofs` proves every safety property of the run `list_paging`, for any number
of containers, any ports, quantities and page sizes and any bounds. Three parts do
not depend on the steps:

* `ServeAnswered`: for every flaw, decision and fault the layers of `Requests` leave an
  exchange that is answered and logged as answered, by going through the layers from
  the inside out, each assuming of the next only what `Handled` says.
* `ContainerShown`: what a read shows of what a create asked for, from
  `InferredVisibility` (what is inferred from the type of the Service and its targets is a
  visibility asked for the port's number, or external for an internal port next to an
  external one) and `MemoryShown` (an amount that is parsed, stored and read keeps its
  value up to Kubernetes' largest and, except for zero, multiples of 1024TB and that
  largest one, has a unit of the API). The units are only known to be positive and
  multiples of each other (`UnitSizes`, `Multiples`).
* `Frontier`: an offset into the sorted Deployments is a place between two names, so
  that a page is the names between two places.

`PageInv` is `TypeOK` with what a page and an exchange are (`Existing`, `Ended`).
`TypeOK` alone is not inductive: a page must be known to hold only containers that there
have been, or what they were asked for would be undefined.
`PagingInv` is needed for `SkippedByDeletes` and `RepeatedByCreates`, which speak of
whole pagings. It counts, up to each name, the containers missed so far
(`Skips`: no more than those gone, or the token still points before them) and pairs the
repeated ones with ones created below them (`Paired`), counting as repeated those that
lie ahead of the token again. While a page is being read both are stated twice, for
the token of the call and for the one after it, since the answer may be lost.

`LifecycleProofs` proves `TypeOK` for any backoffs and bounds; that the process is safe
(`ProcessSafe`): registrar and monitor start together and not before the server answers,
the registrar's outcome is true of the registry and the context, the monitor publishes
only while it runs or stops and returns only after the cancellation, main ends only for
a signal or a failed listener; that nothing happens twice (`NothingTwice`); and that
the process's steps are `Watcher`'s as far as the monitor is concerned
(`WatcherComposed`), the counterpart of `WatcherImplemented`. The invariant `LInv` is its
own strengthening; `WatcherComposed` and the finality of outcomes need it, as the steps'
guards name only some of the variables.

Three definitions were corrected because they could not be proved about as they stood.
Two choices in `Requests` (the strict handler, the recovery layer) and one in
`Conversion` (canonical quantities) were written as cases that overlap; they now say
which condition comes first, as the code's ifs do. Memory amounts are assumed to be
natural numbers.

Only model-checked: liveness (`EventuallyPublished`, `StopTerminates`, `Converges`,
`ShutdownCompletes`, `StartsWhenReady`, `RegistrationSettles`, `ProcessEnds`,
`PagingEnds`), which is out of the prover's reach with its fairness and ENABLED. Every
invariant the passing runs check, and both refinements, are proved.

## 5. Not modelled, and why

* *No state and no order of events*: generated types and the embedded description,
  the client's building of requests, parsing of the environment, the wording of
  logs and problem details, the CloudEvent encoding, what conversion copies as it is,
  addresses and transition times in answers.
* *Libraries*: request validation's rules (a request is allowed or not), NATS's
  reconnect buffer (a publication that the client buffered counts as published), the
  router's plain 404 and 405 bodies, client-go beyond what the monitor uses.
* *Rolling updates*: which of two Pods a read shows then. It depends on the
  Deployment's status fields and on the Pods' creation times; the store's model
  accepts or refuses two Pods either way.
* *The wiring of main* up to the listener's start: sequential, an error ends the
  process.

Some things the models show and no run states as a violation:

* If Kubernetes hangs for the whole readiness timeout, onReady is skipped for good and
  the process serves without registration or monitoring (`StartsWhenReady` exempts
  it).
* What is deleted while the provider is down, or while a watch of a new process is
  not yet established, is never reported DELETED: no cache knows of it (`tracked`
  exempts it).
* A Deployment that fails before it has a Pod is reported FAILED by the monitor
  (REQ-MON-060) and shown PENDING by a read (REQ-K8S-240); `ShownAsPublished` exempts
  it.
* A request whose handler panics is answered 500 and not logged, because the logging
  layer is inside the recovery layer and has no defer; REQ-HTTP-060 asks for a log
  line for every request. `LoggedAsAnswered` exempts it.
* A memory amount such as 1024TB has a canonical text whose unit the API does not
  know, and is shown in Kubernetes' terms (`SameMemory`). 8388608TB and more are
  accepted (`openapi.yaml:351` admits any number of digits), capped by the parser at
  2^63 - 1 bytes and shown as that many; a minimum above its maximum passes the check
  when both are capped.
* An internal port of a container that has an external one is shown external, because
  visibility is inferred from the one Service (AC-K8S-155 to 157); `ShownAsAsked` has
  this as an exception.
* When the handlers of the two informers interleave, an older status may be the last one
  published until the next event or resync (`overtaken`); for DELETED this is the
  finding of `monitor_lost_delete`.
* The code never compares `metadata.name`. SC-001, REQ-API-080, REQ-STR-030, REQ-K8S-170,
  AC-STR-020, REQ-XC-ID-020 (`.ai/specs/k8s-container-sp.spec.md:340,542,568,625-632,
  1333,1345-1350`) and `openapi.yaml:153-154` ask for a 409 when a container of that
  name exists, whereas the note at `:602-606` and DD-140 (`:1632-1640`) use
  `GenerateName` so that several containers may have one name, which is what the code
  does: only the ID is looked up (`store_create.go:57-66`), and the AlreadyExists of
  `store_create.go:75-77`, which would have been that conflict, is left for a generated
  name that collides. The models have no `metadata.name`, so this divergence comes from
  reading and is no run's result.
* With the default configuration the server's write timeout (15 s) is shorter than
  the timeout of a request (30 s), so an answer to a request that used up the latter
  is lost.

## 6. Plan

1. *Done*: all modules of section 2, the runs of section 3, the proofs of section 4.
2. Proofs: what a monitor with several Pods per instance does report, beyond
   `TruthReported`; step-wise parts of the liveness arguments.
3. The Pod that enriches an answer during a rolling update.
