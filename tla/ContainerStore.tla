---------------------------- MODULE ContainerStore ----------------------------
(***************************************************************************)
(* K8sContainerStore (internal/kubernetes/store*.go) under the handlers of *)
(* internal/handlers/container: every HTTP request runs on a goroutine of  *)
(* its own, no lock is shared, and all state lives in the Kubernetes API.  *)
(* One action is one call to that API with what the code does up to the    *)
(* next call; requests interleave between calls.                           *)
(*                                                                         *)
(* Deployments and Services are created with GenerateName, so each has a   *)
(* name of its own: here it is named after the create request that made    *)
(* it, and its dcm-instance-id label is that request's ID.                 *)
(*                                                                         *)
(* A call may fail without effect, or take effect and lose its response    *)
(* (the request's context expires, the connection breaks).  A crash ends   *)
(* every request in flight.                                                *)
(***************************************************************************)
EXTENDS Integers, FiniteSets

CONSTANTS
  Ids,             \* instance IDs that clients use
  Requests,        \* the HTTP requests of a behaviour
  Ops,             \* the operations the clients call
  SerialWriters,   \* do clients wait for the answer to a create or delete
                   \* of an ID before they send another one for it?
  MaxPods,         \* bound: Pods of one Deployment at a time
  MaxFaults,       \* bound: failing calls of a behaviour
  MaxCrashes       \* bound: crashes of a behaviour

NoId == "no id"

ASSUME StoreAssumption ==
  /\ NoId \notin Ids
  /\ Ops \subseteq {"create", "delete", "get", "list"}
  /\ SerialWriters \in BOOLEAN
  /\ MaxPods \in Nat /\ MaxFaults \in Nat /\ MaxCrashes \in Nat

(* What a request can ask for; ports says whether a create has a port      *)
(* whose visibility is not none, so that it needs a Service.               *)
Inputs ==
  {q \in [op : Ops, id : Ids \cup {NoId}, ports : BOOLEAN] :
     /\ (q.op = "list") <=> (q.id = NoId)
     /\ q.ports => q.op = "create"}

NoRequest == [op |-> "none", id |-> NoId, ports |-> FALSE]

CreateSteps == {"check", "createDeployment", "createService", "rollback"}
DeleteSteps == {"findToDelete", "listServices", "deleteServices", "deleteDeployment"}
ReadSteps   == {"findToGet", "listDeployments", "readPods", "readServices"}
Steps       == CreateSteps \cup DeleteSteps \cup ReadSteps

FirstStep == [create |-> "check", delete |-> "findToDelete",
              get |-> "findToGet", list |-> "listDeployments"]

(* The answers.  Two problems have status 409: the check found the ID      *)
(* ("container with instance ID ..."), or Kubernetes had a Deployment of   *)
(* the generated name ("deployment ... already exists").                   *)
Codes == {"none", "200", "201", "204", "400", "404", "409", "409-name", "500"}

(* The statuses that openapi.yaml lists for each operation.                *)
Answers ==
  [none   |-> {"none"},
   create |-> {"none", "201", "400", "409", "409-name", "500"},
   delete |-> {"none", "204", "404", "500"},
   get    |-> {"none", "200", "404", "500"},
   list   |-> {"none", "200", "400", "500"}]

VARIABLES
  deploys,       \* the Deployments that exist
  services,      \* the Services that exist
  pods,          \* how many Pods each Deployment has left behind or runs
  req,           \* what each request asks
  pc,            \* the step each request is at, or idle, answered, crashed
  found,         \* the Deployment(s) a delete or a read works on
  left,          \* Services still to delete, Deployments still to list
  view,          \* the IDs of the Deployments a list returned
  code,          \* the status each request was answered
  faults,        \* calls that have failed
  crashes,       \* crashes so far
  ended,         \* history: the requests for its ID that were over when each
                 \* request began
  lostServices   \* history: Services whose create call lost its response

cluster == <<deploys, services>>
local   == <<found, left, view>>
history == <<ended, lostServices>>
vars    == <<cluster, pods, req, pc, local, code, faults, crashes, history>>

Init ==
  /\ deploys = {} /\ services = {}
  /\ pods = [r \in Requests |-> 0]
  /\ req = [r \in Requests |-> NoRequest]
  /\ pc = [r \in Requests |-> "idle"]
  /\ found = [r \in Requests |-> {}]
  /\ left = [r \in Requests |-> {}]
  /\ view = [r \in Requests |-> {}]
  /\ code = [r \in Requests |-> "none"]
  /\ faults = 0 /\ crashes = 0
  /\ ended = [r \in Requests |-> {}] /\ lostServices = {}

-----------------------------------------------------------------------------
InFlight(r) == pc[r] \in Steps

(* What a List call with the selector of an instance ID returns.           *)
Labelled(objects, i) == {d \in objects : req[d].id = i}

Answer(r, c) ==
  /\ pc' = [pc EXCEPT ![r] = "answered"]
  /\ code' = [code EXCEPT ![r] = c]

GoTo(r, step) ==
  /\ pc' = [pc EXCEPT ![r] = step]
  /\ UNCHANGED code

(* The call of this step returns what the API did.                         *)
Works == UNCHANGED faults

(* The call returns an error, whether or not the API acted on it.          *)
Breaks ==
  /\ faults < MaxFaults
  /\ faults' = faults + 1

(* A call that only reads and whose error is returned: the handler maps it *)
(* to 500.                                                                 *)
ReadBreaks(r) ==
  /\ Breaks
  /\ Answer(r, "500")
  /\ UNCHANGED local

Unchanging == UNCHANGED <<cluster, pods, req, crashes, history>>

-----------------------------------------------------------------------------
(* A request arrives and passes the handler's checks.                      *)
Start(r) ==
  /\ pc[r] = "idle"
  /\ \E q \in Inputs :
       /\ SerialWriters /\ q.op \in {"create", "delete"} =>
            \A s \in Requests : InFlight(s) /\ req[s].op \in {"create", "delete"}
                                  => req[s].id # q.id
       /\ req' = [req EXCEPT ![r] = q]
       /\ GoTo(r, FirstStep[q.op])
       /\ ended' = [ended EXCEPT ![r] = {s \in Labelled(Requests, q.id) : pc[s] \in {"answered", "crashed"}}]
  /\ UNCHANGED <<cluster, pods, local, faults, crashes, lostServices>>

(* A create whose ID, resources or labels are invalid is answered at once. *)
RejectInvalid(r) ==
  /\ pc[r] = "idle"
  /\ \E q \in Inputs : q.op = "create" /\ req' = [req EXCEPT ![r] = q]
  /\ Answer(r, "400")
  /\ UNCHANGED <<cluster, pods, local, faults, crashes, history>>

-----------------------------------------------------------------------------
(* Mutant of CheckDuplicate: GenerateName is trusted to tell duplicates.   *)
NoDuplicateCheck(r) ==
  /\ pc[r] = "check"
  /\ GoTo(r, "createDeployment")
  /\ Works
  /\ UNCHANGED local
  /\ Unchanging

(* Create: the duplicate check.                                            *)
CheckDuplicate(r) ==
  /\ pc[r] = "check"
  /\ \/ /\ Works
        /\ IF Labelled(deploys, req[r].id) # {}
             THEN Answer(r, "409") ELSE GoTo(r, "createDeployment")
        /\ UNCHANGED local
     \/ ReadBreaks(r)
  /\ Unchanging

(* Create: the Deployment.  That its name exists already is the one error  *)
(* with an answer of its own; with GenerateName it takes a generated name  *)
(* that is in use, which Kubernetes gave up avoiding.                      *)
CreateDeployment(r) ==
  /\ pc[r] = "createDeployment"
  /\ \/ /\ Works
        /\ deploys' = deploys \cup {r}
        /\ IF req[r].ports THEN GoTo(r, "createService") ELSE Answer(r, "201")
     \/ /\ Breaks
        /\ \/ UNCHANGED deploys /\ (Answer(r, "500") \/ Answer(r, "409-name"))
           \/ deploys' = deploys \cup {r} /\ Answer(r, "500")
  /\ UNCHANGED <<services, pods, req, local, crashes, history>>

(* Mutant of CreateService: its error is logged and the create succeeds.   *)
ServiceErrorIgnored(r) ==
  /\ pc[r] = "createService"
  /\ \/ Works /\ services' = services \cup {r}
     \/ Breaks /\ UNCHANGED services
  /\ Answer(r, "201")
  /\ UNCHANGED <<deploys, pods, req, local, crashes, history>>

CreateService(r) ==
  /\ pc[r] = "createService"
  /\ \/ /\ Works
        /\ services' = services \cup {r}
        /\ Answer(r, "201")
        /\ UNCHANGED lostServices
     \/ /\ Breaks
        /\ \/ UNCHANGED <<services, lostServices>>
           \/ /\ services' = services \cup {r}
              /\ lostServices' = lostServices \cup {r}
        /\ GoTo(r, "rollback")
  /\ UNCHANGED <<deploys, pods, req, local, crashes, ended>>

(* The rollback deletes the Deployment just created, by name; the answer   *)
(* is the Service's error whatever becomes of it.                          *)
Rollback(r) ==
  /\ pc[r] = "rollback"
  /\ \/ Works /\ deploys' = deploys \ {r}
     \/ Breaks /\ deploys' \in {deploys, deploys \ {r}}
  /\ Answer(r, "500")
  /\ UNCHANGED <<services, pods, req, local, crashes, history>>

-----------------------------------------------------------------------------
(* findDeployment, for Delete and Get: exactly one Deployment carries the  *)
(* ID, or the answer is 404 (none) or 500 (several).                       *)
FindDeployment(r, from, next) ==
  /\ pc[r] = from
  /\ \/ /\ Works
        /\ LET ds == Labelled(deploys, req[r].id) IN
             \/ ds = {} /\ Answer(r, "404") /\ UNCHANGED found
             \/ Cardinality(ds) > 1 /\ Answer(r, "500") /\ UNCHANGED found
             \/ /\ Cardinality(ds) = 1
                /\ found' = [found EXCEPT ![r] = ds]
                /\ GoTo(r, next)
        /\ UNCHANGED <<left, view>>
     \/ ReadBreaks(r)
  /\ Unchanging

FindToDelete(r) == FindDeployment(r, "findToDelete", "listServices")
FindToGet(r)    == FindDeployment(r, "findToGet", "readPods")

(* Mutant of ListServices: the Service is looked up by its Deployment's    *)
(* create and not by the label.                                            *)
ListOwnService(r) ==
  /\ pc[r] = "listServices"
  /\ Works
  /\ LET ss == services \cap found[r] IN
       /\ left' = [left EXCEPT ![r] = ss]
       /\ GoTo(r, IF ss = {} THEN "deleteDeployment" ELSE "deleteServices")
  /\ UNCHANGED <<found, view>>
  /\ Unchanging

(* Delete: the Services that carry the ID now.                             *)
ListServices(r) ==
  /\ pc[r] = "listServices"
  /\ \/ /\ Works
        /\ LET ss == Labelled(services, req[r].id) IN
             /\ left' = [left EXCEPT ![r] = ss]
             /\ GoTo(r, IF ss = {} THEN "deleteDeployment" ELSE "deleteServices")
        /\ UNCHANGED <<found, view>>
     \/ ReadBreaks(r)
  /\ Unchanging

(* Mutant of DeleteService: a Service that cannot be deleted is skipped.   *)
DeleteServiceSkips(r) ==
  /\ pc[r] = "deleteServices"
  /\ \E s \in left[r] :
       /\ \/ Works /\ services' = services \ {s}
          \/ Breaks /\ UNCHANGED services
       /\ left' = [left EXCEPT ![r] = @ \ {s}]
       /\ GoTo(r, IF left[r] = {s} THEN "deleteDeployment" ELSE "deleteServices")
  /\ UNCHANGED <<deploys, pods, req, found, view, crashes, history>>

(* Delete: one Service of the list; an error, which includes that someone  *)
(* else has deleted it, ends the request.                                  *)
DeleteService(r) ==
  /\ pc[r] = "deleteServices"
  /\ \E s \in left[r] :
       \/ /\ Works
          /\ s \in services
          /\ services' = services \ {s}
          /\ left' = [left EXCEPT ![r] = @ \ {s}]
          /\ GoTo(r, IF left[r] = {s} THEN "deleteDeployment" ELSE "deleteServices")
       \/ /\ Works
          /\ s \notin services
          /\ Answer(r, "500")
          /\ UNCHANGED <<services, left>>
       \/ /\ Breaks
          /\ services' \in {services, services \ {s}}
          /\ Answer(r, "500")
          /\ UNCHANGED left
  /\ UNCHANGED <<deploys, pods, req, found, view, crashes, history>>

(* Mutant of DeleteDeployment: NotFound, or any error, counts as deleted.  *)
DeleteIgnoresError(r) ==
  /\ pc[r] = "deleteDeployment"
  /\ \/ Works /\ deploys' = deploys \ found[r]
     \/ Breaks /\ UNCHANGED deploys
  /\ Answer(r, "204")
  /\ UNCHANGED <<services, pods, req, local, crashes, history>>

(* Delete: the Deployment that was found, by name.                         *)
DeleteDeployment(r) ==
  /\ pc[r] = "deleteDeployment"
  /\ \/ /\ Works
        /\ deploys' = deploys \ found[r]
        /\ Answer(r, IF found[r] \subseteq deploys THEN "204" ELSE "500")
     \/ /\ Breaks
        /\ deploys' \in {deploys, deploys \ found[r]}
        /\ Answer(r, "500")
  /\ UNCHANGED <<services, pods, req, local, crashes, history>>

-----------------------------------------------------------------------------
(* List: one snapshot of the managed Deployments, then enrichFromCluster   *)
(* for each of them (found holds the one being enriched).                  *)
ListDeployments(r) ==
  /\ pc[r] = "listDeployments"
  /\ \/ /\ Works
        /\ view' = [view EXCEPT ![r] = {req[d].id : d \in deploys}]
        /\ \/ deploys = {} /\ Answer(r, "200") /\ UNCHANGED <<found, left>>
           \/ \E d \in deploys :
                /\ found' = [found EXCEPT ![r] = {d}]
                /\ left' = [left EXCEPT ![r] = deploys \ {d}]
                /\ GoTo(r, "readPods")
     \/ ReadBreaks(r)
  /\ Unchanging

(* The Pods an instance selector returns: those of every Deployment with   *)
(* the ID, one that is deleted but whose Pods still terminate included.    *)
PodsOf(i) ==
  {p \in Requests \X (1 .. MaxPods) : req[p[1]].id = i /\ p[2] <= pods[p[1]]}

(* Mutant of ReadPods: the store's ConflictError for several Pods is       *)
(* answered 409, as a create's is.                                         *)
ReadPodsConflict(r) ==
  /\ pc[r] = "readPods"
  /\ Works
  /\ \E d \in found[r] : LET n == Cardinality(PodsOf(req[d].id)) IN
       \/ n <= 2 /\ GoTo(r, "readServices")
       \/ n >= 2 /\ Answer(r, "409")
  /\ UNCHANGED local
  /\ Unchanging

(* enrichFromCluster: two Pods are accepted only while the Deployment,     *)
(* read earlier, reports a rolling update, which its status may do or not; *)
(* three never are.                                                        *)
ReadPods(r) ==
  /\ pc[r] = "readPods"
  /\ \/ /\ Works
        /\ \E d \in found[r] : LET n == Cardinality(PodsOf(req[d].id)) IN
             \/ n <= 2 /\ GoTo(r, "readServices")
             \/ n >= 2 /\ Answer(r, "500")
        /\ UNCHANGED local
     \/ ReadBreaks(r)
  /\ Unchanging

(* The Services are listed for their addresses; then List goes on with the *)
(* next Deployment.                                                        *)
ReadServices(r) ==
  /\ pc[r] = "readServices"
  /\ \/ /\ Works
        /\ \/ left[r] = {} /\ Answer(r, "200") /\ UNCHANGED <<found, left>>
           \/ \E d \in left[r] :
                /\ found' = [found EXCEPT ![r] = {d}]
                /\ left' = [left EXCEPT ![r] = @ \ {d}]
                /\ GoTo(r, "readPods")
        /\ UNCHANGED view
     \/ ReadBreaks(r)
  /\ Unchanging

-----------------------------------------------------------------------------
(* Kubernetes: the ReplicaSet of an existing Deployment starts a Pod, its  *)
(* first or a replacement; a Pod goes away, at the latest some time after  *)
(* its Deployment (background propagation).                                *)
PodStarts(d) ==
  /\ d \in deploys
  /\ pods[d] < MaxPods
  /\ pods' = [pods EXCEPT ![d] = @ + 1]
  /\ UNCHANGED <<cluster, req, pc, local, code, faults, crashes, history>>

PodEnds(d) ==
  /\ pods[d] > 0
  /\ pods' = [pods EXCEPT ![d] = @ - 1]
  /\ UNCHANGED <<cluster, req, pc, local, code, faults, crashes, history>>

(* The process dies and is restarted: nothing of a request survives.       *)
Crash ==
  /\ crashes < MaxCrashes
  /\ \E r \in Requests : InFlight(r)
  /\ crashes' = crashes + 1
  /\ pc' = [r \in Requests |-> IF InFlight(r) THEN "crashed" ELSE pc[r]]
  /\ UNCHANGED <<cluster, pods, req, local, code, faults, history>>

Create(r) == CheckDuplicate(r) \/ CreateDeployment(r) \/ CreateService(r) \/ Rollback(r)
Delete(r) == FindToDelete(r) \/ ListServices(r) \/ DeleteService(r) \/ DeleteDeployment(r)
Read(r)   == FindToGet(r) \/ ListDeployments(r) \/ ReadPods(r) \/ ReadServices(r)

Next ==
  \/ \E r \in Requests : \/ Start(r) \/ RejectInvalid(r)
                         \/ Create(r) \/ Delete(r) \/ Read(r)
                         \/ PodStarts(r) \/ PodEnds(r)
  \/ Crash

Spec == Init /\ [][Next]_vars

-----------------------------------------------------------------------------
(* Every request is answered with a status that openapi.yaml documents for *)
(* its operation: no error of the store (not found, several Deployments,   *)
(* several Pods, a name that exists) reaches the client under the status   *)
(* of another operation.                                                   *)
Documented == \A r \in Requests : code[r] \in Answers[req[r].op]

(* Types, the documented statuses among them.                              *)
TypeOK ==
  /\ deploys \subseteq Requests /\ services \subseteq Requests
  /\ pods \in [Requests -> 0 .. MaxPods]
  /\ req \in [Requests -> Inputs \cup {NoRequest}]
  /\ pc \in [Requests -> Steps \cup {"idle", "answered", "crashed"}]
  /\ found \in [Requests -> SUBSET Requests]
  /\ left \in [Requests -> SUBSET Requests]
  /\ view \in [Requests -> SUBSET Ids]
  /\ code \in [Requests -> Codes]
  /\ Documented
  /\ faults \in 0 .. MaxFaults /\ crashes \in 0 .. MaxCrashes
  /\ ended \in [Requests -> SUBSET Requests] /\ lostServices \subseteq Requests

(* "A Create request MUST be rejected" when its ID is taken (SC-001): no   *)
(* two Deployments ever carry one instance ID.  Nothing in the cluster     *)
(* enforces it, only the check that precedes the create.                   *)
UniqueInstanceId ==
  \A d, e \in deploys : req[d].id = req[e].id => d = e

(* Two requests for one ID were in flight together.                        *)
Overlap(r, s) ==
  /\ r # s /\ req[r].id = req[s].id
  /\ r \notin ended[s] /\ s \notin ended[r]

(* What is left of it when clients do not wait: a duplicate ID always      *)
(* comes from two creates that were in flight together, never from a retry *)
(* after a failure, a crash or a delete.                                   *)
DuplicatesOnlyFromOverlap ==
  \A d, e \in deploys : req[d].id = req[e].id /\ d # e => Overlap(d, e)

(* Services never outlive their container (Delete removes them first, a    *)
(* create makes them last), except one whose create call took effect and   *)
(* lost its response: the rollback does not delete it.                     *)
Orphan(s) ==
  /\ Labelled(deploys, req[s].id) = {}
  /\ \A r \in Requests : InFlight(r) => req[r].id # req[s].id

OrphanOnlyFromLostResponse ==
  \A s \in services : Orphan(s) => s \in lostServices

(* When clients do not wait, there is one more way: a delete of the ID that*)
(* ran between the create of the Deployment and that of the Service.       *)
OrphanExplained ==
  \A s \in services : Orphan(s) =>
    \/ s \in lostServices
    \/ \E d \in Requests : req[d].op = "delete" /\ Overlap(d, s)

(* A delete that is answered 204 leaves no Deployment and no Service with  *)
(* its ID, those that earlier failures left behind included.               *)
DeletedMeansGone ==
  [][\A r \in Requests : code[r] # "204" /\ code'[r] = "204" =>
       Labelled(deploys, req[r].id)' = {} /\ Labelled(services, req[r].id)' = {}]_vars

(* A create answered 201 has both its objects unless a delete of its ID    *)
(* was in flight with it or came later: no refused, failing or crashing    *)
(* create takes one away, and no delete that was over before.              *)
CreatedIsComplete ==
  \A r \in Requests : code[r] = "201" =>
    \/ r \in deploys /\ (req[r].ports => r \in services)
    \/ \E d \in Labelled(Requests, req[r].id) : req[d].op = "delete" /\ d \notin ended[r]

(* Every container is deleted at most once: for each ID, the deletes       *)
(* answered 204 and the Deployments that exist are together no more than   *)
(* the creates that were not refused.                                      *)
DeletedOnce ==
  \A i \in Ids :
    LET deleted == {r \in Requests : code[r] = "204" /\ req[r].id = i}
        created == {r \in Requests : /\ req[r].op = "create" /\ req[r].id = i
                                     /\ code[r] \in {"none", "201", "500"}}
    IN  Cardinality(deleted) + Cardinality(Labelled(deploys, i)) <= Cardinality(created)

(* The store implements the atomic registry: in which stage of it each     *)
(* request is.                                                             *)
StageOf(r) ==
  CASE pc[r] \in {"idle", "answered"} -> pc[r]
    [] pc[r] = "crashed" -> "gone"
    [] pc[r] \in {"createService", "rollback"} -> "took"
    [] pc[r] \in {"readPods", "readServices"} -> "saw"
    [] OTHER -> "pending"

Registry == INSTANCE ContainerRegistry WITH
  containers <- {req[d].id : d \in deploys},
  request <- [r \in Requests |-> [op |-> req[r].op, id |-> req[r].id]],
  stage <- [r \in Requests |-> StageOf(r)],
  listed <- view

(* Requests are linearizable: as long as clients do not overlap changes of *)
(* one ID, every answer is one the atomic registry gives, with failing     *)
(* calls, crashes and overlapping reads.                                   *)
Linearizable == Registry!Spec
=============================================================================
