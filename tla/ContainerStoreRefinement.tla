----------------------- MODULE ContainerStoreRefinement -----------------------
(***************************************************************************)
(* The store implements the registry of containers, module                 *)
(* ContainerRegistry, for every set of IDs and requests and every bound on *)
(* Pods, failing calls and crashes, as long as clients wait for the answer *)
(* to a change of an ID before the next one.                               *)
(*                                                                         *)
(* Each action of the store is shown to be a step of the registry, or      *)
(* none, from the invariant LInv of ContainerStoreObjects.  A create takes *)
(* its ID with its Deployment, a delete gives it up with the Deployment,   *)
(* and a read sees the registry when it lists the Deployments; every other *)
(* step is the business of one request.                                    *)
(***************************************************************************)
EXTENDS ContainerStoreObjects

(* The registry's variables, as Registry in ContainerStore substitutes     *)
(* them: the IDs that have a Deployment, what each request asked for, how  *)
(* far it is.                                                              *)
Containers == {req[d].id : d \in deploys}
Asked      == [r \in Requests |-> [op |-> req[r].op, id |-> req[r].id]]
Stage      == [r \in Requests |-> StageOf(r)]

(* The stage of a request whose next step is p.                            *)
StageAt(p) ==
  CASE p \in {"idle", "answered"} -> p
    [] p = "crashed" -> "gone"
    [] p \in {"createService", "rollback"} -> "took"
    [] p \in {"readPods", "readServices"} -> "saw"
    [] OTHER -> "pending"

(* A request that moves on changes its own stage and no other.             *)
LEMMA StageMoves ==
  ASSUME TypeOK, NEW r \in Requests, NEW p, pc' = [pc EXCEPT ![r] = p]
  PROVE  Stage' = [Stage EXCEPT ![r] = StageAt(p)]
BY DEF TypeOK, Stage, StageOf, StageAt

(* An answer of the store is one of the registry.                          *)
LEMMA AnswersAlike ==
  ASSUME TypeOK, NEW r \in Requests, NEW c, Answer(r, c)
  PROVE  Registry!Answer(r, c)
<1>1. Stage' = [Stage EXCEPT ![r] = StageAt("answered")]
  BY StageMoves DEF Answer
<1>2. StageAt("answered") = "answered"
  BY DEF StageAt
<1> QED BY <1>1, <1>2 DEF Stage, Answer, Registry!Answer

(* Going to a step is reaching its stage.                                  *)
LEMMA GoesAlike ==
  ASSUME TypeOK, NEW r \in Requests, NEW p, GoTo(r, p)
  PROVE  Registry!Reach(r, StageAt(p))
BY StageMoves DEF GoTo, Stage, Registry!Reach

(* Within a stage the registry sees nothing.                               *)
LEMMA StageStays ==
  ASSUME TypeOK, NEW r \in Requests, NEW p, GoTo(r, p), StageAt(p) = StageOf(r)
  PROVE  Stage' = Stage /\ code' = code
<1>1. Stage' = [Stage EXCEPT ![r] = StageAt(p)] /\ code' = code
  BY StageMoves DEF GoTo
<1>2. Stage[r] = StageAt(p)
  BY DEF Stage
<1>3. Stage' = Stage
  BY <1>1, <1>2 DEF Stage
<1> QED BY <1>1, <1>3

(* What was asked changes with the requests only.                          *)
LEMMA SameRequests == UNCHANGED req => Asked' = Asked
BY DEF Asked

(* The containers change with the Deployments only.                        *)
LEMMA SameContainers == UNCHANGED <<req, deploys>> => Containers' = Containers
BY DEF Containers

(* A request that has changed and seen nothing yet is pending.             *)
LEMMA PendingAt ==
  ASSUME SInv, NEW r \in Requests,
         pc[r] \in DeleteSteps \cup
                     {"check", "createDeployment", "findToGet", "listDeployments"}
  PROVE  /\ StageOf(r) = "pending" /\ Stage[r] = "pending"
         /\ Asked[r] = [op |-> req[r].op, id |-> req[r].id]
BY DEF StageOf, Stage, Asked, DeleteSteps

(* The initial states of the store are initial states of the registry.     *)
LEMMA InitRefines == Init => Registry!Init
<1> SUFFICES ASSUME Init PROVE Registry!Init
  OBVIOUS
<1>1. Containers = {}
  BY DEF Containers, Init
<1>2. Asked = [r \in Requests |-> [op |-> "none", id |-> Registry!NoId]]
  BY DEF Asked, Init, NoRequest, NoId, Registry!NoId
<1>3. \A r \in Requests : StageOf(r) = "idle"
  BY DEF StageOf, Init
<1> QED BY <1>1, <1>2, <1>3 DEF Init, Registry!Init, Containers, Asked

(* A create that has passed the duplicate check finds its ID free when it  *)
(* creates the Deployment: the only use of the check for linearizability.  *)
LEMMA ClearToTake ==
  ASSUME LInv, NEW r \in Requests, pc[r] = "createDeployment"
  PROVE  req[r].id \notin Containers
<1> SUFFICES ASSUME NEW d \in deploys, req[d].id = req[r].id PROVE FALSE
  BY DEF Containers
<1>1. SInv /\ WritersOrdered
  BY DEF LInv, OInv
<1>2. d \in Requests /\ d # r /\ Writer(d)
  BY <1>1 DEF SInv, TypeOK, Roles, RolesOf, Written, Writer, Changes
<1>3. Writer(r)
  BY <1>1 DEF SInv, Roles, RolesOf, CreateSteps, Writer, Changes
<1>4. r \notin ended[d] /\ d \notin ended[r]
  BY <1>1, <1>2 DEF SInv, EndedIsOver, Over, CheckSaw
<1> QED BY <1>1, <1>2, <1>3, <1>4 DEF WritersOrdered, Overlap

(* Without the Deployment of an ID the registry does not have the ID.      *)
LEMMA Removed ==
  ASSUME SInv, UniqueInstanceId, NEW d \in deploys, deploys' = deploys \ {d}, UNCHANGED req
  PROVE  Containers' = Containers \ {req[d].id}
BY DEF Containers, UniqueInstanceId

(* A request begins.                                                       *)
LEMMA StartRefines ==
  ASSUME LInv, NEW r \in Requests, Start(r)
  PROVE  Registry!Begin(r) \/ Registry!BeginList(r)
<1>1. SInv
  BY DEF LInv, OInv
<1>2. PICK q \in Inputs :
        /\ req' = [req EXCEPT ![r] = q]
        /\ GoTo(r, FirstStep[q.op])
  BY DEF Start
<1>3. q.op \in {"create", "delete", "get", "list"} /\ (q.op # "list" => q.id \in Ids)
      /\ (q.op = "list" => q.id = NoId)
  BY InputFields, StoreAssumption DEF StoreAssumption, Inputs
<1>4. StageAt(FirstStep[q.op]) = "pending"
  BY <1>3 DEF FirstStep, StageAt
<1>5. Registry!Reach(r, "pending")
  BY <1>1, <1>2, <1>4, GoesAlike DEF SInv
<1>6. Asked' = [Asked EXCEPT ![r] = [op |-> q.op, id |-> q.id]]
  BY <1>1, <1>2 DEF Asked, SInv, TypeOK
<1>7. UNCHANGED view /\ deploys' = deploys /\ r \notin deploys /\ StageOf(r) = "idle"
  BY <1>1 DEF Start, cluster, local, SInv, Roles, RolesOf, Written, StageOf
<1>8. Containers' = Containers
  BY <1>1, <1>2, <1>7 DEF Containers, SInv, TypeOK
<1>9. Stage[r] = "idle"
  BY <1>7 DEF Stage
<1>10. CASE q.op = "list"
  BY <1>3, <1>5, <1>6, <1>7, <1>8, <1>9, <1>10
     DEF Registry!BeginList, Containers, Asked, Stage, NoId, Registry!NoId
<1>11. CASE q.op # "list"
  BY <1>3, <1>5, <1>6, <1>7, <1>8, <1>9, <1>11 DEF Registry!Begin, Containers, Asked, Stage
<1> QED BY <1>10, <1>11

(* A create with more than one external port is answered as it begins.     *)
LEMMA RejectRefines ==
  ASSUME LInv, NEW r \in Requests, RejectInvalid(r)
  PROVE  Registry!Begin(r)
<1>1. SInv
  BY DEF LInv, OInv
<1>2. PICK q \in Inputs : q.op = "create" /\ req' = [req EXCEPT ![r] = q]
  BY DEF RejectInvalid
<1>3. q.id \in Ids
  BY <1>2, InputFields
<1>4. Registry!Answer(r, "400")
  BY <1>1, AnswersAlike DEF RejectInvalid, SInv
<1>5. Asked' = [Asked EXCEPT ![r] = [op |-> "create", id |-> q.id]]
  BY <1>1, <1>2 DEF Asked, SInv, TypeOK
<1>6. UNCHANGED view /\ deploys' = deploys /\ r \notin deploys /\ StageOf(r) = "idle"
  BY <1>1 DEF RejectInvalid, cluster, local, SInv, Roles, RolesOf, Written, StageOf
<1>7. Containers' = Containers
  BY <1>1, <1>2, <1>6 DEF Containers, SInv, TypeOK
<1> QED BY <1>3, <1>4, <1>5, <1>6, <1>7 DEF Registry!Begin, Containers, Asked, Stage

(* The duplicate check refuses an ID that has a container, and only such   *)
(* an ID.                                                                  *)
LEMMA CheckRefines ==
  ASSUME LInv, NEW r \in Requests, CheckDuplicate(r)
  PROVE  Registry!Refuse(r) \/ Registry!Fail(r) \/ UNCHANGED Registry!rvars
<1>1. SInv
  BY DEF LInv, OInv
<1>2. /\ UNCHANGED <<req, deploys, view>> /\ pc[r] = "check" /\ req[r].op = "create"
      /\ Containers' = Containers /\ Asked' = Asked /\ StageOf(r) = "pending"
  BY <1>1, SameContainers, SameRequests, PendingAt
     DEF CheckDuplicate, Unchanging, cluster, ReadBreaks, local, SInv, Roles, RolesOf,
         CreateSteps
<1>3. ASSUME Answer(r, "409"), Labelled(deploys, req[r].id) # {} PROVE Registry!Refuse(r)
  <2>1. req[r].id \in Containers
    BY <1>3 DEF Containers, Labelled
  <2>2. Registry!Answer(r, "409")
    BY <1>1, <1>3, AnswersAlike DEF SInv
  <2> QED BY <1>2, <2>1, <2>2 DEF Registry!Refuse, Registry!Pending, Containers, Asked
<1>4. ASSUME Answer(r, "500") PROVE Registry!Fail(r)
  <2>1. Registry!Answer(r, "500")
    BY <1>1, <1>4, AnswersAlike DEF SInv
  <2> QED BY <1>2, <2>1 DEF Registry!Fail, Containers, Asked
<1>5. ASSUME GoTo(r, "createDeployment") PROVE UNCHANGED Registry!rvars
  <2>1. StageAt("createDeployment") = "pending"
    BY DEF StageAt
  <2>2. Stage' = Stage /\ code' = code
    BY <1>1, <1>2, <1>5, <2>1, StageStays DEF SInv
  <2> QED BY <1>2, <2>2 DEF Registry!rvars, Containers, Asked, Stage
<1> QED BY <1>3, <1>4, <1>5 DEF CheckDuplicate, ReadBreaks

(* Most steps change the stage of one request and nothing else.            *)
LEMMA CommonFacts ==
  ASSUME LInv, UNCHANGED <<req, deploys>>
  PROVE  SInv /\ TypeOK /\ Containers' = Containers /\ Asked' = Asked
BY SameContainers, SameRequests DEF LInv, OInv, SInv

(* A request that changed nothing may fail.                                *)
LEMMA FailRefines ==
  ASSUME LInv, UNCHANGED <<req, deploys, view>>, NEW r \in Requests, StageOf(r) = "pending",
         Answer(r, "500")
  PROVE  Registry!Fail(r)
BY CommonFacts, AnswersAlike DEF Registry!Fail, Containers, Asked

(* A request may go on within its stage.                                   *)
LEMMA StaysRefines ==
  ASSUME LInv, UNCHANGED <<req, deploys, view>>, NEW r \in Requests, NEW p,
         StageOf(r) = StageAt(p), GoTo(r, p)
  PROVE  UNCHANGED Registry!rvars
BY CommonFacts, StageStays DEF Registry!rvars, Containers, Asked, Stage

(* Creating the Deployment takes the ID, whatever the answer; a create     *)
(* whose generated name exists is refused for that and changes nothing.    *)
LEMMA CreateDeploymentRefines ==
  ASSUME LInv, NEW r \in Requests, CreateDeployment(r)
  PROVE  Registry!Take(r) \/ Registry!Fail(r) \/ Registry!Collide(r)
<1>1. SInv /\ TypeOK
  BY DEF LInv, OInv, SInv
<1>2. /\ UNCHANGED <<req, view>> /\ pc[r] = "createDeployment" /\ req[r].op = "create"
      /\ Asked' = Asked /\ StageOf(r) = "pending"
  BY <1>1, SameRequests, PendingAt DEF CreateDeployment, local, SInv, Roles, RolesOf, CreateSteps
<1>3. ASSUME deploys' = deploys \cup {r},
             \/ GoTo(r, "createService")
             \/ Answer(r, "201") \/ Answer(r, "500")
      PROVE  Registry!Take(r)
  <2>1. Containers' = Containers \cup {req[r].id}
    BY <1>2, <1>3 DEF Containers
  <2>2. req[r].id \notin Containers
    BY <1>2, ClearToTake
  <2>3. StageAt("createService") = "took"
    BY DEF StageAt
  <2>4. Registry!Reach(r, "took") \/ Registry!Answer(r, "201") \/ Registry!Answer(r, "500")
    BY <1>1, <1>3, <2>3, GoesAlike, AnswersAlike
  <2> QED BY <1>2, <2>1, <2>2, <2>4 DEF Registry!Take, Registry!Pending, Containers, Asked
<1>4. ASSUME deploys' = deploys, Answer(r, "500") PROVE Registry!Fail(r)
  BY <1>2, <1>4, FailRefines
<1>5. ASSUME deploys' = deploys, Answer(r, "409-name") PROVE Registry!Collide(r)
  BY <1>1, <1>2, <1>5, CommonFacts, AnswersAlike
     DEF Registry!Collide, Registry!Pending, Containers, Asked
<1> QED BY <1>3, <1>4, <1>5 DEF CreateDeployment

(* The Service decides what the create is answered.                        *)
LEMMA CreateServiceRefines ==
  ASSUME LInv, NEW r \in Requests, CreateService(r)
  PROVE  Registry!Confirm(r) \/ UNCHANGED Registry!rvars
<1>1. /\ UNCHANGED <<req, deploys, view>> /\ pc[r] = "createService"
      /\ GoTo(r, "rollback") \/ Answer(r, "201")
  BY DEF CreateService, local
<1>2. StageOf(r) = "took" /\ StageAt("rollback") = "took" /\ Stage[r] = "took"
  BY <1>1 DEF StageOf, StageAt, Stage
<1>3. CASE GoTo(r, "rollback")
  BY <1>1, <1>2, <1>3, StaysRefines
<1>4. CASE Answer(r, "201")
  BY <1>1, <1>2, <1>4, CommonFacts, AnswersAlike DEF Registry!Confirm, Containers, Asked, Stage
<1> QED BY <1>1, <1>3, <1>4

(* A rollback withdraws the container, or fails and leaves it.             *)
LEMMA RollbackRefines ==
  ASSUME LInv, NEW r \in Requests, Rollback(r)
  PROVE  Registry!Withdraw(r) \/ Registry!Confirm(r)
<1>1. SInv /\ TypeOK /\ UniqueInstanceId
  BY DEF LInv, OInv, SInv
<1>2. /\ UNCHANGED <<req, view>> /\ pc[r] = "rollback" /\ Answer(r, "500")
      /\ deploys' \in {deploys, deploys \ {r}}
  BY DEF Rollback, local
<1>3. Asked' = Asked /\ StageOf(r) = "took" /\ Registry!Answer(r, "500")
  BY <1>1, <1>2, SameRequests, AnswersAlike DEF StageOf
<1>4. CASE deploys' = deploys \ {r} /\ r \in deploys
  <2>1. Containers' = Containers \ {req[r].id}
    BY <1>1, <1>2, <1>4, Removed
  <2> QED BY <1>2, <1>3, <2>1 DEF Registry!Withdraw, Containers, Asked
<1>5. CASE deploys' = deploys
  BY <1>2, <1>3, <1>5, SameContainers DEF Registry!Confirm, Containers, Asked
<1> QED BY <1>2, <1>4, <1>5

(* Both searches for the Deployment of an ID.                              *)
LEMMA FindRefines ==
  ASSUME LInv, NEW r \in Requests, NEW from, NEW next, FindDeployment(r, from, next),
         StageOf(r) = "pending", req[r].op \in {"delete", "get"}
  PROVE  \/ Registry!Missing(r) \/ Registry!Fail(r)
         \/ /\ GoTo(r, next) /\ UNCHANGED <<req, deploys, view>>
            /\ req[r].id \in Containers
<1>1. UNCHANGED <<req, deploys, view>>
  BY DEF FindDeployment, Unchanging, cluster, ReadBreaks, local
<1>2. CASE Labelled(deploys, req[r].id) = {} /\ Answer(r, "404")
  <2>1. req[r].id \notin Containers
    BY <1>2 DEF Labelled, Containers
  <2> QED BY <1>1, <1>2, <2>1, CommonFacts, AnswersAlike
          DEF Registry!Missing, Registry!Pending, Containers, Asked
<1>3. CASE Answer(r, "500")
  BY <1>1, <1>3, FailRefines
<1>4. CASE GoTo(r, next) /\ Cardinality(Labelled(deploys, req[r].id)) = 1
  <2>1. Labelled(deploys, req[r].id) # {}
    BY <1>4, FS_EmptySet
  <2> QED BY <1>1, <1>4, <2>1 DEF Labelled, Containers
<1> QED BY <1>2, <1>3, <1>4 DEF FindDeployment, ReadBreaks

(* A delete finds the Deployment or nothing.                               *)
LEMMA FindToDeleteRefines ==
  ASSUME LInv, NEW r \in Requests, FindToDelete(r)
  PROVE  Registry!Missing(r) \/ Registry!Fail(r) \/ UNCHANGED Registry!rvars
<1>1. FindDeployment(r, "findToDelete", "listServices") /\ pc[r] = "findToDelete"
  BY DEF FindToDelete, FindDeployment
<1>2. StageOf(r) = "pending" /\ req[r].op = "delete" /\ StageAt("listServices") = "pending"
  BY <1>1, PendingAt DEF LInv, OInv, DeleteKnows, DeleteSteps, StageAt
<1> QED BY <1>1, <1>2, FindRefines, StaysRefines

(* Deleting Services does not change the containers.                       *)
LEMMA SweepRefines ==
  ASSUME LInv, NEW r \in Requests, ListServices(r) \/ DeleteService(r)
  PROVE  Registry!Fail(r) \/ UNCHANGED Registry!rvars
<1>1. /\ UNCHANGED <<req, deploys, view>> /\ pc[r] \in DeleteSteps
      /\ \/ Answer(r, "500")
         \/ GoTo(r, "deleteServices") \/ GoTo(r, "deleteDeployment")
  BY DEF ListServices, DeleteService, ReadBreaks, Unchanging, cluster, local, DeleteSteps
<1>2. /\ StageOf(r) = "pending"
      /\ StageAt("deleteServices") = "pending" /\ StageAt("deleteDeployment") = "pending"
  BY <1>1, PendingAt DEF LInv, OInv, StageAt
<1> QED BY <1>1, <1>2, FailRefines, StaysRefines

(* Deleting the Deployment gives the ID up, whatever the answer, since     *)
(* there is no other Deployment of that ID.                                *)
LEMMA DeleteDeploymentRefines ==
  ASSUME LInv, NEW r \in Requests, DeleteDeployment(r)
  PROVE  Registry!Remove(r) \/ Registry!Fail(r)
<1>1. SInv /\ TypeOK /\ UniqueInstanceId /\ DeleteKnows
  BY DEF LInv, OInv, SInv
<1>2. UNCHANGED <<req, view>> /\ pc[r] = "deleteDeployment"
  BY DEF DeleteDeployment, local
<1>3. StageOf(r) = "pending" /\ req[r].op = "delete" /\ Asked' = Asked
  BY <1>1, <1>2, PendingAt, SameRequests DEF DeleteKnows, DeleteSteps
<1>4. PICK d \in Requests : found[r] = {d} /\ req[d].id = req[r].id
  BY <1>1, <1>2 DEF DeleteKnows, Sweeping
<1>5. CASE d \in deploys /\ deploys' = deploys \ {d} /\ (Answer(r, "204") \/ Answer(r, "500"))
  <2>1. Containers' = Containers \ {req[r].id}
    BY <1>1, <1>2, <1>4, <1>5, Removed
  <2>2. req[r].id \in Containers
    BY <1>4, <1>5 DEF Containers
  <2>3. Registry!Answer(r, "204") \/ Registry!Answer(r, "500")
    BY <1>1, <1>5, AnswersAlike
  <2> QED BY <1>2, <1>3, <2>1, <2>2, <2>3 DEF Registry!Remove, Registry!Pending, Containers, Asked
<1>6. CASE deploys' = deploys /\ Answer(r, "500")
  BY <1>2, <1>3, <1>6, FailRefines
<1>7. \/ d \in deploys /\ deploys' = deploys \ {d} /\ (Answer(r, "204") \/ Answer(r, "500"))
      \/ deploys' = deploys /\ Answer(r, "500")
  <2>1. CASE d \in deploys
    BY <1>4, <2>1 DEF DeleteDeployment
  <2>2. CASE d \notin deploys
    <3>1. deploys \ {d} = deploys
      BY <2>2
    <3> QED BY <1>4, <2>2, <3>1 DEF DeleteDeployment
  <2> QED BY <2>1, <2>2
<1> QED BY <1>5, <1>6, <1>7

-----------------------------------------------------------------------------
(* A get that finds the Deployment has seen the container.                 *)
LEMMA FindToGetRefines ==
  ASSUME LInv, NEW r \in Requests, FindToGet(r)
  PROVE  Registry!Missing(r) \/ Registry!Fail(r) \/ Registry!See(r)
<1>1. FindDeployment(r, "findToGet", "readPods") /\ pc[r] = "findToGet"
  BY DEF FindToGet, FindDeployment
<1>2. StageOf(r) = "pending" /\ req[r].op = "get" /\ StageAt("readPods") = "saw"
  BY <1>1, PendingAt DEF LInv, OInv, SInv, Roles, RolesOf, StageAt
<1>3. ASSUME GoTo(r, "readPods"), UNCHANGED <<req, deploys, view>>, req[r].id \in Containers
      PROVE  Registry!See(r)
  <2>1. Registry!Reach(r, "saw")
    BY <1>2, <1>3, CommonFacts, GoesAlike
  <2> QED BY <1>2, <1>3, <2>1, CommonFacts DEF Registry!See, Registry!Pending, Containers, Asked
<1> QED BY <1>1, <1>2, <1>3, FindRefines

(* A list sees all containers at once.                                     *)
LEMMA ListDeploymentsRefines ==
  ASSUME LInv, NEW r \in Requests, ListDeployments(r)
  PROVE  Registry!See(r) \/ Registry!Fail(r)
<1>1. UNCHANGED <<req, deploys>> /\ pc[r] = "listDeployments"
  BY DEF ListDeployments, Unchanging, cluster
<1>2. StageOf(r) = "pending" /\ req[r].op = "list" /\ StageAt("readPods") = "saw"
  BY <1>1, PendingAt DEF LInv, OInv, SInv, Roles, RolesOf, StageAt
<1>3. CASE Answer(r, "500") /\ UNCHANGED view
  BY <1>1, <1>2, <1>3, FailRefines
<1>4. CASE view' = [view EXCEPT ![r] = Containers] /\ (Answer(r, "200") \/ GoTo(r, "readPods"))
  <2>1. Registry!Reach(r, "saw") \/ Registry!Answer(r, "200")
    BY <1>1, <1>2, <1>4, CommonFacts, GoesAlike, AnswersAlike
  <2> QED BY <1>1, <1>2, <1>4, <2>1, CommonFacts
          DEF Registry!See, Registry!Pending, Containers, Asked
<1> QED BY <1>3, <1>4 DEF ListDeployments, ReadBreaks, local, Containers

(* Reading Pods and Services changes no view of the containers.            *)
LEMMA ReadRefines ==
  ASSUME LInv, NEW r \in Requests, ReadPods(r) \/ ReadServices(r)
  PROVE  Registry!Report(r) \/ UNCHANGED Registry!rvars
<1>1. /\ UNCHANGED <<req, deploys, view>> /\ pc[r] \in {"readPods", "readServices"}
      /\ \/ Answer(r, "200") \/ Answer(r, "500")
         \/ GoTo(r, "readPods") \/ GoTo(r, "readServices")
  BY DEF ReadPods, ReadServices, ReadBreaks, Unchanging, cluster, local
<1>2. StageOf(r) = "saw" /\ StageAt("readPods") = "saw" /\ StageAt("readServices") = "saw"
  BY <1>1 DEF StageOf, StageAt
<1>3. CASE GoTo(r, "readPods") \/ GoTo(r, "readServices")
  BY <1>1, <1>2, <1>3, StaysRefines
<1>4. CASE Answer(r, "200") \/ Answer(r, "500")
  <2>1. Registry!Answer(r, "200") \/ Registry!Answer(r, "500")
    BY <1>1, <1>4, CommonFacts, AnswersAlike
  <2> QED BY <1>1, <1>2, <2>1, CommonFacts DEF Registry!Report, Containers, Asked
<1> QED BY <1>1, <1>3, <1>4

(* A crash abandons every request in flight.                               *)
LEMMA CrashRefines ==
  ASSUME LInv, Crash
  PROVE  Registry!Abandon
<1>1. UNCHANGED <<req, deploys, view, code>>
  BY DEF Crash, cluster, local
<1>2. Stage' = [r \in Requests |-> IF Stage[r] \in {"pending", "took", "saw"}
                                     THEN "gone" ELSE Stage[r]]
  <2>1. ASSUME NEW r \in Requests
        PROVE  Stage'[r] = IF Stage[r] \in {"pending", "took", "saw"} THEN "gone" ELSE Stage[r]
    <3>1. pc[r] \in Steps \cup {"idle", "answered", "crashed"}
      BY DEF LInv, OInv, SInv, TypeOK
    <3>2. CASE InFlight(r)
      <4>1. pc'[r] = "crashed" /\ Stage'[r] = "gone"
        BY <3>2 DEF Crash, Stage, StageOf
      <4>2. Stage[r] \in {"pending", "took", "saw"}
        BY <3>2 DEF InFlight, Stage, StageOf, Steps, CreateSteps, DeleteSteps, ReadSteps
      <4> QED BY <4>1, <4>2
    <3>3. CASE ~InFlight(r)
      <4>1. pc'[r] = pc[r] /\ pc[r] \in {"idle", "answered", "crashed"}
        BY <3>1, <3>3 DEF Crash, InFlight
      <4> QED BY <4>1 DEF Stage, StageOf
    <3> QED BY <3>2, <3>3
  <2> QED BY <2>1 DEF Stage
<1> QED BY <1>1, <1>2, CommonFacts DEF Registry!Abandon, Containers, Asked, Stage

(* Pods, and the Services, are not the registry's.                         *)
LEMMA StutterRefines ==
  ASSUME LInv, UNCHANGED <<req, deploys, view, pc, code>>
  PROVE  UNCHANGED Registry!rvars
<1>1. Stage' = Stage
  BY DEF Stage, StageOf
<1> QED BY <1>1, CommonFacts DEF Registry!rvars, Containers, Asked, Stage

-----------------------------------------------------------------------------
(* Every step of the store is a step of the registry or none.              *)
LEMMA StepRefines ==
  ASSUME LInv, [Next]_vars
  PROVE  [Registry!Next]_(Registry!rvars)
<1>1. CASE UNCHANGED vars
  BY <1>1, StutterRefines DEF vars, cluster, local
<1>2. CASE Crash
  BY <1>2, CrashRefines DEF Registry!Next
<1>3. ASSUME NEW r \in Requests, Start(r) \/ RejectInvalid(r)
      PROVE  [Registry!Next]_(Registry!rvars)
  BY <1>3, StartRefines, RejectRefines DEF Registry!Next
<1>4. ASSUME NEW r \in Requests, Create(r)
      PROVE  [Registry!Next]_(Registry!rvars)
  BY <1>4, CheckRefines, CreateDeploymentRefines, CreateServiceRefines, RollbackRefines
     DEF Create, Registry!Next
<1>5. ASSUME NEW r \in Requests, Delete(r)
      PROVE  [Registry!Next]_(Registry!rvars)
  BY <1>5, FindToDeleteRefines, SweepRefines, DeleteDeploymentRefines DEF Delete, Registry!Next
<1>6. ASSUME NEW r \in Requests, Read(r)
      PROVE  [Registry!Next]_(Registry!rvars)
  BY <1>6, FindToGetRefines, ListDeploymentsRefines, ReadRefines DEF Read, Registry!Next
<1>7. ASSUME NEW r \in Requests, PodStarts(r) \/ PodEnds(r)
      PROVE  [Registry!Next]_(Registry!rvars)
  BY <1>7, StutterRefines DEF PodStarts, PodEnds, cluster, local
<1> QED BY <1>1, <1>2, <1>3, <1>4, <1>5, <1>6, <1>7 DEF Next

(* Requests are linearizable as long as clients wait for the answer to a   *)
(* change of an ID before the next one, for any number of IDs, requests,   *)
(* Pods, failing calls and crashes: the store implements the registry.     *)
THEOREM StoreLinearizable ==
  ASSUME SerialWriters PROVE Spec => Linearizable
<1>1. Init => Registry!Init
  BY InitRefines
<1>2. LInv /\ [Next]_vars => [Registry!Next]_(Registry!rvars)
  BY StepRefines
<1> QED BY <1>1, <1>2, SerialInvariance, PTL
        DEF Spec, Linearizable, Registry!Spec
=============================================================================
