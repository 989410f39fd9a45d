------------------------ MODULE ContainerStoreObjects ------------------------
(***************************************************************************)
(* What the store leaves in the cluster, for every set of IDs and requests *)
(* and every bound on Pods, failing calls and crashes: where Services      *)
(* without a container come from, what a create answered 201 has, and that *)
(* a delete answered 204 leaves nothing.                                   *)
(*                                                                         *)
(* All of it rests on the inductive invariant OInv, which adds to SInv     *)
(* what deletes know and find and what creates keep.  Clients that wait    *)
(* for their answers give LInv besides.                                    *)
(***************************************************************************)
EXTENDS ContainerStoreProofs, FiniteSetTheorems

(* The steps of a delete that has found its Deployment.                    *)
Sweeping == {"listServices", "deleteServices", "deleteDeployment"}

(* A delete works on one Deployment and on Services of its ID.             *)
DeleteKnows ==
  \A r \in Requests :
    /\ pc[r] \in DeleteSteps => req[r].op = "delete"
    /\ pc[r] \in Sweeping =>
         \E d \in Requests : found[r] = {d} /\ req[d].op = "create" /\ req[d].id = req[r].id
    /\ pc[r] = "deleteServices" =>
         \A s \in left[r] : req[s].op = "create" /\ req[s].id = req[r].id

(* A Service is made by a create that has nothing left to do, but for its  *)
(* rollback if the response was lost.                                      *)
ServiceRoles ==
  \A s \in services :
    /\ req[s].op = "create" /\ code[s] # "400"
    /\ pc[s] \in Over \/ (pc[s] = "rollback" /\ s \in lostServices)

(* A delete finds every Service of the requests that were over before it,  *)
(* and has deleted them before it deletes the Deployment.                  *)
SweepSees ==
  \A d \in Requests : \A s \in ended[d] \cap services :
    /\ pc[d] = "deleteServices" => s \in left[d]
    /\ pc[d] # "deleteDeployment"

(* A delete of its ID was in flight with the request s.                    *)
DeleteOverlaps(s) == \E d \in Requests : req[d].op = "delete" /\ Overlap(d, s)

(* A Service, or a create about to make one, has its Deployment, unless a  *)
(* delete of the ID overlaps the create.                                   *)
DeploymentStays ==
  \A s \in Requests :
    s \in services \ lostServices \/ pc[s] = "createService" =>
      s \in deploys \/ DeleteOverlaps(s)

(* The Deployments are finitely many, however many requests there are.     *)
Finite == IsFiniteSet(deploys)

(* The inductive invariant.                                                *)
OInv ==
  /\ SInv /\ Finite /\ DeleteKnows /\ ServiceRoles
  /\ SweepSees /\ DeploymentStays /\ CreatedIsComplete

(* The Deployments with one ID, which FindDeployment counts, are finite.   *)
LEMMA LabelledFinite == Finite => \A i : IsFiniteSet(Labelled(deploys, i))
<1> SUFFICES ASSUME Finite, NEW i PROVE IsFiniteSet(Labelled(deploys, i))
  OBVIOUS
<1>1. Labelled(deploys, i) \in SUBSET deploys
  BY DEF Labelled
<1> QED BY <1>1, FS_Subset DEF Finite

(* A step adds one Deployment at most.                                     *)
LEMMA FiniteStep == Finite /\ [Next]_vars => Finite'
<1> SUFFICES ASSUME Finite, [Next]_vars PROVE IsFiniteSet(deploys')
  BY DEF Finite
<1>1. \/ deploys' \in SUBSET deploys
      \/ \E r \in Requests : deploys' = deploys \cup {r}
  BY DEF Next, Create, Delete, Read, Start, RejectInvalid, CheckDuplicate, CreateDeployment,
     CreateService, Rollback, FindToDelete, FindToGet, FindDeployment, ListServices,
     DeleteService, DeleteDeployment, ListDeployments, ReadPods, ReadServices, PodStarts,
     PodEnds, Crash, Unchanging, vars, cluster
<1> QED BY <1>1, FS_Subset, FS_AddElement DEF Finite

(* The initial states satisfy the inductive invariant.                     *)
LEMMA InitOInv == Init => OInv
BY InitSInv, FS_EmptySet
   DEF OInv, Finite, Init, DeleteKnows, ServiceRoles, SweepSees, DeploymentStays,
       CreatedIsComplete, DeleteSteps, Sweeping

-----------------------------------------------------------------------------
(* What a step may do to the objects, and to the create x that makes them: *)
(* an object appears, and an answer is given, at the step that says so.    *)
Adds(x) ==
  /\ x \in services' \ services =>
       /\ pc[x] = "createService"
       /\ pc'[x] = "answered" \/ (pc'[x] = "rollback" /\ x \in lostServices')
       /\ code'[x] # "400"
  /\ x \in lostServices => x \in lostServices'
  /\ pc'[x] = "createService" /\ pc[x] # "createService" => x \in deploys'
  /\ code'[x] = "201" /\ code[x] # "201" =>
       \/ pc[x] = "createDeployment" /\ x \in deploys' /\ ~req'[x].ports
       \/ pc[x] = "createService" /\ x \in services'
  /\ code'[x] = "400" /\ code[x] # "400" => pc[x] = "idle"
  /\ pc'[x] = "rollback" /\ pc[x] # "rollback" => pc[x] = "createService"
  /\ pc[x] = "rollback" =>
       pc'[x] \in {"rollback", "answered", "crashed"} /\ code'[x] \in {code[x], "500"}

(* Who takes an object of the create x away.                               *)
Removes(x) ==
  /\ x \in deploys \ deploys' =>
       \/ pc[x] = "rollback" /\ pc'[x] = "answered" /\ code'[x] = "500"
       \/ \E d \in Requests : pc[d] = "deleteDeployment" /\ x \in found[d]
  /\ x \in services \ services' =>
       \E d \in Requests : pc[d] = "deleteServices" /\ x \in left[d]

(* What a step of a delete may do to what it knows.                        *)
Sweeps(d) ==
  /\ pc'[d] = "deleteServices" /\ pc[d] # "deleteServices" =>
       left'[d] = Labelled(services, req[d].id) /\ UNCHANGED services
  /\ pc'[d] = "deleteServices" /\ pc[d] = "deleteServices" =>
       \A s \in left[d] : s \in left'[d] \/ s \notin services'
  /\ pc'[d] = "deleteServices" /\ pc[d] = "deleteServices" => left'[d] \subseteq left[d]
  /\ pc'[d] = "deleteDeployment" /\ pc[d] # "deleteDeployment" =>
       \/ pc[d] = "listServices" /\ Labelled(services, req[d].id) = {} /\ UNCHANGED services
       \/ pc[d] = "deleteServices" /\ \A s \in left[d] : s \notin services'
  /\ pc'[d] \in Sweeping =>
       \/ pc[d] \in Sweeping /\ found'[d] = found[d]
       \/ /\ pc[d] = "findToDelete" /\ UNCHANGED req
          /\ \E x \in deploys : found'[d] = {x} /\ req[x].id = req[d].id
  /\ pc'[d] \in DeleteSteps =>
       pc[d] \in DeleteSteps \/ (pc[d] = "idle" /\ req'[d].op = "delete")

(* What all actions respect, so that the invariant's parts follow without  *)
(* going through the actions again.                                        *)
Effects == \A x \in Requests : Adds(x) /\ Removes(x) /\ Sweeps(x)

(* Every step of the store respects Effects.                               *)
LEMMA StepEffects == SInv /\ Finite /\ [Next]_vars => Effects
<1> SUFFICES ASSUME TypeOK, Roles, Finite, [Next]_vars PROVE Effects
  BY DEF SInv
<1> USE DEF TypeOK, Effects, Adds, Removes, Sweeps, Sweeping, DeleteSteps, Works, Breaks,
            ReadBreaks, Answer, GoTo, Unchanging, cluster, local, history
<1>1. CASE UNCHANGED vars
  BY <1>1 DEF vars
<1>2. ASSUME NEW r \in Requests, Start(r) PROVE Effects
  <2>1. PICK q \in Inputs :
          /\ req' = [req EXCEPT ![r] = q]
          /\ GoTo(r, FirstStep[q.op])
    BY <1>2 DEF Start
  <2>2. /\ FirstStep[q.op] \notin {"createService", "rollback"} \cup Sweeping
        /\ FirstStep[q.op] \in DeleteSteps => q.op = "delete"
    <3>1. q.op \in {"create", "delete", "get", "list"}
      BY InputFields, StoreAssumption DEF StoreAssumption
    <3> QED BY <3>1 DEF FirstStep
  <2> QED BY <1>2, <2>1, <2>2 DEF Start
<1>3. ASSUME NEW r \in Requests, RejectInvalid(r) PROVE Effects
  BY <1>3 DEF RejectInvalid, Answer
<1>4. ASSUME NEW r \in Requests, CheckDuplicate(r) PROVE Effects
  BY <1>4 DEF CheckDuplicate
<1>5. ASSUME NEW r \in Requests, CreateDeployment(r) PROVE Effects
  BY <1>5 DEF CreateDeployment
<1>6. ASSUME NEW r \in Requests, CreateService(r) PROVE Effects
  BY <1>6 DEF CreateService, Roles, RolesOf
<1>7. ASSUME NEW r \in Requests, Rollback(r) PROVE Effects
  BY <1>7 DEF Rollback
<1>8. ASSUME NEW r \in Requests, FindToDelete(r) PROVE Effects
  <2>1. \A i : Cardinality(Labelled(deploys, i)) = 1 => \E x : Labelled(deploys, i) = {x}
    BY LabelledFinite, FS_Singleton
  <2>2. /\ pc[r] = "findToDelete" /\ UNCHANGED <<req, deploys, services, lostServices, left>>
        /\ \A d \in Requests \ {r} : found'[d] = found[d]
        /\ pc' \in {[pc EXCEPT ![r] = "answered"], [pc EXCEPT ![r] = "listServices"]}
        /\ \/ code' = code
           \/ pc'[r] = "answered" /\ \E c \in {"404", "500"} : code' = [code EXCEPT ![r] = c]
    BY <1>8 DEF FindToDelete, FindDeployment
  <2>3. ASSUME pc'[r] = "listServices"
        PROVE  \E x \in deploys : found'[r] = {x} /\ req[x].id = req[r].id
    <3>1. found'[r] = Labelled(deploys, req[r].id) /\ Cardinality(found'[r]) = 1
      BY <1>8, <2>3 DEF FindToDelete, FindDeployment
    <3>2. PICK x : Labelled(deploys, req[r].id) = {x}
      BY <2>1, <3>1
    <3> QED BY <3>1, <3>2 DEF Labelled
  <2> QED BY <2>2, <2>3
<1>9. ASSUME NEW r \in Requests, FindToGet(r) PROVE Effects
  BY <1>9 DEF FindToGet, FindDeployment
<1>10. ASSUME NEW r \in Requests, ListServices(r) PROVE Effects
  BY <1>10 DEF ListServices
<1>11. ASSUME NEW r \in Requests, DeleteService(r) PROVE Effects
  BY <1>11 DEF DeleteService
<1>12. ASSUME NEW r \in Requests, DeleteDeployment(r) PROVE Effects
  BY <1>12 DEF DeleteDeployment
<1>13. ASSUME NEW r \in Requests, ListDeployments(r) PROVE Effects
  BY <1>13 DEF ListDeployments
<1>14. ASSUME NEW r \in Requests, ReadPods(r) PROVE Effects
  BY <1>14 DEF ReadPods
<1>15. ASSUME NEW r \in Requests, ReadServices(r) PROVE Effects
  BY <1>15 DEF ReadServices
<1>16. ASSUME NEW r \in Requests, PodStarts(r) \/ PodEnds(r) PROVE Effects
  BY <1>16 DEF PodStarts, PodEnds
<1>17. CASE Crash
  BY <1>17 DEF Crash, InFlight, Steps, ReadSteps
<1> QED
  BY <1>1, <1>2, <1>3, <1>4, <1>5, <1>6, <1>7, <1>8, <1>9, <1>10, <1>11, <1>12, <1>13, <1>14,
     <1>15, <1>16, <1>17
     DEF Next, Create, Delete, Read

-----------------------------------------------------------------------------
(* A delete keeps what it has found until it ends, and finds only objects  *)
(* of its ID.                                                              *)
LEMMA KnowsStep == OInv /\ [Next]_vars => DeleteKnows'
<1> SUFFICES ASSUME OInv, [Next]_vars, NEW r \in Requests
             PROVE  /\ pc'[r] \in DeleteSteps => req'[r].op = "delete"
                    /\ pc'[r] \in Sweeping =>
                         \E d \in Requests :
                           found'[r] = {d} /\ req'[d].op = "create" /\ req'[d].id = req'[r].id
                    /\ pc'[r] = "deleteServices" =>
                         \A s \in left'[r] : req'[s].op = "create" /\ req'[s].id = req'[r].id
  BY DEF DeleteKnows
<1>1. Facts /\ Effects /\ TypeOK /\ Roles /\ DeleteKnows /\ ServiceRoles
  BY StepFacts, StepEffects DEF OInv, SInv
<1>2. \A t \in Requests : req[t].op \in {"create", "delete"} => req'[t] = req[t]
  BY <1>1 DEF Facts, Lasting, Roles, RolesOf, NoRequest
<1>3. pc'[r] \in DeleteSteps => req'[r].op = "delete"
  BY <1>1, <1>2 DEF Effects, Sweeps, DeleteKnows
<1>4. pc[r] \in DeleteSteps => req'[r] = req[r]
  BY <1>1, <1>2 DEF DeleteKnows
<1>5. ASSUME pc'[r] \in Sweeping
      PROVE  \E d \in Requests :
               found'[r] = {d} /\ req'[d].op = "create" /\ req'[d].id = req'[r].id
  <2>1. CASE pc[r] \in Sweeping /\ found'[r] = found[r]
    BY <1>1, <1>2, <1>4, <2>1 DEF DeleteKnows, DeleteSteps, Sweeping
  <2>2. CASE /\ pc[r] = "findToDelete" /\ UNCHANGED req
             /\ \E x \in deploys : found'[r] = {x} /\ req[x].id = req[r].id
    BY <1>1, <2>2 DEF Roles, RolesOf, TypeOK
  <2> QED BY <1>1, <1>5, <2>1, <2>2 DEF Effects, Sweeps
<1>6. ASSUME pc'[r] = "deleteServices", NEW s \in left'[r]
      PROVE  req'[s].op = "create" /\ req'[s].id = req'[r].id
  <2>1. pc[r] \in DeleteSteps
    BY <1>1, <1>6 DEF Effects, Sweeps, Sweeping, DeleteSteps
  <2>2. s \in Requests /\ req[s].op = "create" /\ req[s].id = req[r].id
    BY <1>1, <1>6 DEF Effects, Sweeps, DeleteKnows, Labelled, ServiceRoles, TypeOK
  <2> QED BY <1>2, <1>4, <2>1, <2>2
<1> QED BY <1>3, <1>5, <1>6

(* Only a create that is answered, or that rolls back after a lost         *)
(* response, makes a Service.                                              *)
LEMMA ServicesStep == OInv /\ [Next]_vars => ServiceRoles'
<1> SUFFICES ASSUME OInv, [Next]_vars, NEW s \in services'
             PROVE  /\ req'[s].op = "create" /\ code'[s] # "400"
                    /\ pc'[s] \in Over \/ (pc'[s] = "rollback" /\ s \in lostServices')
  BY DEF ServiceRoles
<1>1. Facts /\ Effects /\ TypeOK /\ TypeOK' /\ Roles /\ Roles' /\ ServiceRoles
  BY StepFacts, StepEffects, TypeStep, RolesStep DEF OInv, SInv
<1>2. s \in Requests
  BY <1>1 DEF TypeOK
<1>3. CASE s \notin services
  BY <1>1, <1>2, <1>3 DEF Effects, Adds, Facts, Lasting, Roles, RolesOf, CreateSteps, Over
<1>4. CASE s \in services
  <2>1. CASE pc[s] \in Over
    BY <1>1, <1>2, <1>4, <2>1 DEF ServiceRoles, Facts, Lasting, Over
  <2>2. CASE pc[s] = "rollback" /\ s \in lostServices
    BY <1>1, <1>2, <1>4, <2>2 DEF ServiceRoles, Facts, Lasting, Effects, Adds, OInv, Over
  <2> QED BY <1>1, <1>4, <2>1, <2>2 DEF ServiceRoles
<1> QED BY <1>3, <1>4

(* No create that was over when the delete began makes a Service later, so *)
(* the list the delete takes has them all, and it deletes every Service of *)
(* its list.                                                               *)
LEMMA SweepStep == OInv /\ [Next]_vars => SweepSees'
<1> SUFFICES ASSUME OInv, [Next]_vars, NEW d \in Requests, NEW s \in ended'[d], s \in services'
             PROVE  /\ pc'[d] = "deleteServices" => s \in left'[d]
                    /\ pc'[d] # "deleteDeployment"
  BY DEF SweepSees
<1>1. Facts /\ Effects /\ TypeOK /\ TypeOK' /\ DeleteKnows /\ SweepSees /\ EndedIsOver
  BY StepFacts, StepEffects, TypeStep DEF OInv, SInv
<1>2. s \in Requests
  BY <1>1 DEF TypeOK
<1>3. CASE pc[d] = "idle"
  BY <1>1, <1>3 DEF Effects, Sweeps, Sweeping, DeleteSteps
<1>4. CASE pc[d] # "idle"
  <2>1. s \in ended[d] /\ req[s].id = req[d].id /\ s \in services
    BY <1>1, <1>2, <1>4 DEF Facts, Lasting, EndedIsOver, Effects, Adds, Over
  <2>2. s \in Labelled(services, req[d].id)
    BY <2>1 DEF Labelled
  <2> QED BY <1>1, <2>1, <2>2 DEF SweepSees, Effects, Sweeps
<1> QED BY <1>3, <1>4

-----------------------------------------------------------------------------
(* Requests that have begun keep overlapping.                              *)
LEMMA OverlapStays ==
  ASSUME SInv, [Next]_vars, NEW r \in Requests, NEW s \in Requests,
         pc[r] # "idle", pc[s] # "idle"
  PROVE  /\ Overlap(r, s) => Overlap(r, s)'
         /\ r \notin ended[s] => r \notin ended'[s]
         /\ req'[r] = req[r] /\ req'[s] = req[s]
BY StepFacts DEF Facts, Lasting, Overlap

(* Only its rollback or a delete that was not over when it began takes a   *)
(* create's Deployment away, and only such a delete its Service.           *)
Taker(d, x) ==
  /\ req[d].op = "delete" /\ req[d].id = req[x].id
  /\ d \notin ended[x] /\ pc[d] # "idle"

(* A Deployment outside its rollback and a Service are taken away by       *)
(* deletes only.                                                           *)
LEMMA TakenByDelete ==
  ASSUME OInv, [Next]_vars, NEW x \in Requests
  PROVE  /\ x \in deploys \ deploys' /\ pc[x] # "rollback" =>
              \E d \in Requests : Taker(d, x) /\ pc[d] = "deleteDeployment"
         /\ x \in services \ services' => \E d \in Requests : Taker(d, x)
<1>1. Effects /\ DeleteKnows /\ EndedIsOver /\ Roles
  BY StepEffects DEF OInv, SInv
<1>2. ASSUME NEW d \in Requests, pc[d] = "deleteDeployment", x \in found[d]
      PROVE  Taker(d, x)
  BY <1>1, <1>2 DEF DeleteKnows, DeleteSteps, Sweeping, EndedIsOver, Over, Taker
<1>3. ASSUME NEW d \in Requests, pc[d] = "deleteServices", x \in left[d]
      PROVE  Taker(d, x)
  BY <1>1, <1>3 DEF DeleteKnows, DeleteSteps, Sweeping, EndedIsOver, Over, Taker
<1> QED BY <1>1, <1>2, <1>3 DEF Effects, Removes

(* Such a delete overlaps the create, since it would have swept the        *)
(* Services of an earlier one before it took the Deployment.               *)
LEMMA StaysStep == OInv /\ [Next]_vars => DeploymentStays'
<1> SUFFICES ASSUME OInv, [Next]_vars, NEW s \in Requests,
                    s \in services' \ lostServices' \/ pc'[s] = "createService"
             PROVE  s \in deploys' \/ DeleteOverlaps(s)'
  BY DEF DeploymentStays
<1>1. /\ SInv /\ Effects /\ TypeOK /\ Roles /\ EndedIsOver
      /\ ServiceRoles /\ SweepSees /\ DeploymentStays
  BY StepEffects DEF OInv, SInv
<1>2. ASSUME NEW d \in Requests, req[d].op = "delete", Overlap(d, s), pc[s] # "idle"
      PROVE  DeleteOverlaps(s)'
  <2>1. pc[d] # "idle"
    BY <1>1, <1>2 DEF Roles, RolesOf, NoRequest
  <2> QED BY <1>1, <1>2, <2>1, OverlapStays DEF DeleteOverlaps
<1>3. CASE s \in services \ lostServices \/ pc[s] = "createService"
  <2>1. pc[s] # "idle" /\ pc[s] # "rollback" /\ req[s].op = "create"
    BY <1>1, <1>3 DEF ServiceRoles, Over, Roles, RolesOf, CreateSteps
  <2>2. CASE DeleteOverlaps(s)
    BY <1>2, <2>1, <2>2 DEF DeleteOverlaps
  <2>3. CASE s \in deploys /\ s \notin deploys'
    <3>1. PICK d \in Requests : Taker(d, s) /\ pc[d] = "deleteDeployment"
      BY <2>1, <2>3, TakenByDelete
    <3>2. s \notin ended[d]
      BY <1>1, <1>3, <3>1 DEF EndedIsOver, Over, SweepSees
    <3> QED BY <1>2, <2>1, <3>1, <3>2 DEF Taker, Overlap
  <2> QED BY <1>1, <1>3, <2>2, <2>3 DEF DeploymentStays
<1>4. CASE ~(s \in services \ lostServices \/ pc[s] = "createService")
  BY <1>1, <1>4 DEF Effects, Adds
<1> QED BY <1>3, <1>4

(* What a create answered 201 made disappears only through a delete that   *)
(* was not over when the create began.                                     *)
LEMMA CompleteStep == OInv /\ [Next]_vars => CreatedIsComplete'
<1> SUFFICES ASSUME OInv, [Next]_vars, NEW r \in Requests, code'[r] = "201",
                    ~(r \in deploys' /\ (req'[r].ports => r \in services'))
             PROVE  \E d \in Requests :
                      /\ req'[d].id = req'[r].id
                      /\ req'[d].op = "delete" /\ d \notin ended'[r]
  BY DEF CreatedIsComplete, Labelled
<1>1. /\ SInv /\ Facts /\ Effects /\ TypeOK
      /\ Roles /\ Roles' /\ DeploymentStays /\ CreatedIsComplete
  BY StepFacts, StepEffects, RolesStep DEF OInv, SInv
<1>2. ASSUME NEW d \in Requests, req[d].op = "delete", req[d].id = req[r].id, d \notin ended[r],
             pc[r] # "idle"
      PROVE  /\ req'[d].id = req'[r].id
             /\ req'[d].op = "delete" /\ d \notin ended'[r]
  <2>1. pc[d] # "idle"
    BY <1>1, <1>2 DEF Roles, RolesOf, NoRequest
  <2> QED BY <1>1, <1>2, <2>1, OverlapStays
<1>3. ASSUME r \in deploys, r \notin deploys', pc[r] # "rollback", pc[r] # "idle"
      PROVE  \E d \in Requests :
               req'[d].id = req'[r].id /\ req'[d].op = "delete" /\ d \notin ended'[r]
  BY <1>2, <1>3, TakenByDelete DEF Taker
<1>4. ASSUME r \in services, r \notin services', pc[r] # "idle"
      PROVE  \E d \in Requests :
               req'[d].id = req'[r].id /\ req'[d].op = "delete" /\ d \notin ended'[r]
  BY <1>2, <1>4, TakenByDelete DEF Taker
<1>5. CASE code[r] = "201"
  <2>1. pc[r] = "answered" /\ req'[r] = req[r]
    BY <1>1, <1>5 DEF Roles, RolesOf, Facts, Lasting
  <2> QED BY <1>1, <1>2, <1>3, <1>4, <1>5, <2>1 DEF CreatedIsComplete, Labelled
<1>6. CASE code[r] # "201" /\ pc[r] = "createDeployment"
  BY <1>1, <1>6 DEF Effects, Adds
<1>7. CASE code[r] # "201" /\ pc[r] = "createService"
  <2>1. r \in services'
    BY <1>1, <1>7 DEF Effects, Adds
  <2> QED BY <1>1, <1>2, <1>3, <1>7, <2>1 DEF DeploymentStays, DeleteOverlaps, Overlap
<1> QED BY <1>1, <1>5, <1>6, <1>7 DEF Effects, Adds

-----------------------------------------------------------------------------
(* The inductive invariant of what the store keeps in the cluster.         *)
LEMMA ObjectsInvariance == Spec => []OInv
<1>1. OInv /\ [Next]_vars => OInv'
  BY TypeStep, RolesStep, EndedStep, CheckStep, FiniteStep, KnowsStep, ServicesStep, SweepStep,
     StaysStep, CompleteStep DEF OInv, SInv
<1> QED BY InitOInv, <1>1, PTL DEF Spec

(* Where Services without a container come from, whatever clients do: a    *)
(* create call that lost its response, or a delete in flight with the      *)
(* create; never a failed, crashed or repeated delete, nor a rollback.     *)
THEOREM OrphansExplained == Spec => []OrphanExplained
<1>1. OInv => OrphanExplained
  <2> SUFFICES ASSUME OInv, NEW s \in services, Orphan(s)
               PROVE  s \in lostServices \/ DeleteOverlaps(s)
    BY DEF OrphanExplained, DeleteOverlaps
  <2>1. s \in Requests
    BY DEF OInv, SInv, TypeOK
  <2>2. s \notin deploys
    BY DEF Orphan, Labelled
  <2> QED BY <2>1, <2>2 DEF OInv, DeploymentStays
<1> QED BY ObjectsInvariance, <1>1, PTL

(* A create answered 201 has both its objects unless a delete of its ID    *)
(* was in flight with it or came later.                                    *)
THEOREM CreatedStaysComplete == Spec => []CreatedIsComplete
<1>1. OInv => CreatedIsComplete
  BY DEF OInv
<1> QED BY ObjectsInvariance, <1>1, PTL

-----------------------------------------------------------------------------
(* Of two changes of one ID, one was over when the other began.            *)
LEMMA OrderedInvariance ==
  ASSUME SerialWriters PROVE Spec => []WritersOrdered
<1>1. Init => WritersOrdered
  BY DEF Init, WritersOrdered, Writer
<1>2. SInv /\ WritersOrdered /\ [Next]_vars => WritersOrdered'
  BY OrderedStep
<1> QED BY StoreInvariance, <1>1, <1>2, PTL DEF Spec

(* Only creates are answered 400.                                          *)
RejectsCreates == \A r \in Requests : code[r] = "400" => req[r].op = "create"

(* A request answered 400 took no part, and is a create.                   *)
LEMMA RejectsInvariance == Spec => []RejectsCreates
<1>1. Init => RejectsCreates
  BY DEF Init, RejectsCreates
<1>2. SInv /\ RejectsCreates /\ [Next]_vars => RejectsCreates'
  <2> SUFFICES ASSUME SInv, RejectsCreates, [Next]_vars, NEW r \in Requests, code'[r] = "400"
               PROVE  req'[r].op = "create"
    BY DEF RejectsCreates
  <2>1. CASE code[r] = "400"
    BY <2>1, StepFacts DEF SInv, RejectsCreates, Roles, RolesOf, Facts, Lasting
  <2>2. CASE code[r] # "400"
    <3>1. \E q \in Requests : RejectInvalid(q)
      BY <2>2
         DEF SInv, TypeOK, Next, Create, Delete, Read, Start, CheckDuplicate, CreateDeployment,
         CreateService, Rollback, FindToDelete, FindToGet, FindDeployment, ListServices,
         DeleteService, DeleteDeployment, ListDeployments, ReadPods, ReadServices, PodStarts,
         PodEnds, Crash, ReadBreaks, Answer, GoTo, vars
    <3> QED BY <2>2, <3>1 DEF RejectInvalid, Answer, SInv, TypeOK
  <2> QED BY <2>1, <2>2
<1> QED BY StoreInvariance, <1>1, <1>2, PTL DEF Spec

(* For clients that wait, a delete never overlaps a create of its ID, and  *)
(* a lost response is the only source of Services without a container.     *)
THEOREM OrphansWhenSerial ==
  ASSUME SerialWriters PROVE Spec => []OrphanOnlyFromLostResponse
<1>1. OInv /\ WritersOrdered /\ RejectsCreates => OrphanOnlyFromLostResponse
  <2> SUFFICES ASSUME OInv, WritersOrdered, RejectsCreates, NEW s \in services, Orphan(s),
                      s \notin lostServices
               PROVE  FALSE
    BY DEF OrphanOnlyFromLostResponse
  <2>1. s \in Requests /\ Writer(s)
    BY DEF OInv, SInv, TypeOK, ServiceRoles, Over, Writer, Changes
  <2>2. s \notin deploys
    BY DEF Orphan, Labelled
  <2>3. PICK d \in Requests : req[d].op = "delete" /\ Overlap(d, s)
    BY <2>1, <2>2 DEF OInv, DeploymentStays, DeleteOverlaps
  <2>4. Writer(d)
    BY <2>3 DEF OInv, SInv, Roles, RolesOf, NoRequest, RejectsCreates, Writer, Changes
  <2> QED BY <2>1, <2>3, <2>4 DEF WritersOrdered, Overlap
<1> QED BY ObjectsInvariance, OrderedInvariance, RejectsInvariance, <1>1, PTL

(* What holds besides when clients wait for their answers.                 *)
LInv == OInv /\ WritersOrdered /\ RejectsCreates /\ UniqueInstanceId

(* LInv holds in every state if clients wait.                              *)
LEMMA SerialInvariance ==
  ASSUME SerialWriters PROVE Spec => []LInv
<1>1. OInv /\ WritersOrdered /\ RejectsCreates /\ UniqueInstanceId => LInv
  BY DEF LInv
<1> QED BY <1>1, ObjectsInvariance, OrderedInvariance, RejectsInvariance, UniqueWhenSerial, PTL

(* A delete that is answered 204 leaves no Deployment and no Service with  *)
(* its ID, those that earlier failures left behind included.               *)
THEOREM DeletedIsGone ==
  ASSUME SerialWriters PROVE Spec => DeletedMeansGone
<1>1. ASSUME LInv, [Next]_vars, NEW r \in Requests, code[r] # "204", code'[r] = "204"
      PROVE  Labelled(deploys, req[r].id)' = {} /\ Labelled(services, req[r].id)' = {}
  <2>1. SInv /\ DeleteKnows /\ ServiceRoles /\ SweepSees /\ WritersOrdered /\ UniqueInstanceId
    BY <1>1 DEF LInv, OInv
  <2>2. /\ pc[r] = "deleteDeployment" /\ UNCHANGED <<req, services>>
        /\ deploys' = deploys \ found[r] /\ found[r] \subseteq deploys
    <3>1. \E q \in Requests : DeleteDeployment(q)
      BY <1>1, <2>1 DEF SInv, TypeOK, Next, Create, Delete, Read, Start, RejectInvalid,
         CheckDuplicate, CreateDeployment, CreateService, Rollback, FindToDelete, FindToGet,
         FindDeployment, ListServices, DeleteService, ListDeployments, ReadPods, ReadServices,
         PodStarts, PodEnds, Crash, ReadBreaks, Answer, GoTo, vars
    <3> QED BY <1>1, <2>1, <3>1 DEF DeleteDeployment, Answer, SInv, TypeOK
  <2>3. PICK d \in Requests : found[r] = {d} /\ req[d].id = req[r].id
    BY <2>1, <2>2 DEF DeleteKnows, Sweeping
  <2>4. ASSUME NEW x \in deploys', req[x].id = req[r].id PROVE FALSE
    BY <2>1, <2>2, <2>3, <2>4 DEF UniqueInstanceId
  <2>5. ASSUME NEW s \in services, req[s].id = req[r].id PROVE FALSE
    <3>1. s \in Requests /\ Writer(s)
      BY <2>1, <2>5 DEF SInv, TypeOK, ServiceRoles, Over, Writer, Changes
    <3>2. Writer(r) /\ req[r].op = "delete"
      BY <2>1, <2>2 DEF DeleteKnows, DeleteSteps, SInv, Roles, RolesOf, Writer, Changes
    <3>3. r \notin ended[s]
      BY <2>1, <2>2, <3>1 DEF SInv, EndedIsOver, Over
    <3>4. s \in ended[r]
      BY <2>1, <2>5, <3>1, <3>2, <3>3 DEF WritersOrdered, Overlap, ServiceRoles
    <3> QED BY <2>1, <2>2, <2>5, <3>4 DEF SweepSees
  <2> QED BY <2>2, <2>4, <2>5 DEF Labelled
<1>2. LInv /\ [Next]_vars =>
        [\A r \in Requests : code[r] # "204" /\ code'[r] = "204" =>
           Labelled(deploys, req[r].id)' = {} /\ Labelled(services, req[r].id)' = {}]_vars
  BY <1>1
<1> QED BY SerialInvariance, <1>2, PTL DEF Spec, DeletedMeansGone
=============================================================================
