------------------------- MODULE ContainerStoreProofs -------------------------
(***************************************************************************)
(* Safety of the container store, for any set of IDs and requests and any  *)
(* bounds: its state keeps its type; two Deployments of one ID always come *)
(* from creates that were in flight together; and so the ID is unique when *)
(* clients wait for the answer to a change of an ID before the next one.   *)
(*                                                                         *)
(* The argument follows the duplicate check.  A request that was over when *)
(* another began can add nothing any more, so what it created is there     *)
(* when the other checks, or is gone.                                      *)
(***************************************************************************)
EXTENDS ContainerStore, TLAPS

Over == {"answered", "crashed"}
Written == {"createService", "rollback", "answered", "crashed"}

(* Which steps belong to which operation, who may own a Deployment, and    *)
(* that only a request that is over has an answer.                         *)
RolesOf(r) ==
  /\ pc[r] \in CreateSteps => req[r].op = "create"
  /\ pc[r] \in DeleteSteps => req[r].op = "delete"
  /\ pc[r] = "findToGet" => req[r].op = "get"
  /\ pc[r] = "listDeployments" => req[r].op = "list"
  /\ pc[r] \in {"readPods", "readServices"} => req[r].op \in {"get", "list"}
  /\ pc[r] = "idle" => req[r] = NoRequest
  /\ r \in deploys => req[r].op = "create" /\ pc[r] \in Written /\ code[r] # "400"
  /\ code[r] # "none" => pc[r] = "answered"

Roles == \A r \in Requests : RolesOf(r)

(* The requests over when a request began are of its ID, and still over.   *)
EndedIsOver ==
  \A s \in Requests : \A r \in ended[s] :
    pc[r] \in Over /\ pc[s] # "idle" /\ req[r].id = req[s].id

(* What a request that was over when s began has created would have failed *)
(* s's duplicate check.                                                    *)
CheckSaw ==
  \A s \in Requests : \A r \in ended[s] \cap deploys :
    pc[s] # "createDeployment" /\ s \notin deploys

SInv == TypeOK /\ Roles /\ EndedIsOver /\ CheckSaw

-----------------------------------------------------------------------------
LEMMA InputFields ==
  ASSUME NEW q \in Inputs
  PROVE  /\ q.op \in Ops /\ q.id \in Ids \cup {NoId} /\ q.ports \in BOOLEAN
         /\ q.op \in {"create", "delete", "get"} => q.id \in Ids
         /\ FirstStep[q.op] \in Steps
         /\ q.op # "none"
         /\ FirstStep[q.op] = "check" => q.op = "create"
         /\ FirstStep[q.op] = "findToDelete" => q.op = "delete"
         /\ FirstStep[q.op] = "findToGet" => q.op = "get"
         /\ FirstStep[q.op] = "listDeployments" => q.op = "list"
         /\ FirstStep[q.op] \in {"check", "findToDelete", "findToGet", "listDeployments"}
<1>1. q.op \in Ops /\ q.id \in Ids \cup {NoId} /\ q.ports \in BOOLEAN
  BY DEF Inputs
<1>2. q.op \in {"create", "delete", "get", "list"}
  BY <1>1, StoreAssumption DEF StoreAssumption
<1>3. q.op \in {"create", "delete", "get"} => q.id \in Ids
  BY <1>1 DEF Inputs
<1>4. CASE q.op = "create"
  BY <1>1, <1>3, <1>4 DEF FirstStep, Steps, CreateSteps
<1>5. CASE q.op = "delete"
  BY <1>1, <1>3, <1>5 DEF FirstStep, Steps, CreateSteps, DeleteSteps
<1>6. CASE q.op = "get"
  BY <1>1, <1>3, <1>6 DEF FirstStep, Steps, CreateSteps, ReadSteps
<1>7. CASE q.op = "list"
  BY <1>1, <1>3, <1>7 DEF FirstStep, Steps, CreateSteps, ReadSteps
<1> QED BY <1>2, <1>4, <1>5, <1>6, <1>7

(* The documented statuses, operation by operation.                        *)
LEMMA DocumentedAnswers ==
  /\ Answers["none"] = {"none"}
  /\ Answers["create"] = {"none", "201", "400", "409", "409-name", "500"}
  /\ Answers["delete"] = {"none", "204", "404", "500"}
  /\ Answers["get"] = {"none", "200", "404", "500"}
  /\ Answers["list"] = {"none", "200", "400", "500"}
<1>1. Answers["none"] = {"none"}
  BY DEF Answers
<1>2. Answers["create"] = {"none", "201", "400", "409", "409-name", "500"}
  BY DEF Answers
<1>3. Answers["delete"] = {"none", "204", "404", "500"}
  BY DEF Answers
<1>4. Answers["get"] = {"none", "200", "404", "500"}
  BY DEF Answers
<1>5. Answers["list"] = {"none", "200", "400", "500"}
  BY DEF Answers
<1> QED BY <1>1, <1>2, <1>3, <1>4, <1>5

LEMMA InitSInv == Init => SInv
<1> SUFFICES ASSUME Init PROVE SInv
  OBVIOUS
<1> USE DEF Init
<1>1. TypeOK
  <2>1. Documented
    BY DocumentedAnswers DEF Documented, NoRequest
  <2> QED BY <2>1, StoreAssumption DEF TypeOK, StoreAssumption, Codes
<1>2. Roles
  BY DEF Roles, RolesOf, CreateSteps, DeleteSteps
<1>3. EndedIsOver /\ CheckSaw
  BY DEF EndedIsOver, CheckSaw
<1> QED BY <1>1, <1>2, <1>3 DEF SInv

(* A request is answered under its own operation's statuses.               *)
LEMMA AnsweredAs ==
  ASSUME TypeOK, UNCHANGED req, NEW r \in Requests, NEW c, Answer(r, c),
         c \in Answers[req[r].op]
  PROVE  Documented'
BY DEF TypeOK, Documented, Answer

(* Without an answer nothing has to be documented.                         *)
LEMMA NotAnswered ==
  ASSUME TypeOK, UNCHANGED <<req, code>>
  PROVE  Documented'
BY DEF TypeOK, Documented

(* Every operation answers what is documented for it.                      *)
LEMMA DocumentedStep == SInv /\ [Next]_vars => Documented'
<1> SUFFICES ASSUME TypeOK, Roles, [Next]_vars PROVE Documented'
  BY DEF SInv
<1> USE DEF Unchanging, ReadBreaks, GoTo, cluster, local, history
<1>1. CASE UNCHANGED vars \/ Crash \/ \E r \in Requests : PodStarts(r) \/ PodEnds(r)
  BY <1>1, NotAnswered DEF vars, Crash, PodStarts, PodEnds
<1>2. ASSUME NEW r \in Requests, Start(r) PROVE Documented'
  <2>1. PICK q \in Inputs : req' = [req EXCEPT ![r] = q] /\ UNCHANGED code
    BY <1>2 DEF Start
  <2>2. q.op \in {"create", "delete", "get", "list"} /\ code[r] = "none"
    BY <1>2, InputFields, StoreAssumption DEF StoreAssumption, Start, Roles, RolesOf
  <2>3. "none" \in Answers[q.op]
    BY <2>2, DocumentedAnswers
  <2> QED BY <2>1, <2>2, <2>3 DEF TypeOK, Documented
<1>3. ASSUME NEW r \in Requests, RejectInvalid(r) PROVE Documented'
  <2>1. PICK q \in Inputs : q.op = "create" /\ req' = [req EXCEPT ![r] = q]
    BY <1>3 DEF RejectInvalid
  <2>2. "400" \in Answers["create"]
    BY DocumentedAnswers
  <2> QED BY <1>3, <2>1, <2>2 DEF RejectInvalid, Answer, TypeOK, Documented
<1>4. ASSUME NEW r \in Requests, Create(r) PROVE Documented'
  <2>1. pc[r] \in CreateSteps /\ UNCHANGED req
    BY <1>4 DEF Create, CheckDuplicate, CreateDeployment, CreateService, Rollback, CreateSteps
  <2>2. \/ UNCHANGED code \/ Answer(r, "201") \/ Answer(r, "409") \/ Answer(r, "409-name")
        \/ Answer(r, "500")
    BY <1>4 DEF Create, CheckDuplicate, CreateDeployment, CreateService, Rollback
  <2>3. req[r].op = "create" /\ {"201", "409", "409-name", "500"} \subseteq Answers["create"]
    BY <2>1, DocumentedAnswers DEF Roles, RolesOf
  <2> QED BY <2>1, <2>2, <2>3, AnsweredAs, NotAnswered
<1>5. ASSUME NEW r \in Requests, Delete(r) PROVE Documented'
  <2>1. pc[r] \in DeleteSteps /\ UNCHANGED req
    BY <1>5 DEF Delete, FindToDelete, FindDeployment, ListServices, DeleteService,
       DeleteDeployment, DeleteSteps
  <2>2. UNCHANGED code \/ Answer(r, "204") \/ Answer(r, "404") \/ Answer(r, "500")
    BY <1>5 DEF Delete, FindToDelete, FindDeployment, ListServices, DeleteService,
       DeleteDeployment
  <2>3. req[r].op = "delete" /\ {"204", "404", "500"} \subseteq Answers["delete"]
    BY <2>1, DocumentedAnswers DEF Roles, RolesOf
  <2> QED BY <2>1, <2>2, <2>3, AnsweredAs, NotAnswered
<1>6. ASSUME NEW r \in Requests, Read(r) PROVE Documented'
  <2>1. UNCHANGED req
    BY <1>6 DEF Read, FindToGet, FindDeployment, ListDeployments, ReadPods, ReadServices
  <2>2. \/ UNCHANGED code \/ Answer(r, "200") \/ Answer(r, "500")
        \/ pc[r] = "findToGet" /\ Answer(r, "404")
    BY <1>6 DEF Read, FindToGet, FindDeployment, ListDeployments, ReadPods, ReadServices
  <2>3. req[r].op \in {"get", "list"} /\ (pc[r] = "findToGet" => req[r].op = "get")
    BY <1>6 DEF Read, FindToGet, FindDeployment, ListDeployments, ReadPods, ReadServices,
       Roles, RolesOf
  <2>4. {"200", "500"} \subseteq Answers[req[r].op]
    BY <2>3, DocumentedAnswers
  <2>5. pc[r] = "findToGet" => "404" \in Answers[req[r].op]
    BY <2>3, DocumentedAnswers
  <2> QED BY <2>1, <2>2, <2>4, <2>5, AnsweredAs, NotAnswered
<1> QED BY <1>1, <1>2, <1>3, <1>4, <1>5, <1>6 DEF Next

LEMMA TypeStep == SInv /\ [Next]_vars => TypeOK'
<1> SUFFICES ASSUME TypeOK, Roles, Documented', [Next]_vars PROVE TypeOK'
  BY DocumentedStep DEF SInv
<1> MaxPods \in Nat /\ MaxFaults \in Nat /\ MaxCrashes \in Nat
  BY StoreAssumption DEF StoreAssumption
<1>1. CASE UNCHANGED vars
  BY <1>1 DEF TypeOK, vars, cluster, local, history
<1>2. ASSUME NEW r \in Requests, Start(r) PROVE TypeOK'
  <2>1. PICK q \in Inputs :
          /\ req' = [req EXCEPT ![r] = q]
          /\ GoTo(r, FirstStep[q.op])
          /\ ended' = [ended EXCEPT ![r] =
                         {s \in Labelled(Requests, q.id) : pc[s] \in {"answered", "crashed"}}]
    BY <1>2 DEF Start
  <2>2. FirstStep[q.op] \in Steps
    BY InputFields
  <2> QED BY <1>2, <2>1, <2>2 DEF Start, GoTo, Labelled, TypeOK, cluster, local
<1>3. ASSUME NEW r \in Requests, RejectInvalid(r) PROVE TypeOK'
  BY <1>3 DEF RejectInvalid, Answer, TypeOK, cluster, local, history, Codes
<1> USE DEF Unchanging, Works, Breaks, ReadBreaks, Answer, GoTo, Codes, Steps,
            cluster, local, history
<1>4. ASSUME NEW r \in Requests, CheckDuplicate(r) PROVE TypeOK'
  BY <1>4 DEF CheckDuplicate, TypeOK, CreateSteps
<1>5. ASSUME NEW r \in Requests, CreateDeployment(r) PROVE TypeOK'
  BY <1>5 DEF CreateDeployment, TypeOK, CreateSteps
<1>6. ASSUME NEW r \in Requests, CreateService(r) PROVE TypeOK'
  BY <1>6 DEF CreateService, TypeOK, CreateSteps
<1>7. ASSUME NEW r \in Requests, Rollback(r) PROVE TypeOK'
  BY <1>7 DEF Rollback, TypeOK
<1>8. ASSUME NEW r \in Requests, FindToDelete(r) PROVE TypeOK'
  <2>1. FindDeployment(r, "findToDelete", "listServices")
    BY <1>8 DEF FindToDelete
  <2> QED BY <2>1 DEF FindDeployment, TypeOK, DeleteSteps, Labelled
<1>9. ASSUME NEW r \in Requests, FindToGet(r) PROVE TypeOK'
  <2>1. FindDeployment(r, "findToGet", "readPods")
    BY <1>9 DEF FindToGet
  <2> QED BY <2>1 DEF FindDeployment, TypeOK, ReadSteps, Labelled
<1>10. ASSUME NEW r \in Requests, ListServices(r) PROVE TypeOK'
  BY <1>10 DEF ListServices, TypeOK, DeleteSteps, Labelled
<1>11. ASSUME NEW r \in Requests, DeleteService(r) PROVE TypeOK'
  BY <1>11 DEF DeleteService, TypeOK, DeleteSteps
<1>12. ASSUME NEW r \in Requests, DeleteDeployment(r) PROVE TypeOK'
  BY <1>12 DEF DeleteDeployment, TypeOK
<1>13. ASSUME NEW r \in Requests, ListDeployments(r) PROVE TypeOK'
  <2>1. {req[d].id : d \in deploys} \subseteq Ids
    BY InputFields DEF TypeOK, Roles, RolesOf, NoRequest
  <2> QED BY <1>13, <2>1 DEF ListDeployments, TypeOK, ReadSteps
<1>14. ASSUME NEW r \in Requests, ReadPods(r) PROVE TypeOK'
  BY <1>14 DEF ReadPods, TypeOK, ReadSteps
<1>15. ASSUME NEW r \in Requests, ReadServices(r) PROVE TypeOK'
  BY <1>15 DEF ReadServices, TypeOK, ReadSteps
<1>16. ASSUME NEW r \in Requests, PodStarts(r) \/ PodEnds(r) PROVE TypeOK'
  BY <1>16 DEF PodStarts, PodEnds, TypeOK
<1>17. CASE Crash
  BY <1>17 DEF Crash, TypeOK
<1> QED
  BY <1>1, <1>2, <1>3, <1>4, <1>5, <1>6, <1>7, <1>8, <1>9, <1>10, <1>11, <1>12,
     <1>13, <1>14, <1>15, <1>16, <1>17 DEF Next, Create, Delete, Read

(***************************************************************************)
(* What every step respects.                                               *)
(***************************************************************************)
(* A request that has begun keeps what it asks and what was over then, and *)
(* one that is over stays so.                                              *)
Lasting(s) ==
  /\ pc[s] # "idle" => pc'[s] # "idle" /\ req'[s] = req[s] /\ ended'[s] = ended[s]
  /\ pc[s] \in Over => pc'[s] = pc[s] /\ code'[s] = code[s]

(* A request begins by noting the requests of its ID that are over.        *)
Begins(s) ==
  ended'[s] # ended[s] =>
    /\ pc[s] = "idle" /\ pc'[s] # "idle"
    /\ \A t \in ended'[s] : pc[t] \in Over /\ req[t].id = req'[s].id

(* Clients that wait begin a change of an ID when all others of it are     *)
(* over.                                                                   *)
Changes == {"create", "delete"}

BeginsAfter(s) ==
  SerialWriters /\ pc[s] = "idle" /\ pc'[s] # "idle" /\ code'[s] # "400" /\ req'[s].op \in Changes =>
    \A t \in Requests :
      pc[t] # "idle" /\ req[t].op \in Changes /\ req[t].id = req'[s].id => t \in ended'[s]

(* Requests begin one at a time.                                           *)
Alone(s) ==
  pc[s] = "idle" /\ pc'[s] # "idle" => \A t \in Requests : t # s => pc'[t] = pc[t]

(* Only a create past its check adds a Deployment, and it is past it only  *)
(* if the check found none.                                                *)
Guarded(s) ==
  /\ s \in deploys' => s \in deploys \/ pc[s] = "createDeployment"
  /\ pc'[s] = "createDeployment" /\ pc[s] # "createDeployment" =>
       pc[s] = "check" /\ Labelled(deploys, req[s].id) = {}

Facts == \A s \in Requests : Lasting(s) /\ Begins(s) /\ BeginsAfter(s) /\ Alone(s) /\ Guarded(s)

LEMMA StepFacts == SInv /\ [Next]_vars => Facts
<1> SUFFICES ASSUME TypeOK, Roles, [Next]_vars PROVE Facts
  BY DEF SInv
<1> USE DEF TypeOK, Facts, Lasting, Begins, BeginsAfter, Alone, Guarded, Over, Changes, Works, Breaks, ReadBreaks,
            Answer, GoTo, Unchanging, cluster, local, history
<1>1. CASE UNCHANGED vars
  BY <1>1 DEF vars
<1>2. ASSUME NEW r \in Requests, Start(r) PROVE Facts
  <2>1. PICK q \in Inputs :
          /\ SerialWriters /\ q.op \in Changes =>
               \A t \in Requests : InFlight(t) /\ req[t].op \in Changes => req[t].id # q.id
          /\ req' = [req EXCEPT ![r] = q]
          /\ GoTo(r, FirstStep[q.op])
          /\ ended' = [ended EXCEPT ![r] =
                         {s \in Labelled(Requests, q.id) : pc[s] \in {"answered", "crashed"}}]
    BY <1>2 DEF Start
  <2>2. FirstStep[q.op] \in {"check", "findToDelete", "findToGet", "listDeployments"}
    BY InputFields
  <2> QED BY <1>2, <2>1, <2>2 DEF Start, Labelled, InFlight, Steps, CreateSteps, DeleteSteps, ReadSteps
<1>3. ASSUME NEW r \in Requests, RejectInvalid(r) PROVE Facts
  BY <1>3 DEF RejectInvalid, Answer
<1>4. ASSUME NEW r \in Requests, CheckDuplicate(r) PROVE Facts
  BY <1>4 DEF CheckDuplicate
<1>5. ASSUME NEW r \in Requests, CreateDeployment(r) PROVE Facts
  BY <1>5 DEF CreateDeployment
<1>6. ASSUME NEW r \in Requests, CreateService(r) PROVE Facts
  BY <1>6 DEF CreateService
<1>7. ASSUME NEW r \in Requests, Rollback(r) PROVE Facts
  BY <1>7 DEF Rollback
<1>8. ASSUME NEW r \in Requests, FindToDelete(r) PROVE Facts
  BY <1>8 DEF FindToDelete, FindDeployment
<1>9. ASSUME NEW r \in Requests, FindToGet(r) PROVE Facts
  BY <1>9 DEF FindToGet, FindDeployment
<1>10. ASSUME NEW r \in Requests, ListServices(r) PROVE Facts
  BY <1>10 DEF ListServices
<1>11. ASSUME NEW r \in Requests, DeleteService(r) PROVE Facts
  BY <1>11 DEF DeleteService
<1>12. ASSUME NEW r \in Requests, DeleteDeployment(r) PROVE Facts
  BY <1>12 DEF DeleteDeployment
<1>13. ASSUME NEW r \in Requests, ListDeployments(r) PROVE Facts
  BY <1>13 DEF ListDeployments
<1>14. ASSUME NEW r \in Requests, ReadPods(r) PROVE Facts
  BY <1>14 DEF ReadPods
<1>15. ASSUME NEW r \in Requests, ReadServices(r) PROVE Facts
  BY <1>15 DEF ReadServices
<1>16. ASSUME NEW r \in Requests, PodStarts(r) \/ PodEnds(r) PROVE Facts
  BY <1>16 DEF PodStarts, PodEnds
<1>17. CASE Crash
  BY <1>17 DEF Crash, InFlight, Steps, CreateSteps, DeleteSteps, ReadSteps
<1> QED
  BY <1>1, <1>2, <1>3, <1>4, <1>5, <1>6, <1>7, <1>8, <1>9, <1>10, <1>11, <1>12, <1>13, <1>14, <1>15, <1>16, <1>17
     DEF Next, Create, Delete, Read

LEMMA RolesStep == SInv /\ [Next]_vars => Roles'
<1> SUFFICES ASSUME TypeOK, Roles, [Next]_vars PROVE Roles'
  BY DEF SInv
<1> USE DEF TypeOK, Roles, RolesOf, Written, CreateSteps, DeleteSteps, Works, Breaks, ReadBreaks,
            Answer, GoTo, Unchanging, cluster, local, history
<1>1. CASE UNCHANGED vars
  BY <1>1 DEF vars
<1>2. ASSUME NEW r \in Requests, Start(r) PROVE Roles'
  <2>1. PICK q \in Inputs :
          /\ req' = [req EXCEPT ![r] = q]
          /\ GoTo(r, FirstStep[q.op])
    BY <1>2 DEF Start
  <2>2. /\ FirstStep[q.op] \in {"check", "findToDelete", "findToGet", "listDeployments"}
        /\ FirstStep[q.op] = "check" => q.op = "create"
        /\ FirstStep[q.op] = "findToDelete" => q.op = "delete"
        /\ FirstStep[q.op] = "findToGet" => q.op = "get"
        /\ FirstStep[q.op] = "listDeployments" => q.op = "list"
    BY InputFields
  <2> QED BY <1>2, <2>1, <2>2 DEF Start
<1>3. ASSUME NEW r \in Requests, RejectInvalid(r) PROVE Roles'
  BY <1>3 DEF RejectInvalid, Answer
<1>4. ASSUME NEW r \in Requests, CheckDuplicate(r) PROVE Roles'
  BY <1>4 DEF CheckDuplicate
<1>5. ASSUME NEW r \in Requests, CreateDeployment(r) PROVE Roles'
  BY <1>5 DEF CreateDeployment
<1>6. ASSUME NEW r \in Requests, CreateService(r) PROVE Roles'
  BY <1>6 DEF CreateService
<1>7. ASSUME NEW r \in Requests, Rollback(r) PROVE Roles'
  BY <1>7 DEF Rollback
<1>8. ASSUME NEW r \in Requests, FindToDelete(r) PROVE Roles'
  BY <1>8 DEF FindToDelete, FindDeployment
<1>9. ASSUME NEW r \in Requests, FindToGet(r) PROVE Roles'
  BY <1>9 DEF FindToGet, FindDeployment
<1>10. ASSUME NEW r \in Requests, ListServices(r) PROVE Roles'
  BY <1>10 DEF ListServices
<1>11. ASSUME NEW r \in Requests, DeleteService(r) PROVE Roles'
  BY <1>11 DEF DeleteService
<1>12. ASSUME NEW r \in Requests, DeleteDeployment(r) PROVE Roles'
  BY <1>12 DEF DeleteDeployment
<1>13. ASSUME NEW r \in Requests, ListDeployments(r) PROVE Roles'
  BY <1>13 DEF ListDeployments
<1>14. ASSUME NEW r \in Requests, ReadPods(r) PROVE Roles'
  BY <1>14 DEF ReadPods
<1>15. ASSUME NEW r \in Requests, ReadServices(r) PROVE Roles'
  BY <1>15 DEF ReadServices
<1>16. ASSUME NEW r \in Requests, PodStarts(r) \/ PodEnds(r) PROVE Roles'
  BY <1>16 DEF PodStarts, PodEnds
<1>17. CASE Crash
  BY <1>17 DEF Crash, InFlight, Steps, ReadSteps
<1> QED
  BY <1>1, <1>2, <1>3, <1>4, <1>5, <1>6, <1>7, <1>8, <1>9, <1>10, <1>11, <1>12, <1>13, <1>14, <1>15, <1>16, <1>17
     DEF Next, Create, Delete, Read

LEMMA EndedStep == SInv /\ [Next]_vars => EndedIsOver'
<1> SUFFICES ASSUME SInv, [Next]_vars, NEW s \in Requests, NEW r \in ended'[s]
             PROVE  pc'[r] \in Over /\ pc'[s] # "idle" /\ req'[r].id = req'[s].id
  BY DEF EndedIsOver
<1>1. Facts /\ TypeOK' /\ EndedIsOver
  BY StepFacts, TypeStep DEF SInv
<1>2. r \in Requests
  BY <1>1 DEF TypeOK
<1>3. CASE ended'[s] = ended[s]
  BY <1>1, <1>2, <1>3 DEF Facts, Lasting, EndedIsOver, Over
<1>4. CASE ended'[s] # ended[s]
  BY <1>1, <1>2, <1>4 DEF Facts, Lasting, Begins, Over
<1> QED BY <1>3, <1>4

LEMMA CheckStep == SInv /\ [Next]_vars => CheckSaw'
<1> SUFFICES ASSUME SInv, [Next]_vars,
                    NEW s \in Requests, NEW r \in ended'[s], r \in deploys'
             PROVE  pc'[s] # "createDeployment" /\ s \notin deploys'
  BY DEF CheckSaw
<1>1. Facts /\ TypeOK' /\ EndedIsOver /\ CheckSaw /\ Roles
  BY StepFacts, TypeStep DEF SInv
<1>2. r \in Requests
  BY <1>1 DEF TypeOK
<1>3. CASE pc[s] = "idle"
  BY <1>1, <1>3 DEF Facts, Guarded, Roles, RolesOf, Written
<1>4. CASE pc[s] # "idle"
  <2>1. r \in ended[s] /\ pc[r] \in Over /\ req[r].id = req[s].id
    BY <1>1, <1>2, <1>4 DEF Facts, Lasting, EndedIsOver
  <2>2. r \in deploys
    BY <1>1, <1>2, <2>1 DEF Facts, Guarded, Over
  <2>3. pc[s] # "createDeployment" /\ s \notin deploys
    BY <1>1, <2>1, <2>2 DEF CheckSaw
  <2>4. Labelled(deploys, req[s].id) # {}
    BY <2>1, <2>2 DEF Labelled
  <2> QED BY <1>1, <2>3, <2>4 DEF Facts, Guarded
<1> QED BY <1>3, <1>4

-----------------------------------------------------------------------------
(* The inductive invariant of the store, whatever its clients do.          *)
THEOREM StoreInvariance == Spec => []SInv
<1>1. SInv /\ [Next]_vars => SInv'
  BY TypeStep, RolesStep, EndedStep, CheckStep DEF SInv
<1> QED BY InitSInv, <1>1, PTL DEF Spec

(* Type correctness: the store's state, its requests and what they hold    *)
(* from one Kubernetes call to the next keep their type.                   *)
THEOREM StoreTypeCorrect == Spec => []TypeOK
<1>1. SInv => TypeOK
  BY DEF SInv
<1> QED BY StoreInvariance, <1>1, PTL

(* The duplicate check of Create: two Deployments of one ID come from two  *)
(* creates that were in flight together, never from a retry after a        *)
(* failure, a lost response, a crash or a delete.                          *)
THEOREM DuplicatesOverlap == Spec => []DuplicatesOnlyFromOverlap
<1>1. SInv => DuplicatesOnlyFromOverlap
  <2> SUFFICES ASSUME SInv, NEW d \in deploys, NEW e \in deploys,
                      req[d].id = req[e].id, d # e
               PROVE  Overlap(d, e)
    BY DEF DuplicatesOnlyFromOverlap
  <2> QED BY DEF SInv, TypeOK, CheckSaw, Overlap
<1> QED BY StoreInvariance, <1>1, PTL

-----------------------------------------------------------------------------
(* Clients that wait for their answers.                                    *)

Writer(r) == pc[r] # "idle" /\ req[r].op \in Changes /\ code[r] # "400"

(* Of two changes of one ID one was over when the other began.             *)
WritersOrdered ==
  \A r, s \in Requests :
    r # s /\ Writer(r) /\ Writer(s) /\ req[r].id = req[s].id => ~Overlap(r, s)

LEMMA OrderedStep ==
  ASSUME SerialWriters
  PROVE  SInv /\ WritersOrdered /\ [Next]_vars => WritersOrdered'
<1> SUFFICES ASSUME SInv, WritersOrdered, [Next]_vars,
                    NEW r \in Requests, NEW s \in Requests,
                    r # s, Writer(r)', Writer(s)', req'[r].id = req'[s].id
             PROVE  r \in ended'[s] \/ s \in ended'[r]
  BY DEF WritersOrdered, Overlap
<1>1. Facts /\ Roles
  BY StepFacts DEF SInv
<1>2. \A t \in Requests : Writer(t)' /\ pc[t] # "idle" => Writer(t)
  BY <1>1 DEF Facts, Lasting, Roles, RolesOf, Writer, Over
<1>3. CASE pc[r] # "idle" /\ pc[s] # "idle"
  BY <1>1, <1>2, <1>3 DEF Facts, Lasting, WritersOrdered, Overlap
<1>4. CASE pc[r] = "idle" /\ pc[s] # "idle"
  BY <1>1, <1>2, <1>4 DEF Facts, Lasting, BeginsAfter, Writer
<1>5. CASE pc[s] = "idle" /\ pc[r] # "idle"
  BY <1>1, <1>2, <1>5 DEF Facts, Lasting, BeginsAfter, Writer
<1>6. ~(pc[r] = "idle" /\ pc[s] = "idle")
  BY <1>1 DEF Facts, Alone, Writer
<1> QED BY <1>3, <1>4, <1>5, <1>6

(* SC-001 for clients that wait: no two Deployments carry one ID, with any *)
(* number of clients, faults and crashes.                                  *)
THEOREM UniqueWhenSerial ==
  ASSUME SerialWriters
  PROVE  Spec => []UniqueInstanceId
<1>1. Init => WritersOrdered
  BY DEF Init, WritersOrdered, Writer
<1>2. SInv /\ WritersOrdered /\ [Next]_vars => WritersOrdered'
  BY OrderedStep
<1>3. SInv /\ WritersOrdered /\ DuplicatesOnlyFromOverlap => UniqueInstanceId
  BY DEF SInv, TypeOK, Roles, RolesOf, Written, Changes, Writer, WritersOrdered, Overlap,
         DuplicatesOnlyFromOverlap, UniqueInstanceId
<1> QED BY StoreInvariance, DuplicatesOverlap, <1>1, <1>2, <1>3, PTL DEF Spec
=============================================================================
