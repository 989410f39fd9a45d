------------------------ MODULE ContainerStoreDeletes ------------------------
(***************************************************************************)
(* No container is deleted twice, for every set of IDs and requests and    *)
(* every bound on Pods, failing calls and crashes, whatever clients do.    *)
(*                                                                         *)
(* A delete answered 204 still knows the Deployment it deleted.  No other  *)
(* such delete knows the same one, and it never comes back, so the deletes *)
(* answered 204 are no more than the creates whose Deployment is gone.     *)
(***************************************************************************)
EXTENDS ContainerStoreObjects

(* The answers of a create that may have made its Deployment.              *)
Made == {"none", "201", "500"}

(* The create x may have made its Deployment, and will not make another.   *)
MadeIt(x) == req[x].op = "create" /\ code[x] \in Made /\ pc[x] \in Written

(* The delete r has deleted the Deployment of the create x.                *)
DeletedBy(x, r) ==
  /\ req[r].op = "delete" /\ found[r] = {x} /\ req[x].id = req[r].id
  /\ x \notin deploys /\ MadeIt(x)

(* The deletes that were answered 204.                                     *)
Deleters == {r \in Requests : code[r] = "204"}

(* Who has a Deployment made it.                                           *)
DeployedWereMade == \A x \in deploys : MadeIt(x)

(* Each delete answered 204 deleted a Deployment, and none the same.       *)
DeletersKnow ==
  \A r \in Deleters :
    /\ \E x \in Requests : DeletedBy(x, r)
    /\ \A q \in Deleters : found[q] = found[r] => q = r

(* The requests that have arrived.                                         *)
Begun == {r \in Requests : pc[r] # "idle"}

(* The inductive invariant, with OInv.                                     *)
DInv == DeployedWereMade /\ DeletersKnow /\ IsFiniteSet(Begun)

(* The requests that have begun are finitely many, as they begin one at a  *)
(* time.                                                                   *)
LEMMA BegunStep == SInv /\ IsFiniteSet(Begun) /\ [Next]_vars => IsFiniteSet(Begun')
<1> SUFFICES ASSUME SInv, IsFiniteSet(Begun), [Next]_vars PROVE IsFiniteSet(Begun')
  OBVIOUS
<1>1. Facts
  BY StepFacts
<1>2. CASE \E r \in Requests : pc[r] = "idle" /\ pc'[r] # "idle"
  <2>1. PICK r \in Requests : pc[r] = "idle" /\ pc'[r] # "idle"
    BY <1>2
  <2>2. Begun' \in SUBSET (Begun \cup {r})
    BY <1>1, <2>1 DEF Facts, Alone, Begun
  <2>3. IsFiniteSet(Begun \cup {r})
    BY FS_AddElement
  <2> QED BY <2>2, <2>3, FS_Subset
<1>3. CASE ~\E r \in Requests : pc[r] = "idle" /\ pc'[r] # "idle"
  <2>1. Begun' \in SUBSET Begun
    BY <1>3 DEF Begun
  <2> QED BY <2>1, FS_Subset
<1> QED BY <1>2, <1>3

-----------------------------------------------------------------------------
(* What a step does to a request that deletes, and to one whose Deployment *)
(* it deletes.                                                             *)
Keeps(x) ==
  /\ pc[x] = "answered" => found'[x] = found[x]
  /\ pc[x] \in Written =>
       pc'[x] \in Written /\ (code[x] \in Made => code'[x] \in Made)
  /\ x \in deploys' \ deploys => pc'[x] \in Written /\ code'[x] \in Made

(* A delete is answered 204 only if its Deployment was there; no other     *)
(* request is answered in the same step.                                   *)
Deletes(r) ==
  code'[r] = "204" /\ code[r] # "204" =>
    /\ pc[r] = "deleteDeployment" /\ found' = found
    /\ found[r] \subseteq deploys /\ deploys' = deploys \ found[r]
    /\ \A q \in Requests \ {r} : code'[q] = code[q]

(* Every step respects them.                                               *)
LEMMA StepDeletes ==
  SInv /\ [Next]_vars => \A x \in Requests : Keeps(x) /\ Deletes(x)
<1> DEFINE Good == \A x \in Requests : Keeps(x) /\ Deletes(x)
<1> SUFFICES ASSUME TypeOK, Roles, [Next]_vars PROVE Good
  BY DEF SInv
<1> USE DEF TypeOK, Roles, RolesOf, Keeps, Deletes, Made, Written, Works, Breaks, ReadBreaks,
            Answer, GoTo, Unchanging, cluster, local, history
<1>1. CASE UNCHANGED vars
  BY <1>1 DEF vars
<1>2. ASSUME NEW r \in Requests, Start(r) PROVE Good
  BY <1>2 DEF Start
<1>3. ASSUME NEW r \in Requests, RejectInvalid(r) PROVE Good
  BY <1>3 DEF RejectInvalid
<1>4. ASSUME NEW r \in Requests, CheckDuplicate(r) PROVE Good
  BY <1>4 DEF CheckDuplicate
<1>5. ASSUME NEW r \in Requests, CreateDeployment(r) PROVE Good
  BY <1>5 DEF CreateDeployment
<1>6. ASSUME NEW r \in Requests, CreateService(r) PROVE Good
  BY <1>6 DEF CreateService
<1>7. ASSUME NEW r \in Requests, Rollback(r) PROVE Good
  BY <1>7 DEF Rollback
<1>8. ASSUME NEW r \in Requests, FindToDelete(r) \/ FindToGet(r) PROVE Good
  BY <1>8 DEF FindToDelete, FindToGet, FindDeployment
<1>9. ASSUME NEW r \in Requests, ListServices(r) PROVE Good
  BY <1>9 DEF ListServices
<1>10. ASSUME NEW r \in Requests, DeleteService(r) PROVE Good
  BY <1>10 DEF DeleteService
<1>11. ASSUME NEW r \in Requests, DeleteDeployment(r) PROVE Good
  BY <1>11 DEF DeleteDeployment
<1>12. ASSUME NEW r \in Requests, ListDeployments(r) PROVE Good
  BY <1>12 DEF ListDeployments
<1>13. ASSUME NEW r \in Requests, ReadPods(r) \/ ReadServices(r) PROVE Good
  BY <1>13 DEF ReadPods, ReadServices
<1>14. ASSUME NEW r \in Requests, PodStarts(r) \/ PodEnds(r) PROVE Good
  BY <1>14 DEF PodStarts, PodEnds
<1>15. CASE Crash
  BY <1>15 DEF Crash, InFlight, Steps
<1> QED
  BY <1>1, <1>2, <1>3, <1>4, <1>5, <1>6, <1>7, <1>8, <1>9, <1>10, <1>11, <1>12, <1>13, <1>14,
     <1>15 DEF Next, Create, Delete, Read

(* A create that made its Deployment remains one, and makes no other.      *)
LEMMA MadeStays ==
  ASSUME SInv, [Next]_vars, NEW x \in Requests, MadeIt(x)
  PROVE  MadeIt(x)' /\ req'[x] = req[x] /\ (x \notin deploys => x \notin deploys')
<1>1. Facts /\ Keeps(x)
  BY StepFacts, StepDeletes
<1> QED BY <1>1 DEF Facts, Lasting, Guarded, Keeps, MadeIt, Written

(* A step gives a Deployment to the create that makes it only.             *)
LEMMA DeployedStep ==
  ASSUME SInv, DeployedWereMade, [Next]_vars
  PROVE  DeployedWereMade'
<1> SUFFICES ASSUME NEW x \in deploys' PROVE MadeIt(x)'
  BY DEF DeployedWereMade
<1>1. TypeOK' /\ Roles'
  BY TypeStep, RolesStep
<1>2. x \in Requests
  BY <1>1 DEF TypeOK
<1>3. CASE x \in deploys
  BY <1>2, <1>3, MadeStays DEF DeployedWereMade
<1>4. CASE x \notin deploys
  BY <1>1, <1>2, <1>4, StepDeletes DEF Keeps, Roles, RolesOf, MadeIt
<1> QED BY <1>3, <1>4

(* A delete answered 204 goes on knowing its Deployment, and one that is   *)
(* answered now knows one that no other has deleted.                       *)
LEMMA DeletersStep ==
  ASSUME OInv, DeployedWereMade, DeletersKnow, [Next]_vars
  PROVE  DeletersKnow'
<1>1. SInv /\ DeleteKnows /\ Facts /\ \A x \in Requests : Keeps(x) /\ Deletes(x)
  BY StepFacts, StepDeletes DEF OInv
<1>2. ASSUME NEW r \in Deleters
      PROVE  /\ r \in Deleters' /\ found'[r] = found[r]
             /\ \E x \in Requests : x \notin deploys /\ found[r] = {x}
             /\ \E x \in Requests : DeletedBy(x, r)'
  <2>1. r \in Requests /\ pc[r] = "answered"
    BY <1>1 DEF Deleters, SInv, Roles, RolesOf
  <2>2. code'[r] = code[r] /\ req'[r] = req[r] /\ found'[r] = found[r]
    BY <1>1, <2>1 DEF Facts, Lasting, Over, Keeps
  <2>3. PICK x \in Requests : DeletedBy(x, r)
    BY DEF DeletersKnow
  <2>4. MadeIt(x)' /\ req'[x] = req[x] /\ x \notin deploys'
    BY <1>1, <2>3, MadeStays DEF DeletedBy
  <2>5. DeletedBy(x, r)'
    BY <2>2, <2>3, <2>4 DEF DeletedBy
  <2> QED BY <2>1, <2>2, <2>3, <2>5 DEF Deleters, DeletedBy
<1>3. ASSUME NEW r \in Deleters', r \notin Deleters
      PROVE  /\ found' = found /\ \A q \in Deleters' : q # r => q \in Deleters
             /\ \E x \in Requests : x \in deploys /\ found[r] = {x}
             /\ \E x \in Requests : DeletedBy(x, r)'
  <2>1. r \in Requests /\ code'[r] = "204" /\ code[r] # "204"
    BY <1>3 DEF Deleters
  <2>2. /\ pc[r] = "deleteDeployment" /\ found' = found
        /\ found[r] \subseteq deploys /\ deploys' = deploys \ found[r]
        /\ \A q \in Requests \ {r} : code'[q] = code[q]
    BY <1>1, <2>1 DEF Deletes
  <2>3. PICK x \in Requests : found[r] = {x} /\ req[x].id = req[r].id
    BY <1>1, <2>1, <2>2 DEF DeleteKnows, Sweeping
  <2>4. req[r].op = "delete" /\ req'[r] = req[r]
    BY <1>1, <2>1, <2>2 DEF DeleteKnows, DeleteSteps, Facts, Lasting
  <2>5. x \in deploys /\ MadeIt(x)
    BY <2>2, <2>3 DEF DeployedWereMade
  <2>6. MadeIt(x)' /\ req'[x] = req[x]
    BY <1>1, <2>5, MadeStays
  <2>7. DeletedBy(x, r)'
    BY <2>2, <2>3, <2>4, <2>6 DEF DeletedBy
  <2> QED BY <2>2, <2>3, <2>5, <2>7 DEF Deleters
<1>4. ASSUME NEW r \in Deleters', NEW q \in Deleters', found'[q] = found'[r] PROVE q = r
  <2>1. CASE r \in Deleters /\ q \in Deleters
    BY <1>2, <1>4, <2>1 DEF DeletersKnow
  <2>2. CASE r \notin Deleters \/ q \notin Deleters
    BY <1>2, <1>3, <1>4, <2>2
  <2> QED BY <2>1, <2>2
<1> QED BY <1>2, <1>3, <1>4 DEF DeletersKnow

(* DInv holds in every state.                                              *)
LEMMA DeletesInvariance == Spec => []DInv
<1>1. Init => DInv
  <2> SUFFICES ASSUME Init PROVE DInv
    OBVIOUS
  <2>1. Begun = {} /\ Deleters = {}
    BY DEF Init, Begun, Deleters
  <2> QED BY <2>1, FS_EmptySet DEF Init, DInv, DeployedWereMade, DeletersKnow
<1>2. OInv /\ DInv /\ [Next]_vars => DInv'
  BY BegunStep, DeployedStep, DeletersStep DEF OInv, DInv
<1> QED BY ObjectsInvariance, <1>1, <1>2, PTL DEF Spec

-----------------------------------------------------------------------------
(* Every container is deleted at most once: for each ID, the deletes       *)
(* answered 204 and the Deployments that exist are together no more than   *)
(* the creates that were not refused.                                      *)
THEOREM DeletedAtMostOnce == Spec => []DeletedOnce
<1>1. SInv /\ DInv => DeletedOnce
  <2> SUFFICES ASSUME SInv, DInv, NEW i \in Ids
               PROVE  LET deleted == {r \in Requests : code[r] = "204" /\ req[r].id = i}
                          created == {r \in Requests : /\ req[r].op = "create" /\ req[r].id = i
                                                       /\ code[r] \in {"none", "201", "500"}}
                      IN  Cardinality(deleted) + Cardinality(Labelled(deploys, i))
                            <= Cardinality(created)
    BY DEF DeletedOnce
  <2> DEFINE deleted == {r \in Requests : code[r] = "204" /\ req[r].id = i}
             created == {r \in Requests : /\ req[r].op = "create" /\ req[r].id = i
                                          /\ code[r] \in {"none", "201", "500"}}
             present == Labelled(deploys, i)
             Victim  == [r \in deleted |-> CHOOSE x \in Requests : DeletedBy(x, r)]
  <2>1. created \in SUBSET Begun
    BY DEF SInv, Roles, RolesOf, NoRequest, Begun
  <2>2. IsFiniteSet(created)
    BY <2>1, FS_Subset DEF DInv
  <2>3. present \subseteq created
    BY DEF DInv, DeployedWereMade, MadeIt, Made, Labelled, SInv, TypeOK
  <2>4. \A r \in deleted : Victim[r] \in Requests /\ DeletedBy(Victim[r], r)
    BY DEF DInv, DeletersKnow, Deleters
  <2>5. \A r \in deleted : Victim[r] \in created \ present
    BY <2>4 DEF DeletedBy, MadeIt, Made, Labelled
  <2>6. \A r, q \in deleted : Victim[r] = Victim[q] => r = q
    <3> SUFFICES ASSUME NEW r \in deleted, NEW q \in deleted, Victim[r] = Victim[q]
                 PROVE  r = q
      OBVIOUS
    <3>1. DeletedBy(Victim[r], r) /\ DeletedBy(Victim[q], q)
      BY <2>4
    <3>2. found[r] = found[q]
      BY <3>1 DEF DeletedBy
    <3> QED BY <3>2 DEF DInv, DeletersKnow, Deleters
  <2>7. Victim \in Injection(deleted, created \ present)
    BY <2>5, <2>6 DEF Injection, IsInjective
  <2>8. /\ IsFiniteSet(created \ present)
        /\ Cardinality(created \ present)
             = Cardinality(created) - Cardinality(created \cap present)
    BY <2>2, FS_Difference
  <2>9. IsFiniteSet(deleted) /\ Cardinality(deleted) <= Cardinality(created \ present)
    BY <2>7, <2>8, FS_Injection
  <2>10. created \cap present = present /\ IsFiniteSet(present)
    BY <2>2, <2>3, FS_Subset
  <2>11. /\ Cardinality(deleted) \in Nat /\ Cardinality(created) \in Nat
         /\ Cardinality(present) \in Nat
    BY <2>2, <2>9, <2>10, FS_CardinalityType
  <2> HIDE DEF deleted, created, present
  <2>12. Cardinality(deleted) + Cardinality(present) <= Cardinality(created)
    BY <2>8, <2>9, <2>10, <2>11
  <2> QED BY <2>12 DEF deleted, created, present
<1> QED BY StoreInvariance, DeletesInvariance, <1>1, PTL
=============================================================================
