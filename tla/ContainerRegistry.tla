-------------------------- MODULE ContainerRegistry --------------------------
(***************************************************************************)
(* What the container API promises its clients: a set of container IDs     *)
(* that requests change one at a time.  A request takes effect at one      *)
(* moment between its arrival and its answer, and the answer tells which   *)
(* effect it had.  Three concessions are made, all to a failing cluster: an*)
(* answer 500 says nothing of the effect, a create that answers 500 may    *)
(* withdraw what it had created, and a create may be refused, without      *)
(* effect, because the cluster has its generated name ("409-name").        *)
(*                                                                         *)
(* Module ContainerStore implements this on Kubernetes Deployments,        *)
(* Services and Pods with several calls per request.                       *)
(***************************************************************************)
CONSTANTS Ids, Requests

NoId == "no id"

VARIABLES
  containers,   \* the IDs of the containers that exist
  request,      \* what each request asks: [op, id]
  stage,        \* idle, pending, took, saw, answered, gone
  code,         \* the HTTP status of the answer
  listed        \* the IDs a list request has seen

rvars == <<containers, request, stage, code, listed>>

Init ==
  /\ containers = {}
  /\ request = [r \in Requests |-> [op |-> "none", id |-> NoId]]
  /\ stage = [r \in Requests |-> "idle"]
  /\ code = [r \in Requests |-> "none"]
  /\ listed = [r \in Requests |-> {}]

Pending(r, op) == stage[r] = "pending" /\ request[r].op = op

Answer(r, c) ==
  /\ stage' = [stage EXCEPT ![r] = "answered"]
  /\ code' = [code EXCEPT ![r] = c]

Reach(r, s) ==
  /\ stage' = [stage EXCEPT ![r] = s]
  /\ UNCHANGED code

-----------------------------------------------------------------------------
Begin(r) ==
  /\ stage[r] = "idle"
  /\ \E op \in {"create", "delete", "get"}, i \in Ids :
       /\ request' = [request EXCEPT ![r] = [op |-> op, id |-> i]]
       /\ Reach(r, "pending") \/ (op = "create" /\ Answer(r, "400"))
  /\ UNCHANGED <<containers, listed>>

BeginList(r) ==
  /\ stage[r] = "idle"
  /\ request' = [request EXCEPT ![r] = [op |-> "list", id |-> NoId]]
  /\ Reach(r, "pending")
  /\ UNCHANGED <<containers, listed>>

(* A create takes a free ID; a taken one is refused.                       *)
Take(r) ==
  /\ Pending(r, "create")
  /\ request[r].id \notin containers
  /\ containers' = containers \cup {request[r].id}
  /\ Reach(r, "took") \/ Answer(r, "201") \/ Answer(r, "500")
  /\ UNCHANGED <<request, listed>>

Refuse(r) ==
  /\ Pending(r, "create")
  /\ request[r].id \in containers
  /\ Answer(r, "409")
  /\ UNCHANGED <<containers, request, listed>>

(* The name that was generated for the container exists: no effect, and    *)
(* not a word on whether the ID is taken.                                  *)
Collide(r) ==
  /\ Pending(r, "create")
  /\ Answer(r, "409-name")
  /\ UNCHANGED <<containers, request, listed>>

Confirm(r) ==
  /\ stage[r] = "took"
  /\ Answer(r, "201") \/ Answer(r, "500")
  /\ UNCHANGED <<containers, request, listed>>

Withdraw(r) ==
  /\ stage[r] = "took"
  /\ containers' = containers \ {request[r].id}
  /\ Answer(r, "500")
  /\ UNCHANGED <<request, listed>>

Remove(r) ==
  /\ Pending(r, "delete")
  /\ request[r].id \in containers
  /\ containers' = containers \ {request[r].id}
  /\ Answer(r, "204") \/ Answer(r, "500")
  /\ UNCHANGED <<request, listed>>

Missing(r) ==
  /\ Pending(r, "delete") \/ Pending(r, "get")
  /\ request[r].id \notin containers
  /\ Answer(r, "404")
  /\ UNCHANGED <<containers, request, listed>>

(* A read sees the containers of one moment and answers later.             *)
See(r) ==
  /\ \/ /\ Pending(r, "get")
        /\ request[r].id \in containers
        /\ UNCHANGED listed
     \/ /\ Pending(r, "list")
        /\ listed' = [listed EXCEPT ![r] = containers]
  /\ Reach(r, "saw") \/ Answer(r, "200")
  /\ UNCHANGED <<containers, request>>

Report(r) ==
  /\ stage[r] = "saw"
  /\ Answer(r, "200") \/ Answer(r, "500")
  /\ UNCHANGED <<containers, request, listed>>

Fail(r) ==
  /\ stage[r] = "pending"
  /\ Answer(r, "500")
  /\ UNCHANGED <<containers, request, listed>>

(* The server dies: the requests it was serving are never answered.        *)
Abandon ==
  /\ stage' = [r \in Requests |-> IF stage[r] \in {"pending", "took", "saw"}
                                  THEN "gone" ELSE stage[r]]
  /\ UNCHANGED <<containers, request, code, listed>>

Next ==
  \/ \E r \in Requests :
       \/ Begin(r) \/ BeginList(r)
       \/ Take(r) \/ Refuse(r) \/ Collide(r) \/ Confirm(r) \/ Withdraw(r)
       \/ Remove(r) \/ Missing(r)
       \/ See(r) \/ Report(r) \/ Fail(r)
  \/ Abandon

Spec == Init /\ [][Next]_rvars
=============================================================================
