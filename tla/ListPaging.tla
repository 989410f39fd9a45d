----------------------------- MODULE ListPaging -----------------------------
(***************************************************************************)
(* A client pages through List while other clients create and delete.      *)
(*                                                                         *)
(* A page token is an offset into the Deployments sorted by name, taken    *)
(* anew for every page; the Services are read one container after the      *)
(* other later.  What the creates and deletes do is module ContainerStore; *)
(* here they are the cluster's changes, one Kubernetes call each.          *)
(* Deployments' names are generated and not used again; they are numbers   *)
(* here, so that they have an order.                                       *)
(* Every request's answer goes through the layers of module Requests, and  *)
(* the client counts a page when it has received all of it.                *)
(***************************************************************************)
EXTENDS Naturals, FiniteSets, Conversion, Requests

CONSTANTS
  N,                \* number of names
  Specs,            \* what creates may ask for: ports and memory
  DefaultPageSize,  \* defaultPageSize (50 in the code)
  MaxPageSize,      \* bound: max_page_size of a request
  MaxChanges,       \* bound: containers created or deleted meanwhile
  MaxFailures       \* bound: requests refused or failing, answers going wrong

ASSUME ListPagingAssumption ==
  /\ {N, MaxChanges, MaxFailures, MaxPageSize} \subseteq Nat
  /\ DefaultPageSize \in Nat \ {0}
  /\ ValidServiceType /\ Step \in Nat \ {0}
  /\ \A spec \in Specs :
       /\ \A p \in spec.ports : p.visibility \in Visibilities
       /\ spec.memory.min.unit \in ApiUnits /\ spec.memory.max.unit \in ApiUnits
       /\ {spec.memory.min.n, spec.memory.max.n} \subseteq Nat
       /\ ValidMemory(spec.memory)

Names == 1 .. N

(***************************************************************************)
(* absent    not created yet                                               *)
(* creating  the Deployment exists, its Service does not yet               *)
(* live      complete                                                      *)
(* deleting  the Service is gone or was never made, the Deployment exists  *)
(* gone      deleted                                                       *)
(***************************************************************************)
Lives == {"absent", "creating", "live", "deleting", "gone"}

VARIABLES
  old,      \* the containers there were when the paging began
  life,     \* of each Deployment
  asked,    \* what its create asked for, once there was one
  phase,    \* the client: asking, reading (in a List call), done
  token,    \* the page token for the next call: an offset
  next,     \* NextPageToken of the call under way: an offset, or End
  page,     \* the containers of its page
  shown,    \* what it has reconstructed of them so far
  touched,  \* history: containers whose creation or deletion overlaps it
  times,    \* how often each container was in an answer
  failures, \* what has been refused, has failed or gone wrong
  last      \* the exchange of a request that ended in the last step

cluster == <<old, life, asked>>
listing == <<next, page, shown, touched>>
vars == <<cluster, phase, token, listing, times, failures, last>>

End == N + 1   \* no NextPageToken

Deployments == {n \in Names : life[n] \in {"creating", "live", "deleting"}}
Unsettled   == {n \in Names : life[n] \in {"creating", "deleting"}}
Service(n)  == IF life[n] = "live" /\ NeedsService(asked[n].ports)
                 THEN BuildService(asked[n].ports) ELSE NoService

Born == {n \in Names \ old : life[n] # "absent"}
Gone == {n \in Names : life[n] = "gone"}

Init ==
  /\ old \in SUBSET Names
  /\ life = [n \in Names |-> IF n \in old THEN "live" ELSE "absent"]
  /\ asked \in [old -> Specs]
  /\ phase = "asking" /\ token = 0 /\ next = 0
  /\ page = {} /\ shown = <<>> /\ touched = {}
  /\ times = [n \in Names |-> 0]
  /\ failures = 0 /\ last = NewExchange

-----------------------------------------------------------------------------
Codes == {200, 201, 204, 400, 404, 500}

(* No request ends in this step.                                           *)
NoAnswer == last' = NewExchange /\ UNCHANGED failures

(* The exchange of each request with each flaw, decision and fault, and    *)
(* each container before its Service is known, computed once.              *)
Served == [r \in (Flaws \cup {"none"}) \X Codes \X Faults |-> Serve(r[1], r[2], r[3])]
Bare   == [spec \in Specs |-> ContainerFromDeployment(BuildDeployment(spec))]

(* A request ends: the handler's status goes through the layers.           *)
Answer(code, fault) ==
  /\ fault # "none" => failures < MaxFailures
  /\ failures' = IF fault = "none" THEN failures ELSE failures + 1
  /\ last' = Served[<<"none", code, fault>>]

-----------------------------------------------------------------------------
(* The position of n in the sorted list.                                   *)
Position(n) == Cardinality({m \in Deployments : m < n})

(* Mutant of Slice: not sorted, but in the order of the map they come from. *)
SliceUnsorted(offset, limit) ==
  LET At(n) == IF Cardinality(Deployments) % 2 = 0 THEN Position(n)
               ELSE Cardinality({m \in Deployments : m > n})
  IN {n \in Deployments : offset <= At(n) /\ At(n) < offset + limit}

Slice(offset, limit) ==
  {n \in Deployments : offset <= Position(n) /\ Position(n) < offset + limit}

PageSize(size) == IF size = 0 THEN DefaultPageSize ELSE size

Least(a, b) == IF a < b THEN a ELSE b

(* Mutants of NextToken: the token after the last page is not withheld;    *)
(* one container too many is skipped.                                      *)
NextTokenAlways(offset, limit, total) ==
  IF offset + limit <= total THEN offset + limit ELSE End

NextTokenSkips(offset, limit, total) ==
  IF offset + limit < total THEN offset + limit + 1 ELSE End

NextToken(offset, limit, total) ==
  IF offset + limit < total THEN offset + limit ELSE End

(* List up to the listing of the Deployments.                              *)
ListDeployments(size) ==
  LET total  == Cardinality(Deployments)
      offset == Least(token, total)
      limit  == Least(PageSize(size), total - offset)
  IN /\ phase = "asking"
     /\ phase' = "reading"
     /\ page' = Slice(offset, limit)
     /\ next' = NextToken(offset, limit, total)
     /\ shown' = <<>>
     /\ touched' = Unsettled
     /\ NoAnswer
     /\ UNCHANGED <<cluster, token, times>>

Unread == page \ DOMAIN shown

(* buildContainer of the next one: its Service is looked up by its label.  *)
BuildContainer ==
  /\ phase = "reading"
  /\ \E n \in Unread :
       /\ \A m \in Unread : n <= m
       /\ shown' = [k \in DOMAIN shown \cup {n} |->
                      IF k = n
                        THEN EnrichWithService(Bare[asked[n]], Service(n))
                        ELSE shown[k]]
  /\ NoAnswer
  /\ UNCHANGED <<cluster, phase, token, next, page, touched, times>>

Forget == page' = {} /\ shown' = <<>> /\ touched' = {} /\ next' = 0

(* A Kubernetes call fails or the request's time is over, or a container   *)
(* has several Pods: an answer 500, with or without a fault of its own.    *)
ListFails ==
  /\ phase = "reading"
  /\ failures < MaxFailures
  /\ failures' = failures + 1
  /\ \E fault \in Faults : last' = Served[<<"none", 500, fault>>]
  /\ phase' = "asking"
  /\ Forget
  /\ UNCHANGED <<cluster, token, times>>

(* The answer, and the client's next call: for the next page if there is a *)
(* token, for the same page if it has not received this one.               *)
ListReturns ==
  /\ phase = "reading"
  /\ Unread = {}
  /\ \E fault \in Faults : Answer(200, fault)
  /\ \/ /\ Accepted(last')
        /\ times' = [n \in Names |-> IF n \in page THEN times[n] + 1 ELSE times[n]]
        /\ phase' = IF next = End THEN "done" ELSE "asking"
        /\ token' = IF next = End THEN 0 ELSE next
     \/ /\ ~Accepted(last')
        /\ phase' = "asking"
        /\ UNCHANGED <<times, token>>
  /\ Forget
  /\ UNCHANGED cluster

(* A page token that is no offset: List refuses it.                        *)
TokenRefused == Served[<<"none", 400, "none">>]

(* A request of this client or another one is refused, most before a       *)
(* handler of the program sees them.                                       *)
Refused ==
  /\ phase = "asking"
  /\ failures < MaxFailures
  /\ failures' = failures + 1
  /\ last' \in {Served[<<flaw, 200, "none">>] : flaw \in Flaws} \cup {TokenRefused}
  /\ UNCHANGED <<cluster, phase, token, listing, times>>

-----------------------------------------------------------------------------
(* The cluster, changed by other requests.                                 *)

Moves(n, value) ==
  /\ life' = [life EXCEPT ![n] = value]
  /\ touched' = IF phase = "reading" THEN touched \cup {n} ELSE touched
  /\ UNCHANGED <<old, phase, token, next, page, shown, times>>

Becomes(n, value) == Moves(n, value) /\ UNCHANGED asked

MayChange == phase # "done" /\ Cardinality(Born) + Cardinality(Gone) < MaxChanges

CreateDeployment(n) ==
  /\ MayChange /\ life[n] = "absent"
  /\ \E spec \in Specs :
       /\ asked' = [m \in DOMAIN asked \cup {n} |-> IF m = n THEN spec ELSE asked[m]]
       /\ \/ NeedsService(spec.ports) /\ Moves(n, "creating") /\ NoAnswer
          \/ ~NeedsService(spec.ports) /\ Moves(n, "live") /\ Answer(201, "none")

CreateService(n) ==
  /\ phase # "done" /\ life[n] = "creating"
  /\ Becomes(n, "live") /\ Answer(201, "none")

(* The Service could not be created; the rollback may fail too.            *)
Rollback(n) ==
  /\ MayChange /\ life[n] = "creating"
  /\ Becomes(n, "gone") \/ Becomes(n, "deleting")
  /\ Answer(500, "none")

DeleteService(n) ==
  /\ MayChange /\ life[n] = "live" /\ NeedsService(asked[n].ports)
  /\ Becomes(n, "deleting") /\ NoAnswer

DeleteDeployment(n) ==
  /\ MayChange
  /\ \/ life[n] = "deleting"
     \/ life[n] = "live" /\ ~NeedsService(asked[n].ports)
  /\ Becomes(n, "gone") /\ Answer(204, "none")

Listing == (\E size \in 0 .. MaxPageSize : ListDeployments(size))
           \/ BuildContainer \/ ListReturns

Others == \E n \in Names :
  CreateDeployment(n) \/ CreateService(n) \/ Rollback(n)
  \/ DeleteService(n) \/ DeleteDeployment(n)

Next == Listing \/ ListFails \/ Refused \/ Others

(* The client asks for the next page and the server answers.               *)
Spec == Init /\ [][Next]_vars /\ WF_vars(Listing)

-----------------------------------------------------------------------------
TypeOK ==
  /\ old \subseteq Names /\ life \in [Names -> Lives]
  /\ DOMAIN asked = {n \in Names : life[n] # "absent"} /\ \A n \in DOMAIN asked : asked[n] \in Specs
  /\ phase \in {"asking", "reading", "done"}
  /\ token \in 0 .. N /\ next \in 0 .. End
  /\ page \subseteq Names /\ touched \subseteq Names /\ DOMAIN shown \subseteq page
  /\ \A n \in DOMAIN shown : \A p \in shown[n].ports : p.visibility \in Visibilities
  /\ times \in [Names -> Nat] /\ failures \in 0 .. MaxFailures
  /\ last \in [status : Codes \cup {0}, lines : 0 .. 2, whole : BOOLEAN, recorded : Codes,
               logged : Codes \cup {0}, panic : {"none", "panic", "abort"}, broken : BOOLEAN]

Stayed == old \ Gone
UpTo(S, n) == {m \in S : m <= n}
Below(S, n) == {m \in S : m < n}

(* Offsets shift under deletes (the known limitation of REQ-K8S-250), by   *)
(* one container per delete and never otherwise: of those that were there  *)
(* from the first page to the last, no more are missing up to some name    *)
(* than have been deleted below it.  Without deletes the listing is        *)
(* complete.                                                               *)
SkippedByDeletes ==
  LET missing == {n \in Stayed : times[n] = 0}
  IN phase = "done" =>
       \A n \in missing : Cardinality(UpTo(missing, n)) <= Cardinality(Below(Gone, n))

(* ... and under creates: no more are listed again than have been created  *)
(* below them, retried calls included.                                     *)
RepeatedByCreates ==
  LET again == {n \in Names : times[n] > 1}
  IN \A n \in again : Cardinality(UpTo(again, n)) <= Cardinality(Below(Born, n))

(* A listing shows the ports and the memory as they were asked for,        *)
(* although visibility is inferred from a Service read later than its      *)
(* Deployment and Kubernetes rewrites quantities.  The exceptions: a       *)
(* container being created or deleted during the call may be shown with    *)
(* another visibility; an internal port next to an external one of the     *)
(* same container is shown external (AC-K8S-156 infers it so); 2^63 bytes  *)
(* or more are stored and shown as 2^63 - 1; and zero and multiples of     *)
(* 1024TB are not shown in a unit of the API.                              *)
ListedAsAsked ==
  \A n \in DOMAIN shown :
    /\ n \notin touched => ShownAsAsked(shown[n].ports, asked[n].ports)
    /\ SameMemory(shown[n].memory.min, asked[n].memory.min)
    /\ SameMemory(shown[n].memory.max, asked[n].memory.max)

(* Every request is logged with the status its client receives, whichever  *)
(* layer answers it and whatever fails while it does; only a request whose *)
(* handler panics is not logged at all (which REQ-HTTP-060 does not        *)
(* exempt).                                                                *)
LoggedAsAnswered ==
  last # NewExchange =>
    IF last.logged = 0 THEN last.panic # "none"
                       ELSE Received(last) => last.logged = last.status

(* Every request is answered, panics included, unless it is aborted on     *)
(* purpose; a second status line is attempted only when the connection is  *)
(* broken and nobody receives either.                                      *)
AnsweredOnce ==
  last # NewExchange =>
    /\ last.lines = 0 => last.panic = "abort"
    /\ last.lines > 1 => ~Received(last)

(* Following the tokens comes to an end.                                   *)
PagingEnds == <>(phase = "done")
=============================================================================
