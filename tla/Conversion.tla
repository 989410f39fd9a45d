----------------------------- MODULE Conversion -----------------------------
(***************************************************************************)
(* What a create puts into its Deployment and Service about ports and      *)
(* memory, and what a read reconstructs from the two.  Visibility is not   *)
(* stored: it is inferred from the type of the Service and from the ports  *)
(* it exposes.  The order of ports is left out, and so is what is copied   *)
(* as it is (image, process, environment, labels, whole CPUs).             *)
(***************************************************************************)
EXTENDS Naturals

CONSTANTS
  ExternalServiceType,  \* externalServiceType of the configuration
  Step,                 \* from one unit of memory to the next (1024 in the code)
  KeptTexts             \* amounts whose text Kubernetes keeps, not made canonical

(* The configuration is refused otherwise.                                 *)
ValidServiceType == ExternalServiceType \in {"LoadBalancer", "NodePort"}

Visibilities == {"none", "internal", "external"}
NoService == [type |-> "none", targets |-> {}]

-----------------------------------------------------------------------------
(* Memory: an amount is a number with a unit, Kubernetes' or the API's.    *)

Amount(n, unit) == [n |-> n, unit |-> unit]

UnitPairs == {<<"MB", "Mi">>, <<"GB", "Gi">>, <<"TB", "Ti">>}

ApiUnits == {pair[1] : pair \in UnitPairs}

Mi == Step * Step   \* the units in bytes
Gi == Step * Mi
Ti == Step * Gi
Pi == Step * Ti
Ei == Step * Pi

(* Kubernetes' largest amount, 2^63 - 1.                                   *)
MaxBytes == 8 * Ei - 1

(* An amount in bytes.                                                     *)
InBytes(q) ==
  q.n * CASE q.unit \in {"MB", "Mi"} -> Mi
          [] q.unit \in {"GB", "Gi"} -> Gi
          [] q.unit \in {"TB", "Ti"} -> Ti
          [] q.unit = "Pi"           -> Pi
          [] q.unit = "Ei"           -> Ei
          [] OTHER                   -> 1

(* Kubernetes' parser of quantities turns larger amounts into the largest. *)
Parsed(q) == IF InBytes(q) <= MaxBytes THEN q ELSE Amount(MaxBytes, "bytes")

ConvertMemory(q) ==
  Parsed(Amount(q.n, (CHOOSE pair \in UnitPairs : pair[1] = q.unit)[2]))

(* Kubernetes' canonical text: the largest unit that leaves no fraction.   *)
(* (Ki never is: amounts are multiples of Mi, or the largest, which is     *)
(* odd.)                                                                   *)
Canonical(q) ==
  LET bytes == InBytes(q)
      Divides(unit) == bytes # 0 /\ bytes % InBytes(Amount(1, unit)) = 0
      unit == IF Divides("Ei") THEN "Ei" ELSE IF Divides("Pi") THEN "Pi"
              ELSE IF Divides("Ti") THEN "Ti" ELSE IF Divides("Gi") THEN "Gi"
              ELSE IF Divides("Mi") THEN "Mi" ELSE "bytes"
  IN Amount(bytes \div InBytes(Amount(1, unit)), unit)

(* What Kubernetes gives back for a quantity.                              *)
Stored(q) == IF q \in KeptTexts THEN q ELSE Canonical(q)

(* Mutant of MemoryQuantityToAPI: the unit is taken to be Mi.              *)
MemoryToMB(q) == Amount(q.n, "MB")

(* Other units are passed on as they are.                                  *)
MemoryQuantityToAPI(q) ==
  IF \E pair \in UnitPairs : pair[2] = q.unit
    THEN Amount(q.n, (CHOOSE pair \in UnitPairs : pair[2] = q.unit)[1])
    ELSE q

(* The handler refuses a create whose minimum exceeds its maximum; it      *)
(* compares what they are converted to.                                    *)
ValidMemory(memory) ==
  InBytes(ConvertMemory(memory.min)) <= InBytes(ConvertMemory(memory.max))

-----------------------------------------------------------------------------
(* Creating.                                                               *)

PortsWithVisibility(ports) == {p \in ports : p.visibility # "none"}

HasExternalPort(ports) == \E p \in ports : p.visibility = "external"

ResolveServiceType(ports) ==
  IF HasExternalPort(ports) THEN ExternalServiceType ELSE "ClusterIP"

Numbers(ports) == {p.number : p \in ports}

(* The Deployment: all ports, without visibility, and the quantities.      *)
BuildDeployment(spec) ==
  [ports |-> Numbers(spec.ports),
   memory |-> [min |-> ConvertMemory(spec.memory.min), max |-> ConvertMemory(spec.memory.max)]]

BuildService(ports) ==
  [type |-> ResolveServiceType(ports), targets |-> Numbers(PortsWithVisibility(ports))]

NeedsService(ports) == PortsWithVisibility(ports) # {}

-----------------------------------------------------------------------------
(* Reading.                                                                *)

ContainerFromDeployment(deploy) ==
  [ports |-> {[number |-> k, visibility |-> "none"] : k \in deploy.ports},
   memory |-> [min |-> MemoryQuantityToAPI(Stored(deploy.memory.min)),
               max |-> MemoryQuantityToAPI(Stored(deploy.memory.max))]]

InferVisibility(type) ==
  IF type \in {"LoadBalancer", "NodePort"} THEN "external" ELSE "internal"

(* Mutants of EnrichWithService: every port takes the Service's            *)
(* visibility; the Service's type is shown for it.                         *)
EnrichAllPorts(c, service) ==
  IF service = NoService THEN c
  ELSE [c EXCEPT !.ports = {[p EXCEPT !.visibility = InferVisibility(service.type)] : p \in @}]

EnrichWithType(c, service) ==
  [c EXCEPT !.ports =
     {[p EXCEPT !.visibility = IF p.number \in service.targets THEN service.type ELSE @] : p \in @}]

EnrichWithService(c, service) ==
  [c EXCEPT !.ports =
     {[p EXCEPT !.visibility =
         IF p.number \in service.targets THEN InferVisibility(service.type) ELSE @] : p \in @}]

-----------------------------------------------------------------------------
(* The visibilities a create asks for a port's number.                     *)
Wanted(ports, k) == {p.visibility : p \in {q \in ports : q.number = k}}

(* What a read should show of what a create asked for: a port has the      *)
(* visibility asked for its number, and is hidden only if nothing else     *)
(* was; but an internal port next to an external one is external, since    *)
(* one Service exposes them both.                                          *)
ShownAsAsked(shown, ports) ==
  /\ Numbers(shown) = Numbers(ports)
  /\ \A p \in shown :
       LET wanted == Wanted(ports, p.number)
       IN  \/ p.visibility \in wanted /\ (p.visibility = "none" => wanted = {"none"})
           \/ p.visibility = "external" /\ "internal" \in wanted /\ HasExternalPort(ports)

(* An amount of memory is the same, up to Kubernetes' largest, in a unit   *)
(* of the API; only multiples of 1024TB, zero among them, and the largest  *)
(* amount may be shown in Kubernetes' terms.                               *)
SameMemory(shown, asked) ==
  /\ InBytes(shown) = IF InBytes(asked) <= MaxBytes THEN InBytes(asked) ELSE MaxBytes
  /\ shown.unit \in ApiUnits \/ InBytes(asked) % Pi = 0 \/ InBytes(asked) > MaxBytes
=============================================================================
