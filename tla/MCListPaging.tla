---------------------------- MODULE MCListPaging ----------------------------
(* What creates ask for in ListPaging: nothing to expose, and memory that  *)
(* has a larger unit; a hidden port next to an internal one, and no        *)
(* minimum; a port of each visibility, and more memory than the API has    *)
(* units for and than Kubernetes can count.  A unit is 4 of the next       *)
(* smaller one here, since TLC's integers have 32 bits.                    *)
EXTENDS ListPaging

Port(k, v) == [number |-> k, visibility |-> v]

MCSpecs ==
  { [ports |-> {Port(1, "none")},
     memory |-> [min |-> Amount(2, "MB"), max |-> Amount(4, "MB")]],
    [ports |-> {Port(1, "none"), Port(2, "internal")},
     memory |-> [min |-> Amount(0, "MB"), max |-> Amount(4, "GB")]],
    [ports |-> {Port(1, "none"), Port(2, "internal"), Port(3, "external")},
     memory |-> [min |-> Amount(4, "TB"), max |-> Amount(200, "TB")]] }

MCKeptTexts == {Amount(4, "Mi")}
=============================================================================
