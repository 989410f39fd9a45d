-------------------------- MODULE MCContainerStore --------------------------
(* Instances of the store for TLC.  Requests are interchangeable and so    *)
(* are instance IDs; only safety is checked, so both symmetries are sound. *)
EXTENDS ContainerStore, TLC

Symmetry == Permutations(Requests) \cup Permutations(Ids)
=============================================================================
