---------------------------- MODULE HaloDistribution ----------------------------
(* The Halo distribution seen as a Distribution. *)
EXTENDS Halo

D == INSTANCE Distribution WITH
       closed <- {r \in Rank : pc[r] = "done"},
       patch <- [r \in Rank |-> PatchLocs(r)]

\* Halo keeps what Distribution.h promises at every step and not only at the
\* end: each rank that returns from computePatchLocs takes a patch of whole
\* records, disjoint from the others, and no location is left behind.
ImplementsDistribution == D!Spec
=============================================================================
