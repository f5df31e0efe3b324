--------------------------------- MODULE MCHalo ---------------------------------
(* Small instances of Halo for TLC. *)
EXTENDS HaloDistribution

\* The ranks' radii: all 1
SameRadius == [r \in 0 .. NRanks - 1 |-> 1]

\* Three ranks that share up to two locations with a gap between them, or two
\* ranks that share up to three while the third has none within its radius.  The
\* distance of a location that is not offered does not matter.
Small ==
  LET offered == {calls[i].loc : i \in DOMAIN calls}
  IN  /\ offered \subseteq {0, NLocs - 1} \/ \A l \in Loc : distance[NRanks - 1][l] = MaxDist
      /\ \A r \in Rank, l \in Loc \ offered : distance[r][l] = MaxDist

SmallInit == Init /\ Small

SmallSpec == SmallInit /\ [][Next]_vars /\ Fairness
=============================================================================
