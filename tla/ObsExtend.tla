-------------------------------- MODULE ObsExtend --------------------------------
(***************************************************************************)
(* ObsSpace::extendObsSpace (src/ObsSpace.cc) on all ranks: each record    *)
(* gets a companion record of Levels locations on the ranks that hold it.  *)
(* The companions have a distribution of their own, a replica of dist_,    *)
(* and dist_ becomes the PairOfDistributions of the two.                   *)
(*                                                                         *)
(* The original distribution is any that keeps the promises of module      *)
(* Distribution: "nonoverlapping" (RoundRobin, Atlas), "identity"          *)
(* (InefficientDistribution: every record on every rank, rank 0 owns the   *)
(* patch) or "general" (Halo).  Each collective is a step that contributes *)
(* and one that returns.                                                   *)
(***************************************************************************)
EXTENDS Integers, Sequences, FiniteSets, FiniteSetsExt, SequencesExt

CONSTANTS
  NRanks,     \* comm_.size()
  NLocs,      \* number of locations in the obs source
  Levels,     \* params.companionRecordLength
  Kinds       \* the kinds of original distribution

ASSUME SizesAssumption == NRanks \in Nat \ {0} /\ NLocs \in Nat /\ Levels \in Nat \ {0}
ASSUME KindsAssumption == Kinds \subseteq {"nonoverlapping", "identity", "general"}

Rank == 0 .. NRanks - 1
Loc == 0 .. NLocs - 1
Rec == Loc

VARIABLES
  kind,
  calls,              \* the locations and records offered by the reader
  patch,              \* the patch locations of the original distribution
  pc,                 \* "start", "bounds", "patchlocs", "sum", "done" or "skipped"
  indx, recnums,      \* locations held, the companions last
  numOriginalLocs,
  upperLocs,          \* upperBoundOnGlobalNumOriginalLocs
  upperRecs,          \* upperBoundOnGlobalNumOriginalRecs
  myGlobalLocs,       \* the replica: companion locations held,
  isMyPatchObs,       \* whether they are in this rank's patch,
  replicaIndices,     \* and their index among all patch locations
  gnlocs,
  offset              \* secondGlobalUniqueConsecutiveLocationIndexOffset_

original == <<kind, calls, patch, numOriginalLocs>>
replica == <<myGlobalLocs, isMyPatchObs, replicaIndices>>
vars == <<original, pc, indx, recnums, upperLocs, upperRecs, replica, gnlocs, offset>>

D == INSTANCE Distribution WITH pos <- [r \in Rank |-> Len(calls)], closed <- Rank

\* The ranks that hold the records of calls and the rank whose patch they are in
Placements ==
  {p \in [{c.rec : c \in Range(calls)} -> [holders : SUBSET Rank, owner : Rank]] :
     \A rec \in DOMAIN p :
       CASE kind = "nonoverlapping" -> p[rec].holders = {p[rec].owner}
         [] kind = "identity" -> p[rec].holders = Rank /\ p[rec].owner = 0
         [] kind = "general" -> IF p[rec].holders = {} THEN p[rec].owner = 0
                                ELSE p[rec].owner \in p[rec].holders}

Init ==
  /\ kind \in Kinds
  /\ calls \in D!CallSequences
  /\ \E p \in Placements :
       LET held(r) == SelectSeq(calls, LAMBDA c : r \in p[c.rec].holders)
           owned(r) == {c \in Range(held(r)) : p[c.rec].owner = r}
       IN /\ indx = [r \in Rank |-> [i \in DOMAIN held(r) |-> held(r)[i].loc]]
          /\ recnums = [r \in Rank |-> [i \in DOMAIN held(r) |-> held(r)[i].rec]]
          /\ patch = [r \in Rank |-> {c.loc : c \in owned(r)}]
  /\ numOriginalLocs = [r \in Rank |-> Len(indx[r])]
  /\ pc = [r \in Rank |-> "start"]
  /\ upperLocs = [r \in Rank |-> 0]
  /\ upperRecs = [r \in Rank |-> 0]
  /\ myGlobalLocs = [r \in Rank |-> <<>>]
  /\ isMyPatchObs = [r \in Rank |-> <<>>]
  /\ replicaIndices = [r \in Rank |-> <<>>]
  /\ gnlocs = [r \in Rank |-> Len(calls)]
  /\ offset = [r \in Rank |-> 0]

-----------------------------------------------------------------------------

Original(r) == 1 .. numOriginalLocs[r]

\* allGatherv of what each rank has: in the order of the ranks
Gathered(x) == FlattenSeq([n \in 1 .. NRanks |-> x[n - 1]])

\* 0-based place of e in the sequence s
IndexIn(s, e) == (CHOOSE k \in DOMAIN s : s[k] = e) - 1

\* The collectives of the identity distribution are local
Communicates == kind # "identity"

\* The number of collectives that rank r has contributed to
Phase(r) ==
  CASE pc[r] \in {"start", "skipped"} -> 0
    [] pc[r] = "bounds" -> 1
    [] pc[r] = "patchlocs" -> 2
    [] pc[r] \in {"sum", "done"} -> 3

\* Every rank has contributed to the collective that rank r waits for
Arrived(r) == Communicates => \A s \in Rank : Phase(s) >= Phase(r)

\* Distribution::max over what each rank contributes
DistMax(r, x) == IF Communicates THEN Max({x[s] : s \in Rank}) ELSE x[r]

\* Mutant: ranks without locations leave at once
SkipIfNothingHeld(r) == numOriginalLocs[r] = 0

\* The condition around the whole of extendObsSpace is false
NothingToExtend(r) == gnlocs[r] = 0

Skip(r) ==
  /\ pc[r] = "start"
  /\ NothingToExtend(r)
  /\ pc' = [pc EXCEPT ![r] = "skipped"]
  /\ UNCHANGED <<original, indx, recnums, upperLocs, upperRecs, replica, gnlocs, offset>>

\* The contributions of a rank to the two maxima
ReduceBounds(r) ==
  /\ pc[r] = "start"
  /\ ~NothingToExtend(r)
  /\ upperLocs' = [upperLocs EXCEPT ![r] = IF indx[r] = <<>> THEN 0 ELSE Last(indx[r]) + 1]
  /\ upperRecs' = [upperRecs EXCEPT ![r] = Max(Range(recnums[r]) \cup {-1}) + 1]
  /\ pc' = [pc EXCEPT ![r] = "bounds"]
  /\ UNCHANGED <<original, indx, recnums, replica, gnlocs, offset>>

\* Mutant: the bound is this rank's own
OwnUpperLocs(r) == upperLocs[r]

\* upperBoundOnGlobalNumOriginalLocs and ...Recs after the reduction
GlobalUpperLocs(r) == DistMax(r, upperLocs)
GlobalUpperRecs(r) == DistMax(r, upperRecs)

\* ReplicaOfGeneralDistribution's masterPatchRecords_
MasterPatchRecords(r) == {recnums[r][i] : i \in {j \in Original(r) : indx[r][j] \in patch[r]}}

\* Mutant: all records held, as if the master did not overlap
InPatchIfHeld(r, rec) == rec \in Range(recnums[r])

\* Whether the replica puts the companion of rec into this rank's patch
InReplicaPatch(r, rec) ==
  CASE kind = "nonoverlapping" -> TRUE
    [] kind = "identity" -> r = 0
    [] kind = "general" -> rec \in MasterPatchRecords(r)

\* The loop over uniqueOriginalRecs, up to the contribution to the replica's
\* computePatchLocs.  upperLocs and upperRecs keep what the rank contributed.
CreateCompanions(r) ==
  LET recs == SetToSortSeq(Range(recnums[r]), <)
      companionRec(j) == recs[(j - 1) \div Levels + 1]
      globalCompanionLoc(j) == (companionRec(j) * Levels) + ((j - 1) % Levels)
      js == 1 .. Len(recs) * Levels
  IN /\ pc[r] = "bounds"
     /\ Arrived(r)
     /\ recnums' = [recnums EXCEPT ![r] =
                      @ \o [j \in js |-> GlobalUpperRecs(r) + companionRec(j)]]
     /\ indx' = [indx EXCEPT ![r] =
                   @ \o [j \in js |-> GlobalUpperLocs(r) + globalCompanionLoc(j)]]
     /\ myGlobalLocs' = [myGlobalLocs EXCEPT ![r] = [j \in js |-> globalCompanionLoc(j)]]
     /\ isMyPatchObs' = [isMyPatchObs EXCEPT ![r] =
                           [j \in js |-> InReplicaPatch(r, companionRec(j))]]
     /\ pc' = [pc EXCEPT ![r] = "patchlocs"]
     /\ UNCHANGED <<original, upperLocs, upperRecs, replicaIndices, gnlocs, offset>>

\* The replica's companion locations in the patch of rank r
ReplicaPatch(r) ==
  LET mine == SelectSeq([j \in DOMAIN myGlobalLocs[r] |-> j], LAMBDA j : isMyPatchObs[r][j])
  IN [k \in DOMAIN mine |-> myGlobalLocs[r][mine[k]]]

\* UNASSIGNED in ReplicaOfGeneralDistribution::computePatchLocs
Unassigned == -1

\* Mutant: indices follow the order of the locations
IndicesByLocation(r) == myGlobalLocs[r]

\* The index that the replica's computePatchLocs gives to each companion
ReplicaIndices(r) ==
  CASE kind = "nonoverlapping" ->
         LET lower == MapThenSumSet(LAMBDA s : Len(myGlobalLocs[s]), 0 .. r - 1)
         IN [j \in DOMAIN myGlobalLocs[r] |-> lower + j - 1]
    [] kind = "identity" -> [j \in DOMAIN myGlobalLocs[r] |-> j - 1]
    [] kind = "general" ->
         LET patchObsGlobalLocs == Gathered([s \in Rank |-> ReplicaPatch(s)])
         IN [j \in DOMAIN myGlobalLocs[r] |->
               IF myGlobalLocs[r][j] \in Range(patchObsGlobalLocs)
               THEN IndexIn(patchObsGlobalLocs, myGlobalLocs[r][j]) ELSE Unassigned]

\* The exclusive scan of the nonoverlapping replica waits for lower ranks only
PatchLocsArrived(r) ==
  IF kind = "nonoverlapping" THEN \A s \in 0 .. r - 1 : Phase(s) >= 2 ELSE Arrived(r)

\* The replica's computePatchLocs returns; the sum of the accumulator and the
\* maximum in PairOfDistributions' constructor are next.  (The code frees
\* myGlobalLocs here; it is kept because the properties refer to it.  The two
\* collectives of the general replica, neither of them conditional, are one.)
ReplicaPatchLocs(r) ==
  /\ pc[r] = "patchlocs"
  /\ PatchLocsArrived(r)
  /\ replicaIndices' = [replicaIndices EXCEPT ![r] = ReplicaIndices(r)]
  /\ pc' = [pc EXCEPT ![r] = "sum"]
  /\ UNCHANGED <<original, indx, recnums, upperLocs, upperRecs, myGlobalLocs, isMyPatchObs,
                 gnlocs, offset>>

\* Mutant: each rank counts all it holds
HeldTerms(r) == Len(myGlobalLocs[r])

\* The terms rank r adds up: the identity distribution counts all, locally
AccumulatedTerms(r) ==
  IF kind = "general" THEN Len(ReplicaPatch(r)) ELSE Len(myGlobalLocs[r])

GlobalNumCompanionLocs(r) ==
  IF Communicates THEN MapThenSumSet(AccumulatedTerms, Rank) ELSE AccumulatedTerms(r)

\* The original distribution's globalUniqueConsecutiveLocationIndex: the place
\* of a location among the patch locations, ordered by rank
FirstIndex(r, i) ==
  LET mine(s) == SelectSeq(SubSeq(indx[s], 1, numOriginalLocs[s]), LAMBDA l : l \in patch[s])
  IN IF kind = "identity" THEN i - 1
     ELSE IndexIn(Gathered([s \in Rank |-> mine(s)]), indx[r][i])

\* Mutant: each rank continues from its own locations
OffsetOfRank(r) == IF numOriginalLocs[r] > 0 THEN FirstIndex(r, numOriginalLocs[r]) + 1 ELSE 0

\* The constructor of PairOfDistributions: one more than the index of the last
\* original location, and the maximum of that
SecondOffset(r) ==
  DistMax(r, [s \in Rank |->
    IF numOriginalLocs[s] > 0 THEN FirstIndex(s, numOriginalLocs[s]) + 1 ELSE 0])

\* gnlocs is increased and dist_ replaced
ReplaceDistribution(r) ==
  /\ pc[r] = "sum"
  /\ Arrived(r)
  /\ gnlocs' = [gnlocs EXCEPT ![r] = @ + GlobalNumCompanionLocs(r)]
  /\ offset' = [offset EXCEPT ![r] = SecondOffset(r)]
  /\ pc' = [pc EXCEPT ![r] = "done"]
  /\ UNCHANGED <<original, indx, recnums, upperLocs, upperRecs, replica>>

Done == \A r \in Rank : pc[r] \in {"done", "skipped"}
Terminated == Done /\ UNCHANGED vars

Step(r) == Skip(r) \/ ReduceBounds(r) \/ CreateCompanions(r) \/ ReplicaPatchLocs(r)
           \/ ReplaceDistribution(r)

Next == (\E r \in Rank : Step(r)) \/ Terminated

\* Each rank runs on until it waits for others
Fairness == \A r \in Rank : WF_vars(Step(r))

Spec == Init /\ [][Next]_vars /\ Fairness

-----------------------------------------------------------------------------

\* Companion records are numbered behind all the original ones, companion
\* locations behind all the original locations of the source.
TypeOK ==
  /\ pc \in [Rank -> {"start", "bounds", "patchlocs", "sum", "done", "skipped"}]
  /\ indx \in [Rank -> Seq(0 .. NLocs + NLocs * Levels - 1)]
  /\ recnums \in [Rank -> Seq(0 .. 2 * NLocs - 1)]
  /\ \A r \in Rank : Len(indx[r]) = numOriginalLocs[r] + Len(myGlobalLocs[r])
  /\ gnlocs \in [Rank -> 0 .. NLocs + NLocs * Levels]
  /\ offset \in [Rank -> 0 .. NLocs]

Companion(r) == DOMAIN indx[r] \ Original(r)

\* A global location number, and a global record number, mean the same on all
\* ranks after the extension: no companion takes the number of an original
\* location or of another companion, also where ranks hold different parts of
\* the source (ObsSpace.cc, the two reductions by dist_->max).
NumbersAgree ==
  \A r, s \in Rank : \A i \in DOMAIN indx[r], j \in DOMAIN indx[s] :
    /\ indx[r][i] = indx[s][j] => /\ recnums[r][i] = recnums[s][j]
                                  /\ i \in Original(r) <=> j \in Original(s)
                                  /\ r = s => i = j
    /\ recnums[r][i] = recnums[s][j] => (i \in Original(r) <=> j \in Original(s))

\* PairOfDistributions::patchObs
PatchObs(r) ==
  {i \in DOMAIN indx[r] : IF i \in Original(r) THEN indx[r][i] \in patch[r]
                          ELSE isMyPatchObs[r][i - numOriginalLocs[r]]}

\* After the extension each location held anywhere, original or companion, is in
\* the patch of exactly one rank; a companion is in the patch of the rank that
\* owns its original record.  (Distribution.h: patch obs form a complete,
\* non-overlapping partition.)
ExtendedPartition ==
  Done =>
    \A r \in Rank :
      /\ \A i \in DOMAIN indx[r] :
           Cardinality({<<s, j>> \in UNION {{s} \X PatchObs(s) : s \in Rank} :
                          indx[s][j] = indx[r][i]}) = 1
      /\ \A i \in Original(r), j \in Companion(r) :
           recnums[r][j] = recnums[r][i] + GlobalUpperRecs(r) =>
             (i \in PatchObs(r) <=> j \in PatchObs(r))

\* All ranks agree on globalNumLocs(), which has grown by the number of
\* companion locations, those held on several ranks counted once.
GlobalCount ==
  Done =>
    \A r \in Rank :
      gnlocs[r] = Len(calls) + Cardinality(UNION {Range(myGlobalLocs[s]) : s \in Rank})

\* The result of allGatherv on the numbers of the locations of rank r, through
\* the pair of distributions
PairAllGatherv(r) ==
  LET elements(s, is) == LET mine == SelectSeq([i \in DOMAIN indx[s] |-> i],
                                               LAMBDA i : i \in is)
                         IN [k \in DOMAIN mine |-> indx[s][mine[k]]]
  IN IF kind = "identity" THEN indx[r]
     ELSE Gathered([s \in Rank |-> elements(s, Original(s) \cap PatchObs(s))])
          \o Gathered([s \in Rank |-> elements(s, Companion(s) \cap PatchObs(s))])

\* globalUniqueConsecutiveLocationIndex of the pair of distributions
PairIndexOf(r, i) ==
  IF i \in Original(r) THEN FirstIndex(r, i)
  ELSE offset[r] + replicaIndices[r][i - numOriginalLocs[r]]

\* The replica leaves no companion UNASSIGNED (a SeriousBug in the code) and
\* gives each one the place it has among the companions that allGatherv collects.
ReplicaIndex ==
  \A r \in Rank : \A j \in DOMAIN replicaIndices[r] :
    /\ replicaIndices[r][j] # Unassigned
    /\ Done => LET originals == Cardinality({l \in Range(PairAllGatherv(r)) :
                                               \E s \in Rank : l \in {indx[s][i] : i \in Original(s)}})
                   k == originals + replicaIndices[r][j] + 1
               IN k \in DOMAIN PairAllGatherv(r)
                  /\ PairAllGatherv(r)[k] = indx[r][numOriginalLocs[r] + j]

\* globalUniqueConsecutiveLocationIndex maps a location held to its element of
\* what allGatherv produces (Distribution.h), for originals and companions.
PairIndex ==
  Done =>
    \A r \in Rank : \A i \in DOMAIN indx[r] :
      /\ PairIndexOf(r, i) + 1 \in DOMAIN PairAllGatherv(r)
      /\ PairAllGatherv(r)[PairIndexOf(r, i) + 1] = indx[r][i]

\* The same for the distributions in which the last location of a rank is in its
\* own patch, or on which all ranks agree: there the maximum over the ranks in
\* the constructor of PairOfDistributions is the number of original locations,
\* ranks that hold nothing included.
PairIndexNoOverlap == kind # "general" => PairIndex

\* No rank waits forever in a collective that others pass by: all ranks decide
\* alike whether there is anything to extend.
Completes == <>Done

\* Every location of the extended obs space counts once: it is in one patch, and
\* one term of the global count (extendObsSpace, the replica distributions).
ExtendedOnce == TypeOK /\ ExtendedPartition /\ GlobalCount

\* The index a distribution gives a companion is its place in what allGatherv
\* returns, in the replica and, without overlap, in the pair.
ExtendedIndices == ReplicaIndex /\ PairIndexNoOverlap
=============================================================================
