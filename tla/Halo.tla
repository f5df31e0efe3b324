---------------------------------- MODULE Halo ----------------------------------
(***************************************************************************)
(* The Halo distribution (src/distribution/Halo.cc) on every MPI rank.     *)
(* Each rank keeps the records whose FIRST location lies within the radius *)
(* of its own center.  A record may be kept by several ranks; after the    *)
(* last record the ranks elect, for each location, the one rank whose      *)
(* "patch" it belongs to, and number the patch locations consecutively.    *)
(*                                                                         *)
(* Names are the members of class Halo without the trailing underscore.    *)
(* MPI collectives are two steps: a rank contributes (and records what it  *)
(* sent), and it goes on only when every rank has contributed.             *)
(***************************************************************************)
EXTENDS Integers, Sequences, FiniteSets, FiniteSetsExt, Vectors

CONSTANTS
  NRanks,     \* comm_.size()
  NLocs,      \* number of locations in the obs source
  MaxDist,    \* bound on distances; distances are 0..MaxDist
  Radius      \* radius_ of each rank, halo size included

ASSUME NRanksAssumption == NRanks \in Nat \ {0}
ASSUME NLocsAssumption == NLocs \in Nat
ASSUME MaxDistAssumption == MaxDist \in Nat
ASSUME RadiusAssumption == Radius \in [0 .. NRanks - 1 -> Nat]

Rank == 0 .. NRanks - 1
Loc == 0 .. NLocs - 1

\* next_rec_num_ grows by one per new record, so there are at most NLocs records
Rec == Loc

\* std::numeric_limits<double>::infinity(): above every distance
Inf == MaxDist + 1

Call == [rec : Rec, loc : Loc]

\* The calls of assignRecord that a reader makes: every rank sees the same
\* ones, locations in file order, records numbered by first appearance.
CallSequences ==
  { c \in UNION {[1 .. n -> Call] : n \in 0 .. NLocs} :
      /\ \A i, j \in DOMAIN c : i < j => c[i].loc < c[j].loc
      /\ \A i \in DOMAIN c :
           c[i].rec = 0 \/ \E j \in 1 .. i - 1 : c[j].rec \in {c[i].rec, c[i].rec - 1} }

VARIABLES
  calls,                       \* the assignRecord calls, the same on every rank
  distance,                    \* distance[r][l]: from the center of r to location l
  pos,                         \* calls made so far on each rank
  indx,                        \* the caller's indx_: locations kept on each rank
  recnums,                     \* the caller's recnums_: their record numbers
  pc,                          \* "assign", "max", "minloc" or "done"
  recordsInHalo,
  recordsOutsideHalo,
  recordDistancesFromCenter,   \* Inf where the record has no entry
  haloLocVector,
  haloLocRecords,
  patchObsBool,
  globalUniqueConsecutiveLocIndices,
  maxSent,                     \* contributions to the allReduce(max) of nglocs
  minlocSent                   \* contributions to the allReduce(minloc)

client == <<calls, distance, pos, indx, recnums>>
halo == <<recordsInHalo, recordsOutsideHalo, recordDistancesFromCenter,
          haloLocVector, haloLocRecords>>
result == <<patchObsBool, globalUniqueConsecutiveLocIndices>>
mpi == <<maxSent, minlocSent>>
vars == <<client, pc, halo, result, mpi>>

InitClient ==
  /\ calls \in CallSequences
  /\ distance \in [Rank -> [Loc -> 0 .. MaxDist]]
  /\ pos = [r \in Rank |-> 0]
  /\ indx = [r \in Rank |-> <<>>]
  /\ recnums = [r \in Rank |-> <<>>]

InitHalo ==
  /\ pc = [r \in Rank |-> "assign"]
  /\ recordsInHalo = [r \in Rank |-> {}]
  /\ recordsOutsideHalo = [r \in Rank |-> {}]
  /\ recordDistancesFromCenter = [r \in Rank |-> [c \in Rec |-> Inf]]
  /\ haloLocVector = [r \in Rank |-> <<>>]
  /\ haloLocRecords = [r \in Rank |-> <<>>]
  /\ patchObsBool = [r \in Rank |-> <<>>]
  /\ globalUniqueConsecutiveLocIndices = [r \in Rank |-> <<>>]
  /\ maxSent = [r \in Rank |-> 0]
  /\ minlocSent = [r \in Rank |-> <<>>]

Init == InitClient /\ InitHalo

-----------------------------------------------------------------------------
(***************************************************************************)
(* assignRecord, called for every location that the reader keeps.          *)
(***************************************************************************)

\* Mutant: every location decides for itself
AssignByLocation(r, rec, loc) ==
  LET near == distance[r][loc] <= Radius[r] IN
  /\ recordsInHalo' =
       [recordsInHalo EXCEPT ![r] = IF near THEN @ \cup {rec} ELSE @ \ {rec}]
  /\ recordDistancesFromCenter' =
       IF near THEN [recordDistancesFromCenter EXCEPT ![r][rec] = distance[r][loc]]
       ELSE recordDistancesFromCenter
  /\ haloLocVector' =
       IF near THEN [haloLocVector EXCEPT ![r] = Append(@, loc)] ELSE haloLocVector
  /\ haloLocRecords' =
       IF near THEN [haloLocRecords EXCEPT ![r] = Append(@, rec)] ELSE haloLocRecords
  /\ UNCHANGED recordsOutsideHalo

\* Halo::assignRecord(rec, loc, point): the first location of a record decides
Assign(r, rec, loc) ==
  LET known == rec \in recordsInHalo[r] \cup recordsOutsideHalo[r]
      near  == distance[r][loc] <= Radius[r]
      mine  == rec \in recordsInHalo[r] \/ (~known /\ near)
  IN /\ recordsInHalo' =
          IF mine THEN [recordsInHalo EXCEPT ![r] = @ \cup {rec}] ELSE recordsInHalo
     /\ recordDistancesFromCenter' =
          IF mine /\ ~known
          THEN [recordDistancesFromCenter EXCEPT ![r][rec] = distance[r][loc]]
          ELSE recordDistancesFromCenter
     /\ recordsOutsideHalo' =
          IF mine THEN recordsOutsideHalo
          ELSE [recordsOutsideHalo EXCEPT ![r] = @ \cup {rec}]
     /\ haloLocVector' =
          IF mine THEN [haloLocVector EXCEPT ![r] = Append(@, loc)] ELSE haloLocVector
     /\ haloLocRecords' =
          IF mine THEN [haloLocRecords EXCEPT ![r] = Append(@, rec)] ELSE haloLocRecords

\* ObsFrameRead::applyMpiDistribution for one location: assign it, then keep
\* it if isMyRecord (a lookup in recordsInHalo)
AssignRecord(r) ==
  /\ pc[r] = "assign"
  /\ pos[r] < Len(calls)
  /\ LET c == calls[pos[r] + 1] IN
       /\ Assign(r, c.rec, c.loc)
       /\ indx' = IF c.rec \in recordsInHalo'[r]
                  THEN [indx EXCEPT ![r] = Append(@, c.loc)] ELSE indx
       /\ recnums' = IF c.rec \in recordsInHalo'[r]
                     THEN [recnums EXCEPT ![r] = Append(@, c.rec)] ELSE recnums
  /\ pos' = [pos EXCEPT ![r] = @ + 1]
  /\ UNCHANGED <<calls, distance, pc, result, mpi>>

-----------------------------------------------------------------------------
(***************************************************************************)
(* computePatchLocs, called once after the last assignRecord: a max        *)
(* reduction, and a minloc reduction that is skipped when nglocs is 0.     *)
(***************************************************************************)

\* Mutant: one location too many
LocalNglocsOffByOne(r) ==
  IF haloLocVector[r] = <<>> THEN 0 ELSE haloLocVector[r][Len(haloLocVector[r])] + 2

\* nglocs before the reduction: the highest location index held, plus 1
LocalNglocs(r) ==
  IF haloLocVector[r] = <<>> THEN 0 ELSE haloLocVector[r][Len(haloLocVector[r])] + 1

\* computePatchLocs up to its contribution to allReduceInPlace(nglocs, max)
SendMax(r) ==
  /\ recordsOutsideHalo' = [recordsOutsideHalo EXCEPT ![r] = {}]
  /\ maxSent' = [maxSent EXCEPT ![r] = LocalNglocs(r)]
  /\ pc' = [pc EXCEPT ![r] = "max"]
  /\ UNCHANGED <<recordsInHalo, recordDistancesFromCenter, haloLocVector,
                 haloLocRecords, result, minlocSent>>

ComputePatchLocs(r) ==
  /\ pc[r] = "assign"
  /\ pos[r] = Len(calls)
  /\ SendMax(r)
  /\ UNCHANGED client

\* nglocs after the reduction
nglocs == Max({maxSent[r] : r \in Rank})

\* Mutant: the location's own distance instead of its record's
DistLocOfLocation(r) ==
  [k \in 1 .. nglocs |->
     IF k - 1 \in Range(haloLocVector[r]) THEN distance[r][k - 1] ELSE Inf]

\* dist_and_lidx_loc of rank r: the record's distance at each location held
DistLoc(r) ==
  [k \in 1 .. nglocs |->
     IF k - 1 \in Range(haloLocVector[r])
     THEN LET i == CHOOSE j \in DOMAIN haloLocVector[r] : haloLocVector[r][j] = k - 1
          IN recordDistancesFromCenter[r][haloLocRecords[r][i]]
     ELSE Inf]

\* Mutant: a rank without locations leaves before the second collective
SendMinlocIfAny(r) ==
  /\ pc[r] = "max"
  /\ \A s \in Rank : pc[s] # "assign"
  /\ \/ /\ maxSent[r] > 0
        /\ minlocSent' = [minlocSent EXCEPT ![r] = DistLoc(r)]
        /\ pc' = [pc EXCEPT ![r] = "minloc"]
     \/ /\ maxSent[r] = 0
        /\ pc' = [pc EXCEPT ![r] = "done"]
        /\ UNCHANGED minlocSent
  /\ UNCHANGED <<client, halo, result, maxSent>>

\* The max reduction returns: contribute to minloc, or leave when nglocs is 0
SendMinloc(r) ==
  /\ pc[r] = "max"
  /\ \A s \in Rank : pc[s] # "assign"
  /\ \/ /\ nglocs > 0
        /\ minlocSent' = [minlocSent EXCEPT ![r] = DistLoc(r)]
        /\ pc' = [pc EXCEPT ![r] = "minloc"]
     \/ /\ nglocs = 0
        /\ pc' = [pc EXCEPT ![r] = "done"]
        /\ UNCHANGED minlocSent
  /\ UNCHANGED <<client, halo, result, maxSent>>

\* eckit::mpi::minloc over pairs {distance, rank}: the lower rank wins a tie
Closest(g, r) ==
  \A s \in Rank : \/ minlocSent[r][g + 1] < minlocSent[s][g + 1]
                  \/ minlocSent[r][g + 1] = minlocSent[s][g + 1] /\ r <= s

\* dist_and_lidx_glb[g].second
Owner(g) == CHOOSE r \in Rank : Closest(g, r)

\* dist_and_lidx_glb[g].first < inf
HeldSomewhere(g) == minlocSent[Owner(g)][g + 1] < Inf

\* Mutant: every rank at the minimal distance takes the location
IsPatchAtMinimum(r, g) == \A s \in Rank : minlocSent[r][g + 1] <= minlocSent[s][g + 1]

\* The location belongs to the patch of this rank
IsPatch(r, g) == Owner(g) = r

\* The patch locations of rank s below location g, counted in Step 1
PatchBelow(s, g) == {h \in 0 .. nglocs - 1 : h < g /\ HeldSomewhere(h) /\ Owner(h) = s}

\* Mutant: an inclusive scan
PatchOnRanksUpTo(s) == {h \in 0 .. nglocs - 1 : HeldSomewhere(h) /\ Owner(h) <= s}

\* patchObsCountOnPreviousRanks[s]
PatchOnPreviousRanks(s) == {h \in 0 .. nglocs - 1 : HeldSomewhere(h) /\ Owner(h) < s}

\* The i-th location that Step 1 pushes: the halo's i-th smallest
Pushed(r, i) ==
  CHOOSE g \in Range(haloLocVector[r]) :
    Cardinality({h \in Range(haloLocVector[r]) : h < g}) = i - 1

\* computeGlobalUniqueConsecutiveLocIndices: Step 1 pushes in the order of
\* gloc, Step 2 increments in the order of haloLocVector
ConsecutiveIndices(r) ==
  [i \in 1 .. Cardinality(Range(haloLocVector[r])) |->
     Cardinality(PatchBelow(Owner(Pushed(r, i)), Pushed(r, i)))
       + Cardinality(PatchOnPreviousRanks(Owner(haloLocVector[r][i])))]

\* The minloc reduction returns: patch flags, global indices, and the
\* containers that are no longer needed are cleared
FinishPatchLocs(r) ==
  /\ pc[r] = "minloc"
  /\ \A s \in Rank : minlocSent[s] # <<>>
  /\ patchObsBool' = [patchObsBool EXCEPT ![r] =
       [i \in DOMAIN haloLocVector[r] |-> IsPatch(r, haloLocVector[r][i])]]
  /\ globalUniqueConsecutiveLocIndices' =
       [globalUniqueConsecutiveLocIndices EXCEPT ![r] = ConsecutiveIndices(r)]
  /\ recordDistancesFromCenter' =
       [recordDistancesFromCenter EXCEPT ![r] = [c \in Rec |-> Inf]]
  /\ haloLocVector' = [haloLocVector EXCEPT ![r] = <<>>]
  /\ haloLocRecords' = [haloLocRecords EXCEPT ![r] = <<>>]
  /\ pc' = [pc EXCEPT ![r] = "done"]
  /\ UNCHANGED <<client, recordsInHalo, recordsOutsideHalo, mpi>>

Terminated == (\A r \in Rank : pc[r] = "done") /\ UNCHANGED vars

Step(r) ==
  AssignRecord(r) \/ ComputePatchLocs(r) \/ SendMinloc(r) \/ FinishPatchLocs(r)

Next == (\E r \in Rank : Step(r)) \/ Terminated

\* Every rank keeps executing its program
Fairness == \A r \in Rank : WF_vars(Step(r))

Spec == Init /\ [][Next]_vars

FairSpec == Spec /\ Fairness

-----------------------------------------------------------------------------
(***************************************************************************)
(* What the rest of IODA reads from the distribution, and properties.      *)
(***************************************************************************)

\* allGathervImpl on rank r: the elements of x at the patch locations
PatchElements(r, x) == Marked(x, patchObsBool[r], Len(x))

\* allGatherv: the patch elements of all the ranks, in the order of the ranks
AllGatherv(x) == Joined([r \in Rank |-> PatchElements(r, x[r])], NRanks)

\* Every rank has returned from computePatchLocs
Done == \A r \in Rank : pc[r] = "done"

\* The locations that rank r counts in reductions
PatchLocs(r) == {indx[r][i] : i \in {j \in DOMAIN patchObsBool[r] : patchObsBool[r][j]}}

\* Types of all the variables
TypeOK ==
  /\ calls \in Seq(Call)
  /\ distance \in [Rank -> [Loc -> 0 .. MaxDist]]
  /\ pos \in [Rank -> 0 .. Len(calls)]
  /\ indx \in [Rank -> Seq(Loc)]
  /\ recnums \in [Rank -> Seq(Rec)]
  /\ pc \in [Rank -> {"assign", "max", "minloc", "done"}]
  /\ recordsInHalo \in [Rank -> SUBSET Rec]
  /\ recordsOutsideHalo \in [Rank -> SUBSET Rec]
  /\ recordDistancesFromCenter \in [Rank -> [Rec -> 0 .. Inf]]
  /\ haloLocVector \in [Rank -> Seq(Loc)]
  /\ haloLocRecords \in [Rank -> Seq(Rec)]
  /\ patchObsBool \in [Rank -> Seq(BOOLEAN)]
  /\ globalUniqueConsecutiveLocIndices \in [Rank -> Seq(Nat)]
  /\ maxSent \in [Rank -> 0 .. NLocs]
  /\ minlocSent \in [Rank -> Seq(0 .. Inf)]

\* The first location of record rec in the obs source, and whether it is in
\* the halo of rank r
FirstCall(rec) ==
  CHOOSE j \in DOMAIN calls : /\ calls[j].rec = rec
                              /\ \A k \in 1 .. j - 1 : calls[k].rec # rec
Near(r, rec) == distance[r][calls[FirstCall(rec)].loc] <= Radius[r]

\* A rank holds either all the locations of a record that it has been offered
\* or none of them, and the record's first location decides which: "a record
\* is assigned to a PE if the first location belonging to that record lies at
\* most a certain distance [...] from the center" (Halo.h).
WholeRecords ==
  \A r \in Rank : \A i \in 1 .. pos[r] :
    calls[i].loc \in Range(indx[r]) <=> Near(r, calls[i].rec)

\* After computePatchLocs every location that some rank holds is a patch
\* location of exactly one rank, and that rank holds it: "patch obs form
\* complete, non-overlapping partition" of the locations held.
PatchPartition ==
  Done => \A r \in Rank : \A i \in DOMAIN indx[r] :
            \E s \in Rank : /\ indx[r][i] \in PatchLocs(s)
                            /\ \A t \in Rank : indx[r][i] \in PatchLocs(t) => t = s

\* The locations of one record are never split between the patches of two
\* ranks: the distance that is compared is the record's, not the location's.
RecordsOwnedWhole ==
  Done => \A r, s \in Rank : \A i \in DOMAIN indx[r], j \in DOMAIN indx[s] :
            /\ recnums[r][i] = recnums[s][j]
            /\ indx[r][i] \in PatchLocs(r)
            /\ indx[s][j] \in PatchLocs(s)
            => r = s

\* globalUniqueConsecutiveLocationIndex maps a location that a rank holds,
\* patch or not, to its element of any vector that allGatherv produces, and
\* allGatherv returns each location held anywhere once. Both rest on the
\* flags and indices having one entry per location (ASSERT in allGathervImpl).
GatherIndex ==
  Done =>
    LET gathered == AllGatherv(indx) IN
    /\ Len(gathered) = Cardinality(UNION {Range(indx[r]) : r \in Rank})
    /\ \A r \in Rank :
         /\ Len(patchObsBool[r]) = Len(indx[r])
         /\ Len(globalUniqueConsecutiveLocIndices[r]) = Len(indx[r])
         /\ \A i \in DOMAIN indx[r] :
              LET k == globalUniqueConsecutiveLocIndices[r][i] + 1
              IN k \in DOMAIN gathered /\ gathered[k] = indx[r][i]

\* Every rank returns from computePatchLocs: all of them take the same branch
\* around the second collective, so none waits for a rank that has left.
Terminates == <>Done

-----------------------------------------------------------------------------
(***************************************************************************)
(* The inductive invariant behind the safety properties (HaloProofs).      *)
(***************************************************************************)

\* Calls come in the order of the locations
CallsInOrder == \A i, j \in DOMAIN calls : i < j => calls[i].loc < calls[j].loc

\* The caller's vectors hold the calls whose record is near, in order
HeldLocations ==
  \A r \in Rank :
    /\ Len(recnums[r]) = Len(indx[r])
    /\ \A k \in DOMAIN indx[r] :
         \E i \in 1 .. pos[r] : /\ calls[i] = [rec |-> recnums[r][k], loc |-> indx[r][k]]
                                /\ Near(r, calls[i].rec)
    /\ \A i \in 1 .. pos[r] : Near(r, calls[i].rec) =>
         \E k \in DOMAIN indx[r] : calls[i] = [rec |-> recnums[r][k], loc |-> indx[r][k]]
    /\ \A k, l \in DOMAIN indx[r] : k < l => indx[r][k] < indx[r][l]

\* The records seen are divided between recordsInHalo and recordsOutsideHalo,
\* and the distance stored is that of the record's first location
RecordsDecided ==
  \A r \in Rank :
    /\ \A c \in recordsInHalo[r] \cup recordsOutsideHalo[r] :
         \E i \in 1 .. pos[r] : calls[i].rec = c
    /\ \A i \in 1 .. pos[r] : LET c == calls[i].rec IN
         /\ c \in recordsInHalo[r] <=> Near(r, c)
         /\ pc[r] = "assign" => (c \in recordsOutsideHalo[r] <=> ~Near(r, c))
         /\ pc[r] # "done" /\ Near(r, c) =>
              recordDistancesFromCenter[r][c] = distance[r][calls[FirstCall(c)].loc]

\* Until they are cleared, haloLocVector and haloLocRecords mirror the caller
Mirrored ==
  \A r \in Rank : pc[r] # "done" => /\ haloLocVector[r] = indx[r]
                                    /\ haloLocRecords[r] = recnums[r]

\* Who has sent what to the two collectives
MaxPhase ==
  \A r \in Rank :
    /\ pc[r] = "assign" => maxSent[r] = 0
    /\ pc[r] # "assign" =>
         /\ pos[r] = Len(calls)
         /\ maxSent[r] = IF indx[r] = <<>> THEN 0 ELSE indx[r][Len(indx[r])] + 1

\* What rank r sends for location g: the distance of g's record if it holds it
KeptCalls(r, g) == {i \in DOMAIN calls : calls[i].loc = g /\ Near(r, calls[i].rec)}
SentDistance(r, g) ==
  IF KeptCalls(r, g) = {} THEN Inf
  ELSE distance[r][calls[FirstCall(calls[CHOOSE i \in KeptCalls(r, g) : TRUE].rec)].loc]

MinlocPhase ==
  \A r \in Rank :
    /\ pc[r] \in {"assign", "max"} => minlocSent[r] = <<>>
    /\ pc[r] = "minloc" => minlocSent[r] # <<>>
    /\ minlocSent[r] # <<>> =>
         /\ \A s \in Rank : pc[s] # "assign"
         /\ minlocSent[r] = [k \in 1 .. nglocs |-> SentDistance(r, k - 1)]
    /\ pc[r] = "done" =>
         /\ \A s \in Rank : pc[s] # "assign"
         /\ nglocs = 0 \/ \A s \in Rank : minlocSent[s] # <<>>

\* The patch flags of a rank that has finished
Flagged ==
  \A r \in Rank :
    patchObsBool[r] = IF pc[r] = "done"
                      THEN [i \in DOMAIN indx[r] |-> IsPatch(r, indx[r][i])]
                      ELSE <<>>

IInv ==
  /\ TypeOK
  /\ CallsInOrder
  /\ HeldLocations
  /\ RecordsDecided
  /\ Mirrored
  /\ MaxPhase
  /\ MinlocPhase
  /\ Flagged

\* The index of a location, patch or not: its place in its owner's patch after
\* the patches of the lower ranks
IndexOf(g) ==
  Cardinality(PatchBelow(Owner(g), g)) + Cardinality(PatchOnPreviousRanks(Owner(g)))

\* The indices of a rank that has finished. Inductive together with IInv.
Indexed ==
  \A r \in Rank :
    globalUniqueConsecutiveLocIndices[r] =
      IF pc[r] = "done" THEN [i \in DOMAIN indx[r] |-> IndexOf(indx[r][i])] ELSE <<>>
=============================================================================
