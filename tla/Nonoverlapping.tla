----------------------------- MODULE Nonoverlapping -----------------------------
(***************************************************************************)
(* The distributions that place each record on one rank: RoundRobin and    *)
(* Atlas, and what they inherit from NonoverlappingDistribution.           *)
(* Every location held is a patch location; computePatchLocs only counts   *)
(* the locations on lower ranks, with an exclusive scan.                   *)
(***************************************************************************)
EXTENDS Integers, Sequences, FiniteSets, FiniteSetsExt, Vectors

CONSTANTS
  NRanks,     \* comm_.size()
  NLocs       \* number of locations in the obs source

ASSUME NRanksAssumption == NRanks \in Nat \ {0}
ASSUME NLocsAssumption == NLocs \in Nat

Rank == 0 .. NRanks - 1
Loc == 0 .. NLocs - 1
Rec == Loc

VARIABLES
  calls, pos, indx, recnums,   \* the reader, as in Halo
  name,                        \* "RoundRobin" or "Atlas"
  partition,                   \* Atlas: the mesh partition that contains a location
  pc,                          \* "assign", "scan" or "done"
  myRecords,                   \* Atlas: RecordAssigner's members
  nextRecordToAssign,
  numLocationsOnThisRank,
  numLocationsOnLowerRanks

client == <<calls, pos, indx, recnums>>
assigner == <<myRecords, nextRecordToAssign>>
vars == <<client, name, partition, pc, assigner, numLocationsOnThisRank,
          numLocationsOnLowerRanks>>

D == INSTANCE Distribution WITH
       closed <- {r \in Rank : pc[r] = "done"},
       patch <- [r \in Rank |-> IF pc[r] = "done" THEN Range(indx[r]) ELSE {}]

Init ==
  /\ calls \in D!CallSequences
  /\ pos = [r \in Rank |-> 0]
  /\ indx = [r \in Rank |-> <<>>]
  /\ recnums = [r \in Rank |-> <<>>]
  /\ name \in {"RoundRobin", "Atlas"}
  /\ partition \in [Loc -> Rank]
  /\ pc = [r \in Rank |-> "assign"]
  /\ myRecords = [r \in Rank |-> {}]
  /\ nextRecordToAssign = [r \in Rank |-> 0]
  /\ numLocationsOnThisRank = [r \in Rank |-> 0]
  /\ numLocationsOnLowerRanks = [r \in Rank |-> 0]

\* Mutant: every location of a record is looked up in the mesh
AssignEveryLocation(r, rec, loc) ==
  /\ myRecords' = [myRecords EXCEPT ![r] =
                     IF partition[loc] = r THEN @ \cup {rec} ELSE @ \ {rec}]
  /\ nextRecordToAssign' = [nextRecordToAssign EXCEPT ![r] = rec + 1]

\* Mutant: the record to expect next is not counted on other ranks' records
AssignCountingMine(r, rec, loc) ==
  /\ rec = nextRecordToAssign[r]
  /\ myRecords' = [myRecords EXCEPT ![r] = IF partition[loc] = r THEN @ \cup {rec} ELSE @]
  /\ nextRecordToAssign' =
       [nextRecordToAssign EXCEPT ![r] = IF partition[loc] = r THEN @ + 1 ELSE @]

\* RecordAssigner::assignRecord for a record not seen before: the location's
\* mesh partition decides
AssignNextRecord(r, rec, loc) ==
  /\ rec = nextRecordToAssign[r]
  /\ myRecords' = [myRecords EXCEPT ![r] = IF partition[loc] = r THEN @ \cup {rec} ELSE @]
  /\ nextRecordToAssign' = [nextRecordToAssign EXCEPT ![r] = @ + 1]

\* The part of assignRecord that only Atlas has
AssignInMesh(r, rec, loc) ==
  \/ name = "Atlas" /\ AssignNextRecord(r, rec, loc)
  \/ (name = "Atlas" => rec < nextRecordToAssign[r]) /\ UNCHANGED assigner

\* Mutant: every rank keeps every record, seen before or not
IsAnyRecord(r, rec, mine) == rec \in Rec

\* Mutant: ranks counted from 1
IsMyRecordFromOne(r, rec, mine) ==
  IF name = "RoundRobin" THEN rec % NRanks = r + 1 ELSE rec \in mine

\* isMyRecord; mine is RecordAssigner's set of records
IsMyRecord(r, rec, mine) ==
  IF name = "RoundRobin" THEN rec % NRanks = r ELSE rec \in mine

\* assignRecord for the next location, which is kept if isMyRecord
AssignRecord(r) ==
  /\ pc[r] = "assign"
  /\ pos[r] < Len(calls)
  /\ LET c == calls[pos[r] + 1] IN
       /\ AssignInMesh(r, c.rec, c.loc)
       /\ LET isMyRecord == IsMyRecord(r, c.rec, myRecords'[r]) IN
            /\ numLocationsOnThisRank' =
                 IF isMyRecord THEN [numLocationsOnThisRank EXCEPT ![r] = @ + 1]
                 ELSE numLocationsOnThisRank
            /\ indx' = IF isMyRecord THEN [indx EXCEPT ![r] = Append(@, c.loc)] ELSE indx
            /\ recnums' = IF isMyRecord THEN [recnums EXCEPT ![r] = Append(@, c.rec)]
                          ELSE recnums
  /\ pos' = [pos EXCEPT ![r] = @ + 1]
  /\ UNCHANGED <<calls, name, partition, pc, numLocationsOnLowerRanks>>

\* computePatchLocs up to its contribution to the exclusive scan
ComputePatchLocs(r) ==
  /\ pc[r] = "assign"
  /\ pos[r] = Len(calls)
  /\ pc' = [pc EXCEPT ![r] = "scan"]
  /\ UNCHANGED <<client, name, partition, assigner, numLocationsOnThisRank,
                 numLocationsOnLowerRanks>>

\* Mutant: the scan includes this rank
InclusiveScan(r) == SumBelow(numLocationsOnThisRank, r + 1)

\* oops::mpi::exclusiveScan
ExclusiveScan(r) == SumBelow(numLocationsOnThisRank, r)

\* The scan returns: it needs what the lower ranks contribute, no more
FinishPatchLocs(r) ==
  /\ pc[r] = "scan"
  /\ \A s \in 0 .. r - 1 : pc[s] # "assign"
  /\ numLocationsOnLowerRanks' = [numLocationsOnLowerRanks EXCEPT ![r] = ExclusiveScan(r)]
  /\ pc' = [pc EXCEPT ![r] = "done"]
  /\ UNCHANGED <<client, name, partition, assigner, numLocationsOnThisRank>>

Done == \A r \in Rank : pc[r] = "done"
Terminated == Done /\ UNCHANGED vars

Step(r) == AssignRecord(r) \/ ComputePatchLocs(r) \/ FinishPatchLocs(r)

Next == (\E r \in Rank : Step(r)) \/ Terminated

Spec == Init /\ [][Next]_vars

-----------------------------------------------------------------------------

\* globalUniqueConsecutiveLocationIndex of the i-th location of rank r
LocationIndex(r, i) == numLocationsOnLowerRanks[r] + i - 1

\* allGatherv: the elements of all the ranks, in the order of the ranks
AllGatherv(x) == Joined(x, NRanks)

\* Types of the variables
TypeOK ==
  /\ calls \in Seq(D!Call)
  /\ pos \in [Rank -> 0 .. Len(calls)]
  /\ indx \in [Rank -> Seq(Loc)]
  /\ recnums \in [Rank -> Seq(Rec)]
  /\ name \in {"RoundRobin", "Atlas"}
  /\ partition \in [Loc -> Rank]
  /\ pc \in [Rank -> {"assign", "scan", "done"}]
  /\ myRecords \in [Rank -> SUBSET Rec]
  /\ nextRecordToAssign \in [Rank -> 0 .. NLocs]
  /\ numLocationsOnThisRank \in [Rank -> 0 .. NLocs]
  /\ numLocationsOnLowerRanks \in [Rank -> 0 .. NLocs]

\* "We assume records will be assigned in consecutive order": the ASSERT in
\* RecordAssigner::assignRecord never fails, whichever records the rank keeps
\* and however the locations of the records alternate in the obs source.
RecordsConsecutive ==
  \A r \in Rank : name = "Atlas" /\ pos[r] < Len(calls) =>
                    calls[pos[r] + 1].rec <= nextRecordToAssign[r]

\* Each location offered is held by one rank, and by no other: the ranks decide
\* about a record separately, without communication, and agree.
PlacedOnce ==
  Done => \A i \in DOMAIN calls :
            \E r \in Rank : /\ calls[i].loc \in Range(indx[r])
                            /\ \A s \in Rank : calls[i].loc \in Range(indx[s]) => s = r

\* globalUniqueConsecutiveLocationIndex maps a location to its element of any
\* vector that allGatherv produces; numLocationsOnThisRank counts the vector's
\* elements, as the ASSERT in allGatherv demands.
GatherIndex ==
  Done =>
    LET gathered == AllGatherv(indx) IN
    \A r \in Rank :
      /\ Len(indx[r]) = numLocationsOnThisRank[r]
      /\ \A i \in DOMAIN indx[r] :
           /\ LocationIndex(r, i) + 1 \in DOMAIN gathered
           /\ gathered[LocationIndex(r, i) + 1] = indx[r][i]

\* A rank's patch is all that it holds, and these patches are what
\* Distribution.h promises, also for a rank that returns from the scan while
\* higher ranks are still assigning records.
ImplementsDistribution == D!Spec

-----------------------------------------------------------------------------
(***************************************************************************)
(* The inductive invariant behind the safety properties                    *)
(* (NonoverlappingProofs).                                                 *)
(***************************************************************************)

\* Types of the variables that decide where a location goes
Types ==
  /\ calls \in Seq(D!Call)
  /\ pos \in [Rank -> 0 .. Len(calls)]
  /\ indx \in [Rank -> Seq(Loc)]
  /\ recnums \in [Rank -> Seq(Rec)]
  /\ name \in {"RoundRobin", "Atlas"}
  /\ partition \in [Loc -> Rank]
  /\ pc \in [Rank -> {"assign", "scan", "done"}]
  /\ myRecords \in [Rank -> SUBSET Rec]
  /\ nextRecordToAssign \in [Rank -> Nat]

\* What the reader guarantees of the calls
Offered ==
  /\ \A i, j \in DOMAIN calls : i < j => calls[i].loc < calls[j].loc
  /\ \A i \in DOMAIN calls :
       calls[i].rec = 0 \/ \E j \in 1 .. i - 1 : calls[j].rec \in {calls[i].rec, calls[i].rec - 1}

\* The rank on which every rank, on its own, decides to place a record
FirstCall(rec) ==
  CHOOSE j \in DOMAIN calls : calls[j].rec = rec /\ \A k \in 1 .. j - 1 : calls[k].rec # rec
PlaceOf(rec) ==
  IF name = "RoundRobin" THEN rec % NRanks ELSE partition[calls[FirstCall(rec)].loc]

\* nextRecordToAssign counts the records seen, mine or not
Counted ==
  name = "Atlas" => \A r \in Rank :
    /\ \A i \in 1 .. pos[r] : calls[i].rec < nextRecordToAssign[r]
    /\ \A c \in 0 .. nextRecordToAssign[r] - 1 : \E i \in 1 .. pos[r] : calls[i].rec = c

\* myRecords are the records seen that belong here
Decided ==
  name = "Atlas" => \A r \in Rank :
    /\ \A c \in myRecords[r] : c < nextRecordToAssign[r]
    /\ \A i \in 1 .. pos[r] : calls[i].rec \in myRecords[r] <=> PlaceOf(calls[i].rec) = r

\* The k-th location that a rank keeps, with its record
Kept(locs, recs, k) == [rec |-> recs[k], loc |-> locs[k]]

\* The caller's vectors hold exactly the calls whose record belongs here
HeldCalls ==
  \A r \in Rank :
    /\ Len(recnums[r]) = Len(indx[r])
    /\ \A k \in DOMAIN indx[r] : \E i \in 1 .. pos[r] :
         calls[i] = Kept(indx[r], recnums[r], k) /\ PlaceOf(calls[i].rec) = r
    /\ \A i \in 1 .. pos[r] : PlaceOf(calls[i].rec) = r =>
         \E k \in DOMAIN indx[r] : calls[i] = Kept(indx[r], recnums[r], k)

AllOffered == \A r \in Rank : pc[r] # "assign" => pos[r] = Len(calls)

IInv == Types /\ Offered /\ Counted /\ Decided /\ HeldCalls /\ AllOffered

\* A rank counts what it holds. One that has returned from the scan has counted
\* what the lower ranks hold, which have all their records. Inductive together
\* with IInv.
Scanned ==
  /\ numLocationsOnThisRank = [r \in Rank |-> Len(indx[r])]
  /\ numLocationsOnLowerRanks \in [Rank -> Nat]
  /\ \A r \in Rank : pc[r] = "done" =>
       /\ \A s \in 0 .. r - 1 : pc[s] # "assign"
       /\ numLocationsOnLowerRanks[r] = Len(Joined(indx, r))
=============================================================================
