-------------------------------- MODULE ReadHalo --------------------------------
(***************************************************************************)
(* The reader and the Halo distribution together: on every rank,           *)
(* applyMpiDistribution offers each location to Halo::assignRecord and     *)
(* keeps it if Halo::isMyRecord, and frameAvailable calls                  *)
(* Halo::computePatchLocs when no frame is left.                           *)
(***************************************************************************)
EXTENDS ObsFrameRead

CONSTANTS MaxDist, Radius   \* see Halo

ASSUME HaloAssumption == MaxDist \in Nat /\ Radius \in [Rank -> Nat]

VARIABLES
  distance, pc, recordsInHalo, recordsOutsideHalo, recordDistancesFromCenter,
  haloLocVector, haloLocRecords, patchObsBool, globalUniqueConsecutiveLocIndices,
  maxSent, minlocSent

\* The assignRecord calls that the obs source calls for
SourceCalls ==
  [i \in 1 .. Cardinality(Kept) |->
     LET l == CHOOSE l \in Kept : Cardinality({k \in Kept : k < l}) = i - 1
     IN [rec |-> RecordOf(l), loc |-> l]]

H == INSTANCE Halo WITH
       calls <- SourceCalls,
       pos <- [r \in Rank |-> Len(calls[r])]

patchVars == <<patchObsBool, globalUniqueConsecutiveLocIndices, maxSent, minlocSent>>
haloVars == <<distance, pc, recordsInHalo, recordsOutsideHalo, recordDistancesFromCenter,
              haloLocVector, haloLocRecords, patchVars>>
allVars == <<readerVars, haloVars>>

InitReadHalo ==
  /\ InitReader
  /\ distance \in [Rank -> [Loc -> 0 .. MaxDist]]
  /\ H!InitHalo

\* Filtering, numbering and storing do not involve the distribution
Read(r) == ReadStep(r) /\ UNCHANGED haloVars

\* applyMpiDistribution for one location
Distribute(r) ==
  /\ CanAssign(r)
  /\ H!Assign(r, NextRec(r), NextLoc(r))
  /\ ApplyMpiDistribution(r, NextRec(r) \in recordsInHalo'[r])
  /\ UNCHANGED <<distance, pc, patchVars>>

\* frameAvailable without a frame left: into computePatchLocs
EndOfFrames(r) ==
  /\ NoFrameLeft(r)
  /\ H!SendMax(r)
  /\ UNCHANGED distance

\* The rest of computePatchLocs
PatchLocsMinloc(r) == UNCHANGED readerVars /\ H!SendMinloc(r)
PatchLocsFinish(r) == UNCHANGED readerVars /\ H!FinishPatchLocs(r)

RankStep(r) ==
  Read(r) \/ Distribute(r) \/ EndOfFrames(r) \/ PatchLocsMinloc(r) \/ PatchLocsFinish(r)

AllTerminated == H!Done /\ UNCHANGED allVars

NextReadHalo == (\E r \in Rank : RankStep(r)) \/ AllTerminated

ReadHaloSpec ==
  /\ InitReadHalo
  /\ [][NextReadHalo]_allVars
  /\ \A r \in Rank : WF_allVars(RankStep(r))

-----------------------------------------------------------------------------

\* Frame by frame, the ranks make the assignRecord calls that Halo assumes:
\* the same on every rank, in the order of the locations, and all of them
\* before computePatchLocs.  Hence what is shown of Halo holds here.
ImplementsHalo == H!Spec

\* Once all the ranks are done, allGatherv of a variable of the obs spaces
\* returns each observation whose record starts in the halo of some rank
\* exactly once: filtering, numbering, distribution, storage and patch flags
\* agree with one another over frames and ranks.
EveryObsOnce ==
  H!Done =>
    LET gathered == H!AllGatherv(stored) IN
    /\ \A i, j \in DOMAIN gathered : gathered[i] = gathered[j] => i = j
    /\ Range(gathered) =
         {l \in Kept : \E r \in Rank : distance[r][FirstOfRecord(l)] <= Radius[r]}

\* Every rank gets through the frames and through computePatchLocs: the ranks
\* reach the collective calls however their frames are interleaved.
Finishes == <>H!Done

-----------------------------------------------------------------------------
(***************************************************************************)
(* The inductive invariant behind the two safety properties                *)
(* (ReadHaloProofs): where reader and distribution must be in step.        *)
(***************************************************************************)

\* The distribution takes records until the frames end
InStep == /\ pc \in [Rank -> {"assign", "max", "minloc", "done"}]
          /\ \A r \in Rank : phase[r] # "done" => pc[r] = "assign"

ReadHaloInv == ReaderInv /\ InStep
=============================================================================
