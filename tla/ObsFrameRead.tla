------------------------------ MODULE ObsFrameRead ------------------------------
(***************************************************************************)
(* How every MPI rank reads the obs source: ObsFrameRead (src/io) and the  *)
(* loop of ObsSpace::initFromObsSource that stores its frames.             *)
(*                                                                         *)
(* A frame is max_frame_size consecutive rows of every variable of the obs *)
(* source.  For each frame a rank filters the locations, numbers their     *)
(* records, offers each location to the MPI distribution, and appends the  *)
(* locations that are its own to its in-memory obs_group.                  *)
(*                                                                         *)
(* The data of a variable are abstracted to the row of the obs source they *)
(* come from.  There are two classes of variables: those dimensioned by    *)
(* Location, and those dimensioned by something else (here Channel).       *)
(* The distribution is abstract: any one that answers isMyRecord alike for *)
(* all the locations of a record.  ReadHalo puts Halo in its place.        *)
(***************************************************************************)
EXTENDS Integers, Sequences, FiniteSets, FiniteSetsExt

CONSTANTS
  NRanks,                   \* comm().size()
  NLocs,                    \* backend_nlocs_: size of Location in the obs source
  NChans,                   \* size of Channel in the obs source
  MaxFrame,                 \* bound on max_frame_size_
  WindowStart, WindowEnd,   \* the timing window
  SourceLoc                 \* what a location may be: time, missing, key

ASSUME RanksAssumption == NRanks \in Nat \ {0}
ASSUME SizesAssumption == NLocs \in Nat /\ NChans \in Nat /\ MaxFrame \in Nat \ {0}
ASSUME WindowAssumption == WindowStart \in Int /\ WindowEnd \in Int
ASSUME SourceAssumption == \A s \in SourceLoc : s.time \in Int /\ s.missing \in BOOLEAN

Rank == 0 .. NRanks - 1
Loc == 0 .. NLocs - 1
Chan == 0 .. NChans - 1
Rec == Loc
Call == [rec : Rec, loc : Loc]

\* The missing value that fills the elements of a variable not yet written
Fill == -1

\* A key that is not in obs_grouping
None == -1

\* The values of the grouping variables, joined in one key per location
Key == {s.key : s \in SourceLoc}

VARIABLES
  source,                          \* the obs source, the same on every rank
  max_frame_size, grouping, applyLocationsCheck,
  phase,                           \* "frame", "read", "resize", "store" or "done"
  frame_start,
  obs_frame,                       \* the rows of the Location variables in the frame
  checked,                         \* rows of the frame checked so far
  locIndex,                        \* locations of the frame that passed the checks
  records,                         \* their record numbers
  applied,                         \* locations of the frame offered to the distribution
  next_rec_num, obs_grouping,
  gnlocs, gnlocs_outside_timewindow,
  calls,                           \* every assignRecord call made
  indx, recnums,                   \* nlocs_ is their length, nrecs_ counts Range(recnums)
  frame_loc_index,
  adjusted_location_frame_start,
  known_frame_selections,          \* the cached rows of the Location variables, if any
  stored,                          \* a Location variable of obs_group
  channels                         \* a Channel variable of obs_group

config == <<source, max_frame_size, grouping, applyLocationsCheck>>
frame == <<frame_start, obs_frame>>
locations == <<checked, locIndex, gnlocs, gnlocs_outside_timewindow>>
numbering == <<records, next_rec_num, obs_grouping>>
distributed == <<applied, calls, indx, recnums, frame_loc_index>>
obsGroup == <<adjusted_location_frame_start, known_frame_selections, stored, channels>>
readerVars == <<config, phase, frame, locations, numbering, distributed, obsGroup>>

Lesser(a, b) == IF a < b THEN a ELSE b

\* Construction of ObsFrameRead: what the obs source and the parameters say
InitSource ==
  /\ source \in [Loc -> SourceLoc]
  /\ max_frame_size \in 1 .. MaxFrame
  /\ grouping \in BOOLEAN
  /\ applyLocationsCheck \in BOOLEAN

\* frameInit, and members that start empty
InitFrame ==
  /\ frame_start = [r \in Rank |-> 0]
  /\ obs_frame = [r \in Rank |-> <<>>]
  /\ checked = [r \in Rank |-> 0]
  /\ locIndex = [r \in Rank |-> <<>>]
  /\ records = [r \in Rank |-> <<>>]
  /\ applied = [r \in Rank |-> 0]
  /\ next_rec_num = [r \in Rank |-> 0]
  /\ obs_grouping = [r \in Rank |-> [k \in Key |-> None]]
  /\ gnlocs = [r \in Rank |-> 0]
  /\ gnlocs_outside_timewindow = [r \in Rank |-> 0]
  /\ calls = [r \in Rank |-> <<>>]
  /\ indx = [r \in Rank |-> <<>>]
  /\ recnums = [r \in Rank |-> <<>>]
  /\ frame_loc_index = [r \in Rank |-> <<>>]
  /\ adjusted_location_frame_start = [r \in Rank |-> 0]
  /\ known_frame_selections = [r \in Rank |-> <<>>]

\* createObsGroupFromObsFrame: Location starts with the size of a frame
InitObsGroup ==
  /\ stored = [r \in Rank |-> [i \in 1 .. Lesser(NLocs, max_frame_size) |-> Fill]]
  /\ channels = [r \in Rank |-> [c \in Chan |-> Fill]]

InitReader ==
  /\ InitSource
  /\ InitFrame
  /\ InitObsGroup
  /\ phase = [r \in Rank |-> "frame"]

-----------------------------------------------------------------------------
(***************************************************************************)
(* frameAvailable, when there is another frame.                            *)
(***************************************************************************)

\* Mutant: the frames end with the locations
SizeOfLocation == NLocs

\* max_var_size_: the longest first dimension of all the variables
max_var_size == IF NLocs < NChans THEN NChans ELSE NLocs

\* Mutant: the last frame is as long as the others
WholeFrameCount(r, size) == IF frame_start[r] >= size THEN 0 ELSE max_frame_size

\* basicFrameCount of a variable of that size
BasicFrameCount(r, size) ==
  IF frame_start[r] + max_frame_size > size
  THEN IF size - frame_start[r] < 0 THEN 0 ELSE size - frame_start[r]
  ELSE max_frame_size

\* Read the next frame of the obs source into obs_frame
FrameAvailable(r) ==
  /\ phase[r] = "frame"
  /\ frame_start[r] < max_var_size
  /\ obs_frame' = [obs_frame EXCEPT ![r] =
       [i \in 1 .. BasicFrameCount(r, NLocs) |-> frame_start[r] + i - 1]]
  /\ checked' = [checked EXCEPT ![r] = 0]
  /\ locIndex' = [locIndex EXCEPT ![r] = <<>>]
  /\ records' = [records EXCEPT ![r] = <<>>]
  /\ applied' = [applied EXCEPT ![r] = 0]
  /\ frame_loc_index' = [frame_loc_index EXCEPT ![r] = <<>>]
  /\ phase' = [phase EXCEPT ![r] = "read"]
  /\ UNCHANGED <<config, frame_start, gnlocs, gnlocs_outside_timewindow, next_rec_num,
                 obs_grouping, calls, indx, recnums, obsGroup>>

\* Mutant: the window's start is part of the window
InsideClosedWindow(l) == source[l].time >= WindowStart /\ source[l].time <= WindowEnd

\* insideTimingWindow: after the start, up to and including the end
InsideTimingWindow(l) == source[l].time > WindowStart /\ source[l].time <= WindowEnd

\* Whether genFrameLocationsWithQcheck or genFrameLocationsAll keeps a location
KeepThisLocation(l) ==
  applyLocationsCheck => InsideTimingWindow(l) /\ ~source[l].missing

\* One iteration of the loop of genFrameLocationsWithQcheck (or ...All)
CheckLocation(r) ==
  /\ phase[r] = "read"
  /\ checked[r] < Len(obs_frame[r])
  /\ LET l == frame_start[r] + checked[r] IN
       /\ locIndex' =
            IF KeepThisLocation(l) THEN [locIndex EXCEPT ![r] = Append(@, l)] ELSE locIndex
       /\ gnlocs' =
            IF KeepThisLocation(l) THEN [gnlocs EXCEPT ![r] = @ + 1] ELSE gnlocs
       /\ gnlocs_outside_timewindow' =
            IF applyLocationsCheck /\ ~InsideTimingWindow(l)
            THEN [gnlocs_outside_timewindow EXCEPT ![r] = @ + 1]
            ELSE gnlocs_outside_timewindow
  /\ checked' = [checked EXCEPT ![r] = @ + 1]
  /\ UNCHANGED <<config, phase, frame, numbering, distributed, obsGroup>>

\* Mutant: a key is looked up among those of this frame only
RecordNumberInFrame(r, l) ==
  IF grouping /\ \E i \in DOMAIN records[r] : source[locIndex[r][i]].key = source[l].key
  THEN obs_grouping[r][source[l].key] ELSE next_rec_num[r]

\* The number of l's record: next_rec_num, or the one its key has already
RecordNumber(r, l) ==
  IF grouping /\ obs_grouping[r][source[l].key] # None
  THEN obs_grouping[r][source[l].key] ELSE next_rec_num[r]

\* One iteration of genRecordNumbersGrouping, or of genRecordNumbersAll
NumberLocation(r) ==
  /\ phase[r] = "read"
  /\ checked[r] = Len(obs_frame[r])
  /\ Len(records[r]) < Len(locIndex[r])
  /\ LET l == locIndex[r][Len(records[r]) + 1]
         rec == RecordNumber(r, l)
     IN /\ records' = [records EXCEPT ![r] = Append(@, rec)]
        /\ obs_grouping' =
             IF grouping THEN [obs_grouping EXCEPT ![r][source[l].key] = rec]
             ELSE obs_grouping
        /\ next_rec_num' =
             IF rec = next_rec_num[r] THEN [next_rec_num EXCEPT ![r] = @ + 1]
             ELSE next_rec_num
  /\ UNCHANGED <<config, phase, frame, locations, distributed, obsGroup>>

\* The next location to offer to the distribution, and its record
NextLoc(r) == locIndex[r][applied[r] + 1]
NextRec(r) == records[r][applied[r] + 1]

\* applyMpiDistribution has a location to offer
CanAssign(r) ==
  /\ phase[r] = "read"
  /\ checked[r] = Len(obs_frame[r])
  /\ Len(records[r]) = Len(locIndex[r])
  /\ applied[r] < Len(locIndex[r])

\* One iteration of applyMpiDistribution, given the answer of isMyRecord
ApplyMpiDistribution(r, isMyRecord) ==
  /\ calls' = [calls EXCEPT ![r] = Append(@, [rec |-> NextRec(r), loc |-> NextLoc(r)])]
  /\ applied' = [applied EXCEPT ![r] = @ + 1]
  /\ indx' = IF isMyRecord THEN [indx EXCEPT ![r] = Append(@, NextLoc(r))] ELSE indx
  /\ recnums' = IF isMyRecord THEN [recnums EXCEPT ![r] = Append(@, NextRec(r))] ELSE recnums
  /\ frame_loc_index' =
       IF isMyRecord
       THEN [frame_loc_index EXCEPT ![r] = Append(@, NextLoc(r) - frame_start[r])]
       ELSE frame_loc_index
  /\ UNCHANGED <<config, phase, frame, locations, numbering, obsGroup>>

\* The abstract distribution: free to take a new record, bound for a known one
IsMyRecordAnswers(r) ==
  IF \E i \in DOMAIN calls[r] : calls[r][i].rec = NextRec(r)
  THEN {NextRec(r) \in Range(recnums[r])} ELSE BOOLEAN

AssignLocation(r) ==
  /\ CanAssign(r)
  /\ \E isMyRecord \in IsMyRecordAnswers(r) : ApplyMpiDistribution(r, isMyRecord)

\* Mutant: the selection of the previous frame stays cached
FinishFrameKeepingCache(r) ==
  /\ phase[r] = "read"
  /\ checked[r] = Len(obs_frame[r])
  /\ applied[r] = Len(locIndex[r])
  /\ phase' = [phase EXCEPT ![r] = "resize"]
  /\ UNCHANGED <<config, frame, locations, numbering, distributed, obsGroup>>

\* The end of frameAvailable: the selection caches are cleared
FinishFrame(r) ==
  /\ phase[r] = "read"
  /\ checked[r] = Len(obs_frame[r])
  /\ applied[r] = Len(locIndex[r])
  /\ known_frame_selections' = [known_frame_selections EXCEPT ![r] = <<>>]
  /\ phase' = [phase EXCEPT ![r] = "resize"]
  /\ UNCHANGED <<config, frame, locations, numbering, distributed,
                 adjusted_location_frame_start, stored, channels>>

-----------------------------------------------------------------------------
(***************************************************************************)
(* initFromObsSource stores the frame and asks for the next one.           *)
(***************************************************************************)

\* adjusted_location_frame_count_
AdjLocationFrameCount(r) == Len(frame_loc_index[r])

\* resizeLocation: the first frame sets the size of Location, the others add
ResizeLocation(r) ==
  /\ phase[r] = "resize"
  /\ LET size == IF frame_start[r] > 0
                 THEN Len(stored[r]) + AdjLocationFrameCount(r)
                 ELSE AdjLocationFrameCount(r)
     IN stored' = [stored EXCEPT ![r] =
          [i \in 1 .. size |-> IF i \in DOMAIN @ THEN @[i] ELSE Fill]]
  /\ phase' = [phase EXCEPT ![r] = "store"]
  /\ UNCHANGED <<config, frame, locations, numbering, distributed,
                 adjusted_location_frame_start, known_frame_selections, channels>>

\* readFrameVarHelper: the rows of the frame to take, cached by dimension
FrameSelection(r) ==
  IF known_frame_selections[r] = <<>> THEN frame_loc_index[r]
  ELSE known_frame_selections[r]

\* The elements start .. start + count - 1 of a Location variable are written
\* with the selected rows of the frame, as many as there are
StoreLocations(r, start, count) ==
  [i \in DOMAIN stored[r] |->
     IF /\ i \in start + 1 .. start + count
        /\ i - start \in DOMAIN FrameSelection(r)
        /\ FrameSelection(r)[i - start] + 1 \in DOMAIN obs_frame[r]
     THEN obs_frame[r][FrameSelection(r)[i - start] + 1]
     ELSE stored[r][i]]

\* A Channel variable of the frame, stored where frameStart says
StoreChannels(r) ==
  [c \in Chan |->
     IF c \in frame_start[r] .. frame_start[r] + BasicFrameCount(r, NChans) - 1
     THEN c ELSE channels[r][c]]

\* Mutant: the frame moves on by the locations kept
NextFrameStartByKept(r) == frame_start[r] + AdjLocationFrameCount(r)

\* frame_start after frameNext
NextFrameStart(r) == frame_start[r] + max_frame_size

\* readObsSource and storeVar for the variables of the frame, then frameNext
StoreFrame(r) ==
  /\ phase[r] = "store"
  /\ LET start == adjusted_location_frame_start[r]
         count == AdjLocationFrameCount(r)
     IN /\ stored' = [stored EXCEPT ![r] = StoreLocations(r, start, count)]
        /\ known_frame_selections' =
             IF count > 0 THEN [known_frame_selections EXCEPT ![r] = FrameSelection(r)]
             ELSE known_frame_selections
        /\ adjusted_location_frame_start' =
             [adjusted_location_frame_start EXCEPT ![r] = start + count]
  /\ channels' = [channels EXCEPT ![r] = StoreChannels(r)]
  /\ frame_start' = [frame_start EXCEPT ![r] = NextFrameStart(r)]
  /\ phase' = [phase EXCEPT ![r] = "frame"]
  /\ UNCHANGED <<config, obs_frame, locations, numbering, distributed>>

\* frameAvailable finds no further frame (and calls computePatchLocs)
NoFrameLeft(r) ==
  /\ phase[r] = "frame"
  /\ frame_start[r] >= max_var_size
  /\ phase' = [phase EXCEPT ![r] = "done"]
  /\ UNCHANGED <<config, frame, locations, numbering, distributed, obsGroup>>

\* The steps of a rank in which the distribution takes no part
ReadStep(r) ==
  \/ FrameAvailable(r)
  \/ CheckLocation(r)
  \/ NumberLocation(r)
  \/ FinishFrame(r)
  \/ ResizeLocation(r)
  \/ StoreFrame(r)

ReaderDone == \A r \in Rank : phase[r] = "done"
ReaderTerminated == ReaderDone /\ UNCHANGED readerVars

ReaderStep(r) == ReadStep(r) \/ AssignLocation(r) \/ NoFrameLeft(r)

ReaderNext == (\E r \in Rank : ReaderStep(r)) \/ ReaderTerminated

ReaderSpec == InitReader /\ [][ReaderNext]_readerVars

\* Every rank keeps executing its program
ReaderFairSpec == ReaderSpec /\ \A r \in Rank : WF_readerVars(ReaderStep(r))

-----------------------------------------------------------------------------
(***************************************************************************)
(* The meaning of an obs source, without frames; and properties.           *)
(***************************************************************************)

\* The locations that pass the checks
Kept == {l \in Loc : applyLocationsCheck =>
           /\ WindowStart < source[l].time
           /\ source[l].time <= WindowEnd
           /\ ~source[l].missing}

\* The first location of l's record
FirstOfRecord(l) ==
  IF grouping THEN Min({k \in Kept : source[k].key = source[l].key}) ELSE l

\* Records are numbered in the order of their first locations
RecordOf(l) == Cardinality({k \in Kept : k < FirstOfRecord(l) /\ FirstOfRecord(k) = k})

\* Types of the variables
ReaderTypeOK ==
  /\ source \in [Loc -> SourceLoc]
  /\ max_frame_size \in 1 .. MaxFrame
  /\ grouping \in BOOLEAN
  /\ applyLocationsCheck \in BOOLEAN
  /\ phase \in [Rank -> {"frame", "read", "resize", "store", "done"}]
  /\ frame_start \in [Rank -> Nat]
  /\ obs_frame \in [Rank -> Seq(Loc)]
  /\ checked \in [Rank -> 0 .. MaxFrame]
  /\ locIndex \in [Rank -> Seq(Loc)]
  /\ records \in [Rank -> Seq(Rec)]
  /\ applied \in [Rank -> 0 .. MaxFrame]
  /\ next_rec_num \in [Rank -> 0 .. NLocs]
  /\ obs_grouping \in [Rank -> [Key -> Rec \cup {None}]]
  /\ gnlocs \in [Rank -> 0 .. NLocs]
  /\ gnlocs_outside_timewindow \in [Rank -> 0 .. NLocs]
  /\ calls \in [Rank -> Seq(Call)]
  /\ indx \in [Rank -> Seq(Loc)]
  /\ recnums \in [Rank -> Seq(Rec)]
  /\ frame_loc_index \in [Rank -> Seq(Nat)]
  /\ adjusted_location_frame_start \in [Rank -> 0 .. NLocs]
  /\ known_frame_selections \in [Rank -> Seq(Nat)]
  /\ stored \in [Rank -> Seq(Loc \cup {Fill})]
  /\ channels \in [Rank -> [Chan -> Chan \cup {Fill}]]

\* The assignRecord calls of a rank are those that the obs source as a whole
\* calls for: each location that passes the checks, once, in file order, with
\* the number of its record.  They depend neither on the frame size nor on
\* the rank: the distributions rely on every rank making the same calls, and
\* a record that continues in a later frame keeps its number.
CallsOfSource ==
  \A r \in Rank :
    /\ \A i \in DOMAIN calls[r] : /\ calls[r][i].loc \in Kept
                                  /\ calls[r][i].rec = RecordOf(calls[r][i].loc)
    /\ \A i, j \in DOMAIN calls[r] : i < j => calls[r][i].loc < calls[r][j].loc
    /\ \A l \in Kept :
         \/ \E i \in DOMAIN calls[r] : calls[r][i].loc = l
         \/ /\ phase[r] # "done"
            /\ \A i \in DOMAIN calls[r] : calls[r][i].loc < l

\* After each frame the variables of obs_group hold the rows of the locations
\* in indx, in the same order, and nothing else: resizeLocation, the cached
\* selections and adjusted_location_frame_start agree across frames, the
\* frames without any location of this rank included.
StoredInPlace ==
  \A r \in Rank :
    (phase[r] = "frame" /\ frame_start[r] > 0) \/ phase[r] = "done" =>
      stored[r] = indx[r] /\ adjusted_location_frame_start[r] = Len(indx[r])

\* A variable that is not dimensioned by Location is copied whole, also when
\* it is longer than Location: frames go on up to the longest variable.
ChannelsComplete ==
  \A r \in Rank : phase[r] = "done" => channels[r] = [c \in Chan |-> c]

\* "After walking through all the frames, gnlocs_ and gnlocs_outside_timewindow_
\* are set representing the entire file" (ObsSpace.cc).
CountsOfSource ==
  \A r \in Rank : phase[r] = "done" =>
    /\ gnlocs[r] = Cardinality(Kept)
    /\ gnlocs_outside_timewindow[r] =
         Cardinality({l \in Loc : /\ applyLocationsCheck
                                  /\ ~(WindowStart < source[l].time
                                       /\ source[l].time <= WindowEnd)})

\* Every rank reaches the end of the obs source.
ReadsAll == <>ReaderDone

\* However the source is cut into frames, its locations are offered to the
\* distribution once and in order, and counted once, inside or outside the window.
SourceReadOnce == CallsOfSource /\ CountsOfSource

\* However the source is cut into frames, the variables end up whole, whether
\* Location is among their dimensions or not (storeVar, resizeLocation).
StoredWhole == ReaderTypeOK /\ StoredInPlace /\ ChannelsComplete

-----------------------------------------------------------------------------
(***************************************************************************)
(* The inductive invariant behind SourceReadOnce and StoredWhole           *)
(* (ObsFrameReadProofs).  It says of each rank how far it is.              *)
(***************************************************************************)

\* A frame has been read and not yet stored
InFrame(r) == phase[r] \in {"read", "resize", "store"}

\* The rows of the source that have been checked are those below Seen
Seen(r) == Lesser(frame_start[r], NLocs) + IF InFrame(r) THEN checked[r] ELSE 0

\* The locations that have a record number are those below Front
Front(r) == IF Len(records[r]) < Len(locIndex[r]) THEN locIndex[r][Len(records[r]) + 1]
            ELSE Seen(r)

KeptBelow(n) == {l \in Kept : l < n}

\* The first locations of the records that start below n
FirstsBelow(n) == {k \in KeptBelow(n) : FirstOfRecord(k) = k}

\* The rows below n that the timing window excludes
OutsideBelow(n) == {l \in Loc : /\ l < n
                               /\ applyLocationsCheck
                               /\ ~(WindowStart < source[l].time /\ source[l].time <= WindowEnd)}

\* Where the loops over the frame are
Progress(r) ==
  /\ InFrame(r) => /\ obs_frame[r] = [i \in 1 .. BasicFrameCount(r, NLocs) |-> frame_start[r] + i - 1]
                   /\ checked[r] <= Len(obs_frame[r])
  /\ Len(locIndex[r]) <= checked[r]
  /\ Len(records[r]) <= Len(locIndex[r])
  /\ applied[r] <= Len(records[r])
  /\ phase[r] = "read" /\ records[r] # <<>> => checked[r] = Len(obs_frame[r])
  /\ applied[r] > 0 => Len(records[r]) = Len(locIndex[r])
  /\ phase[r] # "read" => applied[r] = Len(locIndex[r])
  /\ phase[r] \in {"resize", "store"} => checked[r] = Len(obs_frame[r])
  /\ phase[r] = "done" => frame_start[r] >= max_var_size

\* locIndex lists the kept locations of the frame
Located(r) ==
  /\ \A i, j \in DOMAIN locIndex[r] : i < j => locIndex[r][i] < locIndex[r][j]
  /\ \A i \in DOMAIN locIndex[r] : locIndex[r][i] \in Kept /\ locIndex[r][i] < Seen(r)
  /\ InFrame(r) =>
       /\ \A i \in DOMAIN locIndex[r] : frame_start[r] <= locIndex[r][i]
       /\ \A l \in Kept : frame_start[r] <= l /\ l < Seen(r) =>
            \E i \in DOMAIN locIndex[r] : locIndex[r][i] = l

\* The numbers given, and those still to be given, are those of the whole source
Numbered(r) ==
  /\ \A i \in DOMAIN records[r] : records[r][i] = RecordOf(locIndex[r][i])
  /\ next_rec_num[r] = Cardinality(FirstsBelow(Front(r)))
  /\ grouping =>
       /\ \A l \in KeptBelow(Front(r)) : obs_grouping[r][source[l].key] = RecordOf(l)
       /\ \A k \in Key : obs_grouping[r][k] # None =>
            \E l \in KeptBelow(Front(r)) : source[l].key = k

\* Every location seen has been offered, or is among those still to be
Called(r) ==
  /\ \A i \in DOMAIN calls[r] : /\ calls[r][i].loc \in KeptBelow(Seen(r))
                                /\ calls[r][i].rec = RecordOf(calls[r][i].loc)
  /\ \A i, j \in DOMAIN calls[r] : i < j => calls[r][i].loc < calls[r][j].loc
  /\ \A i \in DOMAIN calls[r], j \in applied[r] + 1 .. Len(locIndex[r]) :
       calls[r][i].loc < locIndex[r][j]
  /\ \A l \in KeptBelow(Seen(r)) :
       \/ \E i \in DOMAIN calls[r] : calls[r][i].loc = l
       \/ \E j \in applied[r] + 1 .. Len(locIndex[r]) : locIndex[r][j] = l

\* Counters agree with what they count
CountedRows(r) ==
  /\ gnlocs[r] = Cardinality(KeptBelow(Seen(r)))
  /\ gnlocs_outside_timewindow[r] = Cardinality(OutsideBelow(Seen(r)))
  /\ Len(calls[r]) + (Len(locIndex[r]) - applied[r]) = gnlocs[r]
  /\ Len(indx[r]) <= Len(calls[r])

\* The rows stored are those of the frames before, and frame_loc_index says which
\* rows of this frame follow
StoredRows(r) ==
  /\ InFrame(r) =>
       /\ Len(indx[r]) = adjusted_location_frame_start[r] + Len(frame_loc_index[r])
       /\ \A i \in DOMAIN frame_loc_index[r] :
            /\ frame_loc_index[r][i] = indx[r][adjusted_location_frame_start[r] + i] - frame_start[r]
            /\ frame_loc_index[r][i] + 1 \in DOMAIN obs_frame[r]
  /\ ~InFrame(r) => adjusted_location_frame_start[r] = Len(indx[r])
  /\ frame_start[r] = 0 => adjusted_location_frame_start[r] = 0
  /\ frame_start[r] = 0 /\ phase[r] = "frame" => Len(stored[r]) = Lesser(NLocs, max_frame_size)
  /\ frame_start[r] > 0 /\ phase[r] # "store" => Len(stored[r]) = adjusted_location_frame_start[r]
  /\ phase[r] = "done" => Len(stored[r]) = adjusted_location_frame_start[r]
  /\ phase[r] = "store" => Len(stored[r]) = Len(indx[r])
  /\ \A i \in 1 .. adjusted_location_frame_start[r] : stored[r][i] = indx[r][i]
  /\ phase[r] \in {"resize", "store"} => known_frame_selections[r] = <<>>

ChannelRows(r) == \A c \in Chan : c < frame_start[r] => channels[r][c] = c

RankInv(r) ==
  /\ Progress(r) /\ Located(r) /\ Numbered(r) /\ Called(r)
  /\ CountedRows(r) /\ StoredRows(r) /\ ChannelRows(r)

ReaderInv == ReaderTypeOK /\ \A r \in Rank : RankInv(r)
=============================================================================
