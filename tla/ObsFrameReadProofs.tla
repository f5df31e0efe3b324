--------------------------- MODULE ObsFrameReadProofs ---------------------------
(***************************************************************************)
(* Proofs about the frame reader, for any number of ranks, any obs source, *)
(* any frame size and any distribution: the source is offered once and in  *)
(* order whatever the frames, and the variables end up whole.              *)
(***************************************************************************)
EXTENDS ObsFrameRead, VectorProofs

-----------------------------------------------------------------------------
(* The obs source as a whole *)

\* Min is the least element of a non-empty set of naturals.
LEMMA MinIsLeast ==
  ASSUME NEW S, S \subseteq Nat, S # {}
  PROVE  /\ Min(S) \in S
         /\ \A y \in S : Min(S) <= y
BY LeastElement, Zenon DEF Min

\* The kept locations are locations, and the checks keep exactly them.
LEMMA KeptLocations ==
  ASSUME ReaderTypeOK
  PROVE  /\ Kept \subseteq Loc /\ Loc \subseteq Nat
         /\ \A l \in Loc : source[l] \in SourceLoc /\ source[l].key \in Key
         /\ \A l \in Loc : KeepThisLocation(l) <=> l \in Kept
<1>1. Kept \subseteq Loc /\ Loc \subseteq Nat
  BY SizesAssumption DEF Kept, Loc
<1>2. \A l \in Loc : source[l] \in SourceLoc /\ source[l].key \in Key
  BY DEF ReaderTypeOK, Key
<1>3. \A l \in Loc : source[l].time \in Int
  BY <1>2, SourceAssumption
<1>4. ASSUME NEW l \in Loc
      PROVE  KeepThisLocation(l) <=> l \in Kept
  <2>1. (source[l].time > WindowStart) <=> (WindowStart < source[l].time)
    BY <1>3, WindowAssumption
  <2> QED
    BY <2>1, Zenon DEF KeepThisLocation, InsideTimingWindow, Kept
<1> QED
  BY <1>1, <1>2, <1>4

\* Below n there are finitely many kept locations, at most n and at most NLocs.
LEMMA KeptFinite ==
  ASSUME ReaderTypeOK, NEW n \in Nat, NEW S, S \subseteq {l \in Loc : l < n}
  PROVE  /\ IsFiniteSet(S) /\ Cardinality(S) \in Nat
         /\ Cardinality(S) <= n /\ Cardinality(S) <= NLocs
<1>1. IsFiniteSet(0 .. n - 1) /\ Cardinality(0 .. n - 1) = n
  <2>1. IsFiniteSet(0 .. n - 1) /\ Cardinality(0 .. n - 1) = IF 0 > n - 1 THEN 0 ELSE n - 1 - 0 + 1
    BY FS_Interval, n - 1 \in Int, 0 \in Int, Zenon
  <2> QED
    BY <2>1
<1>2. IsFiniteSet(Loc) /\ Cardinality(Loc) = NLocs
  <2>1. 0 \in Int /\ NLocs - 1 \in Int
    BY SizesAssumption
  <2>2. IsFiniteSet(Loc) /\ Cardinality(Loc) = IF 0 > NLocs - 1 THEN 0 ELSE NLocs - 1 - 0 + 1
    BY <2>1, FS_Interval, Zenon DEF Loc
  <2> QED
    BY <2>2, SizesAssumption
<1>3. S \subseteq 0 .. n - 1 /\ S \subseteq Loc
  BY SizesAssumption DEF Loc
<1>4. IsFiniteSet(S) /\ Cardinality(S) <= Cardinality(Loc) /\ Cardinality(S) <= Cardinality(0 .. n - 1)
  BY <1>1, <1>2, <1>3, FS_Subset, Zenon
<1> QED
  BY <1>1, <1>2, <1>4, FS_CardinalityType

\* The first location of a record is a kept location of that record.
LEMMA FirstLocation ==
  ASSUME ReaderTypeOK, NEW l \in Kept
  PROVE  /\ FirstOfRecord(l) \in Kept /\ FirstOfRecord(l) <= l
         /\ FirstOfRecord(FirstOfRecord(l)) = FirstOfRecord(l)
         /\ grouping => /\ source[FirstOfRecord(l)].key = source[l].key
                        /\ \A k \in Kept : source[k].key = source[l].key =>
                             FirstOfRecord(l) <= k /\ FirstOfRecord(k) = FirstOfRecord(l)
<1>1. CASE ~grouping
  <2>1. l \in Nat
    BY KeptLocations
  <2> QED
    BY <1>1, <2>1 DEF FirstOfRecord
<1>2. CASE grouping
  <2> DEFINE S == {k \in Kept : source[k].key = source[l].key}
             f == Min(S)
  <2>1. S \subseteq Nat /\ l \in S
    BY KeptLocations
  <2>2. f \in S /\ \A y \in S : f <= y
    BY <2>1, MinIsLeast, Zenon
  <2>3. FirstOfRecord(l) = f
    BY <1>2, Zenon DEF FirstOfRecord
  <2>4. ASSUME NEW k \in S
        PROVE  FirstOfRecord(k) = f
    <3>1. source[k].key = source[l].key
      OBVIOUS
    <3>2. {j \in Kept : source[j].key = source[k].key} = S
      BY <3>1, Zenon
    <3> QED
      BY <1>2, <3>2, Zenon DEF FirstOfRecord
  <2> HIDE DEF f
  <2> QED
    BY <1>2, <2>1, <2>2, <2>3, <2>4
<1> QED
  BY <1>1, <1>2

\* A record's number counts the records that start before it.
LEMMA RecordNumbers ==
  ASSUME ReaderTypeOK, NEW l \in Kept
  PROVE  /\ RecordOf(l) = Cardinality(FirstsBelow(FirstOfRecord(l)))
         /\ RecordOf(l) \in Rec
<1>1. RecordOf(l) = Cardinality(FirstsBelow(FirstOfRecord(l)))
  <2>1. {k \in Kept : k < FirstOfRecord(l) /\ FirstOfRecord(k) = k} = FirstsBelow(FirstOfRecord(l))
    BY Zenon DEF FirstsBelow, KeptBelow
  <2> QED
    BY <2>1, Zenon DEF RecordOf
<1>2. FirstOfRecord(l) \in Nat /\ FirstOfRecord(l) < NLocs
  BY FirstLocation, KeptLocations, SizesAssumption DEF Loc
<1>3. FirstsBelow(FirstOfRecord(l)) \subseteq {k \in Loc : k < FirstOfRecord(l)}
  BY KeptLocations, Zenon DEF FirstsBelow, KeptBelow
<1>4. Cardinality(FirstsBelow(FirstOfRecord(l))) \in Nat
      /\ Cardinality(FirstsBelow(FirstOfRecord(l))) <= FirstOfRecord(l)
  BY <1>2, <1>3, KeptFinite
<1> QED
  BY <1>1, <1>2, <1>4, SizesAssumption DEF Rec, Loc

\* The records that start below n are finitely many.
LEMMA FirstsFinite ==
  ASSUME ReaderTypeOK, NEW n \in Nat
  PROVE  /\ IsFiniteSet(FirstsBelow(n)) /\ IsFiniteSet(KeptBelow(n))
         /\ Cardinality(FirstsBelow(n)) \in 0 .. NLocs
         /\ Cardinality(KeptBelow(n)) \in 0 .. NLocs
<1>1. FirstsBelow(n) \subseteq {k \in Loc : k < n} /\ KeptBelow(n) \subseteq {k \in Loc : k < n}
  BY KeptLocations, Zenon DEF FirstsBelow, KeptBelow
<1> QED
  BY <1>1, KeptFinite, SizesAssumption

\* A location whose key occurs before it belongs to a record counted already.
LEMMA KnownRecord ==
  ASSUME ReaderTypeOK, grouping, NEW l \in Kept, NEW k \in Kept, k < l,
         source[k].key = source[l].key
  PROVE  /\ RecordOf(k) = RecordOf(l) /\ FirstOfRecord(l) # l
         /\ RecordOf(l) < Cardinality(FirstsBelow(l))
<1> DEFINE f == FirstOfRecord(l)
<1>1. f \in Kept /\ f <= k /\ FirstOfRecord(k) = f /\ FirstOfRecord(f) = f
  BY FirstLocation, Zenon
<1>2. f \in Nat /\ k \in Nat /\ l \in Nat /\ \A j \in Kept : j \in Nat
  BY <1>1, KeptLocations
<1>3. f < l
  BY <1>1, <1>2
<1>4. RecordOf(k) = RecordOf(l) /\ RecordOf(l) = Cardinality(FirstsBelow(f))
  BY <1>1, RecordNumbers
<1> HIDE DEF f
<1>5. f \notin FirstsBelow(f) /\ FirstsBelow(f) \cup {f} \subseteq FirstsBelow(l)
  <2>1. ~(f < f) /\ \A j \in Kept : j < f => j < l
    BY <1>2, <1>3
  <2> QED
    BY <1>1, <1>3, <2>1, Zenon DEF FirstsBelow, KeptBelow
<1>6. IsFiniteSet(FirstsBelow(f)) /\ IsFiniteSet(FirstsBelow(l))
      /\ Cardinality(FirstsBelow(f)) \in Nat /\ Cardinality(FirstsBelow(l)) \in Nat
  BY <1>2, FirstsFinite
<1>7. Cardinality(FirstsBelow(f) \cup {f}) = Cardinality(FirstsBelow(f)) + 1
  BY <1>5, <1>6, FS_AddElement, Zenon
<1>8. Cardinality(FirstsBelow(f) \cup {f}) <= Cardinality(FirstsBelow(l))
  BY <1>5, <1>6, FS_Subset, Zenon
<1>9. RecordOf(l) < Cardinality(FirstsBelow(l))
  BY <1>4, <1>6, <1>7, <1>8
<1> QED
  BY <1>3, <1>2, <1>4, <1>9 DEF f

\* Passing location l counts its record if it starts there.
LEMMA NextFirsts ==
  ASSUME ReaderTypeOK, NEW l \in Kept, NEW m \in Nat, KeptBelow(m) = KeptBelow(l) \cup {l}
  PROVE  Cardinality(FirstsBelow(m)) =
           Cardinality(FirstsBelow(l)) + IF FirstOfRecord(l) = l THEN 1 ELSE 0
<1>1. l \in Nat /\ l \notin KeptBelow(l)
  BY KeptLocations DEF KeptBelow
<1>2. IsFiniteSet(FirstsBelow(l)) /\ Cardinality(FirstsBelow(l)) \in Nat
  BY <1>1, FirstsFinite
<1>3. CASE FirstOfRecord(l) = l
  <2>1. FirstsBelow(m) = FirstsBelow(l) \cup {l} /\ l \notin FirstsBelow(l)
    BY <1>1, <1>3, Zenon DEF FirstsBelow
  <2> QED
    BY <1>2, <1>3, <2>1, FS_AddElement
<1>4. CASE FirstOfRecord(l) # l
  <2>1. FirstsBelow(m) = FirstsBelow(l)
    BY <1>4, Zenon DEF FirstsBelow
  <2> QED
    BY <1>2, <1>4, <2>1
<1> QED
  BY <1>3, <1>4

-----------------------------------------------------------------------------
(* What does not change *)

\* The obs source and what it means stay the same.
LEMMA SourceSame ==
  ASSUME config' = config
  PROVE  /\ Kept' = Kept
         /\ \A l : FirstOfRecord(l)' = FirstOfRecord(l)
         /\ \A l : RecordOf(l)' = RecordOf(l)
         /\ \A n : /\ KeptBelow(n)' = KeptBelow(n)
                  /\ FirstsBelow(n)' = FirstsBelow(n)
                  /\ OutsideBelow(n)' = OutsideBelow(n)
         /\ source' = source /\ grouping' = grouping
         /\ max_frame_size' = max_frame_size /\ applyLocationsCheck' = applyLocationsCheck
<1>1. /\ source' = source /\ grouping' = grouping
      /\ max_frame_size' = max_frame_size /\ applyLocationsCheck' = applyLocationsCheck
  BY DEF config
<1>2. Kept' = Kept
  BY <1>1, Zenon DEF Kept
<1>3. \A l : FirstOfRecord(l)' = FirstOfRecord(l)
  BY <1>1, <1>2, Zenon DEF FirstOfRecord
<1>4. \A l : RecordOf(l)' = RecordOf(l)
  BY <1>2, <1>3, Zenon DEF RecordOf
<1>5. \A n : KeptBelow(n)' = KeptBelow(n)
  BY <1>2, Zenon DEF KeptBelow
<1>6. \A n : FirstsBelow(n)' = FirstsBelow(n)
  BY <1>3, <1>5, Zenon DEF FirstsBelow
<1>7. \A n : OutsideBelow(n)' = OutsideBelow(n)
  BY <1>1, Zenon DEF OutsideBelow
<1> QED
  BY <1>1, <1>2, <1>3, <1>4, <1>5, <1>6, <1>7, Zenon

\* Numbered depends on the numbers given, and on where the numbering is.
LEMMA NumberedSame ==
  ASSUME NEW r, config' = config, Numbered(r),
         next_rec_num'[r] = next_rec_num[r], obs_grouping'[r] = obs_grouping[r],
         \A i \in DOMAIN records'[r] : records'[r][i] = RecordOf(locIndex'[r][i]),
         KeptBelow(Front(r))' = KeptBelow(Front(r))
  PROVE  Numbered(r)'
<1>1. (\A l : RecordOf(l)' = RecordOf(l)) /\ (\A n : FirstsBelow(n)' = FirstsBelow(n))
      /\ source' = source /\ grouping' = grouping
      /\ \A l : FirstOfRecord(l)' = FirstOfRecord(l)
  BY SourceSame, Zenon
<1>2. ASSUME NEW i \in DOMAIN records'[r]
      PROVE  (records[r][i] = RecordOf(locIndex[r][i]))'
  BY <1>1, Zenon
<1>3. FirstsBelow(Front(r))' = FirstsBelow(Front(r))
  BY <1>1, Zenon DEF FirstsBelow
<1>4. (next_rec_num[r] = Cardinality(FirstsBelow(Front(r))))'
  BY <1>3, Zenon DEF Numbered
<1>5. ASSUME grouping', NEW l \in KeptBelow(Front(r))'
      PROVE  (obs_grouping[r][source[l].key] = RecordOf(l))'
  BY <1>1, <1>5, Zenon DEF Numbered
<1>6. ASSUME grouping', NEW k \in Key, (obs_grouping[r][k] # None)'
      PROVE  (\E l \in KeptBelow(Front(r)) : source[l].key = k)'
  <2>1. \E l \in KeptBelow(Front(r)) : source[l].key = k
    BY <1>1, <1>6, Zenon DEF Numbered
  <2> QED
    BY <1>1, <2>1, Zenon
<1> QED
  BY <1>2, <1>4, <1>5, <1>6, Zenon DEF Numbered

\* Progress depends on the loops' own variables.
LEMMA ProgressSame ==
  ASSUME NEW r, config' = config, Progress(r),
         phase'[r] = phase[r], frame_start'[r] = frame_start[r], obs_frame'[r] = obs_frame[r],
         checked'[r] = checked[r], locIndex'[r] = locIndex[r], records'[r] = records[r],
         applied'[r] = applied[r]
  PROVE  Progress(r)'
<1>1. max_frame_size' = max_frame_size
  BY SourceSame, Zenon
<1>2. BasicFrameCount(r, NLocs)' = BasicFrameCount(r, NLocs) /\ (InFrame(r)' <=> InFrame(r))
  BY <1>1, Zenon DEF BasicFrameCount, InFrame
<1> QED
  BY <1>2, SMT DEF Progress

\* Where a rank is in the source depends on the frame and on the loop over it.
LEMMA SeenSame ==
  ASSUME NEW r, InFrame(r)' <=> InFrame(r), frame_start'[r] = frame_start[r],
         checked'[r] = checked[r]
  PROVE  Seen(r)' = Seen(r)
BY Zenon DEF Seen, Lesser

\* Located depends on the locations found.
LEMMA LocatedSame ==
  ASSUME NEW r, config' = config, Located(r), locIndex'[r] = locIndex[r], Seen(r)' = Seen(r),
         InFrame(r)' => InFrame(r) /\ frame_start'[r] = frame_start[r]
  PROVE  Located(r)'
<1>1. Kept' = Kept
  BY SourceSame, Zenon
<1>2. (\A i, j \in DOMAIN locIndex[r] : i < j => locIndex[r][i] < locIndex[r][j])'
  BY Zenon DEF Located
<1>3. (\A i \in DOMAIN locIndex[r] : locIndex[r][i] \in Kept /\ locIndex[r][i] < Seen(r))'
  BY <1>1, Zenon DEF Located
<1>4. ASSUME InFrame(r)'
      PROVE  (/\ \A i \in DOMAIN locIndex[r] : frame_start[r] <= locIndex[r][i]
              /\ \A l \in Kept : frame_start[r] <= l /\ l < Seen(r) =>
                   \E i \in DOMAIN locIndex[r] : locIndex[r][i] = l)'
  BY <1>1, <1>4, Zenon DEF Located
<1> QED
  BY <1>2, <1>3, <1>4, Zenon DEF Located

\* Called depends on the calls made and to be made.
LEMMA CalledSame ==
  ASSUME NEW r, config' = config, Called(r), calls'[r] = calls[r], locIndex'[r] = locIndex[r],
         applied'[r] = applied[r], Seen(r)' = Seen(r)
  PROVE  Called(r)'
<1>1. KeptBelow(Seen(r))' = KeptBelow(Seen(r)) /\ \A l : RecordOf(l)' = RecordOf(l)
  <2>1. Kept' = Kept /\ \A l : RecordOf(l)' = RecordOf(l)
    BY SourceSame, Zenon
  <2> QED
    BY <2>1, Zenon DEF KeptBelow
<1>2. ASSUME NEW i \in DOMAIN calls'[r]
      PROVE  (calls[r][i].loc \in KeptBelow(Seen(r)) /\ calls[r][i].rec = RecordOf(calls[r][i].loc))'
  BY <1>1, Zenon DEF Called
<1>3. (/\ \A i, j \in DOMAIN calls[r] : i < j => calls[r][i].loc < calls[r][j].loc
       /\ \A i \in DOMAIN calls[r], j \in applied[r] + 1 .. Len(locIndex[r]) :
            calls[r][i].loc < locIndex[r][j])'
  BY Zenon DEF Called
<1>4. ASSUME NEW l \in KeptBelow(Seen(r))'
      PROVE  (\/ \E i \in DOMAIN calls[r] : calls[r][i].loc = l
              \/ \E j \in applied[r] + 1 .. Len(locIndex[r]) : locIndex[r][j] = l)'
  BY <1>1, Zenon DEF Called
<1> QED
  BY <1>2, <1>3, <1>4, Zenon DEF Called

\* CountedRows depends on the counters and on what they count.
LEMMA CountedSame ==
  ASSUME NEW r, config' = config, CountedRows(r), Seen(r)' = Seen(r),
         gnlocs'[r] = gnlocs[r], gnlocs_outside_timewindow'[r] = gnlocs_outside_timewindow[r],
         calls'[r] = calls[r], locIndex'[r] = locIndex[r], applied'[r] = applied[r],
         indx'[r] = indx[r]
  PROVE  CountedRows(r)'
<1>1. KeptBelow(Seen(r))' = KeptBelow(Seen(r)) /\ OutsideBelow(Seen(r))' = OutsideBelow(Seen(r))
  <2>1. Kept' = Kept /\ source' = source /\ applyLocationsCheck' = applyLocationsCheck
    BY SourceSame, Zenon
  <2> QED
    BY <2>1, Zenon DEF KeptBelow, OutsideBelow
<1> QED
  BY <1>1, Zenon DEF CountedRows

\* StoredRows depends on obs_group and on the frame.
LEMMA StoredSame ==
  ASSUME NEW r, config' = config, StoredRows(r), phase'[r] = phase[r],
         frame_start'[r] = frame_start[r], obs_frame'[r] = obs_frame[r], indx'[r] = indx[r],
         frame_loc_index'[r] = frame_loc_index[r], stored'[r] = stored[r],
         adjusted_location_frame_start'[r] = adjusted_location_frame_start[r],
         known_frame_selections'[r] = known_frame_selections[r]
  PROVE  StoredRows(r)'
<1>1. max_frame_size' = max_frame_size
  BY SourceSame, Zenon
<1>2. Lesser(NLocs, max_frame_size)' = Lesser(NLocs, max_frame_size) /\ (InFrame(r)' <=> InFrame(r))
  BY <1>1, Zenon DEF Lesser, InFrame
<1> QED
  BY <1>2, SMT DEF StoredRows

\* A rank that does not move keeps its invariant.
LEMMA OtherRank ==
  ASSUME NEW r, config' = config, RankInv(r), phase'[r] = phase[r],
         frame_start'[r] = frame_start[r], obs_frame'[r] = obs_frame[r],
         checked'[r] = checked[r], locIndex'[r] = locIndex[r], gnlocs'[r] = gnlocs[r],
         gnlocs_outside_timewindow'[r] = gnlocs_outside_timewindow[r],
         records'[r] = records[r], next_rec_num'[r] = next_rec_num[r],
         obs_grouping'[r] = obs_grouping[r], applied'[r] = applied[r], calls'[r] = calls[r],
         indx'[r] = indx[r], frame_loc_index'[r] = frame_loc_index[r], stored'[r] = stored[r],
         adjusted_location_frame_start'[r] = adjusted_location_frame_start[r],
         known_frame_selections'[r] = known_frame_selections[r], channels'[r] = channels[r]
  PROVE  RankInv(r)'
<1>0. Progress(r) /\ Located(r) /\ Numbered(r) /\ Called(r) /\ CountedRows(r) /\ StoredRows(r)
      /\ ChannelRows(r)
  BY Zenon DEF RankInv
<1>1. InFrame(r)' <=> InFrame(r)
  BY Zenon DEF InFrame
<1>2. Seen(r)' = Seen(r)
  BY <1>1, SeenSame, Zenon
<1>3. Progress(r)' /\ StoredRows(r)'
  BY <1>0, ProgressSame, StoredSame, Zenon
<1>4. Located(r)'
  BY <1>0, <1>1, <1>2, LocatedSame, Zenon
<1>5. Called(r)' /\ CountedRows(r)'
  BY <1>0, <1>2, CalledSame, CountedSame, Zenon
<1>6. Numbered(r)'
  <2>1. Front(r)' = Front(r)
    BY <1>2, Zenon DEF Front
  <2>2. KeptBelow(Front(r))' = KeptBelow(Front(r))
    BY <2>1, SourceSame, Zenon DEF KeptBelow
  <2>3. \A i \in DOMAIN records'[r] : records'[r][i] = RecordOf(locIndex'[r][i])
    BY <1>0, Zenon DEF Numbered
  <2> QED
    BY <1>0, <2>2, <2>3, NumberedSame, Zenon
<1>7. ChannelRows(r)'
  BY <1>0, Zenon DEF ChannelRows
<1> QED
  BY <1>3, <1>4, <1>5, <1>6, <1>7, Zenon DEF RankInv

-----------------------------------------------------------------------------
(* Frames *)

\* The types of what one rank holds.
LEMMA RankTypes ==
  ASSUME ReaderTypeOK, NEW r \in Rank
  PROVE  /\ max_frame_size \in 1 .. MaxFrame
         /\ phase[r] \in {"frame", "read", "resize", "store", "done"}
         /\ frame_start[r] \in Nat /\ checked[r] \in Nat /\ applied[r] \in Nat
         /\ obs_frame[r] \in Seq(Loc) /\ locIndex[r] \in Seq(Loc) /\ records[r] \in Seq(Rec)
         /\ next_rec_num[r] \in 0 .. NLocs /\ obs_grouping[r] \in [Key -> Rec \cup {None}]
         /\ gnlocs[r] \in 0 .. NLocs /\ gnlocs_outside_timewindow[r] \in 0 .. NLocs
         /\ calls[r] \in Seq(Call) /\ indx[r] \in Seq(Loc) /\ recnums[r] \in Seq(Rec)
         /\ frame_loc_index[r] \in Seq(Nat) /\ known_frame_selections[r] \in Seq(Nat)
         /\ adjusted_location_frame_start[r] \in 0 .. NLocs
         /\ stored[r] \in Seq(Loc \cup {Fill}) /\ channels[r] \in [Chan -> Chan \cup {Fill}]
<1>1. checked[r] \in 0 .. MaxFrame /\ applied[r] \in 0 .. MaxFrame
  BY Zenon DEF ReaderTypeOK
<1>2. checked[r] \in Nat /\ applied[r] \in Nat
  BY <1>1, SizesAssumption
<1> QED
  BY <1>2, Zenon DEF ReaderTypeOK

\* A frame starts where the last one ended, and the last one ends with the source.
LEMMA FrameRows ==
  ASSUME ReaderTypeOK, NEW r \in Rank
  PROVE  LET n == BasicFrameCount(r, NLocs)
             s == Lesser(frame_start[r], NLocs)
         IN  /\ n \in 0 .. MaxFrame /\ s \in 0 .. NLocs /\ s <= frame_start[r]
             /\ s + n = Lesser(frame_start[r] + max_frame_size, NLocs)
             /\ n > 0 => s = frame_start[r]
             /\ s + n <= NLocs
<1>1. frame_start[r] \in Nat /\ max_frame_size \in 1 .. MaxFrame
  BY RankTypes, Zenon
<1> QED
  BY <1>1, SizesAssumption DEF BasicFrameCount, Lesser

\* The rows of the frame, and how many of them have been checked.
LEMMA FrameShape ==
  ASSUME ReaderTypeOK, NEW r \in Rank, Progress(r), InFrame(r)
  PROVE  /\ Len(obs_frame[r]) = BasicFrameCount(r, NLocs)
         /\ DOMAIN obs_frame[r] = 1 .. Len(obs_frame[r])
         /\ \A i \in 1 .. Len(obs_frame[r]) : obs_frame[r][i] = frame_start[r] + i - 1
         /\ Seen(r) = Lesser(frame_start[r], NLocs) + checked[r]
         /\ checked[r] <= Len(obs_frame[r]) /\ Len(obs_frame[r]) \in Nat
         /\ checked[r] > 0 => Seen(r) = frame_start[r] + checked[r]
         /\ checked[r] < Len(obs_frame[r]) =>
              Seen(r) = frame_start[r] + checked[r] /\ Seen(r) \in Loc
<1> DEFINE n == BasicFrameCount(r, NLocs)
<1>1. obs_frame[r] = [i \in 1 .. n |-> frame_start[r] + i - 1] /\ checked[r] <= Len(obs_frame[r])
  BY DEF Progress
<1>2. n \in Nat /\ frame_start[r] \in Nat /\ checked[r] \in Nat
  BY FrameRows, RankTypes
<1> HIDE DEF n
<1>3. Len(obs_frame[r]) = n /\ DOMAIN obs_frame[r] = 1 .. n
  BY <1>1, <1>2
<1>4. \A i \in 1 .. n : obs_frame[r][i] = frame_start[r] + i - 1
  BY <1>1, Zenon
<1>5. Seen(r) = Lesser(frame_start[r], NLocs) + checked[r]
  BY DEF Seen
<1>6. /\ Lesser(frame_start[r], NLocs) \in Nat
      /\ n > 0 => Lesser(frame_start[r], NLocs) = frame_start[r]
      /\ Lesser(frame_start[r], NLocs) + n <= NLocs
  BY FrameRows DEF n
<1> HIDE DEF n
<1>7. checked[r] > 0 => Seen(r) = frame_start[r] + checked[r]
  BY <1>1, <1>2, <1>3, <1>5, <1>6
<1>8. checked[r] < Len(obs_frame[r]) =>
              Seen(r) = frame_start[r] + checked[r] /\ Seen(r) \in Loc
  BY <1>1, <1>2, <1>3, <1>5, <1>6, SizesAssumption DEF Loc
<1> QED
  BY <1>1, <1>2, <1>3, <1>4, <1>5, <1>7, <1>8 DEF n

\* A rank has seen at most the whole source.
LEMMA SeenType ==
  ASSUME ReaderTypeOK, NEW r \in Rank, Progress(r)
  PROVE  Seen(r) \in 0 .. NLocs /\ Seen(r) \in Nat
<1>1. CASE InFrame(r)
  BY <1>1, FrameShape, FrameRows, RankTypes, SizesAssumption
<1>2. CASE ~InFrame(r)
  BY <1>2, FrameRows, SizesAssumption DEF Seen
<1> QED
  BY <1>1, <1>2

\* What is known of every sequence.
LEMMA SequenceFacts ==
  ASSUME NEW S, NEW s \in Seq(S)
  PROVE  Len(s) \in Nat /\ DOMAIN s = 1 .. Len(s) /\ \A i \in DOMAIN s : s[i] \in S
OBVIOUS

\* A sequence that something has been appended to.
LEMMA Appended ==
  ASSUME NEW S, NEW s \in Seq(S), NEW x \in S
  PROVE  /\ Append(s, x) \in Seq(S) /\ Len(Append(s, x)) = Len(s) + 1
         /\ DOMAIN Append(s, x) = 1 .. Len(s) + 1
         /\ \A i \in 1 .. Len(s) : Append(s, x)[i] = s[i]
         /\ Append(s, x)[Len(s) + 1] = x
OBVIOUS

\* The positions up to n + 1 are those up to n and one more.
LEMMA OneMore ==
  ASSUME NEW n \in Nat
  PROVE  /\ n + 1 \in 1 .. n + 1
         /\ \A i \in 1 .. n : i \in 1 .. n + 1 /\ i < n + 1
         /\ \A i \in 1 .. n + 1 : (i \in 1 .. n \/ i = n + 1) /\ ~(n + 1 < i)
OBVIOUS

\* Lengths and positions are naturals.
LEMMA RankLengths ==
  ASSUME ReaderTypeOK, NEW r \in Rank
  PROVE  /\ Len(locIndex[r]) \in Nat /\ DOMAIN locIndex[r] = 1 .. Len(locIndex[r])
         /\ Len(records[r]) \in Nat /\ DOMAIN records[r] = 1 .. Len(records[r])
         /\ Len(calls[r]) \in Nat /\ DOMAIN calls[r] = 1 .. Len(calls[r])
         /\ Len(indx[r]) \in Nat /\ DOMAIN indx[r] = 1 .. Len(indx[r])
         /\ Len(stored[r]) \in Nat /\ DOMAIN stored[r] = 1 .. Len(stored[r])
         /\ Len(frame_loc_index[r]) \in Nat
         /\ DOMAIN frame_loc_index[r] = 1 .. Len(frame_loc_index[r])
         /\ \A i \in DOMAIN locIndex[r] : locIndex[r][i] \in Nat
         /\ \A i \in DOMAIN indx[r] : indx[r][i] \in Nat
         /\ \A i \in DOMAIN calls[r] : calls[r][i] \in Call /\ calls[r][i].loc \in Nat
<1>1. \A i \in DOMAIN calls[r] : calls[r][i] \in Call /\ calls[r][i].loc \in Nat
  <2>1. \A i \in DOMAIN calls[r] : calls[r][i] \in Call
    BY RankTypes
  <2>2. \A i \in DOMAIN calls[r] : calls[r][i].loc \in Loc
    BY <2>1 DEF Call
  <2> QED
    BY <2>1, <2>2, SizesAssumption DEF Loc
<1>2. \A l \in Loc : l \in Nat
  BY SizesAssumption DEF Loc
<1>3. /\ locIndex[r] \in Seq(Loc) /\ records[r] \in Seq(Rec) /\ calls[r] \in Seq(Call)
      /\ indx[r] \in Seq(Loc) /\ stored[r] \in Seq(Loc \cup {Fill})
      /\ frame_loc_index[r] \in Seq(Nat)
  BY RankTypes, Zenon
<1>4. /\ Len(locIndex[r]) \in Nat /\ DOMAIN locIndex[r] = 1 .. Len(locIndex[r])
      /\ Len(records[r]) \in Nat /\ DOMAIN records[r] = 1 .. Len(records[r])
      /\ Len(calls[r]) \in Nat /\ DOMAIN calls[r] = 1 .. Len(calls[r])
      /\ Len(indx[r]) \in Nat /\ DOMAIN indx[r] = 1 .. Len(indx[r])
      /\ Len(stored[r]) \in Nat /\ DOMAIN stored[r] = 1 .. Len(stored[r])
      /\ Len(frame_loc_index[r]) \in Nat
      /\ DOMAIN frame_loc_index[r] = 1 .. Len(frame_loc_index[r])
  BY <1>3, SequenceFacts, Zenon
<1>5. /\ \A i \in DOMAIN locIndex[r] : locIndex[r][i] \in Loc
      /\ \A i \in DOMAIN indx[r] : indx[r][i] \in Loc
  BY <1>3, SequenceFacts, Zenon
<1> QED
  BY <1>1, <1>2, <1>4, <1>5, Zenon

-----------------------------------------------------------------------------
(* The steps of a rank *)

\* frameAvailable starts a frame where the last one ended.
LEMMA FrameAvailableStep ==
  ASSUME ReaderInv, NEW r \in Rank, FrameAvailable(r)
  PROVE  ReaderInv'
<1> DEFINE n == BasicFrameCount(r, NLocs)
           rows == [i \in 1 .. n |-> frame_start[r] + i - 1]
<1>t. ReaderTypeOK /\ \A q \in Rank : RankInv(q)
  BY Zenon DEF ReaderInv
<1>i. Progress(r) /\ Located(r) /\ Numbered(r) /\ Called(r) /\ CountedRows(r) /\ StoredRows(r)
      /\ ChannelRows(r)
  BY <1>t, Zenon DEF RankInv
<1>e. /\ phase[r] = "frame" /\ phase' = [phase EXCEPT ![r] = "read"]
      /\ obs_frame' = [obs_frame EXCEPT ![r] = rows]
      /\ checked' = [checked EXCEPT ![r] = 0]
      /\ locIndex' = [locIndex EXCEPT ![r] = <<>>]
      /\ records' = [records EXCEPT ![r] = <<>>]
      /\ applied' = [applied EXCEPT ![r] = 0]
      /\ frame_loc_index' = [frame_loc_index EXCEPT ![r] = <<>>]
      /\ config' = config
      /\ UNCHANGED <<frame_start, gnlocs, gnlocs_outside_timewindow, next_rec_num,
                     obs_grouping, calls, indx, recnums>>
      /\ UNCHANGED <<adjusted_location_frame_start, known_frame_selections, stored, channels>>
  BY Zenon DEF FrameAvailable, obsGroup
<1>c. UNCHANGED <<source, max_frame_size, grouping, applyLocationsCheck>>
  BY <1>e, SourceSame, Zenon
<1>1. rows \in Seq(Loc) /\ Len(rows) = n /\ n \in Nat
  <2>1. n \in Nat /\ frame_start[r] \in Nat /\ (n > 0 => frame_start[r] + n <= NLocs)
    BY <1>t, FrameRows, RankTypes, SizesAssumption
  <2> HIDE DEF n
  <2>2. \A i \in 1 .. n : frame_start[r] + i - 1 \in Loc
    BY <2>1, SizesAssumption DEF Loc
  <2> QED
    BY <2>1, <2>2
<1> HIDE DEF n, rows
<1>2. ReaderTypeOK'
  <2>1. obs_frame' \in [Rank -> Seq(Loc)]
    BY <1>e, <1>1, <1>t, Zenon DEF ReaderTypeOK
  <2>2. 0 \in 0 .. MaxFrame /\ <<>> \in Seq(Loc) /\ <<>> \in Seq(Rec) /\ <<>> \in Seq(Nat)
    BY SizesAssumption
  <2>3. checked' \in [Rank -> 0 .. MaxFrame] /\ applied' \in [Rank -> 0 .. MaxFrame]
        /\ locIndex' \in [Rank -> Seq(Loc)] /\ records' \in [Rank -> Seq(Rec)]
        /\ frame_loc_index' \in [Rank -> Seq(Nat)]
    BY <1>e, <1>t, <2>2, Zenon DEF ReaderTypeOK
  <2>4. phase' \in [Rank -> {"frame", "read", "resize", "store", "done"}]
    BY <1>e, <1>t, Zenon DEF ReaderTypeOK
  <2> QED
    BY <1>e, <1>c, <1>t, <2>1, <2>3, <2>4, Zenon DEF ReaderTypeOK
<1>3. ASSUME NEW q \in Rank, q # r
      PROVE  RankInv(q)'
  <2>1. /\ phase'[q] = phase[q] /\ obs_frame'[q] = obs_frame[q] /\ checked'[q] = checked[q]
        /\ locIndex'[q] = locIndex[q] /\ records'[q] = records[q] /\ applied'[q] = applied[q]
        /\ frame_loc_index'[q] = frame_loc_index[q]
    BY <1>3, <1>e, <1>t, Zenon DEF ReaderTypeOK
  <2> QED
    BY <1>e, <1>t, <2>1, OtherRank, Zenon
<1>4. /\ phase'[r] = "read" /\ obs_frame'[r] = rows /\ checked'[r] = 0
      /\ locIndex'[r] = <<>> /\ records'[r] = <<>> /\ applied'[r] = 0
      /\ frame_loc_index'[r] = <<>>
  BY <1>e, <1>t, Zenon DEF ReaderTypeOK
<1>5. /\ ~InFrame(r) /\ InFrame(r)' /\ Seen(r) = Lesser(frame_start[r], NLocs)
      /\ Seen(r)' = Seen(r) /\ Seen(r) <= frame_start[r]
  <2>1. ~InFrame(r) /\ InFrame(r)'
    BY <1>4, <1>e DEF InFrame
  <2>2. Lesser(frame_start[r], NLocs) \in Nat /\ Lesser(frame_start[r], NLocs) <= frame_start[r]
    BY <1>t, FrameRows, SizesAssumption
  <2>3. Lesser(frame_start[r], NLocs)' = Lesser(frame_start[r], NLocs)
    BY <1>e, Zenon DEF Lesser
  <2>4. Seen(r) = Lesser(frame_start[r], NLocs) + 0
    BY <2>1, Zenon DEF Seen
  <2>5. Seen(r)' = Lesser(frame_start[r], NLocs)' + 0
    BY <2>1, <1>4, Zenon DEF Seen
  <2> QED
    BY <2>1, <2>2, <2>3, <2>4, <2>5
<1>6. Len(records[r]) = Len(locIndex[r]) /\ applied[r] = Len(locIndex[r])
  BY <1>t, <1>e, <1>i, RankLengths, RankTypes DEF Progress
<1>7. Progress(r)'
  <2>1. n' = n
    BY <1>e, <1>c, Zenon DEF n, BasicFrameCount
  <2>2. obs_frame'[r] = [i \in 1 .. BasicFrameCount(r, NLocs) |-> frame_start[r] + i - 1]'
    BY <1>4, <1>e, <2>1, Zenon DEF rows, n
  <2> QED
    BY <1>4, <1>1, <2>2 DEF Progress
<1>8. Located(r)'
  <2>1. Kept' = Kept /\ Kept \subseteq Nat /\ frame_start[r] \in Nat /\ Seen(r) \in Nat
    BY <1>e, <1>t, <1>i, SourceSame, KeptLocations, RankTypes, SeenType
  <2>2. \A l \in Kept : ~(frame_start[r] <= l /\ l < Seen(r))
    BY <2>1, <1>5
  <2> QED
    BY <1>4, <1>e, <1>5, <2>1, <2>2 DEF Located
<1>9. Numbered(r)'
  <2>1. Front(r) = Seen(r) /\ Front(r)' = Seen(r)'
    <3>1. /\ ~(Len(records[r]) < Len(locIndex[r])) /\ ~(Len(records'[r]) < Len(locIndex'[r]))
      <4>1. Len(locIndex[r]) \in Nat
        BY <1>t, RankLengths, Zenon
      <4> QED
        BY <4>1, <1>4, <1>6
    <3> QED
      BY <3>1, Zenon DEF Front
  <2>2. KeptBelow(Front(r))' = KeptBelow(Front(r))
    BY <1>e, <1>5, <2>1, SourceSame, Zenon DEF KeptBelow
  <2>3. \A i \in DOMAIN records'[r] : records'[r][i] = RecordOf(locIndex'[r][i])
    BY <1>4
  <2> QED
    BY <1>e, <1>i, <2>2, <2>3, NumberedSame, Zenon
<1>10. Called(r)'
  <2>1. KeptBelow(Seen(r))' = KeptBelow(Seen(r)) /\ \A l : RecordOf(l)' = RecordOf(l)
    BY <1>e, <1>5, SourceSame, Zenon DEF KeptBelow
  <2>2. \A j : j \notin applied[r] + 1 .. Len(locIndex[r])
    BY <1>6, <1>t, RankLengths
  <2>3. \A j : j \notin applied'[r] + 1 .. Len(locIndex'[r])
    BY <1>4
  <2>4. ASSUME NEW i \in DOMAIN calls'[r]
        PROVE  (calls[r][i].loc \in KeptBelow(Seen(r)) /\ calls[r][i].rec = RecordOf(calls[r][i].loc))'
    BY <1>e, <1>i, <2>1, Zenon DEF Called
  <2>5. (\A i, j \in DOMAIN calls[r] : i < j => calls[r][i].loc < calls[r][j].loc)'
    BY <1>e, <1>i, Zenon DEF Called
  <2>6. ASSUME NEW l \in KeptBelow(Seen(r))'
        PROVE  (\E i \in DOMAIN calls[r] : calls[r][i].loc = l)'
    BY <1>e, <1>i, <2>1, <2>2, Zenon DEF Called
  <2> QED
    BY <2>3, <2>4, <2>5, <2>6, Zenon DEF Called
<1>11. CountedRows(r)'
  <2>1. KeptBelow(Seen(r))' = KeptBelow(Seen(r)) /\ OutsideBelow(Seen(r))' = OutsideBelow(Seen(r))
    BY <1>e, <1>c, <1>5, SourceSame, Zenon DEF KeptBelow, OutsideBelow
  <2>2. /\ gnlocs'[r] = Cardinality(KeptBelow(Seen(r)))'
        /\ gnlocs_outside_timewindow'[r] = Cardinality(OutsideBelow(Seen(r)))'
        /\ Len(indx'[r]) <= Len(calls'[r])
    BY <1>e, <1>i, <2>1, Zenon DEF CountedRows
  <2>3. Len(calls'[r]) + (Len(locIndex'[r]) - applied'[r]) = gnlocs'[r]
    <3> DEFINE m == Len(locIndex[r])
               k == Len(calls[r])
    <3>1. m \in Nat /\ k \in Nat
      BY <1>t, RankLengths, Zenon
    <3>2. k + (m - m) = gnlocs[r] /\ Len(calls'[r]) = k /\ gnlocs'[r] = gnlocs[r]
      BY <1>e, <1>i, <1>6, Zenon DEF CountedRows
    <3>3. Len(locIndex'[r]) = 0 /\ applied'[r] = 0
      BY <1>4
    <3> HIDE DEF m, k
    <3> QED
      BY <3>1, <3>2, <3>3
  <2> QED
    BY <2>2, <2>3, Zenon DEF CountedRows
<1>12. StoredRows(r)'
  <2>1. /\ Len(indx[r]) = adjusted_location_frame_start[r] /\ Len(indx[r]) \in Nat
        /\ frame_start[r] = 0 => adjusted_location_frame_start[r] = 0
        /\ frame_start[r] > 0 => Len(stored[r]) = adjusted_location_frame_start[r]
        /\ \A i \in 1 .. adjusted_location_frame_start[r] : stored[r][i] = indx[r][i]
    <3>1. Len(indx[r]) \in Nat /\ phase[r] # "store"
      <4>1. phase[r] # "store"
        BY <1>5, Zenon DEF InFrame
      <4> QED
        BY <4>1, <1>t, RankLengths, Zenon
    <3> QED
      BY <1>i, <1>5, <3>1, Zenon DEF StoredRows
  <2>2. /\ indx'[r] = indx[r] /\ frame_start'[r] = frame_start[r] /\ stored'[r] = stored[r]
        /\ adjusted_location_frame_start'[r] = adjusted_location_frame_start[r]
    BY <1>e, Zenon
  <2>3. /\ Len(frame_loc_index'[r]) = 0 /\ DOMAIN frame_loc_index'[r] = {}
        /\ phase'[r] # "frame" /\ phase'[r] # "store" /\ phase'[r] # "done"
        /\ phase'[r] \notin {"resize", "store"}
    BY <1>4
  <2>4. Len(indx'[r]) = adjusted_location_frame_start'[r] + Len(frame_loc_index'[r])
    BY <2>1, <2>2, <2>3
  <2> QED
    BY <2>1, <2>2, <2>3, <2>4, <1>5, Zenon DEF StoredRows
<1>13. ChannelRows(r)'
  BY <1>e, <1>i, Zenon DEF ChannelRows
<1>14. RankInv(r)'
  BY <1>7, <1>8, <1>9, <1>10, <1>11, <1>12, <1>13, Zenon DEF RankInv
<1> QED
  BY <1>2, <1>3, <1>14, Zenon DEF ReaderInv

\* Going one row further adds that row to the kept ones if it is kept.
LEMMA KeptStep ==
  ASSUME ReaderTypeOK, NEW n \in Loc
  PROVE  /\ n \in Kept => /\ KeptBelow(n + 1) = KeptBelow(n) \cup {n}
                          /\ Cardinality(KeptBelow(n + 1)) = Cardinality(KeptBelow(n)) + 1
         /\ n \notin Kept => KeptBelow(n + 1) = KeptBelow(n)
         /\ Cardinality(KeptBelow(n + 1)) \in 0 .. NLocs
<1>1. n \in Nat /\ Kept \subseteq Nat
  BY KeptLocations
<1>2. \A k \in Kept : (k < n + 1) <=> (k < n \/ k = n)
  BY <1>1
<1>3. n \notin KeptBelow(n)
  BY <1>1 DEF KeptBelow
<1>4. IsFiniteSet(KeptBelow(n)) /\ Cardinality(KeptBelow(n)) \in Nat
      /\ Cardinality(KeptBelow(n + 1)) \in 0 .. NLocs
  BY <1>1, FirstsFinite
<1>5. ASSUME n \in Kept
      PROVE  /\ KeptBelow(n + 1) = KeptBelow(n) \cup {n}
             /\ Cardinality(KeptBelow(n + 1)) = Cardinality(KeptBelow(n)) + 1
  <2>1. KeptBelow(n + 1) = KeptBelow(n) \cup {n}
    BY <1>2, <1>5, Zenon DEF KeptBelow
  <2> QED
    BY <2>1, <1>3, <1>4, FS_AddElement
<1>6. n \notin Kept => KeptBelow(n + 1) = KeptBelow(n)
  BY <1>2, Zenon DEF KeptBelow
<1> QED
  BY <1>4, <1>5, <1>6, Zenon

\* Going one row further counts that row if it is outside the window.
LEMMA OutsideStep ==
  ASSUME ReaderTypeOK, NEW n \in Loc
  PROVE  /\ applyLocationsCheck /\ ~InsideTimingWindow(n) =>
              Cardinality(OutsideBelow(n + 1)) = Cardinality(OutsideBelow(n)) + 1
         /\ ~(applyLocationsCheck /\ ~InsideTimingWindow(n)) =>
              Cardinality(OutsideBelow(n + 1)) = Cardinality(OutsideBelow(n))
         /\ Cardinality(OutsideBelow(n + 1)) \in 0 .. NLocs
<1> DEFINE out(l) == applyLocationsCheck
                     /\ ~(WindowStart < source[l].time /\ source[l].time <= WindowEnd)
<1>1. n \in Nat /\ Loc \subseteq Nat /\ n + 1 \in Nat
  BY KeptLocations
<1>2. \A k \in Loc : (k < n + 1) <=> (k < n \/ k = n)
  BY <1>1
<1>3. out(n) <=> (applyLocationsCheck /\ ~InsideTimingWindow(n))
  <2>1. source[n].time \in Int
    BY KeptLocations, SourceAssumption
  <2>2. (source[n].time > WindowStart) <=> (WindowStart < source[n].time)
    BY <2>1, WindowAssumption
  <2> QED
    BY <2>2, Zenon DEF InsideTimingWindow
<1>4. \A m : OutsideBelow(m) = {l \in Loc : l < m /\ out(l)}
  BY Zenon DEF OutsideBelow
<1> HIDE DEF out
<1>5. OutsideBelow(n) \subseteq {l \in Loc : l < n} /\ OutsideBelow(n + 1) \subseteq {l \in Loc : l < n + 1}
  BY <1>4, Zenon
<1>6. /\ IsFiniteSet(OutsideBelow(n)) /\ Cardinality(OutsideBelow(n)) \in Nat
      /\ Cardinality(OutsideBelow(n + 1)) \in Nat /\ Cardinality(OutsideBelow(n + 1)) <= NLocs
  BY <1>1, <1>5, KeptFinite, Zenon
<1>7. n \notin OutsideBelow(n)
  BY <1>1, <1>4
<1>8. ASSUME out(n)
      PROVE  Cardinality(OutsideBelow(n + 1)) = Cardinality(OutsideBelow(n)) + 1
  <2>1. OutsideBelow(n + 1) = OutsideBelow(n) \cup {n}
    BY <1>2, <1>4, <1>8, Zenon
  <2> QED
    BY <2>1, <1>6, <1>7, FS_AddElement
<1>9. ASSUME ~out(n)
      PROVE  OutsideBelow(n + 1) = OutsideBelow(n)
  BY <1>2, <1>4, <1>9, Zenon
<1>10. Cardinality(OutsideBelow(n + 1)) \in 0 .. NLocs
  BY <1>6, SizesAssumption
<1> QED
  BY <1>3, <1>8, <1>9, <1>10, Zenon

\* One iteration of the loop over the rows of the frame, seen from its rank.
LEMMA CheckLocationEffect ==
  ASSUME ReaderInv, NEW r \in Rank, CheckLocation(r)
  PROVE  LET l == Seen(r)
             out == applyLocationsCheck /\ ~InsideTimingWindow(l)
         IN  /\ phase[r] = "read" /\ l \in Loc /\ config' = config
             /\ locIndex' = IF l \in Kept THEN [locIndex EXCEPT ![r] = Append(@, l)] ELSE locIndex
             /\ gnlocs' = IF l \in Kept THEN [gnlocs EXCEPT ![r] = @ + 1] ELSE gnlocs
             /\ gnlocs_outside_timewindow' =
                  IF out THEN [gnlocs_outside_timewindow EXCEPT ![r] = @ + 1]
                  ELSE gnlocs_outside_timewindow
             /\ checked' = [checked EXCEPT ![r] = @ + 1]
             /\ checked[r] < Len(obs_frame[r])
             /\ UNCHANGED <<phase, frame_start, obs_frame, records, next_rec_num, obs_grouping,
                            applied, calls, indx, recnums, frame_loc_index>>
             /\ UNCHANGED <<adjusted_location_frame_start, known_frame_selections, stored, channels>>
<1>t. ReaderTypeOK /\ Progress(r)
  BY Zenon DEF ReaderInv, RankInv
<1>e. phase[r] = "read" /\ checked[r] < Len(obs_frame[r])
  BY Zenon DEF CheckLocation
<1>1. InFrame(r)
  BY <1>e DEF InFrame
<1>2. Seen(r) = frame_start[r] + checked[r] /\ Seen(r) \in Loc
  BY <1>t, <1>e, <1>1, FrameShape, Zenon
<1>3. KeepThisLocation(Seen(r)) <=> Seen(r) \in Kept
  BY <1>t, <1>2, KeptLocations, Zenon
<1>4. LET l == frame_start[r] + checked[r] IN
       /\ locIndex' =
            IF KeepThisLocation(l) THEN [locIndex EXCEPT ![r] = Append(@, l)] ELSE locIndex
       /\ gnlocs' =
            IF KeepThisLocation(l) THEN [gnlocs EXCEPT ![r] = @ + 1] ELSE gnlocs
       /\ gnlocs_outside_timewindow' =
            IF applyLocationsCheck /\ ~InsideTimingWindow(l)
            THEN [gnlocs_outside_timewindow EXCEPT ![r] = @ + 1]
            ELSE gnlocs_outside_timewindow
  BY Zenon DEF CheckLocation
<1>5. /\ locIndex' = IF Seen(r) \in Kept THEN [locIndex EXCEPT ![r] = Append(@, Seen(r))] ELSE locIndex
      /\ gnlocs' = IF Seen(r) \in Kept THEN [gnlocs EXCEPT ![r] = @ + 1] ELSE gnlocs
      /\ gnlocs_outside_timewindow' =
            IF applyLocationsCheck /\ ~InsideTimingWindow(Seen(r))
            THEN [gnlocs_outside_timewindow EXCEPT ![r] = @ + 1]
            ELSE gnlocs_outside_timewindow
  BY <1>2, <1>3, <1>4, Zenon
<1>6. /\ config' = config /\ checked' = [checked EXCEPT ![r] = @ + 1]
      /\ UNCHANGED <<phase, frame_start, obs_frame, records, next_rec_num, obs_grouping,
                     applied, calls, indx, recnums, frame_loc_index>>
      /\ UNCHANGED <<adjusted_location_frame_start, known_frame_selections, stored, channels>>
  BY Zenon DEF CheckLocation, frame, numbering, distributed, obsGroup
<1> QED
  BY <1>e, <1>2, <1>5, <1>6, Zenon

\* One iteration of the loop over the rows preserves the invariant.
LEMMA CheckLocationStep ==
  ASSUME ReaderInv, NEW r \in Rank, CheckLocation(r)
  PROVE  ReaderInv'
<1> DEFINE l == Seen(r)
           m == Len(locIndex[r])
           out == applyLocationsCheck /\ ~InsideTimingWindow(l)
<1>t. ReaderTypeOK /\ \A q \in Rank : RankInv(q)
  BY Zenon DEF ReaderInv
<1>i. Progress(r) /\ Located(r) /\ Numbered(r) /\ Called(r) /\ CountedRows(r) /\ StoredRows(r)
      /\ ChannelRows(r)
  BY <1>t, Zenon DEF RankInv
<1>e. /\ phase[r] = "read" /\ l \in Loc /\ config' = config
      /\ locIndex' = IF l \in Kept THEN [locIndex EXCEPT ![r] = Append(@, l)] ELSE locIndex
      /\ gnlocs' = IF l \in Kept THEN [gnlocs EXCEPT ![r] = @ + 1] ELSE gnlocs
      /\ gnlocs_outside_timewindow' =
           IF out THEN [gnlocs_outside_timewindow EXCEPT ![r] = @ + 1]
           ELSE gnlocs_outside_timewindow
      /\ checked' = [checked EXCEPT ![r] = @ + 1]
      /\ checked[r] < Len(obs_frame[r])
      /\ UNCHANGED <<phase, frame_start, obs_frame, records, next_rec_num, obs_grouping,
                     applied, calls, indx, recnums, frame_loc_index>>
      /\ UNCHANGED <<adjusted_location_frame_start, known_frame_selections, stored, channels>>
  BY CheckLocationEffect, Zenon
<1>c. UNCHANGED <<source, max_frame_size, grouping, applyLocationsCheck>> /\ Kept' = Kept
  BY <1>e, SourceSame, Zenon
<1>f. InFrame(r) /\ InFrame(r)' /\ l = frame_start[r] + checked[r] /\ l \in Nat
      /\ frame_start[r] \in Nat /\ checked[r] \in Nat /\ checked[r] + 1 <= MaxFrame
      /\ checked[r] + 1 <= Len(obs_frame[r])
  <2>1. InFrame(r) /\ InFrame(r)'
    BY <1>e DEF InFrame
  <2>2. Len(obs_frame[r]) \in 0 .. MaxFrame /\ l = frame_start[r] + checked[r]
    <3>1. BasicFrameCount(r, NLocs) \in 0 .. MaxFrame
      BY <1>t, FrameRows, Zenon
    <3>2. Len(obs_frame[r]) = BasicFrameCount(r, NLocs) /\ l = frame_start[r] + checked[r]
      BY <1>t, <1>i, <1>e, <2>1, FrameShape, Zenon
    <3> QED
      BY <3>1, <3>2, Zenon
  <2>3. frame_start[r] \in Nat /\ checked[r] \in Nat /\ checked[r] < Len(obs_frame[r])
    BY <1>t, <1>e, RankTypes, Zenon
  <2> HIDE DEF l
  <2>4. /\ l \in Nat /\ checked[r] + 1 <= MaxFrame /\ checked[r] + 1 <= Len(obs_frame[r])
    BY <2>2, <2>3, SizesAssumption
  <2> QED
    BY <2>1, <2>2, <2>3, <2>4, Zenon
<1> HIDE DEF l, out
<1>1. /\ checked'[r] = checked[r] + 1
      /\ locIndex'[r] = IF l \in Kept THEN Append(locIndex[r], l) ELSE locIndex[r]
      /\ gnlocs'[r] = IF l \in Kept THEN gnlocs[r] + 1 ELSE gnlocs[r]
      /\ gnlocs_outside_timewindow'[r] =
           IF out THEN gnlocs_outside_timewindow[r] + 1 ELSE gnlocs_outside_timewindow[r]
  BY <1>e, <1>t, Zenon DEF ReaderTypeOK
<1>2. Seen(r)' = l + 1
  <2>1. Seen(r) = Lesser(frame_start[r], NLocs) + checked[r]
    BY <1>f, Zenon DEF Seen
  <2>2. Seen(r)' = Lesser(frame_start[r], NLocs) + (checked[r] + 1)
    BY <1>f, <1>1, <1>e, Zenon DEF Seen, Lesser
  <2>3. Lesser(frame_start[r], NLocs) \in Nat
    BY <1>t, FrameRows, SizesAssumption
  <2> QED
    BY <2>1, <2>2, <2>3, <1>f DEF l
<1>3. /\ m \in Nat /\ DOMAIN locIndex[r] = 1 .. m /\ \A i \in 1 .. m : locIndex[r][i] \in Nat
      /\ l \in Kept => /\ locIndex'[r] \in Seq(Loc) /\ Len(locIndex'[r]) = m + 1
                       /\ DOMAIN locIndex'[r] = 1 .. m + 1
                       /\ \A i \in 1 .. m : locIndex'[r][i] = locIndex[r][i]
                       /\ locIndex'[r][m + 1] = l
      /\ l \notin Kept => locIndex'[r] = locIndex[r]
  <2>1. locIndex[r] \in Seq(Loc) /\ m \in Nat /\ DOMAIN locIndex[r] = 1 .. m
        /\ \A i \in 1 .. m : locIndex[r][i] \in Nat
    BY <1>t, RankLengths, RankTypes, Zenon
  <2> QED
    BY <2>1, <1>1, <1>e
<1> HIDE DEF m
<1>4. records[r] = <<>> /\ applied[r] = 0 /\ m <= checked[r]
  <2>1. /\ phase[r] = "read" /\ records[r] # <<>> => checked[r] = Len(obs_frame[r])
        /\ m <= checked[r] /\ applied[r] <= Len(records[r])
    BY <1>i, Zenon DEF Progress, m
  <2>2. phase[r] = "read" /\ checked[r] # Len(obs_frame[r])
    <3>1. phase[r] = "read" /\ checked[r] \in Nat /\ checked[r] + 1 <= Len(obs_frame[r])
      BY <1>e, <1>f, Zenon
    <3> QED
      BY <3>1
  <2>3. records[r] = <<>>
    BY <2>1, <2>2, Zenon
  <2>4. applied[r] \in Nat
    BY <1>t, RankTypes, Zenon
  <2> QED
    BY <2>1, <2>3, <2>4
<1>5. ReaderTypeOK'
  <2>1. checked' \in [Rank -> 0 .. MaxFrame]
    <3>1. checked[r] + 1 \in 0 .. MaxFrame
      BY <1>f, SizesAssumption
    <3> QED
      BY <1>e, <1>t, <3>1, Zenon DEF ReaderTypeOK
  <2>2. locIndex' \in [Rank -> Seq(Loc)]
    <3>1. l \in Kept => Append(locIndex[r], l) \in Seq(Loc)
      BY <1>1, <1>3, Zenon
    <3> QED
      BY <1>e, <1>t, <3>1, Zenon DEF ReaderTypeOK
  <2>3. gnlocs' \in [Rank -> 0 .. NLocs]
    <3>1. l \in Kept => gnlocs[r] + 1 \in 0 .. NLocs
      BY <1>t, <1>e, <1>i, KeptStep, Zenon DEF CountedRows, l
    <3> QED
      BY <1>e, <1>t, <3>1, Zenon DEF ReaderTypeOK
  <2>4. gnlocs_outside_timewindow' \in [Rank -> 0 .. NLocs]
    <3>1. out => gnlocs_outside_timewindow[r] + 1 \in 0 .. NLocs
      BY <1>t, <1>e, <1>i, OutsideStep, Zenon DEF CountedRows, l, out
    <3> QED
      BY <1>e, <1>t, <3>1, Zenon DEF ReaderTypeOK
  <2> QED
    BY <1>e, <1>c, <1>t, <2>1, <2>2, <2>3, <2>4, Zenon DEF ReaderTypeOK
<1>6. ASSUME NEW q \in Rank, q # r
      PROVE  RankInv(q)'
  <2>1. /\ checked'[q] = checked[q] /\ locIndex'[q] = locIndex[q] /\ gnlocs'[q] = gnlocs[q]
        /\ gnlocs_outside_timewindow'[q] = gnlocs_outside_timewindow[q]
    BY <1>6, <1>e, <1>t, Zenon DEF ReaderTypeOK
  <2> QED
    BY <1>e, <1>t, <2>1, OtherRank, Zenon
<1>7. Progress(r)'
  <2>1. BasicFrameCount(r, NLocs)' = BasicFrameCount(r, NLocs)
    BY <1>e, <1>c, Zenon DEF BasicFrameCount
  <2>2. obs_frame'[r] = [i \in 1 .. BasicFrameCount(r, NLocs) |-> frame_start[r] + i - 1]'
    BY <1>e, <1>i, <1>f, <2>1, Zenon DEF Progress
  <2>3. Len(locIndex'[r]) <= checked'[r] /\ Len(locIndex'[r]) \in Nat
    <3>1. /\ Len(locIndex'[r]) = m + 1 \/ Len(locIndex'[r]) = m
          /\ checked'[r] = checked[r] + 1 /\ m <= checked[r]
          /\ m \in Nat /\ checked[r] \in Nat
      BY <1>1, <1>3, <1>4, <1>f, Zenon DEF m
    <3> QED
      BY <3>1
  <2>4. checked'[r] <= Len(obs_frame'[r]) /\ phase'[r] = "read"
    BY <1>1, <1>e, <1>f
  <2>5. records'[r] = <<>> /\ Len(records'[r]) = 0 /\ applied'[r] = 0
    BY <1>4, <1>e
  <2>6. /\ Len(records'[r]) <= Len(locIndex'[r]) /\ applied'[r] <= Len(records'[r])
        /\ ~(applied'[r] > 0)
    BY <2>3, <2>5
  <2>7. phase'[r] \notin {"resize", "store"} /\ phase'[r] # "done"
    BY <2>4
  <2> QED
    BY <2>2, <2>3, <2>4, <2>5, <2>6, <2>7, Zenon DEF Progress
<1>8. Located(r)'
  <2>0. /\ \A i, j \in 1 .. m : i < j => locIndex[r][i] < locIndex[r][j]
        /\ \A i \in 1 .. m : locIndex[r][i] \in Kept /\ locIndex[r][i] < l
        /\ \A i \in 1 .. m : frame_start[r] <= locIndex[r][i]
        /\ \A k \in Kept : frame_start[r] <= k /\ k < l => \E i \in 1 .. m : locIndex[r][i] = k
    BY <1>i, <1>f, <1>3, Zenon DEF Located, l
  <2>k. \A k \in Kept : k \in Nat
    BY <1>t, KeptLocations
  <2>a. \A i \in 1 .. m : locIndex[r][i] < l + 1
    <3>1. \A x, y \in Nat : x < y => x < y + 1
      OBVIOUS
    <3> QED
      BY <3>1, <2>0, <1>3, <1>f, Zenon
  <2>1. CASE l \in Kept
    <3>0. /\ m + 1 \in 1 .. m + 1
          /\ \A i \in 1 .. m : i \in 1 .. m + 1 /\ i < m + 1
          /\ \A i \in 1 .. m + 1 : (i \in 1 .. m \/ i = m + 1) /\ ~(m + 1 < i)
      BY <1>3, OneMore, Zenon
    <3>1. \A i, j \in DOMAIN locIndex'[r] : i < j => locIndex'[r][i] < locIndex'[r][j]
      <4> SUFFICES ASSUME NEW i \in 1 .. m + 1, NEW j \in 1 .. m + 1, i < j
                   PROVE  locIndex'[r][i] < locIndex'[r][j]
        BY <2>1, <1>3, Zenon
      <4>1. i \in 1 .. m
        BY <3>0, Zenon
      <4>2. CASE j \in 1 .. m
        BY <4>1, <4>2, <2>0, <2>1, <1>3, Zenon
      <4>3. CASE j = m + 1
        BY <4>1, <4>3, <2>0, <2>1, <1>3, Zenon
      <4> QED
        BY <4>2, <4>3, <3>0, Zenon
    <3>2. \A i \in DOMAIN locIndex'[r] :
            locIndex'[r][i] \in Kept /\ locIndex'[r][i] < l + 1 /\ frame_start[r] <= locIndex'[r][i]
      <4>1. \A i \in 1 .. m : locIndex[r][i] < l + 1
        BY <2>a, Zenon
      <4>2. l < l + 1 /\ frame_start[r] <= l
        BY <1>f
      <4> QED
        BY <4>1, <4>2, <2>0, <2>1, <3>0, <1>3, ZenonT(30)
    <3>3. ASSUME NEW k \in Kept, frame_start[r] <= k, k < l + 1
          PROVE  \E i \in DOMAIN locIndex'[r] : locIndex'[r][i] = k
      <4>1. CASE k = l
        BY <4>1, <2>1, <3>0, <1>3, Zenon
      <4>2. CASE k < l
        BY <4>2, <3>3, <2>0, <2>1, <3>0, <1>3, Zenon
      <4> QED
        BY <4>1, <4>2, <3>3, <2>k, <1>f
    <3> QED
      BY <3>1, <3>2, <3>3, <1>2, <1>c, <1>e, Zenon DEF Located
  <2>2. CASE l \notin Kept
    <3>1. \A k \in Kept : k < l + 1 => k < l
      BY <2>2, <2>k, <1>f
    <3>2. \A i \in 1 .. m : locIndex[r][i] < l + 1
      BY <2>a, Zenon
    <3> QED
      BY <2>0, <2>2, <3>1, <3>2, <1>2, <1>3, <1>c, <1>e, Zenon DEF Located
  <2> QED
    BY <2>1, <2>2
<1>k. /\ l \in Kept => /\ KeptBelow(l + 1) = KeptBelow(l) \cup {l}
                       /\ Cardinality(KeptBelow(l + 1)) = Cardinality(KeptBelow(l)) + 1
      /\ l \notin Kept => KeptBelow(l + 1) = KeptBelow(l)
      /\ \A k : KeptBelow(k)' = KeptBelow(k) /\ OutsideBelow(k)' = OutsideBelow(k)
  BY <1>t, <1>e, KeptStep, SourceSame, Zenon
<1>9. Numbered(r)'
  <2>1. KeptBelow(Front(r))' = KeptBelow(Front(r))
    <3>1. CASE m > 0
      <4>1. Front(r) = locIndex[r][1] /\ Front(r)' = locIndex'[r][1] /\ locIndex'[r][1] = locIndex[r][1]
        BY <3>1, <1>3, <1>4, <1>e DEF Front, m
      <4> QED
        BY <4>1, <1>c, Zenon DEF KeptBelow
    <3>2. CASE m = 0
      <4>1. Front(r) = l
        BY <3>2, <1>4 DEF Front, l, m
      <4>2. l \in Kept => Front(r)' = l
        BY <3>2, <1>3, <1>4, <1>e DEF Front
      <4>3. l \notin Kept => Front(r)' = l + 1
        BY <3>2, <1>3, <1>4, <1>e, <1>2 DEF Front, m
      <4>4. KeptBelow(Front(r))' = {k \in Kept : k < Front(r)'}
        BY <1>c, Zenon DEF KeptBelow
      <4>5. l \notin Kept => {k \in Kept : k < l + 1} = {k \in Kept : k < l}
        BY <1>k, Zenon DEF KeptBelow
      <4> QED
        BY <4>1, <4>2, <4>3, <4>4, <4>5, Zenon DEF KeptBelow
    <3> QED
      BY <3>1, <3>2, <1>3
  <2>2. \A i \in DOMAIN records'[r] : records'[r][i] = RecordOf(locIndex'[r][i])
    BY <1>4, <1>e
  <2> QED
    BY <1>e, <1>i, <2>1, <2>2, NumberedSame, Zenon
<1>10. Called(r)'
  <2>0. /\ \A i \in DOMAIN calls[r] : /\ calls[r][i].loc \in Kept /\ calls[r][i].loc < l
                                      /\ calls[r][i].rec = RecordOf(calls[r][i].loc)
        /\ \A i, j \in DOMAIN calls[r] : i < j => calls[r][i].loc < calls[r][j].loc
        /\ \A i \in DOMAIN calls[r], j \in 1 .. m : calls[r][i].loc < locIndex[r][j]
    <3>1. applied[r] + 1 = 1
      BY <1>4
    <3> QED
      BY <1>i, <3>1, Zenon DEF Called, KeptBelow, l, m
  <2>1. \A k \in Kept : k < l => \/ \E i \in DOMAIN calls[r] : calls[r][i].loc = k
                                 \/ \E j \in 1 .. m : locIndex[r][j] = k
    <3>1. applied[r] + 1 = 1
      BY <1>4
    <3> QED
      BY <1>i, <3>1, Zenon DEF Called, KeptBelow, l, m
  <2>2. \A i \in DOMAIN calls[r] : calls[r][i].loc < l + 1 /\ calls[r][i].loc \in Nat
    <3>1. \A x, y \in Nat : x < y => x < y + 1
      OBVIOUS
    <3>2. \A i \in DOMAIN calls[r] : calls[r][i].loc \in Nat
      BY <1>t, RankLengths, Zenon
    <3> QED
      BY <3>1, <3>2, <2>0, <1>f, Zenon
  <2>3. \A k \in Kept : k < l + 1 => k < l \/ k = l
    BY <1>t, <1>f, KeptLocations
  <2>4. /\ \A i \in DOMAIN calls[r], j \in 1 .. Len(locIndex'[r]) : calls[r][i].loc < locIndex'[r][j]
        /\ \A k \in Kept : k < l + 1 => \/ \E i \in DOMAIN calls[r] : calls[r][i].loc = k
                                        \/ \E j \in 1 .. Len(locIndex'[r]) : locIndex'[r][j] = k
    <3>1. CASE l \in Kept
      <4>1. \A i \in DOMAIN calls[r], j \in 1 .. m + 1 : calls[r][i].loc < locIndex'[r][j]
        <5>1. \A j \in 1 .. m + 1 : j \in 1 .. m \/ j = m + 1
          BY <1>3
        <5> QED
          BY <3>1, <5>1, <2>0, <1>3, Zenon
      <4>2. \A j \in 1 .. m : j \in 1 .. m + 1
        BY <1>3
      <4>3. m + 1 \in 1 .. m + 1
        BY <1>3
      <4> QED
        BY <3>1, <4>1, <4>2, <4>3, <2>1, <2>3, <1>3, Zenon
    <3>2. CASE l \notin Kept
      BY <3>2, <2>0, <2>1, <2>3, <1>3, Zenon DEF m
    <3> QED
      BY <3>1, <3>2
  <2>5. applied'[r] + 1 = 1 /\ calls' = calls
    BY <1>4, <1>e
  <2>6. \A k : RecordOf(k)' = RecordOf(k)
    BY <1>e, SourceSame, Zenon
  <2>7. KeptBelow(Seen(r))' = {k \in Kept : k < l + 1}
    BY <1>c, <1>2, Zenon DEF KeptBelow
  <2>8. ASSUME NEW i \in DOMAIN calls'[r]
        PROVE  (calls[r][i].loc \in KeptBelow(Seen(r)) /\ calls[r][i].rec = RecordOf(calls[r][i].loc))'
    BY <2>0, <2>2, <2>5, <2>6, <2>7, Zenon
  <2>9. /\ (\A i, j \in DOMAIN calls[r] : i < j => calls[r][i].loc < calls[r][j].loc)'
        /\ (\A i \in DOMAIN calls[r], j \in applied[r] + 1 .. Len(locIndex[r]) :
              calls[r][i].loc < locIndex[r][j])'
    BY <2>0, <2>4, <2>5, Zenon
  <2>10. (\A k \in KeptBelow(Seen(r)) :
            \/ \E i \in DOMAIN calls[r] : calls[r][i].loc = k
            \/ \E j \in applied[r] + 1 .. Len(locIndex[r]) : locIndex[r][j] = k)'
    BY <2>4, <2>5, <2>7, Zenon
  <2> QED
    BY <2>8, <2>9, <2>10, Zenon DEF Called
<1>11. CountedRows(r)'
  <2>1. KeptBelow(Seen(r))' = KeptBelow(l + 1) /\ OutsideBelow(Seen(r))' = OutsideBelow(l + 1)
    BY <1>c, <1>2, Zenon DEF KeptBelow, OutsideBelow
  <2>2. gnlocs'[r] = Cardinality(KeptBelow(l + 1))
    <3>1. gnlocs[r] = Cardinality(KeptBelow(l))
      BY <1>i, Zenon DEF CountedRows, l
    <3> QED
      BY <3>1, <1>1, <1>k, Zenon
  <2>3. gnlocs_outside_timewindow'[r] = Cardinality(OutsideBelow(l + 1))
    <3>1. gnlocs_outside_timewindow[r] = Cardinality(OutsideBelow(l))
      BY <1>i, Zenon DEF CountedRows, l
    <3> QED
      BY <3>1, <1>1, <1>t, <1>e, OutsideStep, Zenon DEF out
  <2>4. Len(calls'[r]) + (Len(locIndex'[r]) - applied'[r]) = gnlocs'[r] /\ Len(indx'[r]) <= Len(calls'[r])
    <3>1. Len(calls[r]) + (m - applied[r]) = gnlocs[r] /\ Len(calls[r]) \in Nat
          /\ Len(indx[r]) <= Len(calls[r])
      BY <1>i, <1>t, RankLengths, Zenon DEF CountedRows, m
    <3>2. Len(locIndex'[r]) = IF l \in Kept THEN m + 1 ELSE m
      BY <1>3, Zenon DEF m
    <3>3. calls'[r] = calls[r] /\ indx'[r] = indx[r] /\ applied'[r] = 0
      BY <1>4, <1>e, Zenon
    <3>4. gnlocs'[r] = (IF l \in Kept THEN gnlocs[r] + 1 ELSE gnlocs[r]) /\ m \in Nat /\ applied[r] = 0
      BY <1>1, <1>3, <1>4, Zenon
    <3>5. /\ Len(calls[r]) + (m - 0) = gnlocs[r]
          /\ Len(calls[r]) + ((m + 1) - 0) = gnlocs[r] + 1
      <4>1. gnlocs[r] \in Nat /\ m \in Nat
        <5>1. gnlocs[r] \in 0 .. NLocs /\ m \in Nat
          BY <3>4, <1>t, RankTypes, Zenon
        <5> QED
          BY <5>1, SizesAssumption
      <4>2. Len(calls[r]) + (m - 0) = gnlocs[r] /\ Len(calls[r]) \in Nat
        BY <3>1, <3>4, Zenon
      <4>3. \A a, b, c \in Nat : a + (b - 0) = c => a + ((b + 1) - 0) = c + 1
        OBVIOUS
      <4> QED
        BY <4>1, <4>2, <4>3, Zenon
    <3>6. CASE l \in Kept
      <4>1. Len(locIndex'[r]) = m + 1 /\ gnlocs'[r] = gnlocs[r] + 1
        BY <3>2, <3>4, <3>6, Zenon
      <4> QED
        BY <4>1, <3>1, <3>3, <3>5, Zenon
    <3>7. CASE l \notin Kept
      <4>1. Len(locIndex'[r]) = m /\ gnlocs'[r] = gnlocs[r]
        BY <3>2, <3>4, <3>7, Zenon
      <4> QED
        BY <4>1, <3>1, <3>3, <3>5, Zenon
    <3> QED
      BY <3>6, <3>7
  <2> QED
    BY <2>1, <2>2, <2>3, <2>4, Zenon DEF CountedRows
<1>12. StoredRows(r)' /\ ChannelRows(r)'
  <2>1. StoredRows(r)'
    BY <1>e, <1>i, StoredSame, Zenon
  <2> QED
    BY <2>1, <1>e, <1>i, Zenon DEF ChannelRows
<1>13. RankInv(r)'
  BY <1>7, <1>8, <1>9, <1>10, <1>11, <1>12, Zenon DEF RankInv
<1> QED
  BY <1>5, <1>6, <1>13, Zenon DEF ReaderInv

\* The next location to number, and the kept locations up to it.
LEMMA NextToNumber ==
  ASSUME ReaderTypeOK, NEW r \in Rank, Progress(r), Located(r), InFrame(r),
         Len(records[r]) < Len(locIndex[r])
  PROVE  LET n == Len(records[r])
             l == locIndex[r][n + 1]
             f == IF n + 1 < Len(locIndex[r]) THEN locIndex[r][n + 1 + 1] ELSE Seen(r)
         IN  /\ n + 1 \in DOMAIN locIndex[r] /\ l \in Kept /\ l = Front(r) /\ f \in Nat
             /\ KeptBelow(f) = KeptBelow(l) \cup {l}
<1> DEFINE n == Len(records[r])
           m == Len(locIndex[r])
           l == locIndex[r][n + 1]
           f == IF n + 1 < m THEN locIndex[r][n + 1 + 1] ELSE Seen(r)
<1>1. /\ n \in Nat /\ m \in Nat /\ DOMAIN locIndex[r] = 1 .. m /\ n < m /\ Seen(r) \in Nat
      /\ \A i \in 1 .. m : locIndex[r][i] \in Nat
      /\ frame_start[r] \in Nat
  BY RankLengths, RankTypes, SeenType, Zenon
<1>2. /\ \A i, j \in 1 .. m : i < j => locIndex[r][i] < locIndex[r][j]
      /\ \A i \in 1 .. m : locIndex[r][i] \in Kept /\ locIndex[r][i] < Seen(r)
      /\ \A i \in 1 .. m : frame_start[r] <= locIndex[r][i]
      /\ \A k \in Kept : frame_start[r] <= k /\ k < Seen(r) =>
           \E i \in 1 .. m : locIndex[r][i] = k
  BY <1>1, Zenon DEF Located
<1>3. l = Front(r)
  BY Zenon DEF Front
<1>k. \A k \in Kept : k \in Nat
  BY KeptLocations
<1> HIDE DEF n, m
<1>4. n + 1 \in 1 .. m /\ l \in Kept /\ l \in Nat
  <2>1. n + 1 \in 1 .. m
    BY <1>1
  <2> QED
    BY <1>1, <1>2, <2>1, Zenon
<1>5. f \in Nat /\ l < f /\ f <= Seen(r)
  <2>1. CASE n + 1 < m
    <3>1. n + 1 + 1 \in 1 .. m /\ n + 1 < n + 1 + 1
      BY <2>1, <1>1
    <3>2. locIndex[r][n + 1 + 1] \in Nat /\ l < locIndex[r][n + 1 + 1]
          /\ locIndex[r][n + 1 + 1] < Seen(r)
      BY <3>1, <1>1, <1>2, <1>4, Zenon
    <3> QED
      BY <2>1, <3>2, <1>1
  <2>2. CASE ~(n + 1 < m)
    BY <2>2, <1>1, <1>2, <1>4
  <2> QED
    BY <2>1, <2>2
<1>6. ASSUME NEW k \in Kept, k < f
      PROVE  k < l \/ k = l
  <2> SUFFICES ASSUME l < k
               PROVE  FALSE
    BY <1>k, <1>4
  <2>1. frame_start[r] <= l
    BY <1>2, <1>4, Zenon
  <2>2. frame_start[r] <= k /\ k < Seen(r)
    BY <2>1, <1>1, <1>4, <1>5, <1>6, <1>k
  <2>3. PICK i \in 1 .. m : locIndex[r][i] = k
    BY <2>2, <1>2, Zenon
  <2>4. n + 1 < i
    <3>1. i < n + 1 => k < l
      BY <2>3, <1>2, <1>4, Zenon
    <3>2. i = n + 1 => k = l
      BY <2>3
    <3> QED
      BY <3>1, <3>2, <1>1, <1>4, <1>k
  <2>5. n + 1 < m /\ n + 1 + 1 \in 1 .. m
    BY <2>4, <1>1
  <2>6. f = locIndex[r][n + 1 + 1]
    BY <2>5
  <2>7. n + 1 + 1 < i => f < k
    BY <2>3, <2>5, <2>6, <1>2, Zenon
  <2>8. i = n + 1 + 1 => f = k
    BY <2>3, <2>6
  <2> QED
    BY <2>4, <2>7, <2>8, <1>1, <1>5, <1>6, <1>k
<1>7. \A k \in Kept : k < l => k < f
  BY <1>k, <1>4, <1>5
<1> HIDE DEF l, f
<1>8. KeptBelow(f) = KeptBelow(l) \cup {l}
  BY <1>4, <1>5, <1>6, <1>7, Zenon DEF KeptBelow
<1> QED
  BY <1>1, <1>3, <1>4, <1>5, <1>8, Zenon DEF n, m, l, f

\* The number that genRecordNumbersGrouping or ...All gives is that of the record,
\* and it is a new one exactly at the record's first location.
LEMMA RecordNumberRight ==
  ASSUME ReaderTypeOK, NEW r \in Rank, Numbered(r), Front(r) \in Kept
  PROVE  /\ RecordNumber(r, Front(r)) = RecordOf(Front(r))
         /\ RecordOf(Front(r)) = next_rec_num[r] <=> FirstOfRecord(Front(r)) = Front(r)
<1> DEFINE l == Front(r)
<1>1. next_rec_num[r] = Cardinality(FirstsBelow(l))
  BY Zenon DEF Numbered
<1>2. RecordOf(l) = Cardinality(FirstsBelow(FirstOfRecord(l))) /\ RecordOf(l) \in Rec
  BY RecordNumbers, Zenon
<1>3. /\ l \in Nat /\ l \in Loc /\ source[l].key \in Key /\ \A k \in Kept : k \in Loc /\ k \in Nat
  BY KeptLocations
<1>4. RecordOf(l) \in Nat /\ next_rec_num[r] \in Nat
  BY <1>2, RankTypes, SizesAssumption DEF Rec, Loc
<1>5. CASE ~grouping
  <2>1. FirstOfRecord(l) = l /\ RecordNumber(r, l) = next_rec_num[r]
    BY <1>5, Zenon DEF FirstOfRecord, RecordNumber
  <2> QED
    BY <2>1, <1>1, <1>2, Zenon
<1>6. CASE grouping /\ obs_grouping[r][source[l].key] # None
  <2>1. PICK k \in KeptBelow(l) : source[k].key = source[l].key
    BY <1>3, <1>6, Zenon DEF Numbered
  <2>2. k \in Kept /\ k < l /\ obs_grouping[r][source[k].key] = RecordOf(k)
    BY <1>6, Zenon DEF Numbered, KeptBelow
  <2>3. RecordOf(k) = RecordOf(l) /\ FirstOfRecord(l) # l /\ RecordOf(l) < Cardinality(FirstsBelow(l))
    BY <1>6, <2>1, <2>2, KnownRecord, Zenon
  <2>4. RecordNumber(r, l) = RecordOf(l)
    BY <1>6, <2>1, <2>2, <2>3, Zenon DEF RecordNumber
  <2>5. RecordOf(l) # next_rec_num[r]
    BY <2>3, <1>1, <1>4
  <2> QED
    BY <2>3, <2>4, <2>5, Zenon
<1>7. CASE grouping /\ obs_grouping[r][source[l].key] = None
  <2>1. FirstOfRecord(l) \in Kept /\ FirstOfRecord(l) <= l /\ source[FirstOfRecord(l)].key = source[l].key
    BY <1>7, FirstLocation, Zenon
  <2>2. ~(FirstOfRecord(l) < l)
    <3> SUFFICES ASSUME FirstOfRecord(l) < l
                 PROVE  FALSE
      BY Zenon
    <3>1. obs_grouping[r][source[l].key] = RecordOf(FirstOfRecord(l))
      BY <1>7, <2>1, Zenon DEF Numbered, KeptBelow
    <3>2. RecordOf(FirstOfRecord(l)) \in Rec
      BY <2>1, RecordNumbers, Zenon
    <3> QED
      BY <3>1, <3>2, <1>7, SizesAssumption DEF None, Rec, Loc
  <2>3. FirstOfRecord(l) = l
    BY <2>1, <2>2, <1>3
  <2>4. RecordNumber(r, l) = next_rec_num[r]
    BY <1>7, Zenon DEF RecordNumber
  <2> QED
    BY <2>3, <2>4, <1>1, <1>2, Zenon
<1> QED
  BY <1>5, <1>6, <1>7, Zenon

\* One iteration of the loop that numbers the records preserves the invariant.
LEMMA NumberLocationStep ==
  ASSUME ReaderInv, NEW r \in Rank, NumberLocation(r)
  PROVE  ReaderInv'
<1> DEFINE n == Len(records[r])
           l == Front(r)
           f == IF n + 1 < Len(locIndex[r]) THEN locIndex[r][n + 1 + 1] ELSE Seen(r)
           rec == RecordOf(l)
<1>t. ReaderTypeOK /\ \A q \in Rank : RankInv(q)
  BY Zenon DEF ReaderInv
<1>i. Progress(r) /\ Located(r) /\ Numbered(r) /\ Called(r) /\ CountedRows(r) /\ StoredRows(r)
      /\ ChannelRows(r)
  BY <1>t, Zenon DEF RankInv
<1>g. phase[r] = "read" /\ checked[r] = Len(obs_frame[r]) /\ n < Len(locIndex[r])
  BY Zenon DEF NumberLocation
<1>f. InFrame(r)
  BY <1>g DEF InFrame
<1>1. /\ n + 1 \in DOMAIN locIndex[r] /\ l \in Kept /\ l = locIndex[r][n + 1] /\ f \in Nat
      /\ KeptBelow(f) = KeptBelow(l) \cup {l}
  BY <1>t, <1>i, <1>g, <1>f, NextToNumber, Zenon
<1>2. RecordNumber(r, l) = rec /\ (rec = next_rec_num[r] <=> FirstOfRecord(l) = l)
  BY <1>t, <1>i, <1>1, RecordNumberRight, Zenon
<1>e. /\ records' = [records EXCEPT ![r] = Append(@, rec)]
      /\ obs_grouping' =
             IF grouping THEN [obs_grouping EXCEPT ![r][source[l].key] = rec]
             ELSE obs_grouping
      /\ next_rec_num' =
             IF rec = next_rec_num[r] THEN [next_rec_num EXCEPT ![r] = @ + 1]
             ELSE next_rec_num
      /\ config' = config
      /\ UNCHANGED <<phase, frame_start, obs_frame, checked, locIndex, gnlocs,
                     gnlocs_outside_timewindow, applied, calls, indx, recnums, frame_loc_index>>
      /\ UNCHANGED <<adjusted_location_frame_start, known_frame_selections, stored, channels>>
  <2>1. locIndex[r][Len(records[r]) + 1] = l /\ RecordNumber(r, locIndex[r][Len(records[r]) + 1]) = rec
    BY <1>1, <1>2, Zenon
  <2>2. LET k == locIndex[r][Len(records[r]) + 1]
            c == RecordNumber(r, k)
        IN /\ records' = [records EXCEPT ![r] = Append(@, c)]
           /\ obs_grouping' =
                IF grouping THEN [obs_grouping EXCEPT ![r][source[k].key] = c]
                ELSE obs_grouping
           /\ next_rec_num' =
                IF c = next_rec_num[r] THEN [next_rec_num EXCEPT ![r] = @ + 1]
                ELSE next_rec_num
    BY Zenon DEF NumberLocation
  <2> HIDE DEF l, rec
  <2>3. /\ records' = [records EXCEPT ![r] = Append(@, rec)]
        /\ obs_grouping' =
             IF grouping THEN [obs_grouping EXCEPT ![r][source[l].key] = rec]
             ELSE obs_grouping
        /\ next_rec_num' =
             IF rec = next_rec_num[r] THEN [next_rec_num EXCEPT ![r] = @ + 1]
             ELSE next_rec_num
    BY <2>1, <2>2, Zenon
  <2> QED
    BY <2>3, Zenon DEF NumberLocation, frame, locations, distributed, obsGroup
<1>c. /\ UNCHANGED <<source, max_frame_size, grouping, applyLocationsCheck>> /\ Kept' = Kept
      /\ \A k : RecordOf(k)' = RecordOf(k)
      /\ \A k : FirstsBelow(k)' = FirstsBelow(k)
      /\ \A k : FirstOfRecord(k)' = FirstOfRecord(k)
  BY <1>e, SourceSame, Zenon
<1>k. rec \in Rec /\ source[l].key \in Key /\ \A k \in Kept : source[k].key \in Key
  BY <1>t, <1>1, RecordNumbers, KeptLocations, Zenon
<1>s. Seen(r)' = Seen(r)
  <2>1. InFrame(r)' <=> InFrame(r)
    BY <1>e, Zenon DEF InFrame
  <2> QED
    BY <1>e, <2>1, SeenSame, Zenon
<1>n. /\ n \in Nat /\ Len(locIndex[r]) \in Nat /\ records[r] \in Seq(Rec)
      /\ DOMAIN records[r] = 1 .. n /\ applied[r] = 0 /\ applied[r] <= n
  <2>1. n \in Nat /\ Len(locIndex[r]) \in Nat /\ records[r] \in Seq(Rec)
        /\ DOMAIN records[r] = 1 .. n /\ applied[r] \in Nat
    BY <1>t, RankLengths, RankTypes, Zenon
  <2>2. (applied[r] > 0 => n = Len(locIndex[r])) /\ applied[r] <= n
    BY <1>i, Zenon DEF Progress
  <2> QED
    BY <2>1, <2>2, <1>g
<1> HIDE DEF l, f, rec, n
<1>3. /\ records'[r] = Append(records[r], rec)
      /\ next_rec_num'[r] = IF rec = next_rec_num[r] THEN next_rec_num[r] + 1 ELSE next_rec_num[r]
      /\ grouping => obs_grouping'[r] = [obs_grouping[r] EXCEPT ![source[l].key] = rec]
      /\ ~grouping => obs_grouping' = obs_grouping
  BY <1>e, <1>t, Zenon DEF ReaderTypeOK
<1>4. /\ records'[r] \in Seq(Rec) /\ Len(records'[r]) = n + 1 /\ DOMAIN records'[r] = 1 .. n + 1
      /\ \A i \in 1 .. n : records'[r][i] = records[r][i]
      /\ records'[r][n + 1] = rec
  BY <1>3, <1>n, <1>k DEF n
<1>5. next_rec_num'[r] = Cardinality(FirstsBelow(f)) /\ next_rec_num'[r] \in 0 .. NLocs
  <2>1. next_rec_num[r] = Cardinality(FirstsBelow(l)) /\ next_rec_num[r] \in Nat
    <3>1. next_rec_num[r] = Cardinality(FirstsBelow(l)) /\ next_rec_num[r] \in 0 .. NLocs
      BY <1>i, <1>t, RankTypes, Zenon DEF Numbered, l
    <3> QED
      BY <3>1, SizesAssumption
  <2>2. Cardinality(FirstsBelow(f)) = Cardinality(FirstsBelow(l)) + IF FirstOfRecord(l) = l THEN 1 ELSE 0
    BY <1>t, <1>1, NextFirsts, Zenon
  <2>3. next_rec_num'[r] = Cardinality(FirstsBelow(f))
    <3>1. CASE FirstOfRecord(l) = l
      <4>1. rec = next_rec_num[r]
        BY <3>1, <1>2, Zenon DEF l
      <4> QED
        BY <3>1, <4>1, <2>1, <2>2, <1>3, Zenon
    <3>2. CASE FirstOfRecord(l) # l
      <4>1. rec # next_rec_num[r]
        BY <3>2, <1>2, Zenon DEF l
      <4>2. Cardinality(FirstsBelow(l)) + 0 = Cardinality(FirstsBelow(l))
        BY <2>1
      <4> QED
        BY <3>2, <4>1, <4>2, <2>1, <2>2, <1>3, Zenon
    <3> QED
      BY <3>1, <3>2
  <2>4. Cardinality(FirstsBelow(f)) \in 0 .. NLocs
    BY <1>t, <1>1, FirstsFinite, Zenon
  <2> QED
    BY <2>3, <2>4, Zenon
<1>6. ReaderTypeOK'
  <2>1. records' \in [Rank -> Seq(Rec)]
    BY <1>e, <1>t, <1>3, <1>4, Zenon DEF ReaderTypeOK
  <2>2. next_rec_num' \in [Rank -> 0 .. NLocs]
    BY <1>e, <1>t, <1>3, <1>5, Zenon DEF ReaderTypeOK
  <2>3. obs_grouping' \in [Rank -> [Key -> Rec \cup {None}]]
    <3>1. CASE grouping
      <4>1. obs_grouping[r] \in [Key -> Rec \cup {None}]
        BY <1>t, RankTypes, Zenon
      <4>2. [obs_grouping[r] EXCEPT ![source[l].key] = rec] \in [Key -> Rec \cup {None}]
        BY <4>1, <1>k, Zenon
      <4>3. obs_grouping' = [obs_grouping EXCEPT ![r] = [obs_grouping[r] EXCEPT ![source[l].key] = rec]]
        BY <1>e, <3>1, Zenon
      <4> QED
        BY <4>2, <4>3, <1>t, Zenon DEF ReaderTypeOK
    <3>2. CASE ~grouping
      BY <3>2, <1>e, <1>t, Zenon DEF ReaderTypeOK
    <3> QED
      BY <3>1, <3>2
  <2> QED
    BY <1>e, <1>c, <1>t, <2>1, <2>2, <2>3, Zenon DEF ReaderTypeOK
<1>7. ASSUME NEW q \in Rank, q # r
      PROVE  RankInv(q)'
  <2>1. /\ records'[q] = records[q] /\ next_rec_num'[q] = next_rec_num[q]
        /\ obs_grouping'[q] = obs_grouping[q]
    BY <1>7, <1>e, <1>t, Zenon DEF ReaderTypeOK
  <2> QED
    BY <1>e, <1>t, <2>1, OtherRank, Zenon
<1>8. Progress(r)'
  <2>1. BasicFrameCount(r, NLocs)' = BasicFrameCount(r, NLocs) /\ (InFrame(r)' <=> InFrame(r))
    BY <1>e, <1>c, Zenon DEF BasicFrameCount, InFrame
  <2>2. Len(records'[r]) <= Len(locIndex'[r]) /\ applied'[r] <= Len(records'[r]) /\ ~(applied'[r] > 0)
    BY <1>e, <1>4, <1>n, <1>g DEF n
  <2>3. /\ obs_frame'[r] = [i \in 1 .. BasicFrameCount(r, NLocs) |-> frame_start[r] + i - 1]'
        /\ checked'[r] <= Len(obs_frame'[r])
        /\ Len(locIndex'[r]) <= checked'[r]
        /\ checked'[r] = Len(obs_frame'[r]) /\ phase'[r] = "read"
    BY <1>e, <1>i, <1>f, <1>g, <2>1, Zenon DEF Progress
  <2>4. phase'[r] \notin {"resize", "store"} /\ phase'[r] # "done"
    BY <2>3
  <2> QED
    BY <2>2, <2>3, <2>4, Zenon DEF Progress
<1>9. Located(r)'
  BY <1>e, <1>i, <1>s, <1>f, LocatedSame, Zenon DEF InFrame
<1>10. Called(r)' /\ CountedRows(r)'
  BY <1>e, <1>i, <1>s, CalledSame, CountedSame, Zenon
<1>11. StoredRows(r)' /\ ChannelRows(r)'
  <2>1. StoredRows(r)'
    BY <1>e, <1>i, StoredSame, Zenon
  <2> QED
    BY <2>1, <1>e, <1>i, Zenon DEF ChannelRows
<1>12. Numbered(r)'
  <2>1. Front(r)' = f
    <3>1. Front(r)' = IF Len(records'[r]) < Len(locIndex[r]) THEN locIndex[r][Len(records'[r]) + 1] ELSE Seen(r)
      <4>1. locIndex' = locIndex
        BY <1>e, Zenon
      <4>2. Front(r)' = IF Len(records'[r]) < Len(locIndex'[r])
                        THEN locIndex'[r][Len(records'[r]) + 1] ELSE Seen(r)'
        BY Zenon DEF Front
      <4> QED
        BY <4>1, <4>2, <1>s, Zenon
    <3> QED
      BY <3>1, <1>4, Zenon DEF f, n
  <2>2. KeptBelow(Front(r))' = KeptBelow(l) \cup {l} /\ FirstsBelow(Front(r))' = FirstsBelow(f)
    <3>1. KeptBelow(Front(r))' = KeptBelow(f)
      BY <2>1, <1>c, Zenon DEF KeptBelow
    <3> QED
      BY <3>1, <1>1, <1>c, Zenon DEF FirstsBelow
  <2>3. ASSUME NEW i \in DOMAIN records'[r]
        PROVE  (records[r][i] = RecordOf(locIndex[r][i]))'
    <3>1. records'[r][i] = RecordOf(locIndex[r][i])
      <4>1. CASE i = n + 1
        BY <4>1, <1>1, <1>4, Zenon DEF n, l, rec
      <4>2. CASE i \in 1 .. n
        BY <4>2, <1>4, <1>i, <1>n, Zenon DEF Numbered
      <4> QED
        BY <4>1, <4>2, <1>4, <1>n, OneMore, Zenon
    <3> QED
      BY <3>1, <1>e, <1>c, Zenon
  <2>4. (next_rec_num[r] = Cardinality(FirstsBelow(Front(r))))'
    BY <1>5, <2>2, Zenon
  <2>5. ASSUME grouping, NEW k \in KeptBelow(l) \cup {l}
        PROVE  obs_grouping'[r][source[k].key] = RecordOf(k)
    <3>1. k \in Kept /\ (k = l \/ k \in KeptBelow(l))
      BY <1>1, Zenon DEF KeptBelow
    <3>2. CASE source[k].key = source[l].key
      <4>1. RecordOf(k) = rec
        <5>1. FirstOfRecord(k) = FirstOfRecord(l)
          BY <3>1, <3>2, <2>5, <1>1, <1>t, FirstLocation, Zenon
        <5> QED
          BY <5>1, <3>1, <1>1, <1>t, RecordNumbers, Zenon DEF rec
      <4> QED
        BY <4>1, <3>2, <2>5, <1>3, <1>k, <1>t, RankTypes, Zenon
    <3>3. CASE source[k].key # source[l].key
      <4>1. k \in KeptBelow(l)
        BY <3>1, <3>3, Zenon
      <4>2. obs_grouping[r][source[k].key] = RecordOf(k)
        BY <4>1, <2>5, <1>i, Zenon DEF Numbered, l
      <4> QED
        BY <4>2, <3>1, <3>3, <2>5, <1>3, <1>k, <1>t, RankTypes, Zenon
    <3> QED
      BY <3>2, <3>3
  <2>6. ASSUME grouping, NEW k \in Key, obs_grouping'[r][k] # None
        PROVE  \E j \in KeptBelow(l) \cup {l} : source[j].key = k
    <3>1. CASE k = source[l].key
      BY <3>1, Zenon
    <3>2. CASE k # source[l].key
      <4>1. obs_grouping[r][k] # None
        BY <3>2, <2>6, <1>3, <1>t, RankTypes, Zenon
      <4> QED
        BY <4>1, <2>6, <1>i, Zenon DEF Numbered, l
    <3> QED
      BY <3>1, <3>2
  <2>7. (grouping =>
         /\ \A k \in KeptBelow(Front(r)) : obs_grouping[r][source[k].key] = RecordOf(k)
         /\ \A k \in Key : obs_grouping[r][k] # None =>
              \E j \in KeptBelow(Front(r)) : source[j].key = k)'
    BY <2>2, <2>5, <2>6, <1>c, Zenon
  <2> QED
    BY <2>3, <2>4, <2>7, Zenon DEF Numbered
<1>13. RankInv(r)'
  BY <1>8, <1>9, <1>10, <1>11, <1>12, Zenon DEF RankInv
<1> QED
  BY <1>6, <1>7, <1>13, Zenon DEF ReaderInv

\* One iteration of applyMpiDistribution preserves the invariant, whatever the
\* distribution answers.
LEMMA AssignStep ==
  ASSUME ReaderInv, NEW r \in Rank, CanAssign(r), NEW mine \in BOOLEAN,
         ApplyMpiDistribution(r, mine)
  PROVE  ReaderInv'
<1> DEFINE a == applied[r]
           m == Len(locIndex[r])
           l == NextLoc(r)
           c == [rec |-> NextRec(r), loc |-> l]
           k == Len(calls[r])
<1>t. ReaderTypeOK /\ \A q \in Rank : RankInv(q)
  BY Zenon DEF ReaderInv
<1>i. Progress(r) /\ Located(r) /\ Numbered(r) /\ Called(r) /\ CountedRows(r) /\ StoredRows(r)
      /\ ChannelRows(r)
  BY <1>t, Zenon DEF RankInv
<1>g. phase[r] = "read" /\ checked[r] = Len(obs_frame[r]) /\ Len(records[r]) = m /\ a < m
  BY Zenon DEF CanAssign
<1>f. InFrame(r)
  BY <1>g DEF InFrame
<1>e. /\ calls' = [calls EXCEPT ![r] = Append(@, c)]
      /\ applied' = [applied EXCEPT ![r] = @ + 1]
      /\ indx' = IF mine THEN [indx EXCEPT ![r] = Append(@, l)] ELSE indx
      /\ recnums' = IF mine THEN [recnums EXCEPT ![r] = Append(@, NextRec(r))] ELSE recnums
      /\ frame_loc_index' =
           IF mine THEN [frame_loc_index EXCEPT ![r] = Append(@, l - frame_start[r])]
           ELSE frame_loc_index
      /\ config' = config
      /\ UNCHANGED <<phase, frame_start, obs_frame, checked, locIndex, gnlocs,
                     gnlocs_outside_timewindow, records, next_rec_num, obs_grouping>>
      /\ UNCHANGED <<adjusted_location_frame_start, known_frame_selections, stored, channels>>
  BY Zenon DEF ApplyMpiDistribution, frame, locations, numbering, obsGroup
<1>c. /\ UNCHANGED <<source, max_frame_size, grouping, applyLocationsCheck>> /\ Kept' = Kept
      /\ \A j : RecordOf(j)' = RecordOf(j)
  BY <1>e, SourceSame, Zenon
<1>s. Seen(r)' = Seen(r) /\ (InFrame(r)' <=> InFrame(r))
  <2>1. InFrame(r)' <=> InFrame(r)
    BY <1>e, Zenon DEF InFrame
  <2> QED
    BY <1>e, <2>1, SeenSame, Zenon
<1>n. /\ a \in Nat /\ m \in Nat /\ k \in Nat /\ DOMAIN locIndex[r] = 1 .. m
      /\ DOMAIN records[r] = 1 .. m /\ DOMAIN calls[r] = 1 .. k
      /\ \A i \in 1 .. m : locIndex[r][i] \in Nat
      /\ \A i \in 1 .. k : calls[r][i].loc \in Nat
      /\ calls[r] \in Seq(Call) /\ indx[r] \in Seq(Loc) /\ recnums[r] \in Seq(Rec)
      /\ frame_loc_index[r] \in Seq(Nat) /\ frame_start[r] \in Nat
      /\ Seen(r) \in Nat
  BY <1>t, <1>i, <1>g, RankLengths, RankTypes, SeenType, Zenon
<1>1. a + 1 \in 1 .. m
  BY <1>n, <1>g
<1>2. /\ l \in Kept /\ l \in Loc /\ l \in Nat /\ l < Seen(r) /\ frame_start[r] <= l
      /\ l = locIndex[r][a + 1]
      /\ NextRec(r) = RecordOf(l) /\ RecordOf(l) \in Rec
  <2>1. l = locIndex[r][a + 1] /\ NextRec(r) = records[r][a + 1]
    BY Zenon DEF NextLoc, NextRec
  <2>2. l \in Kept /\ l < Seen(r) /\ frame_start[r] <= l
    BY <2>1, <1>1, <1>i, <1>f, <1>n, Zenon DEF Located
  <2>3. NextRec(r) = RecordOf(l)
    BY <2>1, <1>1, <1>i, <1>n, Zenon DEF Numbered
  <2>4. l \in Loc /\ l \in Nat /\ RecordOf(l) \in Rec
    BY <2>2, <1>t, KeptLocations, RecordNumbers, Zenon
  <2> QED
    BY <2>1, <2>2, <2>3, <2>4, Zenon
<1>3. c \in Call /\ c.loc = l /\ c.rec = RecordOf(l)
  BY <1>2 DEF Call
<1>4. l - frame_start[r] \in Nat /\ l - frame_start[r] + 1 \in DOMAIN obs_frame[r]
  <2>1. /\ DOMAIN obs_frame[r] = 1 .. Len(obs_frame[r]) /\ Len(obs_frame[r]) \in Nat
        /\ Seen(r) = Lesser(frame_start[r], NLocs) + checked[r]
        /\ Lesser(frame_start[r], NLocs) <= frame_start[r] /\ Lesser(frame_start[r], NLocs) \in Nat
    <3>1. /\ DOMAIN obs_frame[r] = 1 .. Len(obs_frame[r]) /\ Len(obs_frame[r]) \in Nat
          /\ Seen(r) = Lesser(frame_start[r], NLocs) + checked[r]
      BY <1>t, <1>i, <1>f, FrameShape, Zenon
    <3>2. Lesser(frame_start[r], NLocs) \in 0 .. NLocs /\ Lesser(frame_start[r], NLocs) <= frame_start[r]
      BY <1>t, FrameRows, Zenon
    <3>3. \A x \in 0 .. NLocs : x \in Nat
      BY SizesAssumption
    <3> QED
      BY <3>1, <3>2, <3>3, Zenon
  <2>2. \A x, fs, s, b, n \in Nat : s = b + n /\ b <= fs /\ fs <= x /\ x < s
          => x - fs \in Nat /\ x - fs + 1 \in 1 .. n
    OBVIOUS
  <2> QED
    BY <2>1, <2>2, <1>2, <1>n, <1>g, Zenon
<1> HIDE DEF l, c, a, m, k
<1>5. /\ calls'[r] = Append(calls[r], c) /\ applied'[r] = a + 1
      /\ indx'[r] = IF mine THEN Append(indx[r], l) ELSE indx[r]
      /\ recnums'[r] = IF mine THEN Append(recnums[r], NextRec(r)) ELSE recnums[r]
      /\ frame_loc_index'[r] =
           IF mine THEN Append(frame_loc_index[r], l - frame_start[r]) ELSE frame_loc_index[r]
  BY <1>e, <1>t, Zenon DEF ReaderTypeOK, a
<1>6. /\ calls'[r] \in Seq(Call) /\ Len(calls'[r]) = k + 1 /\ DOMAIN calls'[r] = 1 .. k + 1
      /\ \A i \in 1 .. k : calls'[r][i] = calls[r][i]
      /\ calls'[r][k + 1] = c
  <2>1. /\ Append(calls[r], c) \in Seq(Call) /\ Len(Append(calls[r], c)) = Len(calls[r]) + 1
        /\ DOMAIN Append(calls[r], c) = 1 .. Len(calls[r]) + 1
        /\ \A i \in 1 .. Len(calls[r]) : Append(calls[r], c)[i] = calls[r][i]
        /\ Append(calls[r], c)[Len(calls[r]) + 1] = c
    <3>1. calls[r] \in Seq(Call) /\ c \in Call
      BY <1>n, <1>3, Zenon
    <3> QED
      BY <3>1, Appended, SMT
  <2> QED
    BY <1>5, <2>1, Zenon DEF k
<1>7. ReaderTypeOK'
  <2>1. calls' \in [Rank -> Seq(Call)]
    BY <1>e, <1>t, <1>5, <1>6, Zenon DEF ReaderTypeOK
  <2>2. applied' \in [Rank -> 0 .. MaxFrame]
    <3>1. a + 1 \in 0 .. MaxFrame
      <4>1. m <= checked[r] /\ checked[r] \in 0 .. MaxFrame
        BY <1>i, <1>t, Zenon DEF Progress, ReaderTypeOK, m
      <4> QED
        <5>1. a \in Nat /\ m \in Nat
          BY <1>n, Zenon
        <5> QED
          BY <4>1, <5>1, <1>1, SizesAssumption
    <3> QED
      BY <1>e, <1>t, <3>1, Zenon DEF ReaderTypeOK, a
  <2>3. Append(indx[r], l) \in Seq(Loc) /\ Append(recnums[r], NextRec(r)) \in Seq(Rec)
        /\ Append(frame_loc_index[r], l - frame_start[r]) \in Seq(Nat)
    BY <1>n, <1>2, <1>4
  <2>4. indx' \in [Rank -> Seq(Loc)] /\ recnums' \in [Rank -> Seq(Rec)]
        /\ frame_loc_index' \in [Rank -> Seq(Nat)]
    BY <1>e, <1>t, <2>3, Zenon DEF ReaderTypeOK
  <2> QED
    BY <1>e, <1>c, <1>t, <2>1, <2>2, <2>4, Zenon DEF ReaderTypeOK
<1>8. ASSUME NEW q \in Rank, q # r
      PROVE  RankInv(q)'
  <2>1. /\ calls'[q] = calls[q] /\ applied'[q] = applied[q] /\ indx'[q] = indx[q]
        /\ frame_loc_index'[q] = frame_loc_index[q]
    BY <1>8, <1>e, <1>t, Zenon DEF ReaderTypeOK
  <2> QED
    BY <1>e, <1>t, <2>1, OtherRank, Zenon
<1>9. Progress(r)'
  <2>1. BasicFrameCount(r, NLocs)' = BasicFrameCount(r, NLocs)
    BY <1>e, <1>c, Zenon DEF BasicFrameCount
  <2>2. applied'[r] <= Len(records'[r]) /\ Len(records'[r]) = Len(locIndex'[r])
        /\ Len(records'[r]) <= Len(locIndex'[r])
    <3>1. applied'[r] = a + 1 /\ Len(records'[r]) = m /\ Len(locIndex'[r]) = m
      BY <1>e, <1>5, <1>g, Zenon DEF m
    <3>2. a + 1 <= m /\ m <= m
      BY <1>n, <1>1
    <3> QED
      BY <3>1, <3>2, Zenon
  <2>3. /\ obs_frame'[r] = [i \in 1 .. BasicFrameCount(r, NLocs) |-> frame_start[r] + i - 1]'
        /\ checked'[r] <= Len(obs_frame'[r])
        /\ Len(locIndex'[r]) <= checked'[r]
        /\ checked'[r] = Len(obs_frame'[r]) /\ phase'[r] = "read"
    BY <1>e, <1>i, <1>f, <1>g, <2>1, Zenon DEF Progress
  <2>4. phase'[r] \notin {"resize", "store"} /\ phase'[r] # "done"
    BY <2>3
  <2> QED
    BY <2>2, <2>3, <2>4, Zenon DEF Progress
<1>10. Located(r)'
  BY <1>e, <1>i, <1>s, <1>f, LocatedSame, Zenon
<1>11. Numbered(r)' /\ ChannelRows(r)'
  <2>1. Front(r)' = Front(r)
    BY <1>e, <1>s, Zenon DEF Front
  <2>2. KeptBelow(Front(r))' = KeptBelow(Front(r))
    BY <2>1, <1>c, Zenon DEF KeptBelow
  <2>3. \A i \in DOMAIN records'[r] : records'[r][i] = RecordOf(locIndex'[r][i])
    BY <1>e, <1>i, Zenon DEF Numbered
  <2>4. Numbered(r)'
    BY <1>e, <1>i, <2>2, <2>3, NumberedSame, Zenon
  <2> QED
    BY <2>4, <1>e, <1>i, Zenon DEF ChannelRows
<1>12. Called(r)'
  <2>0. /\ \A i \in 1 .. k : /\ calls[r][i].loc \in KeptBelow(Seen(r))
                             /\ calls[r][i].rec = RecordOf(calls[r][i].loc)
        /\ \A i, j \in 1 .. k : i < j => calls[r][i].loc < calls[r][j].loc
        /\ \A i \in 1 .. k, j \in a + 1 .. m : calls[r][i].loc < locIndex[r][j]
        /\ \A d \in KeptBelow(Seen(r)) : \/ \E i \in 1 .. k : calls[r][i].loc = d
                                         \/ \E j \in a + 1 .. m : locIndex[r][j] = d
    BY <1>i, <1>n, Zenon DEF Called, a, m
  <2>1. /\ k + 1 \in 1 .. k + 1
        /\ \A i \in 1 .. k : i \in 1 .. k + 1 /\ i < k + 1
        /\ \A i \in 1 .. k + 1 : (i \in 1 .. k \/ i = k + 1) /\ ~(k + 1 < i)
    BY <1>n, OneMore, Zenon
  <2>2. /\ a + 1 \in a + 1 .. m
        /\ \A j \in a + 1 .. m : j = a + 1 \/ j \in a + 1 + 1 .. m
        /\ \A j \in a + 1 + 1 .. m : j \in a + 1 .. m /\ a + 1 < j /\ j \in 1 .. m
    BY <1>n, <1>1
  <2>3. \A j \in a + 1 + 1 .. m : l < locIndex[r][j]
    BY <2>2, <1>1, <1>2, <1>i, <1>n, Zenon DEF Located
  <2>4. KeptBelow(Seen(r))' = KeptBelow(Seen(r)) /\ l \in KeptBelow(Seen(r))
    BY <1>c, <1>s, <1>2, Zenon DEF KeptBelow
  <2>5. ASSUME NEW i \in 1 .. k + 1
        PROVE  calls'[r][i].loc \in KeptBelow(Seen(r)) /\ calls'[r][i].rec = RecordOf(calls'[r][i].loc)
    BY <2>0, <2>1, <2>4, <1>3, <1>6, Zenon
  <2>6. ASSUME NEW i \in 1 .. k + 1, NEW j \in 1 .. k + 1, i < j
        PROVE  calls'[r][i].loc < calls'[r][j].loc
    <3>1. i \in 1 .. k
      BY <2>1, <2>6, Zenon
    <3>2. CASE j \in 1 .. k
      BY <3>1, <3>2, <2>0, <2>6, <1>6, Zenon
    <3>3. CASE j = k + 1
      BY <3>1, <3>3, <2>0, <2>2, <1>2, <1>3, <1>6, Zenon
    <3> QED
      BY <3>2, <3>3, <2>1, Zenon
  <2>7. ASSUME NEW i \in 1 .. k + 1, NEW j \in a + 1 + 1 .. m
        PROVE  calls'[r][i].loc < locIndex[r][j]
    BY <2>0, <2>1, <2>2, <2>3, <1>3, <1>6, Zenon
  <2>8. ASSUME NEW d \in KeptBelow(Seen(r))
        PROVE  \/ \E i \in 1 .. k + 1 : calls'[r][i].loc = d
               \/ \E j \in a + 1 + 1 .. m : locIndex[r][j] = d
    <3>1. CASE \E i \in 1 .. k : calls[r][i].loc = d
      BY <3>1, <2>1, <1>6, Zenon
    <3>2. CASE \E j \in a + 1 .. m : locIndex[r][j] = d
      <4>1. PICK j \in a + 1 .. m : locIndex[r][j] = d
        BY <3>2, Zenon
      <4>2. CASE j = a + 1
        BY <4>1, <4>2, <2>1, <1>2, <1>3, <1>6, Zenon
      <4>3. CASE j \in a + 1 + 1 .. m
        BY <4>1, <4>3, Zenon
      <4> QED
        BY <4>2, <4>3, <2>2, Zenon
    <3> QED
      BY <3>1, <3>2, <2>0, Zenon
  <2>9. DOMAIN calls'[r] = 1 .. k + 1 /\ applied'[r] + 1 .. Len(locIndex'[r]) = a + 1 + 1 .. m
        /\ locIndex' = locIndex
    BY <1>5, <1>6, <1>e, Zenon DEF m
  <2> QED
    BY <2>4, <2>5, <2>6, <2>7, <2>8, <2>9, <1>c, Zenon DEF Called
<1>13. CountedRows(r)'
  <2>1. /\ KeptBelow(Seen(r))' = KeptBelow(Seen(r))
        /\ OutsideBelow(Seen(r))' = OutsideBelow(Seen(r))
    BY <1>c, <1>s, Zenon DEF KeptBelow, OutsideBelow
  <2>2. /\ gnlocs'[r] = Cardinality(KeptBelow(Seen(r)))'
        /\ gnlocs_outside_timewindow'[r] = Cardinality(OutsideBelow(Seen(r)))'
    BY <1>e, <1>i, <2>1, Zenon DEF CountedRows
  <2>3. Len(calls'[r]) + (Len(locIndex'[r]) - applied'[r]) = gnlocs'[r]
    <3>1. k + (m - a) = gnlocs[r]
      BY <1>i, Zenon DEF CountedRows, k, m, a
    <3>2. (k + 1) + (m - (a + 1)) = k + (m - a)
      BY <1>n
    <3>3. Len(locIndex'[r]) = m /\ gnlocs'[r] = gnlocs[r]
      BY <1>e, Zenon DEF m
    <3> QED
      BY <3>1, <3>2, <3>3, <1>5, <1>6, Zenon
  <2>4. Len(indx'[r]) <= Len(calls'[r])
    <3>1. Len(indx[r]) <= k /\ Len(indx[r]) \in Nat
      BY <1>i, <1>t, RankLengths, Zenon DEF CountedRows, k
    <3>2. Len(indx'[r]) = Len(indx[r]) + 1 \/ Len(indx'[r]) = Len(indx[r])
      <4>1. indx[r] \in Seq(Loc) /\ (indx'[r] = Append(indx[r], l) \/ indx'[r] = indx[r])
        BY <1>5, <1>n, Zenon
      <4> QED
        BY <4>1
    <3> QED
      BY <3>1, <3>2, <1>6, <1>n
  <2> QED
    BY <2>2, <2>3, <2>4, Zenon DEF CountedRows
<1>14. StoredRows(r)'
  <2> DEFINE adj == adjusted_location_frame_start[r]
             fli == frame_loc_index[r]
             n == Len(fli)
  <2>0. /\ adj \in Nat /\ n \in Nat /\ DOMAIN fli = 1 .. n
        /\ Len(indx[r]) = adj + n /\ Len(indx[r]) \in Nat /\ fli \in Seq(Nat)
    <3>1. Len(indx[r]) = adj + n
      BY <1>i, <1>f, Zenon DEF StoredRows
    <3> QED
      <4>1. adj \in 0 .. NLocs /\ fli \in Seq(Nat)
        BY <1>t, RankTypes, Zenon
      <4>2. n \in Nat /\ DOMAIN fli = 1 .. n /\ Len(indx[r]) \in Nat
        BY <1>t, RankLengths, Zenon
      <4>3. \A x \in 0 .. NLocs : x \in Nat
        BY SizesAssumption
      <4> QED
        BY <3>1, <4>1, <4>2, <4>3, Zenon
  <2>1. /\ \A i \in 1 .. n : fli[i] = indx[r][adj + i] - frame_start[r] /\ fli[i] + 1 \in DOMAIN obs_frame[r]
        /\ \A i \in 1 .. adj : stored[r][i] = indx[r][i]
    BY <2>0, <1>i, <1>f, Zenon DEF StoredRows
  <2>2. /\ frame_start[r] = 0 => adj = 0
        /\ frame_start[r] > 0 => Len(stored[r]) = adj
    <3>1. phase[r] # "store"
      BY <1>g
    <3> QED
      BY <3>1, <1>i, Zenon DEF StoredRows
  <2> HIDE DEF adj, n, fli
  <2>3. /\ Len(indx'[r]) = adj + Len(frame_loc_index'[r])
        /\ \A i \in DOMAIN frame_loc_index'[r] :
             /\ frame_loc_index'[r][i] = indx'[r][adj + i] - frame_start[r]
             /\ frame_loc_index'[r][i] + 1 \in DOMAIN obs_frame[r]
        /\ \A i \in 1 .. adj : stored[r][i] = indx'[r][i]
    <3>1. CASE mine
      <4>1. /\ indx'[r] = Append(indx[r], l)
            /\ frame_loc_index'[r] = Append(fli, l - frame_start[r])
        BY <3>1, <1>5, Zenon DEF fli
      <4>2. /\ Len(indx'[r]) = adj + n + 1
            /\ \A i \in 1 .. adj + n : indx'[r][i] = indx[r][i]
            /\ indx'[r][adj + n + 1] = l
        <5>1. indx[r] \in Seq(Loc) /\ l \in Loc
          BY <1>n, <1>2, Zenon
        <5>2. /\ Len(indx'[r]) = Len(indx[r]) + 1
              /\ \A i \in 1 .. Len(indx[r]) : indx'[r][i] = indx[r][i]
              /\ indx'[r][Len(indx[r]) + 1] = l
          BY <4>1, <5>1
        <5> QED
          BY <5>2, <2>0, Zenon
      <4>3. /\ Len(frame_loc_index'[r]) = n + 1 /\ DOMAIN frame_loc_index'[r] = 1 .. n + 1
            /\ \A i \in 1 .. n : frame_loc_index'[r][i] = fli[i]
            /\ frame_loc_index'[r][n + 1] = l - frame_start[r]
        <5>1. fli \in Seq(Nat) /\ l - frame_start[r] \in Nat /\ n = Len(fli)
          BY <2>0, <1>4, Zenon DEF n
        <5> QED
          BY <4>1, <5>1
      <4>4. \A i \in 1 .. n + 1 : i \in 1 .. n \/ i = n + 1
        BY <2>0, OneMore, Zenon
      <4>5. adj + (n + 1) = adj + n + 1 /\ \A i \in 1 .. n : adj + i \in 1 .. adj + n
        BY <2>0
      <4>6. \A i \in 1 .. adj : i \in 1 .. adj + n
        BY <2>0
      <4>7. ASSUME NEW i \in 1 .. n + 1
            PROVE  /\ frame_loc_index'[r][i] = indx'[r][adj + i] - frame_start[r]
                   /\ frame_loc_index'[r][i] + 1 \in DOMAIN obs_frame[r]
        <5>1. CASE i \in 1 .. n
          BY <5>1, <4>2, <4>3, <4>5, <2>1, Zenon
        <5>2. CASE i = n + 1
          BY <5>2, <4>2, <4>3, <4>5, <1>4, Zenon
        <5> QED
          BY <5>1, <5>2, <4>4, Zenon
      <4> QED
        BY <4>2, <4>3, <4>5, <4>6, <4>7, <2>1, Zenon
    <3>2. CASE ~mine
      BY <3>2, <2>0, <2>1, <1>5, Zenon DEF fli, n
    <3> QED
      BY <3>1, <3>2
  <2>4. /\ phase'[r] = "read" /\ frame_start'[r] = frame_start[r] /\ obs_frame'[r] = obs_frame[r]
        /\ stored'[r] = stored[r] /\ adjusted_location_frame_start'[r] = adj
    BY <1>e, <1>g, Zenon DEF adj
  <2>5. phase'[r] \notin {"resize", "store"} /\ phase'[r] # "frame" /\ phase'[r] # "done"
        /\ phase'[r] # "store" /\ InFrame(r)'
    BY <2>4, <1>f, <1>s
  <2> QED
    BY <2>2, <2>3, <2>4, <2>5, Zenon DEF StoredRows
<1>15. RankInv(r)'
  BY <1>9, <1>10, <1>11, <1>12, <1>13, <1>14, Zenon DEF RankInv
<1> QED
  BY <1>7, <1>8, <1>15, Zenon DEF ReaderInv

\* A step that reads and numbers nothing leaves what has been read and numbered alone.
LEMMA QuietStep ==
  ASSUME NEW r, config' = config, RankInv(r), Seen(r)' = Seen(r),
         InFrame(r)' => InFrame(r) /\ frame_start'[r] = frame_start[r],
         locIndex'[r] = locIndex[r], gnlocs'[r] = gnlocs[r],
         gnlocs_outside_timewindow'[r] = gnlocs_outside_timewindow[r],
         records'[r] = records[r], next_rec_num'[r] = next_rec_num[r],
         obs_grouping'[r] = obs_grouping[r], applied'[r] = applied[r], calls'[r] = calls[r],
         indx'[r] = indx[r]
  PROVE  Located(r)' /\ Numbered(r)' /\ Called(r)' /\ CountedRows(r)'
<1>0. Located(r) /\ Numbered(r) /\ Called(r) /\ CountedRows(r)
  BY Zenon DEF RankInv
<1>1. Located(r)'
  BY <1>0, LocatedSame, Zenon
<1>2. Called(r)' /\ CountedRows(r)'
  BY <1>0, CalledSame, CountedSame, Zenon
<1>3. Numbered(r)'
  <2>1. Front(r)' = Front(r)
    BY Zenon DEF Front
  <2>2. KeptBelow(Front(r))' = KeptBelow(Front(r))
    BY <2>1, SourceSame, Zenon DEF KeptBelow
  <2>3. \A i \in DOMAIN records'[r] : records'[r][i] = RecordOf(locIndex'[r][i])
    BY <1>0, Zenon DEF Numbered
  <2> QED
    BY <1>0, <2>2, <2>3, NumberedSame, Zenon
<1> QED
  BY <1>1, <1>2, <1>3, Zenon

\* The end of frameAvailable preserves the invariant.
LEMMA FinishFrameStep ==
  ASSUME ReaderInv, NEW r \in Rank, FinishFrame(r)
  PROVE  ReaderInv'
<1>t. ReaderTypeOK /\ \A q \in Rank : RankInv(q)
  BY Zenon DEF ReaderInv
<1>i. Progress(r) /\ StoredRows(r) /\ ChannelRows(r) /\ RankInv(r)
  BY <1>t, Zenon DEF RankInv
<1>e. /\ phase[r] = "read" /\ checked[r] = Len(obs_frame[r]) /\ applied[r] = Len(locIndex[r])
      /\ phase' = [phase EXCEPT ![r] = "resize"]
      /\ known_frame_selections' = [known_frame_selections EXCEPT ![r] = <<>>]
      /\ config' = config
      /\ UNCHANGED <<frame_start, obs_frame, checked, locIndex, gnlocs,
                     gnlocs_outside_timewindow, records, next_rec_num, obs_grouping>>
      /\ UNCHANGED <<applied, calls, indx, recnums, frame_loc_index,
                     adjusted_location_frame_start, stored, channels>>
  BY Zenon DEF FinishFrame, frame, locations, numbering, distributed
<1>c. UNCHANGED <<source, max_frame_size, grouping, applyLocationsCheck>>
  BY <1>e, SourceSame, Zenon
<1>1. phase'[r] = "resize" /\ known_frame_selections'[r] = <<>>
  BY <1>e, <1>t, Zenon DEF ReaderTypeOK
<1>2. ReaderTypeOK'
  <2>1. <<>> \in Seq(Nat)
    OBVIOUS
  <2>2. /\ phase' \in [Rank -> {"frame", "read", "resize", "store", "done"}]
        /\ known_frame_selections' \in [Rank -> Seq(Nat)]
    BY <1>e, <1>t, <2>1, Zenon DEF ReaderTypeOK
  <2> QED
    BY <1>e, <1>c, <1>t, <2>2, Zenon DEF ReaderTypeOK
<1>3. ASSUME NEW q \in Rank, q # r
      PROVE  RankInv(q)'
  <2>1. phase'[q] = phase[q] /\ known_frame_selections'[q] = known_frame_selections[q]
    BY <1>3, <1>e, <1>t, Zenon DEF ReaderTypeOK
  <2> QED
    BY <1>e, <1>t, <2>1, OtherRank, Zenon
<1>4. InFrame(r) /\ InFrame(r)'
  BY <1>e, <1>1 DEF InFrame
<1>5. Seen(r)' = Seen(r)
  BY <1>e, <1>4, SeenSame, Zenon
<1>6. Located(r)' /\ Numbered(r)' /\ Called(r)' /\ CountedRows(r)'
  BY <1>e, <1>i, <1>4, <1>5, QuietStep, Zenon
<1>7. Progress(r)'
  <2>1. BasicFrameCount(r, NLocs)' = BasicFrameCount(r, NLocs)
    BY <1>e, <1>c, Zenon DEF BasicFrameCount
  <2>2. phase'[r] # "read" /\ phase'[r] # "done"
    BY <1>1
  <2> QED
    BY <1>e, <1>i, <1>4, <2>1, <2>2, Zenon DEF Progress
<1>8. StoredRows(r)'
  <2>1. phase[r] # "store" /\ phase'[r] # "frame" /\ phase'[r] # "done" /\ phase'[r] # "store"
    BY <1>e, <1>1
  <2> QED
    BY <1>e, <1>i, <1>1, <1>4, <2>1, Zenon DEF StoredRows
<1>9. ChannelRows(r)'
  BY <1>e, <1>i, Zenon DEF ChannelRows
<1>10. RankInv(r)'
  BY <1>6, <1>7, <1>8, <1>9, Zenon DEF RankInv
<1> QED
  BY <1>2, <1>3, <1>10, Zenon DEF ReaderInv

\* frameAvailable that finds no further frame preserves the invariant.
LEMMA NoFrameLeftStep ==
  ASSUME ReaderInv, NEW r \in Rank, NoFrameLeft(r)
  PROVE  ReaderInv'
<1>t. ReaderTypeOK /\ \A q \in Rank : RankInv(q)
  BY Zenon DEF ReaderInv
<1>i. Progress(r) /\ StoredRows(r) /\ ChannelRows(r) /\ RankInv(r)
  BY <1>t, Zenon DEF RankInv
<1>e. /\ phase[r] = "frame" /\ frame_start[r] >= max_var_size
      /\ phase' = [phase EXCEPT ![r] = "done"]
      /\ config' = config
      /\ UNCHANGED <<frame_start, obs_frame, checked, locIndex, gnlocs,
                     gnlocs_outside_timewindow, records, next_rec_num, obs_grouping>>
      /\ UNCHANGED <<applied, calls, indx, recnums, frame_loc_index,
                     adjusted_location_frame_start, known_frame_selections, stored, channels>>
  BY Zenon DEF NoFrameLeft, frame, locations, numbering, distributed, obsGroup
<1>c. UNCHANGED <<source, max_frame_size, grouping, applyLocationsCheck>>
  BY <1>e, SourceSame, Zenon
<1>1. phase'[r] = "done"
  BY <1>e, <1>t, Zenon DEF ReaderTypeOK
<1>2. ReaderTypeOK'
  <2>1. phase' \in [Rank -> {"frame", "read", "resize", "store", "done"}]
    BY <1>e, <1>t, Zenon DEF ReaderTypeOK
  <2> QED
    BY <1>e, <1>c, <1>t, <2>1, Zenon DEF ReaderTypeOK
<1>3. ASSUME NEW q \in Rank, q # r
      PROVE  RankInv(q)'
  <2>1. phase'[q] = phase[q]
    BY <1>3, <1>e, <1>t, Zenon DEF ReaderTypeOK
  <2> QED
    BY <1>e, <1>t, <2>1, OtherRank, Zenon
<1>4. ~InFrame(r) /\ ~InFrame(r)'
  BY <1>e, <1>1 DEF InFrame
<1>5. Seen(r)' = Seen(r)
  BY <1>e, <1>4, SeenSame, Zenon
<1>6. Located(r)' /\ Numbered(r)' /\ Called(r)' /\ CountedRows(r)'
  BY <1>e, <1>i, <1>4, <1>5, QuietStep, Zenon
<1>7. Progress(r)'
  <2>1. phase[r] # "read" /\ phase'[r] # "read" /\ phase'[r] \notin {"resize", "store"}
    BY <1>e, <1>1
  <2> QED
    BY <1>e, <1>i, <1>4, <2>1, Zenon DEF Progress
<1>8. StoredRows(r)'
  <2>1. Len(stored[r]) = adjusted_location_frame_start[r]
    <3>1. CASE frame_start[r] = 0
      <4>1. NLocs = 0
        BY <3>1, <1>e, SizesAssumption DEF max_var_size
      <4>2. adjusted_location_frame_start[r] = 0 /\ Len(stored[r]) = Lesser(NLocs, max_frame_size)
        BY <3>1, <1>e, <1>i, Zenon DEF StoredRows
      <4>3. max_frame_size \in 1 .. MaxFrame
        BY <1>t, Zenon DEF ReaderTypeOK
      <4>4. Lesser(NLocs, max_frame_size) = 0
        BY <4>1, <4>3, SizesAssumption DEF Lesser
      <4> QED
        BY <4>2, <4>4
    <3>2. CASE frame_start[r] > 0
      <4>1. phase[r] # "store"
        BY <1>e
      <4> QED
        BY <3>2, <4>1, <1>i, Zenon DEF StoredRows
    <3>3. frame_start[r] \in Nat
      BY <1>t, RankTypes, Zenon
    <3> QED
      BY <3>1, <3>2, <3>3
  <2>2. phase'[r] # "frame" /\ phase'[r] # "store" /\ phase'[r] \notin {"resize", "store"}
    BY <1>1
  <2> QED
    BY <1>e, <1>i, <1>4, <2>1, <2>2, Zenon DEF StoredRows
<1>9. ChannelRows(r)'
  BY <1>e, <1>i, Zenon DEF ChannelRows
<1>10. RankInv(r)'
  BY <1>6, <1>7, <1>8, <1>9, Zenon DEF RankInv
<1> QED
  BY <1>2, <1>3, <1>10, Zenon DEF ReaderInv

\* resizeLocation makes room for the locations of the frame, no more and no less,
\* and keeps the rows of the frames before.
LEMMA ResizeLocationStep ==
  ASSUME ReaderInv, NEW r \in Rank, ResizeLocation(r)
  PROVE  ReaderInv'
<1> DEFINE adj == adjusted_location_frame_start[r]
           old == stored[r]
           size == IF frame_start[r] > 0 THEN Len(old) + AdjLocationFrameCount(r)
                   ELSE AdjLocationFrameCount(r)
           new == [i \in 1 .. size |-> IF i \in DOMAIN old THEN old[i] ELSE Fill]
<1>t. ReaderTypeOK /\ \A q \in Rank : RankInv(q)
  BY Zenon DEF ReaderInv
<1>i. Progress(r) /\ StoredRows(r) /\ ChannelRows(r) /\ RankInv(r)
  BY <1>t, Zenon DEF RankInv
<1>e. /\ phase[r] = "resize" /\ phase' = [phase EXCEPT ![r] = "store"]
      /\ stored' = [stored EXCEPT ![r] = new]
      /\ config' = config
      /\ UNCHANGED <<frame_start, obs_frame, checked, locIndex, gnlocs,
                     gnlocs_outside_timewindow, records, next_rec_num, obs_grouping>>
      /\ UNCHANGED <<applied, calls, indx, recnums, frame_loc_index,
                     adjusted_location_frame_start, known_frame_selections, channels>>
  BY Zenon DEF ResizeLocation, frame, locations, numbering, distributed
<1>c. UNCHANGED <<source, max_frame_size, grouping, applyLocationsCheck>>
  BY <1>e, SourceSame, Zenon
<1>f. InFrame(r)
  BY <1>e DEF InFrame
<1>1. size = Len(indx[r]) /\ size \in Nat /\ adj \in Nat /\ adj <= size /\ \A i \in 1 .. adj : i \in DOMAIN old
  <2>1. /\ Len(indx[r]) = adj + Len(frame_loc_index[r])
        /\ frame_start[r] = 0 => adj = 0
        /\ frame_start[r] > 0 => Len(old) = adj
    <3>1. phase[r] # "store"
      BY <1>e
    <3> QED
      BY <3>1, <1>f, <1>i, Zenon DEF StoredRows
  <2>2. /\ Len(indx[r]) \in Nat /\ Len(frame_loc_index[r]) \in Nat /\ Len(old) \in Nat
        /\ DOMAIN old = 1 .. Len(old) /\ adj \in 0 .. NLocs /\ frame_start[r] \in Nat
    BY <1>t, RankLengths, RankTypes, Zenon
  <2>3. adj \in Nat
    BY <2>2, SizesAssumption
  <2>4. CASE frame_start[r] = 0
    <3>1. size = Len(frame_loc_index[r])
      BY <2>4 DEF AdjLocationFrameCount
    <3> HIDE DEF size, old, adj
    <3> QED
      BY <2>1, <2>2, <2>3, <2>4, <3>1
  <2>5. CASE frame_start[r] > 0
    <3>1. size = Len(old) + Len(frame_loc_index[r])
      BY <2>5 DEF AdjLocationFrameCount
    <3> HIDE DEF size, old, adj
    <3>2. Len(old) = adj /\ size = adj + Len(frame_loc_index[r])
      BY <2>1, <2>5, <3>1
    <3>3. \A a, k \in Nat : a + k \in Nat /\ a <= a + k
      OBVIOUS
    <3> QED
      BY <2>1, <2>2, <2>3, <3>2, <3>3, Zenon
  <2>6. frame_start[r] = 0 \/ frame_start[r] > 0
    BY <2>2
  <2> QED
    BY <2>4, <2>5, <2>6, Zenon
<1> HIDE DEF size, old, adj
<1>2. /\ new \in Seq(Loc \cup {Fill}) /\ Len(new) = size
      /\ \A i \in 1 .. adj : new[i] = old[i]
  <2>1. old \in Seq(Loc \cup {Fill})
    BY <1>t, RankTypes, Zenon DEF old
  <2>2. \A i \in 1 .. size : (IF i \in DOMAIN old THEN old[i] ELSE Fill) \in Loc \cup {Fill}
    BY <2>1
  <2>3. \A i \in 1 .. adj : i \in 1 .. size
    BY <1>1
  <2>4. \A i \in 1 .. adj : new[i] = old[i]
    BY <2>3, <1>1, Zenon
  <2> QED
    BY <2>2, <2>4, <1>1
<1> HIDE DEF new
<1>3. phase'[r] = "store" /\ stored'[r] = new
  BY <1>e, <1>t, Zenon DEF ReaderTypeOK
<1>4. ReaderTypeOK'
  <2>1. /\ phase' \in [Rank -> {"frame", "read", "resize", "store", "done"}]
        /\ stored' \in [Rank -> Seq(Loc \cup {Fill})]
    BY <1>e, <1>t, <1>2, Zenon DEF ReaderTypeOK
  <2> QED
    BY <1>e, <1>c, <1>t, <2>1, Zenon DEF ReaderTypeOK
<1>5. ASSUME NEW q \in Rank, q # r
      PROVE  RankInv(q)'
  <2>1. phase'[q] = phase[q] /\ stored'[q] = stored[q]
    BY <1>5, <1>e, <1>t, Zenon DEF ReaderTypeOK
  <2> QED
    BY <1>e, <1>t, <2>1, OtherRank, Zenon
<1>6. InFrame(r)'
  BY <1>3 DEF InFrame
<1>7. Seen(r)' = Seen(r)
  BY <1>e, <1>f, <1>6, SeenSame, Zenon
<1>8. Located(r)' /\ Numbered(r)' /\ Called(r)' /\ CountedRows(r)'
  BY <1>e, <1>f, <1>i, <1>6, <1>7, QuietStep, Zenon
<1>9. Progress(r)'
  <2>1. BasicFrameCount(r, NLocs)' = BasicFrameCount(r, NLocs)
    BY <1>e, <1>c, Zenon DEF BasicFrameCount
  <2>2. /\ phase'[r] # "read" /\ phase'[r] # "done" /\ phase[r] # "read"
        /\ phase[r] \in {"resize", "store"}
    BY <1>e, <1>3
  <2> QED
    BY <1>e, <1>f, <1>i, <2>1, <2>2, Zenon DEF Progress
<1>10. StoredRows(r)'
  <2>1. /\ phase[r] \in {"resize", "store"} /\ phase'[r] # "frame" /\ phase'[r] # "done"
        /\ phase'[r] = "store"
    BY <1>e, <1>3
  <2>2. Len(stored'[r]) = Len(indx'[r])
    BY <1>1, <1>2, <1>3, <1>e, Zenon
  <2>3. \A i \in 1 .. adj : stored'[r][i] = indx[r][i]
    BY <1>2, <1>3, <1>i, Zenon DEF StoredRows, adj, old
  <2> QED
    BY <1>e, <1>f, <1>i, <1>6, <2>1, <2>2, <2>3, Zenon DEF StoredRows, adj
<1>11. ChannelRows(r)'
  BY <1>e, <1>i, Zenon DEF ChannelRows
<1>12. RankInv(r)'
  BY <1>8, <1>9, <1>10, <1>11, Zenon DEF RankInv
<1> QED
  BY <1>4, <1>5, <1>12, Zenon DEF ReaderInv

\* readObsSource and storeVar fill the room that resizeLocation made with the rows
\* of the locations of the frame, in the order of indx.
LEMMA StoredFrame ==
  ASSUME ReaderInv, NEW r \in Rank, phase[r] = "store"
  PROVE  LET adj == adjusted_location_frame_start[r]
             n == AdjLocationFrameCount(r)
             new == StoreLocations(r, adj, n)
         IN  /\ FrameSelection(r) = frame_loc_index[r]
             /\ adj + n = Len(indx[r]) /\ adj + n \in 0 .. NLocs
             /\ new \in Seq(Loc \cup {Fill}) /\ new = indx[r]
<1> DEFINE adj == adjusted_location_frame_start[r]
           n == AdjLocationFrameCount(r)
           fli == frame_loc_index[r]
           new == StoreLocations(r, adj, n)
<1>t. ReaderTypeOK /\ \A q \in Rank : RankInv(q)
  BY Zenon DEF ReaderInv
<1>i. Progress(r) /\ StoredRows(r) /\ CountedRows(r)
  BY <1>t, Zenon DEF RankInv
<1>f. InFrame(r) /\ phase[r] \in {"resize", "store"}
  BY DEF InFrame
<1>1. FrameSelection(r) = fli
  <2>1. known_frame_selections[r] = <<>>
    BY <1>f, <1>i, Zenon DEF StoredRows
  <2> QED
    BY <2>1, Zenon DEF FrameSelection
<1>2. /\ Len(indx[r]) = adj + n /\ Len(stored[r]) = Len(indx[r])
      /\ \A i \in DOMAIN fli : fli[i] = indx[r][adj + i] - frame_start[r] /\ fli[i] + 1 \in DOMAIN obs_frame[r]
      /\ \A i \in 1 .. adj : stored[r][i] = indx[r][i]
  BY <1>f, <1>i, Zenon DEF StoredRows, AdjLocationFrameCount
<1>3. /\ adj \in Nat /\ n \in Nat /\ DOMAIN fli = 1 .. n /\ frame_start[r] \in Nat
      /\ DOMAIN stored[r] = 1 .. Len(stored[r]) /\ DOMAIN indx[r] = 1 .. Len(indx[r])
      /\ indx[r] \in Seq(Loc) /\ \A i \in DOMAIN indx[r] : indx[r][i] \in Nat
  <2>1. adj \in Nat
    BY <1>t, RankTypes, SizesAssumption
  <2> QED
    BY <2>1, <1>t, RankTypes, RankLengths, Zenon DEF AdjLocationFrameCount
<1>4. adj + n \in 0 .. NLocs
  <2>1. /\ gnlocs[r] \in 0 .. NLocs /\ Len(calls[r]) \in Nat /\ Len(indx[r]) \in Nat
        /\ applied[r] \in Nat /\ Len(locIndex[r]) \in Nat
    BY <1>t, RankTypes, RankLengths, Zenon
  <2>2. /\ Len(calls[r]) + (Len(locIndex[r]) - applied[r]) = gnlocs[r]
        /\ Len(indx[r]) <= Len(calls[r])
    BY <1>i, Zenon DEF CountedRows
  <2>3. applied[r] = Len(locIndex[r])
    <3>1. phase[r] # "read"
      OBVIOUS
    <3> QED
      BY <3>1, <1>i, Zenon DEF Progress
  <2>4. \A c, k, a, g, x \in Nat : c + (k - a) = g /\ x <= c /\ a = k /\ g \in 0 .. NLocs => x \in 0 .. NLocs
    BY SizesAssumption
  <2>5. gnlocs[r] \in Nat
    BY <2>1, SizesAssumption
  <2>6. Len(indx[r]) \in 0 .. NLocs
    BY <2>1, <2>2, <2>3, <2>4, <2>5, Zenon
  <2> QED
    BY <2>6, <1>2, Zenon
<1>5. \A i \in DOMAIN obs_frame[r] : obs_frame[r][i] = frame_start[r] + i - 1
  BY <1>t, <1>i, <1>f, FrameShape, Zenon
<1>6. new = [i \in 1 .. adj + n |->
               IF /\ i \in adj + 1 .. adj + n
                  /\ i - adj \in DOMAIN fli
                  /\ fli[i - adj] + 1 \in DOMAIN obs_frame[r]
               THEN obs_frame[r][fli[i - adj] + 1] ELSE stored[r][i]]
  BY <1>1, <1>2, <1>3, Zenon DEF StoreLocations
<1> HIDE DEF new, fli, n, adj
<1>7. ASSUME NEW i \in 1 .. adj + n
      PROVE  new[i] = indx[r][i]
  <2>1. CASE i \in 1 .. adj
    <3>1. i \notin adj + 1 .. adj + n
      BY <2>1, <1>3
    <3> QED
      BY <2>1, <3>1, <1>2, <1>6, Zenon
  <2>2. CASE i \in adj + 1 .. adj + n
    <3>1. i - adj \in 1 .. n /\ adj + (i - adj) = i
      BY <2>2, <1>3
    <3>2. fli[i - adj] = indx[r][i] - frame_start[r] /\ fli[i - adj] + 1 \in DOMAIN obs_frame[r]
      BY <3>1, <1>2, <1>3, Zenon
    <3>3. new[i] = obs_frame[r][fli[i - adj] + 1]
      BY <2>2, <3>1, <3>2, <1>3, <1>6, Zenon
    <3>4. new[i] = frame_start[r] + (fli[i - adj] + 1) - 1
      BY <3>2, <3>3, <1>5, Zenon
    <3>5. indx[r][i] \in Nat
      BY <1>2, <1>3, Zenon
    <3>6. \A s, x \in Nat : s + ((x - s) + 1) - 1 = x
      OBVIOUS
    <3> QED
      <4>1. new[i] = frame_start[r] + ((indx[r][i] - frame_start[r]) + 1) - 1
        BY <3>2, <3>4, Zenon
      <4>2. frame_start[r] + ((indx[r][i] - frame_start[r]) + 1) - 1 = indx[r][i]
        BY <3>5, <3>6, <1>3, Zenon
      <4> QED
        BY <4>1, <4>2, Zenon
  <2>3. i \in 1 .. adj \/ i \in adj + 1 .. adj + n
    BY <1>3
  <2> QED
    BY <2>1, <2>2, <2>3
<1>8. new = indx[r]
  <2>1. new = [i \in 1 .. adj + n |-> new[i]]
    BY <1>6, Zenon
  <2>2. indx[r] = [i \in 1 .. adj + n |-> indx[r][i]]
    BY <1>2, <1>3
  <2> QED
    BY <2>1, <2>2, <1>7, Zenon
<1>9. new \in Seq(Loc \cup {Fill})
  BY <1>8, <1>3
<1> QED
  BY <1>1, <1>2, <1>4, <1>8, <1>9 DEF new, adj, n, fli

\* Storing the frame and frameNext preserve the invariant.
LEMMA StoreFrameStep ==
  ASSUME ReaderInv, NEW r \in Rank, StoreFrame(r)
  PROVE  ReaderInv'
<1> DEFINE adj == adjusted_location_frame_start[r]
           n == AdjLocationFrameCount(r)
           new == StoreLocations(r, adj, n)
<1>t. ReaderTypeOK /\ \A q \in Rank : RankInv(q)
  BY Zenon DEF ReaderInv
<1>i. Progress(r) /\ StoredRows(r) /\ ChannelRows(r) /\ RankInv(r)
  BY <1>t, Zenon DEF RankInv
<1>e. /\ phase[r] = "store" /\ phase' = [phase EXCEPT ![r] = "frame"]
      /\ stored' = [stored EXCEPT ![r] = new]
      /\ known_frame_selections' =
           IF n > 0 THEN [known_frame_selections EXCEPT ![r] = FrameSelection(r)]
           ELSE known_frame_selections
      /\ adjusted_location_frame_start' = [adjusted_location_frame_start EXCEPT ![r] = adj + n]
      /\ channels' = [channels EXCEPT ![r] = StoreChannels(r)]
      /\ frame_start' = [frame_start EXCEPT ![r] = frame_start[r] + max_frame_size]
      /\ config' = config
      /\ UNCHANGED <<obs_frame, checked, locIndex, gnlocs,
                     gnlocs_outside_timewindow, records, next_rec_num, obs_grouping>>
      /\ UNCHANGED <<applied, calls, indx, recnums, frame_loc_index>>
  BY Zenon DEF StoreFrame, NextFrameStart, locations, numbering, distributed
<1>c. UNCHANGED <<source, max_frame_size, grouping, applyLocationsCheck>>
  BY <1>e, SourceSame, Zenon
<1>f. InFrame(r)
  BY <1>e DEF InFrame
<1>1. /\ FrameSelection(r) = frame_loc_index[r]
      /\ adj + n = Len(indx[r]) /\ adj + n \in 0 .. NLocs
      /\ new \in Seq(Loc \cup {Fill}) /\ new = indx[r]
  BY <1>e, StoredFrame, Zenon
<1>2. /\ frame_start[r] \in Nat /\ max_frame_size \in 1 .. MaxFrame
      /\ channels[r] \in [Chan -> Chan \cup {Fill}] /\ frame_loc_index[r] \in Seq(Nat)
      /\ Len(indx[r]) \in Nat
  BY <1>t, RankTypes, RankLengths, Zenon
<1>3. frame_start[r] + max_frame_size \in Nat /\ frame_start[r] + max_frame_size > 0
  BY <1>2, SizesAssumption
<1>4. StoreChannels(r) \in [Chan -> Chan \cup {Fill}]
  BY <1>2, Zenon DEF StoreChannels
<1>5. \A c \in Chan : c < frame_start[r] + max_frame_size => StoreChannels(r)[c] = c
  <2> SUFFICES ASSUME NEW c \in Chan, c < frame_start[r] + max_frame_size
               PROVE  StoreChannels(r)[c] = c
    BY Zenon
  <2> DEFINE hi == frame_start[r] + BasicFrameCount(r, NChans) - 1
  <2>1. StoreChannels(r)[c] = IF c \in frame_start[r] .. hi THEN c ELSE channels[r][c]
    BY Zenon DEF StoreChannels
  <2>2. c < frame_start[r] \/ c \in frame_start[r] .. hi
    BY <1>2, SizesAssumption DEF BasicFrameCount, Chan
  <2>3. c < frame_start[r] => channels[r][c] = c
    BY <1>i, Zenon DEF ChannelRows
  <2> QED
    BY <2>1, <2>2, <2>3, Zenon
<1> HIDE DEF adj, n, new
<1>6. /\ phase'[r] = "frame" /\ stored'[r] = new /\ adjusted_location_frame_start'[r] = adj + n
      /\ channels'[r] = StoreChannels(r) /\ frame_start'[r] = frame_start[r] + max_frame_size
  BY <1>e, <1>t, Zenon DEF ReaderTypeOK
<1>7. ReaderTypeOK'
  <2>1. /\ phase' \in [Rank -> {"frame", "read", "resize", "store", "done"}]
        /\ stored' \in [Rank -> Seq(Loc \cup {Fill})]
        /\ adjusted_location_frame_start' \in [Rank -> 0 .. NLocs]
        /\ channels' \in [Rank -> [Chan -> Chan \cup {Fill}]]
        /\ frame_start' \in [Rank -> Nat]
    BY <1>e, <1>t, <1>1, <1>3, <1>4, Zenon DEF ReaderTypeOK
  <2>2. known_frame_selections' \in [Rank -> Seq(Nat)]
    BY <1>e, <1>t, <1>1, <1>2, Zenon DEF ReaderTypeOK
  <2> QED
    BY <1>e, <1>c, <1>t, <2>1, <2>2, Zenon DEF ReaderTypeOK
<1>8. ASSUME NEW q \in Rank, q # r
      PROVE  RankInv(q)'
  <2>1. /\ phase'[q] = phase[q] /\ stored'[q] = stored[q] /\ channels'[q] = channels[q]
        /\ frame_start'[q] = frame_start[q]
        /\ adjusted_location_frame_start'[q] = adjusted_location_frame_start[q]
        /\ known_frame_selections'[q] = known_frame_selections[q]
    BY <1>8, <1>e, <1>t, Zenon DEF ReaderTypeOK
  <2> QED
    BY <1>e, <1>t, <2>1, OtherRank, Zenon
<1>9. ~InFrame(r)'
  BY <1>6 DEF InFrame
<1>10. Seen(r)' = Seen(r)
  <2>1. /\ Seen(r) = Lesser(frame_start[r], NLocs) + checked[r]
        /\ Len(obs_frame[r]) = BasicFrameCount(r, NLocs)
    BY <1>t, <1>i, <1>f, FrameShape, Zenon
  <2>2. checked[r] = Len(obs_frame[r])
    <3>1. phase[r] \in {"resize", "store"}
      BY <1>e
    <3> QED
      BY <3>1, <1>i, Zenon DEF Progress
  <2>3. Lesser(frame_start[r], NLocs) + BasicFrameCount(r, NLocs)
          = Lesser(frame_start[r] + max_frame_size, NLocs)
    BY <1>t, FrameRows, Zenon
  <2>4. Seen(r)' = Lesser(frame_start'[r], NLocs) + 0
    BY <1>9, Zenon DEF Seen, Lesser
  <2>5. Lesser(frame_start'[r], NLocs) \in Nat
    BY <1>3, <1>6, SizesAssumption DEF Lesser
  <2>6. Seen(r)' = Lesser(frame_start'[r], NLocs)
    BY <2>4, <2>5
  <2> QED
    BY <2>1, <2>2, <2>3, <2>6, <1>6, Zenon
<1>11. Located(r)' /\ Numbered(r)' /\ Called(r)' /\ CountedRows(r)'
  BY <1>e, <1>i, <1>9, <1>10, QuietStep, Zenon
<1>12. Progress(r)'
  <2>1. /\ phase'[r] # "read" /\ phase'[r] # "done" /\ phase'[r] \notin {"resize", "store"}
        /\ phase[r] # "read"
    BY <1>e, <1>6
  <2> QED
    BY <1>e, <1>i, <1>9, <2>1, Zenon DEF Progress
<1>13. StoredRows(r)'
  <2>1. /\ phase'[r] = "frame" /\ phase'[r] # "done" /\ phase'[r] # "store"
        /\ phase'[r] \notin {"resize", "store"}
        /\ frame_start'[r] # 0
    <3>1. phase'[r] = "frame" /\ frame_start'[r] = frame_start[r] + max_frame_size
      BY <1>6, Zenon
    <3> QED
      BY <3>1, <1>3
  <2>2. /\ adjusted_location_frame_start'[r] = Len(indx'[r])
        /\ Len(stored'[r]) = adjusted_location_frame_start'[r]
        /\ \A i : stored'[r][i] = indx'[r][i]
    BY <1>e, <1>1, <1>6, Zenon DEF adj, n
  <2> QED
    BY <1>9, <2>1, <2>2, Zenon DEF StoredRows
<1>14. ChannelRows(r)'
  BY <1>5, <1>6, Zenon DEF ChannelRows
<1>15. RankInv(r)'
  BY <1>11, <1>12, <1>13, <1>14, Zenon DEF RankInv
<1> QED
  BY <1>7, <1>8, <1>15, Zenon DEF ReaderInv

-----------------------------------------------------------------------------
(* The invariant *)

\* The construction of ObsFrameRead and of the empty obs_group establishes it.
LEMMA InitReaderInv ==
  ASSUME InitReader
  PROVE  ReaderInv
<1>e. InitSource /\ InitFrame /\ InitObsGroup /\ phase = [r \in Rank |-> "frame"]
  BY Zenon DEF InitReader
<1>1. ReaderTypeOK
  <2>1. /\ source \in [Loc -> SourceLoc] /\ max_frame_size \in 1 .. MaxFrame
        /\ grouping \in BOOLEAN /\ applyLocationsCheck \in BOOLEAN
    BY <1>e, Zenon DEF InitSource
  <2>2. /\ <<>> \in Seq(Loc) /\ <<>> \in Seq(Rec) /\ <<>> \in Seq(Call) /\ <<>> \in Seq(Nat)
        /\ 0 \in Nat /\ 0 \in 0 .. MaxFrame /\ 0 \in 0 .. NLocs
    BY SizesAssumption
  <2>3. [i \in 1 .. Lesser(NLocs, max_frame_size) |-> Fill] \in Seq(Loc \cup {Fill})
    <3>1. Lesser(NLocs, max_frame_size) \in Nat
      BY <2>1, SizesAssumption DEF Lesser
    <3> QED
      BY <3>1
  <2>4. /\ frame_start \in [Rank -> Nat] /\ obs_frame \in [Rank -> Seq(Loc)]
        /\ checked \in [Rank -> 0 .. MaxFrame] /\ locIndex \in [Rank -> Seq(Loc)]
        /\ records \in [Rank -> Seq(Rec)] /\ applied \in [Rank -> 0 .. MaxFrame]
        /\ next_rec_num \in [Rank -> 0 .. NLocs]
        /\ obs_grouping \in [Rank -> [Key -> Rec \cup {None}]]
        /\ gnlocs \in [Rank -> 0 .. NLocs] /\ gnlocs_outside_timewindow \in [Rank -> 0 .. NLocs]
    BY <1>e, <2>2, Zenon DEF InitFrame
  <2>5. /\ calls \in [Rank -> Seq(Call)] /\ indx \in [Rank -> Seq(Loc)]
        /\ recnums \in [Rank -> Seq(Rec)] /\ frame_loc_index \in [Rank -> Seq(Nat)]
        /\ adjusted_location_frame_start \in [Rank -> 0 .. NLocs]
        /\ known_frame_selections \in [Rank -> Seq(Nat)]
    BY <1>e, <2>2, Zenon DEF InitFrame
  <2>6. /\ stored \in [Rank -> Seq(Loc \cup {Fill})]
        /\ channels \in [Rank -> [Chan -> Chan \cup {Fill}]]
        /\ phase \in [Rank -> {"frame", "read", "resize", "store", "done"}]
    BY <1>e, <2>3, Zenon DEF InitObsGroup
  <2> QED
    BY <2>1, <2>4, <2>5, <2>6, Zenon DEF ReaderTypeOK
<1>2. ASSUME NEW r \in Rank
      PROVE  RankInv(r)
  <2>1. /\ frame_start[r] = 0 /\ checked[r] = 0 /\ locIndex[r] = <<>> /\ records[r] = <<>>
        /\ applied[r] = 0 /\ next_rec_num[r] = 0 /\ obs_grouping[r] = [k \in Key |-> None]
        /\ gnlocs[r] = 0 /\ gnlocs_outside_timewindow[r] = 0 /\ calls[r] = <<>>
        /\ indx[r] = <<>> /\ adjusted_location_frame_start[r] = 0 /\ phase[r] = "frame"
        /\ stored[r] = [i \in 1 .. Lesser(NLocs, max_frame_size) |-> Fill]
    BY <1>e, Zenon DEF InitFrame, InitObsGroup
  <2>2. ~InFrame(r) /\ Seen(r) = 0 /\ Front(r) = 0
    <3>1. "frame" \notin {"read", "resize", "store"} /\ Len(<<>>) = 0 /\ ~(0 < 0)
      OBVIOUS
    <3>2. Lesser(0, NLocs) + 0 = 0
      BY SizesAssumption DEF Lesser
    <3>3. ~InFrame(r)
      BY <2>1, <3>1, Zenon DEF InFrame
    <3>4. Seen(r) = 0
      BY <2>1, <3>2, <3>3, Zenon DEF Seen
    <3> QED
      BY <2>1, <3>1, <3>3, <3>4, Zenon DEF Front
  <2>3. KeptBelow(0) = {} /\ OutsideBelow(0) = {} /\ FirstsBelow(0) = {}
    BY SizesAssumption DEF KeptBelow, OutsideBelow, FirstsBelow, Kept, Loc
  <2>4. Cardinality({}) = 0
    BY FS_EmptySet
  <2>e. /\ DOMAIN records[r] = {} /\ DOMAIN calls[r] = {} /\ Len(calls[r]) = 0
        /\ Len(indx[r]) = 0 /\ Len(locIndex[r]) = 0 /\ 0 + (0 - 0) = 0 /\ 0 <= 0
        /\ 1 .. 0 = {}
    BY <2>1
  <2>5. Progress(r) /\ Located(r)
    <3>1. /\ DOMAIN locIndex[r] = {} /\ Len(records[r]) = 0 /\ ~(0 > 0)
          /\ "frame" # "read" /\ "frame" \notin {"resize", "store"} /\ "frame" # "done"
      BY <2>1
    <3>2. Progress(r)
      BY <2>1, <2>2, <2>e, <3>1, Zenon DEF Progress
    <3>3. Located(r)
      BY <2>2, <3>1, Zenon DEF Located
    <3> QED
      BY <3>2, <3>3, Zenon
  <2>6. Numbered(r)
    <3>1. \A k \in Key : obs_grouping[r][k] = None
      BY <2>1, Zenon
    <3> QED
      BY <2>1, <2>2, <2>3, <2>4, <2>e, <3>1, Zenon DEF Numbered
  <2>7. Called(r) /\ CountedRows(r)
    <3>1. applied[r] + 1 .. Len(locIndex[r]) = {}
      BY <2>1
    <3>2. Called(r)
      BY <2>2, <2>3, <2>e, <3>1, Zenon DEF Called
    <3>3. CountedRows(r)
      BY <2>1, <2>2, <2>3, <2>4, <2>e, Zenon DEF CountedRows
    <3> QED
      BY <3>2, <3>3
  <2>8. StoredRows(r)
    <3>1. max_frame_size \in 1 .. MaxFrame
      BY <1>1, Zenon DEF ReaderTypeOK
    <3>2. Lesser(NLocs, max_frame_size) \in Nat
      BY <3>1, SizesAssumption DEF Lesser
    <3>3. Len(stored[r]) = Lesser(NLocs, max_frame_size)
      BY <2>1, <3>2
    <3>4. /\ phase[r] # "done" /\ phase[r] # "store" /\ phase[r] \notin {"resize", "store"}
          /\ ~(frame_start[r] > 0)
      BY <2>1
    <3> QED
      BY <2>1, <2>2, <2>e, <3>3, <3>4, Zenon DEF StoredRows
  <2>9. ChannelRows(r)
    BY <2>1, SizesAssumption DEF ChannelRows, Chan
  <2> QED
    BY <2>5, <2>6, <2>7, <2>8, <2>9, Zenon DEF RankInv
<1> QED
  BY <1>1, <1>2, Zenon DEF ReaderInv

\* Every step of every rank preserves it.
LEMMA ReaderStepInv ==
  ASSUME ReaderInv, [ReaderNext]_readerVars
  PROVE  ReaderInv'
<1>1. ASSUME NEW r \in Rank, ReaderStep(r)
      PROVE  ReaderInv'
  <2>1. CASE AssignLocation(r)
    <3>1. PICK mine \in IsMyRecordAnswers(r) : CanAssign(r) /\ ApplyMpiDistribution(r, mine)
      BY <2>1, Zenon DEF AssignLocation
    <3>2. mine \in BOOLEAN
      <4>1. CASE mine \in BOOLEAN
        BY <4>1
      <4>2. CASE mine = (NextRec(r) \in Range(recnums[r]))
        <5>1. CASE NextRec(r) \in Range(recnums[r])
          BY <4>2, <5>1
        <5>2. CASE NextRec(r) \notin Range(recnums[r])
          BY <4>2, <5>2
        <5> QED
          BY <5>1, <5>2
      <4> QED
        BY <4>1, <4>2, Zenon DEF IsMyRecordAnswers
    <3> QED
      BY <3>1, <3>2, AssignStep, Zenon
  <2>2. CASE NoFrameLeft(r)
    BY <2>2, NoFrameLeftStep, Zenon
  <2>3. CASE ReadStep(r)
    BY <2>3, FrameAvailableStep, CheckLocationStep, NumberLocationStep, FinishFrameStep,
       ResizeLocationStep, StoreFrameStep, Zenon DEF ReadStep
  <2> QED
    BY <1>1, <2>1, <2>2, <2>3, Zenon DEF ReaderStep
<1>2. ASSUME UNCHANGED readerVars
      PROVE  ReaderInv'
  <2>1. /\ config' = config
        /\ UNCHANGED <<phase, frame_start, obs_frame, checked, locIndex, gnlocs,
                       gnlocs_outside_timewindow, records, next_rec_num, obs_grouping>>
        /\ UNCHANGED <<applied, calls, indx, recnums, frame_loc_index,
                     adjusted_location_frame_start, known_frame_selections, stored, channels>>
    BY <1>2, Zenon DEF readerVars, frame, locations, numbering, distributed, obsGroup
  <2>2. UNCHANGED <<source, max_frame_size, grouping, applyLocationsCheck>>
    BY <2>1, SourceSame, Zenon
  <2>3. ReaderTypeOK'
    BY <2>1, <2>2, Zenon DEF ReaderInv, ReaderTypeOK
  <2>4. \A r \in Rank : RankInv(r)'
    BY <2>1, OtherRank, Zenon DEF ReaderInv
  <2> QED
    BY <2>3, <2>4, Zenon DEF ReaderInv
<1> QED
  BY <1>1, <1>2, Zenon DEF ReaderNext, ReaderTerminated

\* The inductive invariant of the reader holds however many ranks read a source
\* of whatever size in frames of whatever size.
THEOREM ReaderInvariance == ReaderSpec => []ReaderInv
<1>1. InitReader => ReaderInv
  BY InitReaderInv
<1>2. ReaderInv /\ [ReaderNext]_readerVars => ReaderInv'
  BY ReaderStepInv
<1> QED
  BY <1>1, <1>2, PTL DEF ReaderSpec

\* A rank that is done has seen the whole source.
LEMMA DoneSeenAll ==
  ASSUME ReaderInv, NEW r \in Rank, phase[r] = "done"
  PROVE  /\ Seen(r) = NLocs /\ KeptBelow(Seen(r)) = Kept
         /\ frame_start[r] >= NLocs /\ frame_start[r] >= NChans
<1>t. ReaderTypeOK /\ Progress(r)
  BY Zenon DEF ReaderInv, RankInv
<1>1. ~InFrame(r)
  BY DEF InFrame
<1>2. frame_start[r] \in Nat /\ frame_start[r] >= max_var_size
  BY <1>t, RankTypes, Zenon DEF Progress
<1>3. frame_start[r] >= NLocs /\ frame_start[r] >= NChans
  BY <1>2, SizesAssumption DEF max_var_size
<1>4. Seen(r) = NLocs
  BY <1>1, <1>2, <1>3, SizesAssumption DEF Seen, Lesser
<1>5. \A l \in Kept : l < NLocs
  BY SizesAssumption DEF Kept, Loc
<1> QED
  BY <1>3, <1>4, <1>5, Zenon DEF KeptBelow

\* The invariant says that the calls made are those the source calls for.
LEMMA InvCallsOfSource == ReaderInv => CallsOfSource
<1> SUFFICES ASSUME ReaderInv, NEW r \in Rank
             PROVE  /\ \A i \in DOMAIN calls[r] : /\ calls[r][i].loc \in Kept
                                                  /\ calls[r][i].rec = RecordOf(calls[r][i].loc)
                    /\ \A i, j \in DOMAIN calls[r] : i < j => calls[r][i].loc < calls[r][j].loc
                    /\ \A l \in Kept :
                         \/ \E i \in DOMAIN calls[r] : calls[r][i].loc = l
                         \/ /\ phase[r] # "done"
                            /\ \A i \in DOMAIN calls[r] : calls[r][i].loc < l
  BY Zenon DEF CallsOfSource
<1>t. ReaderTypeOK /\ Progress(r) /\ Called(r)
  BY Zenon DEF ReaderInv, RankInv
<1>1. \A i \in DOMAIN calls[r] : calls[r][i].loc \in Kept /\ calls[r][i].loc < Seen(r)
  BY <1>t, Zenon DEF Called, KeptBelow
<1>2. ASSUME NEW l \in Kept, ~\E i \in DOMAIN calls[r] : calls[r][i].loc = l
      PROVE  phase[r] # "done" /\ \A i \in DOMAIN calls[r] : calls[r][i].loc < l
  <2>1. CASE l \in KeptBelow(Seen(r))
    <3>1. PICK j \in applied[r] + 1 .. Len(locIndex[r]) : locIndex[r][j] = l
      BY <2>1, <1>2, <1>t, Zenon DEF Called
    <3>2. \A i \in DOMAIN calls[r] : calls[r][i].loc < l
      BY <3>1, <1>t, Zenon DEF Called
    <3>3. phase[r] # "done"
      <4> SUFFICES ASSUME phase[r] = "done"
                   PROVE  FALSE
        OBVIOUS
      <4>1. phase[r] # "read"
        OBVIOUS
      <4>2. applied[r] = Len(locIndex[r]) /\ Len(locIndex[r]) \in Nat
        BY <4>1, <1>t, RankLengths, Zenon DEF Progress
      <4> QED
        BY <4>2, <3>1
    <3> QED
      BY <3>2, <3>3
  <2>2. CASE l \notin KeptBelow(Seen(r))
    <3>1. ~(l < Seen(r)) /\ phase[r] # "done"
      BY <2>2, DoneSeenAll, Zenon DEF KeptBelow
    <3>2. Seen(r) \in Nat /\ l \in Nat /\ \A i \in DOMAIN calls[r] : calls[r][i].loc \in Nat
      BY <1>t, SeenType, KeptLocations, RankLengths, Zenon
    <3>3. \A x, y, s \in Nat : x < s /\ ~(y < s) => x < y
      OBVIOUS
    <3> QED
      BY <3>1, <3>2, <3>3, <1>1, Zenon
  <2> QED
    BY <2>1, <2>2
<1> QED
  BY <1>1, <1>2, <1>t, Zenon DEF Called

\* The invariant says that the counts are those of the source.
LEMMA InvCountsOfSource == ReaderInv => CountsOfSource
<1> SUFFICES ASSUME ReaderInv, NEW r \in Rank, phase[r] = "done"
             PROVE  /\ gnlocs[r] = Cardinality(Kept)
                    /\ gnlocs_outside_timewindow[r] =
                         Cardinality({l \in Loc : /\ applyLocationsCheck
                                                  /\ ~(WindowStart < source[l].time
                                                       /\ source[l].time <= WindowEnd)})
  BY Zenon DEF CountsOfSource
<1>1. Seen(r) = NLocs /\ KeptBelow(Seen(r)) = Kept
  BY DoneSeenAll, Zenon
<1>2. \A l \in Loc : l < NLocs
  BY SizesAssumption DEF Loc
<1>3. OutsideBelow(Seen(r)) = {l \in Loc : /\ applyLocationsCheck
                                           /\ ~(WindowStart < source[l].time
                                                /\ source[l].time <= WindowEnd)}
  BY <1>1, <1>2, Zenon DEF OutsideBelow
<1>4. CountedRows(r)
  BY Zenon DEF ReaderInv, RankInv
<1> QED
  BY <1>1, <1>3, <1>4, Zenon DEF CountedRows

\* However the source is cut into frames, every rank offers its locations to the
\* distribution once, in order and with the numbers of their records, and counts
\* them once (frameAvailable and the functions it calls).
THEOREM SourceIsReadOnce == ReaderSpec => []SourceReadOnce
<1>1. ReaderInv => SourceReadOnce
  BY InvCallsOfSource, InvCountsOfSource DEF SourceReadOnce
<1> QED
  BY <1>1, ReaderInvariance, PTL

\* The invariant says that the rows stored are those of the locations kept.
LEMMA InvStoredInPlace == ReaderInv => StoredInPlace
<1> SUFFICES ASSUME ReaderInv, NEW r \in Rank,
                    (phase[r] = "frame" /\ frame_start[r] > 0) \/ phase[r] = "done"
             PROVE  stored[r] = indx[r] /\ adjusted_location_frame_start[r] = Len(indx[r])
  BY Zenon DEF StoredInPlace
<1>1. ReaderTypeOK /\ StoredRows(r)
  BY Zenon DEF ReaderInv, RankInv
<1>2. ~InFrame(r) /\ phase[r] # "store"
  BY DEF InFrame
<1>3. /\ adjusted_location_frame_start[r] = Len(indx[r])
      /\ Len(stored[r]) = adjusted_location_frame_start[r]
      /\ \A i \in 1 .. adjusted_location_frame_start[r] : stored[r][i] = indx[r][i]
  BY <1>1, <1>2, Zenon DEF StoredRows
<1>4. stored[r] = [i \in 1 .. Len(stored[r]) |-> stored[r][i]]
      /\ indx[r] = [i \in 1 .. Len(indx[r]) |-> indx[r][i]]
  <2>1. stored[r] \in Seq(Loc \cup {Fill}) /\ indx[r] \in Seq(Loc)
    BY <1>1, RankTypes, Zenon
  <2> QED
    BY <2>1
<1> QED
  BY <1>3, <1>4, Zenon

\* However the source is cut into frames, obs_group holds after each frame the rows
\* of this rank's locations, in the order of indx, and in the end the variables
\* without Location whole (resizeLocation, readObsSource, storeVar).
THEOREM VariablesAreStoredWhole == ReaderSpec => []StoredWhole
<1>1. ReaderInv => StoredInPlace
  BY InvStoredInPlace
<1>2. ReaderInv => ChannelsComplete
  <2> SUFFICES ASSUME ReaderInv, NEW r \in Rank, phase[r] = "done"
               PROVE  channels[r] = [c \in Chan |-> c]
    BY Zenon DEF ChannelsComplete
  <2>1. ReaderTypeOK /\ ChannelRows(r)
    BY Zenon DEF ReaderInv, RankInv
  <2>2. channels[r] \in [Chan -> Chan \cup {Fill}] /\ frame_start[r] \in Nat
        /\ frame_start[r] >= NChans
    BY <2>1, RankTypes, DoneSeenAll, Zenon
  <2>3. \A c \in Chan : c < frame_start[r]
    BY <2>2, SizesAssumption DEF Chan
  <2>4. \A c \in Chan : channels[r][c] = c
    BY <2>1, <2>3, Zenon DEF ChannelRows
  <2> QED
    BY <2>2, <2>4, Zenon
<1>3. ReaderInv => StoredWhole
  BY <1>1, <1>2, Zenon DEF StoredWhole, ReaderInv
<1> QED
  BY <1>3, ReaderInvariance, PTL
=============================================================================
