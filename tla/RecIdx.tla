--------------------------------- MODULE RecIdx ---------------------------------
(***************************************************************************)
(* The record index recidx_ of an ObsSpace (src/ObsSpace.cc) on one rank:  *)
(* which locations make up each record, in which order.  It is built once  *)
(* the frames are read, sorted by a variable or not, and extended with the *)
(* companion records of extendObsSpace, which extendVariable fills in.     *)
(*                                                                         *)
(* A state s of the ObsSpace has recnums (the record number of each        *)
(* location), sortValues, treatment (missingSortValueTreatment, or         *)
(* "unsorted": no sort variable), order (obs_sort_order), levels           *)
(* (companionRecordLength), originalRecs                                   *)
(* (upperBoundOnGlobalNumOriginalRecs), varVals (a variable of             *)
(* nonMissingExtendedVars), nrecs and recidx.  Locations are numbered from *)
(* 1 (from 0 in the code).                                                 *)
(***************************************************************************)
EXTENDS Calls, FiniteSetsExt

\* util::missingValue(float()), below every value of a variable
MissingFloat == -1

\* initFromObsSource: what the constructor has once the frames are read
afterRead(q) == [nrecs |-> Cardinality(Range(q.recnums)), recidx |-> <<>>] @@ q

-----------------------------------------------------------------------------

\* The locations of a record, in the order in which they were read
LocsOf(s, rec) == SelectSeq([i \in DOMAIN s.recnums |-> i], LAMBDA i : s.recnums[i] = rec)

SortValueMissing(s, i) == s.sortValues[i] = MissingFloat

\* The locations of a record whose sort value is present
WithSortValue(s, rec) == SelectSeq(LocsOf(s, rec), LAMBDA i : ~SortValueMissing(s, i))

\* The comparisons of pairs {sort value, location} in the two sorts
SortsBefore(s, i, j) ==
  IF s.order = "ascending"
  THEN s.sortValues[i] < s.sortValues[j] \/ (s.sortValues[i] = s.sortValues[j] /\ i < j)
  ELSE s.sortValues[j] < s.sortValues[i] \/ (s.sortValues[j] = s.sortValues[i] /\ i < j)

Sorted(s, locs) == SortSeq(locs, LAMBDA i, j : SortsBefore(s, i, j))

\* The locations without a sort value are left out of the record
SortedPresent(s, rec) == Sorted(s, WithSortValue(s, rec))

\* IGNORE_MISSING: locations without a sort value stay where they are in the
\* record, the others are sorted into the places that remain
SortedAroundMissing(s, rec) ==
  LET locs == LocsOf(s, rec)
      sorted == Sorted(s, WithSortValue(s, rec))
      countPresent(k) == Cardinality({j \in 1 .. k : ~SortValueMissing(s, locs[j])})
  IN [k \in DOMAIN locs |-> IF SortValueMissing(s, locs[k]) THEN locs[k] ELSE sorted[countPresent(k)]]

\* The entry of a record, by treatment
Entry(s, rec) ==
  CASE s.treatment = "unsorted" -> LocsOf(s, rec)
    [] s.treatment = "SORT" -> Sorted(s, LocsOf(s, rec))
    [] s.treatment = "NO_SORT" -> IF WithSortValue(s, rec) = LocsOf(s, rec) THEN Sorted(s, LocsOf(s, rec))
                                  ELSE LocsOf(s, rec)
    [] s.treatment = "IGNORE_MISSING" -> SortedAroundMissing(s, rec)

\* The keys of TmpRecIdx: with IGNORE_MISSING, only locations that have a sort
\* value create one
TmpRecs(s) ==
  {rec \in Range(s.recnums) : s.treatment = "IGNORE_MISSING" => WithSortValue(s, rec) # <<>>}

\* buildSortedObsGroups, or buildRecIdxUnsorted
buildRecIdx(s) == [s EXCEPT !.recidx = [rec \in TmpRecs(s) |-> Entry(s, rec)]]

-----------------------------------------------------------------------------

\* The local original records, in the order in which extendObsSpace goes
\* through them
uniqueOriginalRecs(s) == SetToSortSeq(Range(s.recnums), <)

\* One companion record of s.levels locations for each original record, behind
\* the original locations; variables grow, filled with missing
extendObsSpace(s) ==
  LET recs == uniqueOriginalRecs(s)
      n == Len(s.recnums)
      companion(j) == s.originalRecs + recs[(j - 1) \div s.levels + 1]
      size == Len(recs) * s.levels
  IN [s EXCEPT
        !.recnums = @ \o [j \in 1 .. size |-> companion(j)],
        !.recidx = [c \in {s.originalRecs + recs[k] : k \in DOMAIN recs} |->
                      SelectSeq([j \in 1 .. size |-> n + j], LAMBDA i : companion(i - n) = c)] @@ @,
        !.nrecs = @ + Len(recs),
        !.varVals = @ \o [j \in 1 .. size |-> MissingFloat]]

\* The first value of the variable along locs that is not missing, if any
FirstPresent(s, locs) ==
  LET present == SelectSeq(locs, LAMBDA i : s.varVals[i] # MissingFloat)
  IN IF present = <<>> THEN MissingFloat ELSE s.varVals[present[1]]

\* The order of the file decides, not that of the record
fillValue_ReadOrder(s, rec) == FirstPresent(s, LocsOf(s, rec))

\* fillValue for a record of recidx
fillValue(s, rec) == FirstPresent(s, s.recidx[rec])

\* The original records of recidx that have a value to fill in
FilledRecords(s) ==
  {rec \in DOMAIN s.recidx : rec < s.originalRecs /\ fillValue(s, rec) # MissingFloat}

extendVariable(s) ==
  [s EXCEPT !.varVals =
     [i \in DOMAIN s.varVals |->
        IF s.recnums[i] - s.originalRecs \in FilledRecords(s)
        THEN fillValue(s, s.recnums[i] - s.originalRecs) ELSE s.varVals[i]]]

\* The index as it is built, extended and used to fill the variable
indexRecords(q) ==
  LET built == buildRecIdx(afterRead(q))
      extended == extendObsSpace(built)
  IN Done([built |-> built, extended |-> extended, filled |-> extendVariable(extended)])

-----------------------------------------------------------------------------

Stages == {out.val.built, out.val.extended, out.val.filled}

\* Walking a record of recidx_ visits each of its locations exactly once,
\* whatever the sort does with missing values, and an original record is left
\* out only by IGNORE_MISSING (ObsSpace::buildSortedObsGroups, extendObsSpace);
\* nrecs counts the records of recnums.
IndexPartition(s) ==
  /\ \A rec \in DOMAIN s.recidx :
       /\ IsInjective(s.recidx[rec])
       /\ s.recidx[rec] # <<>>
       /\ Range(s.recidx[rec]) = {i \in DOMAIN s.recnums : s.recnums[i] = rec}
  /\ DOMAIN s.recidx \subseteq Range(s.recnums)
  /\ s.treatment # "IGNORE_MISSING" => DOMAIN s.recidx = Range(s.recnums)
  /\ s.nrecs = Cardinality(Range(s.recnums))
  /\ Len(s.varVals) = Len(s.recnums)

\* In an original record, two locations whose sort values are present (with
\* SORT: any two) come in the order asked for, equal values in the order of the
\* file.  A record that NO_SORT leaves alone, and every location that
\* IGNORE_MISSING passes over, is where it was in the file.
SortedRecords(s) ==
  \A rec \in {q \in DOMAIN s.recidx : q < s.originalRecs} :
    LET idx == s.recidx[rec]
        value(k) == s.sortValues[idx[k]]
        whole == \A k \in DOMAIN idx : value(k) # MissingFloat
        sorts(k) ==
          \/ s.treatment = "SORT"
          \/ s.treatment = "NO_SORT" /\ whole
          \/ s.treatment = "IGNORE_MISSING" /\ value(k) # MissingFloat
    IN /\ \A j, k \in DOMAIN idx : (j < k /\ sorts(j) /\ sorts(k)) =>
            CASE value(j) = value(k) -> idx[j] < idx[k]
              [] s.order = "ascending" -> value(j) <= value(k)
              [] s.order = "descending" -> value(j) >= value(k)
       /\ \A k \in DOMAIN idx : ~sorts(k) => idx[k] = LocsOf(s, rec)[k]

\* recidx_all_recnums: a vector of nrecs entries, zeros behind the last key
recidx_all_recnums(s) ==
  LET keys == SetToSortSeq(DOMAIN s.recidx, <)
  IN [k \in 1 .. s.nrecs |-> IF k <= Len(keys) THEN keys[k] ELSE 0]

\* recidx_all_recnums returns "all record numbers from the recidx_ data member"
\* before and after the extension, in ascending order and each once, although its
\* length comes from nrecs_; zeros follow them only when IGNORE_MISSING has left
\* records out.
RecnumsOfRecidx(s) ==
  LET all == recidx_all_recnums(s)
      listed == SubSeq(all, 1, Cardinality(DOMAIN s.recidx))
  IN /\ Range(listed) = DOMAIN s.recidx
     /\ \A j, k \in DOMAIN listed : j < k => listed[j] < listed[k]
     /\ Len(all) > Len(listed) => s.treatment = "IGNORE_MISSING"

\* Once extended and filled, every location of a companion holds the value of
\* the first location of its original record, in the order of the sorted record,
\* that has one; values of original locations are the ones that were read
\* (ObsSpace::extendVariable).
FilledFromRecord(s) ==
  /\ SubSeq(s.varVals, 1, Len(call.q.varVals)) = call.q.varVals
  /\ \A rec \in {q \in DOMAIN s.recidx : q < s.originalRecs} :
       \A c \in Range(s.recidx[rec + s.originalRecs]) :
         IF \A i \in Range(s.recidx[rec]) : s.varVals[i] = MissingFloat
         THEN s.varVals[c] = MissingFloat
         ELSE \E k \in DOMAIN s.recidx[rec] :
                /\ s.varVals[c] = s.varVals[s.recidx[rec][k]]
                /\ s.varVals[c] # MissingFloat
                /\ \A j \in 1 .. k - 1 : s.varVals[s.recidx[rec][j]] = MissingFloat

\* Every companion of a record with a value is filled (extendVariable: "Fill the
\* companion record with the first non-missing value in the original record"), but
\* for the companions of the records that IGNORE_MISSING leaves out of recidx_
\* because all their sort values are missing.
CompanionsFilled(s) ==
  \A i, c \in DOMAIN s.recnums :
    s.recnums[c] = s.recnums[i] + s.originalRecs /\ s.varVals[i] # MissingFloat =>
      \/ s.varVals[c] # MissingFloat
      \/ /\ s.treatment = "IGNORE_MISSING"
         /\ \A j \in DOMAIN s.sortValues : s.recnums[j] = s.recnums[i] => s.sortValues[j] = MissingFloat

\* The record index is what a loop over records relies on, once built and once
\* extended: it divides the locations among the records, each record is in the
\* order asked for, and recidx_all_recnums lists its keys (buildSortedObsGroups,
\* extendObsSpace).
RecordIndexRight ==
  Returned("records") => \A s \in Stages : IndexPartition(s) /\ SortedRecords(s) /\ RecnumsOfRecidx(s)

\* A companion record has a value if its original has one, and it is the first
\* one of the sorted original (extendVariable).
CompanionsRight ==
  Returned("records") => FilledFromRecord(out.val.filled) /\ CompanionsFilled(out.val.filled)
=============================================================================
