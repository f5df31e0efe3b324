-------------------------- MODULE NonoverlappingProofs --------------------------
(***************************************************************************)
(* Proofs about the RoundRobin and Atlas distributions, for any number of  *)
(* ranks and locations and any mesh: records are assigned in consecutive   *)
(* order, every location is placed once, and both implement Distribution.  *)
(***************************************************************************)
EXTENDS Nonoverlapping, VectorProofs

-----------------------------------------------------------------------------
(* The first call for a record *)

\* FirstCall is the position of the first call for the record of any call.
LEMMA FirstCallIsFirst ==
  ASSUME calls \in Seq(D!Call), NEW i \in DOMAIN calls
  PROVE  /\ FirstCall(calls[i].rec) \in 1 .. i
         /\ calls[FirstCall(calls[i].rec)].rec = calls[i].rec
<1> DEFINE c == calls[i].rec
           S == {j \in DOMAIN calls : calls[j].rec = c}
<1>1. S \subseteq Nat /\ i \in S
  OBVIOUS
<1>2. PICK j \in S : \A k \in S : j <= k
  BY <1>1, LeastElement, Zenon
<1>3. j \in DOMAIN calls /\ calls[j].rec = c /\ \A k \in 1 .. j - 1 : calls[k].rec # c
  BY <1>2
<1>4. /\ FirstCall(c) \in DOMAIN calls
      /\ calls[FirstCall(c)].rec = c
      /\ \A k \in 1 .. FirstCall(c) - 1 : calls[k].rec # c
  BY <1>3, Zenon DEF FirstCall
<1> QED
  BY <1>4

\* The record and the location of a call, and the rank the record belongs to.
LEMMA CallTypes ==
  ASSUME Types, NEW i \in DOMAIN calls
  PROVE  /\ calls[i] \in D!Call /\ calls[i].rec \in Rec /\ calls[i].loc \in Loc
         /\ calls[i].rec \in Nat /\ calls[i].loc \in Nat
         /\ PlaceOf(calls[i].rec) \in Rank
<1>1. calls \in Seq(D!Call) /\ partition \in [Loc -> Rank]
  BY Zenon DEF Types
<1>2. \A j \in DOMAIN calls : calls[j] \in D!Call
  BY <1>1
<1>3. \A j \in DOMAIN calls : calls[j].rec \in Rec /\ calls[j].loc \in Loc
  BY <1>2 DEF D!Call, D!Rec, D!Loc, Rec, Loc
<1>4. FirstCall(calls[i].rec) \in DOMAIN calls
  BY <1>1, FirstCallIsFirst
<1>5. partition[calls[FirstCall(calls[i].rec)].loc] \in Rank
  BY <1>1, <1>3, <1>4, Zenon
<1>6. calls[i].rec \in Nat /\ calls[i].loc \in Nat
  BY <1>3, NLocsAssumption DEF Rec, Loc
<1>7. calls[i].rec % NRanks \in Rank
  BY <1>6, NRanksAssumption DEF Rank
<1> QED
  BY <1>2, <1>3, <1>5, <1>6, <1>7, Zenon DEF PlaceOf

\* Two calls for the same location are the same call.
LEMMA OneCallPerLocation ==
  ASSUME Types, Offered, NEW i \in DOMAIN calls, NEW j \in DOMAIN calls,
         calls[i].loc = calls[j].loc
  PROVE  i = j
<1>1. calls \in Seq(D!Call) /\ calls[i].loc \in Nat
  BY CallTypes DEF Types
<1> QED
  BY <1>1 DEF Offered

\* Calls made are calls.
LEMMA CallsMade ==
  ASSUME Types, NEW r \in Rank
  PROVE  /\ pos[r] \in Nat /\ pos[r] <= Len(calls)
         /\ \A i \in 1 .. pos[r] : i \in DOMAIN calls
         /\ pos[r] < Len(calls) => pos[r] + 1 \in DOMAIN calls
<1>1. calls \in Seq(D!Call) /\ pos[r] \in 0 .. Len(calls)
  BY Zenon DEF Types
<1> QED
  BY <1>1

-----------------------------------------------------------------------------
(* assignRecord *)

\* The call that rank r makes next
NextCall(r) == calls[pos[r] + 1]

\* RecordAssigner's ASSERT holds for the next call of every rank.
LEMMA NextRecordInOrder ==
  ASSUME Types, Offered, Counted, name = "Atlas", NEW r \in Rank, pos[r] < Len(calls)
  PROVE  NextCall(r).rec <= nextRecordToAssign[r]
<1> DEFINE p == pos[r] + 1
<1>1. p \in DOMAIN calls /\ pos[r] \in Nat /\ \A i \in 1 .. pos[r] : i \in DOMAIN calls
  BY CallsMade
<1>2. calls[p].rec \in Nat /\ nextRecordToAssign[r] \in Nat
  BY <1>1, CallTypes DEF Types
<1>3. calls[p].rec = 0 \/ \E j \in 1 .. p - 1 : calls[j].rec \in {calls[p].rec, calls[p].rec - 1}
  BY <1>1, Zenon DEF Offered
<1>4. \A j \in 1 .. p - 1 : calls[j].rec < nextRecordToAssign[r]
  BY <1>1 DEF Counted
<1>5. CASE calls[p].rec = 0
  BY <1>2, <1>5 DEF NextCall
<1>6. ASSUME NEW j \in 1 .. p - 1, calls[j].rec \in {calls[p].rec, calls[p].rec - 1}
      PROVE  calls[p].rec <= nextRecordToAssign[r]
  <2>1. calls[j].rec < nextRecordToAssign[r]
    BY <1>4, Zenon
  <2> QED
    BY <1>2, <1>6, <2>1
<1> QED
  BY <1>3, <1>5, <1>6, Zenon DEF NextCall

\* What RecordAssigner does for the next call of an Atlas distribution: a record
\* not seen before belongs to the rank whose partition contains the location.
LEMMA AtlasAssigns ==
  ASSUME IInv, name = "Atlas", NEW r \in Rank, AssignRecord(r)
  PROVE  LET rec == NextCall(r).rec IN
         /\ \A q \in Rank : q # r => myRecords'[q] = myRecords[q]
                                      /\ nextRecordToAssign'[q] = nextRecordToAssign[q]
         /\ rec \in myRecords'[r] <=> PlaceOf(rec) = r
         /\ \/ /\ rec = nextRecordToAssign[r]
               /\ nextRecordToAssign'[r] = nextRecordToAssign[r] + 1
               /\ myRecords'[r] \subseteq myRecords[r] \cup {rec}
               /\ myRecords[r] \subseteq myRecords'[r]
            \/ /\ rec < nextRecordToAssign[r]
               /\ nextRecordToAssign'[r] = nextRecordToAssign[r]
               /\ myRecords'[r] = myRecords[r]
<1> DEFINE c == NextCall(r)
           p == pos[r] + 1
<1>t. Types /\ Offered /\ Counted /\ Decided
  BY Zenon DEF IInv
<1>0. p \in DOMAIN calls /\ pos[r] \in Nat /\ \A i \in 1 .. pos[r] : i \in DOMAIN calls
  BY <1>t, CallsMade, Zenon DEF AssignRecord
<1>1. c = calls[p] /\ c.rec \in Nat /\ c.loc \in Loc /\ c.rec \in Rec
  BY <1>0, <1>t, CallTypes, Zenon DEF NextCall
<1>2. AssignInMesh(r, c.rec, c.loc)
  BY Zenon DEF AssignRecord, NextCall
<1>3. /\ myRecords \in [Rank -> SUBSET Rec] /\ nextRecordToAssign \in [Rank -> Nat]
      /\ calls \in Seq(D!Call)
  BY <1>t, Zenon DEF Types
<1>4. CASE AssignNextRecord(r, c.rec, c.loc)
  <2>1. /\ c.rec = nextRecordToAssign[r]
        /\ myRecords' = [myRecords EXCEPT ![r] = IF partition[c.loc] = r THEN @ \cup {c.rec} ELSE @]
        /\ nextRecordToAssign' = [nextRecordToAssign EXCEPT ![r] = @ + 1]
    BY <1>4, Zenon DEF AssignNextRecord
  <2>2. FirstCall(c.rec) = p
    <3>1. FirstCall(c.rec) \in 1 .. p /\ calls[FirstCall(c.rec)].rec = c.rec
      BY <1>0, <1>1, <1>3, FirstCallIsFirst
    <3>2. \A i \in 1 .. pos[r] : calls[i].rec < c.rec
      BY <1>t, <2>1, Zenon DEF Counted
    <3>3. FirstCall(c.rec) \notin 1 .. pos[r]
      BY <3>1, <3>2, <1>1
    <3> QED
      BY <3>1, <3>3, <1>0
  <2>3. PlaceOf(c.rec) = partition[c.loc]
    BY <2>2, <1>1, name = "Atlas" DEF PlaceOf
  <2>4. c.rec \notin myRecords[r]
    <3>1. \A d \in myRecords[r] : d < c.rec
      BY <1>t, <2>1, Zenon DEF Decided
    <3> QED
      BY <3>1, <1>1
  <2> HIDE DEF c
  <2> QED
    BY <2>1, <2>3, <2>4, <1>3 DEF c
<1>5. CASE c.rec < nextRecordToAssign[r] /\ UNCHANGED assigner
  <2>1. myRecords' = myRecords /\ nextRecordToAssign' = nextRecordToAssign
    BY <1>5, Zenon DEF assigner
  <2>2. PICK i \in 1 .. pos[r] : calls[i].rec = c.rec
    <3>1. c.rec \in 0 .. nextRecordToAssign[r] - 1
      BY <1>5, <1>1, <1>3
    <3> QED
      BY <3>1, <1>t, Zenon DEF Counted
  <2>3. c.rec \in myRecords[r] <=> PlaceOf(c.rec) = r
    BY <2>2, <1>t, Zenon DEF Decided
  <2> QED
    BY <2>1, <2>3, <1>5, Zenon
<1> QED
  BY <1>2, <1>4, <1>5, name = "Atlas", Zenon DEF AssignInMesh

\* isMyRecord answers for the next call as PlaceOf says, on every rank.
LEMMA IsMyRecordIsPlace ==
  ASSUME IInv, NEW r \in Rank, AssignRecord(r)
  PROVE  IsMyRecord(r, NextCall(r).rec, myRecords'[r]) <=> PlaceOf(NextCall(r).rec) = r
<1>1. CASE name = "RoundRobin"
  BY <1>1, Zenon DEF IsMyRecord, PlaceOf
<1>2. CASE name # "RoundRobin"
  <2>1. name = "Atlas"
    BY <1>2, Zenon DEF IInv, Types
  <2> QED
    BY <1>2, <2>1, AtlasAssigns, Zenon DEF IsMyRecord
<1> QED
  BY <1>1, <1>2, Zenon

\* The rank a record belongs to only depends on the input.
LEMMA PlaceUnchanged ==
  ASSUME UNCHANGED <<calls, name, partition>>
  PROVE  \A c : PlaceOf(c)' = PlaceOf(c)
<1>1. \A c : FirstCall(c)' = FirstCall(c)
  BY Zenon DEF FirstCall
<1> QED
  BY <1>1, Zenon DEF PlaceOf

\* What assignRecord does to the caller's vectors.
LEMMA AssignRecordEffect ==
  ASSUME IInv, NEW r \in Rank, AssignRecord(r)
  PROVE  LET mine == PlaceOf(NextCall(r).rec) = r IN
         /\ pc[r] = "assign" /\ pos[r] < Len(calls) /\ pos' = [pos EXCEPT ![r] = @ + 1]
         /\ UNCHANGED <<calls, name, partition, pc>>
         /\ indx' = IF mine THEN [indx EXCEPT ![r] = Append(@, NextCall(r).loc)] ELSE indx
         /\ recnums' = IF mine THEN [recnums EXCEPT ![r] = Append(@, NextCall(r).rec)] ELSE recnums
<1> DEFINE c == NextCall(r)
           is == IsMyRecord(r, c.rec, myRecords'[r])
<1>1. is <=> PlaceOf(c.rec) = r
  BY IsMyRecordIsPlace, Zenon
<1>2. /\ indx' = IF is THEN [indx EXCEPT ![r] = Append(@, c.loc)] ELSE indx
      /\ recnums' = IF is THEN [recnums EXCEPT ![r] = Append(@, c.rec)] ELSE recnums
  BY Zenon DEF AssignRecord, NextCall
<1>3. /\ pc[r] = "assign" /\ pos[r] < Len(calls) /\ pos' = [pos EXCEPT ![r] = @ + 1]
      /\ UNCHANGED <<calls, name, partition, pc>>
  BY Zenon DEF AssignRecord
<1> HIDE DEF is
<1> QED
  BY <1>1, <1>2, <1>3, Zenon

\* assignRecord preserves the types.
LEMMA AssignRecordTypes ==
  ASSUME IInv, NEW r \in Rank, AssignRecord(r)
  PROVE  Types'
<1>t. Types
  BY Zenon DEF IInv
<1>e. /\ pos[r] < Len(calls) /\ pos' = [pos EXCEPT ![r] = @ + 1]
      /\ UNCHANGED <<calls, name, partition, pc>>
  BY AssignRecordEffect, Zenon
<1>0. pos[r] + 1 \in DOMAIN calls /\ pos[r] \in Nat
  BY <1>t, <1>e, CallsMade, Zenon
<1>1. NextCall(r).rec \in Rec /\ NextCall(r).loc \in Loc
  BY <1>0, <1>t, CallTypes, Zenon DEF NextCall
<1>2. indx' \in [Rank -> Seq(Loc)]
  <2>1. indx' = [indx EXCEPT ![r] = Append(@, NextCall(r).loc)] \/ indx' = indx
    BY AssignRecordEffect, Zenon
  <2>2. indx \in [Rank -> Seq(Loc)] /\ indx[r] \in Seq(Loc)
    BY <1>t, Zenon DEF Types
  <2>3. Append(indx[r], NextCall(r).loc) \in Seq(Loc)
    BY <2>2, <1>1
  <2> QED
    BY <2>1, <2>2, <2>3, Zenon
<1>3. recnums' \in [Rank -> Seq(Rec)]
  <2>1. recnums' = [recnums EXCEPT ![r] = Append(@, NextCall(r).rec)] \/ recnums' = recnums
    BY AssignRecordEffect, Zenon
  <2>2. recnums \in [Rank -> Seq(Rec)] /\ recnums[r] \in Seq(Rec)
    BY <1>t, Zenon DEF Types
  <2>3. Append(recnums[r], NextCall(r).rec) \in Seq(Rec)
    BY <2>2, <1>1
  <2> QED
    BY <2>1, <2>2, <2>3, Zenon
<1>4. pos' \in [Rank -> 0 .. Len(calls)]
  BY <1>t, <1>e, <1>0 DEF Types
<1>5. myRecords' \in [Rank -> SUBSET Rec] /\ nextRecordToAssign' \in [Rank -> Nat]
  <2>1. AssignInMesh(r, NextCall(r).rec, NextCall(r).loc)
    BY Zenon DEF AssignRecord, NextCall
  <2>2. CASE UNCHANGED assigner
    BY <2>2, <1>t, Zenon DEF assigner, Types
  <2>3. CASE AssignNextRecord(r, NextCall(r).rec, NextCall(r).loc)
    BY <2>3, <1>1, <1>t DEF AssignNextRecord, Types
  <2> QED
    BY <2>1, <2>2, <2>3, Zenon DEF AssignInMesh
<1> QED
  BY <1>t, <1>e, <1>2, <1>3, <1>4, <1>5, Zenon DEF Types

\* assignRecord preserves what RecordAssigner knows.
LEMMA AssignRecordCounts ==
  ASSUME IInv, NEW r \in Rank, AssignRecord(r)
  PROVE  Counted' /\ Decided'
<1>t. Types /\ Counted /\ Decided
  BY Zenon DEF IInv
<1>e. /\ pos[r] < Len(calls) /\ pos' = [pos EXCEPT ![r] = @ + 1]
      /\ UNCHANGED <<calls, name, partition>>
  BY AssignRecordEffect, Zenon
<1>p. \A c : PlaceOf(c)' = PlaceOf(c)
  BY <1>e, PlaceUnchanged, Zenon
<1> SUFFICES ASSUME name = "Atlas", NEW q \in Rank
             PROVE  /\ \A i \in 1 .. pos'[q] : calls[i].rec < nextRecordToAssign'[q]
                    /\ \A c \in 0 .. nextRecordToAssign'[q] - 1 :
                         \E i \in 1 .. pos'[q] : calls[i].rec = c
                    /\ \A c \in myRecords'[q] : c < nextRecordToAssign'[q]
                    /\ \A i \in 1 .. pos'[q] :
                         calls[i].rec \in myRecords'[q] <=> PlaceOf(calls[i].rec) = q
  BY <1>e, <1>p, ZenonT(60) DEF Counted, Decided
<1> DEFINE n == nextRecordToAssign[q]
           rec == NextCall(r).rec
<1>1. /\ \A i \in 1 .. pos[q] : calls[i].rec < n
      /\ \A c \in 0 .. n - 1 : \E i \in 1 .. pos[q] : calls[i].rec = c
      /\ \A c \in myRecords[q] : c < n
      /\ \A i \in 1 .. pos[q] : calls[i].rec \in myRecords[q] <=> PlaceOf(calls[i].rec) = q
  BY <1>t, name = "Atlas", Zenon DEF Counted, Decided
<1>2. CASE q # r
  <2>1. pos'[q] = pos[q]
    BY <1>2, <1>e, <1>t DEF Types
  <2>2. myRecords'[q] = myRecords[q] /\ nextRecordToAssign'[q] = n
    BY <1>2, AtlasAssigns, name = "Atlas", Zenon
  <2> QED
    BY <2>1, <2>2, <1>1, Zenon
<1>3. CASE q = r
  <2>0. /\ pos[r] \in Nat /\ pos[r] + 1 \in DOMAIN calls /\ n \in Nat
        /\ \A i \in 1 .. pos[r] : i \in DOMAIN calls
    BY <1>t, <1>e, CallsMade DEF Types
  <2>1. pos'[r] = pos[r] + 1
    BY <1>e, <1>t DEF Types
  <2>2. rec = calls[pos[r] + 1].rec /\ rec \in Nat
    BY <2>0, <1>t, CallTypes, Zenon DEF NextCall
  <2>3. \A i \in 1 .. pos[r] : calls[i].rec \in Nat
    BY <2>0, <1>t, CallTypes, Zenon
  <2>4. myRecords[r] \subseteq Nat
    BY <1>t, NLocsAssumption DEF Types, Rec, Loc
  <2>5. rec \in myRecords'[r] <=> PlaceOf(rec) = r
    BY AtlasAssigns, name = "Atlas", Zenon
  <2>6. CASE /\ rec = n /\ nextRecordToAssign'[r] = n + 1
             /\ myRecords'[r] \subseteq myRecords[r] \cup {rec} /\ myRecords[r] \subseteq myRecords'[r]
    <3>0. calls[pos[r] + 1].rec = n
      BY <2>2, <2>6, Zenon
    <3> HIDE DEF n, rec
    <3>1. \A i \in 1 .. pos'[r] : calls[i].rec < n + 1
      BY <2>0, <2>1, <2>3, <3>0, <1>1, <1>3
    <3>2. \A c \in 0 .. n : \E i \in 1 .. pos'[r] : calls[i].rec = c
      <4> SUFFICES ASSUME NEW c \in 0 .. n PROVE \E i \in 1 .. pos'[r] : calls[i].rec = c
        OBVIOUS
      <4>1. CASE c = n
        BY <4>1, <3>0, <2>0, <2>1
      <4>2. CASE c # n
        <5>1. c \in 0 .. n - 1
          BY <4>2, <2>0
        <5>2. PICK i \in 1 .. pos[r] : calls[i].rec = c
          BY <5>1, <1>1, <1>3, Zenon
        <5>3. i \in 1 .. pos'[r]
          BY <2>0, <2>1
        <5> QED
          BY <5>2, <5>3, Zenon
      <4> QED
        BY <4>1, <4>2, Zenon
    <3>3. \A c \in myRecords'[r] : c < n + 1
      BY <2>0, <2>2, <2>4, <2>6, <1>1, <1>3
    <3>4. \A i \in 1 .. pos'[r] : calls[i].rec \in myRecords'[r] <=> PlaceOf(calls[i].rec) = r
      <4> SUFFICES ASSUME NEW i \in 1 .. pos'[r]
                   PROVE  calls[i].rec \in myRecords'[r] <=> PlaceOf(calls[i].rec) = r
        OBVIOUS
      <4>1. CASE i = pos[r] + 1
        BY <4>1, <2>2, <2>5, Zenon
      <4>2. CASE i \in 1 .. pos[r]
        <5>1. calls[i].rec < n /\ calls[i].rec \in Nat
          BY <4>2, <1>1, <1>3, <2>3, Zenon
        <5>2. calls[i].rec # rec
          BY <5>1, <2>6, <2>0
        <5>3. calls[i].rec \in myRecords[r] <=> PlaceOf(calls[i].rec) = r
          BY <4>2, <1>1, <1>3, Zenon
        <5> QED
          BY <5>2, <5>3, <2>6, Zenon
      <4> QED
        BY <4>1, <4>2, <2>0, <2>1
    <3> QED
      BY <3>1, <3>2, <3>3, <3>4, <2>0, <2>6, <1>3
  <2>7. CASE rec < n /\ nextRecordToAssign'[r] = n /\ myRecords'[r] = myRecords[r]
    <3> HIDE DEF n, rec
    <3>1. \A i \in 1 .. pos'[r] : calls[i].rec < n
      BY <2>0, <2>1, <2>2, <2>7, <1>1, <1>3
    <3>2. \A c \in 0 .. n - 1 : \E i \in 1 .. pos'[r] : calls[i].rec = c
      BY <2>0, <2>1, <1>1, <1>3
    <3>3. \A i \in 1 .. pos'[r] : calls[i].rec \in myRecords'[r] <=> PlaceOf(calls[i].rec) = r
      <4>1. \A i \in 1 .. pos'[r] : i = pos[r] + 1 \/ i \in 1 .. pos[r]
        BY <2>0, <2>1
      <4> QED
        BY <4>1, <2>2, <2>5, <2>7, <1>1, <1>3, Zenon
    <3> QED
      BY <3>1, <3>2, <3>3, <2>7, <1>1, <1>3, Zenon
  <2>8. \/ /\ rec = n /\ nextRecordToAssign'[r] = n + 1
           /\ myRecords'[r] \subseteq myRecords[r] \cup {rec} /\ myRecords[r] \subseteq myRecords'[r]
        \/ rec < n /\ nextRecordToAssign'[r] = n /\ myRecords'[r] = myRecords[r]
    BY AtlasAssigns, name = "Atlas", <1>3, Zenon
  <2> QED
    BY <2>6, <2>7, <2>8, <1>3, Zenon
<1> QED
  BY <1>2, <1>3, Zenon

\* assignRecord appends the next call to the vectors of the rank it belongs to.
LEMMA AssignRecordHolds ==
  ASSUME IInv, NEW r \in Rank, AssignRecord(r)
  PROVE  HeldCalls'
<1>t. Types /\ HeldCalls
  BY Zenon DEF IInv
<1>e. /\ pos[r] < Len(calls) /\ pos' = [pos EXCEPT ![r] = @ + 1]
      /\ UNCHANGED <<calls, name, partition>>
  BY AssignRecordEffect, Zenon
<1>p. \A c : PlaceOf(c)' = PlaceOf(c)
  BY <1>e, PlaceUnchanged, Zenon
<1> DEFINE c == NextCall(r)
           n == Len(indx[r])
<1>y. /\ indx \in [Rank -> Seq(Loc)] /\ recnums \in [Rank -> Seq(Rec)]
      /\ pos \in [Rank -> 0 .. Len(calls)]
  BY <1>t, Zenon DEF Types
<1>0. /\ pos[r] \in Nat /\ pos[r] + 1 \in DOMAIN calls /\ pos'[r] = pos[r] + 1
      /\ c = calls[pos[r] + 1]
  <2>1. pos[r] \in Nat /\ pos[r] + 1 \in DOMAIN calls
    BY <1>t, <1>e, CallsMade, Zenon
  <2>2. pos'[r] = pos[r] + 1
    BY <1>e, <1>y, Zenon
  <2> QED
    BY <2>1, <2>2, Zenon DEF NextCall
<1>1. c = [rec |-> c.rec, loc |-> c.loc] /\ c.rec \in Rec /\ c.loc \in Loc
  <2>1. c \in D!Call /\ c.rec \in Rec /\ c.loc \in Loc
    BY <1>0, <1>t, CallTypes, Zenon
  <2> QED
    BY <2>1 DEF D!Call
<1>2. /\ Len(recnums[r]) = Len(indx[r])
      /\ \A k \in DOMAIN indx[r] : \E i \in 1 .. pos[r] :
           calls[i] = Kept(indx[r], recnums[r], k) /\ PlaceOf(calls[i].rec) = r
      /\ \A i \in 1 .. pos[r] : PlaceOf(calls[i].rec) = r =>
           \E k \in DOMAIN indx[r] : calls[i] = Kept(indx[r], recnums[r], k)
  BY <1>t, Zenon DEF HeldCalls
<1> HIDE DEF c
<1> SUFFICES ASSUME NEW q \in Rank
             PROVE  /\ Len(recnums'[q]) = Len(indx'[q])
                    /\ \A k \in DOMAIN indx'[q] : \E i \in 1 .. pos'[q] :
                         calls[i] = Kept(indx'[q], recnums'[q], k) /\ PlaceOf(calls[i].rec) = q
                    /\ \A i \in 1 .. pos'[q] : PlaceOf(calls[i].rec) = q =>
                         \E k \in DOMAIN indx'[q] : calls[i] = Kept(indx'[q], recnums'[q], k)
  BY <1>e, <1>p DEF HeldCalls
<1>3. CASE q # r
  <2>0. /\ indx' = indx \/ indx' = [indx EXCEPT ![r] = Append(@, NextCall(r).loc)]
        /\ recnums' = recnums \/ recnums' = [recnums EXCEPT ![r] = Append(@, NextCall(r).rec)]
    BY AssignRecordEffect, ZenonT(30)
  <2>1. pos'[q] = pos[q] /\ indx'[q] = indx[q] /\ recnums'[q] = recnums[q]
    BY <1>3, <1>e, <1>y, <2>0, ZenonT(30)
  <2>2. \A k : Kept(indx'[q], recnums'[q], k) = Kept(indx[q], recnums[q], k)
    BY <2>1, Zenon DEF Kept
  <2> QED
    BY <2>1, <2>2, <1>t DEF HeldCalls
<1>4. CASE q = r /\ PlaceOf(c.rec) # r
  <2>1. indx' = indx /\ recnums' = recnums
    BY <1>4, AssignRecordEffect, Zenon DEF c
  <2>2. \A k : Kept(indx'[r], recnums'[r], k) = Kept(indx[r], recnums[r], k)
    BY <2>1, Zenon DEF Kept
  <2>3. 1 .. pos'[r] = (1 .. pos[r]) \cup {pos[r] + 1}
    BY <1>0
  <2> QED
    BY <2>1, <2>2, <2>3, <1>0, <1>2, <1>4, Zenon
<1>5. CASE q = r /\ PlaceOf(c.rec) = r
  <2>1. indx'[r] = Append(indx[r], c.loc) /\ recnums'[r] = Append(recnums[r], c.rec)
    BY <1>5, <1>y, AssignRecordEffect, Zenon DEF c
  <2>2. indx[r] \in Seq(Loc) /\ recnums[r] \in Seq(Rec) /\ n \in Nat
    <3>1. indx[r] \in Seq(Loc) /\ recnums[r] \in Seq(Rec)
      BY <1>y, Zenon
    <3> QED
      BY <3>1
  <2>3. /\ Len(indx'[r]) = n + 1 /\ Len(recnums'[r]) = n + 1
        /\ DOMAIN indx[r] = 1 .. n /\ DOMAIN indx'[r] = 1 .. n + 1
        /\ \A k \in 1 .. n : indx'[r][k] = indx[r][k] /\ recnums'[r][k] = recnums[r][k]
        /\ indx'[r][n + 1] = c.loc /\ recnums'[r][n + 1] = c.rec
    BY <2>1, <2>2, <1>1, <1>2
  <2>4. 1 .. pos'[r] = (1 .. pos[r]) \cup {pos[r] + 1} /\ 1 .. n + 1 = (1 .. n) \cup {n + 1}
    BY <1>0, <2>2
  <2>5. (\A k \in 1 .. n : Kept(indx'[r], recnums'[r], k) = Kept(indx[r], recnums[r], k)) /\ Kept(indx'[r], recnums'[r], n + 1) = c
    BY <2>3, <1>1, Zenon DEF Kept
  <2> HIDE DEF n
  <2>6. ASSUME NEW k \in DOMAIN indx'[r]
        PROVE  \E i \in 1 .. pos'[r] : calls[i] = Kept(indx'[r], recnums'[r], k) /\ PlaceOf(calls[i].rec) = r
    <3>1. CASE k = n + 1
      BY <3>1, <2>4, <2>5, <1>0, <1>5, Zenon
    <3>2. CASE k \in 1 .. n
      <4>1. PICK i \in 1 .. pos[r] :
              calls[i] = Kept(indx[r], recnums[r], k) /\ PlaceOf(calls[i].rec) = r
        BY <3>2, <2>3, <1>2, Zenon
      <4>2. i \in 1 .. pos'[r]
        BY <2>4, Zenon
      <4> QED
        BY <4>1, <4>2, <3>2, <2>5, Zenon
    <3> QED
      BY <3>1, <3>2, <2>3, <2>4, Zenon
  <2>7. ASSUME NEW i \in 1 .. pos'[r], PlaceOf(calls[i].rec) = r
        PROVE  \E k \in DOMAIN indx'[r] : calls[i] = Kept(indx'[r], recnums'[r], k)
    <3>1. CASE i = pos[r] + 1
      BY <3>1, <1>0, <2>3, <2>4, <2>5, Zenon
    <3>2. CASE i \in 1 .. pos[r]
      BY <3>2, <2>7, <2>3, <2>4, <2>5, <1>2
    <3> QED
      BY <3>1, <3>2, <2>4, Zenon
  <2> QED
    BY <2>3, <2>6, <2>7, <1>5, Zenon
<1> QED
  BY <1>3, <1>4, <1>5, Zenon

-----------------------------------------------------------------------------
(* The inductive invariant *)

\* The invariant holds of every behaviour of the distributions.
THEOREM Invariance == Spec => []IInv
<1>1. ASSUME Init PROVE IInv
  <2>1. calls \in D!CallSequences
    BY <1>1, Zenon DEF Init
  <2>2. PICK m \in 0 .. NLocs : calls \in [1 .. m -> D!Call]
    BY <2>1, Zenon DEF D!CallSequences
  <2>3. calls \in Seq(D!Call)
    BY <2>2, NLocsAssumption
  <2>4. Offered
    BY <2>1, Zenon DEF D!CallSequences, Offered
  <2>5. Types
    <3>1. Len(calls) \in Nat
      BY <2>3
    <3> QED
      BY <1>1, <2>3, <3>1 DEF Init, Types
  <2>6. Counted /\ Decided /\ HeldCalls /\ AllOffered
    BY <1>1 DEF Init, Counted, Decided, HeldCalls, AllOffered
  <2> QED
    BY <2>4, <2>5, <2>6, Zenon DEF IInv
<1>2. ASSUME IInv, [Next]_vars PROVE IInv'
  <2>1. ASSUME NEW r \in Rank, AssignRecord(r) PROVE IInv'
    <3>1. Types' /\ Counted' /\ Decided' /\ HeldCalls'
      BY <1>2, <2>1, AssignRecordTypes, AssignRecordCounts, AssignRecordHolds, Zenon
    <3>2. Offered'
      BY <1>2, <2>1, AssignRecordEffect, Zenon DEF IInv, Offered
    <3>3. AllOffered'
      <4>1. pos' = [pos EXCEPT ![r] = @ + 1] /\ pc' = pc /\ calls' = calls /\ pc[r] = "assign"
        BY <1>2, <2>1, AssignRecordEffect, Zenon
      <4> QED
        BY <4>1, <1>2, Zenon DEF IInv, AllOffered, Types
    <3> QED
      BY <3>1, <3>2, <3>3, Zenon DEF IInv
  <2>2. ASSUME UNCHANGED <<calls, pos, indx, recnums, name, partition, myRecords,
                           nextRecordToAssign>>,
               pc' \in [Rank -> {"assign", "scan", "done"}],
               \A q \in Rank : pc'[q] # "assign" => pc[q] # "assign" \/ pos[q] = Len(calls)
        PROVE  IInv'
    <3>1. \A c : PlaceOf(c)' = PlaceOf(c)
      BY <2>2, PlaceUnchanged, Zenon
    <3>2. Types' /\ Offered' /\ Counted'
      <4>1. Types'
        BY <1>2, <2>2, ZenonT(30) DEF IInv, Types
      <4>2. Offered'
        BY <1>2, <2>2, ZenonT(30) DEF IInv, Offered
      <4>3. Counted'
        BY <1>2, <2>2, ZenonT(30) DEF IInv, Counted
      <4> QED
        BY <4>1, <4>2, <4>3
    <3>3. Decided'
      BY <1>2, <2>2, <3>1, Zenon DEF IInv, Decided
    <3>4. HeldCalls'
      <4>1. ASSUME NEW q \in Rank
            PROVE  (\A k \in DOMAIN indx[q] : \E i \in 1 .. pos[q] :
                     calls[i] = Kept(indx[q], recnums[q], k) /\ PlaceOf(calls[i].rec) = q)'
        <5>1. \A k \in DOMAIN indx[q] : \E i \in 1 .. pos[q] :
                 calls[i] = Kept(indx[q], recnums[q], k) /\ PlaceOf(calls[i].rec) = q
          BY <1>2, Zenon DEF IInv, HeldCalls
        <5> QED
          BY <2>2, <3>1, <5>1, Zenon
      <4>2. ASSUME NEW q \in Rank
            PROVE  (\A i \in 1 .. pos[q] : PlaceOf(calls[i].rec) = q =>
                     \E k \in DOMAIN indx[q] : calls[i] = Kept(indx[q], recnums[q], k))'
        <5>1. \A i \in 1 .. pos[q] : PlaceOf(calls[i].rec) = q =>
                 \E k \in DOMAIN indx[q] : calls[i] = Kept(indx[q], recnums[q], k)
          BY <1>2, Zenon DEF IInv, HeldCalls
        <5> QED
          BY <2>2, <3>1, <5>1, Zenon
      <4>3. \A q \in Rank : Len(recnums'[q]) = Len(indx'[q])
        BY <1>2, <2>2, Zenon DEF IInv, HeldCalls
      <4> QED
        BY <4>1, <4>2, <4>3, Zenon DEF HeldCalls
    <3>5. AllOffered'
      BY <1>2, <2>2, Zenon DEF IInv, AllOffered
    <3> QED
      BY <3>2, <3>3, <3>4, <3>5, Zenon DEF IInv
  <2>p. pc \in [Rank -> {"assign", "scan", "done"}]
    BY <1>2, Zenon DEF IInv, Types
  <2>3. ASSUME NEW r \in Rank, ComputePatchLocs(r) PROVE IInv'
    BY <2>2, <2>3, <2>p, Zenon DEF ComputePatchLocs, client, assigner
  <2>4. ASSUME NEW r \in Rank, FinishPatchLocs(r) PROVE IInv'
    BY <2>2, <2>4, <2>p, Zenon DEF FinishPatchLocs, client, assigner
  <2>5. CASE UNCHANGED vars
    BY <2>2, <2>5, <2>p, Zenon DEF vars, client, assigner
  <2> QED
    BY <1>2, <2>1, <2>3, <2>4, <2>5, Zenon DEF Next, Step, Terminated
<1> QED
  BY <1>1, <1>2, PTL DEF Spec

-----------------------------------------------------------------------------
(* The properties *)

\* "We assume records will be assigned in consecutive order": the ASSERT of
\* RecordAssigner::assignRecord never fails.
THEOREM RecordsConsecutiveCorrect == Spec => []RecordsConsecutive
<1>1. IInv => RecordsConsecutive
  BY NextRecordInOrder, Zenon DEF IInv, RecordsConsecutive, NextCall
<1> QED
  BY <1>1, Invariance, PTL

\* A rank holds the location of a call exactly when the record belongs to it.
LEMMA HeldWherePlaced ==
  ASSUME IInv, NEW r \in Rank, NEW i \in 1 .. pos[r]
  PROVE  calls[i].loc \in Range(indx[r]) <=> PlaceOf(calls[i].rec) = r
<1>t. Types /\ Offered /\ HeldCalls
  BY Zenon DEF IInv
<1>0. i \in DOMAIN calls /\ \A j \in 1 .. pos[r] : j \in DOMAIN calls
  BY <1>t, CallsMade, Zenon
<1>1. ASSUME calls[i].loc \in Range(indx[r]) PROVE PlaceOf(calls[i].rec) = r
  <2>1. PICK k \in DOMAIN indx[r] : indx[r][k] = calls[i].loc
    BY <1>1, Zenon DEF Range
  <2>2. PICK j \in 1 .. pos[r] : calls[j] = Kept(indx[r], recnums[r], k) /\ PlaceOf(calls[j].rec) = r
    BY <1>t, Zenon DEF HeldCalls
  <2>3. calls[j].loc = calls[i].loc
    BY <2>1, <2>2 DEF Kept
  <2>4. j = i
    BY <2>3, <1>0, <1>t, OneCallPerLocation, Zenon
  <2> QED
    BY <2>2, <2>4, Zenon
<1>2. ASSUME PlaceOf(calls[i].rec) = r PROVE calls[i].loc \in Range(indx[r])
  <2>1. PICK k \in DOMAIN indx[r] : calls[i] = Kept(indx[r], recnums[r], k)
    BY <1>2, <1>t, Zenon DEF HeldCalls
  <2>2. calls[i].loc = indx[r][k]
    BY <2>1 DEF Kept
  <2> QED
    BY <2>2, Zenon DEF Range
<1> QED
  BY <1>1, <1>2, Zenon

\* Every location offered is held by exactly one rank once all have finished,
\* although the ranks decide without communication.
THEOREM PlacedOnceCorrect == Spec => []PlacedOnce
<1>1. ASSUME IInv PROVE PlacedOnce
  <2> SUFFICES ASSUME Done, NEW i \in DOMAIN calls
               PROVE  \E r \in Rank : /\ calls[i].loc \in Range(indx[r])
                                      /\ \A s \in Rank : calls[i].loc \in Range(indx[s]) => s = r
    BY Zenon DEF PlacedOnce
  <2>1. \A s \in Rank : pos[s] = Len(calls)
    <3>1. \A s \in Rank : pc[s] # "assign"
      BY Zenon DEF Done
    <3> QED
      BY <3>1, <1>1, Zenon DEF IInv, AllOffered
  <2>2. \A s \in Rank : i \in 1 .. pos[s]
    <3>1. calls \in Seq(D!Call)
      BY <1>1, Zenon DEF IInv, Types
    <3> QED
      BY <3>1, <2>1
  <2>3. \A s \in Rank : calls[i].loc \in Range(indx[s]) <=> PlaceOf(calls[i].rec) = s
    BY <1>1, <2>2, HeldWherePlaced, Zenon
  <2>4. PlaceOf(calls[i].rec) \in Rank
    BY <1>1, CallTypes, Zenon DEF IInv
  <2> QED
    BY <2>3, <2>4, Zenon
<1> QED
  BY <1>1, Invariance, PTL

-----------------------------------------------------------------------------
(* What allGatherv returns *)

\* A step that changes no vector and no count, and lets no rank return from the
\* scan, leaves the counts right.
LEMMA ScannedUnchanged ==
  ASSUME Scanned, UNCHANGED <<indx, numLocationsOnThisRank, numLocationsOnLowerRanks>>,
         \A q \in Rank : pc'[q] = "done" => pc[q] = "done",
         \A q \in Rank : pc[q] # "assign" => pc'[q] # "assign"
  PROVE  Scanned'
<1>1. \A q \in Rank : \A s \in 0 .. q - 1 : s \in Rank
  BY NRanksAssumption DEF Rank
<1>2. numLocationsOnThisRank' = [r \in Rank |-> Len(indx'[r])]
  BY Zenon DEF Scanned
<1>3. numLocationsOnLowerRanks' \in [Rank -> Nat]
  BY Zenon DEF Scanned
<1>4. ASSUME NEW q \in Rank, pc'[q] = "done"
      PROVE  /\ \A s \in 0 .. q - 1 : pc'[s] # "assign"
             /\ numLocationsOnLowerRanks'[q] = Len(Joined(indx', q))
  <2>1. pc[q] = "done"
    BY <1>4, Zenon
  <2>2. /\ \A s \in 0 .. q - 1 : pc[s] # "assign"
        /\ numLocationsOnLowerRanks[q] = Len(Joined(indx, q))
    BY <2>1, Zenon DEF Scanned
  <2> QED
    BY <1>1, <2>2, Zenon
<1> QED
  BY <1>2, <1>3, <1>4, Zenon DEF Scanned

\* A location that a rank keeps is counted, and no rank that has returned from the
\* scan looks at this rank's count.
LEMMA AssignRecordScanned ==
  ASSUME IInv, Scanned, NEW r \in Rank, AssignRecord(r)
  PROVE  Scanned'
<1>t. /\ indx \in [Rank -> Seq(Loc)] /\ \A q \in Rank : indx[q] \in Seq(Loc)
  BY Zenon DEF IInv, Types
<1>s. /\ numLocationsOnThisRank = [q \in Rank |-> Len(indx[q])]
      /\ numLocationsOnLowerRanks \in [Rank -> Nat]
  BY Zenon DEF Scanned
<1>1. pc[r] = "assign" /\ UNCHANGED <<pc, numLocationsOnLowerRanks>>
  BY Zenon DEF AssignRecord
<1>2. ASSUME UNCHANGED <<indx, numLocationsOnThisRank>> PROVE Scanned'
  BY <1>1, <1>2, ScannedUnchanged, Zenon
<1>3. ASSUME NEW l,
             numLocationsOnThisRank' = [numLocationsOnThisRank EXCEPT ![r] = @ + 1],
             indx' = [indx EXCEPT ![r] = Append(@, l)]
      PROVE  Scanned'
  <2>1. /\ \A q \in Rank : q # r => indx'[q] = indx[q]
        /\ indx'[r] = Append(indx[r], l)
    BY <1>3, <1>t, Zenon
  <2>2. Len(Append(indx[r], l)) = Len(indx[r]) + 1
    BY <1>t
  <2>3. numLocationsOnThisRank' = [q \in Rank |-> Len(indx'[q])]
    <3>1. numLocationsOnThisRank' =
            [q \in Rank |-> IF q = r THEN Len(indx[q]) + 1 ELSE Len(indx[q])]
      BY <1>3, <1>s, Zenon
    <3>2. \A q \in Rank : Len(indx'[q]) = IF q = r THEN Len(indx[q]) + 1 ELSE Len(indx[q])
      BY <2>1, <2>2, Zenon
    <3> QED
      BY <3>1, <3>2, Zenon
  <2>4. ASSUME NEW q \in Rank, pc'[q] = "done"
        PROVE  /\ \A s \in 0 .. q - 1 : pc'[s] # "assign"
               /\ numLocationsOnLowerRanks'[q] = Len(Joined(indx', q))
    <3>1. /\ \A s \in 0 .. q - 1 : pc[s] # "assign"
          /\ numLocationsOnLowerRanks[q] = Len(Joined(indx, q))
      BY <1>1, <2>4, Zenon DEF Scanned
    <3>2. q \in Nat /\ \A s \in 0 .. q - 1 : s \in Rank
      BY NRanksAssumption DEF Rank
    <3>3. \A s \in 0 .. q - 1 : s # r
      BY <1>1, <3>1, Zenon
    <3>4. \A s \in 0 .. q - 1 : indx[s] \in Seq(Loc) /\ indx'[s] = indx[s]
      BY <1>t, <2>1, <3>2, <3>3, Zenon
    <3>5. Joined(indx', q) = Joined(indx, q)
      BY <3>2, <3>4, JoinedSame, Zenon
    <3> QED
      BY <1>1, <3>1, <3>5, Zenon
  <2> QED
    BY <1>1, <1>s, <2>3, <2>4, Zenon DEF Scanned
<1> QED
  BY <1>2, <1>3, Zenon DEF AssignRecord

\* The exclusive scan returns the number of locations that the lower ranks hold.
LEMMA FinishPatchLocsScanned ==
  ASSUME IInv, Scanned, NEW r \in Rank, FinishPatchLocs(r)
  PROVE  Scanned'
<1>t. /\ \A q \in Rank : indx[q] \in Seq(Loc)
      /\ pc \in [Rank -> {"assign", "scan", "done"}]
  BY Zenon DEF IInv, Types
<1>s. /\ numLocationsOnThisRank = [q \in Rank |-> Len(indx[q])]
      /\ numLocationsOnLowerRanks \in [Rank -> Nat]
  BY Zenon DEF Scanned
<1>1. /\ \A s \in 0 .. r - 1 : pc[s] # "assign"
      /\ numLocationsOnLowerRanks' = [numLocationsOnLowerRanks EXCEPT ![r] = ExclusiveScan(r)]
      /\ pc' = [pc EXCEPT ![r] = "done"]
      /\ UNCHANGED <<indx, numLocationsOnThisRank>>
  BY Zenon DEF FinishPatchLocs, client
<1>2. /\ NRanks \in Nat /\ r \in 0 .. NRanks /\ Rank = 0 .. NRanks - 1
      /\ \A q \in Rank : \A s \in 0 .. q - 1 : s \in Rank /\ s # q
  BY NRanksAssumption DEF Rank
<1>3. ExclusiveScan(r) = Len(Joined(indx, r)) /\ Len(Joined(indx, r)) \in Nat
  <2>1. \A k \in 0 .. NRanks - 1 : indx[k] \in Seq(Loc)
    BY <1>t, <1>2, Zenon
  <2>2. \A k \in 0 .. NRanks - 1 : numLocationsOnThisRank[k] = Len(indx[k])
    BY <1>s, <1>2, Zenon
  <2>3. SumBelow(numLocationsOnThisRank, r) = Len(Joined(indx, r))
    <3>1. r \in Nat /\ \A k \in 0 .. r - 1 : k \in 0 .. NRanks - 1
      BY <1>2
    <3>2. /\ \A k \in 0 .. r - 1 : indx[k] \in Seq(Loc)
          /\ \A k \in 0 .. r - 1 : numLocationsOnThisRank[k] = Len(indx[k])
      BY <2>1, <2>2, <3>1, Zenon
    <3> QED
      BY <3>1, <3>2, SumOfLengths, Zenon
  <2>4. Joined(indx, r) \in Seq(Loc)
    BY <1>2, <2>1, JoinedStep, Zenon
  <2>5. Len(Joined(indx, r)) \in Nat
    BY <2>4
  <2> QED
    BY <2>3, <2>5, Zenon DEF ExclusiveScan
<1>4. numLocationsOnLowerRanks' \in [Rank -> Nat]
  BY <1>1, <1>3, <1>s, Zenon
<1>5. /\ numLocationsOnLowerRanks'[r] = Len(Joined(indx, r)) /\ pc'[r] = "done"
      /\ \A q \in Rank : q # r =>
           numLocationsOnLowerRanks'[q] = numLocationsOnLowerRanks[q] /\ pc'[q] = pc[q]
  BY <1>1, <1>3, <1>s, <1>t, Zenon
<1>6. \A q \in Rank : pc[q] # "assign" => pc'[q] # "assign"
  <2>1. pc'[r] # "assign"
    BY <1>5
  <2> QED
    BY <1>5, <2>1, Zenon
<1>7. ASSUME NEW q \in Rank, pc'[q] = "done"
      PROVE  /\ \A s \in 0 .. q - 1 : pc'[s] # "assign"
             /\ numLocationsOnLowerRanks'[q] = Len(Joined(indx', q))
  <2>1. CASE q = r
    BY <1>1, <1>2, <1>5, <1>6, <2>1, Zenon
  <2>2. CASE q # r
    <3>1. /\ \A s \in 0 .. q - 1 : pc[s] # "assign"
          /\ numLocationsOnLowerRanks[q] = Len(Joined(indx, q))
      BY <1>5, <1>7, <2>2, Zenon DEF Scanned
    <3> QED
      BY <1>1, <1>2, <1>5, <1>6, <2>2, <3>1, Zenon
  <2> QED
    BY <2>1, <2>2, Zenon
<1>8. numLocationsOnThisRank' = [q \in Rank |-> Len(indx'[q])]
  BY <1>1, <1>s, Zenon
<1> QED
  BY <1>4, <1>7, <1>8, Zenon DEF Scanned

\* Every rank's count is the number of locations that it holds, and a rank that
\* has returned from computePatchLocs knows how many the lower ranks hold, also
\* while higher ranks are still assigning.
THEOREM ScannedCorrect == Spec => []Scanned
<1>1. Init => Scanned
  <2> SUFFICES ASSUME Init PROVE Scanned
    BY Zenon
  <2>1. /\ indx = [r \in Rank |-> <<>>] /\ pc = [r \in Rank |-> "assign"]
        /\ numLocationsOnThisRank = [r \in Rank |-> 0]
        /\ numLocationsOnLowerRanks = [r \in Rank |-> 0]
    BY Zenon DEF Init
  <2>2. Len(<<>>) = 0 /\ 0 \in Nat /\ "assign" # "done"
    OBVIOUS
  <2>3. numLocationsOnThisRank = [r \in Rank |-> Len(indx[r])]
    <3>1. \A r \in Rank : Len(indx[r]) = 0
      BY <2>1, <2>2, Zenon
    <3> QED
      BY <2>1, <3>1, Zenon
  <2> QED
    BY <2>1, <2>2, <2>3, Zenon DEF Scanned
<1>2. IInv /\ Scanned /\ [Next]_vars => Scanned'
  <2> SUFFICES ASSUME IInv, Scanned, [Next]_vars PROVE Scanned'
    BY Zenon
  <2>1. ASSUME NEW r \in Rank, AssignRecord(r) PROVE Scanned'
    BY <2>1, AssignRecordScanned, Zenon
  <2>2. ASSUME NEW r \in Rank, ComputePatchLocs(r) PROVE Scanned'
    <3>1. /\ pc' = [pc EXCEPT ![r] = "scan"]
          /\ UNCHANGED <<indx, numLocationsOnThisRank, numLocationsOnLowerRanks>>
      BY <2>2, Zenon DEF ComputePatchLocs, client
    <3>2. pc \in [Rank -> {"assign", "scan", "done"}]
      BY Zenon DEF IInv, Types
    <3>3. \A q \in Rank : pc'[q] = IF q = r THEN "scan" ELSE pc[q]
      BY <3>1, <3>2, Zenon
    <3>4. /\ \A q \in Rank : pc'[q] = "done" => pc[q] = "done"
          /\ \A q \in Rank : pc[q] # "assign" => pc'[q] # "assign"
      BY <3>3
    <3> QED
      BY <3>1, <3>4, ScannedUnchanged, Zenon
  <2>3. ASSUME NEW r \in Rank, FinishPatchLocs(r) PROVE Scanned'
    BY <2>3, FinishPatchLocsScanned, Zenon
  <2>4. ASSUME UNCHANGED vars PROVE Scanned'
    <3>1. UNCHANGED <<pc, indx, numLocationsOnThisRank, numLocationsOnLowerRanks>>
      BY <2>4, Zenon DEF vars, client
    <3> QED
      BY <3>1, ScannedUnchanged, Zenon
  <2> QED
    BY <2>1, <2>2, <2>3, <2>4, Zenon DEF Next, Step, Terminated
<1> QED
  BY <1>1, <1>2, Invariance, PTL DEF Spec

\* globalUniqueConsecutiveLocationIndex maps a location to its element of what
\* allGatherv returns, and the count that allGatherv asserts is right.
THEOREM GatherIndexCorrect == Spec => []GatherIndex
<1>1. ASSUME IInv, Scanned PROVE GatherIndex
  <2> DEFINE gathered == Joined(indx, NRanks)
  <2> SUFFICES ASSUME Done, NEW r \in Rank
               PROVE  /\ Len(indx[r]) = numLocationsOnThisRank[r]
                      /\ \A i \in DOMAIN indx[r] :
                           /\ LocationIndex(r, i) + 1 \in DOMAIN gathered
                           /\ gathered[LocationIndex(r, i) + 1] = indx[r][i]
    BY Zenon DEF GatherIndex, AllGatherv
  <2>1. Len(indx[r]) = numLocationsOnThisRank[r]
    BY <1>1, Zenon DEF Scanned
  <2>2. numLocationsOnLowerRanks[r] = Len(Joined(indx, r)) /\ numLocationsOnLowerRanks[r] \in Nat
    BY <1>1, Zenon DEF Scanned, Done
  <2>3. NRanks \in Nat /\ r \in 0 .. NRanks - 1 /\ Rank = 0 .. NRanks - 1
    BY NRanksAssumption DEF Rank
  <2>4. \A k \in 0 .. NRanks - 1 : indx[k] \in Seq(Loc)
    BY <1>1, <2>3, Zenon DEF IInv, Types
  <2>5. RankAfterRank(indx, NRanks, Loc)
    BY <2>3, <2>4, JoinedElements, Zenon
  <2>6. ASSUME NEW i \in DOMAIN indx[r]
        PROVE  /\ LocationIndex(r, i) + 1 \in DOMAIN gathered
               /\ gathered[LocationIndex(r, i) + 1] = indx[r][i]
    <3>1. /\ Len(Joined(indx, r)) + i \in DOMAIN gathered
          /\ gathered[Len(Joined(indx, r)) + i] = indx[r][i]
      BY <2>3, <2>5, Zenon DEF RankAfterRank
    <3>2. i \in Nat
      <4>1. indx[r] \in Seq(Loc)
        BY <2>3, <2>4, Zenon
      <4> QED
        BY <4>1
    <3>3. \A a, b \in Nat : (a + b - 1) + 1 = a + b
      OBVIOUS
    <3>4. LocationIndex(r, i) + 1 = Len(Joined(indx, r)) + i
      BY <2>2, <3>2, <3>3, Zenon DEF LocationIndex
    <3> QED
      BY <3>1, <3>4, Zenon
  <2> QED
    BY <2>1, <2>6, Zenon
<1> QED
  BY <1>1, Invariance, ScannedCorrect, PTL

-----------------------------------------------------------------------------
(* The refinement *)

Closed == {r \in Rank : pc[r] = "done"}
Patch == [r \in Rank |-> IF pc[r] = "done" THEN Range(indx[r]) ELSE {}]

\* The abstract specification's Range is this module's.
LEMMA SameRange == \A f : D!Range(f) = Range(f)
  BY Zenon DEF D!Range, Range

\* A rank that has seen a record holds a location of it exactly when the record
\* belongs to the rank.
LEMMA SeenRecord ==
  ASSUME IInv, NEW r \in Rank, NEW i \in 1 .. pos[r]
  PROVE  calls[i].rec \in Range(recnums[r]) <=> PlaceOf(calls[i].rec) = r
<1>t. Types /\ HeldCalls
  BY Zenon DEF IInv
<1>0. DOMAIN recnums[r] = DOMAIN indx[r]
  <2>1. recnums[r] \in Seq(Rec) /\ indx[r] \in Seq(Loc) /\ Len(recnums[r]) = Len(indx[r])
    BY <1>t, Zenon DEF Types, HeldCalls
  <2> QED
    BY <2>1
<1>1. ASSUME calls[i].rec \in Range(recnums[r]) PROVE PlaceOf(calls[i].rec) = r
  <2>1. PICK k \in DOMAIN indx[r] : recnums[r][k] = calls[i].rec
    BY <1>0, <1>1, Zenon DEF Range
  <2>2. PICK j \in 1 .. pos[r] : calls[j] = Kept(indx[r], recnums[r], k) /\ PlaceOf(calls[j].rec) = r
    BY <1>t, Zenon DEF HeldCalls
  <2>3. calls[j].rec = calls[i].rec
    BY <2>1, <2>2 DEF Kept
  <2> QED
    BY <2>2, <2>3, Zenon
<1>2. ASSUME PlaceOf(calls[i].rec) = r PROVE calls[i].rec \in Range(recnums[r])
  <2>1. PICK k \in DOMAIN indx[r] : calls[i] = Kept(indx[r], recnums[r], k)
    BY <1>2, <1>t, Zenon DEF HeldCalls
  <2>2. calls[i].rec = recnums[r][k]
    BY <2>1 DEF Kept
  <2> QED
    BY <2>2, <1>0, Zenon DEF Range
<1> QED
  BY <1>1, <1>2, Zenon

\* assignRecord is an assignRecord of the abstract distribution.
LEMMA AssignRecordRefines ==
  ASSUME IInv, NEW r \in Rank, AssignRecord(r)
  PROVE  D!AssignRecord(r)
<1> DEFINE c == NextCall(r)
           mine == PlaceOf(c.rec) = r
           known == \E i \in 1 .. pos[r] : calls[i].rec = c.rec
<1>e. /\ pc[r] = "assign" /\ pos[r] < Len(calls) /\ pos' = [pos EXCEPT ![r] = @ + 1]
      /\ UNCHANGED <<calls, pc>>
      /\ indx' = IF mine THEN [indx EXCEPT ![r] = Append(@, c.loc)] ELSE indx
      /\ recnums' = IF mine THEN [recnums EXCEPT ![r] = Append(@, c.rec)] ELSE recnums
  BY AssignRecordEffect, Zenon
<1>1. known => (mine <=> c.rec \in Range(recnums[r]))
  BY SeenRecord, Zenon
<1>2. Closed' = Closed
  BY <1>e, Zenon DEF Closed
<1>3. Patch' = Patch
  <2>1. \A q \in Rank : pc[q] = "done" => indx'[q] = indx[q]
    <3>1. indx \in [Rank -> Seq(Loc)]
      BY Zenon DEF IInv, Types
    <3> QED
      BY <3>1, <1>e, Zenon
  <2> QED
    BY <2>1, <1>e DEF Patch
<1>4. c = calls[pos[r] + 1]
  BY Zenon DEF NextCall
<1> HIDE DEF c, mine, known
<1>5. \E isMyRecord \in BOOLEAN :
        /\ known => (isMyRecord <=> c.rec \in Range(recnums[r]))
        /\ indx' = IF isMyRecord THEN [indx EXCEPT ![r] = Append(@, c.loc)] ELSE indx
        /\ recnums' = IF isMyRecord THEN [recnums EXCEPT ![r] = Append(@, c.rec)] ELSE recnums
  <2>1. CASE mine
    <3> WITNESS TRUE \in BOOLEAN
    <3> QED
      BY <2>1, <1>1, <1>e, Zenon
  <2>2. CASE ~mine
    <3> WITNESS FALSE \in BOOLEAN
    <3> QED
      BY <2>2, <1>1, <1>e, Zenon
  <2> QED
    BY <2>1, <2>2, Zenon
<1> QED
  BY <1>e, <1>2, <1>3, <1>4, <1>5, SameRange, Zenon DEF D!AssignRecord, known, Closed, Patch

\* A rank that returns from the scan takes all that it holds as its patch.
LEMMA FinishPatchLocsRefines ==
  ASSUME IInv, NEW r \in Rank, FinishPatchLocs(r)
  PROVE  D!ComputePatchLocs(r)
<1> DEFINE p == Range(indx[r])
<1>e. /\ pc[r] = "scan" /\ pc' = [pc EXCEPT ![r] = "done"]
      /\ UNCHANGED <<calls, pos, indx, recnums>>
  BY Zenon DEF FinishPatchLocs, client
<1>t. /\ pc \in [Rank -> {"assign", "scan", "done"}] /\ calls \in Seq(D!Call)
      /\ Types /\ Offered /\ HeldCalls
  BY Zenon DEF IInv, Types
<1>1. r \notin Closed /\ pos[r] = Len(calls)
  BY <1>e, Zenon DEF IInv, AllOffered, Closed
<1>2. Closed' = Closed \cup {r}
  BY <1>e, <1>t, Zenon DEF Closed
<1>3. Patch' = [Patch EXCEPT ![r] = p]
  BY <1>e, <1>t DEF Patch
<1>4. ASSUME NEW s \in Closed PROVE p \cap Patch[s] = {}
  <2>0. s \in Rank /\ pc[s] = "done" /\ s # r
    BY <1>1, Zenon DEF Closed
  <2>1. Patch[s] = Range(indx[s])
    BY <2>0, Zenon DEF Patch
  <2>2. pos[s] = Len(calls)
    BY <2>0, Zenon DEF IInv, AllOffered
  <2> SUFFICES ASSUME NEW l \in p, l \in Range(indx[s]) PROVE FALSE
    BY <2>1, Zenon
  <2>3. PICK k \in DOMAIN indx[r] : indx[r][k] = l
    BY Zenon DEF Range
  <2>4. PICK i \in 1 .. pos[r] : calls[i] = Kept(indx[r], recnums[r], k)
    BY <1>t, Zenon DEF HeldCalls
  <2>5. calls[i].loc = l
    BY <2>3, <2>4 DEF Kept
  <2>6. PlaceOf(calls[i].rec) = r
    BY <2>5, HeldWherePlaced, Zenon
  <2>7. PlaceOf(calls[i].rec) = s
    <3>1. i \in 1 .. pos[s]
      BY <2>2, <1>1, Zenon
    <3> QED
      BY <3>1, <2>0, <2>5, HeldWherePlaced, Zenon
  <2> QED
    BY <2>0, <2>6, <2>7, Zenon
<1>5. D!Held(r) = p
  BY SameRange, Zenon DEF D!Held
<1>6. D!AdmissiblePatch(r, p)
  BY <1>4, <1>5, Zenon DEF D!AdmissiblePatch, Closed, Patch
<1>7. p \in SUBSET D!Held(r)
  BY <1>5, Zenon
<1> HIDE DEF p
<1> QED
  BY <1>e, <1>1, <1>2, <1>3, <1>6, <1>7, Zenon DEF D!ComputePatchLocs, Closed, Patch

\* RoundRobin and Atlas keep what Distribution.h promises at every step.
THEOREM Refinement == Spec => ImplementsDistribution
<1>1. ASSUME Init PROVE D!Init
  <2>1. Closed = {} /\ Patch = [r \in Rank |-> {}]
    BY <1>1, Zenon DEF Init, Closed, Patch
  <2> QED
    BY <1>1, <2>1, Zenon DEF Init, D!Init, D!Rank, Rank, Closed, Patch
<1>2. ASSUME IInv, [Next]_vars PROVE [D!Next]_(D!vars)
  <2>1. ASSUME NEW r \in Rank, AssignRecord(r) PROVE D!Next
    BY <1>2, <2>1, AssignRecordRefines, Zenon DEF D!Next, D!Rank, Rank
  <2>2. ASSUME NEW r \in Rank, FinishPatchLocs(r) PROVE D!Next
    BY <1>2, <2>2, FinishPatchLocsRefines, Zenon DEF D!Next, D!Rank, Rank
  <2>3. ASSUME NEW r \in Rank, ComputePatchLocs(r) PROVE UNCHANGED D!vars
    <3>1. /\ pc[r] = "assign" /\ pc' = [pc EXCEPT ![r] = "scan"]
          /\ UNCHANGED <<calls, pos, indx, recnums>>
      BY <2>3, Zenon DEF ComputePatchLocs, client
    <3>2. \A q \in Rank : pc'[q] = "done" <=> pc[q] = "done"
      BY <3>1, <1>2 DEF IInv, Types
    <3>3. Closed' = Closed /\ Patch' = Patch
      BY <3>1, <3>2, Zenon DEF Closed, Patch
    <3> QED
      BY <3>1, <3>3, Zenon DEF D!vars, Closed, Patch
  <2>4. CASE UNCHANGED vars
    BY <2>4, Zenon DEF vars, client, D!vars
  <2> QED
    BY <1>2, <2>1, <2>2, <2>3, <2>4, Zenon DEF Next, Step, Terminated
<1> QED
  BY <1>1, <1>2, Invariance, PTL DEF Spec, ImplementsDistribution, D!Spec

=============================================================================
