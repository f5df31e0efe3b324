------------------------------- MODULE HaloProofs -------------------------------
(***************************************************************************)
(* Proofs of the safety properties of the Halo distribution, and that it   *)
(* implements Distribution, for any number of ranks and locations, any     *)
(* distances and radii.                                                    *)
(***************************************************************************)
EXTENDS HaloDistribution, VectorProofs

-----------------------------------------------------------------------------
(* Minima and maxima of sets of naturals *)

\* A non-empty set of naturals with an upper bound has a greatest element,
\* which is the library's Max.
LEMMA GreatestElement ==
  ASSUME NEW n \in Nat, NEW S, S \subseteq 0 .. n, S # {}
  PROVE  Max(S) \in S /\ \A y \in S : y <= Max(S)
<1> DEFINE T == {n - y : y \in S}
<1>1. T \subseteq Nat /\ T # {}
  <2>1. PICK y \in S : TRUE
    BY Zenon
  <2>2. n - y \in T
    BY Zenon
  <2>3. T \subseteq Nat
    OBVIOUS
  <2> QED
    BY <2>2, <2>3, Zenon
<1>2. PICK t \in T : \A u \in T : t <= u
  BY <1>1, LeastElement, Zenon
<1>3. PICK m \in S : t = n - m
  BY Zenon
<1>4. \A y \in S : m >= y
  BY <1>2, <1>3
<1> QED
  BY <1>4, Zenon DEF Max

\* nglocs bounds what every rank sent to the max reduction.
LEMMA NglocsBound ==
  ASSUME maxSent \in [Rank -> 0 .. NLocs]
  PROVE  nglocs \in 0 .. NLocs /\ \A r \in Rank : maxSent[r] <= nglocs
<1> DEFINE S == {maxSent[r] : r \in Rank}
<1>1. S \subseteq 0 .. NLocs
  BY Zenon
<1>2. 0 \in Rank
  BY NRanksAssumption DEF Rank
<1>3. Max(S) \in S /\ \A y \in S : y <= Max(S)
  BY <1>1, <1>2, NLocsAssumption, GreatestElement, Zenon
<1> QED
  BY <1>1, <1>3, Zenon DEF nglocs

\* Every distance is below infinity.
LEMMA BelowInf == \A d \in 0 .. MaxDist : d < Inf
  BY MaxDistAssumption DEF Inf

\* The minloc reduction elects one rank for each location: the closest, the
\* lowest of them when several are as close.
LEMMA OwnerIsClosest ==
  ASSUME NEW g, \A r \in Rank : minlocSent[r][g + 1] \in Nat
  PROVE  Owner(g) \in Rank /\ Closest(g, Owner(g))
<1> DEFINE X == {minlocSent[r][g + 1] : r \in Rank}
<1>1. X \subseteq Nat /\ X # {}
  BY NRanksAssumption DEF Rank
<1>2. PICK d \in X : \A e \in X : d <= e
  BY <1>1, LeastElement, Zenon
<1> DEFINE R == {r \in Rank : minlocSent[r][g + 1] = d}
<1>3. R \subseteq Nat /\ R # {}
  BY NRanksAssumption DEF Rank
<1>4. PICK r \in R : \A s \in R : r <= s
  BY <1>3, LeastElement, Zenon
<1>5. Closest(g, r)
  <2> SUFFICES ASSUME NEW s \in Rank
               PROVE  \/ minlocSent[r][g + 1] < minlocSent[s][g + 1]
                      \/ minlocSent[r][g + 1] = minlocSent[s][g + 1] /\ r <= s
    BY Zenon DEF Closest
  <2>1. minlocSent[r][g + 1] <= minlocSent[s][g + 1]
    BY <1>2, <1>4, Zenon
  <2>2. CASE minlocSent[r][g + 1] = minlocSent[s][g + 1]
    BY <1>4, <2>2, Zenon
  <2>3. CASE minlocSent[r][g + 1] # minlocSent[s][g + 1]
    BY <2>1, <2>3, <1>4
  <2> QED
    BY <2>2, <2>3, Zenon
<1> QED
  BY <1>4, <1>5, Zenon DEF Owner

\* A function on 1 .. n is a sequence.
LEMMA FunctionIsSeq ==
  ASSUME NEW S, NEW n \in Nat, NEW f \in [1 .. n -> S]
  PROVE  f \in Seq(S)
OBVIOUS

\* The elements of a sequence.
LEMMA SeqElements ==
  ASSUME NEW S, NEW s \in Seq(S)
  PROVE  \A n \in DOMAIN s : s[n] \in S
OBVIOUS

-----------------------------------------------------------------------------
(* The first call for a record *)

\* FirstCall is the position of the first call for the record of any call.
LEMMA FirstCallIsFirst ==
  ASSUME calls \in Seq(Call), NEW i \in DOMAIN calls
  PROVE  /\ FirstCall(calls[i].rec) \in 1 .. i
         /\ calls[FirstCall(calls[i].rec)].rec = calls[i].rec
<1> DEFINE c == calls[i].rec
           S == {j \in DOMAIN calls : calls[j].rec = c}
<1>1. S \subseteq Nat /\ i \in S
  OBVIOUS
<1>2. PICK j \in S : \A k \in S : j <= k
  BY <1>1, LeastElement, Zenon
<1>3. /\ j \in DOMAIN calls
      /\ calls[j].rec = c
      /\ \A k \in 1 .. j - 1 : calls[k].rec # c
  BY <1>2
<1>4. /\ FirstCall(c) \in DOMAIN calls
      /\ calls[FirstCall(c)].rec = c
      /\ \A k \in 1 .. FirstCall(c) - 1 : calls[k].rec # c
  BY <1>3, Zenon DEF FirstCall
<1>5. FirstCall(c) <= i
  BY <1>4
<1> QED
  BY <1>4, <1>5

\* Everything in the inductive invariant holds before the first call.
LEMMA InitIInv == Init => IInv
<1> SUFFICES ASSUME Init PROVE IInv
  BY Zenon
<1>1. calls \in Seq(Call) /\ CallsInOrder
  <2>1. calls \in CallSequences
    BY Zenon DEF Init, InitClient
  <2>2. calls \in UNION {[1 .. m -> Call] : m \in 0 .. NLocs}
    BY <2>1, Zenon DEF CallSequences
  <2>3. PICK m \in 0 .. NLocs : calls \in [1 .. m -> Call]
    BY <2>2, Zenon
  <2>4. calls \in Seq(Call)
    BY <2>3, NLocsAssumption
  <2>5. CallsInOrder
    BY <2>1, Zenon DEF CallSequences, CallsInOrder
  <2> QED
    BY <2>4, <2>5, Zenon
<1>2. TypeOK
  <2>1. Inf \in Nat
    BY MaxDistAssumption DEF Inf
  <2> QED
    BY <1>1, <2>1, NLocsAssumption DEF Init, InitClient, InitHalo, TypeOK
<1>3. HeldLocations /\ RecordsDecided
  BY DEF Init, InitClient, InitHalo, HeldLocations, RecordsDecided
<1>4. Mirrored /\ MaxPhase /\ MinlocPhase /\ Flagged
  BY Zenon DEF Init, InitClient, InitHalo, Mirrored, MaxPhase, MinlocPhase, Flagged
<1> QED
  BY <1>1, <1>2, <1>3, <1>4, Zenon DEF IInv

-----------------------------------------------------------------------------
(* assignRecord *)

\* The call that rank r makes next
NextCall(r) == calls[pos[r] + 1]

\* The calls made are calls of the input.
LEMMA CallsMade ==
  ASSUME TypeOK, NEW r \in Rank, NEW i \in 1 .. pos[r]
  PROVE  i \in DOMAIN calls /\ calls[i] \in Call /\ calls[i].rec \in Rec /\ calls[i].loc \in Loc
<1>1. calls \in Seq(Call) /\ pos[r] \in 0 .. Len(calls)
  BY Zenon DEF TypeOK
<1>2. i \in DOMAIN calls
  BY <1>1
<1>3. calls[i] \in Call
  BY <1>1, <1>2
<1> QED
  BY <1>2, <1>3, Zenon DEF Call

\* The call that a rank makes next finds its record near exactly when the
\* record's first location is: known records were decided by it, and for an
\* unknown record this call is the first.
LEMMA FirstLocationDecides ==
  ASSUME TypeOK, RecordsDecided, NEW r \in Rank, pc[r] = "assign", pos[r] < Len(calls)
  PROVE  /\ NextCall(r) \in Call
         /\ NextCall(r).rec \in recordsInHalo[r] => Near(r, NextCall(r).rec)
         /\ NextCall(r).rec \in recordsOutsideHalo[r] => ~Near(r, NextCall(r).rec)
         /\ NextCall(r).rec \notin recordsInHalo[r] \cup recordsOutsideHalo[r] =>
              calls[FirstCall(NextCall(r).rec)].loc = NextCall(r).loc
<1> DEFINE p == pos[r] + 1
<1>1. p \in DOMAIN calls /\ calls \in Seq(Call) /\ pos[r] \in Nat /\ NextCall(r) = calls[p]
  BY DEF TypeOK, NextCall
<1>2. NextCall(r) \in Call
  BY <1>1
<1>3. ASSUME NextCall(r).rec \in recordsInHalo[r] PROVE Near(r, NextCall(r).rec)
  BY <1>3 DEF RecordsDecided
<1>4. ASSUME NextCall(r).rec \in recordsOutsideHalo[r] PROVE ~Near(r, NextCall(r).rec)
  BY <1>4 DEF RecordsDecided
<1>5. ASSUME NextCall(r).rec \notin recordsInHalo[r] \cup recordsOutsideHalo[r]
      PROVE  calls[FirstCall(NextCall(r).rec)].loc = NextCall(r).loc
  <2>1. \A i \in 1 .. pos[r] : calls[i].rec # NextCall(r).rec
    BY <1>5, Zenon DEF RecordsDecided
  <2>2. FirstCall(NextCall(r).rec) \in 1 .. p /\ calls[FirstCall(NextCall(r).rec)].rec = NextCall(r).rec
    BY <1>1, FirstCallIsFirst, Zenon
  <2>3. FirstCall(NextCall(r).rec) = p
    BY <1>1, <2>1, <2>2
  <2> QED
    BY <2>3, <1>1, Zenon
<1> QED
  BY <1>2, <1>3, <1>4, <1>5, Zenon

\* A call for a near record stores the location on both sides; a call for any
\* other record only remembers that it is outside.
LEMMA AssignRecordEffect ==
  ASSUME TypeOK, RecordsDecided, NEW r \in Rank, AssignRecord(r),
         NEW near, near = Near(r, NextCall(r).rec)
  PROVE  LET rec == NextCall(r).rec
             loc == NextCall(r).loc
         IN
         /\ NextCall(r) \in Call
         /\ pos[r] + 1 \in DOMAIN calls
         /\ pos' = [pos EXCEPT ![r] = @ + 1]
         /\ recordsInHalo' =
              IF near THEN [recordsInHalo EXCEPT ![r] = @ \cup {rec}] ELSE recordsInHalo
         /\ recordsOutsideHalo' =
              IF near THEN recordsOutsideHalo
              ELSE [recordsOutsideHalo EXCEPT ![r] = @ \cup {rec}]
         /\ haloLocVector' =
              IF near THEN [haloLocVector EXCEPT ![r] = Append(@, loc)] ELSE haloLocVector
         /\ haloLocRecords' =
              IF near THEN [haloLocRecords EXCEPT ![r] = Append(@, rec)] ELSE haloLocRecords
         /\ indx' = IF near THEN [indx EXCEPT ![r] = Append(@, loc)] ELSE indx
         /\ recnums' = IF near THEN [recnums EXCEPT ![r] = Append(@, rec)] ELSE recnums
         /\ recordDistancesFromCenter' =
              IF near /\ rec \notin recordsInHalo[r]
              THEN [recordDistancesFromCenter EXCEPT ![r][rec] =
                      distance[r][calls[FirstCall(rec)].loc]]
              ELSE recordDistancesFromCenter
         /\ ~near => rec \notin recordsInHalo[r]
         /\ near => rec \notin recordsOutsideHalo[r]
<1> DEFINE rec == NextCall(r).rec
           loc == NextCall(r).loc
<1>1. /\ pc[r] = "assign" /\ pos[r] < Len(calls)
      /\ pos' = [pos EXCEPT ![r] = @ + 1]
      /\ Assign(r, rec, loc)
      /\ indx' = IF rec \in recordsInHalo'[r]
                 THEN [indx EXCEPT ![r] = Append(@, loc)] ELSE indx
      /\ recnums' = IF rec \in recordsInHalo'[r]
                    THEN [recnums EXCEPT ![r] = Append(@, rec)] ELSE recnums
  BY Zenon DEF AssignRecord, NextCall
<1>2. /\ NextCall(r) \in Call
      /\ rec \in recordsInHalo[r] => Near(r, rec)
      /\ rec \in recordsOutsideHalo[r] => ~Near(r, rec)
      /\ rec \notin recordsInHalo[r] \cup recordsOutsideHalo[r] =>
           calls[FirstCall(rec)].loc = loc
  BY <1>1, FirstLocationDecides, Zenon
<1>3. pos[r] + 1 \in DOMAIN calls
  BY <1>1 DEF TypeOK
<1>4. (\/ rec \in recordsInHalo[r]
       \/ /\ rec \notin recordsInHalo[r] \cup recordsOutsideHalo[r]
          /\ distance[r][loc] <= Radius[r]) <=> near
  BY <1>2, Zenon DEF Near
<1>5. recordsInHalo \in [Rank -> SUBSET Rec]
  BY Zenon DEF TypeOK
<1>6. CASE near
  <2>1. rec \in recordsInHalo'[r]
    BY <1>1, <1>4, <1>5, <1>6, Zenon DEF Assign
  <2> QED
    BY <1>1, <1>2, <1>3, <1>4, <1>6, <2>1, Zenon DEF Assign
<1>7. CASE ~near
  <2>1. rec \notin recordsInHalo[r] /\ recordsInHalo' = recordsInHalo
    BY <1>1, <1>4, <1>7, Zenon DEF Assign
  <2> QED
    BY <1>1, <1>2, <1>3, <1>4, <1>7, <2>1, Zenon DEF Assign
<1> QED
  BY <1>6, <1>7, Zenon

\* Near and FirstCall only depend on the input.
LEMMA InputUnchanged ==
  ASSUME UNCHANGED <<calls, distance>>
  PROVE  /\ \A c : FirstCall(c)' = FirstCall(c)
         /\ \A r, c : Near(r, c)' <=> Near(r, c)
BY Zenon DEF FirstCall, Near

\* No step after the last call changes what the ranks hold.
LEMMA HeldLocationsUnchanged ==
  ASSUME HeldLocations, UNCHANGED <<calls, distance, pos, indx, recnums>>
  PROVE  HeldLocations'
BY InputUnchanged DEF HeldLocations

\* assignRecord preserves the inductive invariant.
LEMMA AssignRecordStep ==
  ASSUME IInv, NEW r \in Rank, AssignRecord(r)
  PROVE  IInv'
<1> DEFINE near == Near(r, NextCall(r).rec)
           rec == NextCall(r).rec
           loc == NextCall(r).loc
<1>0. /\ UNCHANGED <<calls, distance, pc, patchObsBool, maxSent, minlocSent>>
      /\ UNCHANGED globalUniqueConsecutiveLocIndices
      /\ pc[r] = "assign"
  BY Zenon DEF AssignRecord, result, mpi
<1>t. TypeOK /\ RecordsDecided
  BY Zenon DEF IInv
<1>1. NextCall(r) \in Call /\ pos[r] + 1 \in DOMAIN calls
  BY <1>t, AssignRecordEffect, Zenon
<1>2. pos' = [pos EXCEPT ![r] = @ + 1]
  BY <1>t, AssignRecordEffect, Zenon
<1>3. recordsInHalo' = IF near THEN [recordsInHalo EXCEPT ![r] = @ \cup {rec}] ELSE recordsInHalo
  BY <1>t, AssignRecordEffect
<1>4. recordsOutsideHalo' = IF near THEN recordsOutsideHalo
                            ELSE [recordsOutsideHalo EXCEPT ![r] = @ \cup {rec}]
  BY <1>t, AssignRecordEffect
<1>5. /\ haloLocVector' = IF near THEN [haloLocVector EXCEPT ![r] = Append(@, loc)]
                          ELSE haloLocVector
      /\ haloLocRecords' = IF near THEN [haloLocRecords EXCEPT ![r] = Append(@, rec)]
                           ELSE haloLocRecords
  BY <1>t, AssignRecordEffect
<1>6. /\ indx' = IF near THEN [indx EXCEPT ![r] = Append(@, loc)] ELSE indx
      /\ recnums' = IF near THEN [recnums EXCEPT ![r] = Append(@, rec)] ELSE recnums
  BY <1>t, AssignRecordEffect
<1>7. /\ recordDistancesFromCenter' =
           IF near /\ rec \notin recordsInHalo[r]
           THEN [recordDistancesFromCenter EXCEPT ![r][rec] =
                   distance[r][calls[FirstCall(rec)].loc]]
           ELSE recordDistancesFromCenter
      /\ ~near => rec \notin recordsInHalo[r]
      /\ near => rec \notin recordsOutsideHalo[r]
  BY <1>t, AssignRecordEffect
<1>8. /\ \A d : FirstCall(d)' = FirstCall(d)
      /\ \A q, d : Near(q, d)' <=> Near(q, d)
  BY <1>0, InputUnchanged, Zenon
<1>9. /\ calls \in Seq(Call)
      /\ rec \in Rec /\ loc \in Loc
      /\ calls[FirstCall(rec)].loc \in Loc
  <2>1. calls \in Seq(Call)
    BY <1>t, Zenon DEF TypeOK
  <2>2. rec \in Rec /\ loc \in Loc
    BY <1>1, Zenon DEF Call
  <2>3. FirstCall(rec) \in 1 .. pos[r] + 1
    BY <1>1, <2>1, FirstCallIsFirst, Zenon DEF NextCall
  <2>4. FirstCall(rec) \in DOMAIN calls
    BY <2>3, <2>1, <1>1
  <2>5. calls[FirstCall(rec)] \in Call
    BY <2>4, <2>1
  <2> QED
    BY <2>1, <2>2, <2>3, <2>5, Zenon DEF Call
<1> HIDE DEF near, rec, loc
<1>10. TypeOK'
  <2>1. distance[r][calls[FirstCall(rec)].loc] \in 0 .. Inf
    <3>1. distance[r] \in [Loc -> 0 .. MaxDist]
      BY <1>t, Zenon DEF TypeOK
    <3>2. distance[r][calls[FirstCall(rec)].loc] \in 0 .. MaxDist
      BY <3>1, <1>9, Zenon
    <3> QED
      BY <3>2, MaxDistAssumption DEF Inf
  <2>2. pos' \in [Rank -> 0 .. Len(calls)]
    BY <1>1, <1>2, <1>t DEF TypeOK
  <2>3. recordsInHalo' \in [Rank -> SUBSET Rec] /\ recordsOutsideHalo' \in [Rank -> SUBSET Rec]
    BY <1>3, <1>4, <1>9, <1>t, Zenon DEF TypeOK
  <2>4. recordDistancesFromCenter' \in [Rank -> [Rec -> 0 .. Inf]]
    <3>1. recordDistancesFromCenter \in [Rank -> [Rec -> 0 .. Inf]]
      BY <1>t, Zenon DEF TypeOK
    <3>2. [recordDistancesFromCenter EXCEPT ![r][rec] =
             distance[r][calls[FirstCall(rec)].loc]] \in [Rank -> [Rec -> 0 .. Inf]]
      BY <3>1, <2>1, <1>9, Zenon
    <3> QED
      BY <1>7, <3>1, <3>2, Zenon
  <2>5. indx' \in [Rank -> Seq(Loc)] /\ recnums' \in [Rank -> Seq(Rec)]
    <3>1. indx \in [Rank -> Seq(Loc)] /\ recnums \in [Rank -> Seq(Rec)]
      BY <1>t, Zenon DEF TypeOK
    <3>2. Append(indx[r], loc) \in Seq(Loc) /\ Append(recnums[r], rec) \in Seq(Rec)
      BY <3>1, <1>9
    <3> QED
      BY <1>6, <3>1, <3>2, Zenon
  <2>6. haloLocVector' \in [Rank -> Seq(Loc)] /\ haloLocRecords' \in [Rank -> Seq(Rec)]
    <3>1. haloLocVector \in [Rank -> Seq(Loc)] /\ haloLocRecords \in [Rank -> Seq(Rec)]
      BY <1>t, Zenon DEF TypeOK
    <3>2. Append(haloLocVector[r], loc) \in Seq(Loc) /\ Append(haloLocRecords[r], rec) \in Seq(Rec)
      BY <3>1, <1>9
    <3> QED
      BY <1>5, <3>1, <3>2, Zenon
  <2> QED
    BY <1>0, <1>t, <2>2, <2>3, <2>4, <2>5, <2>6 DEF TypeOK
<1>11. CallsInOrder'
  BY <1>0, Zenon DEF CallsInOrder, IInv
<1>12. Mirrored'
  <2> SUFFICES ASSUME NEW q \in Rank, pc[q] # "done"
               PROVE  haloLocVector'[q] = indx'[q] /\ haloLocRecords'[q] = recnums'[q]
    BY <1>0, Zenon DEF Mirrored
  <2>1. haloLocVector[q] = indx[q] /\ haloLocRecords[q] = recnums[q]
    BY Zenon DEF Mirrored, IInv
  <2> QED
    BY <1>5, <1>6, <1>t, <2>1, Zenon DEF TypeOK
<1>13. \A q \in Rank : pc[q] # "assign" => UNCHANGED <<pos[q], indx[q]>>
  BY <1>0, <1>2, <1>6, <1>t, Zenon DEF TypeOK
<1>14. MaxPhase'
  BY <1>0, <1>13, Zenon DEF MaxPhase, IInv
<1>15. MinlocPhase'
  BY <1>0, Zenon DEF MinlocPhase, IInv
<1>16. Flagged'
  <2>1. \A q \in Rank : pc[q] # "done"
    BY <1>0, Zenon DEF MinlocPhase, IInv
  <2> QED
    BY <1>0, <2>1, Zenon DEF Flagged, IInv
<1>17. near <=> Near(r, rec)
  BY Zenon DEF near, rec
<1>18. rec = calls[pos[r] + 1].rec /\ loc = calls[pos[r] + 1].loc
  BY Zenon DEF rec, loc, NextCall
<1>19. pos[r] \in Nat /\ pos'[r] = pos[r] + 1
  BY <1>1, <1>2, <1>t DEF TypeOK
<1>20. RecordsDecided'
  <2> SUFFICES ASSUME NEW q \in Rank
               PROVE  /\ \A d \in recordsInHalo'[q] \cup recordsOutsideHalo'[q] :
                           \E i \in 1 .. pos'[q] : calls[i].rec = d
                      /\ \A i \in 1 .. pos'[q] : \E d \in Rec :
                           /\ d = calls[i].rec
                           /\ d \in recordsInHalo'[q] <=> Near(q, d)
                           /\ pc[q] = "assign" =>
                                (d \in recordsOutsideHalo'[q] <=> ~Near(q, d))
                           /\ pc[q] # "done" /\ Near(q, d) =>
                                recordDistancesFromCenter'[q][d]
                                  = distance[q][calls[FirstCall(d)].loc]
    BY <1>0, <1>8 DEF RecordsDecided
  <2>0. /\ \A d \in recordsInHalo[q] \cup recordsOutsideHalo[q] :
             \E i \in 1 .. pos[q] : calls[i].rec = d
        /\ \A i \in 1 .. pos[q] :
             /\ calls[i].rec \in recordsInHalo[q] <=> Near(q, calls[i].rec)
             /\ pc[q] = "assign" =>
                  (calls[i].rec \in recordsOutsideHalo[q] <=> ~Near(q, calls[i].rec))
             /\ pc[q] # "done" /\ Near(q, calls[i].rec) =>
                  recordDistancesFromCenter[q][calls[i].rec]
                    = distance[q][calls[FirstCall(calls[i].rec)].loc]
             /\ calls[i].rec \in Rec
    <3>1. ASSUME NEW i \in 1 .. pos[q] PROVE calls[i].rec \in Rec
      BY <1>t, CallsMade, Zenon
    <3> QED
      BY <1>t, <3>1 DEF RecordsDecided
  <2>1. CASE q # r
    <3>1. /\ pos'[q] = pos[q]
          /\ recordsInHalo'[q] = recordsInHalo[q]
          /\ recordsOutsideHalo'[q] = recordsOutsideHalo[q]
          /\ recordDistancesFromCenter'[q] = recordDistancesFromCenter[q]
      BY <2>1, <1>2, <1>3, <1>4, <1>7, <1>t, Zenon DEF TypeOK
    <3> QED
      BY <2>0, <3>1
  <2>2. CASE q = r
    <3>0. /\ recordsInHalo'[r] = IF near THEN recordsInHalo[r] \cup {rec}
                                 ELSE recordsInHalo[r]
          /\ recordsOutsideHalo'[r] = IF near THEN recordsOutsideHalo[r]
                                      ELSE recordsOutsideHalo[r] \cup {rec}
      BY <1>3, <1>4, <1>t, Zenon DEF TypeOK
    <3>1. ASSUME NEW d \in recordsInHalo'[r] \cup recordsOutsideHalo'[r]
          PROVE  \E i \in 1 .. pos'[r] : calls[i].rec = d
      <4>1. CASE d = rec
        BY <4>1, <1>18, <1>19
      <4>2. CASE d # rec
        <5>1. d \in recordsInHalo[r] \cup recordsOutsideHalo[r]
          BY <3>0, <4>2
        <5> QED
          BY <5>1, <2>0, <2>2, <1>19
      <4> QED
        BY <4>1, <4>2, Zenon
    <3>2. ASSUME NEW i \in 1 .. pos'[r]
          PROVE  \E d \in Rec :
                   /\ d = calls[i].rec
                   /\ d \in recordsInHalo'[r] <=> Near(r, d)
                   /\ d \in recordsOutsideHalo'[r] <=> ~Near(r, d)
                   /\ Near(r, d) => recordDistancesFromCenter'[r][d]
                                      = distance[r][calls[FirstCall(d)].loc]
      <4>1. CASE calls[i].rec = rec
        <5>1. rec \in recordsInHalo'[r] <=> Near(r, rec)
          BY <3>0, <1>7, <1>17, Zenon
        <5>2. rec \in recordsOutsideHalo'[r] <=> ~Near(r, rec)
          BY <3>0, <1>7, <1>17, Zenon
        <5>3. ASSUME near
              PROVE  recordDistancesFromCenter'[r][rec] = distance[r][calls[FirstCall(rec)].loc]
          <6>1. CASE rec \in recordsInHalo[r]
            <7>1. PICK j \in 1 .. pos[r] : calls[j].rec = rec
              BY <6>1, <2>0, <2>2, Zenon
            <7>2. recordDistancesFromCenter[r][rec] = distance[r][calls[FirstCall(rec)].loc]
              BY <7>1, <2>0, <2>2, <1>0, <1>17, <5>3, Zenon
            <7> QED
              BY <7>2, <6>1, <1>7, Zenon
          <6>2. CASE rec \notin recordsInHalo[r]
            BY <6>2, <5>3, <1>7, <1>9, <1>t, Zenon DEF TypeOK
          <6> QED
            BY <6>1, <6>2, Zenon
        <5> QED
          BY <4>1, <5>1, <5>2, <5>3, <1>9, <1>17, Zenon
      <4>2. CASE calls[i].rec # rec
        <5>1. i \in 1 .. pos[r]
          BY <4>2, <1>18, <1>19
        <5>2. recordDistancesFromCenter'[r][calls[i].rec] = recordDistancesFromCenter[r][calls[i].rec]
          BY <4>2, <5>1, <1>7, <1>9, <1>t, <2>0, <2>2 DEF TypeOK
        <5>3. /\ calls[i].rec \in recordsInHalo'[r] <=> calls[i].rec \in recordsInHalo[r]
              /\ calls[i].rec \in recordsOutsideHalo'[r] <=> calls[i].rec \in recordsOutsideHalo[r]
          BY <4>2, <3>0, Zenon
        <5> QED
          BY <5>1, <5>2, <5>3, <2>0, <2>2, <1>0
      <4> QED
        BY <4>1, <4>2, Zenon
    <3> QED
      BY <2>2, <3>1, <3>2
  <2> QED
    BY <2>1, <2>2, Zenon
<1>21. HeldLocations'
  <2> SUFFICES ASSUME NEW q \in Rank
               PROVE  /\ Len(recnums'[q]) = Len(indx'[q])
                      /\ \A k \in DOMAIN indx'[q] : \E i \in 1 .. pos'[q] :
                           /\ calls[i] = [rec |-> recnums'[q][k], loc |-> indx'[q][k]]
                           /\ Near(q, calls[i].rec)
                      /\ \A i \in 1 .. pos'[q] : Near(q, calls[i].rec) =>
                           \E k \in DOMAIN indx'[q] :
                             calls[i] = [rec |-> recnums'[q][k], loc |-> indx'[q][k]]
                      /\ \A k, l \in DOMAIN indx'[q] : k < l => indx'[q][k] < indx'[q][l]
    BY <1>0, <1>8, Zenon DEF HeldLocations
  <2>0. /\ Len(recnums[q]) = Len(indx[q])
        /\ \A k \in DOMAIN indx[q] : \E i \in 1 .. pos[q] :
             /\ calls[i] = [rec |-> recnums[q][k], loc |-> indx[q][k]]
             /\ Near(q, calls[i].rec)
        /\ \A i \in 1 .. pos[q] : Near(q, calls[i].rec) =>
             \E k \in DOMAIN indx[q] :
               calls[i] = [rec |-> recnums[q][k], loc |-> indx[q][k]]
        /\ \A k, l \in DOMAIN indx[q] : k < l => indx[q][k] < indx[q][l]
    BY Zenon DEF HeldLocations, IInv
  <2>1. CASE q # r
    <3>1. pos'[q] = pos[q] /\ indx'[q] = indx[q] /\ recnums'[q] = recnums[q]
      BY <2>1, <1>2, <1>6, <1>t, Zenon DEF TypeOK
    <3> QED
      BY <2>0, <3>1
  <2>2. CASE q = r /\ ~near
    <3>1. indx'[q] = indx[q] /\ recnums'[q] = recnums[q]
      BY <2>2, <1>6, Zenon
    <3>2. \A i \in 1 .. pos'[q] : Near(q, calls[i].rec) => i \in 1 .. pos[q]
      BY <2>2, <1>17, <1>18, <1>19
    <3>3. \A i \in 1 .. pos[q] : i \in 1 .. pos'[q]
      BY <2>2, <1>19
    <3> QED
      BY <2>0, <3>1, <3>2, <3>3
  <2>3. CASE q = r /\ near
    <3> DEFINE n == Len(indx[r])
    <3>1. /\ indx[r] \in Seq(Loc) /\ recnums[r] \in Seq(Rec) /\ n \in Nat
          /\ indx'[r] = Append(indx[r], loc) /\ recnums'[r] = Append(recnums[r], rec)
      BY <2>3, <1>6, <1>t DEF TypeOK
    <3>2. /\ DOMAIN indx'[r] = 1 .. n + 1
          /\ DOMAIN indx[r] = 1 .. n
          /\ Len(recnums'[r]) = n + 1 /\ Len(indx'[r]) = n + 1
          /\ \A k \in 1 .. n : indx'[r][k] = indx[r][k] /\ recnums'[r][k] = recnums[r][k]
          /\ indx'[r][n + 1] = loc /\ recnums'[r][n + 1] = rec
      BY <3>1, <2>0, <2>3
    <3>3. calls[pos[r] + 1] = [rec |-> rec, loc |-> loc]
      BY <1>1, <1>18, Zenon DEF Call, NextCall
    <3> HIDE DEF n
    <3>4. ASSUME NEW k \in DOMAIN indx'[r]
          PROVE  \E i \in 1 .. pos'[r] :
                   /\ calls[i] = [rec |-> recnums'[r][k], loc |-> indx'[r][k]]
                   /\ Near(r, calls[i].rec)
      <4>1. CASE k = n + 1
        BY <4>1, <3>2, <3>3, <1>17, <1>18, <1>19, <2>3
      <4>2. CASE k \in 1 .. n
        <5>1. PICK i \in 1 .. pos[r] :
                /\ calls[i] = [rec |-> recnums[r][k], loc |-> indx[r][k]]
                /\ Near(r, calls[i].rec)
          <6>1. k \in DOMAIN indx[r]
            BY <4>2, <3>2, Zenon
          <6>2. \A m \in DOMAIN indx[r] : \E i \in 1 .. pos[r] :
                  /\ calls[i] = [rec |-> recnums[r][m], loc |-> indx[r][m]]
                  /\ Near(r, calls[i].rec)
            BY <2>0, <2>3, Zenon
          <6> QED
            BY <6>1, <6>2, Zenon
        <5>2. i \in 1 .. pos'[r]
          BY <1>19
        <5> QED
          BY <5>1, <5>2, <4>2, <3>2, Zenon
      <4> QED
        BY <4>1, <4>2, <3>1, <3>2
    <3>5. ASSUME NEW i \in 1 .. pos'[r], Near(r, calls[i].rec)
          PROVE  \E k \in DOMAIN indx'[r] :
                   calls[i] = [rec |-> recnums'[r][k], loc |-> indx'[r][k]]
      <4>1. CASE i = pos[r] + 1
        <5>1. n + 1 \in DOMAIN indx'[r]
          BY <3>1, <3>2
        <5>2. calls[i] = [rec |-> recnums'[r][n + 1], loc |-> indx'[r][n + 1]]
          BY <4>1, <3>2, <3>3, Zenon
        <5> QED
          BY <5>1, <5>2, Zenon
      <4>2. CASE i \in 1 .. pos[r]
        <5>1. PICK k \in DOMAIN indx[r] :
                calls[i] = [rec |-> recnums[r][k], loc |-> indx[r][k]]
          BY <4>2, <3>5, <2>0, <2>3, ZenonT(60)
        <5>2. k \in DOMAIN indx'[r]
          BY <3>1, <3>2
        <5> QED
          BY <5>1, <5>2, <3>2, Zenon
      <4> QED
        BY <4>1, <4>2, <1>19
    <3>6. ASSUME NEW k \in DOMAIN indx'[r], NEW l \in DOMAIN indx'[r], k < l
          PROVE  indx'[r][k] < indx'[r][l]
      <4>1. k \in 1 .. n
        BY <3>1, <3>2, <3>6
      <4>2. CASE l \in 1 .. n
        <5>1. indx[r][k] < indx[r][l]
          BY <4>1, <4>2, <3>2, <3>6, <2>0, <2>3, Zenon
        <5> QED
          BY <5>1, <4>1, <4>2, <3>2, Zenon
      <4>3. CASE l = n + 1
        <5>1. PICK i \in 1 .. pos[r] :
                calls[i] = [rec |-> recnums[r][k], loc |-> indx[r][k]]
          BY <4>1, <3>2, <2>0, <2>3, Zenon
        <5>2. i \in DOMAIN calls /\ i < pos[r] + 1
          BY <1>t, <1>19, CallsMade
        <5>3. calls[i].loc < calls[pos[r] + 1].loc
          BY <5>2, <1>1, Zenon DEF IInv, CallsInOrder
        <5>4. calls[i].loc = indx[r][k]
          BY <5>1
        <5> QED
          BY <5>3, <5>4, <4>1, <4>3, <3>2, <1>18, Zenon
      <4> QED
        BY <4>2, <4>3, <3>1, <3>2
    <3> QED
      BY <2>3, <3>2, <3>4, <3>5, <3>6, Zenon
  <2> QED
    BY <2>1, <2>2, <2>3, Zenon
<1> QED
  BY <1>10, <1>11, <1>12, <1>14, <1>15, <1>16, <1>20, <1>21, Zenon DEF IInv

-----------------------------------------------------------------------------
(* computePatchLocs *)

\* Contributing to the max reduction preserves the inductive invariant.
LEMMA ComputePatchLocsStep ==
  ASSUME IInv, NEW r \in Rank, ComputePatchLocs(r)
  PROVE  IInv'
<1>0. /\ pc[r] = "assign" /\ pos[r] = Len(calls)
      /\ UNCHANGED <<calls, distance, pos, indx, recnums, patchObsBool, minlocSent>>
      /\ UNCHANGED <<recordsInHalo, recordDistancesFromCenter, haloLocVector, haloLocRecords>>
      /\ UNCHANGED globalUniqueConsecutiveLocIndices
  BY Zenon DEF ComputePatchLocs, SendMax, client, result
<1>1. pc' = [pc EXCEPT ![r] = "max"]
  BY Zenon DEF ComputePatchLocs, SendMax
<1>2. recordsOutsideHalo' = [recordsOutsideHalo EXCEPT ![r] = {}]
  BY Zenon DEF ComputePatchLocs, SendMax
<1>3. maxSent' = [maxSent EXCEPT ![r] = LocalNglocs(r)]
  BY Zenon DEF ComputePatchLocs, SendMax
<1>t. TypeOK
  BY Zenon DEF IInv
<1>4. haloLocVector[r] = indx[r] /\ indx[r] \in Seq(Loc)
  BY <1>0, <1>t, Zenon DEF IInv, Mirrored, TypeOK
<1>5. LocalNglocs(r) = (IF indx[r] = <<>> THEN 0 ELSE indx[r][Len(indx[r])] + 1)
  BY <1>4, Zenon DEF LocalNglocs
<1>6. LocalNglocs(r) \in 0 .. NLocs
  <2>1. CASE indx[r] = <<>>
    BY <2>1, <1>5, NLocsAssumption
  <2>2. CASE indx[r] # <<>>
    <3>1. indx[r][Len(indx[r])] \in Loc
      BY <2>2, <1>4
    <3> QED
      BY <2>2, <3>1, <1>5, NLocsAssumption DEF Loc
  <2> QED
    BY <2>1, <2>2, Zenon
<1>7. TypeOK'
  <2>1. pc' \in [Rank -> {"assign", "max", "minloc", "done"}]
    BY <1>1, <1>t, Zenon DEF TypeOK
  <2>2. recordsOutsideHalo' \in [Rank -> SUBSET Rec]
    BY <1>2, <1>t, Zenon DEF TypeOK
  <2>3. maxSent' \in [Rank -> 0 .. NLocs]
    BY <1>3, <1>6, <1>t, Zenon DEF TypeOK
  <2> QED
    BY <1>0, <1>t, <2>1, <2>2, <2>3, Zenon DEF TypeOK
<1>8. CallsInOrder'
  BY <1>0, Zenon DEF CallsInOrder, IInv
<1>9. /\ \A q \in Rank : q # r => pc'[q] = pc[q] /\ maxSent'[q] = maxSent[q]
                                  /\ recordsOutsideHalo'[q] = recordsOutsideHalo[q]
      /\ pc'[r] = "max" /\ maxSent'[r] = LocalNglocs(r) /\ recordsOutsideHalo'[r] = {}
  BY <1>1, <1>2, <1>3, <1>t, Zenon DEF TypeOK
<1>10. HeldLocations'
  BY <1>0, HeldLocationsUnchanged, Zenon DEF IInv
<1>11. RecordsDecided'
  BY <1>0, <1>9, InputUnchanged, SMTT(30) DEF IInv, RecordsDecided
<1>12. Mirrored'
  BY <1>0, <1>9, Zenon DEF IInv, Mirrored
<1>13. MaxPhase'
  BY <1>0, <1>5, <1>9, Zenon DEF IInv, MaxPhase
<1>14. \A q \in Rank : minlocSent[q] = <<>> /\ pc[q] # "done" /\ pc[q] # "minloc"
  BY <1>0, Zenon DEF IInv, MinlocPhase
<1>15. MinlocPhase'
  BY <1>0, <1>9, <1>14, Zenon DEF MinlocPhase
<1>16. Flagged'
  BY <1>0, <1>9, <1>14, Zenon DEF IInv, Flagged
<1> QED
  BY <1>7, <1>8, <1>10, <1>11, <1>12, <1>13, <1>15, <1>16 DEF IInv

\* What the max reduction returned stays the same, and so does what each rank
\* has to send to the minloc reduction.
LEMMA ReductionsUnchanged ==
  /\ maxSent' = maxSent => nglocs' = nglocs
  /\ UNCHANGED <<calls, distance>> => \A r, g : SentDistance(r, g)' = SentDistance(r, g)
  /\ minlocSent' = minlocSent => \A r, g : IsPatch(r, g)' <=> IsPatch(r, g)
<1>1. maxSent' = maxSent => nglocs' = nglocs
  BY Zenon DEF nglocs
<1>2. ASSUME UNCHANGED <<calls, distance>>, NEW r, NEW g
      PROVE  SentDistance(r, g)' = SentDistance(r, g)
  <2>1. KeptCalls(r, g)' = KeptCalls(r, g)
    BY <1>2, InputUnchanged, Zenon DEF KeptCalls
  <2>2. (CHOOSE i \in KeptCalls(r, g) : TRUE)' = CHOOSE i \in KeptCalls(r, g) : TRUE
    BY <2>1, Zenon
  <2> QED
    BY <1>2, <2>1, <2>2, InputUnchanged, Zenon DEF SentDistance
<1>3. ASSUME minlocSent' = minlocSent, NEW r, NEW g
      PROVE  IsPatch(r, g)' <=> IsPatch(r, g)
  BY <1>3, Zenon DEF IsPatch, Owner, Closest
<1> QED
  BY <1>1, <1>2, <1>3, Zenon

\* What computePatchLocs puts in dist_and_lidx_loc is, for each location, the
\* distance of the first location of its record if the rank holds it.
LEMMA DistLocIsSentDistance ==
  ASSUME TypeOK, CallsInOrder, HeldLocations, RecordsDecided, Mirrored,
         NEW r \in Rank, pc[r] = "max", pos[r] = Len(calls)
  PROVE  DistLoc(r) = [k \in 1 .. nglocs |-> SentDistance(r, k - 1)]
<1>1. /\ haloLocVector[r] = indx[r] /\ haloLocRecords[r] = recnums[r]
      /\ indx[r] \in Seq(Loc) /\ recnums[r] \in Seq(Rec) /\ calls \in Seq(Call)
  BY Zenon DEF Mirrored, TypeOK
<1> SUFFICES ASSUME NEW k \in 1 .. nglocs
             PROVE  (IF k - 1 \in Range(indx[r])
                     THEN LET j == CHOOSE j \in DOMAIN indx[r] : indx[r][j] = k - 1
                          IN recordDistancesFromCenter[r][recnums[r][j]]
                     ELSE Inf) = SentDistance(r, k - 1)
  BY <1>1, Zenon DEF DistLoc
<1> DEFINE g == k - 1
           kept == {i \in DOMAIN calls : calls[i].loc = g /\ Near(r, calls[i].rec)}
<1> HIDE DEF g
<1>2. SentDistance(r, g) =
        IF kept = {} THEN Inf
        ELSE distance[r][calls[FirstCall(calls[CHOOSE i \in kept : TRUE].rec)].loc]
  BY Zenon DEF SentDistance, KeptCalls
<1>3. CASE g \notin Range(indx[r])
  <2>1. kept = {}
    <3> SUFFICES ASSUME NEW i \in kept PROVE FALSE
      BY Zenon
    <3>1. i \in 1 .. pos[r]
      BY <1>1
    <3>2. PICK l \in DOMAIN indx[r] : calls[i] = [rec |-> recnums[r][l], loc |-> indx[r][l]]
      BY <3>1, Zenon DEF HeldLocations
    <3>3. indx[r][l] = g
      BY <3>2
    <3> QED
      BY <3>3, <1>3, Zenon DEF Range
  <2> QED
    BY <2>1, <1>2, <1>3, Zenon DEF g
<1>4. CASE g \in Range(indx[r])
  <2> DEFINE j == CHOOSE j \in DOMAIN indx[r] : indx[r][j] = g
  <2>1. j \in DOMAIN indx[r] /\ indx[r][j] = g
    BY <1>4, Zenon DEF Range
  <2> HIDE DEF j
  <2>2. PICK i \in 1 .. pos[r] : /\ calls[i] = [rec |-> recnums[r][j], loc |-> indx[r][j]]
                                 /\ Near(r, calls[i].rec)
    BY <2>1, Zenon DEF HeldLocations
  <2>3. i \in kept /\ calls[i].rec = recnums[r][j] /\ calls[i].loc = g
    BY <2>1, <2>2, <1>1
  <2>4. ASSUME NEW m \in kept PROVE m = i
    <3>1. m \in DOMAIN calls /\ i \in DOMAIN calls /\ calls[m].loc = calls[i].loc
      BY <2>3, Zenon
    <3>2. calls[i].loc \in Int
      BY <2>2, CallsMade, NLocsAssumption DEF Loc
    <3> QED
      BY <3>1, <3>2, <1>1 DEF CallsInOrder
  <2>5. (CHOOSE m \in kept : TRUE) = i
    BY <2>3, <2>4, Zenon
  <2>6. SentDistance(r, g) = distance[r][calls[FirstCall(calls[i].rec)].loc]
    BY <1>2, <2>3, <2>5, Zenon
  <2>7. recordDistancesFromCenter[r][calls[i].rec] = distance[r][calls[FirstCall(calls[i].rec)].loc]
    BY <2>2, Zenon DEF RecordsDecided
  <2> QED
    BY <1>4, <2>3, <2>6, <2>7, Zenon DEF g, j
<1> QED
  BY <1>3, <1>4, Zenon

\* Contributing to the minloc reduction, or leaving because no rank holds any
\* location, preserves the inductive invariant.
LEMMA SendMinlocStep ==
  ASSUME IInv, NEW r \in Rank, SendMinloc(r)
  PROVE  IInv'
<1>0. /\ pc[r] = "max" /\ \A s \in Rank : pc[s] # "assign"
      /\ UNCHANGED <<calls, distance, pos, indx, recnums, patchObsBool, maxSent>>
      /\ UNCHANGED <<recordsInHalo, recordsOutsideHalo, recordDistancesFromCenter>>
      /\ UNCHANGED <<haloLocVector, haloLocRecords, globalUniqueConsecutiveLocIndices>>
  BY Zenon DEF SendMinloc, client, halo, result
<1>t. TypeOK
  BY Zenon DEF IInv
<1>1. nglocs \in 0 .. NLocs /\ \A s \in Rank : maxSent[s] <= nglocs
  BY <1>t, NglocsBound, Zenon DEF TypeOK
<1>2. nglocs' = nglocs /\ \A s, g : SentDistance(s, g)' = SentDistance(s, g)
  BY <1>0, ReductionsUnchanged, Zenon
<1>3. minlocSent[r] = <<>> /\ pos[r] = Len(calls)
  BY <1>0, Zenon DEF IInv, MinlocPhase, MaxPhase
<1>4. DistLoc(r) = [k \in 1 .. nglocs |-> SentDistance(r, k - 1)]
  BY <1>0, <1>3, DistLocIsSentDistance, Zenon DEF IInv
<1>5. CallsInOrder' /\ HeldLocations'
  <2>1. CallsInOrder'
    BY <1>0, Zenon DEF IInv, CallsInOrder
  <2> QED
    BY <1>0, <2>1, HeldLocationsUnchanged, Zenon DEF IInv
<1>6. CASE /\ nglocs > 0
           /\ minlocSent' = [minlocSent EXCEPT ![r] = DistLoc(r)]
           /\ pc' = [pc EXCEPT ![r] = "minloc"]
  <2>1. DistLoc(r) \in Seq(0 .. Inf)
    <3>1. /\ haloLocVector[r] \in Seq(Loc) /\ haloLocRecords[r] \in Seq(Rec)
          /\ DOMAIN haloLocVector[r] = DOMAIN haloLocRecords[r]
      <4>1. haloLocVector[r] = indx[r] /\ haloLocRecords[r] = recnums[r]
        BY <1>0, Zenon DEF IInv, Mirrored
      <4>2. indx[r] \in Seq(Loc) /\ recnums[r] \in Seq(Rec)
        BY <1>t, Zenon DEF TypeOK
      <4>3. Len(recnums[r]) = Len(indx[r])
        BY Zenon DEF IInv, HeldLocations
      <4> QED
        BY <4>1, <4>2, <4>3
    <3>2. recordDistancesFromCenter[r] \in [Rec -> 0 .. Inf] /\ Inf \in Nat
      BY <1>t, MaxDistAssumption DEF TypeOK, Inf
    <3>3. ASSUME NEW k \in 1 .. nglocs PROVE DistLoc(r)[k] \in 0 .. Inf
      <4> DEFINE j == CHOOSE j \in DOMAIN haloLocVector[r] : haloLocVector[r][j] = k - 1
      <4>1. CASE k - 1 \in Range(haloLocVector[r])
        <5>1. j \in DOMAIN haloLocVector[r]
          BY <4>1, Zenon DEF Range
        <5>2. DistLoc(r)[k] = recordDistancesFromCenter[r][haloLocRecords[r][j]]
          BY <4>1, Zenon DEF DistLoc
        <5> HIDE DEF j
        <5>3. haloLocRecords[r][j] \in Rec
          BY <5>1, <3>1
        <5> QED
          BY <5>2, <5>3, <3>2, Zenon
      <4>2. CASE k - 1 \notin Range(haloLocVector[r])
        BY <4>2, <3>2 DEF DistLoc
      <4> QED
        BY <4>1, <4>2, Zenon
    <3>4. DistLoc(r) = [k \in 1 .. nglocs |-> DistLoc(r)[k]]
      BY DEF DistLoc
    <3>5. DistLoc(r) \in [1 .. nglocs -> 0 .. Inf]
      BY <3>3, <3>4, Zenon
    <3>6. nglocs \in Nat
      BY <1>1, NLocsAssumption
    <3> QED
      BY <3>5, <3>6, FunctionIsSeq, Zenon
  <2>2. /\ \A q \in Rank : q # r => pc'[q] = pc[q] /\ minlocSent'[q] = minlocSent[q]
        /\ pc'[r] = "minloc" /\ minlocSent'[r] = DistLoc(r)
    BY <1>6, <1>t, Zenon DEF TypeOK
  <2>3. TypeOK'
    <3>1. pc' \in [Rank -> {"assign", "max", "minloc", "done"}]
      BY <1>6, <1>t, Zenon DEF TypeOK
    <3>2. minlocSent' \in [Rank -> Seq(0 .. Inf)]
      BY <1>6, <2>1, <1>t, Zenon DEF TypeOK
    <3> QED
      BY <1>0, <1>t, <3>1, <3>2, Zenon DEF TypeOK
  <2>4. RecordsDecided'
    BY <1>0, <2>2, InputUnchanged DEF IInv, RecordsDecided
  <2>5. Mirrored' /\ MaxPhase'
    BY <1>0, <2>2, Zenon DEF IInv, Mirrored, MaxPhase
  <2>6. DistLoc(r) # <<>>
    <3>1. 1 \in DOMAIN DistLoc(r)
      BY <1>1, <1>6 DEF DistLoc
    <3> QED
      BY <3>1
  <2>7. \A q \in Rank : pc[q] # "done"
    <3> SUFFICES ASSUME NEW q \in Rank, pc[q] = "done" PROVE FALSE
      BY Zenon
    <3>1. nglocs = 0 \/ \A s \in Rank : minlocSent[s] # <<>>
      BY Zenon DEF IInv, MinlocPhase
    <3>2. nglocs # 0
      BY <1>1, <1>6
    <3> QED
      BY <3>1, <3>2, <1>3, Zenon
  <2>8. MinlocPhase'
    <3> SUFFICES ASSUME NEW q \in Rank
                 PROVE  /\ pc'[q] \in {"assign", "max"} => minlocSent'[q] = <<>>
                        /\ pc'[q] = "minloc" => minlocSent'[q] # <<>>
                        /\ minlocSent'[q] # <<>> =>
                             /\ \A s \in Rank : pc'[s] # "assign"
                             /\ minlocSent'[q] =
                                  [k \in 1 .. nglocs |-> SentDistance(q, k - 1)]
                        /\ pc'[q] # "done"
      BY <1>2, Zenon DEF MinlocPhase
    <3>1. CASE q = r
      BY <3>1, <1>0, <1>4, <2>2, <2>6, Zenon
    <3>2. CASE q # r
      <4>1. /\ pc[q] \in {"assign", "max"} => minlocSent[q] = <<>>
            /\ pc[q] = "minloc" => minlocSent[q] # <<>>
            /\ minlocSent[q] # <<>> =>
                 minlocSent[q] = [k \in 1 .. nglocs |-> SentDistance(q, k - 1)]
        BY Zenon DEF IInv, MinlocPhase
      <4> QED
        BY <3>2, <4>1, <1>0, <2>2, <2>7, Zenon
    <3> QED
      BY <3>1, <3>2, Zenon
  <2>9. Flagged'
    BY <1>0, <2>2, <2>7, Zenon DEF IInv, Flagged
  <2> QED
    BY <1>5, <2>3, <2>4, <2>5, <2>8, <2>9, Zenon DEF IInv
<1>7. CASE /\ nglocs = 0
           /\ pc' = [pc EXCEPT ![r] = "done"]
           /\ minlocSent' = minlocSent
  <2>1. /\ \A q \in Rank : q # r => pc'[q] = pc[q]
        /\ pc'[r] = "done"
    BY <1>7, <1>t, Zenon DEF TypeOK
  <2>2. TypeOK'
    <3>1. pc' \in [Rank -> {"assign", "max", "minloc", "done"}]
      BY <1>7, <1>t, Zenon DEF TypeOK
    <3> QED
      BY <1>0, <1>7, <1>t, <3>1, Zenon DEF TypeOK
  <2>3. RecordsDecided'
    BY <1>0, <2>1, InputUnchanged, SMTT(30) DEF IInv, RecordsDecided
  <2>4. Mirrored' /\ MaxPhase'
    BY <1>0, <2>1, Zenon DEF IInv, Mirrored, MaxPhase
  <2>5. MinlocPhase'
    BY <1>0, <1>2, <1>7, <2>1 DEF IInv, MinlocPhase
  <2>6. indx[r] = <<>>
    <3>1. maxSent[r] = 0
      BY <1>1, <1>7, <1>t DEF TypeOK
    <3>2. maxSent[r] = IF indx[r] = <<>> THEN 0 ELSE indx[r][Len(indx[r])] + 1
      BY <1>0, Zenon DEF IInv, MaxPhase
    <3>3. ASSUME indx[r] # <<>> PROVE indx[r][Len(indx[r])] \in Nat
      <4>1. indx[r] \in Seq(Loc)
        BY <1>t, Zenon DEF TypeOK
      <4>2. indx[r][Len(indx[r])] \in Loc
        BY <3>3, <4>1
      <4> QED
        BY <4>2, NLocsAssumption DEF Loc
    <3> QED
      BY <3>1, <3>2, <3>3
  <2>7. Flagged'
    <3>1. \A q, g : IsPatch(q, g)' <=> IsPatch(q, g)
      BY <1>7, ReductionsUnchanged, Zenon
    <3>2. patchObsBool[r] = <<>>
      BY <1>0, Zenon DEF IInv, Flagged
    <3>3. [i \in DOMAIN indx[r] |-> IsPatch(r, indx[r][i])] = <<>>
      BY <2>6
    <3>4. ASSUME NEW q \in Rank, q # r, pc'[q] = "done"
          PROVE  patchObsBool'[q] = [i \in DOMAIN indx[q] |-> IsPatch(q, indx[q][i])]'
      <4>1. patchObsBool[q] = [i \in DOMAIN indx[q] |-> IsPatch(q, indx[q][i])]
        BY <2>1, <3>4, Zenon DEF IInv, Flagged
      <4> QED
        BY <4>1, <3>1, <1>0, Zenon
    <3>5. patchObsBool'[r] = [i \in DOMAIN indx[r] |-> IsPatch(r, indx[r][i])]'
      BY <3>1, <3>2, <3>3, <1>0, Zenon
    <3> QED
      BY <1>0, <2>1, <3>4, <3>5, Zenon DEF IInv, Flagged
  <2> QED
    BY <1>5, <2>2, <2>3, <2>4, <2>5, <2>7, Zenon DEF IInv
<1> QED
  BY <1>6, <1>7, Zenon DEF SendMinloc

\* The indices that computeGlobalUniqueConsecutiveLocIndices stores are
\* counts of locations.
LEMMA ConsecutiveIndicesType ==
  ASSUME TypeOK, NEW r \in Rank
  PROVE  ConsecutiveIndices(r) \in Seq(Nat)
<1>1. nglocs \in Nat
  BY NglocsBound, NLocsAssumption DEF TypeOK
<1>2. IsFiniteSet(0 .. nglocs - 1)
  BY <1>1, FS_Interval
<1>3. \A s, g : IsFiniteSet(PatchBelow(s, g)) /\ IsFiniteSet(PatchOnPreviousRanks(s))
  BY <1>2, FS_Subset, Zenon DEF PatchBelow, PatchOnPreviousRanks
<1>4. \A s, g : /\ Cardinality(PatchBelow(s, g)) \in Nat
                /\ Cardinality(PatchOnPreviousRanks(s)) \in Nat
  BY <1>3, FS_CardinalityType, Zenon
<1>5. Cardinality(Range(haloLocVector[r])) \in Nat
  <2>1. haloLocVector[r] \in Seq(Loc)
    BY Zenon DEF TypeOK
  <2>2. Range(haloLocVector[r]) \subseteq Loc
    BY <2>1 DEF Range
  <2>3. IsFiniteSet(Loc)
    BY NLocsAssumption, FS_Interval DEF Loc
  <2> QED
    BY <2>2, <2>3, FS_Subset, FS_CardinalityType, Zenon
<1>6. ConsecutiveIndices(r) \in [1 .. Cardinality(Range(haloLocVector[r])) -> Nat]
  BY <1>4 DEF ConsecutiveIndices
<1> QED
  BY <1>5, <1>6

\* Storing the patch flags and the indices preserves the inductive invariant.
LEMMA FinishPatchLocsStep ==
  ASSUME IInv, NEW r \in Rank, FinishPatchLocs(r)
  PROVE  IInv'
<1>0. /\ pc[r] = "minloc" /\ \A s \in Rank : minlocSent[s] # <<>>
      /\ UNCHANGED <<calls, distance, pos, indx, recnums, maxSent, minlocSent>>
      /\ UNCHANGED <<recordsInHalo, recordsOutsideHalo>>
  BY Zenon DEF FinishPatchLocs, client, mpi
<1>1. patchObsBool' = [patchObsBool EXCEPT ![r] =
         [i \in DOMAIN haloLocVector[r] |-> IsPatch(r, haloLocVector[r][i])]]
  BY Zenon DEF FinishPatchLocs
<1>2. globalUniqueConsecutiveLocIndices' =
        [globalUniqueConsecutiveLocIndices EXCEPT ![r] = ConsecutiveIndices(r)]
  BY Zenon DEF FinishPatchLocs
<1>3. recordDistancesFromCenter' = [recordDistancesFromCenter EXCEPT ![r] = [c \in Rec |-> Inf]]
  BY Zenon DEF FinishPatchLocs
<1>4. /\ haloLocVector' = [haloLocVector EXCEPT ![r] = <<>>]
      /\ haloLocRecords' = [haloLocRecords EXCEPT ![r] = <<>>]
  BY Zenon DEF FinishPatchLocs
<1>5. pc' = [pc EXCEPT ![r] = "done"]
  BY Zenon DEF FinishPatchLocs
<1>t. TypeOK
  BY Zenon DEF IInv
<1>6. haloLocVector[r] = indx[r] /\ indx[r] \in Seq(Loc)
  BY <1>0, <1>t, Zenon DEF IInv, Mirrored, TypeOK
<1>7. TypeOK'
  <2>1. [i \in DOMAIN haloLocVector[r] |-> IsPatch(r, haloLocVector[r][i])] \in Seq(BOOLEAN)
    <3> DEFINE flags == [i \in DOMAIN haloLocVector[r] |-> IsPatch(r, haloLocVector[r][i])]
    <3>1. DOMAIN haloLocVector[r] = 1 .. Len(indx[r]) /\ Len(indx[r]) \in Nat
      BY <1>6
    <3>2. \A g : IsPatch(r, g) \in BOOLEAN
      BY DEF IsPatch
    <3>3. flags \in [1 .. Len(indx[r]) -> BOOLEAN]
      BY <3>1, <3>2, Zenon
    <3> QED
      BY <3>1, <3>3, FunctionIsSeq, Zenon
  <2>2. patchObsBool' \in [Rank -> Seq(BOOLEAN)]
    BY <2>1, <1>1, <1>t, Zenon DEF TypeOK
  <2>3. globalUniqueConsecutiveLocIndices' \in [Rank -> Seq(Nat)]
    BY <1>2, <1>t, ConsecutiveIndicesType, Zenon DEF TypeOK
  <2>4. recordDistancesFromCenter' \in [Rank -> [Rec -> 0 .. Inf]]
    <3>1. [c \in Rec |-> Inf] \in [Rec -> 0 .. Inf]
      BY MaxDistAssumption DEF Inf
    <3> QED
      BY <3>1, <1>3, <1>t, Zenon DEF TypeOK
  <2>5. haloLocVector' \in [Rank -> Seq(Loc)] /\ haloLocRecords' \in [Rank -> Seq(Rec)]
    BY <1>4, <1>t DEF TypeOK
  <2>6. pc' \in [Rank -> {"assign", "max", "minloc", "done"}]
    BY <1>5, <1>t, Zenon DEF TypeOK
  <2> QED
    BY <1>0, <1>t, <2>2, <2>3, <2>4, <2>5, <2>6, Zenon DEF TypeOK
<1>8. /\ \A q \in Rank : q # r =>
           /\ pc'[q] = pc[q]
           /\ patchObsBool'[q] = patchObsBool[q]
           /\ recordDistancesFromCenter'[q] = recordDistancesFromCenter[q]
           /\ haloLocVector'[q] = haloLocVector[q]
           /\ haloLocRecords'[q] = haloLocRecords[q]
      /\ pc'[r] = "done"
      /\ patchObsBool'[r] = [i \in DOMAIN indx[r] |-> IsPatch(r, indx[r][i])]
  BY <1>1, <1>3, <1>4, <1>5, <1>6, <1>t, Zenon DEF TypeOK
<1>9. CallsInOrder' /\ HeldLocations'
  <2>1. CallsInOrder'
    BY <1>0, Zenon DEF IInv, CallsInOrder
  <2> QED
    BY <1>0, <2>1, HeldLocationsUnchanged, Zenon DEF IInv
<1>10. RecordsDecided'
  <2>1. RecordsDecided
    BY Zenon DEF IInv
  <2>2. /\ \A c : FirstCall(c)' = FirstCall(c)
        /\ \A q, c : Near(q, c)' <=> Near(q, c)
    BY <1>0, InputUnchanged, Zenon
  <2>3. \A q \in Rank : q # r => pc'[q] = pc[q] /\ recordDistancesFromCenter'[q] = recordDistancesFromCenter[q]
    BY <1>8, Zenon
  <2>4. pc'[r] = "done" /\ "done" # "assign"
    BY <1>8
  <2> QED
    BY <1>0, <2>1, <2>2, <2>3, <2>4, SMT DEF RecordsDecided
<1>11. Mirrored' /\ MaxPhase'
  BY <1>0, <1>8 DEF IInv, Mirrored, MaxPhase
<1>12. MinlocPhase'
  <2>1. nglocs' = nglocs /\ \A s, g : SentDistance(s, g)' = SentDistance(s, g)
    BY <1>0, ReductionsUnchanged, Zenon
  <2> QED
    BY <1>0, <1>8, <2>1, SMTT(30) DEF IInv, MinlocPhase
<1>13. Flagged'
  <2>1. \A q, g : IsPatch(q, g)' <=> IsPatch(q, g)
    BY <1>0, ReductionsUnchanged, Zenon
  <2>2. ASSUME NEW q \in Rank, pc'[q] = "done"
        PROVE  patchObsBool'[q] = [i \in DOMAIN indx[q] |-> IsPatch(q, indx[q][i])]'
    <3>1. patchObsBool'[q] = [i \in DOMAIN indx[q] |-> IsPatch(q, indx[q][i])]
      BY <1>8, <2>2, Zenon DEF IInv, Flagged
    <3> QED
      BY <3>1, <2>1, <1>0, Zenon
  <2>3. ASSUME NEW q \in Rank, pc'[q] # "done"
        PROVE  patchObsBool'[q] = <<>>
    BY <1>8, <2>3, Zenon DEF IInv, Flagged
  <2> QED
    BY <2>2, <2>3, Zenon DEF Flagged
<1> QED
  BY <1>7, <1>9, <1>10, <1>11, <1>12, <1>13, Zenon DEF IInv

-----------------------------------------------------------------------------
(* The theorems *)

\* A step that changes no variable preserves the inductive invariant.
LEMMA StutterStep ==
  ASSUME IInv, UNCHANGED vars
  PROVE  IInv'
<1>0. /\ UNCHANGED <<calls, distance, pos, indx, recnums, pc, maxSent, minlocSent>>
      /\ UNCHANGED <<recordsInHalo, recordsOutsideHalo, recordDistancesFromCenter>>
      /\ UNCHANGED <<haloLocVector, haloLocRecords, patchObsBool>>
      /\ UNCHANGED globalUniqueConsecutiveLocIndices
  BY Zenon DEF vars, client, halo, result, mpi
<1>1. TypeOK' /\ CallsInOrder' /\ Mirrored' /\ MaxPhase'
  BY <1>0, Zenon DEF IInv, TypeOK, CallsInOrder, Mirrored, MaxPhase
<1>2. HeldLocations'
  BY <1>0, HeldLocationsUnchanged, Zenon DEF IInv
<1>3. RecordsDecided'
  BY <1>0, InputUnchanged, SMTT(30) DEF IInv, RecordsDecided
<1>4. MinlocPhase'
  BY <1>0, ReductionsUnchanged DEF IInv, MinlocPhase
<1>5. Flagged'
  <2>1. \A q, g : IsPatch(q, g)' <=> IsPatch(q, g)
    BY <1>0, ReductionsUnchanged, Zenon
  <2> QED
    BY <1>0, <2>1, Zenon DEF IInv, Flagged
<1> QED
  BY <1>1, <1>2, <1>3, <1>4, <1>5, Zenon DEF IInv

\* The inductive invariant holds in every reachable state of the Halo
\* distribution.
THEOREM Invariance == Spec => []IInv
<1>1. Init => IInv
  BY InitIInv, Zenon
<1>2. IInv /\ [Next]_vars => IInv'
  <2> SUFFICES ASSUME IInv, [Next]_vars PROVE IInv'
    BY Zenon
  <2>1. ASSUME NEW r \in Rank, AssignRecord(r) PROVE IInv'
    BY <2>1, AssignRecordStep, Zenon
  <2>2. ASSUME NEW r \in Rank, ComputePatchLocs(r) PROVE IInv'
    BY <2>2, ComputePatchLocsStep
  <2>3. ASSUME NEW r \in Rank, SendMinloc(r) PROVE IInv'
    BY <2>3, SendMinlocStep, Zenon
  <2>4. ASSUME NEW r \in Rank, FinishPatchLocs(r) PROVE IInv'
    BY <2>4, FinishPatchLocsStep, Zenon
  <2>5. ASSUME UNCHANGED vars PROVE IInv'
    BY <2>5, StutterStep, Zenon
  <2> QED
    BY <2>1, <2>2, <2>3, <2>4, <2>5 DEF Next, Step, Terminated
<1> QED
  BY <1>1, <1>2, PTL DEF Spec

\* Every variable of the Halo distribution keeps its type on every rank.
THEOREM TypeCorrect == Spec => []TypeOK
<1>1. IInv => TypeOK
  BY DEF IInv
<1> QED
  BY <1>1, Invariance, PTL

\* Two calls for the same location are the same call.
LEMMA OneCallPerLocation ==
  ASSUME TypeOK, CallsInOrder, NEW i \in DOMAIN calls, NEW j \in DOMAIN calls,
         calls[i].loc = calls[j].loc
  PROVE  i = j
<1>1. calls \in Seq(Call)
  BY Zenon DEF TypeOK
<1>2. calls[i] \in Call
  BY <1>1
<1>3. calls[i].loc \in Int
  BY <1>2, NLocsAssumption DEF Call, Loc
<1> QED
  BY <1>1, <1>3 DEF CallsInOrder

\* The inductive invariant implies that records are held whole.
LEMMA HoldsWholeRecords ==
  ASSUME IInv
  PROVE  WholeRecords
<1> SUFFICES ASSUME NEW r \in Rank, NEW i \in 1 .. pos[r]
             PROVE  calls[i].loc \in Range(indx[r]) <=> Near(r, calls[i].rec)
  BY Zenon DEF WholeRecords
<1>t. TypeOK /\ CallsInOrder /\ HeldLocations
  BY Zenon DEF IInv
<1>0. i \in DOMAIN calls
  BY <1>t, CallsMade, Zenon
<1>1. ASSUME calls[i].loc \in Range(indx[r]) PROVE Near(r, calls[i].rec)
  <2>1. PICK k \in DOMAIN indx[r] : indx[r][k] = calls[i].loc
    BY <1>1, Zenon DEF Range
  <2>2. PICK j \in 1 .. pos[r] : /\ calls[j] = [rec |-> recnums[r][k], loc |-> indx[r][k]]
                                 /\ Near(r, calls[j].rec)
    BY <2>1, <1>t, Zenon DEF HeldLocations
  <2>3. j \in DOMAIN calls /\ calls[j].loc = calls[i].loc
    BY <2>1, <2>2, <1>t, CallsMade
  <2>4. j = i
    BY <2>3, <1>0, <1>t, OneCallPerLocation, Zenon
  <2> QED
    BY <2>2, <2>4, Zenon
<1>2. ASSUME Near(r, calls[i].rec) PROVE calls[i].loc \in Range(indx[r])
  <2>1. PICK k \in DOMAIN indx[r] : calls[i] = [rec |-> recnums[r][k], loc |-> indx[r][k]]
    BY <1>2, <1>t, Zenon DEF HeldLocations
  <2>2. calls[i].loc = indx[r][k]
    BY <2>1
  <2> QED
    BY <2>2, Zenon DEF Range
<1> QED
  BY <1>1, <1>2, Zenon

\* A rank keeps all the locations of a record or none, and the first location
\* of the record decides.
THEOREM WholeRecordsCorrect == Spec => []WholeRecords
<1>1. IInv => WholeRecords
  BY HoldsWholeRecords
<1> QED
  BY <1>1, Invariance, PTL

\* What a rank sends for a location only depends on the location's record.
LEMMA SentByRecord ==
  ASSUME TypeOK, CallsInOrder, NEW q \in Rank, NEW i \in DOMAIN calls
  PROVE  SentDistance(q, calls[i].loc) =
           IF Near(q, calls[i].rec) THEN distance[q][calls[FirstCall(calls[i].rec)].loc] ELSE Inf
<1> DEFINE kept == KeptCalls(q, calls[i].loc)
<1>1. \A j \in kept : j = i
  BY OneCallPerLocation, Zenon DEF KeptCalls
<1>2. kept = IF Near(q, calls[i].rec) THEN {i} ELSE {}
  BY <1>1, Zenon DEF KeptCalls
<1>3. CASE Near(q, calls[i].rec)
  <2>1. kept # {} /\ (CHOOSE j \in kept : TRUE) = i
    BY <1>2, <1>3
  <2> HIDE DEF kept
  <2>2. SentDistance(q, calls[i].loc) =
          IF kept = {} THEN Inf
          ELSE distance[q][calls[FirstCall(calls[CHOOSE j \in kept : TRUE].rec)].loc]
    BY Zenon DEF kept, SentDistance
  <2> QED
    BY <2>1, <2>2, <1>3, Zenon
<1>4. CASE ~Near(q, calls[i].rec)
  BY <1>2, <1>4, Zenon DEF SentDistance
<1> QED
  BY <1>3, <1>4, Zenon

\* Once the ranks have left assignRecord, nglocs is above every location held.
LEMMA HeldBelowNglocs ==
  ASSUME IInv, NEW r \in Rank, NEW k \in DOMAIN indx[r], pc[r] # "assign"
  PROVE  indx[r][k] \in Loc /\ indx[r][k] + 1 \in 1 .. nglocs /\ nglocs \in Nat
<1> DEFINE g == indx[r][k]
<1>t. TypeOK /\ HeldLocations /\ MaxPhase
  BY Zenon DEF IInv
<1>1. indx[r] \in Seq(Loc)
  BY <1>t, Zenon DEF TypeOK
<1>2. maxSent[r] = indx[r][Len(indx[r])] + 1
  BY <1>t, <1>1 DEF MaxPhase
<1>3. Len(indx[r]) \in DOMAIN indx[r] /\ k \in 1 .. Len(indx[r])
  BY <1>1
<1>4. k < Len(indx[r]) => g < indx[r][Len(indx[r])]
  BY <1>t, <1>3, Zenon DEF HeldLocations
<1>5. /\ indx[r][Len(indx[r])] \in Loc /\ indx[r][Len(indx[r])] \in Int
      /\ g \in Loc /\ g \in Int
  BY <1>1, <1>3, NLocsAssumption DEF Loc
<1>6. k = Len(indx[r]) => g = indx[r][Len(indx[r])]
  BY Zenon
<1>7. maxSent[r] <= nglocs /\ nglocs \in Nat
  BY <1>t, NglocsBound, NLocsAssumption DEF TypeOK
<1> HIDE DEF g
<1>8. g <= indx[r][Len(indx[r])]
  BY <1>3, <1>4, <1>5, <1>6
<1>9. g \in Loc /\ g + 1 \in 1 .. nglocs
  BY <1>2, <1>5, <1>7, <1>8, NLocsAssumption DEF Loc
<1> QED
  BY <1>7, <1>9 DEF g

\* When every rank has sent its distances: those sent for a location held are
\* its record's, and the owner of the location holds it.
LEMMA SentMeaning ==
  ASSUME IInv, \A q \in Rank : minlocSent[q] # <<>>, NEW r \in Rank, NEW k \in DOMAIN indx[r]
  PROVE  LET g == indx[r][k]
             c == recnums[r][k]
         IN /\ \A q \in Rank :
                 minlocSent[q][g + 1] =
                   IF Near(q, c) THEN distance[q][calls[FirstCall(c)].loc] ELSE Inf
            /\ \A q \in Rank : g \in Range(indx[q]) <=> Near(q, c)
            /\ Owner(g) \in Rank /\ g \in Range(indx[Owner(g)])
<1> DEFINE g == indx[r][k]
           c == recnums[r][k]
<1>t. TypeOK /\ CallsInOrder /\ HeldLocations /\ MaxPhase /\ MinlocPhase
  BY Zenon DEF IInv
<1>1. \A q \in Rank : pc[q] # "assign"
  BY <1>t, Zenon DEF MinlocPhase
<1>2. PICK i \in 1 .. pos[r] : /\ calls[i] = [rec |-> c, loc |-> g]
                               /\ Near(r, calls[i].rec)
  BY <1>t, Zenon DEF HeldLocations
<1>3. i \in DOMAIN calls /\ calls[i].rec = c /\ calls[i].loc = g
  BY <1>2, <1>t, CallsMade
<1>4. g \in Loc /\ g + 1 \in 1 .. nglocs /\ nglocs \in Nat
  BY <1>1, HeldBelowNglocs, Zenon
<1>5. ASSUME NEW q \in Rank
      PROVE  minlocSent[q] = [j \in 1 .. nglocs |-> SentDistance(q, j - 1)]
  BY <1>t, Zenon DEF MinlocPhase
<1>6. ASSUME NEW q \in Rank
      PROVE  minlocSent[q][g + 1] = SentDistance(q, g)
  <2>1. minlocSent[q][g + 1] = SentDistance(q, (g + 1) - 1)
    BY <1>4, <1>5, Zenon
  <2>2. (g + 1) - 1 = g
    BY <1>4, NLocsAssumption DEF Loc
  <2> QED
    BY <2>1, <2>2, Zenon
<1>7. ASSUME NEW q \in Rank
      PROVE  minlocSent[q][g + 1] =
               IF Near(q, c) THEN distance[q][calls[FirstCall(c)].loc] ELSE Inf
  BY <1>3, <1>6, <1>t, SentByRecord, Zenon
<1>8. ASSUME NEW q \in Rank
      PROVE  g \in Range(indx[q]) <=> Near(q, c)
  <2>1. pos[q] = Len(calls) /\ pos[r] = Len(calls)
    BY <1>1, <1>t, Zenon DEF MaxPhase
  <2>2. i \in 1 .. pos[q]
    BY <2>1, Zenon
  <2>3. WholeRecords
    BY HoldsWholeRecords, Zenon
  <2> QED
    BY <2>2, <2>3, <1>3, Zenon DEF WholeRecords
<1>9. ASSUME NEW q \in Rank
      PROVE  minlocSent[q][g + 1] \in 0 .. Inf
  <2>1. minlocSent[q] \in Seq(0 .. Inf)
    BY <1>t, Zenon DEF TypeOK
  <2>2. g + 1 \in DOMAIN minlocSent[q]
    BY <1>4, <1>5, Zenon
  <2>3. \A n \in DOMAIN minlocSent[q] : minlocSent[q][n] \in 0 .. Inf
    BY <2>1, SeqElements, Zenon
  <2> QED
    BY <2>2, <2>3, Zenon
<1>10. minlocSent[r][g + 1] < Inf
  <2>1. distance[r] \in [Loc -> 0 .. MaxDist]
    BY <1>t, Zenon DEF TypeOK
  <2>2. calls[FirstCall(c)].loc \in Loc
    <3>1. calls \in Seq(Call) /\ FirstCall(c) \in 1 .. i
      BY <1>3, <1>t, FirstCallIsFirst, Zenon DEF TypeOK
    <3>2. calls[FirstCall(c)] \in Call
      BY <1>3, <3>1
    <3> QED
      BY <3>2, Zenon DEF Call
  <2>3. distance[r][calls[FirstCall(c)].loc] \in 0 .. MaxDist
    BY <2>1, <2>2, Zenon
  <2>4. minlocSent[r][g + 1] \in 0 .. MaxDist
    BY <1>2, <1>3, <1>7, <2>3, Zenon
  <2> QED
    BY <2>4, MaxDistAssumption DEF Inf
<1> HIDE DEF g, c
<1>11. \A q \in Rank : minlocSent[q][g + 1] \in Nat
  BY <1>9
<1>12. Owner(g) \in Rank /\ Closest(g, Owner(g))
  BY <1>11, OwnerIsClosest, Zenon
<1>13. minlocSent[Owner(g)][g + 1] # Inf
  <2>1. minlocSent[Owner(g)][g + 1] <= minlocSent[r][g + 1]
    BY <1>11, <1>12 DEF Closest
  <2> QED
    BY <2>1, <1>10, <1>11, <1>12, MaxDistAssumption DEF Inf
<1>14. g \in Range(indx[Owner(g)])
  BY <1>7, <1>8, <1>12, <1>13, Zenon
<1> QED
  BY <1>7, <1>8, <1>12, <1>14, Zenon DEF g, c

\* Two locations of one record have the same owner.
LEMMA OneOwnerPerRecord ==
  ASSUME IInv, \A q \in Rank : minlocSent[q] # <<>>,
         NEW r \in Rank, NEW k \in DOMAIN indx[r],
         NEW s \in Rank, NEW l \in DOMAIN indx[s], recnums[r][k] = recnums[s][l]
  PROVE  Owner(indx[r][k]) = Owner(indx[s][l])
<1> DEFINE g == indx[r][k]
           h == indx[s][l]
<1>1. \A q \in Rank : minlocSent[q][g + 1] =
        IF Near(q, recnums[r][k])
        THEN distance[q][calls[FirstCall(recnums[r][k])].loc] ELSE Inf
  BY SentMeaning, Zenon
<1>2. \A q \in Rank : minlocSent[q][h + 1] =
        IF Near(q, recnums[s][l])
        THEN distance[q][calls[FirstCall(recnums[s][l])].loc] ELSE Inf
  BY SentMeaning, Zenon
<1>3. \A q \in Rank : minlocSent[q][g + 1] = minlocSent[q][h + 1]
  BY <1>1, <1>2
<1> HIDE DEF g, h
<1>4. \A q \in Rank : Closest(g, q) <=> Closest(h, q)
  BY <1>3, Zenon DEF Closest
<1>5. Owner(g) = Owner(h)
  BY <1>4, Zenon DEF Owner
<1> QED
  BY <1>5, Zenon DEF g, h

\* The patch of a rank that has returned from computePatchLocs consists of the
\* locations that it holds and owns.
LEMMA PatchMeaning ==
  ASSUME IInv, NEW q \in Rank, pc[q] = "done"
  PROVE  \A g : g \in PatchLocs(q) <=> g \in Range(indx[q]) /\ Owner(g) = q
<1>1. patchObsBool[q] = [j \in DOMAIN indx[q] |-> IsPatch(q, indx[q][j])]
  BY Zenon DEF IInv, Flagged
<1> SUFFICES ASSUME NEW g PROVE g \in PatchLocs(q) <=> g \in Range(indx[q]) /\ Owner(g) = q
  OBVIOUS
<1>2. g \in PatchLocs(q) <=> \E j \in DOMAIN indx[q] : indx[q][j] = g /\ IsPatch(q, indx[q][j])
  BY <1>1, Zenon DEF PatchLocs
<1>3. g \in Range(indx[q]) <=> \E j \in DOMAIN indx[q] : indx[q][j] = g
  BY Zenon DEF Range
<1> QED
  BY <1>2, <1>3, Zenon DEF IsPatch

\* When a rank has returned and some rank holds a location, all have sent.
LEMMA AllSent ==
  ASSUME IInv, NEW q \in Rank, pc[q] = "done", NEW r \in Rank, NEW k \in DOMAIN indx[r]
  PROVE  \A s \in Rank : minlocSent[s] # <<>>
<1>1. /\ \A s \in Rank : pc[s] # "assign"
      /\ nglocs = 0 \/ \A s \in Rank : minlocSent[s] # <<>>
  BY Zenon DEF IInv, MinlocPhase
<1>2. indx[r][k] + 1 \in 1 .. nglocs /\ nglocs \in Nat
  BY <1>1, HeldBelowNglocs, Zenon
<1>3. nglocs # 0
  BY <1>2
<1> QED
  BY <1>1, <1>3, Zenon

\* Every location held by some rank is a patch location of exactly one rank,
\* which holds it: reductions over the patch count it once.
THEOREM PatchPartitionCorrect == Spec => []PatchPartition
<1>1. ASSUME IInv PROVE PatchPartition
  <2> SUFFICES ASSUME Done, NEW r \in Rank, NEW k \in DOMAIN indx[r]
               PROVE  \E s \in Rank : /\ indx[r][k] \in PatchLocs(s)
                                      /\ \A t \in Rank : indx[r][k] \in PatchLocs(t) => t = s
    BY Zenon DEF PatchPartition
  <2> DEFINE g == indx[r][k]
  <2>1. \A q \in Rank : g \in PatchLocs(q) <=> g \in Range(indx[q]) /\ Owner(g) = q
    BY <1>1, PatchMeaning, Zenon DEF Done
  <2>2. \A q \in Rank : minlocSent[q] # <<>>
    BY <1>1, AllSent, Zenon DEF Done
  <2>3. Owner(g) \in Rank /\ g \in Range(indx[Owner(g)])
    BY <1>1, <2>2, SentMeaning, Zenon
  <2> HIDE DEF g
  <2> QED
    BY <2>1, <2>3 DEF g
<1> QED
  BY <1>1, Invariance, PTL

\* The locations of one record belong to the patch of one rank.
THEOREM RecordsOwnedWholeCorrect == Spec => []RecordsOwnedWhole
<1>1. ASSUME IInv PROVE RecordsOwnedWhole
  <2> SUFFICES ASSUME Done, NEW r \in Rank, NEW s \in Rank,
                      NEW k \in DOMAIN indx[r], NEW l \in DOMAIN indx[s],
                      recnums[r][k] = recnums[s][l],
                      indx[r][k] \in PatchLocs(r), indx[s][l] \in PatchLocs(s)
               PROVE  r = s
    BY Zenon DEF RecordsOwnedWhole
  <2>1. Owner(indx[r][k]) = r /\ Owner(indx[s][l]) = s
    BY <1>1, PatchMeaning, Zenon DEF Done
  <2>2. \A q \in Rank : minlocSent[q] # <<>>
    BY <1>1, AllSent, Zenon DEF Done
  <2> QED
    BY <1>1, <2>1, <2>2, OneOwnerPerRecord, Zenon
<1> QED
  BY <1>1, Invariance, PTL

-----------------------------------------------------------------------------
(* The consecutive indices *)

\* Which rank owns a location, and how many patch locations come before it,
\* only depends on what the ranks sent to the two collectives.
LEMMA IndexUnchanged ==
  UNCHANGED <<maxSent, minlocSent>> => \A g : IndexOf(g)' = IndexOf(g)
<1> SUFFICES ASSUME UNCHANGED <<maxSent, minlocSent>>, NEW g PROVE IndexOf(g)' = IndexOf(g)
  BY Zenon
<1>1. nglocs' = nglocs
  BY ReductionsUnchanged, Zenon
<1>2. \A h : Owner(h)' = Owner(h)
  BY Zenon DEF Owner, Closest
<1>3. \A h : HeldSomewhere(h)' <=> HeldSomewhere(h)
  BY <1>2, Zenon DEF HeldSomewhere
<1>4. \A s, h : PatchBelow(s, h)' = PatchBelow(s, h)
  BY <1>1, <1>2, <1>3, Zenon DEF PatchBelow
<1>5. \A s : PatchOnPreviousRanks(s)' = PatchOnPreviousRanks(s)
  BY <1>1, <1>2, <1>3, Zenon DEF PatchOnPreviousRanks
<1> QED
  BY <1>2, <1>4, <1>5, Zenon DEF IndexOf

\* The elements of an increasing vector below the i-th are those before it.
LEMMA CountBelow ==
  ASSUME NEW v \in Seq(Nat), \A k, l \in DOMAIN v : k < l => v[k] < v[l]
  PROVE  /\ IsFiniteSet(Range(v)) /\ Cardinality(Range(v)) = Len(v)
         /\ \A i \in DOMAIN v : Cardinality({h \in Range(v) : h < v[i]}) = i - 1
<1>1. DOMAIN v = 1 .. Len(v) /\ Len(v) \in Nat
  OBVIOUS
<1>2. \A k \in DOMAIN v : v[k] \in Nat
  OBVIOUS
<1>3. \A k, l \in DOMAIN v : k < l \/ k = l \/ l < k
  BY <1>1
<1>4. \A a, b \in Nat : a < b => a # b /\ ~(b < a)
  OBVIOUS
<1>5. \A k, l \in DOMAIN v : v[k] = v[l] => k = l
  BY <1>2, <1>3, <1>4, Zenon
<1>6. \A k, l \in DOMAIN v : v[k] < v[l] <=> k < l
  <2> SUFFICES ASSUME NEW k \in DOMAIN v, NEW l \in DOMAIN v PROVE v[k] < v[l] <=> k < l
    BY Zenon
  <2>1. CASE k < l
    BY <2>1, Zenon
  <2>2. CASE k = l
    BY <1>1, <1>2, <2>2
  <2>3. CASE l < k
    <3>1. v[l] < v[k] /\ ~(k < l)
      BY <1>1, <2>3
    <3> QED
      BY <1>2, <1>4, <3>1, Zenon
  <2> QED
    BY <1>3, <2>1, <2>2, <2>3, Zenon
<1>7. \A n \in Nat : IsFiniteSet(1 .. n) /\ Cardinality(1 .. n) = n
  <2> TAKE n \in Nat
  <2>1. IsFiniteSet(1 .. n) /\ Cardinality(1 .. n) = IF 1 > n THEN 0 ELSE n - 1 + 1
    BY FS_Interval, SMT
  <2> QED
    BY <2>1, SMT
<1>8. IsFiniteSet(Range(v)) /\ Cardinality(Range(v)) = Len(v)
  <2> DEFINE I == DOMAIN v
  <2>1. IsFiniteSet(I) /\ Cardinality(I) = Len(v)
    BY <1>1, <1>7, Zenon
  <2>2. /\ \A i \in I : v[i] \in Range(v)
        /\ \A s \in Range(v) : \E i \in I : v[i] = s
        /\ \A i, j \in I : v[i] = v[j] => i = j
    BY <1>5, Zenon DEF Range
  <2> HIDE DEF I
  <2>3. IsFiniteSet(Range(v)) /\ Cardinality(Range(v)) = Cardinality(I)
    <3>1. Enumerates(v, I, Range(v))
      BY <2>2, Zenon DEF Enumerates
    <3> QED
      BY <2>1, <3>1, ImageCardinality, Zenon
  <2> QED
    BY <2>1, <2>3, Zenon
<1>9. ASSUME NEW i \in DOMAIN v
      PROVE  Cardinality({h \in Range(v) : h < v[i]}) = i - 1
  <2> DEFINE I == 1 .. i - 1
             S == {h \in Range(v) : h < v[i]}
  <2>0. i - 1 \in Nat
    BY <1>1
  <2>1. IsFiniteSet(I) /\ Cardinality(I) = i - 1
    BY <1>7, <2>0, Zenon
  <2>2. \A j : j \in I <=> j \in DOMAIN v /\ j < i
    BY <1>1
  <2> HIDE DEF I
  <2>3. \A j \in I : v[j] \in S
    BY <1>6, <2>2, Zenon DEF Range
  <2>4. \A s \in S : \E j \in I : v[j] = s
    BY <1>6, <2>2, Zenon DEF Range
  <2>5. \A j, k \in I : v[j] = v[k] => j = k
    BY <1>5, <2>2, Zenon
  <2> HIDE DEF S
  <2>6. Cardinality(S) = Cardinality(I)
    <3>1. Enumerates(v, I, S)
      BY <2>3, <2>4, <2>5, Zenon DEF Enumerates
    <3> QED
      BY <2>1, <3>1, ImageCardinality, Zenon
  <2> QED
    BY <2>1, <2>6, Zenon DEF S
<1> QED
  BY <1>8, <1>9, Zenon

\* Step 1 of computeGlobalUniqueConsecutiveLocIndices pushes the locations in the
\* order in which haloLocVector holds them, so both steps speak of the same one.
LEMMA IndicesOfLocations ==
  ASSUME NEW r \in Rank, haloLocVector[r] \in Seq(Loc),
         \A k, l \in DOMAIN haloLocVector[r] : k < l => haloLocVector[r][k] < haloLocVector[r][l]
  PROVE  ConsecutiveIndices(r) = [i \in DOMAIN haloLocVector[r] |-> IndexOf(haloLocVector[r][i])]
<1> DEFINE v == haloLocVector[r]
           below(g) == {h \in Range(v) : h < g}
<1>1. v \in Seq(Nat)
  BY NLocsAssumption DEF Loc
<1>2. /\ Cardinality(Range(v)) = Len(v)
      /\ \A i \in DOMAIN v : Cardinality(below(v[i])) = i - 1
  BY <1>1, CountBelow, Zenon
<1>3. DOMAIN v = 1 .. Len(v)
  BY <1>1
<1>4. ASSUME NEW i \in DOMAIN v PROVE Pushed(r, i) = v[i]
  <2>1. Pushed(r, i) = CHOOSE g \in Range(v) : Cardinality(below(g)) = i - 1
    BY Zenon DEF Pushed
  <2>2. \A j \in DOMAIN v : j - 1 = i - 1 => j = i
    BY <1>3
  <2>3. v[i] \in Range(v) /\ \A g \in Range(v) : \E j \in DOMAIN v : g = v[j]
    BY Zenon DEF Range
  <2> HIDE DEF v, below
  <2>4. \A g \in Range(v) : Cardinality(below(g)) = i - 1 => g = v[i]
    BY <1>2, <2>2, <2>3, Zenon
  <2> QED
    BY <1>2, <2>1, <2>3, <2>4, Zenon
<1>5. ConsecutiveIndices(r) =
        [i \in 1 .. Cardinality(Range(v)) |->
           Cardinality(PatchBelow(Owner(Pushed(r, i)), Pushed(r, i)))
             + Cardinality(PatchOnPreviousRanks(Owner(v[i])))]
  BY Zenon DEF ConsecutiveIndices
<1> HIDE DEF v
<1>6. 1 .. Cardinality(Range(v)) = DOMAIN v
  BY <1>2, <1>3, Zenon
<1>7. \A i \in DOMAIN v : IndexOf(v[i]) = Cardinality(PatchBelow(Owner(Pushed(r, i)), Pushed(r, i)))
             + Cardinality(PatchOnPreviousRanks(Owner(v[i])))
  BY <1>4, Zenon DEF IndexOf
<1>8. ConsecutiveIndices(r) = [i \in DOMAIN v |-> IndexOf(v[i])]
  BY <1>5, <1>6, <1>7, Zenon
<1> QED
  BY <1>8, Zenon DEF v

\* While some rank is still assigning, no rank has returned, so no indices
\* have been stored.
LEMMA NoneDoneYet ==
  ASSUME IInv, NEW r \in Rank, pc[r] = "assign"
  PROVE  \A q \in Rank : pc[q] # "done"
BY Zenon DEF IInv, MinlocPhase

\* When the max reduction gave 0, no rank holds a location.
LEMMA NothingHeld ==
  ASSUME IInv, nglocs = 0, NEW r \in Rank, pc[r] # "assign"
  PROVE  indx[r] = <<>>
<1> SUFFICES ASSUME indx[r] # <<>> PROVE FALSE
  BY Zenon
<1>1. indx[r] \in Seq(Loc)
  BY Zenon DEF IInv, TypeOK
<1>2. 1 \in DOMAIN indx[r]
  BY <1>1
<1>3. indx[r][1] + 1 \in 1 .. nglocs
  BY <1>2, HeldBelowNglocs, Zenon
<1> QED
  BY <1>3

\* A step that does not touch the stored indices, finishes no rank and leaves
\* what was sent to the collectives alone preserves them.
LEMMA IndexedUnchanged ==
  ASSUME Indexed, UNCHANGED <<maxSent, minlocSent, globalUniqueConsecutiveLocIndices>>,
         \A q \in Rank : pc'[q] = "done" <=> pc[q] = "done",
         \A q \in Rank : pc[q] = "done" => indx'[q] = indx[q]
  PROVE  Indexed'
<1>1. \A g : IndexOf(g)' = IndexOf(g)
  BY IndexUnchanged, Zenon
<1> SUFFICES ASSUME NEW q \in Rank
             PROVE  globalUniqueConsecutiveLocIndices'[q] =
                      IF pc'[q] = "done" THEN [i \in DOMAIN indx[q] |-> IndexOf(indx[q][i])]'
                      ELSE <<>>
  BY Zenon DEF Indexed
<1>2. globalUniqueConsecutiveLocIndices[q] =
        IF pc[q] = "done" THEN [i \in DOMAIN indx[q] |-> IndexOf(indx[q][i])] ELSE <<>>
  BY Zenon DEF Indexed
<1>3. CASE pc[q] = "done"
  <2>1. /\ globalUniqueConsecutiveLocIndices'[q] = [i \in DOMAIN indx[q] |-> IndexOf(indx[q][i])]
        /\ indx'[q] = indx[q] /\ pc'[q] = "done"
    BY <1>2, <1>3, Zenon
  <2>2. [i \in DOMAIN indx[q] |-> IndexOf(indx[q][i])]' =
          [i \in DOMAIN indx[q] |-> IndexOf(indx[q][i])]
    BY <1>1, <2>1, Zenon
  <2> QED
    BY <2>1, <2>2, Zenon
<1>4. CASE pc[q] # "done"
  BY <1>2, <1>4, Zenon
<1> QED
  BY <1>3, <1>4, Zenon

\* Every step preserves the stored indices; the last one of a rank stores them.
LEMMA IndexedStep ==
  ASSUME IInv, Indexed, [Next]_vars
  PROVE  Indexed'
<1>t. TypeOK /\ HeldLocations /\ Mirrored /\ MinlocPhase
  BY Zenon DEF IInv
<1>1. ASSUME NEW r \in Rank, AssignRecord(r) PROVE Indexed'
  <2>1. pc[r] = "assign" /\ UNCHANGED <<pc, maxSent, minlocSent, globalUniqueConsecutiveLocIndices>>
    BY <1>1, Zenon DEF AssignRecord, result, mpi
  <2>2. \A q \in Rank : pc[q] # "done"
    BY <2>1, NoneDoneYet, Zenon
  <2> QED
    BY <2>1, <2>2, IndexedUnchanged, Zenon
<1>2. ASSUME NEW r \in Rank, ComputePatchLocs(r) PROVE Indexed'
  <2>1. /\ pc[r] = "assign" /\ pc' = [pc EXCEPT ![r] = "max"]
        /\ UNCHANGED <<indx, globalUniqueConsecutiveLocIndices>>
    BY <1>2, Zenon DEF ComputePatchLocs, SendMax, client, result
  <2>2. \A q \in Rank : pc[q] # "done"
    BY <2>1, NoneDoneYet, Zenon
  <2>3. \A q \in Rank : pc'[q] # "done"
    <3>1. \A q \in Rank : pc'[q] = IF q = r THEN "max" ELSE pc[q]
      BY <1>t, <2>1, Zenon DEF TypeOK
    <3> QED
      BY <2>2, <3>1
  <2> QED
    BY <2>1, <2>2, <2>3, Zenon DEF Indexed
<1>3. ASSUME NEW r \in Rank, SendMinloc(r) PROVE Indexed'
  <2>1. /\ pc[r] = "max" /\ \A s \in Rank : pc[s] # "assign"
        /\ UNCHANGED <<indx, maxSent, globalUniqueConsecutiveLocIndices>>
    BY <1>3, Zenon DEF SendMinloc, client, result
  <2>2. minlocSent[r] = <<>>
    BY <1>t, <2>1, Zenon DEF MinlocPhase
  <2>3. CASE nglocs > 0 /\ pc' = [pc EXCEPT ![r] = "minloc"]
    <3>1. \A q \in Rank : pc[q] # "done"
      <4>1. nglocs # 0
        BY <2>3, NglocsBound, <1>t DEF TypeOK
      <4> QED
        BY <1>t, <2>2, <4>1, Zenon DEF MinlocPhase
    <3>2. \A q \in Rank : pc'[q] # "done"
      <4>1. \A q \in Rank : pc'[q] = IF q = r THEN "minloc" ELSE pc[q]
        BY <1>t, <2>3, Zenon DEF TypeOK
      <4> QED
        BY <3>1, <4>1
    <3> QED
      BY <2>1, <3>1, <3>2, Zenon DEF Indexed
  <2>4. CASE nglocs = 0 /\ pc' = [pc EXCEPT ![r] = "done"]
    <3>1. \A q \in Rank : indx[q] = <<>>
      BY <2>1, <2>4, NothingHeld, Zenon
    <3>2. ASSUME NEW q \in Rank
          PROVE  /\ [i \in DOMAIN indx[q] |-> IndexOf(indx[q][i])] = <<>>
                 /\ [i \in DOMAIN indx[q] |-> IndexOf(indx[q][i])]' = <<>>
      <4>1. DOMAIN indx[q] = {} /\ DOMAIN indx'[q] = {}
        BY <2>1, <3>1
      <4> QED
        BY <4>1
    <3>3. \A q \in Rank : globalUniqueConsecutiveLocIndices[q] = <<>>
      BY <3>2, Zenon DEF Indexed
    <3>4. \A q \in Rank : globalUniqueConsecutiveLocIndices'[q] = <<>>
      BY <2>1, <3>3, Zenon
    <3> QED
      BY <3>2, <3>4, Zenon DEF Indexed
  <2> QED
    BY <1>3, <2>3, <2>4, Zenon DEF SendMinloc
<1>4. ASSUME NEW r \in Rank, FinishPatchLocs(r) PROVE Indexed'
  <2>1. /\ pc[r] = "minloc" /\ pc' = [pc EXCEPT ![r] = "done"]
        /\ UNCHANGED <<indx, maxSent, minlocSent>>
    BY <1>4, Zenon DEF FinishPatchLocs, client, mpi
  <2>2. globalUniqueConsecutiveLocIndices' =
          [globalUniqueConsecutiveLocIndices EXCEPT ![r] = ConsecutiveIndices(r)]
    BY <1>4, Zenon DEF FinishPatchLocs
  <2>3. haloLocVector[r] = indx[r] /\ indx[r] \in Seq(Loc)
    BY <1>t, <2>1, Zenon DEF Mirrored, TypeOK
  <2>4. \A k, l \in DOMAIN indx[r] : k < l => indx[r][k] < indx[r][l]
    BY <1>t, Zenon DEF HeldLocations
  <2>5. ConsecutiveIndices(r) = [i \in DOMAIN indx[r] |-> IndexOf(indx[r][i])]
    <3>1. haloLocVector[r] \in Seq(Loc) /\ \A k, l \in DOMAIN haloLocVector[r] :
            k < l => haloLocVector[r][k] < haloLocVector[r][l]
      BY <2>3, <2>4, Zenon
    <3>2. ConsecutiveIndices(r) = [i \in DOMAIN haloLocVector[r] |-> IndexOf(haloLocVector[r][i])]
      BY <3>1, IndicesOfLocations, Zenon
    <3> QED
      BY <2>3, <3>2, Zenon
  <2>6. \A g : IndexOf(g)' = IndexOf(g)
    BY <2>1, IndexUnchanged, Zenon
  <2>7. /\ globalUniqueConsecutiveLocIndices'[r] = [i \in DOMAIN indx[r] |-> IndexOf(indx[r][i])]
        /\ pc'[r] = "done"
        /\ \A q \in Rank : q # r =>
             /\ globalUniqueConsecutiveLocIndices'[q] = globalUniqueConsecutiveLocIndices[q]
             /\ pc'[q] = pc[q]
    BY <1>t, <2>1, <2>2, <2>5, Zenon DEF TypeOK
  <2>8. ASSUME NEW q \in Rank
        PROVE  globalUniqueConsecutiveLocIndices'[q] =
                 IF pc'[q] = "done" THEN [i \in DOMAIN indx[q] |-> IndexOf(indx[q][i])] ELSE <<>>
    <3>1. globalUniqueConsecutiveLocIndices[q] =
            IF pc[q] = "done" THEN [i \in DOMAIN indx[q] |-> IndexOf(indx[q][i])] ELSE <<>>
      BY Zenon DEF Indexed
    <3> QED
      BY <2>7, <3>1, Zenon
  <2> QED
    BY <2>1, <2>6, <2>8, Zenon DEF Indexed
<1>5. ASSUME UNCHANGED vars PROVE Indexed'
  <2>1. UNCHANGED <<indx, pc, maxSent, minlocSent, globalUniqueConsecutiveLocIndices>>
    BY <1>5, Zenon DEF vars, client, result, mpi
  <2> QED
    BY <2>1, IndexedUnchanged, Zenon
<1> QED
  BY <1>1, <1>2, <1>3, <1>4, <1>5 DEF Next, Step, Terminated

\* A rank that has returned from computePatchLocs stores, for each of its
\* locations, the place in the owner's patch after the patches of the lower ranks.
THEOREM IndexedCorrect == Spec => []Indexed
<1>1. Init => Indexed
  <2>1. "assign" # "done"
    OBVIOUS
  <2> QED
    BY <2>1, Zenon DEF Init, InitHalo, Indexed
<1>2. IInv /\ Indexed /\ [Next]_vars => Indexed'
  BY IndexedStep, Zenon
<1> QED
  BY <1>1, <1>2, Invariance, PTL DEF Spec

-----------------------------------------------------------------------------
(* What allGatherv returns *)

\* When every rank has sent its distances, the location that some rank reported a
\* distance for is held by its owner.
LEMMA ReportedIsHeld ==
  ASSUME IInv, \A q \in Rank : minlocSent[q] # <<>>,
         NEW h \in 0 .. nglocs - 1, HeldSomewhere(h)
  PROVE  Owner(h) \in Rank /\ h \in Range(indx[Owner(h)])
<1>t. TypeOK /\ HeldLocations /\ MaxPhase /\ MinlocPhase
  BY Zenon DEF IInv
<1>1. h \in Nat /\ h + 1 \in 1 .. nglocs /\ (h + 1) - 1 = h
  BY <1>t, NglocsBound DEF TypeOK
<1>2. ASSUME NEW q \in Rank
      PROVE  minlocSent[q][h + 1] = SentDistance(q, h) /\ minlocSent[q][h + 1] \in Nat
  <2>1. minlocSent[q] = [j \in 1 .. nglocs |-> SentDistance(q, j - 1)]
    BY <1>t, Zenon DEF MinlocPhase
  <2>2. minlocSent[q][h + 1] = SentDistance(q, (h + 1) - 1) /\ h + 1 \in DOMAIN minlocSent[q]
    BY <1>1, <2>1, Zenon
  <2>3. minlocSent[q] \in Seq(0 .. Inf)
    BY <1>t, Zenon DEF TypeOK
  <2>4. minlocSent[q][h + 1] \in 0 .. Inf
    BY <2>2, <2>3, SeqElements, Zenon
  <2>5. minlocSent[q][h + 1] \in Nat
    BY <2>4
  <2> QED
    BY <1>1, <2>2, <2>5, Zenon
<1>3. Owner(h) \in Rank
  BY <1>1, <1>2, OwnerIsClosest, Zenon
<1> DEFINE s == Owner(h)
<1>4. SentDistance(s, h) # Inf
  <2>1. minlocSent[s][h + 1] < Inf
    BY Zenon DEF HeldSomewhere
  <2>2. minlocSent[s][h + 1] = SentDistance(s, h) /\ minlocSent[s][h + 1] \in Nat
    BY <1>2, <1>3, Zenon
  <2> HIDE DEF s
  <2> QED
    BY <2>1, <2>2, MaxDistAssumption DEF Inf
<1>5. PICK i \in KeptCalls(s, h) : TRUE
  BY <1>4, Zenon DEF SentDistance
<1> HIDE DEF s
<1>6. i \in DOMAIN calls /\ calls[i].loc = h /\ Near(s, calls[i].rec)
  BY <1>5, Zenon DEF KeptCalls
<1>7. i \in 1 .. pos[s]
  <2>1. \A q \in Rank : pc[q] # "assign"
    BY <1>t, Zenon DEF MinlocPhase
  <2>2. pos[s] = Len(calls) /\ calls \in Seq(Call)
    BY <1>3, <1>t, <2>1, Zenon DEF MaxPhase, TypeOK, s
  <2> QED
    BY <1>6, <2>2
<1>8. PICK k \in DOMAIN indx[s] : calls[i] = [rec |-> recnums[s][k], loc |-> indx[s][k]]
  BY <1>3, <1>6, <1>7, <1>t, Zenon DEF HeldLocations, s
<1>9. indx[s][k] = h
  BY <1>6, <1>8
<1> QED
  BY <1>3, <1>9, Zenon DEF Range, s

\* A location held has been reported, and its owner holds it.
LEMMA HeldIsReported ==
  ASSUME IInv, \A q \in Rank : minlocSent[q] # <<>>, NEW r \in Rank, NEW h \in Range(indx[r])
  PROVE  h \in 0 .. nglocs - 1 /\ HeldSomewhere(h) /\ Owner(h) \in Rank
         /\ h \in Range(indx[Owner(h)])
<1>t. TypeOK /\ HeldLocations /\ MinlocPhase
  BY Zenon DEF IInv
<1>1. PICK k \in DOMAIN indx[r] : indx[r][k] = h
  BY Zenon DEF Range
<1>2. pc[r] # "assign"
  BY <1>t, Zenon DEF MinlocPhase
<1>3. h \in 0 .. nglocs - 1
  <2>1. h \in Loc /\ h + 1 \in 1 .. nglocs /\ nglocs \in Nat
    BY <1>1, <1>2, HeldBelowNglocs, Zenon
  <2> QED
    BY <2>1, NLocsAssumption DEF Loc
<1> DEFINE c == recnums[r][k]
<1>4. /\ \A q \in Rank : minlocSent[q][h + 1] =
           IF Near(q, c) THEN distance[q][calls[FirstCall(c)].loc] ELSE Inf
      /\ \A q \in Rank : h \in Range(indx[q]) <=> Near(q, c)
      /\ Owner(h) \in Rank /\ h \in Range(indx[Owner(h)])
  BY <1>1, SentMeaning, Zenon
<1>5. PICK i \in 1 .. pos[r] : calls[i] = [rec |-> c, loc |-> indx[r][k]]
  BY <1>t, Zenon DEF HeldLocations
<1>6. calls[FirstCall(c)].loc \in Loc
  <2>1. i \in DOMAIN calls /\ calls[i].rec = c
    BY <1>5, <1>t, CallsMade
  <2>2. calls \in Seq(Call) /\ FirstCall(c) \in 1 .. i
    BY <2>1, <1>t, FirstCallIsFirst, Zenon DEF TypeOK
  <2>3. calls[FirstCall(c)] \in Call
    BY <2>1, <2>2
  <2> QED
    BY <2>3, Zenon DEF Call
<1> HIDE DEF c
<1> DEFINE s == Owner(h)
<1>7. minlocSent[s][h + 1] = distance[s][calls[FirstCall(c)].loc]
  BY <1>4, Zenon
<1>8. distance[s][calls[FirstCall(c)].loc] \in 0 .. MaxDist
  <2>1. distance \in [Rank -> [Loc -> 0 .. MaxDist]]
    BY <1>t, Zenon DEF TypeOK
  <2> QED
    BY <1>4, <1>6, <2>1, Zenon
<1> HIDE DEF s
<1>9. minlocSent[s][h + 1] < Inf
  BY <1>7, <1>8, BelowInf, Zenon
<1> QED
  BY <1>3, <1>4, <1>9, Zenon DEF HeldSomewhere, s

\* The locations that rank s holds and owns
OwnPatch(s) == {h \in Range(indx[s]) : Owner(h) = s}

\* When every rank has returned, the locations counted by the scan over the
\* ranks are those held and owned, whether or not the minloc reduction ran.
LEMMA CountedIsOwned ==
  ASSUME IInv, Done
  PROVE  /\ \A s \in Rank : \A g : PatchBelow(s, g) = {h \in OwnPatch(s) : h < g}
         /\ \A n : PatchOnPreviousRanks(n) = UNION {OwnPatch(s) : s \in {t \in Rank : t < n}}
         /\ \A r \in Rank : \A h \in Range(indx[r]) : Owner(h) \in Rank /\ h \in OwnPatch(Owner(h))
<1> DEFINE Counted(h) == h \in 0 .. nglocs - 1 /\ HeldSomewhere(h)
<1>1. ASSUME NEW r \in Rank, NEW h \in Range(indx[r])
      PROVE  Counted(h) /\ Owner(h) \in Rank /\ h \in Range(indx[Owner(h)])
  <2>1. PICK k \in DOMAIN indx[r] : indx[r][k] = h
    BY Zenon DEF Range
  <2>2. \A q \in Rank : minlocSent[q] # <<>>
    BY AllSent, Zenon DEF Done
  <2> QED
    BY <2>2, HeldIsReported, Zenon
<1>2. ASSUME NEW h, Counted(h)
      PROVE  Owner(h) \in Rank /\ h \in Range(indx[Owner(h)])
  <2>1. 0 \in Rank
    BY NRanksAssumption DEF Rank
  <2>2. nglocs = 0 \/ \A s \in Rank : minlocSent[s] # <<>>
    BY <2>1, Zenon DEF Done, IInv, MinlocPhase
  <2>3. nglocs # 0
    <3>1. h \in 0 .. nglocs - 1 /\ 0 .. 0 - 1 = {}
      BY <1>2
    <3> QED
      BY <3>1, Zenon
  <2> QED
    BY <1>2, <2>2, <2>3, ReportedIsHeld, Zenon
<1>3. \A s, g : PatchBelow(s, g) = {h \in {k \in 0 .. nglocs - 1 : Counted(k)} : h < g /\ Owner(h) = s}
  BY Zenon DEF PatchBelow
<1>4. \A n : PatchOnPreviousRanks(n) = {h \in {k \in 0 .. nglocs - 1 : Counted(k)} : Owner(h) < n}
  BY Zenon DEF PatchOnPreviousRanks
<1> DEFINE All == {k \in 0 .. nglocs - 1 : Counted(k)}
<1>5. \A h : h \in All <=> Counted(h)
  BY Zenon
<1> HIDE DEF All, Counted
<1>6. ASSUME NEW s \in Rank, NEW g PROVE PatchBelow(s, g) = {h \in OwnPatch(s) : h < g}
  BY <1>1, <1>2, <1>3, <1>5, Zenon DEF OwnPatch, All
<1>7. ASSUME NEW n
      PROVE  PatchOnPreviousRanks(n) = UNION {OwnPatch(s) : s \in {t \in Rank : t < n}}
  <2>1. PatchOnPreviousRanks(n) = {h \in All : Owner(h) < n}
    BY <1>4, Zenon DEF All
  <2>2. ASSUME NEW h \in All, Owner(h) < n
        PROVE  h \in UNION {OwnPatch(s) : s \in {t \in Rank : t < n}}
    <3>1. Owner(h) \in {t \in Rank : t < n} /\ h \in OwnPatch(Owner(h))
      BY <1>2, <1>5, <2>2, Zenon DEF OwnPatch
    <3> QED
      BY <3>1, Zenon
  <2>3. ASSUME NEW s \in Rank, s < n, NEW h \in OwnPatch(s)
        PROVE  h \in All /\ Owner(h) < n
    BY <1>1, <1>5, <2>3, Zenon DEF OwnPatch
  <2> QED
    BY <2>1, <2>2, <2>3, Zenon
<1>8. ASSUME NEW r \in Rank, NEW h \in Range(indx[r])
      PROVE  Owner(h) \in Rank /\ h \in OwnPatch(Owner(h))
  BY <1>1, Zenon DEF OwnPatch
<1> QED
  BY <1>6, <1>7, <1>8, Zenon

\* Where allGatherv finds the location of an owner: the marked positions up to
\* it are the owner's patch locations below it and itself, and all the marked
\* positions are the owner's patch.
LEMMA PatchPositions ==
  ASSUME IInv, Done, NEW s \in Rank
  PROVE  /\ IsFiniteSet(OwnPatch(s))
         /\ Cardinality(MarkedUpTo(patchObsBool[s], Len(indx[s]))) = Cardinality(OwnPatch(s))
         /\ \A j \in DOMAIN indx[s] : indx[s][j] \in OwnPatch(s) =>
              /\ j \in MarkedUpTo(patchObsBool[s], Len(indx[s]))
              /\ Cardinality(MarkedUpTo(patchObsBool[s], j)) =
                   Cardinality({h \in OwnPatch(s) : h < indx[s][j]}) + 1
<1> DEFINE v == indx[s]
           mark == patchObsBool[s]
<1>t. TypeOK /\ HeldLocations /\ Flagged
  BY Zenon DEF IInv
<1>1. v \in Seq(Loc) /\ \A k, l \in DOMAIN v : k < l => v[k] < v[l]
  BY <1>t, Zenon DEF TypeOK, HeldLocations
<1>2. mark = [i \in DOMAIN v |-> IsPatch(s, v[i])]
  BY <1>t, Zenon DEF Flagged, Done
<1> HIDE DEF v, mark
<1>3. DOMAIN v = 1 .. Len(v) /\ Len(v) \in Nat /\ \A k \in DOMAIN v : v[k] \in Nat
  BY <1>1, NLocsAssumption DEF Loc
<1>4. \A i : i \in MarkedUpTo(mark, Len(v)) <=> i \in DOMAIN v /\ Owner(v[i]) = s
  BY <1>2, <1>3, Zenon DEF MarkedUpTo, IsPatch
<1>5. \A h : h \in OwnPatch(s) <=> \E i \in DOMAIN v : v[i] = h /\ Owner(h) = s
  BY Zenon DEF OwnPatch, Range, v
<1>6. \A k, l \in DOMAIN v : (k < l \/ k = l \/ l < k) /\ (k <= l <=> k < l \/ k = l)
  BY <1>3
<1>7. \A a, b \in Nat : a < b => a # b /\ ~(b < a)
  OBVIOUS
<1>8. \A k, l \in DOMAIN v : (v[k] = v[l] => k = l) /\ (v[k] < v[l] <=> k < l)
  <2> SUFFICES ASSUME NEW k \in DOMAIN v, NEW l \in DOMAIN v
               PROVE  (v[k] = v[l] => k = l) /\ (v[k] < v[l] <=> k < l)
    BY Zenon
  <2>1. k < l => v[k] < v[l]
    BY <1>1, Zenon
  <2>2. l < k => v[l] < v[k]
    BY <1>1, Zenon
  <2>3. v[k] \in Nat /\ v[l] \in Nat
    BY <1>3, Zenon
  <2>4. k \in Nat /\ l \in Nat
    BY <1>3
  <2>5. k = l => ~(v[k] < v[l])
    BY <2>3
  <2> QED
    BY <2>1, <2>2, <2>3, <2>4, <2>5
<1>9. IsFiniteSet(MarkedUpTo(mark, Len(v)))
  BY <1>3, MarkedUpToStep, Zenon
<1>10. IsFiniteSet(OwnPatch(s)) /\ Cardinality(OwnPatch(s)) = Cardinality(MarkedUpTo(mark, Len(v)))
  <2> DEFINE I == MarkedUpTo(mark, Len(v))
             S == OwnPatch(s)
  <2>1. \A i \in I : v[i] \in S
    BY <1>4, <1>5, Zenon
  <2>2. \A h \in S : \E i \in I : v[i] = h
    BY <1>4, <1>5, Zenon
  <2>3. \A i, j \in I : v[i] = v[j] => i = j
    BY <1>4, <1>8, Zenon
  <2>4. IsFiniteSet(I)
    BY <1>9
  <2> HIDE DEF I, S
  <2>5. IsFiniteSet(S) /\ Cardinality(S) = Cardinality(I)
    <3>1. Enumerates(v, I, S)
      BY <2>1, <2>2, <2>3, Zenon DEF Enumerates
    <3> QED
      BY <2>4, <3>1, ImageCardinality, Zenon
  <2> QED
    BY <2>5, Zenon DEF I, S
<1>11. ASSUME NEW j \in DOMAIN v, v[j] \in OwnPatch(s)
       PROVE  /\ j \in MarkedUpTo(mark, Len(v))
              /\ Cardinality(MarkedUpTo(mark, j)) = Cardinality({h \in OwnPatch(s) : h < v[j]}) + 1
  <2> DEFINE I == MarkedUpTo(mark, j)
             B == {h \in OwnPatch(s) : h < v[j]}
             S == B \cup {v[j]}
  <2>1. j \in Nat /\ \A i : i \in 1 .. j <=> i \in DOMAIN v /\ i <= j
    BY <1>3
  <2>2. Owner(v[j]) = s
    BY <1>5, <1>11, Zenon
  <2>3. j \in MarkedUpTo(mark, Len(v))
    BY <1>4, <2>2, Zenon
  <2>4. \A i : i \in I <=> i \in DOMAIN v /\ Owner(v[i]) = s /\ (i < j \/ i = j)
    BY <1>2, <1>6, <2>1, Zenon DEF MarkedUpTo, IsPatch
  <2>5. IsFiniteSet(I)
    BY <2>1, MarkedUpToStep, Zenon
  <2>6. \A i \in I : v[i] \in S
    BY <1>5, <1>8, <2>4, Zenon
  <2>7. \A h \in S : \E i \in I : v[i] = h
    <3>1. ASSUME NEW h \in B PROVE \E i \in I : v[i] = h
      <4>1. PICK i \in DOMAIN v : v[i] = h /\ Owner(h) = s
        BY <1>5, Zenon
      <4>2. v[i] < v[j]
        BY <4>1, Zenon
      <4>3. i < j
        BY <1>8, <4>2, Zenon
      <4> QED
        BY <2>4, <4>1, <4>3, Zenon
    <3>2. j \in I
      BY <2>2, <2>4, Zenon
    <3> QED
      BY <3>1, <3>2, Zenon
  <2>8. \A i, k \in I : v[i] = v[k] => i = k
    BY <1>8, <2>4, Zenon
  <2>9. IsFiniteSet(B) /\ v[j] \notin B
    <3>1. ~(v[j] < v[j])
      BY <1>3
    <3>2. B \subseteq OwnPatch(s)
      BY Zenon
    <3> QED
      BY <1>10, <3>1, <3>2, FS_Subset, Zenon
  <2> HIDE DEF I, B
  <2>10. Cardinality(S) = Cardinality(B) + 1
    BY <2>9, FS_AddElement, Zenon
  <2> HIDE DEF S
  <2>11. Cardinality(S) = Cardinality(I)
    <3>1. Enumerates(v, I, S)
      BY <2>6, <2>7, <2>8, Zenon DEF Enumerates
    <3> QED
      BY <2>5, <3>1, ImageCardinality, Zenon
  <2> QED
    BY <2>3, <2>10, <2>11, Zenon DEF I, B
<1> QED
  BY <1>10, <1>11, Zenon DEF v, mark

\* What allGathervImpl sends for the locations of rank s: its patch, each
\* location after the patch locations below it.
LEMMA PatchElementsMeaning ==
  ASSUME IInv, Done, NEW s \in Rank
  PROVE  /\ PatchElements(s, indx[s]) \in Seq(Loc)
         /\ Len(PatchElements(s, indx[s])) = Cardinality(OwnPatch(s))
         /\ \A g \in OwnPatch(s) :
              LET k == Cardinality({h \in OwnPatch(s) : h < g}) + 1
              IN /\ k \in DOMAIN PatchElements(s, indx[s])
                 /\ PatchElements(s, indx[s])[k] = g
<1> DEFINE v == indx[s]
           mark == patchObsBool[s]
           n == Len(v)
<1>1. v \in Seq(Loc)
  BY Zenon DEF IInv, TypeOK
<1> HIDE DEF v
<1>2. n \in Nat /\ DOMAIN v = 1 .. n
  BY <1>1
<1> HIDE DEF n
<1>3. ElementsIn(v, n, Loc)
  BY <1>1, <1>2, SeqElements, Zenon DEF ElementsIn
<1>4. MarkAfterMark(v, mark, n, Loc)
  BY <1>2, <1>3, MarkedElements, Zenon
<1>5. /\ Marked(v, mark, n) \in Seq(Loc)
      /\ Len(Marked(v, mark, n)) = Cardinality(MarkedUpTo(mark, n))
      /\ \A j \in MarkedUpTo(mark, n) :
           /\ Cardinality(MarkedUpTo(mark, j)) \in DOMAIN Marked(v, mark, n)
           /\ Marked(v, mark, n)[Cardinality(MarkedUpTo(mark, j))] = v[j]
  BY <1>4, Zenon DEF MarkAfterMark
<1>6. PatchElements(s, v) = Marked(v, mark, n)
  BY Zenon DEF PatchElements, n
<1> HIDE DEF mark
<1>7. /\ Cardinality(MarkedUpTo(mark, n)) = Cardinality(OwnPatch(s))
      /\ \A j \in DOMAIN v : v[j] \in OwnPatch(s) =>
           /\ j \in MarkedUpTo(mark, n)
           /\ Cardinality(MarkedUpTo(mark, j)) = Cardinality({h \in OwnPatch(s) : h < v[j]}) + 1
  BY PatchPositions, Zenon DEF v, mark, n
<1>8. ASSUME NEW g \in OwnPatch(s)
      PROVE  LET k == Cardinality({h \in OwnPatch(s) : h < g}) + 1
             IN k \in DOMAIN Marked(v, mark, n) /\ Marked(v, mark, n)[k] = g
  <2>1. PICK j \in DOMAIN v : v[j] = g
    BY Zenon DEF OwnPatch, Range, v
  <2>2. /\ j \in MarkedUpTo(mark, n)
        /\ Cardinality(MarkedUpTo(mark, j)) = Cardinality({h \in OwnPatch(s) : h < v[j]}) + 1
    BY <1>7, <2>1, Zenon
  <2>3. /\ Cardinality(MarkedUpTo(mark, j)) \in DOMAIN Marked(v, mark, n)
        /\ Marked(v, mark, n)[Cardinality(MarkedUpTo(mark, j))] = v[j]
    BY <1>5, <2>2, Zenon
  <2> QED
    BY <2>1, <2>2, <2>3, Zenon
<1> QED
  BY <1>5, <1>6, <1>7, <1>8, Zenon DEF v

\* The scan over the ranks counts the patch elements that the lower ranks send.
LEMMA PreviousRanksCounted ==
  ASSUME IInv, Done, NEW P, P = [r \in Rank |-> PatchElements(r, indx[r])]
  PROVE  /\ \A k \in 0 .. NRanks - 1 : P[k] \in Seq(Loc)
         /\ \A n \in 0 .. NRanks : Cardinality(PatchOnPreviousRanks(n)) = Len(Joined(P, n))
<1>1. NRanks \in Nat /\ Rank = 0 .. NRanks - 1
  BY NRanksAssumption DEF Rank
<1>2. \A k \in Rank : P[k] \in Seq(Loc) /\ Len(P[k]) = Cardinality(OwnPatch(k))
  BY PatchElementsMeaning, Zenon
<1>3. \A k \in 0 .. NRanks - 1 : P[k] \in Seq(Loc)
  BY <1>1, <1>2, Zenon
<1>4. /\ Joined(P, 0) = <<>>
      /\ \A n \in 0 .. NRanks : Joined(P, n) \in Seq(Loc)
      /\ \A n \in 0 .. NRanks - 1 : Joined(P, n + 1) = Joined(P, n) \o P[n]
  BY <1>1, <1>3, JoinedStep, Zenon
<1> DEFINE Prev(n) == PatchOnPreviousRanks(n)
           T == {n \in 0 .. NRanks : IsFiniteSet(Prev(n)) /\ Cardinality(Prev(n)) = Len(Joined(P, n))}
<1>5. \A n : Prev(n) = UNION {OwnPatch(s) : s \in {t \in Rank : t < n}}
  BY CountedIsOwned, Zenon
<1> HIDE DEF Prev
<1>6. 0 \in T
  <2>1. 0 \in 0 .. NRanks /\ Len(<<>>) = 0 /\ \A t \in Rank : ~(t < 0)
    BY <1>1
  <2>2. Prev(0) = {}
    BY <1>5, <2>1, Zenon
  <2>3. IsFiniteSet({}) /\ Cardinality({}) = 0
    BY FS_EmptySet
  <2> QED
    BY <1>4, <2>1, <2>2, <2>3, Zenon
<1>7. ASSUME NEW n \in 0 .. NRanks - 1, n \in T PROVE n + 1 \in T
  <2>1. n \in 0 .. NRanks /\ n + 1 \in 0 .. NRanks /\ n \in Rank
    BY <1>1
  <2>2. \A t \in Rank : (t < n + 1 <=> t < n \/ t = n) /\ ~(n < n)
    BY <1>1
  <2>3. Prev(n + 1) = Prev(n) \cup OwnPatch(n)
    BY <1>5, <2>1, <2>2, Zenon
  <2>4. Prev(n) \cap OwnPatch(n) = {}
    BY <1>5, <2>1, <2>2, Zenon DEF OwnPatch
  <2>5. IsFiniteSet(OwnPatch(n)) /\ Cardinality(OwnPatch(n)) = Len(P[n])
    BY <1>2, <2>1, PatchPositions, Zenon
  <2>6. IsFiniteSet(Prev(n)) /\ Cardinality(Prev(n)) = Len(Joined(P, n))
    BY <1>7, Zenon
  <2>7. /\ IsFiniteSet(Prev(n) \cup OwnPatch(n))
        /\ Cardinality(Prev(n) \cup OwnPatch(n)) =
             Cardinality(Prev(n)) + Cardinality(OwnPatch(n)) - Cardinality({})
    <3>1. /\ IsFiniteSet(Prev(n) \cup OwnPatch(n))
          /\ Cardinality(Prev(n) \cup OwnPatch(n)) =
               Cardinality(Prev(n)) + Cardinality(OwnPatch(n)) - Cardinality(Prev(n) \cap OwnPatch(n))
      BY <2>5, <2>6, FS_Union, Zenon
    <3> QED
      BY <2>4, <3>1, Zenon
  <2>8. Joined(P, n + 1) = Joined(P, n) \o P[n] /\ Joined(P, n) \in Seq(Loc) /\ P[n] \in Seq(Loc)
    BY <1>3, <1>4, <2>1, Zenon
  <2>9. Len(Joined(P, n + 1)) = Len(Joined(P, n)) + Len(P[n]) - 0
    BY <2>8
  <2>10. Cardinality({}) = 0
    BY FS_EmptySet
  <2> QED
    BY <2>1, <2>3, <2>5, <2>6, <2>7, <2>9, <2>10, Zenon
<1> HIDE DEF T
<1>8. 0 .. NRanks \subseteq T
  BY <1>1, <1>6, <1>7, InductionTo, Zenon
<1> QED
  BY <1>3, <1>8, Zenon DEF T, Prev

\* globalUniqueConsecutiveLocationIndex maps every location that a rank holds to
\* its element of what allGatherv returns, and allGatherv returns every location
\* held anywhere once.
THEOREM GatherIndexCorrect == Spec => []GatherIndex
<1>1. ASSUME IInv, Indexed PROVE GatherIndex
  <2> SUFFICES ASSUME Done
               PROVE  LET gathered == AllGatherv(indx) IN
                      /\ Len(gathered) = Cardinality(UNION {Range(indx[r]) : r \in Rank})
                      /\ \A r \in Rank :
                           /\ Len(patchObsBool[r]) = Len(indx[r])
                           /\ Len(globalUniqueConsecutiveLocIndices[r]) = Len(indx[r])
                           /\ \A i \in DOMAIN indx[r] :
                                LET k == globalUniqueConsecutiveLocIndices[r][i] + 1
                                IN k \in DOMAIN gathered /\ gathered[k] = indx[r][i]
    BY Zenon DEF GatherIndex
  <2> DEFINE P == [r \in Rank |-> PatchElements(r, indx[r])]
             gathered == Joined(P, NRanks)
  <2>1. AllGatherv(indx) = gathered
    BY Zenon DEF AllGatherv
  <2>2. \A r \in Rank : P[r] = PatchElements(r, indx[r])
    BY Zenon
  <2>3. /\ \A k \in 0 .. NRanks - 1 : P[k] \in Seq(Loc)
        /\ \A n \in 0 .. NRanks : Cardinality(PatchOnPreviousRanks(n)) = Len(Joined(P, n))
    BY <1>1, PreviousRanksCounted, Zenon
  <2> HIDE DEF P
  <2>4. NRanks \in Nat /\ NRanks \in 0 .. NRanks /\ Rank = 0 .. NRanks - 1
        /\ \A r \in Rank : r \in 0 .. NRanks /\ r < NRanks
    BY NRanksAssumption DEF Rank
  <2>5. /\ \A s \in Rank : \A g : PatchBelow(s, g) = {h \in OwnPatch(s) : h < g}
        /\ \A n : PatchOnPreviousRanks(n) = UNION {OwnPatch(s) : s \in {t \in Rank : t < n}}
        /\ \A r \in Rank : \A h \in Range(indx[r]) : Owner(h) \in Rank /\ h \in OwnPatch(Owner(h))
    BY <1>1, CountedIsOwned, Zenon
  <2>6. Len(gathered) = Cardinality(UNION {Range(indx[r]) : r \in Rank})
    <3>1. PatchOnPreviousRanks(NRanks) = UNION {OwnPatch(s) : s \in Rank}
      BY <2>4, <2>5, Zenon
    <3>2. UNION {OwnPatch(s) : s \in Rank} = UNION {Range(indx[r]) : r \in Rank}
      <4>1. ASSUME NEW r \in Rank, NEW h \in Range(indx[r])
            PROVE  h \in UNION {OwnPatch(s) : s \in Rank}
        BY <2>5, Zenon
      <4>2. ASSUME NEW s \in Rank, NEW h \in OwnPatch(s)
            PROVE  h \in UNION {Range(indx[r]) : r \in Rank}
        BY Zenon DEF OwnPatch
      <4> QED
        BY <4>1, <4>2, Zenon
    <3>3. Cardinality(PatchOnPreviousRanks(NRanks)) = Len(gathered)
      BY <2>3, <2>4, Zenon
    <3> QED
      BY <3>1, <3>2, <3>3, Zenon
  <2>7. ASSUME NEW r \in Rank
        PROVE  /\ patchObsBool[r] = [i \in DOMAIN indx[r] |-> IsPatch(r, indx[r][i])]
               /\ globalUniqueConsecutiveLocIndices[r] = [i \in DOMAIN indx[r] |-> IndexOf(indx[r][i])]
               /\ indx[r] \in Seq(Loc)
               /\ patchObsBool[r] \in Seq(BOOLEAN)
               /\ globalUniqueConsecutiveLocIndices[r] \in Seq(Nat)
    BY <1>1, Zenon DEF IInv, TypeOK, Flagged, Indexed, Done
  <2>8. ASSUME NEW r \in Rank
        PROVE  /\ Len(patchObsBool[r]) = Len(indx[r])
               /\ Len(globalUniqueConsecutiveLocIndices[r]) = Len(indx[r])
    <3>1. /\ DOMAIN patchObsBool[r] = DOMAIN indx[r]
          /\ DOMAIN globalUniqueConsecutiveLocIndices[r] = DOMAIN indx[r]
      BY <2>7, Zenon
    <3> QED
      BY <2>7, <3>1
  <2>9. ASSUME NEW r \in Rank, NEW i \in DOMAIN indx[r]
        PROVE  LET k == globalUniqueConsecutiveLocIndices[r][i] + 1
               IN k \in DOMAIN gathered /\ gathered[k] = indx[r][i]
    <3> DEFINE g == indx[r][i]
               s == Owner(g)
               j == Cardinality({h \in OwnPatch(s) : h < g}) + 1
    <3>1. s \in Rank /\ g \in OwnPatch(s)
      BY <2>5, Zenon DEF Range
    <3>2. j \in DOMAIN P[s] /\ P[s][j] = g
      BY <1>1, <2>2, <3>1, PatchElementsMeaning, Zenon
    <3>3. /\ Len(Joined(P, s)) + j \in DOMAIN gathered
          /\ gathered[Len(Joined(P, s)) + j] = P[s][j]
      <4>1. RankAfterRank(P, NRanks, Loc)
        BY <2>3, <2>4, JoinedElements, Zenon
      <4> HIDE DEF j, s
      <4> QED
        BY <2>4, <3>1, <3>2, <4>1, Zenon DEF RankAfterRank
    <3>4. globalUniqueConsecutiveLocIndices[r][i] =
            Cardinality({h \in OwnPatch(s) : h < g}) + Len(Joined(P, s))
      <4>1. globalUniqueConsecutiveLocIndices[r][i] = IndexOf(g)
        BY <2>7, Zenon
      <4>2. IndexOf(g) = Cardinality(PatchBelow(s, g)) + Cardinality(PatchOnPreviousRanks(s))
        BY Zenon DEF IndexOf
      <4> HIDE DEF g, s
      <4>3. s \in 0 .. NRanks
        BY <2>4, <3>1, Zenon
      <4> QED
        BY <2>3, <2>5, <3>1, <4>1, <4>2, <4>3, Zenon
    <3>5. /\ Cardinality({h \in OwnPatch(s) : h < g}) \in Nat
          /\ Len(Joined(P, s)) \in Nat
      <4>1. IsFiniteSet(OwnPatch(s))
        BY <1>1, <3>1, PatchPositions, Zenon
      <4>2. {h \in OwnPatch(s) : h < g} \subseteq OwnPatch(s)
        BY Zenon
      <4>3. Cardinality({h \in OwnPatch(s) : h < g}) \in Nat
        BY <4>1, <4>2, FS_Subset, FS_CardinalityType, Zenon
      <4> HIDE DEF s
      <4>4. Joined(P, s) \in Seq(Loc)
        BY <2>3, <2>4, <3>1, JoinedStep, Zenon
      <4>5. Len(Joined(P, s)) \in Nat
        BY <4>4
      <4> QED
        BY <4>3, <4>5, Zenon
    <3>6. \A a, b \in Nat : (a + b) + 1 = b + (a + 1)
      OBVIOUS
    <3>7. globalUniqueConsecutiveLocIndices[r][i] + 1 = Len(Joined(P, s)) + j
      BY <3>4, <3>5, <3>6, Zenon
    <3> QED
      BY <3>2, <3>3, <3>7, Zenon
  <2> HIDE DEF gathered
  <2> QED
    BY <2>1, <2>6, <2>8, <2>9, Zenon
<1> QED
  BY <1>1, Invariance, IndexedCorrect, PTL

-----------------------------------------------------------------------------
(* Halo implements Distribution *)

Closed == {r \in Rank : pc[r] = "done"}
Patch == [r \in Rank |-> PatchLocs(r)]

\* The abstract specification's Range is this module's.
LEMMA SameRange == \A f : D!Range(f) = Range(f)
  BY Zenon DEF D!Range, Range

\* A rank that has not returned from computePatchLocs has no patch yet.
LEMMA NoPatchYet ==
  ASSUME IInv, NEW q \in Rank, pc[q] # "done"
  PROVE  PatchLocs(q) = {} /\ patchObsBool[q] = <<>>
<1>1. patchObsBool[q] = <<>>
  BY Zenon DEF IInv, Flagged
<1>2. DOMAIN patchObsBool[q] = {}
  BY <1>1
<1> QED
  BY <1>1, <1>2, Zenon DEF PatchLocs

\* A rank that has seen a record holds a location of it exactly when the first
\* location of the record is near.
LEMMA SeenRecord ==
  ASSUME IInv, NEW r \in Rank, NEW i \in 1 .. pos[r]
  PROVE  calls[i].rec \in Range(recnums[r]) <=> Near(r, calls[i].rec)
<1>t. TypeOK /\ HeldLocations
  BY Zenon DEF IInv
<1>0. DOMAIN recnums[r] = DOMAIN indx[r]
  <2>1. recnums[r] \in Seq(Rec) /\ indx[r] \in Seq(Loc) /\ Len(recnums[r]) = Len(indx[r])
    BY <1>t, Zenon DEF TypeOK, HeldLocations
  <2> QED
    BY <2>1
<1>1. ASSUME calls[i].rec \in Range(recnums[r]) PROVE Near(r, calls[i].rec)
  <2>1. PICK k \in DOMAIN indx[r] : recnums[r][k] = calls[i].rec
    BY <1>0, <1>1, Zenon DEF Range
  <2>2. PICK j \in 1 .. pos[r] : /\ calls[j] = [rec |-> recnums[r][k], loc |-> indx[r][k]]
                                 /\ Near(r, calls[j].rec)
    BY <1>t, Zenon DEF HeldLocations
  <2>3. calls[j].rec = calls[i].rec
    BY <2>1, <2>2
  <2> QED
    BY <2>2, <2>3, Zenon
<1>2. ASSUME Near(r, calls[i].rec) PROVE calls[i].rec \in Range(recnums[r])
  <2>1. PICK k \in DOMAIN indx[r] : calls[i] = [rec |-> recnums[r][k], loc |-> indx[r][k]]
    BY <1>2, <1>t, Zenon DEF HeldLocations
  <2>2. calls[i].rec = recnums[r][k]
    BY <2>1
  <2> QED
    BY <2>2, <1>0, Zenon DEF Range
<1> QED
  BY <1>1, <1>2, Zenon

\* assignRecord is an assignRecord of the abstract distribution.
LEMMA AssignRecordRefines ==
  ASSUME IInv, NEW r \in Rank, AssignRecord(r)
  PROVE  D!AssignRecord(r)
<1> DEFINE c == NextCall(r)
           mine == Near(r, c.rec)
           known == \E i \in 1 .. pos[r] : calls[i].rec = c.rec
<1>t. TypeOK /\ RecordsDecided
  BY Zenon DEF IInv
<1>0. pc[r] = "assign" /\ pos[r] < Len(calls) /\ UNCHANGED <<calls, pc, patchObsBool>>
  BY Zenon DEF AssignRecord, result
<1>e. /\ pos' = [pos EXCEPT ![r] = @ + 1]
      /\ indx' = IF mine THEN [indx EXCEPT ![r] = Append(@, c.loc)] ELSE indx
      /\ recnums' = IF mine THEN [recnums EXCEPT ![r] = Append(@, c.rec)] ELSE recnums
  <2>1. PICK near : near = mine
    OBVIOUS
  <2>2. near = Near(r, NextCall(r).rec)
    BY <2>1, Zenon
  <2>3. pos' = [pos EXCEPT ![r] = @ + 1]
    BY Zenon DEF AssignRecord
  <2>4. /\ indx' = IF near THEN [indx EXCEPT ![r] = Append(@, c.loc)] ELSE indx
        /\ recnums' = IF near THEN [recnums EXCEPT ![r] = Append(@, c.rec)] ELSE recnums
    BY <1>t, <2>2, AssignRecordEffect
  <2> HIDE DEF c, mine
  <2> QED
    BY <2>1, <2>3, <2>4, Zenon
<1>1. known => (mine <=> c.rec \in Range(recnums[r]))
  BY SeenRecord, Zenon
<1>2. Closed' = Closed
  BY <1>0, Zenon DEF Closed
<1>3. \A q \in Rank : PatchLocs(q)' = PatchLocs(q)
  <2> SUFFICES ASSUME NEW q \in Rank PROVE PatchLocs(q)' = PatchLocs(q)
    OBVIOUS
  <2>1. CASE q = r
    <3>1. patchObsBool[r] = <<>> /\ patchObsBool'[r] = <<>>
      BY <1>0, NoPatchYet
    <3>2. DOMAIN patchObsBool[r] = {} /\ DOMAIN patchObsBool'[r] = {}
      BY <3>1
    <3> QED
      BY <2>1, <3>2 DEF PatchLocs
  <2>2. CASE q # r
    <3>1. indx'[q] = indx[q]
      BY <2>2, <1>e, <1>t, Zenon DEF TypeOK
    <3> QED
      BY <3>1, <1>0, Zenon DEF PatchLocs
  <2> QED
    BY <2>1, <2>2, Zenon
<1>4. Patch' = Patch
  BY <1>3, Zenon DEF Patch
<1>5. c = calls[pos[r] + 1]
  BY Zenon DEF NextCall
<1> HIDE DEF c, mine, known
<1>6. \E isMyRecord \in BOOLEAN :
        /\ known => (isMyRecord <=> c.rec \in Range(recnums[r]))
        /\ indx' = IF isMyRecord THEN [indx EXCEPT ![r] = Append(@, c.loc)] ELSE indx
        /\ recnums' = IF isMyRecord THEN [recnums EXCEPT ![r] = Append(@, c.rec)] ELSE recnums
  <2>1. CASE mine
    <3> WITNESS TRUE \in BOOLEAN
    <3> QED
      BY <2>1, <1>1, <1>e, Zenon
  <2>2. CASE ~mine
    <3> WITNESS FALSE \in BOOLEAN
    <3> QED
      BY <2>2, <1>1, <1>e, Zenon
  <2> QED
    BY <2>1, <2>2, Zenon
<1> QED
  BY <1>0, <1>e, <1>2, <1>4, <1>5, <1>6, SameRange, Zenon
  DEF D!AssignRecord, known, Closed, Patch

-----------------------------------------------------------------------------

\* The abstract record of a location held is the record under which it is held.
LEMMA RecordOfHeld ==
  ASSUME IInv, NEW r \in Rank, NEW k \in DOMAIN indx[r]
  PROVE  D!RecordOf(indx[r][k]) = recnums[r][k]
<1>t. TypeOK /\ CallsInOrder /\ HeldLocations
  BY Zenon DEF IInv
<1>1. PICK i \in 1 .. pos[r] : calls[i] = [rec |-> recnums[r][k], loc |-> indx[r][k]]
  BY <1>t, Zenon DEF HeldLocations
<1>2. i \in DOMAIN calls /\ calls[i].loc = indx[r][k] /\ calls[i].rec = recnums[r][k]
  BY <1>1, <1>t, CallsMade
<1>3. calls[i] \in Range(calls)
  BY <1>2, Zenon DEF Range
<1>4. \A c \in Range(calls) : c.loc = indx[r][k] => c = calls[i]
  <2> SUFFICES ASSUME NEW j \in DOMAIN calls, calls[j].loc = indx[r][k]
               PROVE  calls[j] = calls[i]
    BY Zenon DEF Range
  <2> QED
    BY <1>2, <1>t, OneCallPerLocation, Zenon
<1>5. (CHOOSE c \in Range(calls) : c.loc = indx[r][k]) = calls[i]
  BY <1>2, <1>3, <1>4, Zenon
<1> QED
  BY <1>2, <1>5, SameRange, Zenon DEF D!RecordOf

\* With nglocs = 0 no rank holds a location, and the patch is empty.
LEMMA NothingHeldRefines ==
  ASSUME IInv, NEW r \in Rank, SendMinloc(r), nglocs = 0
  PROVE  D!ComputePatchLocs(r)
<1>t. TypeOK /\ MaxPhase
  BY Zenon DEF IInv
<1>e. /\ pc[r] = "max" /\ \A s \in Rank : pc[s] # "assign"
      /\ UNCHANGED <<calls, pos, indx, recnums, patchObsBool>>
  BY Zenon DEF SendMinloc, client, result
<1>d. pc' = [pc EXCEPT ![r] = "done"]
  <2>1. ~(nglocs > 0)
    BY nglocs = 0
  <2> QED
    BY <2>1, Zenon DEF SendMinloc
<1>1. pos[r] = Len(calls) /\ r \notin Closed
  BY <1>e, <1>t DEF MaxPhase, Closed
<1>2. Range(indx[r]) = {}
  <2>1. ASSUME NEW k \in DOMAIN indx[r] PROVE FALSE
    <3>1. indx[r][k] + 1 \in 1 .. nglocs
      BY <1>e, HeldBelowNglocs
    <3> QED
      BY <3>1, nglocs = 0
  <2> QED
    BY <2>1, Zenon DEF Range
<1>3. Closed' = Closed \cup {r}
  <2>1. pc \in [Rank -> {"assign", "max", "minloc", "done"}]
    BY <1>t, Zenon DEF TypeOK
  <2> QED
    BY <1>d, <2>1 DEF Closed
<1>4. Patch' = [Patch EXCEPT ![r] = {}]
  <2>1. \A q \in Rank : PatchLocs(q)' = PatchLocs(q)
    BY <1>e, Zenon DEF PatchLocs
  <2>2. PatchLocs(r) = {}
    BY <1>e, NoPatchYet
  <2> QED
    BY <2>1, <2>2 DEF Patch
<1>5. D!Held(r) = {}
  BY <1>2, SameRange, Zenon DEF D!Held
<1>6. D!AdmissiblePatch(r, {})
  BY <1>5, Zenon DEF D!AdmissiblePatch
<1>7. {} \in SUBSET D!Held(r)
  BY Zenon
<1> QED
  BY <1>e, <1>1, <1>3, <1>4, <1>6, <1>7, Zenon DEF D!ComputePatchLocs, Closed, Patch

\* A rank that returns from the minloc reduction takes the locations it owns.
LEMMA FinishPatchLocsRefines ==
  ASSUME IInv, NEW r \in Rank, FinishPatchLocs(r)
  PROVE  D!ComputePatchLocs(r)
<1> DEFINE p == {g \in Range(indx[r]) : Owner(g) = r}
<1>t. TypeOK /\ MaxPhase /\ Mirrored
  BY Zenon DEF IInv
<1>e. /\ pc[r] = "minloc" /\ \A s \in Rank : minlocSent[s] # <<>>
      /\ pc' = [pc EXCEPT ![r] = "done"]
      /\ patchObsBool' = [patchObsBool EXCEPT ![r] =
           [i \in DOMAIN haloLocVector[r] |-> IsPatch(r, haloLocVector[r][i])]]
      /\ UNCHANGED <<calls, pos, indx, recnums>>
  BY Zenon DEF FinishPatchLocs, client
<1>1. r \notin Closed /\ pos[r] = Len(calls)
  BY <1>e, <1>t, Zenon DEF Closed, MaxPhase
<1>2. Closed' = Closed \cup {r}
  <2>1. pc \in [Rank -> {"assign", "max", "minloc", "done"}]
    BY <1>t, Zenon DEF TypeOK
  <2> QED
    BY <1>e, <2>1 DEF Closed
<1>3. PatchLocs(r)' = p
  <2>1. patchObsBool'[r] = [i \in DOMAIN indx[r] |-> IsPatch(r, indx[r][i])]
    BY <1>e, <1>t, Zenon DEF Mirrored, TypeOK
  <2>2. PatchLocs(r)' = {indx[r][i] : i \in {j \in DOMAIN indx[r] : IsPatch(r, indx[r][j])}}
    <3>1. DOMAIN patchObsBool'[r] = DOMAIN indx[r]
      BY <2>1, Zenon
    <3>2. \A j \in DOMAIN indx[r] : patchObsBool'[r][j] = IsPatch(r, indx[r][j])
      BY <2>1, Zenon
    <3>3. {j \in DOMAIN patchObsBool'[r] : patchObsBool'[r][j]} = {j \in DOMAIN indx[r] : IsPatch(r, indx[r][j])}
      BY <3>1, <3>2, Zenon
    <3> QED
      BY <1>e, <3>3, ZenonT(30) DEF PatchLocs
  <2> QED
    BY <2>2 DEF Range, IsPatch
<1>4. \A q \in Rank : q # r => PatchLocs(q)' = PatchLocs(q)
  BY <1>e, <1>t, Zenon DEF PatchLocs, TypeOK
<1>5. Patch' = [Patch EXCEPT ![r] = p]
  BY <1>3, <1>4 DEF Patch
<1>6. ASSUME NEW s \in Closed
      PROVE  s \in Rank /\ s # r /\ Patch[s] = {g \in Range(indx[s]) : Owner(g) = s}
  <2>1. s \in Rank /\ pc[s] = "done" /\ s # r
    BY <1>1, Zenon DEF Closed
  <2>2. \A g : g \in PatchLocs(s) <=> g \in Range(indx[s]) /\ Owner(g) = s
    BY <2>1, PatchMeaning, Zenon
  <2>3. Patch[s] = PatchLocs(s)
    BY <2>1, Zenon DEF Patch
  <2> QED
    BY <2>1, <2>2, <2>3, Zenon
<1>7. \A s : D!Held(s) = Range(indx[s])
  BY SameRange, Zenon DEF D!Held
<1>8. ASSUME NEW l \in D!Held(r), NEW m \in D!Held(r), l \in p, D!RecordOf(m) = D!RecordOf(l)
      PROVE  m \in p
  <2>1. PICK k \in DOMAIN indx[r] : l = indx[r][k]
    BY <1>7, Zenon DEF Range
  <2>2. PICK j \in DOMAIN indx[r] : m = indx[r][j]
    BY <1>7, Zenon DEF Range
  <2>3. recnums[r][k] = recnums[r][j]
    BY <2>1, <2>2, <1>8, RecordOfHeld, Zenon
  <2>4. Owner(indx[r][k]) = Owner(indx[r][j])
    BY <2>3, <1>e, OneOwnerPerRecord, Zenon
  <2> QED
    BY <2>1, <2>2, <2>4, <1>7, <1>8, Zenon
<1>9. \A s \in Closed : p \cap Patch[s] = {}
  BY <1>6
<1>10. ASSUME NEW l \in D!Held(r) \ p
       PROVE  \/ \E s \in Closed : l \in Patch[s]
              \/ \E s \in Rank \ (Closed \cup {r}) : l \in D!Held(s)
  <2>1. PICK k \in DOMAIN indx[r] : l = indx[r][k]
    BY <1>7, Zenon DEF Range
  <2>2. Owner(l) \in Rank /\ l \in Range(indx[Owner(l)])
    BY <2>1, <1>e, SentMeaning, Zenon
  <2>3. Owner(l) # r
    BY <1>7, Zenon
  <2>4. CASE Owner(l) \in Closed
    BY <2>2, <2>4, <1>6, Zenon
  <2>5. CASE Owner(l) \notin Closed
    BY <2>2, <2>3, <2>5, <1>7, Zenon
  <2> QED
    BY <2>4, <2>5, Zenon
<1>11. p \in SUBSET D!Held(r)
  BY <1>7, Zenon
<1> HIDE DEF p
<1>12. D!AdmissiblePatch(r, p)
  <2>1. Rank = D!Rank
    BY Zenon DEF Rank, D!Rank
  <2> QED
    BY <2>1, <1>8, <1>9, <1>10, Zenon DEF D!AdmissiblePatch, Closed, Patch
<1> QED
  BY <1>e, <1>1, <1>2, <1>5, <1>11, <1>12, Zenon DEF D!ComputePatchLocs, Closed, Patch

\* The Halo distribution keeps what Distribution.h promises at every step: each
\* rank takes a patch of whole records, disjoint from those taken before, and
\* leaves no location behind.
THEOREM Refinement == Spec => ImplementsDistribution
<1>1. ASSUME Init PROVE D!Init
  <2>1. Closed = {}
    BY <1>1, Zenon DEF Init, InitHalo, Closed
  <2>2. \A r \in Rank : PatchLocs(r) = {}
    <3>1. IInv /\ \A r \in Rank : pc[r] # "done"
      BY <1>1, InitIInv DEF Init, InitHalo
    <3> QED
      BY <3>1, NoPatchYet
  <2>3. calls \in D!CallSequences
    <3>1. calls \in CallSequences
      BY <1>1, Zenon DEF Init, InitClient
    <3>2. D!Call = Call
      BY Zenon DEF D!Call, Call, D!Rec, Rec, D!Loc, Loc
    <3>3. D!CallSequences = CallSequences
      BY <3>2, Zenon DEF D!CallSequences, CallSequences
    <3> QED
      BY <3>1, <3>3, Zenon
  <2>4. Patch = [r \in Rank |-> {}]
    BY <2>2, Zenon DEF Patch
  <2> QED
    BY <1>1, <2>1, <2>3, <2>4, Zenon DEF Init, InitClient, D!Init, D!Rank, Rank, Closed, Patch
<1>2. ASSUME IInv, [Next]_vars PROVE [D!Next]_(D!vars)
  <2>1. ASSUME NEW r \in Rank, AssignRecord(r) PROVE D!Next
    BY <1>2, <2>1, AssignRecordRefines, Zenon DEF D!Next, D!Rank, Rank
  <2>2. ASSUME NEW r \in Rank, FinishPatchLocs(r) PROVE D!Next
    BY <1>2, <2>2, FinishPatchLocsRefines, Zenon DEF D!Next, D!Rank, Rank
  <2>3. ASSUME NEW r \in Rank, SendMinloc(r), nglocs = 0 PROVE D!Next
    BY <1>2, <2>3, NothingHeldRefines, Zenon DEF D!Next, D!Rank, Rank
  <2>4. ASSUME UNCHANGED <<calls, pos, indx, recnums, patchObsBool>>, Closed' = Closed
        PROVE  UNCHANGED D!vars
    <3>1. \A q \in Rank : PatchLocs(q)' = PatchLocs(q)
      BY <2>4, Zenon DEF PatchLocs
    <3>2. Patch' = Patch
      BY <3>1, Zenon DEF Patch
    <3> QED
      BY <2>4, <3>2, Zenon DEF D!vars, Closed, Patch
  <2>t. pc \in [Rank -> {"assign", "max", "minloc", "done"}]
    BY <1>2, Zenon DEF IInv, TypeOK
  <2>5. ASSUME NEW r \in Rank, SendMinloc(r), nglocs # 0 PROVE UNCHANGED D!vars
    <3>1. /\ pc[r] = "max" /\ pc' = [pc EXCEPT ![r] = "minloc"]
          /\ UNCHANGED <<calls, pos, indx, recnums, patchObsBool>>
      BY <2>5, Zenon DEF SendMinloc, client, result
    <3>2. Closed' = Closed
      BY <3>1, <2>t DEF Closed
    <3> QED
      BY <3>1, <3>2, <2>4, Zenon
  <2>6. ASSUME NEW r \in Rank, ComputePatchLocs(r) PROVE UNCHANGED D!vars
    <3>1. /\ pc[r] = "assign" /\ pc' = [pc EXCEPT ![r] = "max"]
          /\ UNCHANGED <<calls, pos, indx, recnums, patchObsBool>>
      BY <2>6, Zenon DEF ComputePatchLocs, SendMax, client, result
    <3>2. Closed' = Closed
      BY <3>1, <2>t DEF Closed
    <3> QED
      BY <3>1, <3>2, <2>4, Zenon
  <2>7. CASE UNCHANGED vars
    <3>1. UNCHANGED <<calls, pos, indx, recnums, patchObsBool, pc>>
      BY <2>7, Zenon DEF vars, client, result
    <3>2. Closed' = Closed
      BY <3>1, Zenon DEF Closed
    <3> QED
      BY <3>1, <3>2, <2>4, Zenon
  <2> QED
    BY <1>2, <2>1, <2>2, <2>3, <2>5, <2>6, <2>7, Zenon DEF Next, Step, Terminated
<1> QED
  BY <1>1, <1>2, Invariance, PTL DEF Spec, ImplementsDistribution, D!Spec
=============================================================================
