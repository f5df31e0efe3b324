----------------------------- MODULE ReadHaloProofs -----------------------------
(***************************************************************************)
(* Proofs about the reader and the Halo distribution together, for any     *)
(* number of ranks, any obs source, frame size, centers and radii: the     *)
(* composition implements Halo, and what allGatherv returns in the end is  *)
(* every observation in some halo, once.                                   *)
(***************************************************************************)
EXTENDS ReadHalo, ObsFrameReadProofs

-----------------------------------------------------------------------------
(* The calls of the obs source *)

\* All the kept locations lie below NLocs.
LEMMA KeptIsFinite ==
  ASSUME ReaderTypeOK
  PROVE  IsFiniteSet(Kept) /\ Cardinality(Kept) \in 0 .. NLocs /\ KeptBelow(NLocs) = Kept
<1>1. \A l \in Kept : l < NLocs
  BY SizesAssumption DEF Kept, Loc
<1>2. KeptBelow(NLocs) = Kept
  BY <1>1, Zenon DEF KeptBelow
<1> QED
  BY <1>2, FirstsFinite, SizesAssumption

\* A kept location has more kept locations below it than an earlier one, and
\* fewer than there are in all.
LEMMA KeptOrder ==
  ASSUME ReaderTypeOK, NEW l \in Kept
  PROVE  /\ Cardinality(KeptBelow(l)) \in Nat
         /\ Cardinality(KeptBelow(l)) < Cardinality(Kept)
         /\ \A m \in Kept : l < m => Cardinality(KeptBelow(l)) < Cardinality(KeptBelow(m))
<1>1. l \in Nat /\ l \notin KeptBelow(l)
  BY KeptLocations DEF KeptBelow
<1>2. IsFiniteSet(KeptBelow(l)) /\ Cardinality(KeptBelow(l)) \in Nat
  BY <1>1, FirstsFinite
<1>3. /\ IsFiniteSet(KeptBelow(l) \cup {l})
      /\ Cardinality(KeptBelow(l) \cup {l}) = Cardinality(KeptBelow(l)) + 1
  BY <1>1, <1>2, FS_AddElement
<1>4. ASSUME NEW S, IsFiniteSet(S), KeptBelow(l) \cup {l} \subseteq S
      PROVE  Cardinality(KeptBelow(l)) < Cardinality(S)
  <2>1. Cardinality(KeptBelow(l) \cup {l}) <= Cardinality(S) /\ Cardinality(S) \in Nat
    BY <1>4, FS_Subset, FS_CardinalityType, Zenon
  <2> QED
    BY <1>2, <1>3, <2>1
<1>5. KeptBelow(l) \cup {l} \subseteq Kept
  BY Zenon DEF KeptBelow
<1>6. ASSUME NEW m \in Kept, l < m
      PROVE  Cardinality(KeptBelow(l)) < Cardinality(KeptBelow(m))
  <2>1. m \in Nat
    BY KeptLocations
  <2>2. \A k \in Nat : k < l => k < m
    BY <1>1, <1>6, <2>1
  <2>3. KeptBelow(l) \cup {l} \subseteq KeptBelow(m)
    BY <1>6, <2>2, KeptLocations, Zenon DEF KeptBelow
  <2> QED
    BY <2>1, <2>3, <1>4, FirstsFinite, Zenon
<1> QED
  BY <1>2, <1>4, <1>5, <1>6, KeptIsFinite

\* For each number below that of the kept locations one has as many below it.
LEMMA KeptPlace ==
  ASSUME ReaderTypeOK, NEW i \in 1 .. Cardinality(Kept)
  PROVE  \E l \in Kept : Cardinality(KeptBelow(l)) = i - 1
<1> DEFINE S == {n \in 0 .. NLocs : Cardinality(KeptBelow(n)) >= i}
<1>1. NLocs \in S /\ S \subseteq Nat
  BY KeptIsFinite, SizesAssumption
<1>2. PICK m \in S : \A n \in S : m <= n
  BY <1>1, LeastElement, Zenon
<1>3. KeptBelow(0) = {}
  BY KeptLocations DEF KeptBelow
<1>4. Cardinality(KeptBelow(0)) = 0
  BY <1>3, FS_EmptySet, Zenon
<1>5. m \in 0 .. NLocs /\ m # 0 /\ Cardinality(KeptBelow(m)) >= i
  BY <1>2, <1>4
<1>6. m - 1 \in Loc /\ m - 1 \in Nat /\ (m - 1) + 1 = m /\ ~(m <= m - 1) /\ m - 1 \in 0 .. NLocs
  BY <1>5, SizesAssumption DEF Loc
<1>7. ~(Cardinality(KeptBelow(m - 1)) >= i)
  BY <1>2, <1>6, Zenon
<1>8. /\ m - 1 \in Kept => Cardinality(KeptBelow(m)) = Cardinality(KeptBelow(m - 1)) + 1
      /\ m - 1 \notin Kept => KeptBelow(m) = KeptBelow(m - 1)
  BY <1>6, KeptStep
<1>9. m - 1 \in Kept
  BY <1>5, <1>7, <1>8, Zenon
<1>10. Cardinality(KeptBelow(m - 1)) \in Nat
  BY <1>9, KeptOrder, Zenon
<1> QED
  BY <1>5, <1>7, <1>8, <1>9, <1>10

\* SourceCalls has one call per kept location, in order, with its record.
LEMMA SourceCallsAre ==
  ASSUME ReaderTypeOK
  PROVE  /\ DOMAIN SourceCalls = 1 .. Cardinality(Kept)
         /\ \A i \in 1 .. Cardinality(Kept) :
              /\ SourceCalls[i].loc \in Kept
              /\ SourceCalls[i] = [rec |-> RecordOf(SourceCalls[i].loc), loc |-> SourceCalls[i].loc]
              /\ SourceCalls[i].rec = RecordOf(SourceCalls[i].loc)
              /\ Cardinality(KeptBelow(SourceCalls[i].loc)) = i - 1
<1> DEFINE At(i) == CHOOSE l \in Kept : Cardinality({k \in Kept : k < l}) = i - 1
<1>1. SourceCalls = [i \in 1 .. Cardinality(Kept) |-> [rec |-> RecordOf(At(i)), loc |-> At(i)]]
  BY Zenon DEF SourceCalls
<1>2. ASSUME NEW i \in 1 .. Cardinality(Kept)
      PROVE  At(i) \in Kept /\ Cardinality(KeptBelow(At(i))) = i - 1
  <2>1. \E l \in Kept : Cardinality({k \in Kept : k < l}) = i - 1
    BY KeptPlace, Zenon DEF KeptBelow
  <2> QED
    BY <2>1, Zenon DEF KeptBelow
<1> HIDE DEF At
<1>3. ASSUME NEW i \in 1 .. Cardinality(Kept)
      PROVE  /\ SourceCalls[i] = [rec |-> RecordOf(At(i)), loc |-> At(i)]
             /\ SourceCalls[i].loc = At(i)
             /\ SourceCalls[i].rec = RecordOf(At(i))
  <2>1. SourceCalls[i] = [rec |-> RecordOf(At(i)), loc |-> At(i)]
    BY <1>1, Zenon
  <2> QED
    BY <2>1
<1>4. DOMAIN SourceCalls = 1 .. Cardinality(Kept)
  BY <1>1, Zenon
<1> QED
  BY <1>2, <1>3, <1>4, Zenon

\* A kept location is that of the call whose number its place is.
LEMMA CallOfLocation ==
  ASSUME ReaderTypeOK, NEW l \in Kept
  PROVE  /\ Cardinality(KeptBelow(l)) + 1 \in 1 .. Cardinality(Kept)
         /\ SourceCalls[Cardinality(KeptBelow(l)) + 1] = [rec |-> RecordOf(l), loc |-> l]
<1> DEFINE i == Cardinality(KeptBelow(l)) + 1
           m == SourceCalls[i].loc
<1>1. i \in 1 .. Cardinality(Kept) /\ i - 1 = Cardinality(KeptBelow(l))
  BY KeptOrder, KeptIsFinite
<1> HIDE DEF i
<1>2. /\ m \in Kept /\ SourceCalls[i] = [rec |-> RecordOf(m), loc |-> m]
      /\ Cardinality(KeptBelow(m)) = i - 1
  BY <1>1, SourceCallsAre, Zenon
<1> HIDE DEF m
<1>3. Cardinality(KeptBelow(m)) = Cardinality(KeptBelow(l)) /\ Cardinality(KeptBelow(l)) \in Nat
  BY <1>1, <1>2, KeptOrder, Zenon
<1>4. ~(l < m) /\ ~(m < l)
  BY <1>2, <1>3, KeptOrder
<1>5. l = m
  BY <1>2, <1>4, KeptLocations
<1> QED
  BY <1>1, <1>2, <1>5, Zenon DEF i

\* The calls come in the order of the locations.
LEMMA SourceCallsInOrder ==
  ASSUME ReaderTypeOK, NEW i \in 1 .. Cardinality(Kept), NEW j \in 1 .. Cardinality(Kept)
  PROVE  i < j <=> SourceCalls[i].loc < SourceCalls[j].loc
<1> DEFINE l == SourceCalls[i].loc
           m == SourceCalls[j].loc
<1>1. /\ l \in Kept /\ m \in Kept
      /\ Cardinality(KeptBelow(l)) = i - 1 /\ Cardinality(KeptBelow(m)) = j - 1
  BY SourceCallsAre, Zenon
<1> HIDE DEF l, m
<1>2. /\ l < m => i - 1 < j - 1
      /\ m < l => j - 1 < i - 1
  BY <1>1, KeptOrder
<1>3. l \in Nat /\ m \in Nat /\ (l = m => i - 1 = j - 1)
  BY <1>1, KeptLocations
<1>4. i < j <=> l < m
  BY <1>2, <1>3, KeptIsFinite
<1> QED
  BY <1>4, Zenon DEF l, m

\* A record that starts at l, unless it is the first, has the number after that
\* of the record that starts last before l.
LEMMA PreviousFirst ==
  ASSUME ReaderTypeOK, NEW l \in Kept, FirstOfRecord(l) = l, RecordOf(l) # 0
  PROVE  \E k \in KeptBelow(l) : RecordOf(k) = RecordOf(l) - 1
<1> DEFINE F == FirstsBelow(l)
           D == {l - x : x \in F}
<1>1. l \in Nat /\ RecordOf(l) = Cardinality(F)
  BY KeptLocations, RecordNumbers
<1>2. F # {}
  BY <1>1, FS_EmptySet, Zenon
<1>3. F \subseteq KeptBelow(l) /\ F \subseteq Nat /\ \A x \in F : x < l /\ FirstOfRecord(x) = x
  BY KeptLocations DEF FirstsBelow, KeptBelow
<1>4. D \subseteq Nat /\ D # {}
  BY <1>1, <1>2, <1>3
<1>5. PICK d \in D : \A y \in D : d <= y
  BY <1>4, LeastElement, Zenon
<1>6. PICK g \in F : d = l - g
  BY <1>5, Zenon
<1>7. \A x \in F : l - g <= l - x
  BY <1>5, <1>6, Zenon
<1>8. \A x \in F : x < g \/ x = g
  BY <1>1, <1>3, <1>7
<1>9. g \in Nat /\ g < l /\ FirstOfRecord(g) = g /\ g \in Kept
  BY <1>3, Zenon DEF KeptBelow
<1>10. \A x \in Nat : x < g => x < l
  BY <1>1, <1>9
<1>11. F = FirstsBelow(g) \cup {g} /\ g \notin FirstsBelow(g)
  <2>1. F \subseteq FirstsBelow(g) \cup {g}
    BY <1>8, Zenon DEF FirstsBelow, KeptBelow
  <2>2. FirstsBelow(g) \cup {g} \subseteq F
    BY <1>10, KeptLocations, Zenon DEF FirstsBelow, KeptBelow
  <2>3. g \notin FirstsBelow(g)
    BY <1>9 DEF FirstsBelow, KeptBelow
  <2> QED
    BY <2>1, <2>2, <2>3, Zenon
<1> HIDE DEF F, D
<1>12. IsFiniteSet(FirstsBelow(g)) /\ Cardinality(FirstsBelow(g)) \in Nat
  BY <1>9, FirstsFinite
<1>14. Cardinality(F) = Cardinality(FirstsBelow(g)) + 1
  BY <1>11, <1>12, FS_AddElement
<1>13. RecordOf(g) = Cardinality(FirstsBelow(g))
  BY <1>9, RecordNumbers
<1> QED
  BY <1>1, <1>3, <1>12, <1>13, <1>14

\* The calls of an obs source are calls that Halo allows for.
LEMMA SourceCallsAllowed ==
  ASSUME ReaderTypeOK
  PROVE  SourceCalls \in H!CallSequences
<1> DEFINE N == Cardinality(Kept)
           C == SourceCalls
<1>0. N \in 0 .. NLocs /\ N \in Nat
  BY KeptIsFinite, SizesAssumption
<1>1. H!Call = Call
  BY Zenon DEF H!Call, H!Rec, H!Loc, Call, Rec, Loc
<1> HIDE DEF N
<1>2. /\ DOMAIN C = 1 .. N
      /\ \A i \in 1 .. N : /\ C[i].loc \in Kept /\ C[i].rec = RecordOf(C[i].loc)
                           /\ C[i] = [rec |-> RecordOf(C[i].loc), loc |-> C[i].loc]
                           /\ Cardinality(KeptBelow(C[i].loc)) = i - 1
  BY SourceCallsAre, Zenon DEF N
<1>3. C = [i \in 1 .. N |-> C[i]]
  BY Zenon DEF N, SourceCalls
<1> HIDE DEF C
<1>4. ASSUME NEW i \in 1 .. N
      PROVE  C[i] \in Call
  <2>1. C[i].loc \in Loc /\ RecordOf(C[i].loc) \in Rec
    BY <1>2, KeptLocations, RecordNumbers, Zenon
  <2> QED
    BY <1>2, <2>1 DEF Call
<1>5. C \in UNION {[1 .. n -> H!Call] : n \in 0 .. NLocs}
  <2>1. C \in [1 .. N -> H!Call]
    BY <1>1, <1>3, <1>4, Zenon
  <2> QED
    BY <1>0, <2>1, Zenon
<1>6. \A i, j \in DOMAIN C : i < j => C[i].loc < C[j].loc
  BY <1>2, SourceCallsInOrder, Zenon DEF N, C
<1>7. ASSUME NEW i \in DOMAIN C, C[i].rec # 0
      PROVE  \E j \in 1 .. i - 1 : C[j].rec \in {C[i].rec, C[i].rec - 1}
  <2> DEFINE l == C[i].loc
  <2>1. l \in Kept /\ C[i].rec = RecordOf(l) /\ Cardinality(KeptBelow(l)) = i - 1
    BY <1>2, Zenon
  <2> HIDE DEF l
  <2>2. ASSUME NEW k \in Kept, k < l
        PROVE  \E j \in 1 .. i - 1 : C[j].rec = RecordOf(k)
    <3> DEFINE j == Cardinality(KeptBelow(k)) + 1
    <3>1. j \in 1 .. i - 1
      BY <2>1, <2>2, <1>2, KeptOrder
    <3>2. C[j] = [rec |-> RecordOf(k), loc |-> k]
      BY CallOfLocation, Zenon DEF C
    <3> HIDE DEF j
    <3>3. C[j].rec = RecordOf(k)
      BY <3>2
    <3> QED
      BY <3>1, <3>3, Zenon
  <2>3. CASE FirstOfRecord(l) = l
    <3>1. PICK k \in KeptBelow(l) : RecordOf(k) = RecordOf(l) - 1
      BY <2>1, <2>3, <1>7, PreviousFirst, Zenon
    <3> QED
      BY <2>1, <2>2, <3>1, Zenon DEF KeptBelow
  <2>4. CASE FirstOfRecord(l) # l
    <3> DEFINE f == FirstOfRecord(l)
    <3>1. f \in Kept /\ f <= l /\ FirstOfRecord(f) = f
      BY <2>1, FirstLocation, Zenon
    <3>2. f < l
      BY <2>1, <2>4, <3>1, KeptLocations
    <3>3. RecordOf(f) = RecordOf(l)
      BY <2>1, <3>1, RecordNumbers, Zenon
    <3> QED
      BY <2>1, <2>2, <3>1, <3>2, <3>3, Zenon
  <2> QED
    BY <2>3, <2>4
<1> QED
  BY <1>5, <1>6, <1>7, Zenon DEF H!CallSequences, C

\* The initial states of the composition are initial states of Halo.
LEMMA InitImplements == InitReadHalo => H!Init /\ ReadHaloInv
<1> SUFFICES ASSUME InitReadHalo
             PROVE  H!Init /\ ReadHaloInv
  OBVIOUS
<1>1. ReaderInv /\ ReaderTypeOK
  BY InitReaderInv, Zenon DEF InitReadHalo, ReaderInv
<1>2. SourceCalls \in H!CallSequences
  BY <1>1, SourceCallsAllowed
<1>3. /\ distance \in [Rank -> [Loc -> 0 .. MaxDist]]
      /\ H!InitHalo
      /\ calls = [r \in Rank |-> <<>>]
      /\ indx = [r \in Rank |-> <<>>]
      /\ recnums = [r \in Rank |-> <<>>]
  BY Zenon DEF InitReadHalo, InitReader, InitFrame
<1>4. [r \in Rank |-> Len(calls[r])] = [r \in Rank |-> 0]
  <2>1. \A r \in Rank : Len(calls[r]) = 0
    BY <1>3
  <2> QED
    BY <2>1, Zenon
<1>5. H!Rank = Rank /\ H!Loc = Loc
  BY Zenon DEF H!Rank, H!Loc, Rank, Loc
<1>6. H!InitClient
  BY <1>2, <1>3, <1>4, <1>5, Zenon DEF H!InitClient
<1>7. pc = [r \in Rank |-> "assign"]
  BY <1>3, <1>5, Zenon DEF H!InitHalo
<1>8. InStep
  BY <1>7 DEF InStep
<1> QED
  BY <1>1, <1>3, <1>6, <1>8, Zenon DEF H!Init, ReadHaloInv

-----------------------------------------------------------------------------
(* The reader makes those calls *)

\* As many calls as kept locations.
LEMMA SourceCallsLength ==
  ASSUME ReaderTypeOK
  PROVE  Len(SourceCalls) = Cardinality(Kept) /\ SourceCalls \in Seq(Call)
<1>1. H!Call = Call
  BY Zenon DEF H!Call, H!Rec, H!Loc, Call, Rec, Loc
<1>2. PICK n \in 0 .. NLocs : SourceCalls \in [1 .. n -> Call]
  BY <1>1, SourceCallsAllowed, Zenon DEF H!CallSequences
<1>3. SourceCalls \in Seq(Call) /\ Len(SourceCalls) = n
  BY <1>2, SizesAssumption
<1>4. 1 .. n = 1 .. Cardinality(Kept)
  BY <1>2, SourceCallsAre, Zenon
<1>5. n = Cardinality(Kept)
  BY <1>4, KeptIsFinite, SizesAssumption
<1> QED
  BY <1>3, <1>5

\* The location that applyMpiDistribution offers next is that of the next call.
LEMMA NextCall ==
  ASSUME ReaderInv, NEW r \in Rank, CanAssign(r)
  PROVE  /\ Len(calls[r]) < Len(SourceCalls)
         /\ SourceCalls[Len(calls[r]) + 1] = [rec |-> NextRec(r), loc |-> NextLoc(r)]
<1> DEFINE a == applied[r] + 1
           l == locIndex[r][a]
           n == Len(calls[r])
           x == [i \in 1 .. n |-> calls[r][i].loc]
<1>t. /\ ReaderTypeOK /\ Progress(r) /\ Located(r) /\ Numbered(r) /\ Called(r)
      /\ applied[r] < Len(locIndex[r]) /\ Len(records[r]) = Len(locIndex[r])
  BY Zenon DEF ReaderInv, RankInv, CanAssign
<1>u. /\ applied[r] \in Nat /\ n \in Nat /\ DOMAIN calls[r] = 1 .. n
      /\ Len(locIndex[r]) \in Nat /\ DOMAIN locIndex[r] = 1 .. Len(locIndex[r])
      /\ Len(records[r]) \in Nat /\ DOMAIN records[r] = 1 .. Len(records[r])
      /\ \A i \in DOMAIN locIndex[r] : locIndex[r][i] \in Nat
      /\ \A i \in DOMAIN calls[r] : calls[r][i].loc \in Nat
      /\ Seen(r) \in Nat
  BY <1>t, RankTypes, RankLengths, SeenType, Zenon
<1>1. /\ a \in DOMAIN locIndex[r] /\ a \in DOMAIN records[r]
      /\ a \in applied[r] + 1 .. Len(locIndex[r])
      /\ \A j \in applied[r] + 1 .. Len(locIndex[r]) : j \in DOMAIN locIndex[r] /\ (a < j \/ a = j)
  BY <1>t, <1>u
<1>2. NextLoc(r) = l /\ NextRec(r) = RecordOf(l)
  BY <1>1, <1>t, Zenon DEF NextLoc, NextRec, Numbered
<1>3. l \in Kept /\ l < Seen(r) /\ l \in Nat
  BY <1>1, <1>t, <1>u, Zenon DEF Located
<1>4. \A j \in applied[r] + 1 .. Len(locIndex[r]) : l < locIndex[r][j] \/ l = locIndex[r][j]
  BY <1>1, <1>t, Zenon DEF Located
<1> HIDE DEF a, n
<1> HIDE DEF l
<1>5. \A i \in 1 .. n : calls[r][i].loc \in KeptBelow(l)
  <2>1. \A i \in DOMAIN calls[r] : calls[r][i].loc \in Kept /\ calls[r][i].loc < l
    BY <1>1, <1>t, Zenon DEF Called, l, KeptBelow
  <2> QED
    BY <2>1, <1>u, Zenon DEF KeptBelow
<1>6. ASSUME NEW k \in KeptBelow(l)
      PROVE  \E i \in 1 .. n : calls[r][i].loc = k
  <2>1. k \in Nat /\ k < l /\ k \in Kept
    BY KeptLocations, <1>t, Zenon DEF KeptBelow
  <2>2. k < Seen(r) /\ ~(l < k) /\ l # k
    BY <2>1, <1>3, <1>u
  <2>3. k \in KeptBelow(Seen(r))
    BY <2>1, <2>2, Zenon DEF KeptBelow
  <2> QED
    BY <2>2, <2>3, <1>4, <1>t, <1>u, Zenon DEF Called
<1>7. \A i, j \in 1 .. n : calls[r][i].loc = calls[r][j].loc => i = j
  <2>1. \A i, j \in 1 .. n : i < j => calls[r][i].loc < calls[r][j].loc
    BY <1>t, <1>u, Zenon DEF Called
  <2>2. \A i \in 1 .. n : calls[r][i].loc \in Nat
    BY <1>u, Zenon
  <2>3. \A k, m \in Nat : k < m => k # m
    OBVIOUS
  <2>4. \A i, j \in 1 .. n : i < j \/ j < i \/ i = j
    <3>1. n \in Nat
      BY <1>u
    <3> QED
      BY <3>1
  <2> QED
    BY <2>1, <2>2, <2>3, <2>4, Zenon
<1>8. Cardinality(KeptBelow(l)) = n
  <2>1. IsFiniteSet(1 .. n) /\ Cardinality(1 .. n) = n
    <3>1. IsFiniteSet(1 .. n) /\ Cardinality(1 .. n) = IF 1 > n THEN 0 ELSE n - 1 + 1
      BY <1>u, FS_Interval, n \in Int, 1 \in Int
    <3> QED
      BY <3>1, <1>u
  <2> DEFINE I == 1 .. n
             S == KeptBelow(l)
  <2>2. \A i \in I : x[i] = calls[r][i].loc
    BY Zenon
  <2>3. \A i \in I : x[i] \in S
    BY <2>2, <1>5, Zenon
  <2>4. \A k \in S : \E i \in I : x[i] = k
    BY <2>2, <1>6, Zenon
  <2>5. \A i, j \in I : x[i] = x[j] => i = j
    <3> SUFFICES ASSUME NEW i \in I, NEW j \in I, x[i] = x[j]
                 PROVE  i = j
      BY Zenon
    <3>1. calls[r][i].loc = calls[r][j].loc
      BY <2>2, Zenon
    <3> QED
      BY <3>1, <1>7, Zenon
  <2>6. IsFiniteSet(I) /\ Cardinality(I) = n
    BY <2>1, Zenon
  <2> HIDE DEF I, S, x
  <2>7. Cardinality(S) = Cardinality(I)
    <3>1. Enumerates(x, I, S)
      BY <2>3, <2>4, <2>5, Zenon DEF Enumerates
    <3> QED
      BY <2>6, <3>1, ImageCardinality, Zenon
  <2> QED
    BY <2>6, <2>7, Zenon DEF S
<1>9. n < Cardinality(Kept) /\ SourceCalls[n + 1] = [rec |-> RecordOf(l), loc |-> l]
  BY <1>3, <1>8, <1>t, KeptOrder, CallOfLocation, Zenon
<1>10. Len(SourceCalls) = Cardinality(Kept)
  BY <1>t, SourceCallsLength
<1> QED
  BY <1>2, <1>9, <1>10, Zenon DEF n, l

\* When no frame is left all the calls have been made.
LEMMA AllCallsMade ==
  ASSUME ReaderInv, NEW r \in Rank, phase[r] = "frame", frame_start[r] >= max_var_size
  PROVE  Len(calls[r]) = Len(SourceCalls)
<1>t. ReaderTypeOK /\ Progress(r) /\ CountedRows(r)
  BY Zenon DEF ReaderInv, RankInv
<1>1. ~InFrame(r) /\ phase[r] # "read"
  BY DEF InFrame
<1>2. frame_start[r] \in Nat
  BY <1>t, RankTypes, Zenon
<1>3. Seen(r) = NLocs
  BY <1>1, <1>2, SizesAssumption DEF Seen, Lesser, max_var_size
<1>4. applied[r] = Len(locIndex[r]) /\ Len(locIndex[r]) \in Nat /\ Len(calls[r]) \in Nat
  BY <1>1, <1>t, RankLengths, Zenon DEF Progress
<1>5. Len(calls[r]) + (Len(locIndex[r]) - applied[r]) = Cardinality(KeptBelow(Seen(r)))
  BY <1>t, Zenon DEF CountedRows
<1>6. KeptBelow(Seen(r)) = Kept
  BY <1>3, <1>t, KeptIsFinite, Zenon
<1>7. Len(SourceCalls) = Cardinality(Kept)
  BY <1>t, SourceCallsLength
<1> QED
  BY <1>4, <1>5, <1>6, <1>7

-----------------------------------------------------------------------------
(* Every step of the composition is a step of Halo, or invisible to it *)

\* The calls to be made depend on the obs source and the parameters only.
LEMMA SourceCallsSame ==
  ASSUME config' = config
  PROVE  SourceCalls' = SourceCalls
<1>1. Kept' = Kept /\ \A l : RecordOf(l)' = RecordOf(l)
  BY SourceSame, Zenon
<1> QED
  BY <1>1, Zenon DEF SourceCalls

\* Filtering, numbering and storing make no call and end no sequence of frames.
LEMMA ReadStepEffect ==
  ASSUME NEW r, ReadStep(r)
  PROVE  /\ config' = config /\ calls' = calls /\ indx' = indx /\ recnums' = recnums
         /\ \/ phase[r] = "frame" \/ phase[r] = "read"
            \/ phase[r] = "resize" \/ phase[r] = "store"
         /\ phase' = phase \/ \E p : phase' = [phase EXCEPT ![r] = p]
<1>1. CASE FrameAvailable(r)
  BY <1>1, Zenon DEF FrameAvailable
<1>2. CASE CheckLocation(r)
  BY <1>2, Zenon DEF CheckLocation, distributed
<1>3. CASE NumberLocation(r)
  BY <1>3, Zenon DEF NumberLocation, distributed
<1>4. CASE FinishFrame(r)
  BY <1>4, Zenon DEF FinishFrame, distributed
<1>5. CASE ResizeLocation(r)
  BY <1>5, Zenon DEF ResizeLocation, distributed
<1>6. CASE StoreFrame(r)
  BY <1>6, Zenon DEF StoreFrame, distributed
<1> QED
  BY <1>1, <1>2, <1>3, <1>4, <1>5, <1>6, Zenon DEF ReadStep

\* The ranks of Halo are those of the reader.
LEMMA HaloRanks == H!Rank = Rank /\ H!Loc = Loc /\ H!Rec = Rec
BY Zenon DEF H!Rank, H!Loc, H!Rec, Rank, Loc, Rec

\* A step in which the reader's part is unchanged keeps its invariant.
LEMMA ReaderUnchanged ==
  ASSUME ReaderInv, UNCHANGED readerVars
  PROVE  /\ ReaderInv' /\ SourceCalls' = SourceCalls
         /\ calls' = calls /\ indx' = indx /\ recnums' = recnums /\ phase' = phase
<1>1. config' = config /\ calls' = calls /\ indx' = indx /\ recnums' = recnums /\ phase' = phase
  BY Zenon DEF readerVars, distributed
<1> QED
  BY <1>1, ReaderStepInv, SourceCallsSame, Zenon

\* Read is invisible to Halo.
LEMMA ReadImplements ==
  ASSUME ReadHaloInv, NEW r \in Rank, Read(r)
  PROVE  ReadHaloInv' /\ UNCHANGED H!vars
<1>1. ReaderInv /\ InStep /\ ReadStep(r) /\ UNCHANGED haloVars
  BY Zenon DEF ReadHaloInv, Read
<1>2. ReaderInv'
  BY <1>1, ReaderStepInv, Zenon DEF ReaderNext, ReaderStep
<1>3. /\ config' = config /\ calls' = calls /\ indx' = indx /\ recnums' = recnums
      /\ phase[r] = "frame" \/ phase[r] = "read" \/ phase[r] = "resize" \/ phase[r] = "store"
      /\ phase' = phase \/ \E p : phase' = [phase EXCEPT ![r] = p]
  BY <1>1, ReadStepEffect, Zenon
<1>4. /\ UNCHANGED <<distance, pc, recordsInHalo, recordsOutsideHalo, recordDistancesFromCenter>>
      /\ UNCHANGED <<haloLocVector, haloLocRecords, patchObsBool>>
      /\ UNCHANGED <<globalUniqueConsecutiveLocIndices, maxSent, minlocSent>>
  BY <1>1, Zenon DEF haloVars, patchVars
<1>5. SourceCalls' = SourceCalls
  BY <1>3, SourceCallsSame, Zenon
<1>6. UNCHANGED H!vars
  BY <1>3, <1>4, <1>5, Zenon DEF H!vars, H!client, H!halo, H!result, H!mpi
<1>7. phase[r] # "done"
  BY <1>3
<1>8. phase \in [Rank -> {"frame", "read", "resize", "store", "done"}]
  BY <1>1, Zenon DEF ReaderInv, ReaderTypeOK
<1>9. \A q \in Rank : q # r => phase'[q] = phase[q]
  BY <1>3, <1>8, Zenon
<1>10. InStep'
  BY <1>1, <1>4, <1>7, <1>9, Zenon DEF InStep
<1> QED
  BY <1>2, <1>6, <1>10, Zenon DEF ReadHaloInv

\* applyMpiDistribution for one location is the next assignRecord of Halo.
LEMMA DistributeImplements ==
  ASSUME ReadHaloInv, NEW r \in Rank, Distribute(r)
  PROVE  ReadHaloInv' /\ H!AssignRecord(r)
<1> DEFINE n == Len(calls[r])
           P == [q \in Rank |-> Len(calls[q])]
           mine == NextRec(r) \in recordsInHalo'[r]
<1>1. /\ ReaderInv /\ ReaderTypeOK /\ InStep /\ CanAssign(r)
      /\ H!Assign(r, NextRec(r), NextLoc(r))
      /\ ApplyMpiDistribution(r, mine)
      /\ UNCHANGED <<distance, pc, patchObsBool, globalUniqueConsecutiveLocIndices>>
      /\ UNCHANGED <<maxSent, minlocSent>>
  BY Zenon DEF ReadHaloInv, ReaderInv, Distribute, patchVars
<1>2. /\ config' = config /\ phase' = phase
      /\ calls' = [calls EXCEPT ![r] = Append(@, [rec |-> NextRec(r), loc |-> NextLoc(r)])]
      /\ indx' = IF mine THEN [indx EXCEPT ![r] = Append(@, NextLoc(r))] ELSE indx
      /\ recnums' = IF mine THEN [recnums EXCEPT ![r] = Append(@, NextRec(r))] ELSE recnums
  BY <1>1, Zenon DEF ApplyMpiDistribution
<1>3. ReaderInv'
  <2>1. CASE mine
    <3>1. ApplyMpiDistribution(r, TRUE)
      BY <1>1, <2>1, Zenon DEF ApplyMpiDistribution
    <3> QED
      BY <1>1, <3>1, AssignStep, Zenon
  <2>2. CASE ~mine
    <3>1. ApplyMpiDistribution(r, FALSE)
      BY <1>1, <2>2, Zenon DEF ApplyMpiDistribution
    <3> QED
      BY <1>1, <3>1, AssignStep, Zenon
  <2> QED
    BY <2>1, <2>2, Zenon
<1>4. InStep'
  BY <1>1, <1>2, Zenon DEF InStep
<1>5. pc[r] = "assign"
  <2>1. phase[r] = "read"
    BY <1>1, Zenon DEF CanAssign
  <2>2. phase[r] # "done"
    BY <2>1
  <2> QED
    BY <1>1, <2>2, Zenon DEF InStep
<1>6. n < Len(SourceCalls) /\ SourceCalls[n + 1] = [rec |-> NextRec(r), loc |-> NextLoc(r)]
  BY <1>1, NextCall, Zenon
<1>7. P[r] = n
  BY Zenon
<1>8. P' = [P EXCEPT ![r] = @ + 1]
  <2>1. calls \in [Rank -> Seq(Call)] /\ calls[r] \in Seq(Call) /\ n \in Nat
    BY <1>1, RankTypes, RankLengths, Zenon DEF ReaderTypeOK
  <2>2. /\ calls'[r] = Append(calls[r], [rec |-> NextRec(r), loc |-> NextLoc(r)])
        /\ \A q \in Rank : q # r => calls'[q] = calls[q]
    BY <1>2, <2>1, Zenon
  <2>3. Len(calls'[r]) = n + 1
    BY <2>1, <2>2
  <2>4. \A q \in Rank : Len(calls'[q]) = [P EXCEPT ![r] = @ + 1][q]
    BY <2>2, <2>3, <1>7, Zenon
  <2>5. P' = [q \in Rank |-> Len(calls'[q])]
    BY Zenon DEF Rank
  <2> QED
    BY <2>4, <2>5, Zenon
<1>9. SourceCalls' = SourceCalls
  BY <1>2, SourceCallsSame, Zenon
<1> HIDE DEF P, n
<1>10. SourceCalls[P[r] + 1].rec = NextRec(r) /\ SourceCalls[P[r] + 1].loc = NextLoc(r)
  BY <1>6, <1>7
<1>11. H!AssignRecord(r)
  BY <1>1, <1>2, <1>5, <1>6, <1>7, <1>8, <1>9, <1>10, Zenon DEF H!AssignRecord, H!result, H!mpi, P
<1> QED
  BY <1>1, <1>3, <1>4, <1>11, Zenon DEF ReadHaloInv

\* The end of the frames is Halo's computePatchLocs, after the last call.
LEMMA EndOfFramesImplements ==
  ASSUME ReadHaloInv, NEW r \in Rank, EndOfFrames(r)
  PROVE  ReadHaloInv' /\ H!ComputePatchLocs(r)
<1>1. /\ ReaderInv /\ ReaderTypeOK /\ InStep /\ NoFrameLeft(r)
      /\ H!SendMax(r) /\ distance' = distance
  BY Zenon DEF ReadHaloInv, ReaderInv, EndOfFrames
<1>2. /\ phase[r] = "frame" /\ frame_start[r] >= max_var_size
      /\ phase' = [phase EXCEPT ![r] = "done"]
      /\ config' = config /\ calls' = calls /\ indx' = indx /\ recnums' = recnums
  BY <1>1, Zenon DEF NoFrameLeft, distributed
<1>3. ReaderInv'
  BY <1>1, NoFrameLeftStep, Zenon
<1>4. pc[r] = "assign"
  <2>1. phase[r] # "done"
    BY <1>2
  <2> QED
    BY <1>1, <2>1, Zenon DEF InStep
<1>5. [q \in Rank |-> Len(calls[q])][r] = Len(SourceCalls)
  BY <1>1, <1>2, AllCallsMade, Zenon
<1>6. SourceCalls' = SourceCalls
  BY <1>2, SourceCallsSame, Zenon
<1>7. H!ComputePatchLocs(r)
  BY <1>1, <1>2, <1>4, <1>5, <1>6, Zenon DEF H!ComputePatchLocs, H!client
<1>8. pc' = [pc EXCEPT ![r] = "max"]
  BY <1>1, Zenon DEF H!SendMax
<1>9. InStep'
  <2>1. /\ phase \in [Rank -> {"frame", "read", "resize", "store", "done"}]
        /\ pc \in [Rank -> {"assign", "max", "minloc", "done"}]
    BY <1>1, Zenon DEF ReaderTypeOK, InStep
  <2>2. \A q \in Rank : q # r => phase'[q] = phase[q] /\ pc'[q] = pc[q]
    BY <1>2, <1>8, <2>1, Zenon
  <2>3. phase'[r] = "done"
    BY <1>2, <2>1, Zenon
  <2>4. pc' \in [Rank -> {"assign", "max", "minloc", "done"}]
    BY <1>8, <2>1, Zenon
  <2> QED
    BY <1>1, <2>2, <2>3, <2>4, Zenon DEF InStep
<1> QED
  BY <1>3, <1>7, <1>9, Zenon DEF ReadHaloInv

\* The rest of computePatchLocs leaves the reader alone.
LEMMA PatchLocsImplements ==
  ASSUME ReadHaloInv, NEW r \in Rank, PatchLocsMinloc(r) \/ PatchLocsFinish(r)
  PROVE  ReadHaloInv' /\ (H!SendMinloc(r) \/ H!FinishPatchLocs(r))
<1>1. /\ ReaderInv /\ InStep /\ UNCHANGED readerVars
      /\ H!SendMinloc(r) \/ H!FinishPatchLocs(r)
  BY Zenon DEF ReadHaloInv, PatchLocsMinloc, PatchLocsFinish
<1>2. ReaderInv' /\ phase' = phase
  BY <1>1, ReaderUnchanged, Zenon
<1>3. /\ pc[r] = "max" \/ pc[r] = "minloc"
      /\ pc' = [pc EXCEPT ![r] = "minloc"] \/ pc' = [pc EXCEPT ![r] = "done"]
  BY <1>1, Zenon DEF H!SendMinloc, H!FinishPatchLocs
<1>4. InStep'
  <2>1. pc \in [Rank -> {"assign", "max", "minloc", "done"}]
    BY <1>1, Zenon DEF InStep
  <2>2. pc[r] # "assign"
    BY <1>3
  <2>3. pc' \in [Rank -> {"assign", "max", "minloc", "done"}]
    BY <1>3, <2>1, Zenon
  <2>4. \A q \in Rank : q # r => pc'[q] = pc[q]
    BY <1>3, <2>1, Zenon
  <2> QED
    BY <1>1, <1>2, <2>2, <2>3, <2>4, Zenon DEF InStep
<1> QED
  BY <1>1, <1>2, <1>4, Zenon DEF ReadHaloInv

\* A step of the composition is a step of Halo or leaves its variables unchanged,
\* and keeps reader and distribution in step.
LEMMA NextImplements ==
  ASSUME ReadHaloInv, [NextReadHalo]_allVars
  PROVE  ReadHaloInv' /\ [H!Next]_(H!vars)
<1>1. ASSUME NEW r \in Rank, RankStep(r)
      PROVE  ReadHaloInv' /\ [H!Next]_(H!vars)
  <2>0. r \in H!Rank
    BY HaloRanks, Zenon
  <2>1. CASE Read(r)
    BY <2>1, ReadImplements, Zenon
  <2>2. CASE Distribute(r)
    BY <2>0, <2>2, DistributeImplements, Zenon DEF H!Next, H!Step
  <2>3. CASE EndOfFrames(r)
    BY <2>0, <2>3, EndOfFramesImplements, Zenon DEF H!Next, H!Step
  <2>4. CASE PatchLocsMinloc(r) \/ PatchLocsFinish(r)
    BY <2>0, <2>4, PatchLocsImplements, Zenon DEF H!Next, H!Step
  <2> QED
    BY <1>1, <2>1, <2>2, <2>3, <2>4, Zenon DEF RankStep
<1>2. ASSUME UNCHANGED allVars
      PROVE  ReadHaloInv' /\ [H!Next]_(H!vars)
  <2>1. UNCHANGED readerVars /\ ReaderInv /\ InStep
    BY <1>2, Zenon DEF allVars, ReadHaloInv
  <2>2. /\ UNCHANGED <<distance, pc, recordsInHalo, recordsOutsideHalo, recordDistancesFromCenter>>
        /\ UNCHANGED <<haloLocVector, haloLocRecords, patchObsBool>>
        /\ UNCHANGED <<globalUniqueConsecutiveLocIndices, maxSent, minlocSent>>
    BY <1>2, Zenon DEF allVars, haloVars, patchVars
  <2>3. /\ ReaderInv' /\ SourceCalls' = SourceCalls
        /\ calls' = calls /\ indx' = indx /\ recnums' = recnums /\ phase' = phase
    BY <2>1, ReaderUnchanged, Zenon
  <2>4. InStep'
    BY <2>1, <2>2, <2>3, Zenon DEF InStep
  <2>5. UNCHANGED H!vars
    BY <2>2, <2>3, Zenon DEF H!vars, H!client, H!halo, H!result, H!mpi
  <2> QED
    BY <2>3, <2>4, <2>5, Zenon DEF ReadHaloInv
<1> QED
  BY <1>1, <1>2, Zenon DEF NextReadHalo, AllTerminated

\* Reader and distribution stay in step: frameAvailable calls computePatchLocs
\* on a rank after its last assignRecord, and never before.
THEOREM ReadHaloInvariance == ReadHaloSpec => []ReadHaloInv
<1>1. InitReadHalo => ReadHaloInv
  BY InitImplements
<1>2. ReadHaloInv /\ [NextReadHalo]_allVars => ReadHaloInv'
  BY NextImplements
<1> QED
  BY <1>1, <1>2, PTL DEF ReadHaloSpec

\* Whatever the frames and however the ranks are interleaved, the reader uses
\* the distribution as Halo requires: applyMpiDistribution makes the calls of the
\* whole source in order, and computePatchLocs follows the last of them.
THEOREM Refinement == ReadHaloSpec => ImplementsHalo
<1>1. InitReadHalo => H!Init
  BY InitImplements
<1>2. ReadHaloInv /\ [NextReadHalo]_allVars => [H!Next]_(H!vars)
  BY NextImplements
<1> QED
  BY <1>1, <1>2, ReadHaloInvariance, PTL DEF ReadHaloSpec, ImplementsHalo, H!Spec

-----------------------------------------------------------------------------
(* What allGatherv returns *)

\* The first call for a record is that of its first location.
LEMMA FirstCallOfRecord ==
  ASSUME ReaderTypeOK, NEW l \in Kept
  PROVE  SourceCalls[H!FirstCall(RecordOf(l))].loc = FirstOfRecord(l)
<1> DEFINE f == FirstOfRecord(l)
           j == Cardinality(KeptBelow(f)) + 1
           N == Cardinality(Kept)
           Is(i) == /\ SourceCalls[i].rec = RecordOf(l)
                    /\ \A k \in 1 .. i - 1 : SourceCalls[k].rec # RecordOf(l)
<1>0. N \in Nat
  BY KeptIsFinite
<1>1. f \in Kept /\ FirstOfRecord(f) = f /\ f \in Nat
  BY FirstLocation, KeptLocations
<1>2. RecordOf(f) = RecordOf(l) /\ RecordOf(l) = Cardinality(FirstsBelow(f))
  BY <1>1, RecordNumbers, Zenon
<1>3. j \in 1 .. N /\ SourceCalls[j] = [rec |-> RecordOf(f), loc |-> f]
  BY <1>1, CallOfLocation, Zenon
<1> HIDE DEF j, f
<1>4. SourceCalls[j].loc = f /\ SourceCalls[j].rec = RecordOf(l)
  BY <1>2, <1>3
<1>5. ASSUME NEW k \in 1 .. j - 1
      PROVE  SourceCalls[k].rec # RecordOf(l)
  <2> DEFINE m == SourceCalls[k].loc
             h == FirstOfRecord(m)
  <2>1. k \in 1 .. N /\ k < j
    BY <1>0, <1>3
  <2>2. m \in Kept /\ SourceCalls[k].rec = RecordOf(m)
    BY <2>1, SourceCallsAre, Zenon
  <2>3. m < f
    BY <2>1, <1>3, <1>4, SourceCallsInOrder, Zenon
  <2> HIDE DEF m
  <2>4. h \in Kept /\ h <= m /\ FirstOfRecord(h) = h /\ RecordOf(m) = Cardinality(FirstsBelow(h))
    BY <2>2, FirstLocation, RecordNumbers, Zenon
  <2> HIDE DEF h
  <2>5. h \in Nat /\ h < f
    <3>1. h \in Nat /\ m \in Nat
      BY <2>2, <2>4, KeptLocations, Zenon
    <3> QED
      BY <3>1, <2>3, <2>4, <1>1
  <2>6. h \in FirstsBelow(f) /\ h \notin FirstsBelow(h)
    BY <2>4, <2>5 DEF FirstsBelow, KeptBelow
  <2>7. FirstsBelow(h) \cup {h} \subseteq FirstsBelow(f)
    <3>1. \A x \in Nat : x < h => x < f
      BY <2>5, <1>1
    <3> QED
      BY <3>1, <2>6, KeptLocations, Zenon DEF FirstsBelow, KeptBelow
  <2>8. /\ IsFiniteSet(FirstsBelow(h)) /\ Cardinality(FirstsBelow(h)) \in Nat
        /\ IsFiniteSet(FirstsBelow(f)) /\ Cardinality(FirstsBelow(f)) \in Nat
    BY <2>5, <1>1, FirstsFinite
  <2>9. Cardinality(FirstsBelow(h) \cup {h}) = Cardinality(FirstsBelow(h)) + 1
    BY <2>6, <2>8, FS_AddElement
  <2>10. Cardinality(FirstsBelow(h) \cup {h}) <= Cardinality(FirstsBelow(f))
    BY <2>7, <2>8, FS_Subset, Zenon
  <2>11. RecordOf(m) # RecordOf(l)
    BY <2>4, <2>8, <2>9, <2>10, <1>2
  <2> QED
    BY <2>2, <2>11, Zenon
<1>6. DOMAIN SourceCalls = 1 .. N
  BY SourceCallsAre, Zenon
<1>7. Is(j)
  BY <1>4, <1>5, Zenon
<1>8. ASSUME NEW i \in 1 .. N, Is(i)
      PROVE  i = j
  <2>1. CASE i < j
    <3>1. i \in 1 .. j - 1
      BY <2>1, <1>0, <1>3
    <3> QED
      BY <3>1, <1>7, <1>8, Zenon
  <2>2. CASE j < i
    <3>1. j \in 1 .. i - 1
      BY <2>2, <1>0, <1>3
    <3> QED
      BY <3>1, <1>7, <1>8, Zenon
  <2>3. i < j \/ j < i \/ i = j
    BY <1>0, <1>3
  <2> QED
    BY <2>1, <2>2, <2>3
<1>9. H!FirstCall(RecordOf(l)) = CHOOSE i \in DOMAIN SourceCalls : Is(i)
  BY Zenon DEF H!FirstCall
<1> HIDE DEF Is, N
<1>10. H!FirstCall(RecordOf(l)) = j
  BY <1>3, <1>6, <1>7, <1>8, <1>9, Zenon
<1> QED
  BY <1>4, <1>10, Zenon DEF f

\* The operators that Halo takes from the library are those of the reader.
LEMMA HaloRange == (\A f : H!Range(f) = Range(f)) /\ \A S : H!Cardinality(S) = Cardinality(S)
<1>1. \A f : H!Range(f) = Range(f)
  BY Zenon DEF H!Range, Range
<1>2. \A S : H!Cardinality(S) = Cardinality(S)
  BY Zenon DEF H!Cardinality, Cardinality
<1> QED
  BY <1>1, <1>2, Zenon

\* allGatherv in the terms of Vectors.
LEMMA GatheredVector ==
  ASSUME NEW x
  PROVE  H!AllGatherv(x) = Joined([r \in Rank |-> Marked(x[r], patchObsBool[r], Len(x[r]))], NRanks)
<1>1. \A y, m, n : H!Marked(y, m, n) = Marked(y, m, n)
  BY Zenon DEF H!Marked, Marked
<1>2. \A y, n : H!Joined(y, n) = Joined(y, n)
  BY Zenon DEF H!Joined, Joined
<1>3. [r \in H!Rank |-> H!PatchElements(r, x[r])] =
        [r \in Rank |-> Marked(x[r], patchObsBool[r], Len(x[r]))]
  BY <1>1, HaloRanks, Zenon DEF H!PatchElements
<1> QED
  BY <1>2, <1>3, Zenon DEF H!AllGatherv

\* Halo's GatherIndex in the terms of the reader: once all the ranks are done, each
\* location in some indx is found in what allGatherv returns, which has as many
\* elements as there are such locations.
LEMMA GatheredIndices ==
  ASSUME H!GatherIndex, \A r \in Rank : pc[r] = "done"
  PROVE  LET G == H!AllGatherv(indx)
         IN /\ Len(G) = Cardinality(UNION {Range(indx[r]) : r \in Rank})
            /\ \A r \in Rank : \A i \in DOMAIN indx[r] : \E k \in DOMAIN G : G[k] = indx[r][i]
<1> DEFINE G == H!AllGatherv(indx)
<1>1. /\ Len(G) = H!Cardinality(UNION {H!Range(indx[r]) : r \in H!Rank})
      /\ \A r \in H!Rank : \A i \in DOMAIN indx[r] : \E k \in DOMAIN G : G[k] = indx[r][i]
  BY HaloRanks, Zenon DEF H!GatherIndex, H!Done
<1> HIDE DEF G
<1>2. UNION {H!Range(indx[r]) : r \in H!Rank} = UNION {Range(indx[r]) : r \in Rank}
  BY HaloRanks, HaloRange, Zenon
<1> QED
  BY <1>1, <1>2, HaloRanks, HaloRange, Zenon DEF G

\* A rank that is done holds the kept locations whose records start in its halo.
LEMMA HeldInTheEnd ==
  ASSUME ReadHaloInv, H!HeldLocations, H!MaxPhase, H!WholeRecords, NEW r \in Rank, pc[r] = "done"
  PROVE  Range(indx[r]) = {l \in Kept : distance[r][FirstOfRecord(l)] <= Radius[r]}
<1> DEFINE N == Len(SourceCalls)
           P == [q \in Rank |-> Len(calls[q])]
<1>1. ReaderTypeOK
  BY Zenon DEF ReadHaloInv, ReaderInv
<1>2. /\ N = Cardinality(Kept) /\ N \in Nat
      /\ \A i \in 1 .. N : SourceCalls[i].loc \in Kept
                           /\ SourceCalls[i].rec = RecordOf(SourceCalls[i].loc)
  BY <1>1, SourceCallsLength, SourceCallsAre, KeptIsFinite
<1>3. P[r] = N
  <2>1. pc[r] # "assign" /\ r \in H!Rank
    BY HaloRanks
  <2> QED
    BY <2>1, Zenon DEF H!MaxPhase
<1>4. \A i \in 1 .. N : SourceCalls[i].loc \in Range(indx[r]) <=> H!Near(r, SourceCalls[i].rec)
  BY <1>3, HaloRanks, HaloRange, Zenon DEF H!WholeRecords
<1>5. \A l \in Kept : H!Near(r, RecordOf(l)) <=> distance[r][FirstOfRecord(l)] <= Radius[r]
  BY <1>1, FirstCallOfRecord, Zenon DEF H!Near
<1>6. \A k \in DOMAIN indx[r] : \E i \in 1 .. N : SourceCalls[i].loc = indx[r][k]
  <2>1. \A k \in DOMAIN indx[r] : \E i \in 1 .. N :
          SourceCalls[i] = [rec |-> recnums[r][k], loc |-> indx[r][k]]
    <3>1. \A k \in DOMAIN indx[r] : \E i \in 1 .. P[r] :
            SourceCalls[i] = [rec |-> recnums[r][k], loc |-> indx[r][k]]
      BY HaloRanks, Zenon DEF H!HeldLocations
    <3> QED
      BY <1>3, <3>1, Zenon
  <2>2. ASSUME NEW k \in DOMAIN indx[r]
        PROVE  \E i \in 1 .. N : SourceCalls[i].loc = indx[r][k]
    <3>1. PICK i \in 1 .. N : SourceCalls[i] = [rec |-> recnums[r][k], loc |-> indx[r][k]]
      BY <2>1, Zenon
    <3>2. SourceCalls[i].loc = indx[r][k]
      BY <3>1
    <3> QED
      BY <3>2, Zenon
  <2> QED
    BY <2>2, Zenon
<1> HIDE DEF N
<1>7. \A l \in Range(indx[r]) : \E i \in 1 .. N : SourceCalls[i].loc = l
  BY <1>6, Zenon DEF Range
<1>8. \A l \in Kept : \E i \in 1 .. N : SourceCalls[i].loc = l
  <2>1. ASSUME NEW l \in Kept
        PROVE  \E i \in 1 .. N : SourceCalls[i].loc = l
    <3>1. /\ Cardinality(KeptBelow(l)) + 1 \in 1 .. N
          /\ SourceCalls[Cardinality(KeptBelow(l)) + 1] = [rec |-> RecordOf(l), loc |-> l]
      BY <1>1, <1>2, CallOfLocation, Zenon
    <3>2. SourceCalls[Cardinality(KeptBelow(l)) + 1].loc = l
      BY <3>1
    <3> QED
      BY <3>1, <3>2, Zenon
  <2> QED
    BY <2>1, Zenon
<1>9. \A l \in Kept : l \in Range(indx[r]) <=> distance[r][FirstOfRecord(l)] <= Radius[r]
  <2>1. ASSUME NEW l \in Kept
        PROVE  l \in Range(indx[r]) <=> distance[r][FirstOfRecord(l)] <= Radius[r]
    <3>1. PICK i \in 1 .. N : SourceCalls[i].loc = l
      BY <1>8, Zenon
    <3>2. SourceCalls[i].rec = RecordOf(l)
      BY <3>1, <1>2, Zenon
    <3>3. l \in Range(indx[r]) <=> H!Near(r, RecordOf(l))
      BY <3>1, <3>2, <1>4, Zenon
    <3> QED
      BY <3>3, <1>5, Zenon
  <2> QED
    BY <2>1, Zenon
<1>10. Range(indx[r]) \subseteq Kept
  BY <1>2, <1>7, Zenon
<1> QED
  BY <1>9, <1>10, Zenon

\* In the end allGatherv of a variable returns every observation once.
LEMMA InvEveryObsOnce ==
  ASSUME ReadHaloInv, H!HeldLocations, H!MaxPhase, H!WholeRecords, H!GatherIndex
  PROVE  EveryObsOnce
<1> DEFINE G == H!AllGatherv(stored)
           U == UNION {Range(indx[r]) : r \in Rank}
           W == {l \in Kept : \E r \in Rank : distance[r][FirstOfRecord(l)] <= Radius[r]}
<1> SUFFICES ASSUME H!Done
             PROVE  /\ \A i, j \in DOMAIN G : G[i] = G[j] => i = j
                    /\ Range(G) = W
  BY Zenon DEF EveryObsOnce
<1>1. /\ ReaderInv /\ ReaderTypeOK /\ InStep /\ \A r \in Rank : pc[r] = "done"
  BY HaloRanks, Zenon DEF ReadHaloInv, ReaderInv, H!Done
<1>2. \A r \in Rank : phase[r] = "done"
  <2>1. "done" # "assign"
    OBVIOUS
  <2> QED
    BY <1>1, <2>1, Zenon DEF InStep
<1>3. stored = indx
  <2>1. \A r \in Rank : stored[r] = indx[r]
    BY <1>1, <1>2, InvStoredInPlace, Zenon DEF StoredInPlace
  <2>2. stored \in [Rank -> Seq(Loc \cup {Fill})] /\ indx \in [Rank -> Seq(Loc)]
    BY <1>1, Zenon DEF ReaderTypeOK
  <2>3. stored = [r \in Rank |-> stored[r]] /\ indx = [r \in Rank |-> indx[r]]
    BY <2>2, Zenon
  <2>4. [r \in Rank |-> stored[r]] = [r \in Rank |-> indx[r]]
    BY <2>1, Zenon
  <2> QED
    BY <2>3, <2>4, Zenon
<1>4. /\ Len(G) = Cardinality(U)
      /\ \A r \in Rank : \A i \in DOMAIN indx[r] : \E k \in DOMAIN G : G[k] = indx[r][i]
  BY <1>1, <1>3, GatheredIndices, Zenon
<1>5. G \in Seq(Loc)
  <2> DEFINE P == [r \in Rank |-> Marked(indx[r], patchObsBool[r], Len(indx[r]))]
  <2>1. G = Joined(P, NRanks)
    BY <1>3, GatheredVector, Zenon
  <2>2. ASSUME NEW r \in Rank
        PROVE  P[r] \in Seq(Loc)
    <3>1. indx[r] \in Seq(Loc)
      BY <1>1, RankTypes, Zenon
    <3>2. Len(indx[r]) \in Nat /\ Len(indx[r]) \in 0 .. Len(indx[r])
          /\ \A k \in 1 .. Len(indx[r]) : indx[r][k] \in Loc
      BY <3>1
    <3>3. StepByStep(indx[r], patchObsBool[r], Len(indx[r]), Loc)
      BY <3>2, MarkedStep, Zenon DEF ElementsIn
    <3> QED
      BY <3>2, <3>3, Zenon DEF StepByStep
  <2> HIDE DEF P
  <2>3. NRanks \in Nat /\ NRanks \in 0 .. NRanks /\ \A k \in 0 .. NRanks - 1 : P[k] \in Seq(Loc)
    BY <2>2, RanksAssumption DEF Rank
  <2>4. Joined(P, NRanks) \in Seq(Loc)
    BY <2>3, JoinedStep, Zenon
  <2> QED
    BY <2>1, <2>4, Zenon
<1>6. \A r \in Rank : Range(indx[r]) = {l \in Kept : distance[r][FirstOfRecord(l)] <= Radius[r]}
  <2> TAKE r \in Rank
  <2>1. pc[r] = "done"
    BY <1>1, Zenon
  <2> QED
    BY <2>1, HeldInTheEnd, SMT
<1>7. U = W
  BY <1>6, Zenon
<1> HIDE DEF G
<1>8. Len(G) \in Nat /\ DOMAIN G = 1 .. Len(G)
  BY <1>5
<1>9. \A u \in U : \E k \in 1 .. Len(G) : G[k] = u
  <2>1. ASSUME NEW u \in U
        PROVE  \E k \in 1 .. Len(G) : G[k] = u
    <3>1. PICK r \in Rank : u \in Range(indx[r])
      BY Zenon
    <3>2. PICK i \in DOMAIN indx[r] : u = indx[r][i]
      BY <3>1, Zenon DEF Range
    <3>3. \E k \in DOMAIN G : G[k] = indx[r][i]
      BY <1>4, Zenon
    <3> QED
      BY <3>2, <3>3, <1>8, Zenon
  <2> QED
    BY <2>1, Zenon
<1>10. IsFiniteSet(U)
  <2>1. U \subseteq Kept
    BY <1>7, Zenon
  <2> QED
    BY <2>1, <1>1, KeptIsFinite, FS_Subset, Zenon
<1> HIDE DEF U
<1>11. /\ \A k \in 1 .. Len(G) : G[k] \in U
       /\ \A i, j \in 1 .. Len(G) : G[i] = G[j] => i = j
  <2>1. Covers(G, Len(G), U)
    BY <1>9, Zenon DEF Covers
  <2>2. OneToOne(G, Len(G), U)
    BY <2>1, <1>4, <1>8, <1>10, OnceEach, Zenon
  <2> QED
    BY <2>2, Zenon DEF OneToOne
<1>12. Range(G) = U
  <2>1. Range(G) = {G[k] : k \in 1 .. Len(G)}
    BY <1>8, Zenon DEF Range
  <2>2. {G[k] : k \in 1 .. Len(G)} \subseteq U
    BY <1>11, Zenon
  <2>3. U \subseteq {G[k] : k \in 1 .. Len(G)}
    BY <1>9, Zenon
  <2> QED
    BY <2>1, <2>2, <2>3, Zenon
<1> QED
  BY <1>7, <1>8, <1>11, <1>12, Zenon

-----------------------------------------------------------------------------
(* What is proved of Halo, carried over to the composition *)

HP == INSTANCE HaloProofs WITH
       calls <- SourceCalls,
       pos <- [r \in Rank |-> Len(calls[r])]

\* The steps that HaloProofs speaks of are those that ReadHalo implements.
LEMMA SameNext == [H!Next]_(H!vars) <=> [HP!Next]_(HP!vars)
  BY Zenon
  DEF H!Next, HP!Next, H!Step, HP!Step, H!AssignRecord, HP!AssignRecord, H!Assign, HP!Assign,
      H!ComputePatchLocs, HP!ComputePatchLocs, H!SendMax, HP!SendMax, H!SendMinloc, HP!SendMinloc,
      H!FinishPatchLocs, HP!FinishPatchLocs, H!Terminated, HP!Terminated, H!vars, HP!vars,
      H!client, HP!client, H!halo, HP!halo, H!result, HP!result, H!mpi, HP!mpi, H!Rank, HP!Rank,
      H!Rec, HP!Rec, H!Loc, HP!Loc, H!Inf, HP!Inf, H!nglocs, HP!nglocs, H!Max, HP!Max, H!Range,
      HP!Range, H!Cardinality, HP!Cardinality, H!LocalNglocs, HP!LocalNglocs, H!DistLoc,
      HP!DistLoc, H!Owner, HP!Owner, H!Closest, HP!Closest, H!HeldSomewhere, HP!HeldSomewhere,
      H!PatchBelow, HP!PatchBelow, H!PatchOnPreviousRanks, HP!PatchOnPreviousRanks,
      H!ConsecutiveIndices, HP!ConsecutiveIndices, H!Pushed, HP!Pushed, H!IsPatch, HP!IsPatch

\* What HaloProofs shows of Halo holds of the composition.
LEMMA HaloResults ==
  ReadHaloSpec => [](H!HeldLocations /\ H!MaxPhase /\ H!WholeRecords /\ H!GatherIndex)
<1>1. H!Init <=> HP!Init
  BY Zenon DEF H!Init, HP!Init, H!InitClient, HP!InitClient, H!InitHalo, HP!InitHalo,
               H!CallSequences, HP!CallSequences, H!Call, HP!Call, H!Rank, HP!Rank,
               H!Loc, HP!Loc, H!Rec, HP!Rec, H!Inf, HP!Inf
<1>2. H!Spec => HP!Spec
  BY <1>1, SameNext, PTL DEF H!Spec, HP!Spec
<1>3. HP!NRanksAssumption /\ HP!NLocsAssumption /\ HP!MaxDistAssumption /\ HP!RadiusAssumption
  BY RanksAssumption, SizesAssumption, HaloAssumption, Zenon
  DEF Rank, HP!NRanksAssumption, HP!NLocsAssumption, HP!MaxDistAssumption, HP!RadiusAssumption
<1>4. HP!Spec => []HP!IInv /\ []HP!WholeRecords /\ []HP!GatherIndex
  BY <1>3, HP!Invariance, HP!WholeRecordsCorrect, HP!GatherIndexCorrect, PTL
  DEF HP!NRanksAssumption, HP!NLocsAssumption, HP!MaxDistAssumption, HP!RadiusAssumption
<1>5. HP!IInv => HP!HeldLocations /\ HP!MaxPhase
  BY Zenon DEF HP!IInv
<1>6. HP!HeldLocations /\ HP!MaxPhase => H!HeldLocations /\ H!MaxPhase
  BY Zenon DEF H!HeldLocations, HP!HeldLocations, H!MaxPhase, HP!MaxPhase, H!Near, HP!Near,
               H!FirstCall, HP!FirstCall, H!Rank, HP!Rank
<1>7. HP!WholeRecords => H!WholeRecords
  BY Zenon DEF H!WholeRecords, HP!WholeRecords, H!Near, HP!Near, H!FirstCall, HP!FirstCall,
               H!Range, HP!Range, H!Rank, HP!Rank
<1>8. HP!GatherIndex => H!GatherIndex
  BY Zenon DEF H!GatherIndex, HP!GatherIndex, H!Done, HP!Done, H!AllGatherv, HP!AllGatherv,
               H!PatchElements, HP!PatchElements, H!Joined, HP!Joined, H!Marked, HP!Marked,
               H!Cardinality, HP!Cardinality, H!Range, HP!Range, H!Rank, HP!Rank
<1> QED
  BY <1>2, <1>4, <1>5, <1>6, <1>7, <1>8, Refinement, PTL DEF ImplementsHalo

\* Once all the ranks are done, allGatherv of a variable of the obs spaces returns
\* each observation whose record starts in the halo of some rank exactly once, for
\* any number of ranks and any source, frames, centers and radii.
THEOREM GathersEveryObsOnce == ReadHaloSpec => []EveryObsOnce
<1>1. ReadHaloInv /\ H!HeldLocations /\ H!MaxPhase /\ H!WholeRecords /\ H!GatherIndex
        => EveryObsOnce
  BY InvEveryObsOnce
<1> QED
  BY <1>1, ReadHaloInvariance, HaloResults, PTL
=============================================================================
