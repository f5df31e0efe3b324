---------------------------- MODULE WriterPoolProofs ----------------------------
(***************************************************************************)
(* Proofs about the writer pool: how the ranks are grouped, and that each  *)
(* step keeps what the invariant says of the phases, of the set-up of the  *)
(* pool and of the transfer of the variables (PhasesInv, PoolSet and       *)
(* TransferInv of WriterPool).                                             *)
(***************************************************************************)
EXTENDS WriterPool, VectorProofs

-----------------------------------------------------------------------------
(* groupRanks *)

\* Each group has at least one rank and starts where the one before it ends.
LEMMA StartStep ==
  ASSUME NEW n \in 1 .. NRanks
  PROVE  /\ Start(n, 0) = 0
         /\ \A i \in 0 .. n : Start(n, i) \in Nat
         /\ \A i \in 0 .. n - 1 : Count(n, i) \in Nat /\ Count(n, i) >= 1
         /\ \A i \in 0 .. n - 1 : Start(n, i + 1) = Start(n, i) + Count(n, i)
<1> DEFINE x == [j \in 0 .. n - 1 |-> Count(n, j)]
           q == NRanks \div n
           rem == NRanks % n
<1>1. NRanks \in Nat /\ n \in Nat /\ n >= 1 /\ n <= NRanks
  BY SizesAssumption
<1>2. q \in Nat /\ q >= 1 /\ rem \in Nat
  BY <1>1
<1>3. \A i \in 0 .. n - 1 : Count(n, i) = q + IF i < rem THEN 1 ELSE 0
  BY Zenon DEF Count
<1> HIDE DEF q, rem
<1>4. \A i \in 0 .. n - 1 : Count(n, i) \in Nat /\ Count(n, i) >= 1
  BY <1>2, <1>3
<1>5. Counts(x, n)
  BY <1>4, Zenon DEF Counts
<1>6. \A i \in 0 .. n - 1 : x[i] = Count(n, i)
  BY Zenon
<1>7. \A i : Start(n, i) = SumBelow(x, i)
  BY Zenon DEF Start
<1> HIDE DEF x
<1>8. /\ SumBelow(x, 0) = 0
      /\ \A i \in 0 .. n : SumBelow(x, i) \in Nat
      /\ \A i \in 0 .. n - 1 : SumBelow(x, i + 1) = SumBelow(x, i) + x[i]
  BY <1>1, <1>5, SumBelowStep, Zenon
<1> QED
  BY <1>4, <1>6, <1>7, <1>8, Zenon

\* The groups hold all the ranks: base_assign_size and rem_assign_size add up.
LEMMA StartLast ==
  ASSUME NEW n \in 1 .. NRanks
  PROVE  Start(n, n) = NRanks
<1> DEFINE q == NRanks \div n
           rem == NRanks % n
           least(i) == IF i < rem THEN i ELSE rem
           S == {i \in 0 .. n : Start(n, i) = i * q + least(i)}
<1>1. NRanks \in Nat /\ n \in Nat /\ n >= 1 /\ n <= NRanks
  BY SizesAssumption
<1>2. q \in Nat /\ rem \in Nat /\ rem < n /\ NRanks = n * q + rem
  BY <1>1
<1>3. \A i \in 0 .. n - 1 : Count(n, i) = q + IF i < rem THEN 1 ELSE 0
  BY Zenon DEF Count
<1> HIDE DEF q, rem
<1>4. 0 \in S
  BY <1>1, <1>2, StartStep
<1>5. ASSUME NEW i \in 0 .. n - 1, i \in S PROVE i + 1 \in S
  <2>1. Start(n, i + 1) = Start(n, i) + Count(n, i) /\ Start(n, i) = i * q + least(i)
    BY <1>5, StartStep, Zenon
  <2>2. Count(n, i) = q + IF i < rem THEN 1 ELSE 0
    BY <1>3, Zenon
  <2>3. (i + 1) * q = i * q + q
    BY <1>2
  <2>4. i * q \in Nat
    BY <1>2
  <2>5. least(i) + (IF i < rem THEN 1 ELSE 0) = least(i + 1) /\ least(i) \in Nat
    BY <1>2
  <2> DEFINE iq == i * q
  <2> HIDE DEF iq, least
  <2>6. Start(n, i + 1) = (i + 1) * q + least(i + 1)
    <3>1. Start(n, i + 1) = (iq + least(i)) + (q + IF i < rem THEN 1 ELSE 0)
      BY <2>1, <2>2, Zenon DEF iq
    <3>2. iq \in Nat /\ (i + 1) * q = iq + q
      BY <2>3, <2>4, Zenon DEF iq
    <3> QED
      BY <1>2, <2>5, <3>1, <3>2
  <2>7. i + 1 \in 0 .. n
    BY <1>1
  <2> QED
    BY <2>6, <2>7, Zenon
<1> HIDE DEF S
<1>6. 0 .. n \subseteq S
  BY <1>1, <1>4, <1>5, InductionTo, Zenon
<1>7. n \in 0 .. n
  BY <1>1
<1>8. Start(n, n) = n * q + least(n)
  BY <1>6, <1>7, Zenon DEF S
<1> QED
  BY <1>1, <1>2, <1>8

\* Groups are disjoint and in order.
LEMMA StartOrder ==
  ASSUME NEW n \in 1 .. NRanks, NEW i \in 0 .. n - 1, NEW j \in 0 .. n, i < j
  PROVE  Start(n, i) + Count(n, i) <= Start(n, j)
<1> DEFINE x == [k \in 0 .. n - 1 |-> Count(n, k)]
<1>1. n \in Nat /\ i + 1 \in 0 .. n /\ i + 1 <= j
  BY SizesAssumption
<1>2. Counts(x, n)
  BY StartStep, Zenon DEF Counts
<1>3. \A k : Start(n, k) = SumBelow(x, k)
  BY Zenon DEF Start
<1> HIDE DEF x
<1>4. SumBelow(x, i + 1) <= SumBelow(x, j)
  BY <1>1, <1>2, SumOrder
<1> QED
  BY <1>3, <1>4, StartStep, Zenon

\* Each rank is in one group.
LEMMA GroupExists ==
  ASSUME NEW n \in 1 .. NRanks, NEW r \in Rank
  PROVE  \E i \in 0 .. n - 1 : Start(n, i) <= r /\ r < Start(n, i) + Count(n, i)
<1> DEFINE In(i) == Start(n, i) <= r /\ r < Start(n, i) + Count(n, i)
           S == {i \in 0 .. n : r < Start(n, i) => \E j \in 0 .. n - 1 : In(j)}
<1>1. n \in Nat /\ r \in Nat /\ r < NRanks
  BY SizesAssumption DEF Rank
<1>2. 0 \in S
  BY <1>1, StartStep
<1>3. ASSUME NEW i \in 0 .. n - 1, i \in S PROVE i + 1 \in S
  <2>1. Start(n, i + 1) = Start(n, i) + Count(n, i) /\ Start(n, i) \in Nat
    <3>1. i \in 0 .. n
      BY <1>1
    <3> QED
      BY <3>1, StartStep, Zenon
  <2>2. r < Start(n, i) \/ Start(n, i) <= r
    BY <1>1, <2>1
  <2>3. i + 1 \in 0 .. n
    BY <1>1
  <2> QED
    BY <1>3, <2>1, <2>2, <2>3, Zenon
<1>4. 0 .. n \subseteq S
  <2> HIDE DEF S
  <2> QED
    BY <1>1, <1>2, <1>3, InductionTo, Zenon
<1>5. n \in 0 .. n
  BY <1>1
<1>6. r < Start(n, n)
  BY <1>1, StartLast, Zenon
<1> QED
  BY <1>4, <1>5, <1>6, Zenon

\* A rank is between the first rank of its group and the rank behind it.
LEMMA GroupInIs ==
  ASSUME NEW n \in 1 .. NRanks, NEW r \in Rank
  PROVE  /\ GroupIn(n, r) \in 0 .. n - 1
         /\ Lead(n, r) <= r /\ r < GroupEnd(n, r)
         /\ \A i \in 0 .. n - 1 : Start(n, i) <= r /\ r < Start(n, i) + Count(n, i) =>
              GroupIn(n, r) = i
<1> DEFINE In(i) == Start(n, i) <= r /\ r < Start(n, i) + Count(n, i)
<1>1. GroupIn(n, r) \in 0 .. n - 1 /\ In(GroupIn(n, r))
  BY GroupExists, Zenon DEF GroupIn
<1>2. ASSUME NEW i \in 0 .. n - 1, NEW j \in 0 .. n - 1, In(i), In(j), i < j PROVE FALSE
  <2>1. j \in 0 .. n /\ i \in 0 .. n /\ n \in Nat /\ r \in Nat
    BY SizesAssumption DEF Rank
  <2>2. Start(n, i) + Count(n, i) <= Start(n, j)
    BY <1>2, <2>1, StartOrder, Zenon
  <2>3. Start(n, i) \in Nat /\ Start(n, j) \in Nat /\ Count(n, i) \in Nat
    BY <2>1, StartStep, Zenon
  <2> QED
    BY <1>2, <2>1, <2>2, <2>3
<1>3. \A i, j \in 0 .. n - 1 : i < j \/ j < i \/ i = j
  BY SizesAssumption
<1>4. \A i \in 0 .. n - 1 : In(i) => GroupIn(n, r) = i
  BY <1>1, <1>2, <1>3, Zenon
<1> QED
  BY <1>1, <1>4, Zenon DEF Lead, GroupEnd

\* The first rank of a group leads it, and the group reaches to the next start.
LEMMA LeadIs ==
  ASSUME NEW n \in 1 .. NRanks, NEW i \in 0 .. n - 1
  PROVE  /\ Start(n, i) \in Rank /\ GroupIn(n, Start(n, i)) = i
         /\ Lead(n, Start(n, i)) = Start(n, i)
         /\ GroupEnd(n, Start(n, i)) = Start(n, i + 1)
<1>1. n \in Nat /\ n \in 0 .. n /\ i < n /\ i \in 0 .. n /\ NRanks \in Nat
  BY SizesAssumption
<1>2. Start(n, i) + Count(n, i) <= NRanks
  BY <1>1, StartOrder, StartLast, Zenon
<1>3. Start(n, i) \in Nat /\ Count(n, i) \in Nat /\ Count(n, i) >= 1
  BY <1>1, StartStep, Zenon
<1>4. Start(n, i) \in Rank /\ Start(n, i) <= Start(n, i) /\ Start(n, i) < Start(n, i) + Count(n, i)
  BY <1>1, <1>2, <1>3 DEF Rank
<1>5. GroupIn(n, Start(n, i)) = i
  BY <1>4, GroupInIs, Zenon
<1> QED
  BY <1>4, <1>5, StartStep, Zenon DEF Lead, GroupEnd

\* What the grouping says of a rank and the rank of the pool it belongs to.
LEMMA GroupFacts ==
  ASSUME NEW n \in 1 .. NRanks, NEW r \in Rank
  PROVE  /\ Lead(n, r) \in Rank /\ Lead(n, Lead(n, r)) = Lead(n, r)
         /\ GroupEnd(n, r) \in 1 .. NRanks /\ GroupEnd(n, Lead(n, r)) = GroupEnd(n, r)
         /\ Lead(n, r) <= r /\ r < GroupEnd(n, r)
<1>1. GroupIn(n, r) \in 0 .. n - 1 /\ Lead(n, r) = Start(n, GroupIn(n, r))
      /\ Lead(n, r) <= r /\ r < GroupEnd(n, r)
  BY GroupInIs, Zenon DEF Lead
<1>2. /\ Lead(n, r) \in Rank /\ Lead(n, Lead(n, r)) = Lead(n, r)
      /\ GroupIn(n, Lead(n, r)) = GroupIn(n, r)
  BY <1>1, LeadIs, Zenon
<1>3. GroupEnd(n, Lead(n, r)) = GroupEnd(n, r)
  BY <1>2, Zenon DEF GroupEnd
<1>4. \A i \in 0 .. n - 1 : n \in 0 .. n /\ i < n /\ i \in 0 .. n
  BY SizesAssumption
<1>5. GroupEnd(n, r) <= NRanks
  BY <1>1, <1>4, StartOrder, StartLast, Zenon DEF GroupEnd, Lead
<1>6. Start(n, GroupIn(n, r)) \in Nat /\ Count(n, GroupIn(n, r)) \in Nat
  BY <1>1, <1>4, StartStep, Zenon
<1>7. GroupEnd(n, r) \in 1 .. NRanks
  <2>1. GroupEnd(n, r) = Start(n, GroupIn(n, r)) + Count(n, GroupIn(n, r))
    BY Zenon DEF GroupEnd, Lead
  <2>2. r \in Nat /\ NRanks \in Nat
    BY SizesAssumption DEF Rank
  <2> QED
    BY <1>1, <1>5, <1>6, <2>1, <2>2
<1> QED
  BY <1>1, <1>2, <1>3, <1>7, Zenon

\* A group is an interval of ranks.
LEMMA FollowsIs ==
  ASSUME NEW n \in 1 .. NRanks, NEW r \in Rank, Lead(n, r) = r, NEW s \in Rank
  PROVE  Lead(n, s) = r <=> r <= s /\ s < GroupEnd(n, r)
<1>1. ASSUME Lead(n, s) = r PROVE r <= s /\ s < GroupEnd(n, r)
  BY <1>1, GroupFacts, Zenon
<1>2. ASSUME r <= s, s < GroupEnd(n, r) PROVE Lead(n, s) = r
  <2> DEFINE i == GroupIn(n, r)
  <2>1. i \in 0 .. n - 1 /\ Start(n, i) = r
    BY GroupInIs, Zenon DEF Lead
  <2>2. GroupEnd(n, r) = Start(n, i) + Count(n, i)
    BY Zenon DEF GroupEnd, Lead
  <2> HIDE DEF i
  <2>3. GroupIn(n, s) = i
    BY <1>2, <2>1, <2>2, GroupInIs, Zenon
  <2> QED
    BY <2>1, <2>3, Zenon DEF Lead
<1> QED
  BY <1>1, <1>2, Zenon

\* Rank 0 is in the pool: it is its root.
LEMMA LeadZero ==
  ASSUME NEW n \in 1 .. NRanks
  PROVE  0 \in Rank /\ Lead(n, 0) = 0 /\ GroupIn(n, 0) = 0
<1>1. 0 \in 0 .. n - 1 /\ 0 \in Rank
  BY SizesAssumption DEF Rank
<1>2. Start(n, 0) = 0
  BY StartStep, Zenon
<1> QED
  BY <1>1, <1>2, LeadIs, Zenon

\* There are as many ranks in the pool as groups.
LEMMA PoolSize ==
  ASSUME NEW n \in 1 .. NRanks
  PROVE  Cardinality({r \in Rank : Lead(n, r) = r}) = n
<1> DEFINE x == [i \in 0 .. n - 1 |-> Start(n, i)]
           I == 0 .. n - 1
           S == {r \in Rank : Lead(n, r) = r}
<1>1. n \in Nat
  BY SizesAssumption
<1>2. IsFiniteSet(I) /\ Cardinality(I) = n
  <2>1. /\ IsFiniteSet(0 .. n - 1)
        /\ Cardinality(0 .. n - 1) = IF 0 > n - 1 THEN 0 ELSE n - 1 - 0 + 1
    BY <1>1, FS_Interval, n - 1 \in Int, 0 \in Int
  <2> QED
    BY <1>1, <2>1
<1>3. \A i \in I : x[i] = Start(n, i)
  BY Zenon
<1>4. \A i \in I : x[i] \in S
  BY LeadIs, <1>3, Zenon
<1>5. \A s \in S : \E i \in I : x[i] = s
  <2> TAKE s \in S
  <2>1. GroupIn(n, s) \in I
    BY GroupInIs, Zenon
  <2>2. x[GroupIn(n, s)] = s
    BY <1>3, <2>1, Zenon DEF Lead
  <2> QED
    BY <2>1, <2>2, Zenon
<1>6. \A i, j \in I : x[i] = x[j] => i = j
  <2>1. \A i \in I : GroupIn(n, Start(n, i)) = i
    BY LeadIs, Zenon
  <2> QED
    BY <1>3, <2>1, Zenon
<1> HIDE DEF x, I, S
<1>7. Cardinality(S) = Cardinality(I)
  <2>1. Enumerates(x, I, S)
    BY <1>4, <1>5, <1>6, Zenon DEF Enumerates
  <2> QED
    BY <1>2, <2>1, ImageCardinality, Zenon
<1> QED
  BY <1>2, <1>7, Zenon DEF S

-----------------------------------------------------------------------------
(* Patch values and their places *)

\* The patch flags of the ranks
Flags == [Rank -> Seq(BOOLEAN)]

LocationVariable(v) == v \in DOMAIN Variables /\ Variables[v].usesLocation

\* A rank has a number of patch locations.
LEMMA CountTrueIs ==
  ASSUME NEW vec \in Seq(BOOLEAN)
  PROVE  CountTrue(vec) \in Nat /\ CountTrue(vec) = Cardinality(MarkedUpTo(vec, Len(vec)))
<1>1. Len(vec) \in Nat /\ DOMAIN vec = 1 .. Len(vec)
  OBVIOUS
<1>2. CountTrue(vec) = Cardinality(MarkedUpTo(vec, Len(vec)))
  BY <1>1, Zenon DEF CountTrue, MarkedUpTo
<1> QED
  BY <1>1, <1>2, MarkedUpToStep, Zenon

\* The values of the ranks follow one another.
LEMMA BelowStep ==
  ASSUME NEW p \in Flags, NEW f \in Nat
  PROVE  /\ Below(p, f, 0) = 0
         /\ \A s \in 0 .. NRanks : Below(p, f, s) \in Nat
         /\ \A s \in Rank : Below(p, f, s + 1) = Below(p, f, s) + CountTrue(p[s]) * f
<1> DEFINE x == [r \in Rank |-> CountTrue(p[r]) * f]
<1>1. \A r \in Rank : CountTrue(p[r]) \in Nat
  BY CountTrueIs, Zenon DEF Flags
<1>2. \A a \in Nat : a * f \in Nat
  OBVIOUS
<1>3. \A r \in Rank : x[r] = CountTrue(p[r]) * f
  BY Zenon
<1>4. Counts(x, NRanks)
  BY <1>1, <1>2, <1>3, Zenon DEF Counts, Rank
<1>5. \A s : Below(p, f, s) = SumBelow(x, s)
  BY Zenon DEF Below
<1> HIDE DEF x
<1>6. NRanks \in Nat
  BY SizesAssumption
<1>7. /\ SumBelow(x, 0) = 0
      /\ \A s \in 0 .. NRanks : SumBelow(x, s) \in Nat
      /\ \A s \in 0 .. NRanks - 1 : SumBelow(x, s + 1) = SumBelow(x, s) + x[s]
  BY <1>4, <1>6, SumBelowStep, Zenon
<1> QED
  BY <1>3, <1>5, <1>7, Zenon DEF Rank

\* The values of a rank end before those of later ranks begin.
LEMMA BelowOrder ==
  ASSUME NEW p \in Flags, NEW f \in Nat, NEW a \in 0 .. NRanks, NEW b \in 0 .. NRanks, a <= b
  PROVE  Below(p, f, a) <= Below(p, f, b)
<1> DEFINE x == [r \in Rank |-> CountTrue(p[r]) * f]
<1>1. \A r \in Rank : CountTrue(p[r]) \in Nat
  BY CountTrueIs, Zenon DEF Flags
<1>2. \A c \in Nat : c * f \in Nat
  OBVIOUS
<1>3. Counts(x, NRanks)
  BY <1>1, <1>2, Zenon DEF Counts, Rank
<1>4. \A s : Below(p, f, s) = SumBelow(x, s)
  BY Zenon DEF Below
<1> HIDE DEF x
<1>5. NRanks \in Nat
  BY SizesAssumption
<1>6. SumBelow(x, a) <= SumBelow(x, b)
  BY <1>3, <1>5, SumOrder
<1>7. Below(p, f, a) = SumBelow(x, a) /\ Below(p, f, b) = SumBelow(x, b)
  BY <1>4, Zenon
<1> QED
  BY <1>6, <1>7

\* A place counted in locations is a place counted in values.
LEMMA BelowScaled ==
  ASSUME NEW p \in Flags, NEW f \in Nat, NEW s \in 0 .. NRanks
  PROVE  Below(p, 1, s) * f = Below(p, f, s)
<1> DEFINE x == [r \in Rank |-> CountTrue(p[r]) * 1]
           y == [r \in Rank |-> CountTrue(p[r]) * f]
<1>1. \A r \in Rank : CountTrue(p[r]) \in Nat
  BY CountTrueIs, Zenon DEF Flags
<1>2. \A c \in Nat : c * 1 = c
  OBVIOUS
<1>3. s \in Nat /\ \A r \in 0 .. s - 1 : r \in Rank
  BY SizesAssumption DEF Rank
<1>4. \A r \in 0 .. s - 1 : x[r] = CountTrue(p[r]) /\ y[r] = CountTrue(p[r]) * f
  BY <1>1, <1>2, <1>3, Zenon
<1>5. Counts(x, s) /\ \A r \in 0 .. s - 1 : y[r] = x[r] * f
  BY <1>1, <1>3, <1>4, Zenon DEF Counts
<1>6. Below(p, 1, s) = SumBelow(x, s) /\ Below(p, f, s) = SumBelow(y, s)
  BY Zenon DEF Below
<1> HIDE DEF x, y
<1>7. SumBelow(y, s) = SumBelow(x, s) * f
  BY <1>3, <1>5, SumScaled
<1> QED
  BY <1>6, <1>7, Zenon

\* What the writer knows of a variable.
LEMMA VariableIs ==
  ASSUME NEW v \in DOMAIN Variables
  PROVE  /\ Variables[v].usesLocation \in BOOLEAN
         /\ Variables[v].dimFactor \in Nat /\ Variables[v].dimFactor # 0
<1> DEFINE R == [usesLocation : BOOLEAN, isString : BOOLEAN, dimFactor : Nat \ {0}]
<1>1. Variables \in Seq(R)
  BY VariablesAssumption, Zenon
<1>2. Variables[v] \in R
  <2> HIDE DEF R
  <2> QED
    BY <1>1
<1> QED
  BY <1>2

\* The values of a variable that a rank writes, as many as its locations make.
LEMMA ValuesLength ==
  ASSUME NEW p \in Flags, NEW s \in Rank, NEW v \in DOMAIN Variables
  PROVE  /\ Variables[v].dimFactor \in Nat /\ Variables[v].dimFactor # 0
         /\ Values(p, s, v) \in Seq(Rank \X Nat \X Nat)
         /\ Len(Values(p, s, v)) = CountTrue(p[s]) * Variables[v].dimFactor
         /\ DOMAIN Values(p, s, v) = 1 .. CountTrue(p[s]) * Variables[v].dimFactor
<1> DEFINE f == Variables[v].dimFactor
           vec == p[s]
           x == [i \in DOMAIN vec |-> i]
           locs == Marked(x, vec, Len(vec))
<1>1. f \in Nat /\ f # 0
  BY VariableIs, Zenon
<1>2. vec \in Seq(BOOLEAN)
  BY Zenon DEF Flags
<1>3. Len(vec) \in Nat /\ DOMAIN vec = 1 .. Len(vec) /\ ElementsIn(x, Len(vec), Nat)
  BY <1>2 DEF ElementsIn
<1> HIDE DEF x, vec, f
<1>4. locs \in Seq(Nat) /\ Len(locs) = Cardinality(MarkedUpTo(vec, Len(vec)))
  <2>1. MarkAfterMark(x, vec, Len(vec), Nat)
    BY <1>3, MarkedElements, Zenon
  <2> QED
    BY <2>1, Zenon DEF MarkAfterMark
<1>5. Len(locs) = CountTrue(vec) /\ CountTrue(vec) \in Nat
  BY <1>2, <1>4, CountTrueIs, Zenon
<1> HIDE DEF locs
<1>6. CountTrue(vec) * f \in Nat
  BY <1>1, <1>5
<1>7. Values(p, s, v) = [k \in 1 .. Len(locs) * f |-> <<s, locs[(k - 1) \div f + 1], (k - 1) % f>>]
  BY Zenon DEF Values, Selected, f, vec, x, locs
<1>8. \A k \in 1 .. CountTrue(vec) * f : <<s, locs[(k - 1) \div f + 1], (k - 1) % f>> \in Rank \X Nat \X Nat
  <2> SUFFICES ASSUME NEW k \in 1 .. CountTrue(vec) * f
               PROVE  locs[(k - 1) \div f + 1] \in Nat /\ (k - 1) % f \in Nat
    BY Zenon
  <2> DEFINE c == CountTrue(vec)
             q == (k - 1) \div f
  <2>1. k - 1 \in Nat /\ k - 1 < c * f /\ c \in Nat
    BY <1>5, <1>6
  <2>2. q \in Nat /\ q * f <= k - 1 /\ (k - 1) % f \in Nat
    BY <1>1, <2>1
  <2> HIDE DEF c, q
  <2>3. q < c
    <3>1. ASSUME c <= q PROVE FALSE
      <4>1. c * f <= q * f
        BY <1>1, <2>1, <2>2, <3>1
      <4>2. c * f \in Nat /\ q * f \in Nat
        BY <1>1, <2>1, <2>2
      <4> QED
        BY <2>1, <2>2, <4>1, <4>2
    <3> QED
      BY <2>1, <2>2, <3>1
  <2>4. q + 1 \in 1 .. Len(locs)
    BY <1>5, <2>1, <2>2, <2>3 DEF c
  <2>5. locs[q + 1] \in Nat
    BY <1>4, <2>4
  <2> QED
    BY <2>2, <2>5, Zenon DEF q
<1> DEFINE V == [k \in 1 .. CountTrue(vec) * f |-> <<s, locs[(k - 1) \div f + 1], (k - 1) % f>>]
<1>9. Values(p, s, v) = V /\ V \in [1 .. CountTrue(vec) * f -> Rank \X Nat \X Nat]
  BY <1>5, <1>7, <1>8, Zenon
<1> HIDE DEF V
<1>10. V \in Seq(Rank \X Nat \X Nat) /\ Len(V) = CountTrue(vec) * f
       /\ DOMAIN V = 1 .. CountTrue(vec) * f
  <2> DEFINE T == Rank \X Nat \X Nat
             m == CountTrue(vec) * f
  <2>1. m \in Nat /\ V \in [1 .. m -> T]
    BY <1>6, <1>9, Zenon
  <2> HIDE DEF T, m
  <2>2. V \in Seq(T) /\ Len(V) = m /\ DOMAIN V = 1 .. m
    BY <2>1
  <2> QED
    BY <2>2, Zenon DEF T, m
<1> QED
  BY <1>1, <1>9, <1>10, Zenon DEF f, vec

\* The number of values of the ranks a .. a + m - 1.
LEMMA SumOfGroup ==
  ASSUME NEW p \in Flags, NEW f \in Nat, NEW a \in Nat, NEW m \in Nat, a + m <= NRanks,
         NEW y, \A j \in 0 .. m - 1 : y[j] = CountTrue(p[a + j]) * f
  PROVE  Below(p, f, a + m) = Below(p, f, a) + SumBelow(y, m)
<1> DEFINE x == [r \in Rank |-> CountTrue(p[r]) * f]
<1>1. \A r \in Rank : CountTrue(p[r]) \in Nat
  BY CountTrueIs, Zenon DEF Flags
<1>2. \A c \in Nat : c * f \in Nat
  OBVIOUS
<1>3. Counts(x, NRanks)
  BY <1>1, <1>2, Zenon DEF Counts, Rank
<1>4. NRanks \in Nat /\ \A j \in 0 .. m - 1 : a + j \in Rank
  BY SizesAssumption DEF Rank
<1>5. Segment(x, a, m, y)
  BY <1>4, Zenon DEF Segment
<1>6. Below(p, f, a) = SumBelow(x, a) /\ Below(p, f, a + m) = SumBelow(x, a + m)
  BY Zenon DEF Below
<1> HIDE DEF x
<1>7. SumBelow(x, a + m) = SumBelow(x, a) + SumBelow(y, m)
  BY <1>3, <1>4, <1>5, SumSegment
<1> QED
  BY <1>6, <1>7, Zenon

-----------------------------------------------------------------------------
(* Phases *)

\* The phases are numbered in the order in which a rank goes through them.
LEMMA PhaseOrder ==
  /\ Range(Phases) = {"size", "gather", "assign", "split", "info", "open", "strlen", "transfer",
                      "barrier", "final", "done"}
  /\ PhaseIndex["size"] = 1 /\ PhaseIndex["gather"] = 2 /\ PhaseIndex["assign"] = 3
  /\ PhaseIndex["split"] = 4 /\ PhaseIndex["info"] = 5 /\ PhaseIndex["open"] = 6
  /\ PhaseIndex["strlen"] = 7 /\ PhaseIndex["transfer"] = 8 /\ PhaseIndex["barrier"] = 9
  /\ PhaseIndex["final"] = 10 /\ PhaseIndex["done"] = 11
<1>1. /\ DOMAIN Phases = 1 .. 11
      /\ Phases[1] = "size" /\ Phases[2] = "gather" /\ Phases[3] = "assign" /\ Phases[4] = "split"
      /\ Phases[5] = "info" /\ Phases[6] = "open" /\ Phases[7] = "strlen"
      /\ Phases[8] = "transfer" /\ Phases[9] = "barrier" /\ Phases[10] = "final"
      /\ Phases[11] = "done"
  BY DEF Phases
<1>2. \A k \in 1 .. 11 : k = 1 \/ k = 2 \/ k = 3 \/ k = 4 \/ k = 5 \/ k = 6 \/ k = 7 \/ k = 8
                         \/ k = 9 \/ k = 10 \/ k = 11
  OBVIOUS
<1>3. Range(Phases) = {"size", "gather", "assign", "split", "info", "open", "strlen", "transfer",
                       "barrier", "final", "done"}
  BY <1>1, <1>2 DEF Range
<1>4. \A q \in Range(Phases) : PhaseIndex[q] \in DOMAIN Phases /\ Phases[PhaseIndex[q]] = q
  BY Zenon DEF PhaseIndex, Range
<1> HIDE DEF Phases, Range, PhaseIndex
<1>5. PhaseIndex["size"] = 1
  BY <1>1, <1>2, <1>3, <1>4
<1>6. PhaseIndex["gather"] = 2
  BY <1>1, <1>2, <1>3, <1>4
<1>7. PhaseIndex["assign"] = 3
  BY <1>1, <1>2, <1>3, <1>4
<1>8. PhaseIndex["split"] = 4
  BY <1>1, <1>2, <1>3, <1>4
<1>9. PhaseIndex["info"] = 5
  BY <1>1, <1>2, <1>3, <1>4
<1>10. PhaseIndex["open"] = 6
  BY <1>1, <1>2, <1>3, <1>4
<1>11. PhaseIndex["strlen"] = 7
  BY <1>1, <1>2, <1>3, <1>4
<1>12. PhaseIndex["transfer"] = 8
  BY <1>1, <1>2, <1>3, <1>4
<1>13. PhaseIndex["barrier"] = 9
  BY <1>1, <1>2, <1>3, <1>4
<1>14. PhaseIndex["final"] = 10
  BY <1>1, <1>2, <1>3, <1>4
<1>15. PhaseIndex["done"] = 11
  BY <1>1, <1>2, <1>3, <1>4
<1> QED
  BY <1>3, <1>5, <1>6, <1>7, <1>8, <1>9, <1>10, <1>11, <1>12, <1>13, <1>14, <1>15, Zenon

\* A rank that moves to phase q, and the others
Moves(r, q) == /\ pc' \in [Rank -> Range(Phases)]
               /\ pc'[r] = q
               /\ \A s \in Rank : s # r => pc'[s] = pc[s]

\* The phases that a rank has come to when another one, or itself, moves on.
LEMMA GotoMoves ==
  ASSUME pc \in [Rank -> Range(Phases)], NEW r \in Rank, NEW q \in Range(Phases), Goto(r, q)
  PROVE  /\ Moves(r, q)
         /\ \A s \in Rank : \A x : Reached(s, x)' <=> IF s = r THEN PhaseIndex[q] >= PhaseIndex[x]
                                                      ELSE Reached(s, x)
<1>1. Moves(r, q)
  BY Zenon DEF Goto, Moves
<1>2. ASSUME NEW s \in Rank, NEW x
      PROVE  Reached(s, x)' <=> IF s = r THEN PhaseIndex[q] >= PhaseIndex[x] ELSE Reached(s, x)
  BY <1>1, Zenon DEF Moves, Reached
<1> QED
  BY <1>1, <1>2, Zenon

\* The numbers of the phases are integers.
LEMMA PhaseNumbers == \A q \in Range(Phases) : PhaseIndex[q] \in 1 .. 11
<1> QED
  BY PhaseOrder

\* Phase q is at or behind x
AtLeast(q, x) == PhaseIndex[q] >= PhaseIndex[x]

\* What the collectives ask for when rank r moves on to q
MayMove(n, r, q) ==
  /\ q \in Range(Phases) /\ AtLeast(q, pc[r])
  /\ q = "info" => Lead(n, r) = r
  /\ AtLeast(q, "gather") => r = 0 \/ Reached(0, "gather")
  /\ AtLeast(q, "split") => \A s \in Rank : Reached(s, "assign")
  /\ AtLeast(q, "info") => \A s \in Rank : Reached(s, "split")
  /\ AtLeast(q, "open") /\ Lead(n, r) = r => \A s \in Rank : Lead(n, s) = s => Reached(s, "info")
  /\ AtLeast(q, "transfer") => \A s \in Rank : Reached(s, "strlen")
  /\ AtLeast(q, "final") => \A s \in Rank : Reached(s, "barrier")

\* A rank that moves on as the collectives allow keeps the order of the phases.
LEMMA PhaseMove ==
  ASSUME NEW n, PhasesInv(n), 0 \in Rank, NEW r \in Rank, NEW q, MayMove(n, r, q), Goto(r, q)
  PROVE  PhasesInv(n)' /\ \A s \in Rank : \A x \in Range(Phases) : Reached(s, x) => Reached(s, x)'
<1>1. pc \in [Rank -> Range(Phases)] /\ q \in Range(Phases)
  BY Zenon DEF PhasesInv, MayMove
<1>2. \A s \in Rank : \A x : Reached(s, x)' <=> IF s = r THEN AtLeast(q, x) ELSE Reached(s, x)
  BY <1>1, GotoMoves, Zenon DEF AtLeast
<1>3. pc' \in [Rank -> Range(Phases)]
  BY <1>1, GotoMoves, Zenon DEF Moves
<1>4. \A x \in Range(Phases) : Reached(r, x) => AtLeast(q, x)
  <2>1. AtLeast(q, pc[r]) /\ pc[r] \in Range(Phases)
    BY <1>1, Zenon DEF MayMove
  <2> QED
    BY <1>1, <2>1, PhaseNumbers DEF AtLeast, Reached
<1>5. \A s \in Rank : \A x \in Range(Phases) : Reached(s, x) => Reached(s, x)'
  BY <1>2, <1>4, Zenon
<1>6. {"gather", "split", "info", "open", "transfer", "final", "assign", "strlen", "barrier"}
        \subseteq Range(Phases)
  BY PhaseOrder, Zenon
<1>7. ASSUME NEW u \in Rank, NEW s \in Rank
      PROVE  /\ Reached(u, "gather")' => Reached(0, "gather")'
             /\ Reached(u, "split")' => Reached(s, "assign")'
             /\ Reached(u, "info")' => Reached(s, "split")'
             /\ Reached(u, "open")' /\ Lead(n, u) = u /\ Lead(n, s) = s => Reached(s, "info")'
             /\ Reached(u, "transfer")' => Reached(s, "strlen")'
             /\ Reached(u, "final")' => Reached(s, "barrier")'
  <2>1. CASE u = r
    <3>1. \A x : Reached(u, x)' => AtLeast(q, x)
      BY <1>2, <2>1, Zenon
    <3>2. Reached(u, "gather")' => Reached(0, "gather")'
      BY <1>2, <1>5, <1>6, <2>1, <3>1, Zenon DEF MayMove
    <3> QED
      BY <1>5, <1>6, <2>1, <3>1, <3>2, Zenon DEF MayMove
  <2>2. CASE u # r
    <3>1. \A x : Reached(u, x)' => Reached(u, x)
      BY <1>2, <2>2, Zenon
    <3>2. /\ Reached(u, "gather") => Reached(0, "gather")
          /\ Reached(u, "split") => Reached(s, "assign")
          /\ Reached(u, "info") => Reached(s, "split")
          /\ Reached(u, "open") /\ Lead(n, u) = u /\ Lead(n, s) = s => Reached(s, "info")
          /\ Reached(u, "transfer") => Reached(s, "strlen")
          /\ Reached(u, "final") => Reached(s, "barrier")
      BY Zenon DEF PhasesInv
    <3> QED
      BY <1>5, <1>6, <3>1, <3>2, Zenon
  <2> QED
    BY <2>1, <2>2, Zenon
<1>8. \A s \in Rank : pc'[s] = "info" => Lead(n, s) = s
  BY <1>1, GotoMoves, Zenon DEF Moves, MayMove, PhasesInv
<1>9. PhasesInv(n)'
  BY <1>3, <1>7, <1>8, Zenon DEF PhasesInv
<1> QED
  BY <1>5, <1>9, Zenon

\* What may be done without waiting for other ranks
Thresholds == {"gather", "split", "info", "open", "transfer", "final"}

\* Within a phase between two collectives a rank may move on at any time.
LEMMA MayStay ==
  ASSUME NEW n, PhasesInv(n), NEW r \in Rank, NEW q \in Range(Phases), AtLeast(q, pc[r]),
         q # "info", \A x \in Thresholds : AtLeast(q, x) => Reached(r, x)
  PROVE  MayMove(n, r, q)
<1>1. ASSUME NEW s \in Rank
      PROVE  /\ Reached(r, "gather") => Reached(0, "gather")
             /\ Reached(r, "split") => Reached(s, "assign")
             /\ Reached(r, "info") => Reached(s, "split")
             /\ Reached(r, "open") /\ Lead(n, r) = r /\ Lead(n, s) = s => Reached(s, "info")
             /\ Reached(r, "transfer") => Reached(s, "strlen")
             /\ Reached(r, "final") => Reached(s, "barrier")
  BY Zenon DEF PhasesInv
<1>2. /\ AtLeast(q, "gather") => Reached(r, "gather")
      /\ AtLeast(q, "split") => Reached(r, "split")
      /\ AtLeast(q, "info") => Reached(r, "info")
      /\ AtLeast(q, "open") => Reached(r, "open")
      /\ AtLeast(q, "transfer") => Reached(r, "transfer")
      /\ AtLeast(q, "final") => Reached(r, "final")
  BY Zenon DEF Thresholds
<1> QED
  BY <1>1, <1>2, Zenon DEF MayMove

\* The phases that do not wait for others.
LEMMA FreePhases ==
  ASSUME NEW n, PhasesInv(n), NEW r \in Rank, NEW q,
         \/ pc[r] = "gather" /\ q = "assign"
         \/ pc[r] = "open" /\ q = "strlen"
         \/ pc[r] = "transfer" /\ q \in {"transfer", "barrier"}
         \/ pc[r] = "final" /\ q = "done"
  PROVE  MayMove(n, r, q) /\ \A x \in Thresholds : AtLeast(q, x) <=> Reached(r, x)
<1>1. q \in Range(Phases) /\ AtLeast(q, pc[r]) /\ q # "info"
  BY PhaseOrder DEF AtLeast
<1>2. \A x \in Thresholds : AtLeast(q, x) <=> Reached(r, x)
  BY PhaseOrder DEF AtLeast, Reached, Thresholds
<1> QED
  BY <1>1, <1>2, MayStay, Zenon

\* The constants of an execution: what the inputs are, and what they have to do with
\* the parameters of PoolInv
Ambient(p, l, m, n, t) ==
  /\ p \in Flags /\ l \in [Rank -> Nat] /\ m \in BOOLEAN /\ n \in 1 .. NRanks
  /\ t \in Nat \cup {-1}
Fixed(p, l, m, n, t) ==
  /\ patchObsVec = p /\ stringLength = l /\ writeMultipleFiles = m /\ TargetPoolSize = n
  /\ timeRank = t
Now(p, l, m, n, t) ==
  /\ Ambient(p, l, m, n, t) /\ Fixed(p, l, m, n, t)
  /\ PhasesInv(n) /\ PoolSet(p, l, n) /\ TransferInv(p, l, n) /\ FilesInv(p, m, n, t)

\* What rank r has computed so far
Computed(p, l, n, r) ==
  /\ target_pool_size[r] = IF Reached(r, "gather") THEN n ELSE 0
  /\ rank_assignment[r] = IF Reached(r, "split") THEN Assignment(p, n, r) ELSE <<>>
  /\ rank_pool[r] = IF Reached(r, "info") /\ Lead(n, r) = r THEN GroupIn(n, r) ELSE -1
  /\ size_pool[r] = IF Reached(r, "info") /\ Lead(n, r) = r THEN n ELSE -1
  /\ total_nlocs[r] = IF Reached(r, "info") /\ Lead(n, r) = r
                      THEN Below(p, 1, GroupEnd(n, r)) - Below(p, 1, r) ELSE 0
  /\ global_nlocs[r] = IF Reached(r, "open") /\ Lead(n, r) = r THEN Below(p, 1, NRanks) ELSE 0
  /\ nlocs_start[r] = IF Reached(r, "open") /\ Lead(n, r) = r THEN Below(p, 1, r) ELSE 0
  /\ strLen[r] = IF Reached(r, "transfer") THEN CellLength(p, l) ELSE 0

\* The pool is set up as far as each rank has come.
LEMMA PoolValues ==
  ASSUME NEW p, NEW l, NEW n, PoolSet(p, l, n), NEW r \in Rank
  PROVE  Computed(p, l, n, r)
<1> QED
  BY Zenon DEF PoolSet, Computed

\* A rank at or behind a phase has come to the phases before it.
LEMMA ReachedBefore ==
  ASSUME NEW n, PhasesInv(n), NEW r \in Rank, NEW x \in Range(Phases), NEW y \in Range(Phases),
         Reached(r, x), AtLeast(x, y)
  PROVE  Reached(r, y)
<1>1. pc[r] \in Range(Phases)
  BY Zenon DEF PhasesInv
<1> QED
  BY <1>1, PhaseNumbers DEF Reached, AtLeast

\* The groups that the code computes are those of the invariant.
LEMMA GroupsKnown ==
  ASSUME NEW p, NEW l, NEW m, NEW n, NEW t, Now(p, l, m, n, t), Reached(0, "gather")
  PROVE  /\ NGroups = n
         /\ \A i : GroupStart(i) = Start(n, i) /\ GroupCount(i) = Count(n, i)
         /\ \A r : GroupOf(r) = GroupIn(n, r) /\ (Leads(r) <=> Lead(n, r) = r)
         /\ Pool = {r \in Rank : Lead(n, r) = r}
<1>1. 0 \in Rank
  BY SizesAssumption DEF Rank
<1>2. NGroups = n
  <2>1. Computed(p, l, n, 0)
    BY <1>1, PoolValues, Zenon DEF Now
  <2> QED
    BY <2>1, Zenon DEF Computed, NGroups
<1>3. \A r : GroupOf(r) = GroupIn(n, r)
  BY <1>2, Zenon DEF GroupOf
<1>4. \A i : GroupStart(i) = Start(n, i) /\ GroupCount(i) = Count(n, i)
  BY <1>2, Zenon DEF GroupStart, GroupCount
<1>5. \A r : Leads(r) <=> Lead(n, r) = r
  BY <1>3, <1>4, Zenon DEF Leads, Lead
<1>6. Pool = {r \in Rank : Lead(n, r) = r}
  BY <1>5, Zenon DEF Pool
<1> QED
  BY <1>2, <1>3, <1>4, <1>5, <1>6, Zenon

\* What rank r knows of the pool and of its file once the communicator is split
Known(m, n, t, r) ==
  /\ InPool(r) <=> Lead(n, r) = r
  /\ DoesPost(r) <=> Posts(m, n, r)
  /\ Lead(n, r) = r =>
       /\ IsParallelIo(r) <=> Parallel(m, n)
       /\ Inode(r) = File(m, n, r) /\ CopyInode(r) = File(m, n, r) + 1
       /\ FileName(r) = Name(m, n, t, r) /\ SavedName(r) = CopyName(m, n, t, r)

\* The flags and file names that the code derives from the split communicator.
LEMMA PoolKnown ==
  ASSUME NEW p, NEW l, NEW m, NEW n, NEW t, Now(p, l, m, n, t), NEW r \in Rank,
         Reached(r, "info")
  PROVE  Known(m, n, t, r)
<1>1. Computed(p, l, n, r)
  BY PoolValues, Zenon DEF Now
<1>2. /\ rank_pool[r] = IF Lead(n, r) = r THEN GroupIn(n, r) ELSE -1
      /\ size_pool[r] = IF Lead(n, r) = r THEN n ELSE -1
  BY <1>1, Zenon DEF Computed
<1>3. n \in 1 .. NRanks /\ writeMultipleFiles = m /\ timeRank = t
  BY Zenon DEF Now, Ambient, Fixed
<1>4. GroupIn(n, r) \in Nat
  <2>1. GroupIn(n, r) \in 0 .. n - 1
    BY <1>3, GroupInIs, Zenon
  <2> QED
    BY <1>3, <2>1
<1>5. InPool(r) <=> Lead(n, r) = r
  BY <1>2, <1>4 DEF InPool
<1>6. ASSUME Lead(n, r) = r
      PROVE  /\ IsParallelIo(r) <=> Parallel(m, n)
             /\ CreateMultipleFiles(r) <=> m /\ n > 1
  BY <1>2, <1>3, <1>6, Zenon DEF IsParallelIo, Parallel, CreateMultipleFiles
<1>7. ASSUME Lead(n, r) = r PROVE Inode(r) = File(m, n, r) /\ CopyInode(r) = File(m, n, r) + 1
  BY <1>6, <1>7, Zenon DEF Inode, CopyInode, File
<1>8. ASSUME Lead(n, r) = r
      PROVE  FileName(r) = Name(m, n, t, r) /\ SavedName(r) = CopyName(m, n, t, r)
  <2>1. rank_pool[r] = GroupIn(n, r)
    BY <1>2, <1>8, Zenon
  <2>2. CreateMultipleFiles(r) = (m /\ n > 1)
    BY <1>6, <1>8, Zenon DEF CreateMultipleFiles
  <2>3. FileName(r) = Name(m, n, t, r)
    BY <1>3, <2>1, <2>2, Zenon DEF FileName, Name
  <2> QED
    BY <1>3, <2>1, <2>3, Zenon DEF SavedName, CopyName
<1>9. DoesPost(r) <=> Posts(m, n, r)
  BY <1>5, <1>6, Zenon DEF DoesPost, Posts
<1> QED
  BY <1>5, <1>6, <1>7, <1>8, <1>9, Zenon DEF Known

\* Only the elements of rank r change
Local(x, y, r) == y = [s \in Rank |-> y[s]] /\ \A s \in Rank : s # r => y[s] = x[s]

PoolLocal(r) ==
  /\ Local(target_pool_size, target_pool_size', r) /\ Local(rank_assignment, rank_assignment', r)
  /\ Local(rank_pool, rank_pool', r) /\ Local(size_pool, size_pool', r)
  /\ Local(total_nlocs, total_nlocs', r) /\ Local(global_nlocs, global_nlocs', r)
  /\ Local(nlocs_start, nlocs_start', r) /\ Local(strLen, strLen', r)

\* The set-up of the pool goes on rank by rank.
LEMMA PoolStep ==
  ASSUME NEW p, NEW l, NEW n, PoolSet(p, l, n), pc \in [Rank -> Range(Phases)],
         NEW r \in Rank, NEW q \in Range(Phases), Goto(r, q), PoolLocal(r), Computed(p, l, n, r)'
  PROVE  PoolSet(p, l, n)'
<1>1. ASSUME NEW s \in Rank, s # r PROVE Computed(p, l, n, s)'
  <2>1. \A x : Reached(s, x)' <=> Reached(s, x)
    BY <1>1, GotoMoves, Zenon
  <2>2. Computed(p, l, n, s)
    BY PoolValues, Zenon
  <2>3. /\ target_pool_size'[s] = target_pool_size[s] /\ rank_assignment'[s] = rank_assignment[s]
        /\ rank_pool'[s] = rank_pool[s] /\ size_pool'[s] = size_pool[s]
        /\ total_nlocs'[s] = total_nlocs[s] /\ global_nlocs'[s] = global_nlocs[s]
        /\ nlocs_start'[s] = nlocs_start[s] /\ strLen'[s] = strLen[s]
    BY <1>1, Zenon DEF PoolLocal, Local
  <2> QED
    BY <2>1, <2>2, <2>3, Zenon DEF Computed
<1>2. \A s \in Rank : Computed(p, l, n, s)'
  BY <1>1, Zenon
<1>3. /\ target_pool_size' = [s \in Rank |-> target_pool_size'[s]]
      /\ rank_assignment' = [s \in Rank |-> rank_assignment'[s]]
      /\ rank_pool' = [s \in Rank |-> rank_pool'[s]]
      /\ size_pool' = [s \in Rank |-> size_pool'[s]]
      /\ total_nlocs' = [s \in Rank |-> total_nlocs'[s]]
      /\ global_nlocs' = [s \in Rank |-> global_nlocs'[s]]
      /\ nlocs_start' = [s \in Rank |-> nlocs_start'[s]]
      /\ strLen' = [s \in Rank |-> strLen'[s]]
  BY Zenon DEF PoolLocal, Local
<1>4. target_pool_size' = [s \in Rank |-> IF Reached(s, "gather")' THEN n ELSE 0]
  BY <1>2, <1>3, Zenon DEF Computed
<1>5. rank_assignment' = [s \in Rank |-> IF Reached(s, "split")' THEN Assignment(p, n, s) ELSE <<>>]
  BY <1>2, <1>3, Zenon DEF Computed
<1>6. rank_pool' = [s \in Rank |-> IF Reached(s, "info")' /\ Lead(n, s) = s THEN GroupIn(n, s) ELSE -1]
  BY <1>2, <1>3, Zenon DEF Computed
<1>7. size_pool' = [s \in Rank |-> IF Reached(s, "info")' /\ Lead(n, s) = s THEN n ELSE -1]
  BY <1>2, <1>3, Zenon DEF Computed
<1>8. total_nlocs' = [s \in Rank |-> IF Reached(s, "info")' /\ Lead(n, s) = s
                                     THEN Below(p, 1, GroupEnd(n, s)) - Below(p, 1, s) ELSE 0]
  BY <1>2, <1>3, Zenon DEF Computed
<1>9. global_nlocs' = [s \in Rank |-> IF Reached(s, "open")' /\ Lead(n, s) = s
                                      THEN Below(p, 1, NRanks) ELSE 0]
  BY <1>2, <1>3, Zenon DEF Computed
<1>10. nlocs_start' = [s \in Rank |-> IF Reached(s, "open")' /\ Lead(n, s) = s
                                      THEN Below(p, 1, s) ELSE 0]
  BY <1>2, <1>3, Zenon DEF Computed
<1>11. strLen' = [s \in Rank |-> IF Reached(s, "transfer")' THEN CellLength(p, l) ELSE 0]
  BY <1>2, <1>3, Zenon DEF Computed
<1> QED
  BY <1>4, <1>5, <1>6, <1>7, <1>8, <1>9, <1>10, <1>11, Zenon DEF PoolSet

-----------------------------------------------------------------------------
(* The set-up of the pool *)

PoolFunctions(r) ==
  /\ Local(target_pool_size, target_pool_size, r) /\ Local(rank_assignment, rank_assignment, r)
  /\ Local(rank_pool, rank_pool, r) /\ Local(size_pool, size_pool, r)
  /\ Local(total_nlocs, total_nlocs, r) /\ Local(global_nlocs, global_nlocs, r)
  /\ Local(nlocs_start, nlocs_start, r) /\ Local(strLen, strLen, r)

\* The variables of the pool are functions on the ranks.
LEMMA PoolUnchanged ==
  ASSUME NEW p, NEW l, NEW n, PoolSet(p, l, n), NEW r
  PROVE  PoolFunctions(r)
<1>1. ASSUME NEW x, DOMAIN x = Rank, x = [s \in DOMAIN x |-> x[s]] PROVE Local(x, x, r)
  BY <1>1, Zenon DEF Local
<1> QED
  BY <1>1, Zenon DEF PoolSet, PoolFunctions

\* An assignment to the element of rank r
Assigns(x, y, r, e) == y = [x EXCEPT ![r] = e]

\* An assignment to the element of rank r changes nothing else.
LEMMA LocalExcept ==
  ASSUME NEW x, NEW r \in Rank, Local(x, x, r), NEW e, NEW y, Assigns(x, y, r, e)
  PROVE  Local(x, y, r) /\ y[r] = e
<1>1. DOMAIN x = Rank
  BY Zenon DEF Local
<1>2. DOMAIN y = Rank /\ y[r] = e /\ \A s \in Rank : s # r => y[s] = x[s]
  BY <1>1, Zenon DEF Assigns
<1>3. y = [s \in Rank |-> y[s]]
  BY <1>1, Zenon DEF Assigns
<1> QED
  BY <1>2, <1>3, Zenon DEF Local

\* Steps between the collectives keep what was computed.
LEMMA PoolStays ==
  ASSUME NEW p, NEW l, NEW n, PoolSet(p, l, n), pc \in [Rank -> Range(Phases)],
         NEW r \in Rank, NEW q \in Range(Phases), Goto(r, q),
         \A x \in Thresholds : AtLeast(q, x) <=> Reached(r, x), UNCHANGED <<pool, strLen>>
  PROVE  PoolSet(p, l, n)'
<1>1. /\ target_pool_size' = target_pool_size /\ rank_assignment' = rank_assignment
      /\ rank_pool' = rank_pool /\ size_pool' = size_pool /\ total_nlocs' = total_nlocs
      /\ global_nlocs' = global_nlocs /\ nlocs_start' = nlocs_start /\ strLen' = strLen
  BY Zenon DEF pool
<1>2. PoolLocal(r)
  BY <1>1, PoolUnchanged, Zenon DEF PoolLocal, PoolFunctions
<1>3. \A x \in Thresholds : Reached(r, x)' <=> Reached(r, x)
  BY GotoMoves, Zenon DEF AtLeast
<1>4. Computed(p, l, n, r)
  BY PoolValues, Zenon
<1>5. Computed(p, l, n, r)'
  <2>1. /\ Reached(r, "gather")' <=> Reached(r, "gather")
        /\ Reached(r, "split")' <=> Reached(r, "split")
        /\ Reached(r, "info")' <=> Reached(r, "info")
        /\ Reached(r, "open")' <=> Reached(r, "open")
        /\ Reached(r, "transfer")' <=> Reached(r, "transfer")
    BY <1>3, Zenon DEF Thresholds
  <2> QED
    BY <1>1, <1>4, <2>1, Zenon DEF Computed
<1> QED
  BY <1>2, <1>5, PoolStep, Zenon

\* setTargetPoolSize.
LEMMA SetTargetPoolSizeStep ==
  ASSUME NEW p, NEW l, NEW m, NEW n, NEW t, Now(p, l, m, n, t), NEW r \in Rank, SetTargetPoolSize(r)
  PROVE  PhasesInv(n)' /\ PoolSet(p, l, n)'
<1> DEFINE q == "gather"
<1>1. /\ pc[r] = "size" /\ (r = 0 \/ Reached(0, "gather")) /\ Goto(r, q)
      /\ target_pool_size' = [target_pool_size EXCEPT ![r] = TargetPoolSize]
  BY Zenon DEF SetTargetPoolSize
<1>2. /\ rank_assignment' = rank_assignment /\ rank_pool' = rank_pool /\ size_pool' = size_pool
      /\ total_nlocs' = total_nlocs /\ global_nlocs' = global_nlocs /\ nlocs_start' = nlocs_start
      /\ strLen' = strLen
  BY Zenon DEF SetTargetPoolSize
<1>3. /\ PhasesInv(n) /\ PoolSet(p, l, n) /\ TargetPoolSize = n /\ 0 \in Rank
      /\ pc \in [Rank -> Range(Phases)]
  BY SizesAssumption, LeadZero, Zenon DEF Now, Fixed, Ambient, PhasesInv
<1>4. /\ q \in Range(Phases) /\ AtLeast(q, "gather") /\ AtLeast(q, "size") /\ q # "info"
      /\ ~AtLeast(q, "split") /\ ~AtLeast(q, "info") /\ ~AtLeast(q, "open")
      /\ ~AtLeast(q, "transfer") /\ ~AtLeast(q, "final")
  BY PhaseOrder DEF AtLeast
<1>5. /\ ~AtLeast("size", "gather") /\ ~AtLeast("size", "split") /\ ~AtLeast("size", "info")
      /\ ~AtLeast("size", "open") /\ ~AtLeast("size", "transfer")
  BY PhaseOrder DEF AtLeast
<1> HIDE DEF q
<1>6. MayMove(n, r, q)
  BY <1>1, <1>4, Zenon DEF MayMove
<1>7. PhasesInv(n)'
  BY <1>1, <1>3, <1>6, PhaseMove, Zenon
<1>8. PoolLocal(r) /\ target_pool_size'[r] = n
  <2>1. PoolFunctions(r)
    BY <1>3, PoolUnchanged, Zenon
  <2>2. Local(target_pool_size, target_pool_size', r) /\ target_pool_size'[r] = TargetPoolSize
    <3>1. Assigns(target_pool_size, target_pool_size', r, TargetPoolSize)
      BY <1>1, Zenon DEF Assigns
    <3>2. Local(target_pool_size, target_pool_size, r)
      BY <2>1, Zenon DEF PoolFunctions
    <3> QED
      BY <3>1, <3>2, LocalExcept
  <2> QED
    BY <1>2, <1>3, <2>1, <2>2, Zenon DEF PoolLocal, PoolFunctions
<1>9. Computed(p, l, n, r)'
  <2>1. \A x : Reached(r, x)' <=> AtLeast(q, x)
    BY <1>1, <1>3, <1>4, GotoMoves, Zenon DEF AtLeast
  <2>2. \A x : Reached(r, x) <=> AtLeast("size", x)
    BY <1>1, Zenon DEF AtLeast, Reached
  <2>3. Computed(p, l, n, r)
    BY <1>3, PoolValues, Zenon
  <2> QED
    BY <1>2, <1>4, <1>5, <1>8, <2>1, <2>2, <2>3, Zenon DEF Computed
<1> QED
  BY <1>1, <1>3, <1>4, <1>7, <1>8, <1>9, PoolStep, Zenon

\* What rank 0 sends a rank is the assignment of its group.
LEMMA RankAssignmentIs ==
  ASSUME NEW p, NEW l, NEW m, NEW n, NEW t, Now(p, l, m, n, t), NEW r \in Rank,
         Reached(0, "gather")
  PROVE  RankAssignment(r) = Assignment(p, n, r)
<1>1. /\ GroupStart(GroupOf(r)) = Lead(n, r) /\ GroupCount(GroupOf(r)) = Count(n, GroupIn(n, r))
      /\ (Leads(r) <=> Lead(n, r) = r)
  <2>1. /\ \A i : GroupStart(i) = Start(n, i) /\ GroupCount(i) = Count(n, i)
        /\ \A s : GroupOf(s) = GroupIn(n, s) /\ (Leads(s) <=> Lead(n, s) = s)
    BY GroupsKnown, Zenon
  <2> QED
    BY <2>1, Zenon DEF Lead
<1>2. \A s : patch_nlocs(s) = CountTrue(p[s])
  BY Zenon DEF patch_nlocs, Now, Fixed
<1>3. n \in 1 .. NRanks
  BY Zenon DEF Now, Ambient
<1>4. CASE Lead(n, r) = r
  <2> DEFINE c == Count(n, GroupIn(n, r))
             e == GroupEnd(n, r)
  <2>1. r \in Int /\ c \in Int /\ e = r + c
    <3>1. GroupIn(n, r) \in 0 .. n - 1
      BY <1>3, GroupInIs, Zenon
    <3>2. c \in Nat /\ e = r + c
      BY <1>3, <1>4, <3>1, StartStep, Zenon DEF GroupEnd
    <3> QED
      BY <3>2 DEF Rank
  <2> HIDE DEF c, e
  <2>2. c - 1 = e - r - 1
    BY <2>1
  <2>3. RankAssignment(r) = [k \in 1 .. c - 1 |-> <<r + k, patch_nlocs(r + k)>>]
    BY <1>1, <1>4, Zenon DEF RankAssignment, c
  <2>4. Assignment(p, n, r) = [k \in 1 .. e - r - 1 |-> <<r + k, CountTrue(p[r + k])>>]
    BY <1>4, Zenon DEF Assignment, e
  <2> QED
    BY <1>2, <2>2, <2>3, <2>4, Zenon
<1>5. CASE Lead(n, r) # r
  <2>1. RankAssignment(r) = <<<<Lead(n, r), patch_nlocs(r)>>>>
    BY <1>1, <1>5, Zenon DEF RankAssignment
  <2>2. Assignment(p, n, r) = <<<<Lead(n, r), CountTrue(p[r])>>>>
    BY <1>5, Zenon DEF Assignment
  <2> QED
    BY <1>2, <2>1, <2>2, Zenon
<1> QED
  BY <1>4, <1>5, Zenon

\* assignRanksToIoPool, when the gather is complete.
LEMMA AssignRanksToIoPoolStep ==
  ASSUME NEW p, NEW l, NEW m, NEW n, NEW t, Now(p, l, m, n, t), NEW r \in Rank,
         AssignRanksToIoPool(r)
  PROVE  PhasesInv(n)' /\ PoolSet(p, l, n)'
<1> DEFINE q == "split"
<1>1. /\ pc[r] = "assign" /\ (\A s \in Rank : Reached(s, "assign")) /\ Goto(r, q)
      /\ rank_assignment' = [rank_assignment EXCEPT ![r] = RankAssignment(r)]
  BY Zenon DEF AssignRanksToIoPool
<1>2. /\ target_pool_size' = target_pool_size /\ rank_pool' = rank_pool /\ size_pool' = size_pool
      /\ total_nlocs' = total_nlocs /\ global_nlocs' = global_nlocs /\ nlocs_start' = nlocs_start
      /\ strLen' = strLen
  BY Zenon DEF AssignRanksToIoPool
<1>3. /\ PhasesInv(n) /\ PoolSet(p, l, n) /\ 0 \in Rank /\ pc \in [Rank -> Range(Phases)]
  BY SizesAssumption, LeadZero, Zenon DEF Now, Fixed, Ambient, PhasesInv
<1>4. /\ q \in Range(Phases) /\ AtLeast(q, "gather") /\ AtLeast(q, "assign") /\ q # "info"
      /\ AtLeast(q, "split") /\ ~AtLeast(q, "info") /\ ~AtLeast(q, "open")
      /\ ~AtLeast(q, "transfer") /\ ~AtLeast(q, "final")
      /\ "gather" \in Range(Phases) /\ "assign" \in Range(Phases) /\ AtLeast("assign", "gather")
  BY PhaseOrder DEF AtLeast
<1>5. /\ AtLeast("assign", "gather") /\ ~AtLeast("assign", "split") /\ ~AtLeast("assign", "info")
      /\ ~AtLeast("assign", "open") /\ ~AtLeast("assign", "transfer")
  BY PhaseOrder DEF AtLeast
<1> HIDE DEF q
<1>6. Reached(0, "gather")
  BY <1>1, <1>3, <1>4, ReachedBefore, Zenon
<1>7. MayMove(n, r, q)
  BY <1>1, <1>4, <1>6, Zenon DEF MayMove
<1>8. PhasesInv(n)'
  BY <1>1, <1>3, <1>7, PhaseMove, Zenon
<1>9. PoolLocal(r) /\ rank_assignment'[r] = Assignment(p, n, r)
  <2>1. PoolFunctions(r)
    BY <1>3, PoolUnchanged, Zenon
  <2>2. Local(rank_assignment, rank_assignment', r) /\ rank_assignment'[r] = RankAssignment(r)
    <3>1. Assigns(rank_assignment, rank_assignment', r, RankAssignment(r))
      BY <1>1, Zenon DEF Assigns
    <3>2. Local(rank_assignment, rank_assignment, r)
      BY <2>1, Zenon DEF PoolFunctions
    <3> QED
      BY <3>1, <3>2, LocalExcept
  <2>3. RankAssignment(r) = Assignment(p, n, r)
    BY <1>6, RankAssignmentIs, Zenon
  <2> QED
    BY <1>2, <2>1, <2>2, <2>3, Zenon DEF PoolLocal, PoolFunctions
<1>10. Computed(p, l, n, r)'
  <2>1. \A x : Reached(r, x)' <=> AtLeast(q, x)
    BY <1>1, <1>3, <1>4, GotoMoves, Zenon DEF AtLeast
  <2>2. \A x : Reached(r, x) <=> AtLeast("assign", x)
    BY <1>1, Zenon DEF AtLeast, Reached
  <2>3. Computed(p, l, n, r)
    BY <1>3, PoolValues, Zenon
  <2> QED
    BY <1>2, <1>4, <1>5, <1>9, <2>1, <2>2, <2>3, Zenon DEF Computed
<1> QED
  BY <1>1, <1>3, <1>4, <1>8, <1>9, <1>10, PoolStep, Zenon

\* The assignment of a rank of the pool lists the other ranks of its group
Lists(p, n, r, a) ==
  /\ a \in Seq(Rank \X Nat) /\ Len(a) = GroupEnd(n, r) - r - 1
  /\ DOMAIN a = 1 .. GroupEnd(n, r) - r - 1
  /\ \A k \in DOMAIN a : /\ r + k \in Rank /\ Lead(n, r + k) = r /\ r + k # r
                         /\ a[k] = <<r + k, CountTrue(p[r + k])>>

\* What is in the assignment of a rank of the pool.
LEMMA AssignmentLists ==
  ASSUME NEW p \in Flags, NEW n \in 1 .. NRanks, NEW r \in Rank, Lead(n, r) = r
  PROVE  Lists(p, n, r, Assignment(p, n, r))
<1> DEFINE e == GroupEnd(n, r)
           a == Assignment(p, n, r)
           c == e - r - 1
<1>1. e \in 1 .. NRanks /\ r < e /\ r \in Nat /\ NRanks \in Nat
  BY GroupFacts, SizesAssumption DEF Rank
<1>2. a = [k \in 1 .. c |-> <<r + k, CountTrue(p[r + k])>>]
  BY Zenon DEF Assignment
<1> HIDE DEF e, a
<1>3. c \in Nat
  BY <1>1
<1>4. \A k \in 1 .. c : r + k \in Rank /\ r + k # r /\ r <= r + k /\ r + k < e
  BY <1>1 DEF Rank
<1> HIDE DEF c
<1>5. \A k \in 1 .. c : Lead(n, r + k) = r
  BY <1>4, FollowsIs, Zenon DEF e
<1>6. \A k \in 1 .. c : CountTrue(p[r + k]) \in Nat
  BY <1>4, CountTrueIs, Zenon DEF Flags
<1> DEFINE T == Rank \X Nat
<1>7. \A k \in 1 .. c : <<r + k, CountTrue(p[r + k])>> \in T
  BY <1>4, <1>6, Zenon
<1> HIDE DEF T
<1>8. a \in [1 .. c -> T]
  BY <1>2, <1>7, Zenon
<1>9. a \in Seq(T) /\ Len(a) = c /\ DOMAIN a = 1 .. c
  BY <1>3, <1>8
<1>10. \A k \in 1 .. c : a[k] = <<r + k, CountTrue(p[r + k])>>
  BY <1>2, Zenon
<1>11. \A k \in DOMAIN a : /\ r + k \in Rank /\ Lead(n, r + k) = r /\ r + k # r
                           /\ a[k] = <<r + k, CountTrue(p[r + k])>>
  BY <1>4, <1>5, <1>9, <1>10, Zenon
<1> QED
  BY <1>9, <1>11, Zenon DEF Lists, a, e, c, T

\* y lists the numbers of values of the k ranks behind r
GroupCounts(p, n, f, r, y, k) ==
  /\ p \in Flags /\ n \in 1 .. NRanks /\ f \in Nat /\ r \in Rank /\ Lead(n, r) = r
  /\ k \in 0 .. GroupEnd(n, r) - r - 1
  /\ \A j \in 0 .. k - 1 : y[j] = CountTrue(p[r + (j + 1)]) * f

\* The values in front of the rank behind them
GroupAdds(p, f, r, y, k) ==
  Below(p, f, r + (k + 1)) = Below(p, f, r) + (CountTrue(p[r]) * f + SumBelow(y, k))

\* The values of a rank of the pool and of the first k ranks of its assignment.
LEMMA GroupSum ==
  ASSUME NEW p, NEW n, NEW f, NEW r, NEW y, NEW k, GroupCounts(p, n, f, r, y, k)
  PROVE  GroupAdds(p, f, r, y, k)
<1> /\ p \in Flags /\ n \in 1 .. NRanks /\ f \in Nat /\ r \in Rank /\ Lead(n, r) = r
    /\ k \in 0 .. GroupEnd(n, r) - r - 1
  BY Zenon DEF GroupCounts
<1> DEFINE a == r + 1
<1>1. /\ a \in Nat /\ k \in Nat /\ a + k <= NRanks /\ r \in 0 .. NRanks /\ a + k \in 0 .. NRanks
      /\ a + k = r + (k + 1) /\ k \in 0 .. k /\ a \in 0 .. NRanks
      /\ \A j \in 0 .. k - 1 : r + (j + 1) = a + j /\ a + j \in Rank
  <2>1. GroupEnd(n, r) \in 1 .. NRanks /\ r < GroupEnd(n, r)
    BY GroupFacts
  <2> QED
    BY <2>1, SizesAssumption DEF Rank
<1>2. \A j \in 0 .. k - 1 : y[j] = CountTrue(p[a + j]) * f
  BY <1>1, Zenon DEF GroupCounts
<1>3. Below(p, f, a) = Below(p, f, r) + CountTrue(p[r]) * f
  BY BelowStep, Zenon
<1>4. Below(p, f, r) \in Nat /\ CountTrue(p[r]) \in Nat
  BY <1>1, BelowStep, CountTrueIs, Zenon DEF Flags
<1> DEFINE d == CountTrue(p[r]) * f
<1>5. d \in Nat
  BY <1>4
<1> HIDE DEF a
<1>6. Below(p, f, a + k) = Below(p, f, a) + SumBelow(y, k)
  BY <1>1, <1>2, SumOfGroup
<1>7. Counts(y, k)
  <2>1. \A j \in 0 .. k - 1 : CountTrue(p[a + j]) \in Nat
    BY <1>1, CountTrueIs, Zenon DEF Flags
  <2>2. \A x \in Nat : x * f \in Nat
    OBVIOUS
  <2> QED
    BY <1>2, <2>1, <2>2, Zenon DEF Counts
<1>8. SumBelow(y, k) \in Nat
  BY <1>1, <1>7, SumBelowStep, Zenon
<1> HIDE DEF d
<1>9. Below(p, f, a + k) = Below(p, f, r) + (d + SumBelow(y, k))
  <2>1. Below(p, f, a) = Below(p, f, r) + d
    BY <1>3, Zenon DEF d
  <2> QED
    BY <1>4, <1>5, <1>6, <1>8, <2>1
<1> QED
  BY <1>1, <1>9, Zenon DEF d, GroupAdds

\* The number of locations that rank r of the pool writes, as setTotalNlocs counts it.
LEMMA TotalNlocsIs ==
  ASSUME NEW p \in Flags, NEW n \in 1 .. NRanks, NEW r \in Rank, Lead(n, r) = r,
         NEW a, Lists(p, n, r, a), NEW b, b = [k \in 0 .. Len(a) - 1 |-> a[k + 1][2]]
  PROVE  CountTrue(p[r]) + SumBelow(b, Len(a)) = Below(p, 1, GroupEnd(n, r)) - Below(p, 1, r)
<1> DEFINE e == GroupEnd(n, r)
           c == Len(a)
<1>1. e \in 1 .. NRanks /\ r < e /\ r \in Nat /\ NRanks \in Nat
  BY GroupFacts, SizesAssumption DEF Rank
<1>2. c = e - r - 1 /\ DOMAIN a = 1 .. e - r - 1
  BY Zenon DEF Lists
<1>3. \A k \in DOMAIN a : a[k] = <<r + k, CountTrue(p[r + k])>> /\ r + k \in Rank
  BY Zenon DEF Lists
<1>a. b = [k \in 0 .. c - 1 |-> a[k + 1][2]]
  OBVIOUS
<1> HIDE DEF e, c
<1>4. c \in 0 .. e - r - 1 /\ r + (c + 1) = e /\ c \in Nat
  BY <1>1, <1>2
<1>5. \A j \in 0 .. c - 1 : j + 1 \in DOMAIN a
  BY <1>2, <1>4
<1>6. \A j \in 0 .. c - 1 : b[j] = CountTrue(p[r + (j + 1)]) /\ CountTrue(p[r + (j + 1)]) \in Nat
  <2> TAKE j \in 0 .. c - 1
  <2>1. a[j + 1] = <<r + (j + 1), CountTrue(p[r + (j + 1)])>> /\ r + (j + 1) \in Rank
    BY <1>3, <1>5, Zenon
  <2>2. b[j] = a[j + 1][2]
    BY <1>a, Zenon
  <2>3. a[j + 1][2] = CountTrue(p[r + (j + 1)])
    BY <2>1
  <2>4. CountTrue(p[r + (j + 1)]) \in Nat
    BY <2>1, CountTrueIs, Zenon DEF Flags
  <2> QED
    BY <2>2, <2>3, <2>4, Zenon
<1> DEFINE f == 1
<1>7. f \in Nat /\ \A x \in Nat : x * f = x
  OBVIOUS
<1> HIDE DEF f
<1>8. \A j \in 0 .. c - 1 : b[j] = CountTrue(p[r + (j + 1)]) * f
  BY <1>6, <1>7, Zenon
<1>9. Below(p, f, r + (c + 1)) = Below(p, f, r) + (CountTrue(p[r]) * f + SumBelow(b, c))
  <2>1. c \in 0 .. GroupEnd(n, r) - r - 1
    BY <1>4, Zenon DEF e
  <2> QED
    <3>1. GroupCounts(p, n, f, r, b, c)
      BY <1>7, <1>8, <2>1, Zenon DEF GroupCounts
    <3>2. GroupAdds(p, f, r, b, c)
      BY <3>1, GroupSum, Zenon
    <3> QED
      BY <3>2, Zenon DEF GroupAdds
<1>10. Below(p, f, r) \in Nat /\ CountTrue(p[r]) \in Nat /\ SumBelow(b, c) \in Nat
  <2>1. r \in 0 .. NRanks /\ c \in 0 .. c
    BY <1>1, <1>4
  <2>2. Counts(b, c)
    BY <1>6, Zenon DEF Counts
  <2>3. SumBelow(b, c) \in Nat
    BY <1>4, <2>1, <2>2, SumBelowStep, Zenon
  <2> QED
    BY <1>7, <2>1, <2>3, BelowStep, CountTrueIs, Zenon DEF Flags
<1>11. CountTrue(p[r]) + SumBelow(b, c) = Below(p, f, e) - Below(p, f, r)
  <2>1. Below(p, f, e) = Below(p, f, r) + (CountTrue(p[r]) + SumBelow(b, c))
    BY <1>4, <1>7, <1>9, <1>10, Zenon
  <2> QED
    BY <1>10, <2>1
<1> QED
  BY <1>11, Zenon DEF e, c, f

\* A rank that may move on sets up its part of the pool.
LEMMA SetUpStep ==
  ASSUME NEW p, NEW l, NEW m, NEW n, NEW t, Now(p, l, m, n, t), NEW r \in Rank, NEW q,
         MayMove(n, r, q), Goto(r, q), PoolLocal(r), Computed(p, l, n, r)'
  PROVE  PhasesInv(n)' /\ PoolSet(p, l, n)'
<1>1. PhasesInv(n) /\ PoolSet(p, l, n) /\ n \in 1 .. NRanks
  BY Zenon DEF Now, Ambient
<1>2. 0 \in Rank /\ pc \in [Rank -> Range(Phases)] /\ q \in Range(Phases)
  BY <1>1, LeadZero, Zenon DEF PhasesInv, MayMove
<1> QED
  BY <1>1, <1>2, PhaseMove, PoolStep, Zenon

\* createIoPool and setTotalNlocs.
LEMMA CreateIoPoolStep ==
  ASSUME NEW p, NEW l, NEW m, NEW n, NEW t, Now(p, l, m, n, t), NEW r \in Rank, CreateIoPool(r)
  PROVE  PhasesInv(n)' /\ PoolSet(p, l, n)'
<1> DEFINE q == IF Lead(n, r) = r THEN "info" ELSE "open"
           a == rank_assignment[r]
           b == [k \in 0 .. Len(a) - 1 |-> a[k + 1][2]]
<1>1. /\ PhasesInv(n) /\ PoolSet(p, l, n) /\ p \in Flags /\ n \in 1 .. NRanks /\ 0 \in Rank
      /\ pc \in [Rank -> Range(Phases)] /\ patchObsVec = p
  BY LeadZero, Zenon DEF Now, Fixed, Ambient, PhasesInv
<1>2. pc[r] = "split" /\ \A s \in Rank : Reached(s, "split")
  BY Zenon DEF CreateIoPool
<1>3. /\ "split" \in Range(Phases) /\ "gather" \in Range(Phases) /\ "assign" \in Range(Phases)
      /\ AtLeast("split", "gather") /\ AtLeast("split", "assign")
      /\ AtLeast("split", "split")
      /\ ~AtLeast("split", "info") /\ ~AtLeast("split", "open") /\ ~AtLeast("split", "transfer")
  BY PhaseOrder DEF AtLeast
<1>4. \A s \in Rank : Reached(s, "gather") /\ Reached(s, "assign")
  BY <1>1, <1>2, <1>3, ReachedBefore, Zenon
<1>5. /\ NGroups = n /\ GroupOf(r) = GroupIn(n, r) /\ (Leads(r) <=> Lead(n, r) = r)
      /\ Pool = {s \in Rank : Lead(n, s) = s}
  BY <1>1, <1>4, GroupsKnown, Zenon
<1>6. Cardinality(Pool) = n
  BY <1>1, <1>5, PoolSize, Zenon
<1>7. q \in Range(Phases) /\ AtLeast(q, "split") /\ AtLeast(q, "info")
      /\ AtLeast(q, "gather") /\ ~AtLeast(q, "transfer") /\ ~AtLeast(q, "final")
      /\ (Lead(n, r) = r => ~AtLeast(q, "open")) /\ (q = "info" => Lead(n, r) = r)
  BY PhaseOrder DEF AtLeast
<1>8. Goto(r, q)
  BY <1>5, Zenon DEF CreateIoPool
<1>9. /\ Assigns(rank_pool, rank_pool', r, IF Lead(n, r) = r THEN GroupIn(n, r) ELSE -1)
      /\ Assigns(size_pool, size_pool', r, IF Lead(n, r) = r THEN n ELSE -1)
      /\ Assigns(total_nlocs, total_nlocs', r,
                 IF Lead(n, r) = r THEN CountTrue(p[r]) + SumBelow(b, Len(a)) ELSE 0)
  BY <1>1, <1>5, <1>6, Zenon DEF CreateIoPool, Assigns, patch_nlocs
<1>10. /\ target_pool_size' = target_pool_size /\ rank_assignment' = rank_assignment
       /\ global_nlocs' = global_nlocs /\ nlocs_start' = nlocs_start /\ strLen' = strLen
  BY Zenon DEF CreateIoPool
<1> HIDE DEF q, b
<1>11. MayMove(n, r, q)
  BY <1>2, <1>4, <1>1, <1>7, Zenon DEF MayMove
<1>12. Computed(p, l, n, r) /\ PoolFunctions(r)
  BY <1>1, PoolValues, PoolUnchanged, Zenon
<1>13. Local(rank_pool, rank_pool, r) /\ Local(size_pool, size_pool, r)
       /\ Local(total_nlocs, total_nlocs, r)
  BY <1>12, Zenon DEF PoolFunctions
<1>14. Local(rank_pool, rank_pool', r) /\ rank_pool'[r] = IF Lead(n, r) = r THEN GroupIn(n, r) ELSE -1
  BY <1>9, <1>13, LocalExcept
<1>15. Local(size_pool, size_pool', r) /\ size_pool'[r] = IF Lead(n, r) = r THEN n ELSE -1
  BY <1>9, <1>13, LocalExcept
<1>16. /\ Local(total_nlocs, total_nlocs', r)
       /\ total_nlocs'[r] = IF Lead(n, r) = r THEN CountTrue(p[r]) + SumBelow(b, Len(a)) ELSE 0
  BY <1>9, <1>13, LocalExcept
<1>17. PoolLocal(r)
  BY <1>10, <1>12, <1>14, <1>15, <1>16, Zenon DEF PoolLocal, PoolFunctions
<1>18. \A x : Reached(r, x)' <=> AtLeast(q, x)
  BY <1>1, <1>7, <1>8, GotoMoves, Zenon DEF AtLeast
<1>19. \A x : Reached(r, x) <=> AtLeast("split", x)
  BY <1>2, Zenon DEF AtLeast, Reached
<1>20. Lead(n, r) = r => CountTrue(p[r]) + SumBelow(b, Len(a)) = Below(p, 1, GroupEnd(n, r)) - Below(p, 1, r)
  <2> SUFFICES ASSUME Lead(n, r) = r
               PROVE  CountTrue(p[r]) + SumBelow(b, Len(a)) = Below(p, 1, GroupEnd(n, r)) - Below(p, 1, r)
    OBVIOUS
  <2>1. Lists(p, n, r, Assignment(p, n, r))
    BY <1>1, AssignmentLists, Zenon
  <2>2. a = Assignment(p, n, r)
    BY <1>3, <1>12, <1>19, Zenon DEF Computed
  <2>3. Lists(p, n, r, a)
    BY <2>1, <2>2, Zenon
  <2>4. b = [k \in 0 .. Len(a) - 1 |-> a[k + 1][2]]
    BY DEF b
  <2> HIDE DEF a
  <2> QED
    BY <1>1, <2>3, <2>4, TotalNlocsIs
<1>21. total_nlocs'[r] = IF Lead(n, r) = r THEN Below(p, 1, GroupEnd(n, r)) - Below(p, 1, r) ELSE 0
  BY <1>16, <1>20, Zenon
<1>22. Computed(p, l, n, r)'
  BY <1>3, <1>7, <1>10, <1>12, <1>14, <1>15, <1>18, <1>19, <1>21, Zenon DEF Computed
<1> QED
  BY <1>8, <1>11, <1>17, <1>22, SetUpStep, Zenon

\* The numbers of the groups before group i, of n groups.
LEMMA GroupNumbers ==
  ASSUME NEW n \in Nat, NEW i \in 0 .. n
  PROVE  /\ i \in Nat /\ 0 \in 0 .. n /\ 1 \in Nat
         /\ \A j \in 0 .. i - 1 : j \in 0 .. n - 1 /\ j \in 0 .. n /\ j + 1 \in 0 .. n
OBVIOUS

\* The sums of the numbers of locations in the files of the pool.
LEMMA NlocsSums ==
  ASSUME NEW p \in Flags, NEW n \in 1 .. NRanks, NEW x,
         \A j \in 0 .. n - 1 : x[j] = Below(p, 1, Start(n, j + 1)) - Below(p, 1, Start(n, j)),
         NEW i \in 0 .. n
  PROVE  SumBelow(x, i) = Below(p, 1, Start(n, i))
<1> DEFINE B(j) == Below(p, 1, Start(n, j))
           g == [j \in 0 .. n |-> B(j)]
<1>1. n \in Nat /\ i \in Nat /\ 0 \in 0 .. n /\ 1 \in Nat
      /\ \A j \in 0 .. i - 1 : j \in 0 .. n - 1 /\ j \in 0 .. n /\ j + 1 \in 0 .. n
  BY SizesAssumption, GroupNumbers, SMT
<1>2. B(0) = 0
  BY <1>1, StartStep, BelowStep, Zenon
<1>3. \A j \in 0 .. n : B(j) \in Nat
  <2>1. \A j \in 0 .. n : Start(n, j) \in 0 .. NRanks
    <3> TAKE j \in 0 .. n
    <3>1. Start(n, j) \in Nat /\ Start(n, n) = NRanks
      BY StartStep, StartLast, Zenon
    <3>2. j = n \/ (j \in 0 .. n - 1 /\ j < n /\ n \in 0 .. n)
      BY <1>1
    <3>3. j \in 0 .. n - 1 /\ j < n => Start(n, j) + Count(n, j) <= NRanks /\ Count(n, j) \in Nat
      BY <3>1, <3>2, StartOrder, StartStep
    <3> QED
      BY <3>1, <3>2, <3>3, SizesAssumption
  <2> QED
    BY <1>1, <2>1, BelowStep, Zenon
<1>4. \A j \in 0 .. i - 1 : x[j] = B(j + 1) - B(j)
  BY <1>1, Zenon
<1> HIDE DEF B
<1>5. \A j \in 0 .. i - 1 : g[j + 1] = g[j] + x[j]
  BY <1>1, <1>3, <1>4
<1>6. g[0] = 0 /\ g[i] = B(i)
  BY <1>1, <1>2, Zenon
<1> HIDE DEF g
<1>7. AddsUp(g, x, i)
  BY <1>5, <1>6, Zenon DEF AddsUp
<1>8. SumBelow(x, i) = g[i]
  BY <1>1, <1>7, SumBelowIs, Zenon
<1> QED
  BY <1>6, <1>8, Zenon DEF B

\* collectSingleFileInfo.
LEMMA CollectSingleFileInfoStep ==
  ASSUME NEW p, NEW l, NEW m, NEW n, NEW t, Now(p, l, m, n, t), NEW r \in Rank,
         CollectSingleFileInfo(r)
  PROVE  PhasesInv(n)' /\ PoolSet(p, l, n)'
<1> DEFINE q == "open"
<1>1. /\ PhasesInv(n) /\ PoolSet(p, l, n) /\ p \in Flags /\ n \in 1 .. NRanks /\ 0 \in Rank
      /\ Lead(n, 0) = 0 /\ pc \in [Rank -> Range(Phases)]
  BY LeadZero, Zenon DEF Now, Fixed, Ambient, PhasesInv
<1>2. /\ pc[r] = "info" /\ Goto(r, q)
      /\ IF r = 0 THEN \A s \in Pool : Reached(s, "info") ELSE Reached(0, "open")
  BY Zenon DEF CollectSingleFileInfo
<1>3. Lead(n, r) = r
  BY <1>1, <1>2, Zenon DEF PhasesInv
<1>4. /\ q \in Range(Phases) /\ AtLeast(q, "info") /\ AtLeast(q, "open") /\ q # "info"
      /\ AtLeast(q, "gather") /\ AtLeast(q, "split")
      /\ ~AtLeast(q, "transfer") /\ ~AtLeast(q, "final")
  BY PhaseOrder DEF AtLeast
<1>5. /\ "info" \in Range(Phases) /\ AtLeast("info", "info") /\ AtLeast("info", "split")
      /\ AtLeast("info", "gather") /\ ~AtLeast("info", "open") /\ ~AtLeast("info", "transfer")
  BY PhaseOrder DEF AtLeast
<1>6. /\ "split" \in Range(Phases) /\ "gather" \in Range(Phases) /\ "assign" \in Range(Phases)
      /\ "info" \in Range(Phases)
      /\ AtLeast("split", "gather") /\ AtLeast("split", "assign")
  BY PhaseOrder DEF AtLeast
<1>7. \A x : Reached(r, x) <=> AtLeast("info", x)
  BY <1>2, Zenon DEF AtLeast, Reached
<1>8. \A s \in Rank : Reached(s, "split")
  BY <1>1, <1>5, <1>7, Zenon DEF PhasesInv
<1>9. \A s \in Rank : Reached(s, "gather") /\ Reached(s, "assign")
  BY <1>1, <1>6, <1>8, ReachedBefore, Zenon
<1>10. /\ NGroups = n /\ GroupOf(r) = GroupIn(n, r) /\ Pool = {s \in Rank : Lead(n, s) = s}
       /\ \A i : GroupStart(i) = Start(n, i)
  <2>1. /\ NGroups = n /\ Pool = {s \in Rank : Lead(n, s) = s}
        /\ \A i : GroupStart(i) = Start(n, i) /\ GroupCount(i) = Count(n, i)
        /\ \A s : GroupOf(s) = GroupIn(n, s) /\ (Leads(s) <=> Lead(n, s) = s)
    BY <1>1, <1>9, GroupsKnown, Zenon
  <2> QED
    BY <2>1, Zenon
<1>11. \A s \in Rank : Lead(n, s) = s => Reached(s, "info")
  <2>1. CASE r = 0
    BY <1>2, <1>10, <2>1, Zenon
  <2>2. CASE r # 0
    BY <1>1, <1>2, <2>2, Zenon DEF PhasesInv
  <2> QED
    BY <2>1, <2>2, Zenon
<1>12. MayMove(n, r, q)
  <2>1. AtLeast(q, pc[r])
    BY <1>2, <1>4, Zenon
  <2> HIDE DEF q
  <2> QED
    BY <1>1, <1>4, <1>8, <1>9, <1>11, <2>1, Zenon DEF MayMove
<1>13. \A j \in 0 .. n - 1 : TotalNlocs[j] = Below(p, 1, Start(n, j + 1)) - Below(p, 1, Start(n, j))
  <2> TAKE j \in 0 .. n - 1
  <2>1. TotalNlocs[j] = total_nlocs[Start(n, j)]
    BY <1>10, Zenon DEF TotalNlocs
  <2>2. /\ Start(n, j) \in Rank /\ Lead(n, Start(n, j)) = Start(n, j)
        /\ GroupEnd(n, Start(n, j)) = Start(n, j + 1)
    BY <1>1, LeadIs, Zenon
  <2>3. Computed(p, l, n, Start(n, j)) /\ Reached(Start(n, j), "info")
    BY <1>1, <1>11, <2>2, PoolValues, Zenon
  <2> QED
    BY <2>1, <2>2, <2>3, Zenon DEF Computed
<1>14. GroupIn(n, r) \in 0 .. n /\ n \in 0 .. n
  <2>1. GroupIn(n, r) \in 0 .. n - 1
    BY <1>1, GroupInIs, Zenon
  <2> QED
    BY <1>1, <2>1, SizesAssumption
<1>15. NlocsStart(r) = Below(p, 1, r) /\ GlobalNlocs = Below(p, 1, NRanks)
  <2>1. \A i \in 0 .. n : SumBelow(TotalNlocs, i) = Below(p, 1, Start(n, i))
    BY <1>1, <1>13, NlocsSums, Zenon
  <2>2. Start(n, n) = NRanks /\ Start(n, GroupIn(n, r)) = r
    BY <1>1, <1>3, StartLast, Zenon DEF Lead
  <2> QED
    BY <1>10, <1>14, <2>1, <2>2, Zenon DEF NlocsStart, GlobalNlocs
<1>16. /\ Assigns(global_nlocs, global_nlocs', r, Below(p, 1, NRanks))
       /\ Assigns(nlocs_start, nlocs_start', r, Below(p, 1, r))
  BY <1>15, Zenon DEF CollectSingleFileInfo, Assigns
<1>17. /\ target_pool_size' = target_pool_size /\ rank_assignment' = rank_assignment
       /\ rank_pool' = rank_pool /\ size_pool' = size_pool /\ total_nlocs' = total_nlocs
       /\ strLen' = strLen
  BY Zenon DEF CollectSingleFileInfo
<1> HIDE DEF q
<1>18. Computed(p, l, n, r) /\ PoolFunctions(r)
  BY <1>1, PoolValues, PoolUnchanged, Zenon
<1>19. Local(global_nlocs, global_nlocs, r) /\ Local(nlocs_start, nlocs_start, r)
  BY <1>18, Zenon DEF PoolFunctions
<1>20. Local(global_nlocs, global_nlocs', r) /\ global_nlocs'[r] = Below(p, 1, NRanks)
  BY <1>16, <1>19, LocalExcept
<1>21. Local(nlocs_start, nlocs_start', r) /\ nlocs_start'[r] = Below(p, 1, r)
  BY <1>16, <1>19, LocalExcept
<1>22. PoolLocal(r)
  BY <1>17, <1>18, <1>20, <1>21, Zenon DEF PoolLocal, PoolFunctions
<1>23. \A x : Reached(r, x)' <=> AtLeast(q, x)
  BY <1>1, <1>2, <1>4, GotoMoves, Zenon DEF AtLeast
<1>24. Computed(p, l, n, r)'
  BY <1>3, <1>4, <1>5, <1>7, <1>17, <1>18, <1>20, <1>21, <1>23, Zenon DEF Computed
<1> QED
  BY <1>2, <1>12, <1>22, <1>24, SetUpStep, Zenon

\* calcMaxStringLengths.
LEMMA CalcMaxStringLengthsStep ==
  ASSUME NEW p, NEW l, NEW m, NEW n, NEW t, Now(p, l, m, n, t), NEW r \in Rank,
         CalcMaxStringLengths(r)
  PROVE  PhasesInv(n)' /\ PoolSet(p, l, n)'
<1> DEFINE q == "transfer"
<1>1. /\ PhasesInv(n) /\ PoolSet(p, l, n) /\ pc \in [Rank -> Range(Phases)] /\ patchObsVec = p
      /\ stringLength = l
  BY Zenon DEF Now, Fixed, PhasesInv
<1>2. pc[r] = "strlen" /\ Goto(r, q) /\ \A s \in Rank : Reached(s, "strlen")
  BY Zenon DEF CalcMaxStringLengths
<1>3. /\ q \in Range(Phases) /\ AtLeast(q, "strlen") /\ q # "info" /\ AtLeast(q, "transfer")
      /\ AtLeast(q, "gather") /\ AtLeast(q, "split") /\ AtLeast(q, "info") /\ AtLeast(q, "open")
      /\ ~AtLeast(q, "final")
  BY PhaseOrder DEF AtLeast
<1>4. /\ AtLeast("strlen", "gather") /\ AtLeast("strlen", "split") /\ AtLeast("strlen", "info")
      /\ AtLeast("strlen", "open") /\ ~AtLeast("strlen", "transfer")
  BY PhaseOrder DEF AtLeast
<1>5. \A x : Reached(r, x) <=> AtLeast("strlen", x)
  BY <1>2, Zenon DEF AtLeast, Reached
<1> HIDE DEF q
<1>6. MayMove(n, r, q)
  <2>1. ASSUME NEW s \in Rank
        PROVE  /\ Reached(r, "gather") => Reached(0, "gather")
               /\ Reached(r, "split") => Reached(s, "assign")
               /\ Reached(r, "info") => Reached(s, "split")
               /\ Reached(r, "open") /\ Lead(n, r) = r /\ Lead(n, s) = s => Reached(s, "info")
    BY <1>1, Zenon DEF PhasesInv
  <2> QED
    BY <1>2, <1>3, <1>4, <1>5, <2>1, Zenon DEF MayMove
<1>7. Assigns(strLen, strLen', r, CellLength(p, l))
  <2>1. GlobalStringLength(r) = CellLength(p, l)
    BY <1>1, Zenon DEF GlobalStringLength, CellLength, LocalMaxStringLength
  <2> QED
    BY <2>1, Zenon DEF CalcMaxStringLengths, Assigns
<1>8. /\ target_pool_size' = target_pool_size /\ rank_assignment' = rank_assignment
      /\ rank_pool' = rank_pool /\ size_pool' = size_pool /\ total_nlocs' = total_nlocs
      /\ global_nlocs' = global_nlocs /\ nlocs_start' = nlocs_start
  BY Zenon DEF CalcMaxStringLengths, pool
<1>9. Computed(p, l, n, r) /\ PoolFunctions(r)
  BY <1>1, PoolValues, PoolUnchanged, Zenon
<1>10. Local(strLen, strLen, r)
  BY <1>9, Zenon DEF PoolFunctions
<1>11. Local(strLen, strLen', r) /\ strLen'[r] = CellLength(p, l)
  BY <1>7, <1>10, LocalExcept
<1>12. PoolLocal(r)
  BY <1>8, <1>9, <1>11, Zenon DEF PoolLocal, PoolFunctions
<1>13. \A x : Reached(r, x)' <=> AtLeast(q, x)
  BY <1>1, <1>2, <1>3, GotoMoves, Zenon DEF AtLeast
<1>14. Computed(p, l, n, r)'
  BY <1>3, <1>4, <1>5, <1>8, <1>9, <1>11, <1>13, Zenon DEF Computed
<1> QED
  BY <1>2, <1>6, <1>12, <1>14, SetUpStep, Zenon

\* The steps that move on between two collectives: GatherNlocs, OpenFile, LeaveSave and
\* those of copyVarData.
LEMMA FreeStep ==
  ASSUME NEW p, NEW l, NEW m, NEW n, NEW t, Now(p, l, m, n, t), NEW r \in Rank, NEW q,
         \/ pc[r] = "gather" /\ q = "assign"
         \/ pc[r] = "open" /\ q = "strlen"
         \/ pc[r] = "transfer" /\ q \in {"transfer", "barrier"}
         \/ pc[r] = "final" /\ q = "done",
         Goto(r, q), UNCHANGED <<pool, strLen>>
  PROVE  PhasesInv(n)' /\ PoolSet(p, l, n)'
<1>1. /\ PhasesInv(n) /\ PoolSet(p, l, n) /\ pc \in [Rank -> Range(Phases)] /\ n \in 1 .. NRanks
  BY Zenon DEF Now, Ambient, PhasesInv
<1>2. MayMove(n, r, q) /\ \A x \in Thresholds : AtLeast(q, x) <=> Reached(r, x)
  BY <1>1, FreePhases
<1>3. q \in Range(Phases) /\ 0 \in Rank
  BY <1>1, <1>2, LeadZero, Zenon DEF MayMove
<1> QED
  BY <1>1, <1>2, <1>3, PhaseMove, PoolStays, Zenon

\* Steps that do not move on: a send that starts, a block that arrives.
LEMMA StayStep ==
  ASSUME NEW p, NEW l, NEW m, NEW n, NEW t, Now(p, l, m, n, t), UNCHANGED <<pc, pool, strLen>>
  PROVE  PhasesInv(n)' /\ PoolSet(p, l, n)'
<1>1. PhasesInv(n) /\ PoolSet(p, l, n)
  BY Zenon DEF Now
<1>2. /\ target_pool_size' = target_pool_size /\ rank_assignment' = rank_assignment
      /\ rank_pool' = rank_pool /\ size_pool' = size_pool /\ total_nlocs' = total_nlocs
      /\ global_nlocs' = global_nlocs /\ nlocs_start' = nlocs_start /\ strLen' = strLen /\ pc' = pc
  BY Zenon DEF pool
<1>3. \A s, x : Reached(s, x)' <=> Reached(s, x)
  BY <1>2, Zenon DEF Reached
<1>4. PhasesInv(n)'
  BY <1>1, <1>2, <1>3, Zenon DEF PhasesInv
<1>5. /\ target_pool_size = [s \in Rank |-> IF Reached(s, "gather")' THEN n ELSE 0]
      /\ rank_assignment = [s \in Rank |-> IF Reached(s, "split")' THEN Assignment(p, n, s) ELSE <<>>]
      /\ rank_pool = [s \in Rank |-> IF Reached(s, "info")' /\ Lead(n, s) = s THEN GroupIn(n, s) ELSE -1]
      /\ size_pool = [s \in Rank |-> IF Reached(s, "info")' /\ Lead(n, s) = s THEN n ELSE -1]
  BY <1>1, <1>3, Zenon DEF PoolSet
<1>6. /\ total_nlocs = [s \in Rank |-> IF Reached(s, "info")' /\ Lead(n, s) = s
                                       THEN Below(p, 1, GroupEnd(n, s)) - Below(p, 1, s) ELSE 0]
      /\ global_nlocs = [s \in Rank |-> IF Reached(s, "open")' /\ Lead(n, s) = s
                                        THEN Below(p, 1, NRanks) ELSE 0]
      /\ nlocs_start = [s \in Rank |-> IF Reached(s, "open")' /\ Lead(n, s) = s
                                       THEN Below(p, 1, s) ELSE 0]
      /\ strLen = [s \in Rank |-> IF Reached(s, "transfer")' THEN CellLength(p, l) ELSE 0]
  BY <1>1, <1>3, Zenon DEF PoolSet
<1>7. PoolSet(p, l, n)'
  BY <1>2, <1>5, <1>6, Zenon DEF PoolSet
<1> QED
  BY <1>4, <1>7, Zenon

\* finalize, behind the barrier.
LEMMA FinalizeStep ==
  ASSUME NEW p, NEW l, NEW m, NEW n, NEW t, Now(p, l, m, n, t), NEW r \in Rank, Finalize(r)
  PROVE  PhasesInv(n)' /\ PoolSet(p, l, n)'
<1> DEFINE q == "final"
<1>1. /\ PhasesInv(n) /\ PoolSet(p, l, n) /\ pc \in [Rank -> Range(Phases)]
  BY Zenon DEF Now, PhasesInv
<1>2. pc[r] = "barrier" /\ Goto(r, q) /\ (\A s \in Rank : Reached(s, "barrier"))
      /\ UNCHANGED <<pool, strLen>>
  BY Zenon DEF Finalize, SaveBarrier
<1>3. /\ q \in Range(Phases) /\ AtLeast(q, "barrier") /\ q # "info" /\ AtLeast(q, "transfer")
      /\ AtLeast(q, "gather") /\ AtLeast(q, "split") /\ AtLeast(q, "info") /\ AtLeast(q, "open")
      /\ AtLeast(q, "final")
  BY PhaseOrder DEF AtLeast
<1>4. /\ AtLeast("barrier", "gather") /\ AtLeast("barrier", "split") /\ AtLeast("barrier", "info")
      /\ AtLeast("barrier", "open") /\ AtLeast("barrier", "transfer") /\ ~AtLeast("barrier", "final")
  BY PhaseOrder DEF AtLeast
<1>5. \A x : Reached(r, x) <=> AtLeast("barrier", x)
  BY <1>2, Zenon DEF AtLeast, Reached
<1> HIDE DEF q
<1>6. MayMove(n, r, q)
  <2>1. ASSUME NEW s \in Rank
        PROVE  /\ Reached(r, "gather") => Reached(0, "gather")
               /\ Reached(r, "split") => Reached(s, "assign")
               /\ Reached(r, "info") => Reached(s, "split")
               /\ Reached(r, "open") /\ Lead(n, r) = r /\ Lead(n, s) = s => Reached(s, "info")
               /\ Reached(r, "transfer") => Reached(s, "strlen")
    BY <1>1, Zenon DEF PhasesInv
  <2> QED
    BY <1>2, <1>3, <1>4, <1>5, <2>1, Zenon DEF MayMove
<1>7. Computed(p, l, n, r) /\ PoolFunctions(r)
  BY <1>1, PoolValues, PoolUnchanged, Zenon
<1>8. /\ target_pool_size' = target_pool_size /\ rank_assignment' = rank_assignment
      /\ rank_pool' = rank_pool /\ size_pool' = size_pool /\ total_nlocs' = total_nlocs
      /\ global_nlocs' = global_nlocs /\ nlocs_start' = nlocs_start /\ strLen' = strLen
  BY <1>2, Zenon DEF pool
<1>9. PoolLocal(r)
  BY <1>7, <1>8, Zenon DEF PoolLocal, PoolFunctions
<1>10. \A x : Reached(r, x)' <=> AtLeast(q, x)
  BY <1>1, <1>2, <1>3, GotoMoves, Zenon DEF AtLeast
<1>11. Computed(p, l, n, r)'
  BY <1>3, <1>4, <1>5, <1>7, <1>8, <1>10, Zenon DEF Computed
<1> QED
  BY <1>2, <1>6, <1>9, <1>11, SetUpStep, Zenon

-----------------------------------------------------------------------------
(* The transfer of the variables *)

\* Steps outside copyVarData leave the transfer as it is.
LEMMA TransferStays ==
  ASSUME NEW p, NEW l, NEW m, NEW n, NEW t, Now(p, l, m, n, t), NEW r \in Rank, NEW q \in Range(Phases),
         pc[r] # "transfer", Goto(r, q), AtLeast(q, pc[r]),
         q = "transfer" => ~Reached(r, "transfer"),
         AtLeast(q, "barrier") => Reached(r, "barrier"), UNCHANGED transfer
  PROVE  TransferInv(p, l, n)'
<1>1. /\ TransferInv(p, l, n) /\ pc \in [Rank -> Range(Phases)]
  BY Zenon DEF Now, PhasesInv
<1>2. varNumber' = varNumber /\ msgs' = msgs /\ waiting' = waiting /\ arrived' = arrived
  BY Zenon DEF transfer
<1>3. Moves(r, q)
  BY <1>1, GotoMoves, Zenon
<1>4. \A s \in Rank : \A x : Reached(s, x)' <=> IF s = r THEN AtLeast(q, x) ELSE Reached(s, x)
  BY <1>1, GotoMoves, Zenon DEF AtLeast
<1>5. Reached(r, "transfer") => AtLeast(q, "transfer")
  <2>1. "transfer" \in Range(Phases) /\ pc[r] \in Range(Phases)
    BY <1>1, PhaseOrder, Zenon
  <2> QED
    BY <2>1, PhaseNumbers DEF AtLeast, Reached
<1>6. \A s, v : Sent(s, v)' <=> Sent(s, v)
  BY <1>2, Zenon DEF Sent
<1>7. Len(Variables) \in Nat /\ 1 <= Len(Variables)
  BY VariablesAssumption
<1>8. AtVariable(r) /\ arrived[r] = <<>> /\ r \notin waiting
  BY <1>1, Zenon DEF TransferInv, Receives, Waits
<1>9. AtVariable(r)'
  <2>1. q = "transfer" => varNumber[r] <= Len(Variables)
    BY <1>7, <1>8 DEF AtVariable
  <2>2. pc'[r] = q /\ varNumber'[r] = varNumber[r]
    BY <1>2, <1>3, Zenon DEF Moves
  <2>3. /\ Reached(r, "transfer") => Reached(r, "transfer")'
        /\ Reached(r, "barrier")' => Reached(r, "barrier")
    BY <1>4, <1>5, Zenon
  <2> QED
    BY <1>8, <2>1, <2>2, <2>3, Zenon DEF AtVariable
<1>10. ASSUME NEW s \in Rank, s # r PROVE AtVariable(s)' /\ pc'[s] = pc[s]
  <2>1. pc'[s] = pc[s] /\ \A x : Reached(s, x)' <=> Reached(s, x)
    BY <1>3, <1>4, <1>10, Zenon DEF Moves
  <2>2. AtVariable(s)
    BY <1>1, Zenon DEF TransferInv
  <2> QED
    BY <1>2, <2>1, <2>2, Zenon DEF AtVariable
<1>11. \A s \in Rank : AtVariable(s)'
  BY <1>9, <1>10, Zenon
<1>12. ASSUME NEW s \in Rank PROVE Receives(n, s)' /\ HasAll(n, s)'
  <2>1. Receives(n, s) /\ HasAll(n, s)
    BY <1>1, Zenon DEF TransferInv
  <2>2. Receives(n, s)'
    BY <1>2, <1>8, <1>10, <2>1, Zenon DEF Receives
  <2>3. HasAll(n, s)'
    BY <1>2, <1>6, <2>1, Zenon DEF HasAll
  <2> QED
    BY <2>2, <2>3, Zenon
<1>13. ASSUME NEW s \in Rank, NEW k \in DOMAIN arrived'[s] PROVE Block(p, n, s, k)'
  <2>1. Block(p, n, s, k)
    BY <1>1, <1>2, Zenon DEF TransferInv
  <2> QED
    BY <1>2, <1>6, <2>1, Zenon DEF Block
<1>14. ASSUME NEW s \in waiting' PROVE Waits(n, s)'
  <2>1. Waits(n, s) /\ s # r
    BY <1>1, <1>2, <1>8, Zenon DEF TransferInv
  <2>2. s \in Rank
    BY <2>1, Zenon DEF Waits
  <2> QED
    BY <1>2, <1>10, <2>1, <2>2, Zenon DEF Waits
<1>15. ASSUME NEW x \in msgs', NEW s \in Rank, NEW v \in DOMAIN Variables, InFlight(p, l, n, x, s, v)
       PROVE  InFlight(p, l, n, x, s, v)'
  <2>1. Reached(s, "transfer")'
    BY <1>4, <1>5, <1>15, Zenon DEF InFlight
  <2> QED
    BY <1>2, <1>6, <1>15, <2>1, Zenon DEF InFlight
<1>16. \A x \in msgs' : \E s \in Rank, v \in DOMAIN Variables : InFlight(p, l, n, x, s, v)'
  BY <1>1, <1>2, <1>15, Zenon DEF TransferInv
<1>17. varNumber' = [s \in Rank |-> varNumber'[s]] /\ arrived' = [s \in Rank |-> arrived'[s]]
  BY <1>1, <1>2, Zenon DEF TransferInv
<1> QED
  BY <1>11, <1>12, <1>13, <1>14, <1>16, <1>17, Zenon DEF TransferInv

\* The messages that rank r waits for have all arrived
Complete(n, r) ==
  Variables[varNumber[r]].usesLocation => \A s \in Follows(n, r) \ {r} : s - r \in DOMAIN arrived[r]

\* A rank that is not ahead of variable w is at or before it.
LEMMA NotAhead ==
  ASSUME NEW k, NEW v \in 1 .. k, NEW w \in Nat, ~(v > w)
  PROVE  v \in Nat /\ v <= w
OBVIOUS

\* The place of rank r in the assignment of rank d counts from d.
LEMMA RankAhead ==
  ASSUME NEW d \in Rank, NEW r \in Rank
  PROVE  d + (r - d) = r
  BY DEF Rank

\* A rank goes on to the next variable of the loop in copyVarData.
LEMMA AdvanceStep ==
  ASSUME NEW p, NEW l, NEW m, NEW n, NEW t, Now(p, l, m, n, t), NEW r \in Rank,
         pc[r] = "transfer", NextVariable(r), Complete(n, r),
         msgs' = msgs, waiting' = waiting \ {r}, arrived' = [arrived EXCEPT ![r] = <<>>]
  PROVE  TransferInv(p, l, n)'
<1> DEFINE q == IF varNumber[r] = Len(Variables) THEN "barrier" ELSE "transfer"
           w == varNumber[r]
<1>1. /\ TransferInv(p, l, n) /\ pc \in [Rank -> Range(Phases)] /\ n \in 1 .. NRanks
  BY Zenon DEF Now, Ambient, PhasesInv
<1>2. Goto(r, q) /\ varNumber' = [varNumber EXCEPT ![r] = @ + 1]
  BY Zenon DEF NextVariable
<1>3. /\ q \in Range(Phases) /\ AtLeast(q, "transfer") /\ (AtLeast(q, "barrier") => q = "barrier")
      /\ q \in {"barrier", "transfer"} /\ "barrier" # "transfer"
  BY PhaseOrder DEF AtLeast
<1>4. AtVariable(r) /\ Len(Variables) \in Nat /\ DOMAIN Variables = 1 .. Len(Variables)
  BY <1>1, VariablesAssumption DEF TransferInv
<1>5. w \in DOMAIN Variables /\ w \in Nat /\ w <= Len(Variables)
  BY <1>4 DEF AtVariable
<1>6. /\ \A s \in Rank : varNumber'[s] = IF s = r THEN w + 1 ELSE varNumber[s]
      /\ varNumber' = [s \in Rank |-> varNumber'[s]]
  BY <1>1, <1>2, Zenon DEF TransferInv
<1>7. /\ \A s \in Rank : arrived'[s] = IF s = r THEN <<>> ELSE arrived[s]
      /\ arrived' = [s \in Rank |-> arrived'[s]]
  BY <1>1, Zenon DEF TransferInv
<1>8. (q = "barrier" <=> w = Len(Variables))
  BY <1>3, Zenon
<1> HIDE DEF q
<1>9. Moves(r, q)
  BY <1>1, <1>2, <1>3, GotoMoves, Zenon
<1>10. \A s \in Rank : \A x : Reached(s, x)' <=> IF s = r THEN AtLeast(q, x) ELSE Reached(s, x)
  BY <1>1, <1>2, <1>3, GotoMoves, Zenon DEF AtLeast
<1>11. \A s \in Rank : \A v \in DOMAIN Variables : Sent(s, v) => Sent(s, v)'
  <2> SUFFICES ASSUME NEW s \in Rank, NEW v \in DOMAIN Variables, Sent(s, v) PROVE Sent(s, v)'
    BY Zenon
  <2>1. CASE s = r
    <3>1. varNumber'[s] = w + 1 /\ (w > v \/ w = v)
      BY <1>6, <2>1, Zenon DEF Sent
    <3>2. varNumber'[s] > v
      BY <1>4, <1>5, <3>1
    <3> QED
      BY <3>2, Zenon DEF Sent
  <2>2. CASE s # r
    BY <1>6, <2>2, Zenon DEF Sent
  <2> QED
    BY <2>1, <2>2, Zenon
<1>12. AtVariable(r)'
  <2>1. pc'[r] = q /\ varNumber'[r] = w + 1 /\ Reached(r, "transfer")'
        /\ (Reached(r, "barrier")' => q = "barrier")
    BY <1>3, <1>6, <1>9, <1>10, Zenon DEF Moves
  <2>2. /\ w + 1 \in 1 .. Len(Variables) + 1
        /\ q = "transfer" => w + 1 <= Len(Variables)
        /\ q = "barrier" => w + 1 = Len(Variables) + 1
    BY <1>3, <1>4, <1>5, <1>8
  <2> QED
    BY <2>1, <2>2, Zenon DEF AtVariable
<1>13. ASSUME NEW s \in Rank, s # r PROVE AtVariable(s)' /\ Receives(n, s)' /\ pc'[s] = pc[s]
  <2>1. pc'[s] = pc[s] /\ (\A x : Reached(s, x)' <=> Reached(s, x)) /\ varNumber'[s] = varNumber[s]
        /\ arrived'[s] = arrived[s]
    BY <1>6, <1>7, <1>9, <1>10, <1>13, Zenon DEF Moves
  <2>2. AtVariable(s) /\ Receives(n, s)
    BY <1>1, Zenon DEF TransferInv
  <2> QED
    BY <2>1, <2>2, Zenon DEF AtVariable, Receives
<1>14. Receives(n, r)'
  BY <1>7, Zenon DEF Receives
<1>15. \A s \in Rank : \A v \in DOMAIN Variables : s # r => varNumber'[s] = varNumber[s]
  BY <1>6, Zenon
<1>16. ASSUME Variables[w].usesLocation, NEW s \in Follows(n, r) \ {r} PROVE Sent(s, w)
  <2>1. s - r \in DOMAIN arrived[r]
    BY <1>16, Zenon DEF Complete
  <2>2. Block(p, n, r, s - r)
    BY <1>1, <2>1, Zenon DEF TransferInv
  <2>3. r + (s - r) = s
    BY DEF Follows, Rank
  <2> QED
    BY <2>2, <2>3, Zenon DEF Block
<1>17. ASSUME NEW s \in Rank PROVE HasAll(n, s)'
  <2> SUFFICES ASSUME NEW v \in DOMAIN Variables, NEW u \in Follows(n, s) \ {s},
                      varNumber'[s] > v, Variables[v].usesLocation
               PROVE  Sent(u, v)'
    BY Zenon DEF HasAll
  <2>1. HasAll(n, s) /\ u \in Rank
    BY <1>1, Zenon DEF TransferInv, Follows
  <2>2. CASE varNumber[s] > v
    BY <1>11, <2>1, <2>2, Zenon DEF HasAll
  <2>3. CASE ~(varNumber[s] > v)
    <3>1. s = r /\ w + 1 > v /\ ~(w > v)
      BY <1>6, <2>3, Zenon
    <3>2. v = w
      BY <1>4, <1>5, <3>1
    <3> QED
      BY <1>11, <1>16, <2>1, <3>1, <3>2, Zenon
  <2> QED
    BY <2>2, <2>3, Zenon
<1>18. ASSUME NEW s \in Rank, NEW k \in DOMAIN arrived'[s] PROVE Block(p, n, s, k)'
  <2>1. s # r
    BY <1>7
  <2>2. Block(p, n, s, k) /\ varNumber'[s] = varNumber[s] /\ arrived'[s] = arrived[s]
    BY <1>1, <1>6, <1>7, <2>1, Zenon DEF TransferInv
  <2>3. varNumber[s] \in DOMAIN Variables
    <3>1. Receives(n, s) /\ AtVariable(s)
      BY <1>1, Zenon DEF TransferInv
    <3>2. arrived[s] # <<>>
      <4>1. k \in DOMAIN arrived[s]
        BY <2>2, Zenon
      <4> QED
        BY <4>1
    <3>3. pc[s] = "transfer"
      BY <3>1, <3>2, Zenon DEF Receives
    <3> QED
      BY <1>4, <3>1, <3>3 DEF AtVariable
  <2>4. s + k \in Rank
    BY <2>2, Zenon DEF Block, Follows
  <2>5. Sent(s + k, varNumber[s])'
    BY <1>11, <2>2, <2>3, <2>4, Zenon DEF Block, Sent
  <2> QED
    BY <2>2, <2>5, Zenon DEF Block, Sent
<1>19. ASSUME NEW s \in waiting' PROVE Waits(n, s)'
  <2>1. Waits(n, s) /\ s # r
    BY <1>1, Zenon DEF TransferInv
  <2>2. s \in Rank
    BY <2>1, Zenon DEF Waits
  <2>3. pc'[s] = pc[s] /\ varNumber'[s] = varNumber[s]
    BY <1>6, <1>13, <2>1, <2>2, Zenon
  <2> QED
    BY <2>1, <2>3, Zenon DEF Waits
<1>20. ASSUME NEW x \in msgs', NEW s \in Rank, NEW v \in DOMAIN Variables, InFlight(p, l, n, x, s, v)
       PROVE  InFlight(p, l, n, x, s, v)'
  <2>1. Reached(s, "transfer")' /\ Sent(s, v)'
    BY <1>3, <1>10, <1>11, <1>20, Zenon DEF InFlight
  <2>2. Lead(n, s) \in Rank /\ varNumber[Lead(n, s)] <= v /\ Lead(n, s) # s
    BY <1>1, <1>20, GroupFacts, Zenon DEF InFlight
  <2>3. CASE Lead(n, s) # r
    <3>1. varNumber'[Lead(n, s)] = varNumber[Lead(n, s)] /\ arrived'[Lead(n, s)] = arrived[Lead(n, s)]
      BY <1>6, <1>7, <2>2, <2>3, Zenon
    <3> QED
      BY <1>20, <2>1, <3>1, Zenon DEF InFlight
  <2>4. CASE Lead(n, s) = r
    <3>1. v # w
      <4> SUFFICES ASSUME v = w PROVE FALSE
        OBVIOUS
      <4>1. s - r \notin DOMAIN arrived[r] /\ Variables[w].usesLocation
        BY <1>20, <2>4, Zenon DEF InFlight
      <4>2. s \in Follows(n, r) \ {r}
        BY <2>2, <2>4, Zenon DEF Follows
      <4> QED
        BY <4>1, <4>2, Zenon DEF Complete
    <3>2. varNumber'[r] = w + 1 /\ arrived'[r] = <<>>
      BY <1>6, <1>7, Zenon
    <3>3. w + 1 <= v
      BY <1>4, <1>5, <2>2, <2>4, <3>1
    <3>4. s - r \notin DOMAIN arrived'[r]
      BY <3>2
    <3> QED
      BY <1>20, <2>1, <2>4, <3>2, <3>3, <3>4, Zenon DEF InFlight
  <2> QED
    BY <2>3, <2>4, Zenon
<1>21. \A x \in msgs' : \E s \in Rank, v \in DOMAIN Variables : InFlight(p, l, n, x, s, v)'
  BY <1>1, <1>20, Zenon DEF TransferInv
<1>22. \A s \in Rank : AtVariable(s)' /\ Receives(n, s)' /\ HasAll(n, s)'
  BY <1>12, <1>13, <1>14, <1>17, Zenon
<1> QED
  BY <1>6, <1>7, <1>18, <1>19, <1>21, <1>22, Zenon DEF TransferInv

\* The values that rank r selects for the variable it has come to.
LEMMA OwnValues ==
  ASSUME NEW p, NEW l, NEW m, NEW n, NEW t, Now(p, l, m, n, t), NEW r
  PROVE  PatchValues(r) = Values(p, r, varNumber[r])
<1> QED
  BY Zenon DEF PatchValues, Values, Var, Now, Fixed

\* What is known of a rank that is in copyVarData.
LEMMA InTransfer ==
  ASSUME NEW p, NEW l, NEW m, NEW n, NEW t, Now(p, l, m, n, t), NEW r \in Rank, pc[r] = "transfer"
  PROVE  /\ Computed(p, l, n, r) /\ Known(m, n, t, r)
         /\ Reached(r, "split") /\ Reached(r, "info") /\ Reached(r, "open") /\ Reached(r, "strlen")
         /\ Reached(r, "transfer") /\ ~Reached(r, "barrier") /\ ~Reached(r, "final")
         /\ varNumber[r] \in DOMAIN Variables /\ varNumber[r] \in Nat
<1>1. /\ Reached(r, "split") /\ Reached(r, "info") /\ Reached(r, "open") /\ Reached(r, "strlen")
      /\ Reached(r, "transfer") /\ ~Reached(r, "barrier") /\ ~Reached(r, "final")
  BY PhaseOrder DEF Reached
<1>2. PoolSet(p, l, n) /\ TransferInv(p, l, n)
  BY Zenon DEF Now
<1>3. Computed(p, l, n, r) /\ Known(m, n, t, r)
  BY <1>1, <1>2, PoolValues, PoolKnown, Zenon
<1>4. AtVariable(r)
  BY <1>2, Zenon DEF TransferInv
<1>5. varNumber[r] \in DOMAIN Variables /\ varNumber[r] \in Nat
  BY <1>4, VariablesAssumption DEF AtVariable
<1> QED
  BY <1>1, <1>3, <1>5, Zenon

\* A rank outside the pool starts to send its values of a variable.
LEMMA SendVarDataStep ==
  ASSUME NEW p, NEW l, NEW m, NEW n, NEW t, Now(p, l, m, n, t), NEW r \in Rank, SendVarData(r)
  PROVE  TransferInv(p, l, n)'
<1> SUFFICES ASSUME NEW w, w = varNumber[r],
                    NEW y, y = [from |-> r, to |-> rank_assignment[r][1][1], tag |-> Tag(r, varNumber[r]),
                                data |-> PatchValues(r), cell |-> strLen[r] + 1]
             PROVE  TransferInv(p, l, n)'
  BY Zenon
<1>1. TransferInv(p, l, n) /\ n \in 1 .. NRanks
  BY Zenon DEF Now, Ambient
<1>2. /\ pc[r] = "transfer" /\ Variables[w].usesLocation /\ ~InPool(r) /\ r \notin waiting
      /\ msgs' = msgs \cup {y} /\ waiting' = waiting \cup {r}
  BY Zenon DEF SendVarData, Var
<1>3. pc' = pc /\ varNumber' = varNumber /\ arrived' = arrived
  BY Zenon DEF SendVarData
<1>4. /\ Computed(p, l, n, r) /\ Known(m, n, t, r) /\ Reached(r, "split") /\ Reached(r, "transfer")
      /\ w \in DOMAIN Variables /\ w \in Nat
  BY <1>2, InTransfer, Zenon
<1>5. Lead(n, r) # r
  BY <1>2, <1>4, Zenon DEF Known
<1>6. y = Message(p, l, n, r, w)
  <2>1. rank_assignment[r] = <<<<Lead(n, r), CountTrue(p[r])>>>>
    BY <1>4, <1>5, Zenon DEF Computed, Assignment
  <2>2. rank_assignment[r][1][1] = Lead(n, r)
    BY <2>1
  <2>3. strLen[r] = CellLength(p, l)
    BY <1>4, Zenon DEF Computed
  <2>4. PatchValues(r) = Values(p, r, w)
    BY OwnValues, Zenon
  <2> QED
    BY <2>2, <2>3, <2>4, Zenon DEF Message
<1>7. \A s, v : Sent(s, v) => Sent(s, v)'
  BY <1>2, <1>3, Zenon DEF Sent
<1>8. \A s, x : Reached(s, x)' <=> Reached(s, x)
  BY <1>3, Zenon DEF Reached
<1>9. ~Sent(r, w) /\ Sent(r, w)'
  BY <1>2, <1>3, <1>4 DEF Sent
<1>10. ASSUME NEW s \in Rank PROVE AtVariable(s)' /\ Receives(n, s)' /\ HasAll(n, s)'
  <2>1. AtVariable(s) /\ Receives(n, s) /\ HasAll(n, s)
    BY <1>1, Zenon DEF TransferInv
  <2>2. AtVariable(s)' /\ Receives(n, s)'
    BY <1>3, <1>8, <2>1, Zenon DEF AtVariable, Receives
  <2>3. HasAll(n, s)'
    BY <1>3, <1>7, <2>1, Zenon DEF HasAll
  <2> QED
    BY <2>2, <2>3, Zenon
<1>11. ASSUME NEW s \in Rank, NEW k \in DOMAIN arrived'[s] PROVE Block(p, n, s, k)'
  <2>1. Block(p, n, s, k)
    BY <1>1, <1>3, Zenon DEF TransferInv
  <2>2. Sent(s + k, varNumber[s])'
    BY <1>2, <1>3, <2>1, Zenon DEF Block, Sent
  <2> QED
    BY <1>3, <2>1, <2>2, Zenon DEF Block
<1>12. ASSUME NEW s \in waiting' PROVE Waits(n, s)'
  <2>1. Waits(n, s)
    <3>1. CASE s = r
      BY <1>2, <1>5, <3>1, Zenon DEF Waits
    <3>2. CASE s # r
      BY <1>1, <1>2, <3>2, Zenon DEF TransferInv
    <3> QED
      BY <3>1, <3>2, Zenon
  <2> QED
    BY <1>3, <2>1, Zenon DEF Waits
<1>13. ASSUME NEW x, NEW s \in Rank, NEW v \in DOMAIN Variables, InFlight(p, l, n, x, s, v)
       PROVE  InFlight(p, l, n, x, s, v)'
  BY <1>3, <1>7, <1>8, <1>13, Zenon DEF InFlight
<1>14. InFlight(p, l, n, y, r, w)'
  <2> DEFINE d == Lead(n, r)
  <2>1. d \in Rank /\ r \in Follows(n, d) \ {d}
    BY <1>1, <1>5, GroupFacts, Zenon DEF Follows
  <2>2. HasAll(n, d) /\ AtVariable(d)
    BY <1>1, <2>1, Zenon DEF TransferInv
  <2>3. ~(varNumber[d] > w)
    BY <1>2, <1>4, <1>9, <2>1, <2>2, Zenon DEF HasAll
  <2>4. varNumber[d] \in Nat /\ varNumber[d] <= w
    <3>1. varNumber[d] \in 1 .. Len(Variables) + 1
      BY <2>2, Zenon DEF AtVariable
    <3>2. w \in Nat
      BY <1>4, VariablesAssumption
    <3> HIDE DEF d
    <3> QED
      BY <2>3, <3>1, <3>2, NotAhead, Zenon
  <2>5. varNumber[d] = w => r - d \notin DOMAIN arrived[d]
    <3> SUFFICES ASSUME varNumber[d] = w, r - d \in DOMAIN arrived[d] PROVE FALSE
      BY Zenon
    <3>1. Block(p, n, d, r - d)
      BY <1>1, <2>1, Zenon DEF TransferInv
    <3>2. d + (r - d) = r
      BY <2>1, RankAhead, Zenon
    <3> QED
      BY <1>9, <3>1, <3>2, Zenon DEF Block
  <2> QED
    BY <1>2, <1>3, <1>4, <1>5, <1>6, <1>8, <1>9, <2>4, <2>5, Zenon DEF InFlight
<1>15. \A x \in msgs' : \E s \in Rank, v \in DOMAIN Variables : InFlight(p, l, n, x, s, v)'
  BY <1>1, <1>2, <1>4, <1>13, <1>14, Zenon DEF TransferInv
<1>16. varNumber' = [s \in Rank |-> varNumber'[s]] /\ arrived' = [s \in Rank |-> arrived'[s]]
  BY <1>1, <1>3, Zenon DEF TransferInv
<1> QED
  BY <1>10, <1>11, <1>12, <1>15, <1>16, Zenon DEF TransferInv

\* Where the longest string is looked for.
LEMMA MaxIs ==
  ASSUME NEW N \in Nat, NEW h, \A s \in 0 .. N - 1 : h[s] \in Nat,
         NEW S, S = {1} \cup {h[s] : s \in 0 .. N - 1}
  PROVE  Max(S) \in Nat /\ \A y \in S : y <= Max(S)
<1> DEFINE U(k) == {1} \cup {h[s] : s \in 0 .. k - 1}
           G == {k \in 0 .. N : \E x \in U(k) : \A y \in U(k) : y <= x}
<1>1. 0 \in G
  OBVIOUS
<1>2. ASSUME NEW k \in 0 .. N - 1, k \in G PROVE k + 1 \in G
  <2>1. PICK x \in U(k) : \A y \in U(k) : y <= x
    BY <1>2
  <2>2. h[k] \in Nat /\ x \in Nat /\ k + 1 \in 0 .. N
    <3>1. \A s \in 0 .. k - 1 : h[s] \in Nat
      BY <1>2
    <3> QED
      BY <1>2, <3>1
  <2>3. U(k + 1) = U(k) \cup {h[k]}
    <3>1. 0 .. (k + 1) - 1 = (0 .. k - 1) \cup {k}
      BY <1>2
    <3> QED
      BY <3>1, Zenon
  <2>4. \A y \in U(k) : y \in Nat
    <3>1. \A s \in 0 .. k - 1 : h[s] \in Nat
      BY <1>2
    <3> QED
      BY <3>1
  <2> HIDE DEF U
  <2>5. \E z \in U(k + 1) : \A y \in U(k + 1) : y <= z
    <3>1. CASE h[k] <= x
      BY <2>1, <2>3, <3>1, Zenon
    <3>2. CASE ~(h[k] <= x)
      <4>1. \A y \in U(k) : y <= h[k]
        BY <2>1, <2>2, <2>4, <3>2
      <4>2. h[k] <= h[k]
        BY <2>2
      <4> QED
        BY <2>3, <4>1, <4>2, Zenon
    <3> QED
      BY <3>1, <3>2, Zenon
  <2> QED
    BY <2>2, <2>5, Zenon
<1> HIDE DEF G
<1>3. N \in G
  <2>1. 0 .. N \subseteq G
    BY <1>1, <1>2, InductionTo
  <2> QED
    BY <2>1
<1>4. \E x \in S : \A y \in S : x >= y
  BY <1>3 DEF G
<1>5. Max(S) \in S /\ \A y \in S : Max(S) >= y
  BY <1>4, Zenon DEF Max
<1>6. \A y \in S : y \in Nat
  OBVIOUS
<1> QED
  BY <1>5, <1>6

\* The cells are long enough for the strings of every rank that holds locations.
LEMMA CellLengthIs ==
  ASSUME NEW p \in Flags, NEW l \in [Rank -> Nat]
  PROVE  /\ CellLength(p, l) \in Nat
         /\ \A s \in Rank : p[s] # <<>> => l[s] <= CellLength(p, l)
<1> DEFINE h == [s \in Rank |-> IF p[s] = <<>> THEN 0 ELSE l[s]]
           S == {1} \cup {IF p[s] = <<>> THEN 0 ELSE l[s] : s \in Rank}
<1>1. \A s \in Rank : h[s] \in Nat /\ h[s] \in S
  <2>1. \A s \in Rank : l[s] \in Nat /\ h[s] = IF p[s] = <<>> THEN 0 ELSE l[s]
    BY Zenon
  <2> QED
    BY <2>1
<1>2. S = {1} \cup {h[s] : s \in Rank}
  BY Zenon
<1>3. \A s \in Rank : p[s] # <<>> => h[s] = l[s]
  BY Zenon
<1>4. CellLength(p, l) = Max(S)
  BY Zenon DEF CellLength
<1> HIDE DEF h, S
<1>5. Max(S) \in Nat /\ \A y \in S : y <= Max(S)
  BY <1>1, <1>2, MaxIs, SizesAssumption DEF Rank
<1> QED
  BY <1>1, <1>3, <1>4, <1>5, Zenon

\* A rank has values to send only if it holds locations.
LEMMA NoLocationsNoValues ==
  ASSUME NEW p \in Flags, NEW s \in Rank, NEW v \in DOMAIN Variables, NEW k \in DOMAIN Values(p, s, v)
  PROVE  p[s] # <<>>
<1> SUFFICES ASSUME p[s] = <<>> PROVE FALSE
  OBVIOUS
<1>1. {i \in DOMAIN p[s] : p[s][i]} = {}
  OBVIOUS
<1>2. CountTrue(p[s]) = 0
  BY <1>1, FS_EmptySet, Zenon DEF CountTrue
<1>3. k \in 1 .. CountTrue(p[s]) * Variables[v].dimFactor /\ Variables[v].dimFactor \in Nat
  BY ValuesLength, Zenon
<1> QED
  BY <1>2, <1>3

\* f with the value e at k
Extends(g, k, e, f) ==
  /\ DOMAIN g = {k} \cup DOMAIN f /\ g[k] = e /\ \A x \in DOMAIN f : x # k => g[x] = f[x]

\* What With does.
LEMMA WithIs ==
  ASSUME NEW k, NEW e, NEW f
  PROVE  Extends(With(f, k, e), k, e, f)
<1> QED
  BY Zenon DEF Extends, With

\* A block that arrives is what its sender has sent.
LEMMA DecodedIs ==
  ASSUME NEW p, NEW l, NEW m, NEW n, NEW t, Now(p, l, m, n, t), NEW r \in Rank, pc[r] = "transfer",
         NEW s \in Rank, NEW v \in DOMAIN Variables
  PROVE  Decoded(r, Message(p, l, n, s, v)) = Values(p, s, v)
<1> DEFINE x == Message(p, l, n, s, v)
           V == Values(p, s, v)
<1>1. p \in Flags /\ l \in [Rank -> Nat] /\ stringLength = l
  BY Zenon DEF Now, Ambient, Fixed
<1>2. x.data = V /\ x.cell = CellLength(p, l) + 1 /\ x.from = s
  BY Zenon DEF Message
<1>3. strLen[r] = CellLength(p, l)
  <2>1. Computed(p, l, n, r) /\ Reached(r, "transfer")
    BY InTransfer, Zenon
  <2> QED
    BY <2>1, Zenon DEF Computed
<1>4. V = [k \in DOMAIN V |-> V[k]]
  BY Zenon DEF Values, Selected
<1> HIDE DEF x, V
<1>5. ASSUME NEW k \in DOMAIN V PROVE ~(stringLength[x.from] >= x.cell)
  <2>1. p[s] # <<>>
    BY <1>1, NoLocationsNoValues, Zenon DEF V
  <2>2. l[s] <= CellLength(p, l) /\ CellLength(p, l) \in Nat /\ l[s] \in Nat
    BY <1>1, <2>1, CellLengthIs, Zenon
  <2> QED
    BY <1>1, <1>2, <2>2
<1>6. ASSUME NEW k \in DOMAIN V
      PROVE  (IF Var(r).isString /\ (x.cell # strLen[r] + 1 \/ stringLength[x.from] >= x.cell)
              THEN Garbled ELSE x.data[k]) = V[k]
  BY <1>2, <1>3, <1>5, Zenon
<1>7. Decoded(r, x) = [k \in DOMAIN V |-> V[k]]
  BY <1>2, <1>6, Zenon DEF Decoded
<1> QED
  BY <1>4, <1>7, Zenon DEF x, V

\* The tag tells the variable.
LEMMA TagIs ==
  ASSUME NEW s \in Rank, NEW v \in Nat, NEW w \in Nat, Tag(s, v) = Tag(s, w)
  PROVE  v = w
<1>1. s \in Int /\ varNumTagFactor \in Nat /\ varNumTagFactor > 0
  BY TagAssumption DEF Rank
<1>2. mpiTagBase + v * varNumTagFactor + s = mpiTagBase + w * varNumTagFactor + s /\ mpiTagBase \in Nat
  BY Zenon, SMT DEF Tag, mpiTagBase
<1> DEFINE f == varNumTagFactor
<1>3. v * f = w * f
  <2>1. v * f \in Nat /\ w * f \in Nat
    BY <1>1
  <2> QED
    BY <1>1, <1>2, <2>1
<1> HIDE DEF f
<1>4. f \in Nat /\ f > 0
  BY <1>1 DEF f
<1>5. CASE v < w
  <2>1. \E d \in Nat : d > 0 /\ w = v + d
    BY <1>5
  <2>2. PICK d \in Nat : d > 0 /\ w = v + d
    BY <2>1, Zenon
  <2>3. w * f = v * f + d * f /\ d * f > 0
    BY <1>4, <2>2
  <2> QED
    BY <1>3, <1>4, <2>3
<1>6. CASE w < v
  <2>1. \E d \in Nat : d > 0 /\ v = w + d
    BY <1>6
  <2>2. PICK d \in Nat : d > 0 /\ v = w + d
    BY <2>1, Zenon
  <2>3. v * f = w * f + d * f /\ d * f > 0
    BY <1>4, <2>2
  <2> QED
    BY <1>3, <1>4, <2>3
<1> QED
  BY <1>5, <1>6

\* A block arrives on a rank of the pool.
LEMMA ReceiveVarDataStep ==
  ASSUME NEW p, NEW l, NEW m, NEW n, NEW t, Now(p, l, m, n, t), NEW r \in Rank, ReceiveVarData(r)
  PROVE  TransferInv(p, l, n)'
<1>1. TransferInv(p, l, n) /\ n \in 1 .. NRanks /\ p \in Flags
  BY Zenon DEF Now, Ambient
<1>2. pc[r] = "transfer" /\ Variables[varNumber[r]].usesLocation /\ InPool(r)
  BY Zenon DEF ReceiveVarData, Var
<1>3. pc' = pc /\ varNumber' = varNumber /\ waiting' = waiting
  BY Zenon DEF ReceiveVarData
<1>4. /\ Computed(p, l, n, r) /\ Known(m, n, t, r) /\ Reached(r, "split")
      /\ varNumber[r] \in DOMAIN Variables /\ varNumber[r] \in Nat
  BY <1>2, InTransfer, Zenon
<1>5. Lead(n, r) = r
  BY <1>2, <1>4, Zenon DEF Known
<1>6. PICK k \in DOMAIN rank_assignment[r] \ DOMAIN arrived[r], x \in msgs :
        /\ x.from = rank_assignment[r][k][1] /\ x.to = r /\ x.tag = Tag(x.from, varNumber[r])
        /\ arrived' = [arrived EXCEPT ![r] = With(@, k, Decoded(r, x))]
        /\ msgs' = msgs \ {x}
  BY Zenon DEF ReceiveVarData
<1>7. PICK s \in Rank, v \in DOMAIN Variables : InFlight(p, l, n, x, s, v)
  BY <1>1, <1>6, Zenon DEF TransferInv
<1>8. x = Message(p, l, n, s, v) /\ Sent(s, v) /\ Lead(n, s) # s
  BY <1>7, Zenon DEF InFlight
<1>9. x.from = s /\ x.tag = Tag(s, v) /\ x.to = Lead(n, s)
  BY <1>8, Zenon DEF Message
<1>10. v = varNumber[r]
  <2>1. v \in Nat
    BY VariablesAssumption
  <2> QED
    BY <1>4, <1>6, <1>9, <2>1, TagIs, Zenon
<1>11. s = r + k /\ k \in Nat
  <2>1. Lists(p, n, r, rank_assignment[r])
    BY <1>1, <1>4, <1>5, AssignmentLists, Zenon DEF Computed
  <2>2. rank_assignment[r][k] = <<r + k, CountTrue(p[r + k])>>
    BY <1>6, <2>1, Zenon DEF Lists
  <2>3. k \in 1 .. GroupEnd(n, r) - r - 1
    BY <1>6, <2>1, Zenon DEF Lists
  <2>4. k \in Nat
    BY <2>3
  <2>5. rank_assignment[r][k][1] = s
    BY <1>6, <1>9, Zenon
  <2> QED
    BY <2>2, <2>4, <2>5
<1>12. Lead(n, s) = r /\ s - r = k
  <2>1. r \in Nat
    BY DEF Rank
  <2> QED
    BY <1>6, <1>9, <1>11, <2>1
<1>13. Decoded(r, x) = Values(p, s, v)
  <2>1. Decoded(r, Message(p, l, n, s, v)) = Values(p, s, v)
    BY <1>2, DecodedIs
  <2> QED
    BY <1>8, <2>1, Zenon
<1>14. /\ \A u \in Rank : u # r => arrived'[u] = arrived[u]
       /\ arrived'[r] = With(arrived[r], k, Values(p, s, v))
       /\ arrived' = [u \in Rank |-> arrived'[u]]
  BY <1>1, <1>6, <1>13, Zenon DEF TransferInv
<1>15. Extends(arrived'[r], k, Values(p, s, v), arrived[r])
  <2>1. Extends(With(arrived[r], k, Values(p, s, v)), k, Values(p, s, v), arrived[r])
    BY WithIs, Zenon
  <2> QED
    BY <1>14, <2>1, Zenon
<1>16. \A u, w : Sent(u, w)' <=> Sent(u, w)
  BY <1>3, Zenon DEF Sent
<1>17. \A u, w : Reached(u, w)' <=> Reached(u, w)
  BY <1>3, Zenon DEF Reached
<1>18. ASSUME NEW u \in Rank PROVE AtVariable(u)' /\ Receives(n, u)' /\ HasAll(n, u)'
  <2>1. AtVariable(u) /\ Receives(n, u) /\ HasAll(n, u)
    BY <1>1, Zenon DEF TransferInv
  <2>2. AtVariable(u)'
    BY <1>3, <1>17, <2>1, Zenon DEF AtVariable
  <2>3. Receives(n, u)'
    BY <1>2, <1>3, <1>5, <1>14, <2>1, Zenon DEF Receives
  <2>4. HasAll(n, u)'
    BY <1>3, <1>16, <2>1, Zenon DEF HasAll
  <2> QED
    BY <2>2, <2>3, <2>4, Zenon
<1>19. ASSUME NEW u \in Rank, NEW j \in DOMAIN arrived'[u] PROVE Block(p, n, u, j)'
  <2>1. CASE j \in DOMAIN arrived[u] /\ arrived'[u][j] = arrived[u][j]
    <3>1. Block(p, n, u, j)
      BY <1>1, <2>1, Zenon DEF TransferInv
    <3>2. Sent(u + j, varNumber[u])'
      BY <1>3, <3>1, Zenon DEF Block, Sent
    <3> QED
      BY <1>3, <2>1, <3>1, <3>2, Zenon DEF Block
  <2>2. CASE u = r /\ j = k
    <3>1. arrived'[u][j] = Values(p, u + j, varNumber[u])
      BY <1>10, <1>11, <1>15, <2>2, Zenon DEF Extends
    <3>2. u + j \in Follows(n, u) \ {u}
      BY <1>8, <1>11, <1>12, <2>2, Zenon DEF Follows
    <3>3. Sent(u + j, varNumber[u])'
      BY <1>3, <1>8, <1>10, <1>11, <2>2, Zenon DEF Sent
    <3> QED
      BY <1>3, <3>1, <3>2, <3>3, Zenon DEF Block
  <2> QED
    BY <1>14, <1>15, <2>1, <2>2, Zenon DEF Extends
<1>20. ASSUME NEW u \in waiting' PROVE Waits(n, u)'
  BY <1>1, <1>3, Zenon DEF TransferInv, Waits
<1>21. ASSUME NEW y \in msgs', NEW u \in Rank, NEW w \in DOMAIN Variables, InFlight(p, l, n, y, u, w)
       PROVE  InFlight(p, l, n, y, u, w)'
  <2> DEFINE d == Lead(n, u)
  <2>1. d \in Rank /\ y # x
    BY <1>1, <1>6, GroupFacts, Zenon
  <2>2. varNumber[d] = w => u - d \notin DOMAIN arrived'[d]
    <3>1. CASE d # r
      BY <1>14, <1>21, <2>1, <3>1, Zenon DEF InFlight
    <3>2. CASE d = r
      <4> SUFFICES ASSUME varNumber[r] = w, u - r \in DOMAIN arrived'[r] PROVE FALSE
        BY <3>2, Zenon
      <4>1. u - r \notin DOMAIN arrived[r]
        BY <1>21, <3>2, Zenon DEF InFlight
      <4>2. u - r = k
        BY <1>15, <4>1, Zenon DEF Extends
      <4>3. u = s
        BY <1>11, <4>2 DEF Rank
      <4>4. y = x
        BY <1>8, <1>10, <1>21, <4>3, Zenon DEF InFlight
      <4> QED
        BY <2>1, <4>4, Zenon
    <3> QED
      BY <3>1, <3>2, Zenon
  <2> QED
    BY <1>3, <1>16, <1>17, <1>21, <2>2, Zenon DEF InFlight
<1>22. \A y \in msgs' : \E u \in Rank, w \in DOMAIN Variables : InFlight(p, l, n, y, u, w)'
  BY <1>1, <1>6, <1>21, Zenon DEF TransferInv
<1>23. varNumber' = [u \in Rank |-> varNumber'[u]]
  BY <1>1, <1>3, Zenon DEF TransferInv
<1> QED
  BY <1>14, <1>18, <1>19, <1>20, <1>22, <1>23, Zenon DEF TransferInv

\* A rank outside the pool has no group behind it.
LEMMA NoFollowers ==
  ASSUME NEW n \in 1 .. NRanks, NEW r \in Rank, Lead(n, r) # r
  PROVE  Follows(n, r) = {}
<1>1. ASSUME NEW s \in Rank, Lead(n, s) = r PROVE FALSE
  BY <1>1, GroupFacts, Zenon
<1> QED
  BY <1>1, Zenon DEF Follows

\* A rank with no blocks has none to forget.
LEMMA NothingArrived ==
  ASSUME NEW p, NEW l, NEW n, TransferInv(p, l, n), NEW r \in Rank, arrived[r] = <<>>
  PROVE  arrived = [arrived EXCEPT ![r] = <<>>]
<1>1. arrived[r] = <<>> /\ arrived = [s \in Rank |-> arrived[s]]
  BY Zenon DEF TransferInv
<1> DEFINE g == [arrived EXCEPT ![r] = <<>>]
<1>2. g = [s \in Rank |-> g[s]] /\ \A s \in Rank : g[s] = IF s = r THEN <<>> ELSE arrived[s]
  BY <1>1, Zenon
<1>3. \A s \in Rank : g[s] = arrived[s]
  BY <1>1, <1>2, Zenon
<1> HIDE DEF g
<1>4. arrived = g
  BY <1>1, <1>2, <1>3, Zenon
<1> QED
  BY <1>4, Zenon DEF g

\* A variable without the Location dimension.
LEMMA TransferVarDataStep ==
  ASSUME NEW p, NEW l, NEW m, NEW n, NEW t, Now(p, l, m, n, t), NEW r \in Rank, TransferVarData(r)
  PROVE  TransferInv(p, l, n)'
<1>1. /\ pc[r] = "transfer" /\ ~Variables[varNumber[r]].usesLocation /\ NextVariable(r)
      /\ msgs' = msgs /\ waiting' = waiting /\ arrived' = arrived
  BY Zenon DEF TransferVarData, Var
<1>2. TransferInv(p, l, n)
  BY Zenon DEF Now
<1>3. Complete(n, r)
  BY <1>1, Zenon DEF Complete
<1>4. r \notin waiting /\ arrived[r] = <<>>
  BY <1>1, <1>2, Zenon DEF TransferInv, Waits, Receives
<1>5. waiting' = waiting \ {r}
  BY <1>1, <1>4, Zenon
<1>6. arrived' = [arrived EXCEPT ![r] = <<>>]
  BY <1>1, <1>2, <1>4, NothingArrived, Zenon
<1> QED
  BY <1>1, <1>3, <1>5, <1>6, AdvanceStep

\* The send of a variable completes.
LEMMA SendCompletesStep ==
  ASSUME NEW p, NEW l, NEW m, NEW n, NEW t, Now(p, l, m, n, t), NEW r \in Rank, SendCompletes(r)
  PROVE  pc[r] = "transfer" /\ TransferInv(p, l, n)'
<1>1. /\ r \in waiting /\ NextVariable(r)
      /\ msgs' = msgs /\ waiting' = waiting \ {r} /\ arrived' = arrived
  BY Zenon DEF SendCompletes
<1>2. TransferInv(p, l, n) /\ n \in 1 .. NRanks
  BY Zenon DEF Now, Ambient
<1>3. pc[r] = "transfer" /\ Lead(n, r) # r
  BY <1>1, <1>2, Zenon DEF TransferInv, Waits
<1>4. Complete(n, r)
  BY <1>2, <1>3, NoFollowers, Zenon DEF Complete
<1>5. arrived[r] = <<>>
  BY <1>2, <1>3, Zenon DEF TransferInv, Receives
<1>6. arrived' = [arrived EXCEPT ![r] = <<>>]
  BY <1>1, <1>2, <1>5, NothingArrived, Zenon
<1>7. TransferInv(p, l, n)'
  BY <1>1, <1>3, <1>4, <1>6, AdvanceStep
<1> QED
  BY <1>3, <1>7, Zenon

\* Rank r of the pool has the blocks of all its ranks
HasBlocks(p, n, r) ==
  /\ pc[r] = "transfer" /\ Lead(n, r) = r /\ Variables[varNumber[r]].usesLocation
  /\ Lists(p, n, r, rank_assignment[r]) /\ DOMAIN arrived[r] = DOMAIN rank_assignment[r]
  /\ Complete(n, r)

\* When a rank of the pool writes, it has the blocks of all its ranks.
LEMMA AllArrived ==
  ASSUME NEW p, NEW l, NEW m, NEW n, NEW t, Now(p, l, m, n, t), NEW r \in Rank, WriteVarData(r)
  PROVE  HasBlocks(p, n, r)
<1>1. /\ pc[r] = "transfer" /\ InPool(r) /\ Variables[varNumber[r]].usesLocation
      /\ DOMAIN arrived[r] = DOMAIN rank_assignment[r]
  BY Zenon DEF WriteVarData, Var
<1>2. n \in 1 .. NRanks /\ p \in Flags
  BY Zenon DEF Now, Ambient
<1>3. /\ Computed(p, l, n, r) /\ Known(m, n, t, r) /\ Reached(r, "split")
  BY <1>1, InTransfer, Zenon
<1>4. Lead(n, r) = r
  BY <1>1, <1>3, Zenon DEF Known
<1>5. Lists(p, n, r, rank_assignment[r])
  BY <1>2, <1>3, <1>4, AssignmentLists, Zenon DEF Computed
<1>6. DOMAIN arrived[r] = 1 .. GroupEnd(n, r) - r - 1
  BY <1>1, <1>5, Zenon DEF Lists
<1>7. ASSUME NEW s \in Follows(n, r) \ {r} PROVE s - r \in DOMAIN arrived[r]
  <2>1. s \in Rank /\ r <= s /\ s < GroupEnd(n, r) /\ s # r
    BY <1>2, <1>4, FollowsIs, Zenon DEF Follows
  <2>2. GroupEnd(n, r) \in Nat /\ s \in Nat /\ r \in Nat
    <3>1. GroupEnd(n, r) \in 1 .. NRanks
      BY <1>2, GroupFacts, Zenon
    <3> QED
      BY <2>1, <3>1, SizesAssumption DEF Rank
  <2>3. s - r \in 1 .. GroupEnd(n, r) - r - 1
    BY <2>1, <2>2
  <2> QED
    BY <1>6, <2>3, Zenon
<1>8. Complete(n, r)
  BY <1>7, Zenon DEF Complete
<1> QED
  BY <1>1, <1>4, <1>5, <1>8, Zenon DEF HasBlocks

\* A rank of the pool writes a variable and goes on.
LEMMA WriteVarDataStep ==
  ASSUME NEW p, NEW l, NEW m, NEW n, NEW t, Now(p, l, m, n, t), NEW r \in Rank, WriteVarData(r)
  PROVE  TransferInv(p, l, n)'
<1>1. pc[r] = "transfer" /\ Lead(n, r) = r /\ Complete(n, r)
  <2>1. HasBlocks(p, n, r)
    BY AllArrived, Zenon
  <2> QED
    BY <2>1, Zenon DEF HasBlocks
<1>2. /\ NextVariable(r) /\ arrived' = [arrived EXCEPT ![r] = <<>>]
      /\ msgs' = msgs /\ waiting' = waiting
  BY Zenon DEF WriteVarData
<1>3. TransferInv(p, l, n)
  BY Zenon DEF Now
<1>4. r \notin waiting
  BY <1>1, <1>3, Zenon DEF TransferInv, Waits
<1>5. waiting' = waiting \ {r}
  BY <1>2, <1>4, Zenon
<1> QED
  BY <1>1, <1>2, <1>5, AdvanceStep
=============================================================================
