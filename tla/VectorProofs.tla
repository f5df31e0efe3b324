------------------------------ MODULE VectorProofs ------------------------------
(***************************************************************************)
(* What the recursive definitions of Vectors compute, for vectors of any   *)
(* length and any number of ranks.  Induction is over sets of naturals: a  *)
(* set that holds 0 and the successors of its elements holds them all.     *)
(***************************************************************************)
EXTENDS Vectors, TLAPS, FiniteSetTheorems

-----------------------------------------------------------------------------
(* Induction and recursion *)

\* A non-empty set of naturals has a least element.
LEMMA LeastElement ==
  ASSUME NEW S, S \subseteq Nat, S # {}
  PROVE  \E x \in S : \A y \in S : x <= y
<1>1. \E x \in S : \A y \in S : ~(<<y, x>> \in OpToRel(<, Nat))
  BY NatLessThanWellFounded, WFMin, Zenon
<1>2. PICK x \in S : \A y \in S : ~(<<y, x>> \in OpToRel(<, Nat))
  BY <1>1, Zenon
<1>3. \A y \in S : ~(y < x)
  BY <1>2, S \subseteq Nat, Zenon DEF OpToRel
<1> QED
  BY <1>3

\* Induction up to n.
LEMMA InductionTo ==
  ASSUME NEW n \in Nat, NEW S, 0 \in S, \A k \in 0 .. n - 1 : k \in S => k + 1 \in S
  PROVE  0 .. n \subseteq S
<1> DEFINE F == {k \in 0 .. n : k \notin S}
<1> SUFFICES ASSUME F # {} PROVE FALSE
  OBVIOUS
<1>1. F \subseteq Nat
  OBVIOUS
<1>2. PICK x \in F : \A y \in F : x <= y
  BY <1>1, LeastElement, Zenon
<1>3. x \in Nat /\ x # 0 /\ x <= n /\ x \notin S
  BY <1>2
<1>4. x - 1 \in 0 .. n - 1 /\ x - 1 \in 0 .. n /\ ~(x <= x - 1) /\ (x - 1) + 1 = x
  BY <1>3
<1>5. x - 1 \in S
  BY <1>2, <1>4, Zenon
<1> QED
  BY <1>3, <1>4, <1>5, Zenon

\* g starts at v and takes n steps
Iterates(g, n, v, step) == g[0] = v /\ \A k \in 0 .. n - 1 : g[k + 1] = step[k][g[k]]

\* The steps over values in V
StepsOver(V) == [Nat -> [V -> V]]

\* A function can be defined by recursion up to n, one step of the loops that
\* Vectors models after the other.
LEMMA RecursionTo ==
  ASSUME NEW n \in Nat, NEW V, NEW v \in V, NEW step \in StepsOver(V)
  PROVE  \E g \in [0 .. n -> V] : Iterates(g, n, v, step)
<1> USE DEF StepsOver
<1> DEFINE Up(m, g) == g[0] = v /\ \A k \in 0 .. m - 1 : g[k + 1] = step[k][g[k]]
           S == {m \in Nat : \E g \in [0 .. m -> V] : Up(m, g)}
<1>1. 0 \in S
  <2> DEFINE g == [k \in 0 .. 0 |-> v]
  <2>1. g \in [0 .. 0 -> V] /\ Up(0, g)
    OBVIOUS
  <2> HIDE DEF g, Up
  <2> QED
    BY <2>1, Zenon
<1>2. ASSUME NEW m \in 0 .. n - 1, m \in S PROVE m + 1 \in S
  <2>1. PICK g \in [0 .. m -> V] : Up(m, g)
    BY <1>2, Zenon
  <2> DEFINE h == [k \in 0 .. m + 1 |-> IF k = m + 1 THEN step[m][g[m]] ELSE g[k]]
  <2>2. m \in Nat /\ m \in 0 .. m /\ g[m] \in V
    BY <1>2
  <2>3. h \in [0 .. m + 1 -> V]
    <3>1. step[m][g[m]] \in V
      BY <2>2, Zenon
    <3>2. \A k \in 0 .. m + 1 : k = m + 1 \/ k \in 0 .. m
      BY <2>2
    <3> QED
      BY <3>1, <3>2, Zenon
  <2>4. /\ 0 \in 0 .. m + 1 /\ 0 # m + 1
        /\ \A k \in 0 .. (m + 1) - 1 : /\ k \in 0 .. m + 1 /\ k # m + 1 /\ k + 1 \in 0 .. m + 1
                                       /\ k + 1 = m + 1 <=> k = m
                                       /\ k # m => k \in 0 .. m - 1
    BY <2>2
  <2>5. h[0] = v
    BY <2>1, <2>4, Zenon
  <2>6. ASSUME NEW k \in 0 .. (m + 1) - 1 PROVE h[k + 1] = step[k][h[k]]
    <3>1. h[k] = g[k]
      BY <2>4, Zenon
    <3>2. CASE k = m
      BY <2>4, <3>1, <3>2, Zenon
    <3>3. CASE k # m
      BY <2>1, <2>4, <3>1, <3>3, Zenon
    <3> QED
      BY <3>2, <3>3, Zenon
  <2> HIDE DEF h
  <2>7. Up(m + 1, h)
    BY <2>5, <2>6, Zenon
  <2> HIDE DEF Up
  <2>8. m + 1 \in Nat
    BY <2>2
  <2> QED
    BY <2>3, <2>7, <2>8, Zenon
<1> HIDE DEF S
<1>3. n \in S
  <2>1. 0 .. n \subseteq S
    BY <1>1, <1>2, InductionTo, Zenon
  <2>2. n \in 0 .. n
    OBVIOUS
  <2> QED
    BY <2>1, <2>2, Zenon
<1> QED
  BY <1>3, Zenon DEF S, Iterates

-----------------------------------------------------------------------------
(* allGatherv *)

\* g joins the first n vectors of xs, one after the other
Joins(g, xs, n) == g[0] = <<>> /\ \A k \in 0 .. n - 1 : g[k + 1] = g[k] \o xs[k]

\* Joined is the value at n of any function that satisfies its recursion.
LEMMA JoinedIs ==
  ASSUME NEW n \in Nat, NEW xs, NEW g, Joins(g, xs, n)
  PROVE  Joined(xs, n) = g[n]
<1>0. g[0] = <<>> /\ \A k \in 0 .. n - 1 : g[k + 1] = g[k] \o xs[k]
  BY Zenon DEF Joins
<1> DEFINE P(f) == f = [k \in 0 .. n |-> IF k = 0 THEN <<>> ELSE f[k - 1] \o xs[k - 1]]
           h == [k \in 0 .. n |-> g[k]]
           all == CHOOSE f : P(f)
<1>1. \A k \in 0 .. n : k # 0 => k - 1 \in 0 .. n - 1 /\ k - 1 \in 0 .. n /\ (k - 1) + 1 = k
  OBVIOUS
<1>2. P(h)
  <2>1. ASSUME NEW k \in 0 .. n PROVE h[k] = IF k = 0 THEN <<>> ELSE h[k - 1] \o xs[k - 1]
    BY <1>0, <1>1, Zenon
  <2> QED
    BY <2>1, Zenon
<1>3. P(all)
  <2> HIDE DEF P, h
  <2> QED
    BY <1>2, Zenon
<1> HIDE DEF h, all
<1>4. 0 .. n \subseteq {k \in 0 .. n : all[k] = g[k]}
  <2> DEFINE S == {k \in 0 .. n : all[k] = g[k]}
  <2>1. 0 \in 0 .. n
    OBVIOUS
  <2>2. 0 \in S
    BY <1>0, <1>3, <2>1, Zenon
  <2>3. ASSUME NEW k \in 0 .. n - 1, k \in S PROVE k + 1 \in S
    <3>1. k + 1 \in 0 .. n /\ k + 1 # 0 /\ (k + 1) - 1 = k
      OBVIOUS
    <3>2. all[k + 1] = IF k + 1 = 0 THEN <<>> ELSE all[(k + 1) - 1] \o xs[(k + 1) - 1]
      BY <1>3, <3>1, Zenon
    <3>3. all[k + 1] = all[k] \o xs[k]
      BY <3>1, <3>2, Zenon
    <3> QED
      BY <1>0, <2>3, <3>1, <3>3, Zenon
  <2> HIDE DEF S
  <2>4. 0 .. n \subseteq S
    BY <2>2, <2>3, InductionTo, Zenon
  <2> QED
    BY <2>4, Zenon DEF S
<1>5. n \in 0 .. n
  OBVIOUS
<1>6. Joined(xs, n) = all[n]
  BY Zenon DEF Joined, all
<1> QED
  BY <1>4, <1>5, <1>6, Zenon

\* Joined adds one rank's vector after the other.
LEMMA JoinedStep ==
  ASSUME NEW N \in Nat, NEW S, NEW xs, \A k \in 0 .. N - 1 : xs[k] \in Seq(S)
  PROVE  /\ Joined(xs, 0) = <<>>
         /\ \A n \in 0 .. N : Joined(xs, n) \in Seq(S)
         /\ \A n \in 0 .. N - 1 : Joined(xs, n + 1) = Joined(xs, n) \o xs[n]
<1> DEFINE V == Seq(S)
           step == [k \in Nat |-> [s \in V |-> IF k \in 0 .. N - 1 THEN s \o xs[k] ELSE s]]
<1>1. <<>> \in V
  OBVIOUS
<1>2. step \in StepsOver(V)
  <2>1. \A s, t \in V : s \o t \in V
    OBVIOUS
  <2> QED
    BY <2>1, Zenon DEF StepsOver
<1>3. \A k \in Nat, s \in V : step[k][s] = IF k \in 0 .. N - 1 THEN s \o xs[k] ELSE s
  BY Zenon
<1> HIDE DEF step, V
<1>4. PICK g \in [0 .. N -> V] : g[0] = <<>> /\ \A k \in 0 .. N - 1 : g[k + 1] = step[k][g[k]]
  <2>1. \E g \in [0 .. N -> V] : Iterates(g, N, <<>>, step)
    BY <1>1, <1>2, RecursionTo, Zenon
  <2> QED
    BY <2>1, Zenon DEF Iterates
<1>5. \A k \in 0 .. N - 1 : k \in Nat /\ k \in 0 .. N /\ k + 1 \in 0 .. N
  OBVIOUS
<1>6. \A k \in 0 .. N - 1 : g[k + 1] = g[k] \o xs[k]
  BY <1>3, <1>4, <1>5, Zenon
<1>7. \A n \in 0 .. N : Joined(xs, n) = g[n]
  <2> SUFFICES ASSUME NEW n \in 0 .. N PROVE Joined(xs, n) = g[n]
    BY Zenon
  <2>1. n \in Nat /\ \A k \in 0 .. n - 1 : k \in 0 .. N - 1
    OBVIOUS
  <2>2. Joins(g, xs, n)
    BY <1>4, <1>6, <2>1, Zenon DEF Joins
  <2> QED
    BY <2>1, <2>2, JoinedIs, Zenon
<1>8. 0 \in 0 .. N
  OBVIOUS
<1>9. \A n \in 0 .. N : Joined(xs, n) \in V
  BY <1>7, Zenon
<1> QED
  BY <1>4, <1>5, <1>6, <1>7, <1>8, <1>9, Zenon DEF V

\* Joined looks at the vectors of the lower ranks only.
LEMMA JoinedSame ==
  ASSUME NEW n \in Nat, NEW S, NEW xs, NEW ys, \A k \in 0 .. n - 1 : xs[k] \in Seq(S),
         \A k \in 0 .. n - 1 : ys[k] = xs[k]
  PROVE  Joined(ys, n) = Joined(xs, n)
<1> DEFINE g == [k \in 0 .. n |-> Joined(xs, k)]
<1>1. /\ Joined(xs, 0) = <<>>
      /\ \A k \in 0 .. n - 1 : Joined(xs, k + 1) = Joined(xs, k) \o xs[k]
  BY JoinedStep, Zenon
<1>2. /\ 0 \in 0 .. n /\ n \in 0 .. n
      /\ \A k \in 0 .. n - 1 : k \in 0 .. n /\ k + 1 \in 0 .. n
  OBVIOUS
<1>3. g[0] = <<>> /\ g[n] = Joined(xs, n)
  BY <1>1, <1>2, Zenon
<1>4. \A k \in 0 .. n - 1 : g[k + 1] = g[k] \o ys[k]
  BY <1>1, <1>2, Zenon
<1> HIDE DEF g
<1>5. Joins(g, ys, n)
  BY <1>3, <1>4, Zenon DEF Joins
<1> QED
  BY <1>3, <1>5, JoinedIs, Zenon

\* The vector joined has elements in S, those of each rank after those of the
\* lower ranks
RankAfterRank(xs, N, S) ==
  /\ Joined(xs, N) \in Seq(S)
  /\ \A r \in 0 .. N - 1 : \A i \in DOMAIN xs[r] :
       /\ Len(Joined(xs, r)) + i \in DOMAIN Joined(xs, N)
       /\ Joined(xs, N)[Len(Joined(xs, r)) + i] = xs[r][i]

\* Where Joined puts the elements of each rank: after those of the lower ranks,
\* whatever ranks follow.
LEMMA JoinedElements ==
  ASSUME NEW N \in Nat, NEW S, NEW xs, \A k \in 0 .. N - 1 : xs[k] \in Seq(S)
  PROVE  RankAfterRank(xs, N, S)
<1>a. Joined(xs, N) \in Seq(S)
  <2>1. N \in 0 .. N
    OBVIOUS
  <2> QED
    BY <2>1, JoinedStep, Zenon
<1> SUFFICES ASSUME NEW r \in 0 .. N - 1, NEW i \in DOMAIN xs[r]
             PROVE  /\ Len(Joined(xs, r)) + i \in DOMAIN Joined(xs, N)
                    /\ Joined(xs, N)[Len(Joined(xs, r)) + i] = xs[r][i]
  BY <1>a, Zenon DEF RankAfterRank
<1> DEFINE at == Len(Joined(xs, r)) + i
           In(n) == at \in DOMAIN Joined(xs, n) /\ Joined(xs, n)[at] = xs[r][i]
           T == {d \in 0 .. N - (r + 1) : In(r + 1 + d)}
<1>0. \A s, t \in Seq(S) : /\ \A j \in DOMAIN s : j \in DOMAIN (s \o t) /\ (s \o t)[j] = s[j]
                           /\ \A j \in DOMAIN t : /\ Len(s) + j \in DOMAIN (s \o t)
                                                  /\ (s \o t)[Len(s) + j] = t[j]
  OBVIOUS
<1>1. r \in 0 .. N /\ r + 1 \in 0 .. N /\ N - (r + 1) \in Nat /\ r + 1 + 0 = r + 1
      /\ 0 \in 0 .. N - (r + 1) /\ r + 1 + (N - (r + 1)) = N /\ N - (r + 1) \in 0 .. N - (r + 1)
  OBVIOUS
<1>2. /\ \A n \in 0 .. N : Joined(xs, n) \in Seq(S)
      /\ \A n \in 0 .. N - 1 : Joined(xs, n + 1) = Joined(xs, n) \o xs[n]
  BY JoinedStep, Zenon
<1>3. In(r + 1)
  <2>1. Joined(xs, r) \in Seq(S) /\ xs[r] \in Seq(S) /\ Joined(xs, r + 1) = Joined(xs, r) \o xs[r]
    BY <1>1, <1>2, Zenon
  <2>2. /\ Len(Joined(xs, r)) + i \in DOMAIN (Joined(xs, r) \o xs[r])
        /\ (Joined(xs, r) \o xs[r])[Len(Joined(xs, r)) + i] = xs[r][i]
    BY <1>0, <2>1, Zenon
  <2> QED
    BY <2>1, <2>2, Zenon
<1> HIDE DEF at
<1>4. 0 \in T
  BY <1>1, <1>3, Zenon
<1>5. ASSUME NEW d \in 0 .. (N - (r + 1)) - 1, d \in T PROVE d + 1 \in T
  <2>1. /\ d + 1 \in 0 .. N - (r + 1) /\ r + 1 + (d + 1) = (r + 1 + d) + 1
        /\ r + 1 + d \in 0 .. N - 1 /\ r + 1 + d \in 0 .. N
    OBVIOUS
  <2>2. Joined(xs, (r + 1 + d) + 1) = Joined(xs, r + 1 + d) \o xs[r + 1 + d]
    BY <1>2, <2>1, Zenon
  <2>3. Joined(xs, r + 1 + d) \in Seq(S) /\ xs[r + 1 + d] \in Seq(S)
    BY <1>2, <2>1, Zenon
  <2>4. In((r + 1 + d) + 1)
    <3>1. at \in DOMAIN Joined(xs, r + 1 + d) /\ Joined(xs, r + 1 + d)[at] = xs[r][i]
      BY <1>5, Zenon
    <3>2. /\ at \in DOMAIN (Joined(xs, r + 1 + d) \o xs[r + 1 + d])
          /\ (Joined(xs, r + 1 + d) \o xs[r + 1 + d])[at] = Joined(xs, r + 1 + d)[at]
      BY <1>0, <2>3, <3>1, Zenon
    <3> QED
      BY <2>2, <3>1, <3>2, Zenon
  <2> QED
    BY <2>1, <2>4, Zenon
<1> HIDE DEF T
<1>6. 0 .. N - (r + 1) \subseteq T
  BY <1>1, <1>4, <1>5, InductionTo, Zenon
<1>7. In(N)
  <2>1. In(r + 1 + (N - (r + 1)))
    BY <1>1, <1>6, Zenon DEF T
  <2> QED
    BY <1>1, <2>1, Zenon
<1> QED
  BY <1>7, Zenon DEF at

-----------------------------------------------------------------------------
(* The loop over the marked elements *)

\* g picks the marked ones of the first n elements of x, one after the other
Picks(g, x, mark, n) ==
  g[0] = <<>> /\ \A k \in 0 .. n - 1 :
    g[k + 1] = IF mark[k + 1] THEN Append(g[k], x[k + 1]) ELSE g[k]

\* Marked is the value at n of any function that satisfies its recursion.
LEMMA MarkedIs ==
  ASSUME NEW n \in Nat, NEW x, NEW mark, NEW g, Picks(g, x, mark, n)
  PROVE  Marked(x, mark, n) = g[n]
<1> DEFINE P(f) == f = [k \in 0 .. n |-> IF k = 0 THEN <<>>
                                         ELSE IF mark[k] THEN Append(f[k - 1], x[k])
                                         ELSE f[k - 1]]
           h == [k \in 0 .. n |-> g[k]]
           xtmp == CHOOSE f : P(f)
<1>0. g[0] = <<>> /\ \A k \in 0 .. n - 1 :
        g[k + 1] = IF mark[k + 1] THEN Append(g[k], x[k + 1]) ELSE g[k]
  BY Zenon DEF Picks
<1>1. \A k \in 0 .. n : k # 0 => k - 1 \in 0 .. n - 1 /\ k - 1 \in 0 .. n /\ (k - 1) + 1 = k
  OBVIOUS
<1>2. P(h)
  <2>1. ASSUME NEW k \in 0 .. n
        PROVE  h[k] = IF k = 0 THEN <<>>
                      ELSE IF mark[k] THEN Append(h[k - 1], x[k]) ELSE h[k - 1]
    <3>1. CASE k = 0
      <4>1. h[k] = g[k]
        BY Zenon
      <4> HIDE DEF h
      <4> QED
        BY <1>0, <3>1, <4>1, Zenon
    <3>2. CASE k # 0
      <4>1. g[(k - 1) + 1] = IF mark[(k - 1) + 1] THEN Append(g[k - 1], x[(k - 1) + 1])
                             ELSE g[k - 1]
        BY <1>0, <1>1, <3>2, Zenon
      <4>2. h[k] = g[k] /\ h[k - 1] = g[k - 1] /\ (k - 1) + 1 = k
        BY <1>1, <3>2, Zenon
      <4> HIDE DEF h
      <4> QED
        BY <3>2, <4>1, <4>2, Zenon
    <3> QED
      BY <3>1, <3>2, Zenon
  <2> QED
    BY <2>1, Zenon
<1>3. P(xtmp)
  <2> HIDE DEF P, h
  <2> QED
    BY <1>2, Zenon
<1> HIDE DEF h, xtmp
<1>4. 0 .. n \subseteq {k \in 0 .. n : xtmp[k] = g[k]}
  <2> DEFINE S == {k \in 0 .. n : xtmp[k] = g[k]}
  <2>1. 0 \in 0 .. n
    OBVIOUS
  <2>2. 0 \in S
    BY <1>0, <1>3, <2>1, Zenon
  <2>3. ASSUME NEW k \in 0 .. n - 1, k \in S PROVE k + 1 \in S
    <3>1. k + 1 \in 0 .. n /\ k + 1 # 0 /\ (k + 1) - 1 = k
      OBVIOUS
    <3>2. xtmp[k + 1] = IF k + 1 = 0 THEN <<>>
                        ELSE IF mark[k + 1] THEN Append(xtmp[(k + 1) - 1], x[k + 1])
                        ELSE xtmp[(k + 1) - 1]
      BY <1>3, <3>1, Zenon
    <3>3. xtmp[k + 1] = IF mark[k + 1] THEN Append(xtmp[k], x[k + 1]) ELSE xtmp[k]
      BY <3>1, <3>2, Zenon
    <3>4. xtmp[k] = g[k]
      BY <2>3, Zenon
    <3>5. g[k + 1] = IF mark[k + 1] THEN Append(g[k], x[k + 1]) ELSE g[k]
      BY <1>0, Zenon
    <3>6. xtmp[k + 1] = g[k + 1]
      BY <3>3, <3>4, <3>5
    <3> QED
      BY <3>1, <3>6, Zenon
  <2> HIDE DEF S
  <2>4. 0 .. n \subseteq S
    BY <2>2, <2>3, InductionTo, Zenon
  <2> QED
    BY <2>4, Zenon DEF S
<1>5. n \in 0 .. n
  OBVIOUS
<1>6. Marked(x, mark, n) = xtmp[n]
  BY Zenon DEF Marked, xtmp
<1> QED
  BY <1>4, <1>5, <1>6, Zenon

\* The marked positions among the first n
MarkedUpTo(mark, n) == {i \in 1 .. n : mark[i]}

\* The first n elements of x are in S
ElementsIn(x, n, S) == \A k \in 1 .. n : x[k] \in S

\* Marked appends an element of x exactly when its position is marked
StepByStep(x, mark, N, S) ==
  /\ Marked(x, mark, 0) = <<>>
  /\ \A n \in 0 .. N : Marked(x, mark, n) \in Seq(S)
  /\ \A n \in 0 .. N - 1 :
       /\ n + 1 \in MarkedUpTo(mark, n + 1) =>
            Marked(x, mark, n + 1) = Append(Marked(x, mark, n), x[n + 1])
       /\ n + 1 \notin MarkedUpTo(mark, n + 1) => Marked(x, mark, n + 1) = Marked(x, mark, n)

\* Marked looks at one element after the other.
LEMMA MarkedStep ==
  ASSUME NEW N \in Nat, NEW S, NEW x, NEW mark, ElementsIn(x, N, S)
  PROVE  StepByStep(x, mark, N, S)
<1> DEFINE V == Seq(S)
           step == [k \in Nat |-> [s \in V |-> IF k \in 0 .. N - 1 /\ mark[k + 1]
                                               THEN Append(s, x[k + 1]) ELSE s]]
<1>1. <<>> \in V
  OBVIOUS
<1>2. step \in StepsOver(V)
  <2>1. \A s \in V, a \in S : Append(s, a) \in V
    OBVIOUS
  <2>2. \A k \in 0 .. N - 1 : k + 1 \in 1 .. N
    OBVIOUS
  <2>3. \A k \in 0 .. N - 1 : x[k + 1] \in S
    BY <2>2, Zenon DEF ElementsIn
  <2> QED
    BY <2>1, <2>3, Zenon DEF StepsOver
<1>3. \A k \in Nat, s \in V : step[k][s] = IF k \in 0 .. N - 1 /\ mark[k + 1]
                                           THEN Append(s, x[k + 1]) ELSE s
  BY Zenon
<1> HIDE DEF step, V
<1>4. PICK g \in [0 .. N -> V] : g[0] = <<>> /\ \A k \in 0 .. N - 1 : g[k + 1] = step[k][g[k]]
  <2>1. \E g \in [0 .. N -> V] : Iterates(g, N, <<>>, step)
    BY <1>1, <1>2, RecursionTo, Zenon
  <2> QED
    BY <2>1, Zenon DEF Iterates
<1>5. \A k \in 0 .. N - 1 : k \in Nat /\ k \in 0 .. N /\ k + 1 \in 0 .. N
  OBVIOUS
<1>6. \A k \in 0 .. N - 1 :
        g[k + 1] = IF mark[k + 1] THEN Append(g[k], x[k + 1]) ELSE g[k]
  <2> SUFFICES ASSUME NEW k \in 0 .. N - 1
               PROVE  g[k + 1] = IF mark[k + 1] THEN Append(g[k], x[k + 1]) ELSE g[k]
    BY Zenon
  <2>1. g[k + 1] = step[k][g[k]] /\ k \in Nat /\ g[k] \in V
    BY <1>4, <1>5, Zenon
  <2>2. step[k][g[k]] = IF k \in 0 .. N - 1 /\ mark[k + 1] THEN Append(g[k], x[k + 1]) ELSE g[k]
    BY <1>3, <2>1, Zenon
  <2> QED
    BY <2>1, <2>2, Zenon
<1>7. \A n \in 0 .. N : Marked(x, mark, n) = g[n]
  <2> SUFFICES ASSUME NEW n \in 0 .. N PROVE Marked(x, mark, n) = g[n]
    BY Zenon
  <2>1. n \in Nat /\ \A k \in 0 .. n - 1 : k \in 0 .. N - 1
    OBVIOUS
  <2>2. Picks(g, x, mark, n)
    BY <1>4, <1>6, <2>1, Zenon DEF Picks
  <2> QED
    BY <2>1, <2>2, MarkedIs, Zenon
<1>8. 0 \in 0 .. N
  OBVIOUS
<1>9. \A n \in 0 .. N : Marked(x, mark, n) \in V
  BY <1>7, Zenon
<1>10. \A n \in 0 .. N - 1 :
         /\ n + 1 \in MarkedUpTo(mark, n + 1) =>
              Marked(x, mark, n + 1) = Append(Marked(x, mark, n), x[n + 1])
         /\ n + 1 \notin MarkedUpTo(mark, n + 1) => Marked(x, mark, n + 1) = Marked(x, mark, n)
  <2> SUFFICES ASSUME NEW n \in 0 .. N - 1
               PROVE  /\ n + 1 \in MarkedUpTo(mark, n + 1) =>
                           Marked(x, mark, n + 1) = Append(Marked(x, mark, n), x[n + 1])
                      /\ n + 1 \notin MarkedUpTo(mark, n + 1) =>
                           Marked(x, mark, n + 1) = Marked(x, mark, n)
    BY Zenon
  <2>1. Marked(x, mark, n + 1) = g[n + 1] /\ Marked(x, mark, n) = g[n]
    BY <1>5, <1>7, Zenon
  <2>2. n + 1 \in 1 .. n + 1
    OBVIOUS
  <2>3. n + 1 \in MarkedUpTo(mark, n + 1) => g[n + 1] = Append(g[n], x[n + 1])
    BY <1>6, <2>2, Zenon DEF MarkedUpTo
  <2>4. n + 1 \notin MarkedUpTo(mark, n + 1) => g[n + 1] = g[n]
    BY <1>6, <2>2, Zenon DEF MarkedUpTo
  <2> QED
    BY <2>1, <2>3, <2>4, Zenon
<1> QED
  BY <1>4, <1>7, <1>8, <1>9, <1>10, Zenon DEF V, StepByStep

\* One position more, and at most one marked position more.
LEMMA MarkedUpToStep ==
  ASSUME NEW mark, NEW n \in Nat
  PROVE  /\ MarkedUpTo(mark, 0) = {}
         /\ IsFiniteSet(MarkedUpTo(mark, n))
         /\ Cardinality(MarkedUpTo(mark, n)) \in Nat
         /\ n + 1 \in MarkedUpTo(mark, n + 1) =>
              Cardinality(MarkedUpTo(mark, n + 1)) = Cardinality(MarkedUpTo(mark, n)) + 1
         /\ n + 1 \notin MarkedUpTo(mark, n + 1) => MarkedUpTo(mark, n + 1) = MarkedUpTo(mark, n)
<1>1. 1 .. 0 = {} /\ 1 .. n + 1 = (1 .. n) \cup {n + 1} /\ n + 1 \notin 1 .. n
  OBVIOUS
<1>2. MarkedUpTo(mark, 0) = {}
  BY <1>1, Zenon DEF MarkedUpTo
<1>3. IsFiniteSet(1 .. n)
  BY FS_Interval
<1>4. IsFiniteSet(MarkedUpTo(mark, n))
  <2>1. MarkedUpTo(mark, n) \subseteq 1 .. n
    BY Zenon DEF MarkedUpTo
  <2> QED
    BY <1>3, <2>1, FS_Subset, Zenon
<1>5. Cardinality(MarkedUpTo(mark, n)) \in Nat
  BY <1>4, FS_CardinalityType, Zenon
<1>6. ASSUME n + 1 \in MarkedUpTo(mark, n + 1)
      PROVE  Cardinality(MarkedUpTo(mark, n + 1)) = Cardinality(MarkedUpTo(mark, n)) + 1
  <2>1. MarkedUpTo(mark, n + 1) = MarkedUpTo(mark, n) \cup {n + 1}
    BY <1>1, <1>6, Zenon DEF MarkedUpTo
  <2>2. n + 1 \notin MarkedUpTo(mark, n)
    BY <1>1, Zenon DEF MarkedUpTo
  <2>3. Cardinality(MarkedUpTo(mark, n) \cup {n + 1}) = Cardinality(MarkedUpTo(mark, n)) + 1
    BY <1>4, <2>2, FS_AddElement, Zenon
  <2> QED
    BY <2>1, <2>3, Zenon
<1>7. ASSUME n + 1 \notin MarkedUpTo(mark, n + 1)
      PROVE  MarkedUpTo(mark, n + 1) = MarkedUpTo(mark, n)
  BY <1>1, <1>7, Zenon DEF MarkedUpTo
<1> QED
  BY <1>2, <1>4, <1>5, <1>6, <1>7, Zenon

\* The vector of the marked elements has elements in S, one for each marked
\* position, and a marked element comes after the marked ones before it
MarkAfterMark(x, mark, N, S) ==
  /\ Marked(x, mark, N) \in Seq(S)
  /\ Len(Marked(x, mark, N)) = Cardinality(MarkedUpTo(mark, N))
  /\ \A j \in MarkedUpTo(mark, N) :
       /\ Cardinality(MarkedUpTo(mark, j)) \in DOMAIN Marked(x, mark, N)
       /\ Marked(x, mark, N)[Cardinality(MarkedUpTo(mark, j))] = x[j]

\* Where Marked puts a marked element: after the marked elements before it, so
\* the vector has one element for each marked position.
LEMMA MarkedElements ==
  ASSUME NEW N \in Nat, NEW S, NEW x, NEW mark, ElementsIn(x, N, S)
  PROVE  MarkAfterMark(x, mark, N, S)
<1> DEFINE M(n) == Marked(x, mark, n)
           C(n) == Cardinality(MarkedUpTo(mark, n))
           In(n) == \A j \in MarkedUpTo(mark, n) : C(j) \in DOMAIN M(n) /\ M(n)[C(j)] = x[j]
           T == {n \in 0 .. N : Len(M(n)) = C(n) /\ In(n)}
<1>0. \A s \in Seq(S), a \in S :
        /\ Append(s, a) \in Seq(S) /\ Len(Append(s, a)) = Len(s) + 1
        /\ \A j \in DOMAIN s : j \in DOMAIN Append(s, a) /\ Append(s, a)[j] = s[j]
        /\ Len(s) + 1 \in DOMAIN Append(s, a) /\ Append(s, a)[Len(s) + 1] = a
  OBVIOUS
<1>1. /\ M(0) = <<>>
      /\ \A n \in 0 .. N : M(n) \in Seq(S)
      /\ \A n \in 0 .. N - 1 :
           /\ n + 1 \in MarkedUpTo(mark, n + 1) => M(n + 1) = Append(M(n), x[n + 1])
           /\ n + 1 \notin MarkedUpTo(mark, n + 1) => M(n + 1) = M(n)
  <2>1. StepByStep(x, mark, N, S)
    BY MarkedStep, Zenon
  <2> QED
    BY <2>1, Zenon DEF StepByStep
<1>2. /\ MarkedUpTo(mark, 0) = {}
      /\ \A n \in Nat :
           /\ C(n) \in Nat
           /\ n + 1 \in MarkedUpTo(mark, n + 1) => C(n + 1) = C(n) + 1
           /\ n + 1 \notin MarkedUpTo(mark, n + 1) => MarkedUpTo(mark, n + 1) = MarkedUpTo(mark, n)
  BY MarkedUpToStep, Zenon
<1>3. C(0) = 0 /\ Len(<<>>) = 0
  BY <1>2, FS_EmptySet
<1> HIDE DEF M, C
<1>4. 0 \in T
  <2>1. 0 \in 0 .. N
    OBVIOUS
  <2> QED
    BY <1>1, <1>2, <1>3, <2>1, Zenon
<1>5. ASSUME NEW n \in 0 .. N - 1, n \in T PROVE n + 1 \in T
  <2>1. n + 1 \in 0 .. N /\ n \in 0 .. N /\ n \in Nat /\ n + 1 \in 1 .. N
    OBVIOUS
  <2>2. M(n) \in Seq(S) /\ x[n + 1] \in S /\ Len(M(n)) = C(n) /\ In(n)
    BY <1>1, <1>5, <2>1, Zenon DEF ElementsIn
  <2>3. \A j \in MarkedUpTo(mark, n + 1) : j \in MarkedUpTo(mark, n) \/ j = n + 1
    <3>1. \A j \in 1 .. n + 1 : j \in 1 .. n \/ j = n + 1
      BY <2>1
    <3> QED
      BY <3>1, Zenon DEF MarkedUpTo
  <2>4. CASE n + 1 \in MarkedUpTo(mark, n + 1)
    <3>1. M(n + 1) = Append(M(n), x[n + 1]) /\ C(n + 1) = C(n) + 1
      BY <1>1, <1>2, <2>1, <2>4, Zenon
    <3>2. Len(M(n + 1)) = C(n + 1)
      BY <1>0, <2>2, <3>1, Zenon
    <3>3. ASSUME NEW j \in MarkedUpTo(mark, n)
          PROVE  C(j) \in DOMAIN M(n + 1) /\ M(n + 1)[C(j)] = x[j]
      <4>1. C(j) \in DOMAIN M(n) /\ M(n)[C(j)] = x[j]
        BY <2>2, Zenon
      <4>2. C(j) \in DOMAIN Append(M(n), x[n + 1]) /\ Append(M(n), x[n + 1])[C(j)] = M(n)[C(j)]
        BY <1>0, <2>2, <4>1, Zenon
      <4> QED
        BY <3>1, <4>1, <4>2, Zenon
    <3>4. C(n + 1) \in DOMAIN M(n + 1) /\ M(n + 1)[C(n + 1)] = x[n + 1]
      <4>1. /\ Len(M(n)) + 1 \in DOMAIN Append(M(n), x[n + 1])
            /\ Append(M(n), x[n + 1])[Len(M(n)) + 1] = x[n + 1]
        BY <1>0, <2>2, Zenon
      <4>2. C(n + 1) = Len(M(n)) + 1
        BY <2>2, <3>1, Zenon
      <4> QED
        BY <3>1, <4>1, <4>2, Zenon
    <3> QED
      BY <2>1, <2>3, <3>2, <3>3, <3>4, Zenon
  <2>5. CASE n + 1 \notin MarkedUpTo(mark, n + 1)
    <3>1. M(n + 1) = M(n) /\ MarkedUpTo(mark, n + 1) = MarkedUpTo(mark, n)
      BY <1>1, <1>2, <2>1, <2>5, Zenon
    <3>2. C(n + 1) = C(n)
      BY <3>1, Zenon DEF C
    <3> QED
      BY <2>1, <2>2, <3>1, <3>2, Zenon
  <2> QED
    BY <2>4, <2>5, Zenon
<1>6. N \in T
  <2> HIDE DEF T
  <2>1. 0 .. N \subseteq T
    BY <1>4, <1>5, InductionTo, Zenon
  <2>2. N \in 0 .. N
    OBVIOUS
  <2> QED
    BY <2>1, <2>2, Zenon
<1>7. M(N) \in Seq(S)
  <2>1. N \in 0 .. N
    OBVIOUS
  <2> QED
    BY <1>1, <2>1, Zenon
<1> QED
  BY <1>6, <1>7, Zenon DEF M, C, MarkAfterMark

-----------------------------------------------------------------------------
(* exclusiveScan *)

\* g adds up the first n contributions, one after the other
AddsUp(g, x, n) == g[0] = 0 /\ \A k \in 0 .. n - 1 : g[k + 1] = g[k] + x[k]

\* SumBelow is the value at n of any function that satisfies its recursion.
LEMMA SumBelowIs ==
  ASSUME NEW n \in Nat, NEW x, NEW g, AddsUp(g, x, n)
  PROVE  SumBelow(x, n) = g[n]
<1> DEFINE P(f) == f = [k \in 0 .. n |-> IF k = 0 THEN 0 ELSE f[k - 1] + x[k - 1]]
           h == [k \in 0 .. n |-> g[k]]
           sum == CHOOSE f : P(f)
<1>0. g[0] = 0 /\ \A k \in 0 .. n - 1 : g[k + 1] = g[k] + x[k]
  BY Zenon DEF AddsUp
<1>1. \A k \in 0 .. n : k # 0 => k - 1 \in 0 .. n - 1 /\ k - 1 \in 0 .. n /\ (k - 1) + 1 = k
  OBVIOUS
<1>2. P(h)
  <2>1. ASSUME NEW k \in 0 .. n PROVE h[k] = IF k = 0 THEN 0 ELSE h[k - 1] + x[k - 1]
    BY <1>0, <1>1, Zenon
  <2> QED
    BY <2>1, Zenon
<1>3. P(sum)
  <2> HIDE DEF P, h
  <2> QED
    BY <1>2, Zenon
<1> HIDE DEF h, sum
<1>4. 0 .. n \subseteq {k \in 0 .. n : sum[k] = g[k]}
  <2> DEFINE S == {k \in 0 .. n : sum[k] = g[k]}
  <2>1. 0 \in 0 .. n
    OBVIOUS
  <2>2. 0 \in S
    BY <1>0, <1>3, <2>1, Zenon
  <2>3. ASSUME NEW k \in 0 .. n - 1, k \in S PROVE k + 1 \in S
    <3>1. k + 1 \in 0 .. n /\ k + 1 # 0 /\ (k + 1) - 1 = k
      OBVIOUS
    <3>2. sum[k + 1] = IF k + 1 = 0 THEN 0 ELSE sum[(k + 1) - 1] + x[(k + 1) - 1]
      BY <1>3, <3>1, Zenon
    <3>3. sum[k + 1] = sum[k] + x[k]
      BY <3>1, <3>2, Zenon
    <3> QED
      BY <1>0, <2>3, <3>1, <3>3, Zenon
  <2> HIDE DEF S
  <2>4. 0 .. n \subseteq S
    BY <2>2, <2>3, InductionTo, Zenon
  <2> QED
    BY <2>4, Zenon DEF S
<1>5. n \in 0 .. n
  OBVIOUS
<1>6. SumBelow(x, n) = sum[n]
  BY Zenon DEF SumBelow, sum
<1> QED
  BY <1>4, <1>5, <1>6, Zenon

\* The scan of the lengths of the vectors is the place in the gathered vector
\* where the elements of each rank begin.
LEMMA SumOfLengths ==
  ASSUME NEW n \in Nat, NEW S, NEW xs, \A k \in 0 .. n - 1 : xs[k] \in Seq(S),
         NEW x, \A k \in 0 .. n - 1 : x[k] = Len(xs[k])
  PROVE  SumBelow(x, n) = Len(Joined(xs, n))
<1> DEFINE g == [k \in 0 .. n |-> Len(Joined(xs, k))]
<1>1. /\ Joined(xs, 0) = <<>>
      /\ \A k \in 0 .. n : Joined(xs, k) \in Seq(S)
      /\ \A k \in 0 .. n - 1 : Joined(xs, k + 1) = Joined(xs, k) \o xs[k]
  BY JoinedStep, Zenon
<1>2. /\ n \in 0 .. n /\ 0 \in 0 .. n /\ Len(<<>>) = 0
      /\ \A k \in 0 .. n - 1 : k \in 0 .. n /\ k + 1 \in 0 .. n
  OBVIOUS
<1>3. \A s, t \in Seq(S) : Len(s \o t) = Len(s) + Len(t)
  OBVIOUS
<1>4. g[0] = 0
  BY <1>1, <1>2, Zenon
<1>5. ASSUME NEW k \in 0 .. n - 1 PROVE g[k + 1] = g[k] + x[k]
  <2>1. g[k + 1] = Len(Joined(xs, k) \o xs[k]) /\ g[k] = Len(Joined(xs, k)) /\ x[k] = Len(xs[k])
    BY <1>1, <1>2, Zenon
  <2>2. Len(Joined(xs, k) \o xs[k]) = Len(Joined(xs, k)) + Len(xs[k])
    BY <1>1, <1>2, <1>3, Zenon
  <2> HIDE DEF g
  <2> QED
    BY <2>1, <2>2, Zenon
<1>6. g[n] = Len(Joined(xs, n))
  BY <1>2, Zenon
<1> HIDE DEF g
<1>7. AddsUp(g, x, n)
  BY <1>4, <1>5, Zenon DEF AddsUp
<1> QED
  BY <1>2, <1>6, <1>7, SumBelowIs, Zenon

-----------------------------------------------------------------------------
(* Counting *)

\* x lists the members of S, each once
Enumerates(x, I, S) ==
  /\ \A i \in I : x[i] \in S
  /\ \A s \in S : \E i \in I : x[i] = s
  /\ \A i, j \in I : x[i] = x[j] => i = j

\* Counting the positions that an injective vector is read at counts the values
\* that are found there.
LEMMA ImageCardinality ==
  ASSUME NEW I, IsFiniteSet(I), NEW x, NEW S, Enumerates(x, I, S)
  PROVE  IsFiniteSet(S) /\ Cardinality(S) = Cardinality(I)
<1> DEFINE f == [i \in I |-> x[i]]
<1>1. f \in Bijection(I, S)
  BY Zenon DEF Enumerates, Bijection, Injection, Surjection, IsInjective
<1> HIDE DEF f
<1>2. ExistsBijection(I, S)
  BY <1>1, Zenon DEF ExistsBijection
<1> QED
  BY <1>2, FS_Bijection, Zenon

\* Every member of U is among the first n elements of g
Covers(g, n, U) == \A u \in U : \E k \in 1 .. n : g[k] = u

\* The first n elements of g are members of U, no two the same
OneToOne(g, n, U) ==
  /\ \A k \in 1 .. n : g[k] \in U
  /\ \A i, j \in 1 .. n : g[i] = g[j] => i = j

\* A vector that has as many elements as a set has members, and in which each
\* member is found, has each member once and nothing else.
LEMMA OnceEach ==
  ASSUME NEW U, IsFiniteSet(U), NEW n \in Nat, n = Cardinality(U), NEW g, Covers(g, n, U)
  PROVE  OneToOne(g, n, U)
<1> DEFINE K == [u \in U |-> CHOOSE k \in 1 .. n : g[k] = u]
           I == 1 .. n
<1>1. \A u \in U : K[u] \in I /\ g[K[u]] = u
  BY Zenon DEF Covers
<1>2. K \in [U -> I]
  BY <1>1, Zenon
<1>3. IsFiniteSet(I) /\ Cardinality(I) = n
  <2>1. IsFiniteSet(1 .. n) /\ Cardinality(1 .. n) = IF 1 > n THEN 0 ELSE n - 1 + 1
    BY FS_Interval, n \in Int, 1 \in Int
  <2> QED
    BY <2>1
<1> HIDE DEF K, I
<1>4. K \in Injection(U, I)
  <2>1. DOMAIN K = U
    BY <1>2, Zenon
  <2>2. \A u, v \in U : K[u] = K[v] => u = v
    BY <1>1, Zenon
  <2> QED
    BY <1>2, <2>1, <2>2, Zenon DEF Injection, IsInjective
<1>5. K \in Surjection(U, I)
  BY <1>3, <1>4, FS_Injection, Zenon
<1>6. \A k \in I : \E u \in U : K[u] = k
  BY <1>5, Zenon DEF Surjection
<1>7. \A k \in I : g[k] \in U /\ K[g[k]] = k
  BY <1>1, <1>6, Zenon
<1>8. \A i, j \in I : g[i] = g[j] => i = j
  BY <1>7, Zenon
<1> QED
  BY <1>7, <1>8, Zenon DEF I, OneToOne

-----------------------------------------------------------------------------
(* Sums *)

\* The first N contributions are natural numbers
Counts(x, N) == \A k \in 0 .. N - 1 : x[k] \in Nat

\* SumBelow adds one contribution after the other.
LEMMA SumBelowStep ==
  ASSUME NEW N \in Nat, NEW x, Counts(x, N)
  PROVE  /\ SumBelow(x, 0) = 0
         /\ \A n \in 0 .. N : SumBelow(x, n) \in Nat
         /\ \A n \in 0 .. N - 1 : SumBelow(x, n + 1) = SumBelow(x, n) + x[n]
<1> DEFINE V == Nat
           step == [k \in Nat |-> [s \in V |-> IF k \in 0 .. N - 1 THEN s + x[k] ELSE s]]
<1>1. 0 \in V
  OBVIOUS
<1>2. step \in StepsOver(V)
  <2>1. \A s, t \in V : s + t \in V
    OBVIOUS
  <2>2. \A k \in 0 .. N - 1 : x[k] \in V
    BY Zenon DEF Counts
  <2> QED
    BY <2>1, <2>2, Zenon DEF StepsOver
<1>3. \A k \in Nat, s \in V : step[k][s] = IF k \in 0 .. N - 1 THEN s + x[k] ELSE s
  BY Zenon
<1> HIDE DEF step, V
<1>4. PICK g \in [0 .. N -> V] : g[0] = 0 /\ \A k \in 0 .. N - 1 : g[k + 1] = step[k][g[k]]
  <2>1. \E g \in [0 .. N -> V] : Iterates(g, N, 0, step)
    BY <1>1, <1>2, RecursionTo, Zenon
  <2> QED
    BY <2>1, Zenon DEF Iterates
<1>5. \A k \in 0 .. N - 1 : k \in Nat /\ k \in 0 .. N /\ k + 1 \in 0 .. N
  OBVIOUS
<1>6. \A k \in 0 .. N - 1 : g[k + 1] = g[k] + x[k]
  BY <1>3, <1>4, <1>5, Zenon
<1>7. \A n \in 0 .. N : SumBelow(x, n) = g[n]
  <2> SUFFICES ASSUME NEW n \in 0 .. N PROVE SumBelow(x, n) = g[n]
    BY Zenon
  <2>1. n \in Nat /\ \A k \in 0 .. n - 1 : k \in 0 .. N - 1
    OBVIOUS
  <2>2. AddsUp(g, x, n)
    BY <1>4, <1>6, <2>1, Zenon DEF AddsUp
  <2> QED
    BY <2>1, <2>2, SumBelowIs, Zenon
<1>8. 0 \in 0 .. N
  OBVIOUS
<1>9. \A n \in 0 .. N : SumBelow(x, n) \in V
  BY <1>7, Zenon
<1> QED
  BY <1>4, <1>5, <1>6, <1>7, <1>8, <1>9, Zenon DEF V

\* y has the m contributions of x that start at a
Segment(x, a, m, y) == \A j \in 0 .. m - 1 : y[j] = x[a + j]

\* The sum over a segment is what it adds to the sum before it.
LEMMA SumSegment ==
  ASSUME NEW N \in Nat, NEW x, Counts(x, N), NEW a \in Nat, NEW m \in Nat, a + m <= N,
         NEW y, Segment(x, a, m, y)
  PROVE  SumBelow(x, a + m) = SumBelow(x, a) + SumBelow(y, m)
<1> DEFINE S(k) == SumBelow(x, k)
           g == [k \in 0 .. m |-> S(a + k) - S(a)]
<1>1. /\ \A k \in 0 .. N : S(k) \in Nat
      /\ \A k \in 0 .. N - 1 : S(k + 1) = S(k) + x[k]
  BY SumBelowStep, Zenon
<1>2. /\ 0 \in 0 .. m /\ m \in 0 .. m /\ a \in 0 .. N /\ a + m \in 0 .. N /\ a + 0 = a
      /\ \A k \in 0 .. m - 1 : k \in 0 .. m /\ k + 1 \in 0 .. m /\ a + k \in 0 .. N - 1
                               /\ a + k \in 0 .. N /\ a + (k + 1) = (a + k) + 1
  OBVIOUS
<1> HIDE DEF S
<1>3. g[0] = S(a) - S(a) /\ g[m] = S(a + m) - S(a)
  BY <1>2, Zenon
<1>4. ASSUME NEW k \in 0 .. m - 1 PROVE g[k + 1] = g[k] + y[k]
  <2>1. g[k + 1] = S((a + k) + 1) - S(a) /\ g[k] = S(a + k) - S(a)
    BY <1>2, Zenon
  <2>2. S((a + k) + 1) = S(a + k) + x[a + k] /\ y[k] = x[a + k] /\ x[a + k] \in Nat
    BY <1>1, <1>2, Zenon DEF Counts, Segment
  <2>3. S(a) \in Nat /\ S(a + k) \in Nat
    BY <1>1, <1>2, Zenon
  <2> HIDE DEF g
  <2> QED
    BY <2>1, <2>2, <2>3
<1> HIDE DEF g
<1>5. S(a) \in Nat /\ S(a + m) \in Nat
  BY <1>1, <1>2, Zenon
<1>6. g[0] = 0
  BY <1>3, <1>5
<1>7. AddsUp(g, y, m)
  BY <1>4, <1>6, Zenon DEF AddsUp
<1>8. SumBelow(y, m) = g[m]
  BY <1>7, SumBelowIs, Zenon
<1>9. S(a + m) = S(a) + SumBelow(y, m)
  BY <1>3, <1>5, <1>8
<1> QED
  BY <1>9, Zenon DEF S

\* SumBelow looks at the contributions of the lower ranks only.
LEMMA SumSame ==
  ASSUME NEW m \in Nat, NEW x, Counts(x, m), NEW y, \A j \in 0 .. m - 1 : y[j] = x[j]
  PROVE  SumBelow(y, m) = SumBelow(x, m)
<1> DEFINE g == [k \in 0 .. m |-> SumBelow(x, k)]
<1>1. /\ SumBelow(x, 0) = 0
      /\ \A k \in 0 .. m - 1 : SumBelow(x, k + 1) = SumBelow(x, k) + x[k]
  BY SumBelowStep, Zenon
<1>2. /\ 0 \in 0 .. m /\ m \in 0 .. m
      /\ \A k \in 0 .. m - 1 : k \in 0 .. m /\ k + 1 \in 0 .. m
  OBVIOUS
<1>3. g[0] = 0 /\ g[m] = SumBelow(x, m)
  BY <1>1, <1>2, Zenon
<1>4. \A k \in 0 .. m - 1 : g[k + 1] = g[k] + y[k]
  BY <1>1, <1>2, Zenon
<1> HIDE DEF g
<1>5. AddsUp(g, y, m)
  BY <1>3, <1>4, Zenon DEF AddsUp
<1> QED
  BY <1>3, <1>5, SumBelowIs, Zenon

\* Sums do not decrease as more ranks contribute.
LEMMA SumOrder ==
  ASSUME NEW N \in Nat, NEW x, Counts(x, N), NEW a \in 0 .. N, NEW b \in 0 .. N, a <= b
  PROVE  SumBelow(x, a) <= SumBelow(x, b)
<1> DEFINE y == [j \in 0 .. (b - a) - 1 |-> x[a + j]]
           m == b - a
<1>1. a \in Nat /\ m \in Nat /\ a + m <= N /\ a + m = b
  OBVIOUS
<1>2. \A j \in 0 .. m - 1 : y[j] = x[a + j] /\ a + j \in 0 .. N - 1
  OBVIOUS
<1>3. Counts(y, m) /\ Segment(x, a, m, y)
  BY <1>2, Zenon DEF Counts, Segment
<1> HIDE DEF y, m
<1>4. SumBelow(x, a + m) = SumBelow(x, a) + SumBelow(y, m)
  BY <1>1, <1>3, SumSegment
<1>5. m \in 0 .. m
  BY <1>1
<1>6. SumBelow(y, m) \in Nat
  BY <1>1, <1>3, <1>5, SumBelowStep, Zenon
<1>7. SumBelow(x, a) \in Nat
  BY SumBelowStep, Zenon
<1>8. SumBelow(x, b) = SumBelow(x, a) + SumBelow(y, m)
  BY <1>1, <1>4, Zenon
<1> QED
  BY <1>6, <1>7, <1>8

\* The sum of f times the contributions is f times their sum.
LEMMA SumScaled ==
  ASSUME NEW m \in Nat, NEW x, Counts(x, m), NEW f \in Nat,
         NEW y, \A j \in 0 .. m - 1 : y[j] = x[j] * f
  PROVE  SumBelow(y, m) = SumBelow(x, m) * f
<1> DEFINE S(k) == SumBelow(x, k)
           g == [k \in 0 .. m |-> S(k) * f]
<1>1. /\ S(0) = 0 /\ \A k \in 0 .. m : S(k) \in Nat
      /\ \A k \in 0 .. m - 1 : S(k + 1) = S(k) + x[k]
  BY SumBelowStep, Zenon
<1>2. /\ 0 \in 0 .. m /\ m \in 0 .. m /\ 0 * f = 0
      /\ \A k \in 0 .. m - 1 : k \in 0 .. m /\ k + 1 \in 0 .. m
  OBVIOUS
<1>3. \A a, b \in Nat : (a + b) * f = a * f + b * f
  OBVIOUS
<1> HIDE DEF S
<1>4. g[0] = 0 /\ g[m] = S(m) * f
  BY <1>1, <1>2, Zenon
<1>5. ASSUME NEW k \in 0 .. m - 1 PROVE g[k + 1] = g[k] + y[k]
  <2>1. g[k + 1] = (S(k) + x[k]) * f /\ g[k] = S(k) * f /\ y[k] = x[k] * f
    BY <1>1, <1>2, Zenon
  <2>2. S(k) \in Nat /\ x[k] \in Nat
    BY <1>1, <1>2, Zenon DEF Counts
  <2>3. (S(k) + x[k]) * f = S(k) * f + x[k] * f
    BY <1>3, <2>2, Zenon
  <2> HIDE DEF g
  <2> QED
    BY <2>1, <2>3, Zenon
<1> HIDE DEF g
<1>6. AddsUp(g, y, m)
  BY <1>4, <1>5, Zenon DEF AddsUp
<1> QED
  BY <1>4, <1>6, SumBelowIs, Zenon DEF S
=============================================================================
