---------------------------- MODULE WriterFileProofs ----------------------------
(***************************************************************************)
(* Proofs about the files that the writer pool writes: the places that the *)
(* assignments give to the values of the ranks, and that each step keeps   *)
(* what the invariant says of the files (FilesInv).                        *)
(***************************************************************************)
EXTENDS WriterPoolProofs

-----------------------------------------------------------------------------
(* The files *)

\* What a step that touches no file may change
Quiet(m, n, s) ==
  /\ varNumber'[s] = varNumber[s]
  /\ Reached(s, "strlen")' => Reached(s, "strlen")
  /\ Posts(m, n, s) /\ Reached(s, "strlen") => (Reached(s, "final")' <=> Reached(s, "final"))

\* Steps that touch no file.
LEMMA FilesStay ==
  ASSUME NEW p, NEW m, NEW n, NEW t, FilesInv(p, m, n, t), disk' = disk, dir' = dir,
         \A s \in Rank : Lead(n, s) = s => Quiet(m, n, s)
  PROVE  FilesInv(p, m, n, t)'
<1>1. \A name \in DOMAIN dir' : dir'[name] \in DOMAIN disk'
  BY Zenon DEF FilesInv
<1>2. ASSUME NEW s \in Rank, Lead(n, s) = s, Reached(s, "strlen")' PROVE Written(p, m, n, s)'
  <2>1. Written(p, m, n, s) /\ varNumber'[s] = varNumber[s]
    BY <1>2, Zenon DEF FilesInv, Quiet
  <2> QED
    BY <2>1, Zenon DEF Written
<1>3. ASSUME NEW s \in Rank, Posts(m, n, s), Reached(s, "strlen")'
      PROVE  IF Reached(s, "final")' THEN Copied(p, m, n, t, s)' ELSE Linked(m, n, t, s)'
  <2>1. Lead(n, s) = s
    BY <1>3, Zenon DEF Posts
  <2>2. Reached(s, "strlen") /\ (Reached(s, "final")' <=> Reached(s, "final"))
    BY <1>3, <2>1, Zenon DEF Quiet
  <2>3. IF Reached(s, "final") THEN Copied(p, m, n, t, s) ELSE Linked(m, n, t, s)
    BY <1>3, <2>2, Zenon DEF FilesInv
  <2>4. (Copied(p, m, n, t, s) => Copied(p, m, n, t, s)') /\ (Linked(m, n, t, s) => Linked(m, n, t, s)')
    BY Zenon DEF Copied, Linked
  <2> QED
    BY <2>2, <2>3, <2>4, Zenon
<1> QED
  BY <1>1, <1>2, <1>3, Zenon DEF FilesInv

FileNames == [flenstr : BOOLEAN, suffixes : Seq(Int)]

\* What is known of the names that uniquifyFileName makes of a name
Unique(name, g, t) ==
  /\ UniquifyFileName(name, TRUE, g, t) \in FileNames
  /\ UniquifyFileName(name, FALSE, g, t) \in FileNames
  /\ UniquifyFileName(name, TRUE, g, t).flenstr = name.flenstr
  /\ UniquifyFileName(name, FALSE, g, t).flenstr = name.flenstr
  /\ UniquifyFileName(name, TRUE, g, t).suffixes # <<>>
  /\ name.suffixes = <<>> => UniquifyFileName(name, TRUE, g, t).suffixes[1] = g
  /\ name.suffixes # <<>> =>
       UniquifyFileName(name, FALSE, g, t).suffixes[1] = name.suffixes[1]

\* uniquifyFileName appends the suffixes: the first one stays, or is the rank in the pool.
LEMMA UniqueName ==
  ASSUME NEW name \in FileNames, NEW g \in Int, NEW t \in Int
  PROVE  Unique(name, g, t)
<1> DEFINE T == IF t >= 0 THEN <<t>> ELSE <<>>
           x == name.suffixes
           a == x \o <<g>> \o T
           b == x \o <<>> \o T
<1>1. x \in Seq(Int) /\ T \in Seq(Int) /\ name.flenstr \in BOOLEAN
  BY DEF FileNames
<1>2. UniquifyFileName(name, TRUE, g, t) = [name EXCEPT !.suffixes = a]
      /\ UniquifyFileName(name, FALSE, g, t) = [name EXCEPT !.suffixes = b]
  BY Zenon DEF UniquifyFileName
<1> HIDE DEF T, x
<1>3. a \in Seq(Int) /\ b \in Seq(Int) /\ a # <<>> /\ (x = <<>> => a[1] = g) /\ (x # <<>> => b[1] = x[1])
  BY <1>1
<1> HIDE DEF a, b
<1>4. ASSUME NEW c \in Seq(Int)
      PROVE  /\ [name EXCEPT !.suffixes = c] \in FileNames
             /\ [name EXCEPT !.suffixes = c].flenstr = name.flenstr
             /\ [name EXCEPT !.suffixes = c].suffixes = c
  BY <1>4 DEF FileNames
<1>5. /\ UniquifyFileName(name, TRUE, g, t) \in FileNames
      /\ UniquifyFileName(name, TRUE, g, t).flenstr = name.flenstr
      /\ UniquifyFileName(name, TRUE, g, t).suffixes = a
  BY <1>2, <1>3, <1>4, Zenon
<1>6. /\ UniquifyFileName(name, FALSE, g, t) \in FileNames
      /\ UniquifyFileName(name, FALSE, g, t).flenstr = name.flenstr
      /\ UniquifyFileName(name, FALSE, g, t).suffixes = b
  BY <1>2, <1>3, <1>4, Zenon
<1> QED
  BY <1>3, <1>5, <1>6, Zenon DEF x, Unique

\* Two ranks of the pool that write files of their own give them different names.
LEMMA NamesDiffer ==
  ASSUME NEW m \in BOOLEAN, NEW n \in 1 .. NRanks, NEW t \in Nat \cup {-1}, NEW r \in Rank, NEW s \in Rank,
         Posts(m, n, r), Posts(m, n, s), r # s
  PROVE  /\ Name(m, n, t, r) # Name(m, n, t, s) /\ CopyName(m, n, t, r) # CopyName(m, n, t, s)
         /\ Name(m, n, t, r) # CopyName(m, n, t, s) /\ File(m, n, r) # File(m, n, s)
         /\ File(m, n, r) = 2 * r /\ File(m, n, s) = 2 * s
<1>1. Lead(n, r) = r /\ Lead(n, s) = s /\ ~Parallel(m, n)
  BY Zenon DEF Posts
<1>2. GroupIn(n, r) # GroupIn(n, s)
  BY <1>1, Zenon DEF Lead
<1>3. m /\ n > 1
  <2>1. GroupIn(n, r) \in 0 .. n - 1 /\ GroupIn(n, s) \in 0 .. n - 1
    BY GroupInIs, Zenon
  <2>2. n \in Int
    OBVIOUS
  <2>3. n > 1
    BY <1>2, <2>1, <2>2
  <2> QED
    BY <1>1, <2>3, Zenon DEF Parallel
<1>4. (m /\ n > 1) = TRUE
  BY <1>3
<1>5. \A u \in Rank : GroupIn(n, u) \in Int
  <2>1. \A u \in Rank : GroupIn(n, u) \in 0 .. n - 1
    BY GroupInIs, Zenon
  <2> QED
    BY <2>1
<1>6. OutputName \in FileNames /\ t \in Int
  BY DEF OutputName, FileNames
<1>7. ASSUME NEW u \in Rank
      PROVE  Name(m, n, t, u) \in FileNames /\ Name(m, n, t, u).suffixes[1] = GroupIn(n, u)
             /\ Name(m, n, t, u).suffixes # <<>>
  <2>1. Name(m, n, t, u) = UniquifyFileName(OutputName, TRUE, GroupIn(n, u), t)
    BY <1>4, Zenon DEF Name
  <2>2. OutputName.suffixes = <<>>
    BY DEF OutputName
  <2>3. /\ UniquifyFileName(OutputName, TRUE, GroupIn(n, u), t) \in FileNames
        /\ UniquifyFileName(OutputName, TRUE, GroupIn(n, u), t).suffixes[1] = GroupIn(n, u)
        /\ UniquifyFileName(OutputName, TRUE, GroupIn(n, u), t).suffixes # <<>>
    <3>1. Unique(OutputName, GroupIn(n, u), t)
      BY <1>5, <1>6, UniqueName, Zenon
    <3> QED
      BY <2>2, <3>1, Zenon DEF Unique
  <2> QED
    BY <2>1, <2>3, Zenon
<1>8. \A u \in Rank : CopyName(m, n, t, u).suffixes[1] = GroupIn(n, u)
  <2> TAKE u \in Rank
  <2>1. Unique(Name(m, n, t, u), GroupIn(n, u), t)
    BY <1>5, <1>6, <1>7, UniqueName, Zenon
  <2> QED
    BY <1>7, <2>1, Zenon DEF CopyName, Unique
<1>9. File(m, n, r) = 2 * r /\ File(m, n, s) = 2 * s
  BY <1>1, Zenon DEF File
<1>10. 2 * r # 2 * s
  BY DEF Rank
<1> QED
  BY <1>2, <1>7, <1>8, <1>9, <1>10, Zenon

\* The length of a variable with f values per location in a file.
LEMMA FileLength ==
  ASSUME NEW p \in Flags, NEW m, NEW n \in 1 .. NRanks, NEW r \in Rank, NEW f \in Nat
  PROVE  /\ FileStart(p, m, n, r, f) \in Nat /\ FileEnd(p, m, n, r, f) \in Nat
         /\ FileStart(p, m, n, r, f) <= FileEnd(p, m, n, r, f)
         /\ (IF Parallel(m, n) THEN Below(p, 1, NRanks)
             ELSE Below(p, 1, GroupEnd(n, r)) - Below(p, 1, r)) * f
            = FileEnd(p, m, n, r, f) - FileStart(p, m, n, r, f)
<1> DEFINE e == GroupEnd(n, r)
<1>1. e \in 0 .. NRanks /\ r \in 0 .. NRanks /\ r <= e /\ NRanks \in 0 .. NRanks /\ 0 \in 0 .. NRanks /\ 1 \in Nat
  <2>1. e \in 1 .. NRanks /\ r < e
    BY GroupFacts, Zenon
  <2> HIDE DEF e
  <2> QED
    BY <2>1, SizesAssumption DEF Rank
<1> HIDE DEF e
<1> DEFINE a == Below(p, 1, r)
           b == Below(p, 1, e)
           c == Below(p, 1, NRanks)
           A == Below(p, f, r)
           B == Below(p, f, e)
           C == Below(p, f, NRanks)
<1>2. a \in Nat /\ b \in Nat /\ c \in Nat /\ A \in Nat /\ B \in Nat /\ C \in Nat
  BY <1>1, BelowStep, Zenon
<1>3. A <= B
  BY <1>1, BelowOrder
<1>4. a * f = A /\ b * f = B /\ c * f = C
  BY <1>1, BelowScaled, Zenon
<1>5. (b - a) * f = B - A
  <2> HIDE DEF a, b, c, A, B, C
  <2> QED
    BY <1>2, <1>4
<1>6. FileStart(p, m, n, r, f) = (IF Parallel(m, n) THEN 0 ELSE A)
      /\ FileEnd(p, m, n, r, f) = IF Parallel(m, n) THEN C ELSE B
  BY Zenon DEF FileStart, FileEnd, e
<1>7. (IF Parallel(m, n) THEN c ELSE b - a) * f = FileEnd(p, m, n, r, f) - FileStart(p, m, n, r, f)
  <2> HIDE DEF a, b, c, A, B, C
  <2> QED
    BY <1>2, <1>4, <1>5, <1>6
<1>8. FileStart(p, m, n, r, f) \in Nat /\ FileEnd(p, m, n, r, f) \in Nat
      /\ FileStart(p, m, n, r, f) <= FileEnd(p, m, n, r, f)
  <2> HIDE DEF a, b, c, A, B, C
  <2> QED
    BY <1>2, <1>3, <1>6
<1> QED
  BY <1>7, <1>8, Zenon DEF a, b, c, e

\* A file as ioWriteGroup creates it has its variables in their full size.
LEMMA EmptyFileShaped ==
  ASSUME NEW p, NEW l, NEW m, NEW n, NEW t, Now(p, l, m, n, t), NEW r \in Rank, Lead(n, r) = r,
         pc[r] = "open"
  PROVE  Shaped(p, m, n, r, EmptyFile(r))
<1>1. Reached(r, "info") /\ Reached(r, "open")
  BY PhaseOrder DEF Reached
<1>2. Computed(p, l, n, r) /\ Known(m, n, t, r)
  BY <1>1, PoolValues, PoolKnown, Zenon DEF Now
<1>3. p \in Flags /\ n \in 1 .. NRanks
  BY Zenon DEF Now, Ambient
<1> DEFINE P == IF IsParallelIo(r) THEN global_nlocs[r] ELSE total_nlocs[r]
<1>4. P = IF Parallel(m, n) THEN Below(p, 1, NRanks) ELSE Below(p, 1, GroupEnd(n, r)) - Below(p, 1, r)
  BY <1>1, <1>2, Zenon DEF Computed, Known
<1>5. EmptyFile(r) = [v \in DOMAIN Variables |->
                        IF Variables[v].usesLocation
                        THEN [k \in 1 .. P * Variables[v].dimFactor |-> Empty] ELSE Empty]
  BY Zenon DEF EmptyFile
<1> DEFINE file == EmptyFile(r)
<1>6. ASSUME NEW v \in DOMAIN Variables, Variables[v].usesLocation
      PROVE  file[v] = [x \in 1 .. FileEnd(p, m, n, r, Variables[v].dimFactor)
                                   - FileStart(p, m, n, r, Variables[v].dimFactor) |-> file[v][x]]
  <2> DEFINE f == Variables[v].dimFactor
  <2>1. f \in Nat
    BY VariableIs, Zenon
  <2>2. file[v] = [k \in 1 .. P * f |-> Empty]
    BY <1>5, <1>6, Zenon
  <2> HIDE DEF f, file, P
  <2>3. P * f = FileEnd(p, m, n, r, f) - FileStart(p, m, n, r, f)
    BY <1>3, <1>4, <2>1, FileLength, Zenon
  <2>4. file[v] = [x \in 1 .. P * f |-> file[v][x]]
    BY <2>2, Zenon
  <2> QED
    BY <2>3, <2>4, Zenon DEF f
<1>7. DOMAIN file = DOMAIN Variables
  BY <1>5, Zenon
<1> HIDE DEF file
<1>8. Shaped(p, m, n, r, file)
  BY <1>6, <1>7, Zenon DEF Shaped
<1> QED
  BY <1>8, Zenon DEF file

\* With parallel io all ranks of the pool write the same file.
LEMMA OneFile ==
  ASSUME NEW p, NEW m, NEW n, NEW t, Parallel(m, n), NEW r, NEW s, NEW file
  PROVE  /\ File(m, n, r) = File(m, n, s)
         /\ Shaped(p, m, n, r, file) => Shaped(p, m, n, s, file)
         /\ Name(m, n, t, r) = Name(m, n, t, s)
<1>1. \A f : FileStart(p, m, n, r, f) = FileStart(p, m, n, s, f)
             /\ FileEnd(p, m, n, r, f) = FileEnd(p, m, n, s, f)
  BY Zenon DEF FileStart, FileEnd
<1>2. File(m, n, r) = File(m, n, s)
  BY Zenon DEF File
<1>3. Shaped(p, m, n, r, file) => Shaped(p, m, n, s, file)
  BY <1>1, Zenon DEF Shaped
<1>4. \A g, h : UniquifyFileName(OutputName, FALSE, g, t) = UniquifyFileName(OutputName, FALSE, h, t)
  BY Zenon DEF UniquifyFileName
<1>5. (m /\ n > 1) = FALSE
  BY Zenon DEF Parallel
<1>6. Name(m, n, t, r) = Name(m, n, t, s)
  BY <1>4, <1>5, Zenon DEF Name
<1> QED
  BY <1>2, <1>3, <1>6, Zenon

\* Files are apart unless io is parallel; copies are apart from files.
LEMMA FilesApart ==
  ASSUME NEW m, NEW n, NEW r \in Rank, NEW s \in Rank
  PROVE  /\ File(m, n, r) \in Nat /\ File(m, n, r) # File(m, n, s) + 1
         /\ ~Parallel(m, n) /\ r # s => File(m, n, r) # File(m, n, s)
                                        /\ File(m, n, r) + 1 # File(m, n, s) + 1
<1>1. /\ File(m, n, r) = IF Parallel(m, n) THEN 0 ELSE 2 * r
      /\ File(m, n, s) = IF Parallel(m, n) THEN 0 ELSE 2 * s
  BY Zenon DEF File
<1>2. r \in Nat /\ s \in Nat
  BY DEF Rank
<1> QED
  BY <1>1, <1>2

\* As long as one rank has not opened its file no data is written, and as long as one
\* has not come to the barrier nothing is finalized.
LEMMA NotYet ==
  ASSUME NEW p, NEW l, NEW m, NEW n, NEW t, Now(p, l, m, n, t), NEW r \in Rank, NEW s \in Rank
  PROVE  /\ ~Reached(r, "strlen") => varNumber[s] = 1 /\ ~Reached(s, "final")
         /\ ~Reached(r, "barrier") => ~Reached(s, "final")
<1>1. PhasesInv(n) /\ AtVariable(s)
  BY Zenon DEF Now, TransferInv
<1>2. Reached(s, "transfer") => Reached(r, "strlen")
  BY <1>1, Zenon DEF PhasesInv
<1>3. Reached(s, "final") => Reached(r, "barrier")
  BY <1>1, Zenon DEF PhasesInv
<1>4. Reached(r, "barrier") => Reached(r, "strlen")
  BY <1>1, PhaseOrder, ReachedBefore DEF AtLeast
<1>5. ~Reached(s, "transfer") => varNumber[s] = 1
  BY <1>1, VariablesAssumption DEF AtVariable
<1> QED
  BY <1>2, <1>3, <1>4, <1>5, Zenon

\* A rank of the pool creates its file, or joins in its creation.
LEMMA OpenFileStep ==
  ASSUME NEW p, NEW l, NEW m, NEW n, NEW t, Now(p, l, m, n, t), NEW r \in Rank, OpenFile(r),
         Lead(n, r) = r
  PROVE  FilesInv(p, m, n, t)'
<1> DEFINE F == File(m, n, r)
           E == EmptyFile(r)
           N == Name(m, n, t, r)
<1>1. pc[r] = "open" /\ Goto(r, "strlen") /\ varNumber' = varNumber
  BY Zenon DEF OpenFile, transfer
<1>2. Reached(r, "info") /\ ~Reached(r, "strlen") /\ "strlen" \in Range(Phases) /\ ~AtLeast("strlen", "final")
  BY <1>1, PhaseOrder DEF Reached, AtLeast
<1>3. Known(m, n, t, r)
  BY <1>2, PoolKnown, Zenon
<1>4. /\ n \in 1 .. NRanks /\ pc \in [Rank -> Range(Phases)] /\ FilesInv(p, m, n, t)
      /\ m \in BOOLEAN /\ t \in Nat \cup {-1}
  BY Zenon DEF Now, Ambient, PhasesInv
<1>5. Shaped(p, m, n, r, E)
  BY <1>1, EmptyFileShaped, Zenon
<1>6. disk' = With(disk, F, E) /\ dir' = With(dir, N, F)
  BY <1>3, Zenon DEF OpenFile, Known
<1> HIDE DEF F, E, N
<1>7. Extends(disk', F, E, disk) /\ Extends(dir', N, F, dir)
  <2>1. Extends(With(disk, F, E), F, E, disk) /\ Extends(With(dir, N, F), N, F, dir)
    BY WithIs, Zenon
  <2> QED
    BY <1>6, <2>1, Zenon
<1>8. \A s \in Rank : varNumber[s] = 1 /\ ~Reached(s, "final")
  BY <1>2, NotYet
<1>9. \A s \in Rank : /\ Reached(s, "strlen")' => s = r \/ Reached(s, "strlen")
                      /\ ~Reached(s, "final")'
  BY <1>1, <1>2, <1>4, <1>8, GotoMoves, Zenon DEF AtLeast
<1>10. \A x \in DOMAIN dir' : dir'[x] \in DOMAIN disk'
  BY <1>4, <1>7, Zenon DEF Extends, FilesInv
<1>11. ASSUME NEW s \in Rank, Lead(n, s) = s, Reached(s, "strlen")' PROVE Written(p, m, n, s)'
  <2>1. File(m, n, s) \in DOMAIN disk' /\ Shaped(p, m, n, s, disk'[File(m, n, s)])
    <3>1. CASE File(m, n, s) = F /\ Shaped(p, m, n, s, E)
      BY <1>7, <3>1, Zenon DEF Extends
    <3>2. CASE File(m, n, s) # F /\ s # r
      <4>1. Written(p, m, n, s)
        BY <1>4, <1>9, <1>11, <3>2, Zenon DEF FilesInv
      <4> QED
        BY <1>7, <3>2, <4>1, Zenon DEF Extends, Written
    <3>3. CASE Parallel(m, n) \/ s = r
      <4>1. File(m, n, s) = F /\ Shaped(p, m, n, s, E)
        BY <1>5, <3>3, OneFile, Zenon DEF F
      <4> QED
        BY <3>1, <4>1, Zenon
    <3>4. CASE ~Parallel(m, n) /\ s # r
      <4>1. File(m, n, s) # F
        BY <3>4, FilesApart, Zenon DEF F
      <4> QED
        BY <3>2, <3>4, <4>1, Zenon
    <3> QED
      BY <3>3, <3>4, Zenon
  <2>2. \A v \in DOMAIN Variables : ~(v < varNumber'[s])
    <3>1. varNumber'[s] = 1
      BY <1>1, <1>8, Zenon
    <3> QED
      BY <3>1, VariablesAssumption
  <2> QED
    BY <2>1, <2>2, Zenon DEF Written
<1>12. ASSUME NEW s \in Rank, Posts(m, n, s), Reached(s, "strlen")' PROVE Linked(m, n, t, s)'
  <2>1. CASE Parallel(m, n) \/ s = r
    <3>1. Name(m, n, t, s) = N /\ File(m, n, s) = F
      BY <2>1, OneFile, Zenon DEF N, F
    <3> QED
      BY <1>7, <3>1, Zenon DEF Extends, Linked
  <2>2. CASE ~Parallel(m, n) /\ s # r
    <3>1. Posts(m, n, r)
      BY <2>2, Zenon DEF Posts
    <3>2. Name(m, n, t, s) # N
      BY <1>4, <1>12, <2>2, <3>1, NamesDiffer DEF N
    <3>3. Linked(m, n, t, s)
      BY <1>4, <1>8, <1>9, <1>12, <2>2, Zenon DEF FilesInv
    <3> QED
      BY <1>7, <3>2, <3>3, Zenon DEF Extends, Linked
  <2> QED
    BY <2>1, <2>2, Zenon
<1> QED
  BY <1>9, <1>10, <1>11, <1>12, Zenon DEF FilesInv

\* The block of the k-th rank of the assignment starts behind those of the ranks before.
LEMMA VarStartIs ==
  ASSUME NEW p, NEW l, NEW m, NEW n, NEW t, Now(p, l, m, n, t), NEW r \in Rank, Lead(n, r) = r,
         pc[r] = "transfer", Lists(p, n, r, rank_assignment[r]),
         NEW f, f = Variables[varNumber[r]].dimFactor, NEW k \in 1 .. GroupEnd(n, r) - r - 1
  PROVE  VarStart(r, k) = Below(p, f, r + k) - Below(p, f, r)
<1> DEFINE a == rank_assignment[r]
           c == GroupEnd(n, r) - r - 1
           y == [j \in 0 .. Len(a) - 1 |-> VarCount(r, j + 1)]
<1>1. p \in Flags /\ n \in 1 .. NRanks /\ patchObsVec = p
  BY Zenon DEF Now, Ambient, Fixed
<1>2. f \in Nat
  <2>1. varNumber[r] \in DOMAIN Variables
    BY InTransfer, Zenon
  <2> QED
    BY <2>1, VariableIs, Zenon
<1>3. GroupEnd(n, r) \in 1 .. NRanks /\ r \in Nat /\ NRanks \in Nat
  BY <1>1, GroupFacts, SizesAssumption DEF Rank
<1>4. /\ Len(a) = c /\ DOMAIN a = 1 .. c
      /\ \A j \in DOMAIN a : a[j] = <<r + j, CountTrue(p[r + j])>>
  BY Zenon DEF Lists
<1>5. /\ c \in Nat /\ k \in 1 .. c /\ k - 1 \in 0 .. c /\ r + ((k - 1) + 1) = r + k
      /\ \A j \in 0 .. (k - 1) - 1 : j + 1 \in 1 .. c /\ j \in 0 .. c - 1
      /\ r \in 0 .. NRanks /\ k - 1 \in Nat /\ k - 1 \in 0 .. k - 1
  BY <1>3
<1>6. VarStart(r, k) = CountTrue(p[r]) * f + SumBelow(y, k - 1)
  BY <1>1, Zenon DEF VarStart, patch_nlocs, Var
<1> HIDE DEF a, c
<1>7. \A j \in 1 .. c : a[j][2] = CountTrue(p[r + j])
  <2> TAKE j \in 1 .. c
  <2>1. a[j] = <<r + j, CountTrue(p[r + j])>>
    BY <1>4, Zenon
  <2> QED
    BY <2>1
<1>8. \A j \in 0 .. (k - 1) - 1 : y[j] = CountTrue(p[r + (j + 1)]) * f
  BY <1>4, <1>5, <1>7, Zenon DEF VarCount, Var, a
<1> HIDE DEF y
<1>9. Below(p, f, r + ((k - 1) + 1)) = Below(p, f, r) + (CountTrue(p[r]) * f + SumBelow(y, k - 1))
  <2> DEFINE d == k - 1
  <2>1. d \in 0 .. GroupEnd(n, r) - r - 1
    BY <1>5, Zenon DEF c
  <2>2. \A j \in 0 .. d - 1 : y[j] = CountTrue(p[r + (j + 1)]) * f
    BY <1>8, Zenon
  <2> HIDE DEF d
  <2>3. Below(p, f, r + (d + 1)) = Below(p, f, r) + (CountTrue(p[r]) * f + SumBelow(y, d))
    <3>1. GroupCounts(p, n, f, r, y, d)
      BY <1>1, <1>2, <2>1, <2>2, Zenon DEF GroupCounts
    <3>2. GroupAdds(p, f, r, y, d)
      BY <3>1, GroupSum, Zenon
    <3> QED
      BY <3>2, Zenon DEF GroupAdds
  <2> QED
    BY <2>3, Zenon DEF d
<1>10. Below(p, f, r) \in Nat
  BY <1>1, <1>2, <1>5, BelowStep, Zenon
<1>11. VarStart(r, k) \in Nat
  <2>1. CountTrue(p[r]) \in Nat
    BY <1>1, CountTrueIs, Zenon DEF Flags
  <2>2. Counts(y, k - 1)
    <3>1. \A j \in 0 .. (k - 1) - 1 : r + (j + 1) \in Rank
      BY <1>3, <1>5 DEF Rank, c
    <3>2. \A j \in 0 .. (k - 1) - 1 : CountTrue(p[r + (j + 1)]) \in Nat
      BY <1>1, <3>1, CountTrueIs, Zenon DEF Flags
    <3>3. \A x \in Nat : x * f \in Nat
      BY <1>2
    <3> QED
      BY <1>8, <3>2, <3>3, Zenon DEF Counts
  <2>3. SumBelow(y, k - 1) \in Nat
    BY <1>5, <2>2, SumBelowStep, Zenon
  <2>4. CountTrue(p[r]) * f \in Nat
    BY <1>2, <2>1
  <2> QED
    BY <1>6, <2>3, <2>4
<1>12. Below(p, f, r + k) = Below(p, f, r) + VarStart(r, k)
  BY <1>5, <1>6, <1>9, Zenon
<1> QED
  BY <1>10, <1>11, <1>12

\* The blocks that cover a place of varData
BlocksAt(r, x) ==
  {k \in DOMAIN arrived[r] : x \in VarStart(r, k) + 1 .. VarStart(r, k) + Len(arrived[r][k])}

\* What varData holds in a place that one block covers, or none.
LEMMA VarDataAt ==
  ASSUME NEW r, NEW x \in 1 .. total_nlocs[r] * Var(r).dimFactor
  PROVE  /\ \A k \in Int : BlocksAt(r, x) = {k} => VarData(r)[x] = arrived[r][k][x - VarStart(r, k)]
         /\ BlocksAt(r, x) = {} /\ x \in DOMAIN PatchValues(r) => VarData(r)[x] = PatchValues(r)[x]
<1>1. VarData(r)[x] =
        LET blocks == BlocksAt(r, x)
        IN CASE blocks # {} -> LET k == Max(blocks) IN arrived[r][k][x - VarStart(r, k)]
             [] blocks = {} /\ x \in DOMAIN PatchValues(r) -> PatchValues(r)[x]
             [] OTHER -> Empty
  BY Zenon DEF VarData, BlocksAt
<1>2. ASSUME NEW k \in Int, BlocksAt(r, x) = {k} PROVE VarData(r)[x] = arrived[r][k][x - VarStart(r, k)]
  <2>1. Max({k}) = k
    BY DEF Max
  <2>2. {k} # {}
    OBVIOUS
  <2> QED
    BY <1>1, <1>2, <2>1, <2>2, Zenon
<1>3. ASSUME BlocksAt(r, x) = {}, x \in DOMAIN PatchValues(r) PROVE VarData(r)[x] = PatchValues(r)[x]
  BY <1>1, <1>3, Zenon
<1> QED
  BY <1>2, <1>3, Zenon

\* The values of rank s (from bs to be) are outside the block of another rank (from bj to
\* bk), both counted from the first value of the file's group, br.
LEMMA BlocksApart ==
  ASSUME NEW bs \in Nat, NEW be \in Nat, NEW br \in Nat, NEW bj \in Nat, NEW bk \in Nat,
         NEW k \in 1 .. be - bs, bk <= bs \/ be <= bj
  PROVE  ~(bs - br + k \in (bj - br) + 1 .. (bj - br) + (bk - bj))
  OBVIOUS

\* d holds the values of the ranks of r's group, one after the other
Gathers(p, n, r, v, f, d) ==
  /\ DOMAIN d = 1 .. Below(p, f, GroupEnd(n, r)) - Below(p, f, r)
  /\ \A s \in Follows(n, r) : \A k \in DOMAIN Values(p, s, v) :
       d[Below(p, f, s) - Below(p, f, r) + k] = Values(p, s, v)[k]

\* The values of rank s lie between those of the ranks below it and behind it.
LEMMA ValuePlace ==
  ASSUME NEW p \in Flags, NEW s \in Rank, NEW v \in DOMAIN Variables, NEW f, f = Variables[v].dimFactor,
         NEW k \in DOMAIN Values(p, s, v)
  PROVE  /\ f \in Nat /\ Below(p, f, s) \in Nat /\ Below(p, f, s + 1) \in Nat
         /\ k \in 1 .. Below(p, f, s + 1) - Below(p, f, s)
<1>1. f \in Nat /\ k \in 1 .. CountTrue(p[s]) * f
  BY ValuesLength, Zenon
<1>2. Below(p, f, s + 1) = Below(p, f, s) + CountTrue(p[s]) * f
  BY <1>1, BelowStep, Zenon
<1>3. s \in 0 .. NRanks /\ s + 1 \in 0 .. NRanks
  BY SizesAssumption DEF Rank
<1>4. Below(p, f, s) \in Nat /\ Below(p, f, s + 1) \in Nat
  BY <1>1, <1>3, BelowStep, Zenon
<1>5. CountTrue(p[s]) \in Nat
  BY CountTrueIs, Zenon DEF Flags
<1> DEFINE d == CountTrue(p[s]) * f
<1>6. d \in Nat /\ Below(p, f, s + 1) = Below(p, f, s) + d /\ k \in 1 .. d
  BY <1>1, <1>2, <1>5
<1> HIDE DEF d
<1>7. k \in 1 .. Below(p, f, s + 1) - Below(p, f, s)
  BY <1>4, <1>6
<1> QED
  BY <1>1, <1>4, <1>7, Zenon

\* varData on a rank of the pool: its own values and the blocks of its ranks, in order.
LEMMA VarDataIs ==
  ASSUME NEW p, NEW l, NEW m, NEW n, NEW t, Now(p, l, m, n, t), NEW r \in Rank, WriteVarData(r),
         NEW v, v = varNumber[r], NEW f, f = Variables[v].dimFactor
  PROVE  Gathers(p, n, r, v, f, VarData(r))
<1> DEFINE a == rank_assignment[r]
           e == GroupEnd(n, r)
           c == e - r - 1
           B(s) == Below(p, f, s)
<1>1. /\ p \in Flags /\ n \in 1 .. NRanks /\ TransferInv(p, l, n)
  BY Zenon DEF Now, Ambient
<1>2. /\ pc[r] = "transfer" /\ Lead(n, r) = r /\ Variables[v].usesLocation
      /\ Lists(p, n, r, a) /\ DOMAIN arrived[r] = DOMAIN a
  <2>1. HasBlocks(p, n, r)
    BY AllArrived, Zenon
  <2> QED
    BY <2>1, Zenon DEF HasBlocks
<1>3. /\ Computed(p, l, n, r) /\ Reached(r, "info") /\ v \in DOMAIN Variables
  BY <1>2, InTransfer, Zenon
<1>4. f \in Nat /\ Var(r).dimFactor = f
  BY <1>3, VariableIs, Zenon DEF Var
<1>5. e \in 1 .. NRanks /\ r < e /\ r \in Nat /\ NRanks \in Nat
  BY <1>1, GroupFacts, SizesAssumption DEF Rank
<1>6. DOMAIN arrived[r] = 1 .. c
  BY <1>2, Zenon DEF Lists
<1>7. \A s \in 0 .. NRanks : B(s) \in Nat
  BY <1>1, <1>4, BelowStep, Zenon
<1>8. \A s, u \in 0 .. NRanks : s <= u => B(s) <= B(u)
  BY <1>1, <1>4, BelowOrder
<1>9. \A k \in 1 .. c : VarStart(r, k) = B(r + k) - B(r)
  BY <1>2, VarStartIs
<1>10. \A k \in 1 .. c : /\ arrived[r][k] = Values(p, r + k, v) /\ r + k \in Rank
                         /\ Len(arrived[r][k]) = B(r + k + 1) - B(r + k)
  <2> TAKE k \in 1 .. c
  <2>1. Block(p, n, r, k)
    BY <1>1, <1>6, Zenon DEF TransferInv
  <2>2. arrived[r][k] = Values(p, r + k, v) /\ r + k \in Rank
    BY <2>1, Zenon DEF Block, Follows
  <2>3. Len(arrived[r][k]) = CountTrue(p[r + k]) * f
    BY <1>1, <1>3, <2>2, ValuesLength, Zenon
  <2>4. B(r + k + 1) = B(r + k) + CountTrue(p[r + k]) * f
    BY <1>1, <1>4, <2>2, BelowStep, Zenon
  <2>5. B(r + k) \in Nat /\ CountTrue(p[r + k]) * f \in Nat
    <3>1. CountTrue(p[r + k]) \in Nat
      BY <1>1, <2>2, CountTrueIs, Zenon DEF Flags
    <3>2. r + k \in 0 .. NRanks
      BY <1>5, <2>2 DEF Rank
    <3>3. B(r + k) \in Nat
      BY <1>7, <3>2, Zenon
    <3> QED
      BY <1>4, <3>1, <3>3
  <2> HIDE DEF B
  <2>6. Len(arrived[r][k]) = B(r + k + 1) - B(r + k)
    BY <2>3, <2>4, <2>5
  <2> QED
    BY <2>2, <2>6, Zenon
<1>11. total_nlocs[r] * Var(r).dimFactor = B(e) - B(r)
  <2>1. total_nlocs[r] = Below(p, 1, e) - Below(p, 1, r)
    BY <1>2, <1>3, Zenon DEF Computed
  <2>2. Below(p, 1, e) * f = B(e) /\ Below(p, 1, r) * f = B(r)
    BY <1>1, <1>4, <1>5, BelowScaled
  <2>3. Below(p, 1, e) \in Nat /\ Below(p, 1, r) \in Nat
    <3>1. e \in 0 .. NRanks /\ r \in 0 .. NRanks /\ 1 \in Nat
      BY <1>5
    <3> QED
      BY <1>1, <3>1, BelowStep, Zenon
  <2> HIDE DEF B, e
  <2> QED
    BY <1>4, <2>1, <2>2, <2>3
<1>12. DOMAIN VarData(r) = 1 .. B(e) - B(r)
  BY <1>11, Zenon DEF VarData
<1>13. PatchValues(r) = Values(p, r, v)
  BY OwnValues, Zenon
<1>14. ASSUME NEW s \in Follows(n, r), NEW k \in DOMAIN Values(p, s, v)
       PROVE  VarData(r)[B(s) - B(r) + k] = Values(p, s, v)[k]
  <2> DEFINE x == B(s) - B(r) + k
  <2>1. s \in Rank /\ r <= s /\ s < e
    BY <1>1, <1>2, FollowsIs, Zenon DEF Follows
  <2>2. k \in 1 .. B(s + 1) - B(s)
    BY <1>1, <1>3, <2>1, ValuePlace
  <2>3. /\ s \in 0 .. NRanks /\ s + 1 \in 0 .. NRanks /\ r \in 0 .. NRanks /\ e \in 0 .. NRanks
        /\ s + 1 <= e /\ s \in Nat
    BY <1>5, <2>1 DEF Rank
  <2>4. B(s) \in Nat /\ B(s + 1) \in Nat /\ B(r) \in Nat /\ B(e) \in Nat
        /\ B(r) <= B(s) /\ B(s + 1) <= B(e)
    BY <1>7, <1>8, <2>1, <2>3, Zenon
  <2> HIDE DEF B, c, e
  <2>5. x \in Nat /\ x \in 1 .. B(e) - B(r) /\ B(s) - B(r) < x /\ x <= B(s + 1) - B(r) /\ k = x - (B(s) - B(r))
    BY <2>2, <2>4
  <2>6. x \in 1 .. total_nlocs[r] * Var(r).dimFactor
    BY <1>11, <2>5, Zenon
  <2>7. ASSUME NEW j \in 1 .. c, r + j # s
        PROVE  ~(x \in VarStart(r, j) + 1 .. VarStart(r, j) + Len(arrived[r][j]))
    <3>1. /\ r + j \in 0 .. NRanks /\ r + j + 1 \in 0 .. NRanks /\ r + j \in Nat
          /\ (r + j + 1 <= s \/ s + 1 <= r + j)
      BY <1>5, <2>3, <2>7 DEF c
    <3>2. B(r + j) \in Nat /\ B(r + j + 1) \in Nat
      BY <1>7, <3>1, Zenon
    <3>3. B(r + j + 1) <= B(s) \/ B(s + 1) <= B(r + j)
      BY <1>8, <2>3, <3>1, Zenon
    <3>4. VarStart(r, j) = B(r + j) - B(r) /\ Len(arrived[r][j]) = B(r + j + 1) - B(r + j)
      BY <1>9, <1>10, <2>7, Zenon
    <3> DEFINE bs == B(s)
               be == B(s + 1)
               br == B(r)
               bj == B(r + j)
               bk == B(r + j + 1)
    <3>5. /\ bs \in Nat /\ be \in Nat /\ br \in Nat /\ bj \in Nat /\ bk \in Nat
          /\ k \in 1 .. be - bs /\ (bk <= bs \/ be <= bj)
      BY <2>2, <2>4, <3>2, <3>3, Zenon
    <3>6. ~(bs - br + k \in (bj - br) + 1 .. (bj - br) + (bk - bj))
      BY <3>5, BlocksApart, Zenon
    <3> QED
      BY <3>4, <3>6, Zenon
  <2>8. CASE s = r
    <3>1. BlocksAt(r, x) = {}
      <4>1. \A j \in 1 .. c : r + j # s
        BY <1>5, <2>8
      <4> QED
        BY <1>6, <2>7, <4>1, Zenon DEF BlocksAt
    <3>2. x = k
      BY <2>2, <2>4, <2>8
    <3>3. VarData(r)[x] = PatchValues(r)[x]
      BY <1>13, <1>14, <2>6, <2>8, <3>1, <3>2, VarDataAt, Zenon
    <3> QED
      BY <1>13, <2>8, <3>2, <3>3, Zenon
  <2>9. CASE s # r
    <3> DEFINE i == s - r
    <3>1. i \in 1 .. c /\ r + i = s /\ i \in Int
      BY <1>5, <2>1, <2>3, <2>9 DEF c
    <3>2. \A j \in 1 .. c : j # i => r + j # s
      BY <1>5, <3>1
    <3> HIDE DEF i
    <3>3. VarStart(r, i) = B(s) - B(r) /\ Len(arrived[r][i]) = B(s + 1) - B(s)
          /\ arrived[r][i] = Values(p, s, v)
      BY <1>9, <1>10, <3>1, Zenon
    <3>4. x \in VarStart(r, i) + 1 .. VarStart(r, i) + Len(arrived[r][i])
      BY <2>4, <2>5, <3>3
    <3>5. BlocksAt(r, x) = {i}
      BY <1>6, <2>7, <3>1, <3>2, <3>4, Zenon DEF BlocksAt
    <3>6. VarData(r)[x] = arrived[r][i][x - VarStart(r, i)]
      BY <2>6, <3>1, <3>5, VarDataAt, Zenon
    <3>7. x - VarStart(r, i) = k
      BY <2>5, <3>3, Zenon
    <3> QED
      BY <3>3, <3>6, <3>7, Zenon
  <2> QED
    BY <2>8, <2>9, Zenon
<1> QED
  BY <1>12, <1>14, Zenon DEF Gathers

\* What rank r may put in its file for variable v: all of the size of the variable, its
\* own values in their places, and those of the other ranks of the pool left alone
MayWrite(p, m, n, r, v, data) ==
  /\ Variables[v].usesLocation =>
       data = [x \in 1 .. FileEnd(p, m, n, r, Variables[v].dimFactor)
                          - FileStart(p, m, n, r, Variables[v].dimFactor) |-> data[x]]
  /\ Tiled(p, m, n, r, v, data)
  /\ \A s \in Rank : /\ Lead(n, s) = s /\ s # r /\ File(m, n, s) = File(m, n, r)
                     /\ Tiled(p, m, n, s, v, disk[File(m, n, r)][v])
                     => Tiled(p, m, n, s, v, data)

\* A rank of the pool writes a variable to its file and goes on to the next one.
LEMMA WriteStep ==
  ASSUME NEW p, NEW l, NEW m, NEW n, NEW t, Now(p, l, m, n, t), NEW r \in Rank, Lead(n, r) = r,
         pc[r] = "transfer", NextVariable(r), NEW v, v = varNumber[r], NEW data,
         MayWrite(p, m, n, r, v, data),
         disk' = [disk EXCEPT ![File(m, n, r)][v] = data], dir' = dir
  PROVE  FilesInv(p, m, n, t)'
<1> DEFINE q == IF varNumber[r] = Len(Variables) THEN "barrier" ELSE "transfer"
<1>1. Goto(r, q) /\ varNumber' = [varNumber EXCEPT ![r] = @ + 1]
  BY Zenon DEF NextVariable
<1>2. q \in Range(Phases) /\ ~AtLeast(q, "final")
  BY PhaseOrder DEF AtLeast
<1> HIDE DEF q
<1>3. /\ FilesInv(p, m, n, t) /\ TransferInv(p, l, n) /\ pc \in [Rank -> Range(Phases)]
  BY Zenon DEF Now, PhasesInv
<1>4. /\ Reached(r, "strlen") /\ ~Reached(r, "barrier") /\ v \in DOMAIN Variables /\ v \in Nat
  BY InTransfer, Zenon
<1>5. \A s \in Rank : (Reached(s, "strlen")' => Reached(s, "strlen")) /\ ~Reached(s, "final")'
                      /\ ~Reached(s, "final")
  <2>1. \A s \in Rank : ~Reached(s, "final")
    BY <1>4, NotYet
  <2> QED
    BY <1>1, <1>2, <1>3, <1>4, <2>1, GotoMoves, Zenon DEF AtLeast
<1>6. \A s \in Rank : varNumber'[s] = IF s = r THEN v + 1 ELSE varNumber[s]
  BY <1>1, <1>3, Zenon DEF TransferInv
<1>7. Written(p, m, n, r)
  BY <1>3, <1>4, Zenon DEF FilesInv
<1> DEFINE F == File(m, n, r)
           old == disk[F]
           new == disk'[F]
<1>8. /\ F \in DOMAIN disk /\ DOMAIN old = DOMAIN Variables /\ Shaped(p, m, n, r, old)
      /\ \A u \in DOMAIN Variables : u < v => Tiled(p, m, n, r, u, old[u])
  BY <1>7, Zenon DEF Written, Shaped
<1>9. /\ DOMAIN disk' = DOMAIN disk /\ \A g \in DOMAIN disk : g # F => disk'[g] = disk[g]
      /\ new = [old EXCEPT ![v] = data]
  BY <1>8, Zenon
<1>10. DOMAIN new = DOMAIN Variables /\ new[v] = data /\ \A u \in DOMAIN Variables : u # v => new[u] = old[u]
  BY <1>4, <1>8, <1>9, Zenon
<1> HIDE DEF new, old, F
<1>11. Shaped(p, m, n, r, new)
  <2>1. ASSUME NEW u \in DOMAIN Variables, Variables[u].usesLocation
        PROVE  new[u] = [x \in 1 .. FileEnd(p, m, n, r, Variables[u].dimFactor)
                                    - FileStart(p, m, n, r, Variables[u].dimFactor) |-> new[u][x]]
    <3>1. CASE u = v
      BY <1>10, <2>1, <3>1, Zenon DEF MayWrite
    <3>2. CASE u # v
      BY <1>8, <1>10, <2>1, <3>2, Zenon DEF Shaped
    <3> QED
      BY <3>1, <3>2, Zenon
  <2> QED
    BY <1>10, <2>1, Zenon DEF Shaped
<1>12. ASSUME NEW s \in Rank, Lead(n, s) = s, Reached(s, "strlen")' PROVE Written(p, m, n, s)'
  <2>1. Written(p, m, n, s)
    BY <1>3, <1>5, <1>12, Zenon DEF FilesInv
  <2>2. CASE s = r
    <3>1. \A u \in DOMAIN Variables : u < v + 1 => u < v \/ u = v
      BY <1>4, VariablesAssumption
    <3>2. ASSUME NEW u \in DOMAIN Variables, u < v + 1 PROVE Tiled(p, m, n, r, u, new[u])
      <4>1. CASE u = v
        BY <1>10, <4>1, Zenon DEF MayWrite
      <4>2. CASE u # v
        BY <1>8, <1>10, <3>1, <3>2, <4>2, Zenon
      <4> QED
        BY <4>1, <4>2, Zenon
    <3>3. varNumber'[r] = v + 1
      BY <1>6, Zenon
    <3>4. F \in DOMAIN disk'
      BY <1>8, <1>9, Zenon
    <3> QED
      BY <1>11, <2>2, <3>2, <3>3, <3>4, Zenon DEF Written, F, new
  <2>3. CASE s # r /\ File(m, n, s) # F
    <3>1. varNumber'[s] = varNumber[s] /\ disk'[File(m, n, s)] = disk[File(m, n, s)]
          /\ File(m, n, s) \in DOMAIN disk'
      BY <1>6, <1>9, <2>1, <2>3, Zenon DEF Written
    <3> QED
      BY <2>1, <3>1, Zenon DEF Written
  <2>4. CASE s # r /\ File(m, n, s) = F
    <3>1. Parallel(m, n)
      BY <2>4, FilesApart, Zenon DEF F
    <3>2. Shaped(p, m, n, s, new)
      BY <1>11, <3>1, OneFile, Zenon
    <3>3. varNumber'[s] = varNumber[s]
      BY <1>6, <2>4, Zenon
    <3>4. ASSUME NEW u \in DOMAIN Variables, u < varNumber[s] PROVE Tiled(p, m, n, s, u, new[u])
      <4>1. Tiled(p, m, n, s, u, old[u])
        BY <2>1, <2>4, <3>4, Zenon DEF Written, old
      <4>2. CASE u = v
        BY <1>10, <1>12, <2>4, <4>1, <4>2, Zenon DEF MayWrite, F, old
      <4>3. CASE u # v
        BY <1>10, <4>1, <4>3, Zenon
      <4> QED
        BY <4>2, <4>3, Zenon
    <3>5. F \in DOMAIN disk'
      BY <1>8, <1>9, Zenon
    <3> QED
      BY <2>4, <3>2, <3>3, <3>4, <3>5, Zenon DEF Written, new
  <2> QED
    BY <2>2, <2>3, <2>4, Zenon
<1>13. ASSUME NEW s \in Rank, Posts(m, n, s), Reached(s, "strlen")' PROVE Linked(m, n, t, s)'
  <2>1. Linked(m, n, t, s)
    BY <1>3, <1>5, <1>13, Zenon DEF FilesInv
  <2> QED
    BY <2>1, Zenon DEF Linked
<1>14. \A x \in DOMAIN dir' : dir'[x] \in DOMAIN disk'
  BY <1>3, <1>9, Zenon DEF FilesInv
<1> QED
  BY <1>5, <1>12, <1>13, <1>14, Zenon DEF FilesInv

\* x is a place in the file, and in varData of rank r if the value is of r's group
Placed(p, m, n, r, s, u, v, f, k, start, x) ==
  /\ x \in 1 .. FileEnd(p, m, n, r, f) - FileStart(p, m, n, r, f)
  /\ x - start = Below(p, f, u) - Below(p, f, r) + k
  /\ s = r => x - start \in 1 .. Below(p, f, GroupEnd(n, r)) - Below(p, f, r)
  /\ s # r => x - start \notin 1 .. Below(p, f, GroupEnd(n, r)) - Below(p, f, r)

\* Where the values of a rank of r's group, and of other groups, are in the file.
LEMMA FilePlace ==
  ASSUME NEW p \in Flags, NEW m, NEW n \in 1 .. NRanks, NEW r \in Rank, Lead(n, r) = r,
         NEW s \in Rank, NEW u \in Rank, Lead(n, u) = s, NEW v \in DOMAIN Variables,
         NEW f, f = Variables[v].dimFactor, NEW k \in DOMAIN Values(p, u, v),
         NEW start, start = Below(p, f, r) - FileStart(p, m, n, r, f),
         NEW x, x = Below(p, f, u) - FileStart(p, m, n, s, f) + k,
         s = r \/ Parallel(m, n)
  PROVE  Placed(p, m, n, r, s, u, v, f, k, start, x)
<1> DEFINE e == GroupEnd(n, r)
           B(y) == Below(p, f, y)
           S == FileStart(p, m, n, r, f)
           E == FileEnd(p, m, n, r, f)
<1>1. f \in Nat /\ k \in 1 .. B(u + 1) - B(u)
  BY ValuePlace
<1>2. /\ e \in 0 .. NRanks /\ r < e /\ r \in 0 .. NRanks /\ r \in Nat /\ u \in Nat
      /\ u \in 0 .. NRanks /\ u + 1 \in 0 .. NRanks /\ NRanks \in 0 .. NRanks /\ NRanks \in Nat
      /\ u + 1 <= NRanks
  <2>1. e \in 1 .. NRanks /\ r < e
    BY GroupFacts, Zenon
  <2> HIDE DEF e
  <2> QED
    BY <2>1, SizesAssumption DEF Rank
<1>3. \A y \in 0 .. NRanks : B(y) \in Nat
  BY <1>1, BelowStep, Zenon
<1>4. \A y, z \in 0 .. NRanks : y <= z => B(y) <= B(z)
  BY <1>1, BelowOrder
<1>5. B(u) \in Nat /\ B(u + 1) \in Nat /\ B(r) \in Nat /\ B(e) \in Nat /\ B(NRanks) \in Nat
      /\ B(u + 1) <= B(NRanks)
  BY <1>2, <1>3, <1>4, Zenon
<1>6. S = (IF Parallel(m, n) THEN 0 ELSE B(r)) /\ E = (IF Parallel(m, n) THEN B(NRanks) ELSE B(e))
      /\ FileStart(p, m, n, s, f) = S
  BY Zenon DEF FileStart, FileEnd
<1>7. s = r <=> r <= u /\ u < e
  <2>1. Lead(n, u) = r <=> r <= u /\ u < e
    BY FollowsIs, Zenon
  <2> QED
    BY <2>1, Zenon
<1> HIDE DEF e, B, S, E
<1>8. s = r => B(r) <= B(u) /\ B(u + 1) <= B(e)
  <2>1. s = r => r <= u /\ u + 1 <= e
    BY <1>2, <1>7
  <2> QED
    BY <1>2, <1>4, <2>1, Zenon
<1>9. s # r => B(u + 1) <= B(r) \/ B(e) <= B(u)
  <2>1. s # r => u + 1 <= r \/ e <= u
    BY <1>2, <1>7
  <2> QED
    BY <1>2, <1>4, <2>1, Zenon
<1>10. x = B(u) - S + k /\ start = B(r) - S
  BY <1>6, Zenon DEF B, S
<1>11. x - start = B(u) - B(r) + k
  BY <1>1, <1>5, <1>6, <1>10
<1>12. x \in 1 .. E - S
  BY <1>1, <1>5, <1>6, <1>8, <1>10
<1>13. /\ s = r => x - start \in 1 .. B(e) - B(r)
       /\ s # r => x - start \notin 1 .. B(e) - B(r)
  BY <1>1, <1>5, <1>8, <1>9, <1>11
<1> QED
  BY <1>11, <1>12, <1>13, Zenon DEF Placed, B, e, S, E

\* What WriteVarData writes.
LEMMA WriteVarDataMayWrite ==
  ASSUME NEW p, NEW l, NEW m, NEW n, NEW t, Now(p, l, m, n, t), NEW r \in Rank, WriteVarData(r),
         NEW v, v = varNumber[r], NEW start,
         start = Below(p, Variables[v].dimFactor, r) - FileStart(p, m, n, r, Variables[v].dimFactor),
         NEW old, old = disk[File(m, n, r)][v],
         NEW new, new = [x \in DOMAIN old |-> IF x - start \in DOMAIN VarData(r)
                                              THEN VarData(r)[x - start] ELSE old[x]]
  PROVE  MayWrite(p, m, n, r, v, new)
<1> DEFINE f == Variables[v].dimFactor
           d == VarData(r)
           len == FileEnd(p, m, n, r, f) - FileStart(p, m, n, r, f)
<1>1. p \in Flags /\ n \in 1 .. NRanks /\ FilesInv(p, m, n, t)
  BY Zenon DEF Now, Ambient
<1>2. pc[r] = "transfer" /\ Lead(n, r) = r /\ Variables[v].usesLocation
  <2>1. HasBlocks(p, n, r)
    BY AllArrived, Zenon
  <2> QED
    BY <2>1, Zenon DEF HasBlocks
<1>3. v \in DOMAIN Variables /\ Reached(r, "strlen")
  BY <1>2, InTransfer, Zenon
<1>4. Gathers(p, n, r, v, f, d)
  BY VarDataIs
<1>5. DOMAIN old = 1 .. len
  <2>1. Written(p, m, n, r)
    BY <1>1, <1>2, <1>3, Zenon DEF FilesInv
  <2>2. old = [x \in 1 .. len |-> old[x]]
    BY <1>2, <1>3, <2>1, Zenon DEF Written, Shaped
  <2> HIDE DEF len
  <2> QED
    BY <2>2, Zenon
<1>6. new = [x \in DOMAIN old |-> IF x - start \in DOMAIN d THEN d[x - start] ELSE old[x]]
  BY Zenon
<1> HIDE DEF d, len, f
<1>7. /\ DOMAIN d = 1 .. Below(p, f, GroupEnd(n, r)) - Below(p, f, r)
      /\ \A s \in Follows(n, r) : \A k \in DOMAIN Values(p, s, v) :
           d[Below(p, f, s) - Below(p, f, r) + k] = Values(p, s, v)[k]
  BY <1>4, Zenon DEF Gathers
<1>8. start = Below(p, f, r) - FileStart(p, m, n, r, f)
  BY Zenon DEF f
<1>9. ASSUME NEW u \in Follows(n, r), NEW k \in DOMAIN Values(p, u, v)
      PROVE  new[Below(p, f, u) - FileStart(p, m, n, r, f) + k] = Values(p, u, v)[k]
  <2> DEFINE x == Below(p, f, u) - FileStart(p, m, n, r, f) + k
  <2>1. u \in Rank /\ Lead(n, u) = r
    BY Zenon DEF Follows
  <2>2. /\ x \in 1 .. len /\ x - start = Below(p, f, u) - Below(p, f, r) + k
        /\ x - start \in 1 .. Below(p, f, GroupEnd(n, r)) - Below(p, f, r)
    <3>1. f = Variables[v].dimFactor
      BY Zenon DEF f
    <3>2. Placed(p, m, n, r, r, u, v, f, k, start, x)
      BY <1>1, <1>2, <1>3, <1>8, <2>1, <3>1, FilePlace, Zenon
    <3> QED
      BY <3>2, Zenon DEF Placed, len
  <2> HIDE DEF x
  <2>3. new[x] = d[x - start]
    BY <1>5, <1>6, <1>7, <2>2, Zenon
  <2>4. new[x] = Values(p, u, v)[k]
    BY <1>7, <2>2, <2>3, Zenon
  <2> QED
    BY <2>4, Zenon DEF x
<1>10. Tiled(p, m, n, r, v, new)
  BY <1>2, <1>9, Zenon DEF Tiled, f
<1>11. ASSUME NEW s \in Rank, Lead(n, s) = s, s # r, File(m, n, s) = File(m, n, r),
              Tiled(p, m, n, s, v, old)
       PROVE  Tiled(p, m, n, s, v, new)
  <2>1. Parallel(m, n)
    BY <1>11, FilesApart, Zenon
  <2>2. ASSUME NEW u \in Follows(n, s), NEW k \in DOMAIN Values(p, u, v)
        PROVE  new[Below(p, f, u) - FileStart(p, m, n, s, f) + k] = Values(p, u, v)[k]
    <3> DEFINE x == Below(p, f, u) - FileStart(p, m, n, s, f) + k
    <3>1. u \in Rank /\ Lead(n, u) = s
      BY Zenon DEF Follows
    <3>2. /\ x \in 1 .. len
          /\ x - start \notin 1 .. Below(p, f, GroupEnd(n, r)) - Below(p, f, r)
      <4>1. f = Variables[v].dimFactor
        BY Zenon DEF f
      <4>2. Placed(p, m, n, r, s, u, v, f, k, start, x)
        BY <1>1, <1>2, <1>3, <1>8, <2>1, <3>1, <4>1, FilePlace, Zenon
      <4> QED
        BY <1>11, <4>2, Zenon DEF Placed, len
    <3>3. old[x] = Values(p, u, v)[k]
      BY <1>2, <1>11, <2>2, Zenon DEF Tiled, f
    <3> HIDE DEF x
    <3>4. new[x] = old[x]
      BY <1>5, <1>6, <1>7, <3>2, Zenon
    <3> QED
      BY <3>3, <3>4, Zenon DEF x
  <2> QED
    BY <1>2, <2>2, Zenon DEF Tiled, f
<1>12. new = [x \in 1 .. len |-> new[x]]
  BY <1>5, <1>6, Zenon
<1> QED
  BY <1>10, <1>11, <1>12, Zenon DEF MayWrite, len, f

\* Where a block starts in a file that begins with it, and in one that begins with rank 0.
LEMMA Differences == \A b \in Nat : b - 0 = b /\ b - b = 0
OBVIOUS

\* WriteVarData writes the values of r's group to their places.
LEMMA WriteVarDataFiles ==
  ASSUME NEW p, NEW l, NEW m, NEW n, NEW t, Now(p, l, m, n, t), NEW r \in Rank, WriteVarData(r)
  PROVE  FilesInv(p, m, n, t)'
<1> SUFFICES ASSUME NEW v, v = varNumber[r], NEW f, f = Variables[v].dimFactor,
                    NEW start, start = Below(p, f, r) - FileStart(p, m, n, r, f),
                    NEW old, old = disk[File(m, n, r)][v],
                    NEW new, new = [x \in DOMAIN old |-> IF x - start \in DOMAIN VarData(r)
                                                         THEN VarData(r)[x - start] ELSE old[x]]
             PROVE  FilesInv(p, m, n, t)'
  BY Zenon
<1>1. pc[r] = "transfer" /\ Lead(n, r) = r /\ NextVariable(r) /\ dir' = dir
  <2>1. HasBlocks(p, n, r)
    BY AllArrived, Zenon
  <2>2. NextVariable(r) /\ dir' = dir
    BY Zenon DEF WriteVarData
  <2> QED
    BY <2>1, <2>2, Zenon DEF HasBlocks
<1>2. p \in Flags /\ n \in 1 .. NRanks
  BY Zenon DEF Now, Ambient
<1>3. Computed(p, l, n, r) /\ Known(m, n, t, r) /\ Reached(r, "open") /\ v \in DOMAIN Variables
  BY <1>1, InTransfer, Zenon
<1>4. f \in Nat
  BY <1>3, VariableIs, Zenon
<1>5. (IF IsParallelIo(r) THEN nlocs_start[r] * Var(r).dimFactor ELSE 0) = start
  <2>1. nlocs_start[r] = Below(p, 1, r) /\ Var(r).dimFactor = f /\ (IsParallelIo(r) <=> Parallel(m, n))
    BY <1>1, <1>3, Zenon DEF Computed, Known, Var
  <2>2. FileStart(p, m, n, r, f) = IF Parallel(m, n) THEN 0 ELSE Below(p, f, r)
    BY Zenon DEF FileStart
  <2>3. Below(p, 1, r) * f = Below(p, f, r) /\ Below(p, f, r) \in Nat
    <3>1. r \in 0 .. NRanks
      BY SizesAssumption DEF Rank
    <3> QED
      BY <1>2, <1>4, <3>1, BelowScaled, BelowStep, Zenon
  <2>4. Below(p, f, r) - 0 = Below(p, f, r) /\ Below(p, f, r) - Below(p, f, r) = 0
    BY <2>3, Differences, Zenon
  <2> QED
    BY <2>1, <2>2, <2>3, <2>4, Zenon
<1>6. Inode(r) = File(m, n, r)
  BY <1>1, <1>3, Zenon DEF Known
<1>7. disk' = [disk EXCEPT ![File(m, n, r)][v] = new]
  BY <1>5, <1>6, Zenon DEF WriteVarData
<1>8. MayWrite(p, m, n, r, v, new)
  BY WriteVarDataMayWrite
<1> QED
  BY <1>1, <1>7, <1>8, WriteStep, Zenon

\* Each rank of the pool writes the variables without the Location dimension.
LEMMA TransferVarDataFiles ==
  ASSUME NEW p, NEW l, NEW m, NEW n, NEW t, Now(p, l, m, n, t), NEW r \in Rank, TransferVarData(r),
         Lead(n, r) = r
  PROVE  FilesInv(p, m, n, t)'
<1> SUFFICES ASSUME NEW v, v = varNumber[r] PROVE FilesInv(p, m, n, t)'
  BY Zenon
<1>1. pc[r] = "transfer" /\ ~Variables[v].usesLocation /\ NextVariable(r) /\ dir' = dir
  BY Zenon DEF TransferVarData, Var
<1>2. Known(m, n, t, r)
  BY <1>1, InTransfer, Zenon
<1>3. disk' = [disk EXCEPT ![File(m, n, r)][v] = Shared]
  BY <1>2, Zenon DEF Known, TransferVarData
<1>4. MayWrite(p, m, n, r, v, Shared)
  BY <1>1, Zenon DEF MayWrite, Tiled
<1> QED
  BY <1>1, <1>3, <1>4, WriteStep

\* What renaming the file of rank r and copying it back does to the names: what was the
\* name of the file is gone, what was no name of r's is unchanged.
Renames(f, final, temp, saved, new, g) ==
  LET renamed == With([x \in DOMAIN f \ {final} |-> f[x]], temp, f[final])
      copied == With(renamed, saved, new)
  IN g = [x \in DOMAIN copied \ {temp} |-> copied[x]]
Replaces(f, final, temp, saved, new, g) ==
  /\ saved \in DOMAIN g /\ g[saved] = new
  /\ \A x \in DOMAIN f \ {final, temp, saved} : x \in DOMAIN g /\ g[x] = f[x]
  /\ \A x \in DOMAIN g : x = saved \/ (x \in DOMAIN f /\ g[x] = f[x])

\* The rename, the copy and the removal in WriteH5Proc::post leave the copy under its
\* name and other files alone.
LEMMA Renamed ==
  ASSUME NEW f, NEW final, NEW temp, NEW saved, NEW new, NEW g, saved # temp,
         Renames(f, final, temp, saved, new, g)
  PROVE  Replaces(f, final, temp, saved, new, g)
<1> DEFINE h == [x \in DOMAIN f \ {final} |-> f[x]]
           renamed == With(h, temp, f[final])
           copied == With(renamed, saved, new)
<1>0. g = [x \in DOMAIN copied \ {temp} |-> copied[x]]
  BY Zenon DEF Renames
<1>1. DOMAIN h = DOMAIN f \ {final} /\ \A x \in DOMAIN h : h[x] = f[x]
  BY Zenon
<1> HIDE DEF h
<1>2. Extends(renamed, temp, f[final], h)
  BY WithIs, Zenon
<1> HIDE DEF renamed
<1>3. Extends(copied, saved, new, renamed)
  BY WithIs, Zenon
<1> HIDE DEF copied
<1>4. DOMAIN copied = {saved, temp} \cup DOMAIN h
  BY <1>2, <1>3, Zenon DEF Extends
<1>5. \A x \in DOMAIN h : x # saved /\ x # temp => copied[x] = f[x]
  BY <1>1, <1>2, <1>3, Zenon DEF Extends
<1>6. copied[saved] = new
  BY <1>3, Zenon DEF Extends
<1>7. DOMAIN g = DOMAIN copied \ {temp} /\ \A x \in DOMAIN g : g[x] = copied[x]
  BY <1>0, Zenon
<1>8. saved \in DOMAIN g /\ g[saved] = new
  BY <1>4, <1>6, <1>7, Zenon
<1>9. \A x \in DOMAIN f \ {final, temp, saved} : x \in DOMAIN g /\ g[x] = f[x]
  BY <1>1, <1>4, <1>5, <1>7, Zenon
<1>10. \A x \in DOMAIN g : x = saved \/ (x \in DOMAIN f /\ g[x] = f[x])
  BY <1>1, <1>4, <1>5, <1>7, Zenon
<1> QED
  BY <1>8, <1>9, <1>10, Zenon DEF Replaces

\* The name a file is renamed to is not a name of an output file.
LEMMA TempNameApart ==
  ASSUME NEW m \in BOOLEAN, NEW n \in 1 .. NRanks, NEW t \in Nat \cup {-1}, NEW s \in Rank,
         NEW b \in BOOLEAN, NEW g \in Int
  PROVE  /\ Name(m, n, t, s) # UniquifyFileName(TempName, b, g, t)
         /\ CopyName(m, n, t, s) # UniquifyFileName(TempName, b, g, t)
<1>1. /\ OutputName \in FileNames /\ TempName \in FileNames /\ t \in Int
      /\ OutputName.flenstr = FALSE /\ TempName.flenstr = TRUE
  BY DEF OutputName, TempName, FileNames
<1>2. GroupIn(n, s) \in Int
  <2>1. GroupIn(n, s) \in 0 .. n - 1
    BY GroupInIs, Zenon
  <2> QED
    BY <2>1
<1>3. \A c \in BOOLEAN : \A h \in Int : \A name \in FileNames :
        UniquifyFileName(name, c, h, t) \in FileNames
        /\ UniquifyFileName(name, c, h, t).flenstr = name.flenstr
  <2> SUFFICES ASSUME NEW c \in BOOLEAN, NEW h \in Int, NEW name \in FileNames
               PROVE  /\ UniquifyFileName(name, c, h, t) \in FileNames
                      /\ UniquifyFileName(name, c, h, t).flenstr = name.flenstr
    BY Zenon
  <2>1. /\ UniquifyFileName(name, TRUE, h, t) \in FileNames
        /\ UniquifyFileName(name, FALSE, h, t) \in FileNames
        /\ UniquifyFileName(name, TRUE, h, t).flenstr = name.flenstr
        /\ UniquifyFileName(name, FALSE, h, t).flenstr = name.flenstr
    <3>1. Unique(name, h, t)
      BY <1>1, UniqueName, Zenon
    <3> QED
      BY <3>1, Zenon DEF Unique
  <2>2. CASE c = TRUE
    BY <2>1, <2>2, Zenon
  <2>3. CASE c = FALSE
    BY <2>1, <2>3, Zenon
  <2> QED
    BY <2>2, <2>3, Zenon
<1>4. (m /\ n > 1) \in BOOLEAN
  BY Zenon
<1>5. Name(m, n, t, s) \in FileNames /\ Name(m, n, t, s).flenstr = FALSE
  BY <1>1, <1>2, <1>3, <1>4, Zenon DEF Name
<1>6. CopyName(m, n, t, s).flenstr = FALSE
  BY <1>2, <1>3, <1>5, Zenon DEF CopyName
<1>7. UniquifyFileName(TempName, b, g, t).flenstr = TRUE
  BY <1>1, <1>3, Zenon
<1> QED
  BY <1>5, <1>6, <1>7, Zenon

\* WriteH5Proc::post renames and copies the file of rank r, which is then complete.
LEMMA FinalizeFiles ==
  ASSUME NEW p, NEW l, NEW m, NEW n, NEW t, Now(p, l, m, n, t), NEW r \in Rank, Finalize(r),
         Posts(m, n, r)
  PROVE  FilesInv(p, m, n, t)'
<1> DEFINE F == File(m, n, r)
           final == FileName(r)
           temp == UniquifyFileName(TempName, CreateMultipleFiles(r), rank_pool[r], timeRank)
           renamed == With([x \in DOMAIN dir \ {final} |-> dir[x]], temp, dir[final])
           copied == With(renamed, SavedName(r), CopyInode(r))
<1>1. /\ pc[r] = "barrier" /\ Goto(r, "final") /\ varNumber' = varNumber
      /\ \A s \in Rank : Reached(s, "barrier")
  BY Zenon DEF Finalize, SaveBarrier, transfer
<1>2. /\ Reached(r, "info") /\ ~Reached(r, "final") /\ "final" \in Range(Phases) /\ AtLeast("final", "final")
      /\ Reached(r, "strlen")
  BY <1>1, PhaseOrder DEF Reached, AtLeast
<1>3. /\ n \in 1 .. NRanks /\ pc \in [Rank -> Range(Phases)] /\ FilesInv(p, m, n, t) /\ PhasesInv(n)
      /\ m \in BOOLEAN /\ t \in Nat \cup {-1} /\ TransferInv(p, l, n) /\ timeRank = t
  BY Zenon DEF Now, Ambient, PhasesInv, Fixed
<1>4. Known(m, n, t, r) /\ Lead(n, r) = r
  BY <1>2, PoolKnown, Zenon DEF Posts
<1>5. /\ DoesPost(r) /\ Inode(r) = F /\ CopyInode(r) = F + 1
      /\ final = Name(m, n, t, r) /\ SavedName(r) = CopyName(m, n, t, r)
  BY <1>4, Zenon DEF Known
<1>6. /\ disk' = With(disk, CopyInode(r), disk[Inode(r)])
      /\ dir' = [x \in DOMAIN copied \ {temp} |-> copied[x]]
  BY <1>5, Zenon DEF Finalize
<1>7. \A s \in Rank : Name(m, n, t, s) # temp /\ CopyName(m, n, t, s) # temp
  <2>1. rank_pool[r] \in Int
    <3>1. Computed(p, l, n, r)
      BY PoolValues, Zenon DEF Now
    <3>2. rank_pool[r] = GroupIn(n, r)
      BY <1>2, <1>4, <3>1, Zenon DEF Computed
    <3>3. GroupIn(n, r) \in 0 .. n - 1
      BY <1>3, GroupInIs, Zenon
    <3> QED
      BY <3>2, <3>3
  <2>2. CreateMultipleFiles(r) \in BOOLEAN
    BY Zenon DEF CreateMultipleFiles
  <2> QED
    BY <1>3, <2>1, <2>2, TempNameApart, Zenon
<1>8. /\ CopyName(m, n, t, r) \in DOMAIN dir' /\ dir'[CopyName(m, n, t, r)] = F + 1
      /\ \A x \in DOMAIN dir \ {Name(m, n, t, r), temp, CopyName(m, n, t, r)} :
           x \in DOMAIN dir' /\ dir'[x] = dir[x]
      /\ \A x \in DOMAIN dir' : x = CopyName(m, n, t, r) \/ (x \in DOMAIN dir /\ dir'[x] = dir[x])
  <2>1. SavedName(r) # temp
    BY <1>5, <1>7, Zenon
  <2>3. Renames(dir, final, temp, SavedName(r), CopyInode(r), dir')
    BY <1>6, Zenon DEF Renames
  <2> HIDE DEF temp, F, final
  <2>2. /\ SavedName(r) \in DOMAIN dir' /\ dir'[SavedName(r)] = CopyInode(r)
        /\ \A x \in DOMAIN dir \ {final, temp, SavedName(r)} :
             x \in DOMAIN dir' /\ dir'[x] = dir[x]
        /\ \A x \in DOMAIN dir' : x = SavedName(r) \/ (x \in DOMAIN dir /\ dir'[x] = dir[x])
    <3>1. Replaces(dir, final, temp, SavedName(r), CopyInode(r), dir')
      BY <2>1, <2>3, Renamed, Zenon
    <3> QED
      BY <3>1, Zenon DEF Replaces
  <2> QED
    BY <1>5, <2>2, Zenon
<1> HIDE DEF F, temp, final
<1>9. Extends(disk', F + 1, disk[F], disk)
  <2>1. Extends(With(disk, F + 1, disk[F]), F + 1, disk[F], disk)
    BY WithIs, Zenon
  <2> QED
    BY <1>5, <1>6, <2>1, Zenon
<1>10. \A s \in Rank : File(m, n, s) # F + 1
  BY FilesApart, Zenon DEF F
<1>11. \A s \in Rank : Reached(s, "strlen")
  BY <1>1, <1>3, PhaseOrder, ReachedBefore DEF AtLeast
<1>12. \A s \in Rank : Lead(n, s) = s => Written(p, m, n, s)
  BY <1>3, <1>11, Zenon DEF FilesInv
<1>13. \A s \in Rank : \A v \in DOMAIN Variables : v < varNumber[s]
  <2>1. \A s \in Rank : varNumber[s] = Len(Variables) + 1
    BY <1>1, <1>3, Zenon DEF TransferInv, AtVariable
  <2>2. \A v \in DOMAIN Variables : v < Len(Variables) + 1
    BY VariablesAssumption
  <2> QED
    BY <2>1, <2>2, Zenon
<1>14. ASSUME NEW s \in Rank, Lead(n, s) = s PROVE Written(p, m, n, s)'
  <2>1. Written(p, m, n, s)
    BY <1>12, <1>14, Zenon
  <2>2. File(m, n, s) \in DOMAIN disk' /\ disk'[File(m, n, s)] = disk[File(m, n, s)]
    BY <1>9, <1>10, <2>1, Zenon DEF Written, Extends
  <2> QED
    BY <1>1, <2>1, <2>2, Zenon DEF Written
<1>15. Copied(p, m, n, t, r)'
  <2>1. F + 1 \in DOMAIN disk' /\ disk'[F + 1] = disk[F]
    BY <1>9, Zenon DEF Extends
  <2>2. Shaped(p, m, n, r, disk[F])
    BY <1>4, <1>12, Zenon DEF Written, F
  <2>3. ASSUME NEW s \in Rank, Lead(n, s) = s, File(m, n, s) = F, NEW v \in DOMAIN Variables
        PROVE  Tiled(p, m, n, s, v, disk[F][v])
    BY <1>12, <1>13, <2>3, Zenon DEF Written
  <2> QED
    BY <1>8, <2>1, <2>2, <2>3, Zenon DEF Copied, F
<1>16. ASSUME NEW s \in Rank, Posts(m, n, s), s # r
       PROVE  IF Reached(s, "final") THEN Copied(p, m, n, t, s)' ELSE Linked(m, n, t, s)'
  <2>1. /\ Name(m, n, t, s) # Name(m, n, t, r) /\ CopyName(m, n, t, s) # CopyName(m, n, t, r)
        /\ Name(m, n, t, s) # CopyName(m, n, t, r) /\ CopyName(m, n, t, s) # Name(m, n, t, r)
    BY <1>3, <1>16, NamesDiffer
  <2>2. File(m, n, s) + 1 # F + 1
    <3>1. ~Parallel(m, n)
      BY <1>16, Zenon DEF Posts
    <3> QED
      BY <1>16, <3>1, FilesApart, Zenon DEF F
  <2>3. IF Reached(s, "final") THEN Copied(p, m, n, t, s) ELSE Linked(m, n, t, s)
    BY <1>3, <1>11, <1>16, Zenon DEF FilesInv
  <2>4. ASSUME Linked(m, n, t, s) PROVE Linked(m, n, t, s)'
    BY <1>7, <1>8, <2>1, <2>4, Zenon DEF Linked
  <2>5. ASSUME Copied(p, m, n, t, s) PROVE Copied(p, m, n, t, s)'
    <3>1. CopyName(m, n, t, s) \in DOMAIN dir' /\ dir'[CopyName(m, n, t, s)] = File(m, n, s) + 1
      BY <1>7, <1>8, <2>1, <2>5, Zenon DEF Copied
    <3>2. File(m, n, s) + 1 \in DOMAIN disk' /\ disk'[File(m, n, s) + 1] = disk[File(m, n, s) + 1]
      BY <1>9, <2>2, <2>5, Zenon DEF Copied, Extends
    <3> QED
      BY <2>5, <3>1, <3>2, Zenon DEF Copied
  <2> QED
    BY <2>3, <2>4, <2>5, Zenon
<1>17. \A s \in Rank : Reached(s, "final")' <=> s = r \/ Reached(s, "final")
  BY <1>1, <1>2, <1>3, GotoMoves, Zenon DEF AtLeast
<1>18. \A x \in DOMAIN dir' : dir'[x] \in DOMAIN disk'
  BY <1>3, <1>8, <1>9, Zenon DEF FilesInv, Extends
<1> QED
  BY <1>14, <1>15, <1>16, <1>17, <1>18, Zenon DEF FilesInv
=============================================================================
