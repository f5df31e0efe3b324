---------------------------- MODULE WriterSaveProofs ----------------------------
(***************************************************************************)
(* Proofs about the save of an obs space as a whole: PoolInv is inductive. *)
(* It implies that the files hold the patch values of all the ranks in     *)
(* order and that no message comes unexpected.                             *)
(***************************************************************************)
EXTENDS WriterFileProofs

-----------------------------------------------------------------------------
(* The inductive invariant *)

\* A rank that moves on without touching a file leaves what the invariant says of them.
LEMMA QuietMove ==
  ASSUME NEW p, NEW l, NEW m, NEW n, NEW t, Now(p, l, m, n, t), NEW r \in Rank,
         NEW q \in Range(Phases), Goto(r, q), disk' = disk, dir' = dir,
         \A s \in Rank \ {r} : varNumber'[s] = varNumber[s],
         Lead(n, r) = r => /\ varNumber'[r] = varNumber[r]
                           /\ AtLeast(q, "strlen") => Reached(r, "strlen"),
         Posts(m, n, r) /\ Reached(r, "strlen") => (AtLeast(q, "final") <=> Reached(r, "final"))
  PROVE  FilesInv(p, m, n, t)'
<1>1. pc \in [Rank -> Range(Phases)] /\ FilesInv(p, m, n, t)
  BY Zenon DEF Now, PhasesInv
<1>2. \A s \in Rank : \A x : Reached(s, x)' <=> IF s = r THEN AtLeast(q, x) ELSE Reached(s, x)
  BY <1>1, GotoMoves, Zenon DEF AtLeast
<1>3. ASSUME NEW s \in Rank, Lead(n, s) = s PROVE Quiet(m, n, s)
  <2>1. CASE s = r
    BY <1>2, <1>3, <2>1, Zenon DEF Quiet
  <2>2. CASE s # r
    BY <1>2, <2>2, Zenon DEF Quiet
  <2> QED
    BY <2>1, <2>2, Zenon
<1> QED
  BY <1>1, <1>3, FilesStay, Zenon

\* The steps before the transfer, and the one behind the last barrier.
LEMMA OutsideTransfer ==
  ASSUME NEW p, NEW l, NEW m, NEW n, NEW t, Now(p, l, m, n, t), NEW r \in Rank, NEW q,
         \/ pc[r] = "size" /\ q = "gather"
         \/ pc[r] = "gather" /\ q = "assign"
         \/ pc[r] = "assign" /\ q = "split"
         \/ pc[r] = "split" /\ q \in {"info", "open"}
         \/ pc[r] = "info" /\ q = "open"
         \/ pc[r] = "open" /\ q = "strlen"
         \/ pc[r] = "strlen" /\ q = "transfer"
         \/ pc[r] = "barrier" /\ q = "final"
         \/ pc[r] = "final" /\ q = "done",
         Goto(r, q), UNCHANGED transfer
  PROVE  /\ TransferInv(p, l, n)'
         /\ q \notin {"strlen", "final"} /\ UNCHANGED files => FilesInv(p, m, n, t)'
         /\ q = "strlen" /\ Lead(n, r) # r /\ UNCHANGED files => FilesInv(p, m, n, t)'
         /\ q = "final" /\ ~Posts(m, n, r) /\ UNCHANGED files => FilesInv(p, m, n, t)'
<1>1. /\ q \in Range(Phases) /\ pc[r] # "transfer" /\ AtLeast(q, pc[r])
      /\ q = "transfer" => ~Reached(r, "transfer")
      /\ AtLeast(q, "barrier") => Reached(r, "barrier")
  BY PhaseOrder DEF AtLeast, Reached
<1>2. TransferInv(p, l, n)'
  BY <1>1, TransferStays
<1>3. varNumber' = varNumber
  BY Zenon DEF transfer
<1>4. q # "strlen" /\ AtLeast(q, "strlen") => Reached(r, "strlen")
  BY PhaseOrder DEF AtLeast, Reached
<1>5. q # "final" => (AtLeast(q, "final") <=> Reached(r, "final"))
  BY PhaseOrder DEF AtLeast, Reached
<1>6. q = "strlen" => ~Reached(r, "strlen")
  BY PhaseOrder DEF AtLeast, Reached
<1>7. Posts(m, n, r) => Lead(n, r) = r
  BY Zenon DEF Posts
<1>8. ASSUME UNCHANGED files,
             q = "strlen" => Lead(n, r) # r,
             q = "final" => ~Posts(m, n, r)
      PROVE  FilesInv(p, m, n, t)'
  <2>1. disk' = disk /\ dir' = dir
    BY <1>8, Zenon DEF files
  <2>2. Lead(n, r) = r => varNumber'[r] = varNumber[r] /\ (AtLeast(q, "strlen") => Reached(r, "strlen"))
    BY <1>3, <1>4, <1>8, Zenon
  <2>3. Posts(m, n, r) /\ Reached(r, "strlen") => (AtLeast(q, "final") <=> Reached(r, "final"))
    BY <1>5, <1>8, Zenon
  <2>4. \A s \in Rank \ {r} : varNumber'[s] = varNumber[s]
    BY <1>3, Zenon
  <2> QED
    BY <1>1, <2>1, <2>2, <2>3, <2>4, QuietMove
<1>9. q = "strlen" => q # "final"
  OBVIOUS
<1> QED
  BY <1>2, <1>8, <1>9, Zenon

\* Every step of a rank keeps what is known of the phases, the pool, the transfer and
\* the files, when the inputs are p, l, m and t and the pool has n ranks.
LEMMA RankStep ==
  ASSUME NEW p, NEW l, NEW m, NEW n, NEW t, Now(p, l, m, n, t), NEW r \in Rank, Step(r)
  PROVE  /\ PhasesInv(n)' /\ PoolSet(p, l, n)' /\ TransferInv(p, l, n)' /\ FilesInv(p, m, n, t)'
         /\ UNCHANGED input
<1> DEFINE G == PhasesInv(n)' /\ PoolSet(p, l, n)'
           T == TransferInv(p, l, n)'
           D == FilesInv(p, m, n, t)'
           I == UNCHANGED input
<1>1. CASE SetTargetPoolSize(r)
  <2>1. pc[r] = "size" /\ Goto(r, "gather") /\ UNCHANGED transfer /\ UNCHANGED files /\ I
    BY <1>1, Zenon DEF SetTargetPoolSize
  <2>2. T /\ D
    BY <2>1, OutsideTransfer
  <2> QED
    BY <1>1, <2>1, <2>2, SetTargetPoolSizeStep, Zenon
<1>2. CASE GatherNlocs(r)
  <2>1. /\ pc[r] = "gather" /\ Goto(r, "assign") /\ UNCHANGED transfer /\ UNCHANGED files /\ I
        /\ UNCHANGED <<pool, strLen>>
    BY <1>2, Zenon DEF GatherNlocs
  <2>2. T /\ D
    BY <2>1, OutsideTransfer
  <2>3. G
    BY <2>1, FreeStep
  <2> QED
    BY <2>1, <2>2, <2>3, Zenon
<1>3. CASE AssignRanksToIoPool(r)
  <2>1. pc[r] = "assign" /\ Goto(r, "split") /\ UNCHANGED transfer /\ UNCHANGED files /\ I
    BY <1>3, Zenon DEF AssignRanksToIoPool
  <2>2. T /\ D
    BY <2>1, OutsideTransfer
  <2> QED
    BY <1>3, <2>1, <2>2, AssignRanksToIoPoolStep, Zenon
<1>4. CASE CreateIoPool(r)
  <2>1. /\ pc[r] = "split" /\ (Goto(r, "info") \/ Goto(r, "open"))
        /\ UNCHANGED transfer /\ UNCHANGED files /\ I
    BY <1>4, Zenon DEF CreateIoPool
  <2>2. T /\ D
    <3>1. CASE Goto(r, "info")
      BY <2>1, <3>1, OutsideTransfer
    <3>2. CASE Goto(r, "open")
      BY <2>1, <3>2, OutsideTransfer
    <3> QED
      BY <2>1, <3>1, <3>2, Zenon
  <2> QED
    BY <1>4, <2>1, <2>2, CreateIoPoolStep, Zenon
<1>5. CASE CollectSingleFileInfo(r)
  <2>1. pc[r] = "info" /\ Goto(r, "open") /\ UNCHANGED transfer /\ UNCHANGED files /\ I
    BY <1>5, Zenon DEF CollectSingleFileInfo
  <2>2. T /\ D
    BY <2>1, OutsideTransfer
  <2> QED
    BY <1>5, <2>1, <2>2, CollectSingleFileInfoStep, Zenon
<1>6. CASE OpenFile(r)
  <2>1. /\ pc[r] = "open" /\ Goto(r, "strlen") /\ UNCHANGED transfer /\ I
        /\ UNCHANGED <<pool, strLen>>
    BY <1>6, Zenon DEF OpenFile
  <2>2. T
    BY <2>1, OutsideTransfer
  <2>3. D
    <3>1. CASE Lead(n, r) = r
      BY <1>6, <3>1, OpenFileStep, Zenon
    <3>2. CASE Lead(n, r) # r
      <4>1. Reached(r, "info")
        BY <2>1, PhaseOrder DEF Reached
      <4>k. Known(m, n, t, r)
        BY <4>1, PoolKnown, Zenon
      <4>2. ~InPool(r)
        BY <3>2, <4>k, Zenon DEF Known
      <4>3. UNCHANGED files
        BY <1>6, <4>2, Zenon DEF OpenFile, files
      <4> QED
        BY <2>1, <3>2, <4>3, OutsideTransfer
    <3> QED
      BY <3>1, <3>2, Zenon
  <2>4. G
    BY <2>1, FreeStep
  <2> QED
    BY <2>1, <2>2, <2>3, <2>4, Zenon
<1>7. CASE CalcMaxStringLengths(r)
  <2>1. pc[r] = "strlen" /\ Goto(r, "transfer") /\ UNCHANGED transfer /\ UNCHANGED files /\ I
    BY <1>7, Zenon DEF CalcMaxStringLengths
  <2>2. T /\ D
    BY <2>1, OutsideTransfer
  <2> QED
    BY <1>7, <2>1, <2>2, CalcMaxStringLengthsStep, Zenon
<1>8. ASSUME NextVariable(r), pc[r] = "transfer", UNCHANGED <<pool, strLen>>
      PROVE  /\ G
             /\ Lead(n, r) # r /\ UNCHANGED files => D
  <2> DEFINE q == IF varNumber[r] = Len(Variables) THEN "barrier" ELSE "transfer"
  <2>1. q \in {"transfer", "barrier"} /\ Goto(r, q) /\ varNumber' = [varNumber EXCEPT ![r] = @ + 1]
    BY <1>8, Zenon DEF NextVariable
  <2> HIDE DEF q
  <2>2. G
    BY <1>8, <2>1, FreeStep
  <2>3. ASSUME Lead(n, r) # r, UNCHANGED files PROVE D
    <3>1. varNumber = [s \in Rank |-> varNumber[s]]
      BY Zenon DEF Now, TransferInv
    <3>2. \A s \in Rank \ {r} : varNumber'[s] = varNumber[s]
      BY <2>1, <3>1, Zenon
    <3>3. ~Posts(m, n, r)
      BY <2>3, Zenon DEF Posts
    <3>4. disk' = disk /\ dir' = dir
      BY <2>3, Zenon DEF files
    <3>5. q \in Range(Phases)
      BY <2>1, PhaseOrder
    <3> QED
      BY <2>1, <2>3, <3>2, <3>3, <3>4, <3>5, QuietMove
  <2> QED
    BY <2>2, <2>3, Zenon

<1>9. CASE TransferVarData(r)
  <2>1. pc[r] = "transfer" /\ NextVariable(r) /\ UNCHANGED <<pool, strLen>> /\ I /\ dir' = dir
    BY <1>9, Zenon DEF TransferVarData
  <2>2. T
    BY <1>9, TransferVarDataStep, Zenon
  <2>3. D
    <3>1. CASE Lead(n, r) = r
      BY <1>9, <3>1, TransferVarDataFiles, Zenon
    <3>2. CASE Lead(n, r) # r
      <4>0. Reached(r, "info")
        BY <2>1, PhaseOrder DEF Reached
      <4>k. Known(m, n, t, r)
        BY <4>0, PoolKnown, Zenon
      <4>1. ~InPool(r)
        BY <3>2, <4>k, Zenon DEF Known
      <4>2. UNCHANGED files
        BY <1>9, <4>1, Zenon DEF TransferVarData, files
      <4> QED
        BY <1>8, <2>1, <3>2, <4>2, Zenon
    <3> QED
      BY <3>1, <3>2, Zenon
  <2> QED
    BY <1>8, <2>1, <2>2, <2>3, Zenon
<1>10. ASSUME UNCHANGED pc, UNCHANGED varNumber, UNCHANGED files PROVE D
  <2>1. disk' = disk /\ dir' = dir /\ FilesInv(p, m, n, t)
    BY <1>10, Zenon DEF files, Now
  <2>2. \A s \in Rank : Quiet(m, n, s)
    BY <1>10, Zenon DEF Quiet, Reached
  <2> QED
    BY <2>1, <2>2, FilesStay, Zenon
<1>11. CASE SendVarData(r)
  <2>1. /\ UNCHANGED pc /\ UNCHANGED varNumber /\ UNCHANGED files /\ I
        /\ UNCHANGED <<pc, pool, strLen>>
    BY <1>11, Zenon DEF SendVarData
  <2> QED
    BY <1>10, <1>11, <2>1, SendVarDataStep, StayStep, Zenon
<1>12. CASE ReceiveVarData(r)
  <2>1. /\ UNCHANGED pc /\ UNCHANGED varNumber /\ UNCHANGED files /\ I
        /\ UNCHANGED <<pc, pool, strLen>>
    BY <1>12, Zenon DEF ReceiveVarData
  <2> QED
    BY <1>10, <1>12, <2>1, ReceiveVarDataStep, StayStep, Zenon
<1>13. CASE SendCompletes(r)
  <2>1. NextVariable(r) /\ UNCHANGED <<pool, strLen>> /\ I /\ UNCHANGED files /\ r \in waiting
    BY <1>13, Zenon DEF SendCompletes
  <2>2. pc[r] = "transfer" /\ T
    BY <1>13, SendCompletesStep, Zenon
  <2>3. Lead(n, r) # r
    BY <2>1, Zenon DEF Now, TransferInv, Waits
  <2> QED
    BY <1>8, <2>1, <2>2, <2>3, Zenon
<1>14. CASE WriteVarData(r)
  <2>1. pc[r] = "transfer" /\ NextVariable(r) /\ UNCHANGED <<pool, strLen>> /\ I
    BY <1>14, Zenon DEF WriteVarData
  <2> QED
    BY <1>8, <1>14, <2>1, WriteVarDataStep, WriteVarDataFiles, Zenon
<1>15. CASE Finalize(r)
  <2>1. pc[r] = "barrier" /\ Goto(r, "final") /\ UNCHANGED transfer /\ I
    BY <1>15, Zenon DEF Finalize
  <2>2. T
    BY <2>1, OutsideTransfer
  <2>3. D
    <3>1. CASE Posts(m, n, r)
      BY <1>15, <3>1, FinalizeFiles, Zenon
    <3>2. CASE ~Posts(m, n, r)
      <4>1. Reached(r, "info")
        BY <2>1, PhaseOrder DEF Reached
      <4>2. ~DoesPost(r)
        BY <3>2, <4>1, PoolKnown, Zenon DEF Known
      <4>3. UNCHANGED files
        BY <1>15, <4>2, Zenon DEF Finalize
      <4> QED
        BY <2>1, <3>2, <4>3, OutsideTransfer
    <3> QED
      BY <3>1, <3>2, Zenon
  <2> QED
    BY <1>15, <2>1, <2>2, <2>3, FinalizeStep, Zenon
<1>16. CASE LeaveSave(r)
  <2>1. /\ pc[r] = "final" /\ Goto(r, "done") /\ UNCHANGED transfer /\ UNCHANGED files /\ I
        /\ UNCHANGED <<pool, strLen>>
    BY <1>16, Zenon DEF LeaveSave
  <2>2. T /\ D
    BY <2>1, OutsideTransfer
  <2>3. G
    BY <2>1, FreeStep
  <2> QED
    BY <2>1, <2>2, <2>3, Zenon
<1> QED
  BY <1>1, <1>2, <1>3, <1>4, <1>5, <1>6, <1>7, <1>9, <1>11, <1>12, <1>13, <1>14, <1>15, <1>16,
     Zenon DEF Step

\* The pool is not larger than the communicator.
LEMMA TargetPoolSizeIs ==
  ASSUME maxPoolSize \in MaxPoolSizes
  PROVE  TargetPoolSize \in 1 .. NRanks
<1>1. maxPoolSize \in Nat
  BY SizesAssumption, Zenon
<1> DEFINE max == IF maxPoolSize > 0 THEN maxPoolSize ELSE defaultMaxPoolSize
<1>2. max \in Nat \ {0}
  BY <1>1 DEF defaultMaxPoolSize
<1>3. TargetPoolSize = IF NRanks <= max THEN NRanks ELSE max
  BY Zenon DEF TargetPoolSize
<1> HIDE DEF max
<1> QED
  BY <1>2, <1>3, SizesAssumption

\* What save starts with satisfies the inductive invariant.
LEMMA InitPoolInv == Init => PoolInv
<1> SUFFICES ASSUME Init PROVE PoolInv
  OBVIOUS
<1> DEFINE n == TargetPoolSize
           p == patchObsVec
           l == stringLength
           m == writeMultipleFiles
           t == timeRank
<1>1. InputType
  BY Zenon DEF Init, InputType
<1>2. n \in 1 .. NRanks
  BY TargetPoolSizeIs, Zenon DEF Init
<1> HIDE DEF n, p, l, m, t
<1>3. /\ pc = [r \in Rank |-> "size"] /\ pc \in [Rank -> Range(Phases)]
  BY PhaseOrder DEF Init
<1>4. \A r \in Rank : \A x \in Range(Phases) \ {"size"} : ~Reached(r, x)
  <2> SUFFICES ASSUME NEW r \in Rank, NEW x \in Range(Phases) \ {"size"} PROVE ~Reached(r, x)
    BY Zenon
  <2>1. pc[r] = "size"
    BY <1>3, Zenon
  <2> QED
    BY <2>1, PhaseOrder DEF Reached
<1>5. \A r \in Rank : /\ ~Reached(r, "gather") /\ ~Reached(r, "assign") /\ ~Reached(r, "split")
                      /\ ~Reached(r, "info") /\ ~Reached(r, "open") /\ ~Reached(r, "strlen")
                      /\ ~Reached(r, "transfer") /\ ~Reached(r, "barrier") /\ ~Reached(r, "final")
                      /\ pc[r] = "size"
  BY <1>3, <1>4, PhaseOrder
<1>6. PhasesInv(n)
  BY <1>3, <1>5 DEF PhasesInv
<1>7. PoolSet(p, l, n)
  <2>1. /\ target_pool_size = [r \in Rank |-> 0] /\ rank_assignment = [r \in Rank |-> <<>>]
        /\ rank_pool = [r \in Rank |-> -1] /\ size_pool = [r \in Rank |-> -1]
        /\ total_nlocs = [r \in Rank |-> 0] /\ global_nlocs = [r \in Rank |-> 0]
        /\ nlocs_start = [r \in Rank |-> 0] /\ strLen = [r \in Rank |-> 0]
    BY Zenon DEF Init
  <2>2. /\ target_pool_size = [r \in Rank |-> IF Reached(r, "gather") THEN n ELSE 0]
        /\ rank_assignment = [r \in Rank |-> IF Reached(r, "split") THEN Assignment(p, n, r) ELSE <<>>]
        /\ strLen = [r \in Rank |-> IF Reached(r, "transfer") THEN CellLength(p, l) ELSE 0]
    BY <1>5, <2>1, Zenon
  <2>3. rank_pool = [r \in Rank |-> IF Reached(r, "info") /\ Lead(n, r) = r THEN GroupIn(n, r) ELSE -1]
    BY <1>5, <2>1, Zenon
  <2>4. size_pool = [r \in Rank |-> IF Reached(r, "info") /\ Lead(n, r) = r THEN n ELSE -1]
    BY <1>5, <2>1, Zenon
  <2>5. total_nlocs = [r \in Rank |-> IF Reached(r, "info") /\ Lead(n, r) = r
                                     THEN Below(p, 1, GroupEnd(n, r)) - Below(p, 1, r) ELSE 0]
    BY <1>5, <2>1, Zenon
  <2>6. global_nlocs = [r \in Rank |-> IF Reached(r, "open") /\ Lead(n, r) = r
                                      THEN Below(p, 1, NRanks) ELSE 0]
    BY <1>5, <2>1, Zenon
  <2>7. nlocs_start = [r \in Rank |-> IF Reached(r, "open") /\ Lead(n, r) = r
                                     THEN Below(p, 1, r) ELSE 0]
    BY <1>5, <2>1, Zenon
  <2> QED
    BY <2>2, <2>3, <2>4, <2>5, <2>6, <2>7, Zenon DEF PoolSet
<1>8. TransferInv(p, l, n)
  <2>1. /\ varNumber = [r \in Rank |-> 1] /\ arrived = [r \in Rank |-> <<>>]
        /\ msgs = {} /\ waiting = {}
    BY Zenon DEF Init
  <2>2. \A r \in Rank : varNumber[r] = 1 /\ arrived[r] = <<>> /\ DOMAIN arrived[r] = {}
    BY <2>1
  <2>3. varNumber = [r \in Rank |-> varNumber[r]] /\ arrived = [r \in Rank |-> arrived[r]]
    BY <2>1, Zenon
  <2>4. ASSUME NEW r \in Rank PROVE AtVariable(r)
    <3>1. 1 \in 1 .. Len(Variables) + 1
      BY VariablesAssumption
    <3> QED
      BY <1>5, <2>2, <3>1 DEF AtVariable
  <2>5. ASSUME NEW r \in Rank PROVE Receives(n, r)
    BY <2>2, Zenon DEF Receives
  <2>6. ASSUME NEW r \in Rank PROVE HasAll(n, r)
    <3>1. \A v \in DOMAIN Variables : ~(1 > v)
      BY VariablesAssumption
    <3> QED
      BY <2>2, <3>1, Zenon DEF HasAll
  <2>7. \A r \in Rank : \A k \in DOMAIN arrived[r] : Block(p, n, r, k)
    BY <2>2, Zenon
  <2> QED
    BY <2>1, <2>3, <2>4, <2>5, <2>6, <2>7, Zenon DEF TransferInv
<1>9. FilesInv(p, m, n, t)
  <2>1. DOMAIN dir = {}
    BY DEF Init
  <2> QED
    BY <1>5, <2>1, Zenon DEF FilesInv
<1> QED
  BY <1>1, <1>6, <1>7, <1>8, <1>9, Zenon DEF PoolInv, n, p, l, m, t

\* The invariant for given inputs.
LEMMA PoolInvNow ==
  ASSUME PoolInv
  PROVE  Now(patchObsVec, stringLength, writeMultipleFiles, TargetPoolSize, timeRank)
<1>1. /\ patchObsVec \in [Rank -> PatchVectors] /\ stringLength \in [Rank -> StringLengths]
      /\ maxPoolSize \in MaxPoolSizes /\ writeMultipleFiles \in BOOLEAN /\ timeRank \in TimeRanks
  BY Zenon DEF PoolInv, InputType
<1>2. TargetPoolSize \in 1 .. NRanks
  BY <1>1, TargetPoolSizeIs, Zenon
<1>3. patchObsVec \in Flags /\ stringLength \in [Rank -> Nat] /\ timeRank \in Nat \cup {-1}
  BY <1>1, PatchAssumption, TimeAssumption DEF Flags
<1> QED
  BY <1>1, <1>2, <1>3, Zenon DEF Now, Ambient, Fixed, PoolInv

\* ObsSpace::save keeps the inductive invariant: the ranks agree about the pool, the data
\* of a variable is in flight, received or written, and the files hold what has been written.
THEOREM PoolInvariance == Spec => []PoolInv
<1>1. Init => PoolInv
  BY InitPoolInv
<1>2. PoolInv /\ [Next]_vars => PoolInv'
  <2> SUFFICES ASSUME PoolInv, [Next]_vars,
                      NEW p, p = patchObsVec, NEW l, l = stringLength,
                      NEW m, m = writeMultipleFiles, NEW n, n = TargetPoolSize,
                      NEW t, t = timeRank
               PROVE  PoolInv'
    BY Zenon
  <2>1. Now(p, l, m, n, t)
    BY PoolInvNow, Zenon
  <2>2. ASSUME UNCHANGED input, PhasesInv(n)', PoolSet(p, l, n)', TransferInv(p, l, n)',
               FilesInv(p, m, n, t)'
        PROVE  PoolInv'
    <3>1. /\ patchObsVec' = p /\ stringLength' = l /\ writeMultipleFiles' = m /\ timeRank' = t
          /\ maxPoolSize' = maxPoolSize
      BY <2>2, Zenon DEF input
    <3>2. TargetPoolSize' = n
      BY <3>1, Zenon DEF TargetPoolSize
    <3>3. InputType'
      BY <3>1, Zenon DEF PoolInv, InputType
    <3> QED
      BY <2>2, <3>1, <3>2, <3>3, Zenon DEF PoolInv
  <2>3. CASE \E r \in Rank : Step(r)
    BY <2>1, <2>2, <2>3, RankStep, Zenon
  <2>4. CASE UNCHANGED vars
    <3>1. UNCHANGED input /\ UNCHANGED <<pc, pool, strLen>> /\ UNCHANGED transfer /\ UNCHANGED files
      BY <2>4, Zenon DEF vars
    <3>2. PhasesInv(n)' /\ PoolSet(p, l, n)'
      BY <2>1, <3>1, StayStep, Zenon
    <3>3. TransferInv(p, l, n)'
      <4>1. /\ pc' = pc /\ varNumber' = varNumber /\ msgs' = msgs /\ waiting' = waiting
            /\ arrived' = arrived /\ TransferInv(p, l, n)
        BY <2>1, <3>1, Zenon DEF transfer, Now
      <4>2. \A r \in Rank : AtVariable(r)' /\ Receives(n, r)' /\ HasAll(n, r)'
        <5> SUFFICES ASSUME NEW r \in Rank PROVE AtVariable(r)' /\ Receives(n, r)' /\ HasAll(n, r)'
          BY Zenon
        <5>1. AtVariable(r) /\ Receives(n, r) /\ HasAll(n, r)
          BY <4>1, Zenon DEF TransferInv
        <5>2. AtVariable(r)'
          BY <4>1, <5>1, Zenon DEF AtVariable, Reached
        <5>3. Receives(n, r)'
          BY <4>1, <5>1, Zenon DEF Receives
        <5>4. HasAll(n, r)'
          BY <4>1, <5>1, Zenon DEF HasAll, Sent
        <5> QED
          BY <5>2, <5>3, <5>4, Zenon
      <4>3. \A r \in Rank : \A k \in DOMAIN arrived[r] : Block(p, n, r, k)'
        BY <4>1, Zenon DEF TransferInv, Block, Sent
      <4>4. \A s \in waiting : Waits(n, s)'
        BY <4>1, Zenon DEF TransferInv, Waits
      <4>5. \A x \in msgs : \E s \in Rank, v \in DOMAIN Variables : InFlight(p, l, n, x, s, v)'
        <5>1. ASSUME NEW x, NEW s, NEW v, InFlight(p, l, n, x, s, v)
              PROVE  InFlight(p, l, n, x, s, v)'
          BY <4>1, <5>1, Zenon DEF InFlight, Sent, Reached
        <5> QED
          BY <4>1, <5>1, Zenon DEF TransferInv
      <4> QED
        BY <4>1, <4>2, <4>3, <4>4, <4>5, Zenon DEF TransferInv
    <3>4. FilesInv(p, m, n, t)'
      <4>1. disk' = disk /\ dir' = dir /\ FilesInv(p, m, n, t)
        BY <2>1, <3>1, Zenon DEF files, Now
      <4>2. pc' = pc /\ varNumber' = varNumber
        BY <3>1, Zenon DEF transfer
      <4>3. \A s \in Rank : Quiet(m, n, s)
        BY <4>2, Zenon DEF Quiet, Reached
      <4> QED
        BY <4>1, <4>3, FilesStay, Zenon
    <3> QED
      BY <2>2, <3>1, <3>2, <3>3, <3>4, Zenon
  <2> QED
    BY <2>3, <2>4, Zenon DEF Next, Terminated
<1> QED
  BY <1>1, <1>2, PTL DEF Spec

-----------------------------------------------------------------------------
(* What the invariant implies *)

\* The number of patch locations of all ranks.
LEMMA AllLocations ==
  ASSUME NEW p \in Flags
  PROVE  SumBelow([r \in Rank |-> Cardinality({i \in DOMAIN p[r] : p[r][i]})], NRanks)
         = Below(p, 1, NRanks)
<1>1. \A r \in Rank : CountTrue(p[r]) \in Nat
  BY CountTrueIs, Zenon DEF Flags
<1>2. \A r \in Rank : CountTrue(p[r]) * 1 = CountTrue(p[r])
  BY <1>1
<1>3. [r \in Rank |-> CountTrue(p[r]) * 1]
      = [r \in Rank |-> Cardinality({i \in DOMAIN p[r] : p[r][i]})]
  BY <1>2, Zenon DEF CountTrue
<1> QED
  BY <1>3, Zenon DEF Below

\* The invariant implies the types.
LEMMA PoolInvTypes ==
  ASSUME NEW p, NEW l, NEW m, NEW n, NEW t, Now(p, l, m, n, t)
  PROVE  TypeOK
<1> DEFINE all == SumBelow([r \in Rank |-> Cardinality({i \in DOMAIN patchObsVec[r] : patchObsVec[r][i]})],
                           NRanks)
<1>1. /\ p \in Flags /\ n \in 1 .. NRanks /\ patchObsVec = p
      /\ PhasesInv(n) /\ PoolSet(p, l, n) /\ TransferInv(p, l, n) /\ FilesInv(p, m, n, t)
  BY Zenon DEF Now, Ambient, Fixed
<1>2. all = Below(p, 1, NRanks)
  BY <1>1, AllLocations, Zenon
<1> HIDE DEF all
<1>3. 1 \in Nat /\ NRanks \in 0 .. NRanks /\ Rank = 0 .. NRanks - 1 /\ NRanks \in Nat
  BY SizesAssumption DEF Rank
<1>4. all \in Nat
  BY <1>1, <1>2, <1>3, BelowStep, Zenon
<1>5. ASSUME NEW r \in Rank
      PROVE  /\ target_pool_size[r] \in 0 .. NRanks
             /\ rank_pool[r] \in -1 .. NRanks - 1 /\ size_pool[r] \in -1 .. NRanks
             /\ total_nlocs[r] \in 0 .. all /\ global_nlocs[r] \in 0 .. all
             /\ nlocs_start[r] \in 0 .. all
  <2>1. Computed(p, l, n, r)
    BY <1>1, PoolValues, Zenon
  <2>2. /\ GroupIn(n, r) \in 0 .. n - 1 /\ GroupEnd(n, r) \in 1 .. NRanks /\ r < GroupEnd(n, r)
    BY <1>1, GroupInIs, GroupFacts, Zenon
  <2>3. r \in 0 .. NRanks /\ GroupEnd(n, r) \in 0 .. NRanks /\ r <= GroupEnd(n, r)
        /\ r <= NRanks /\ GroupEnd(n, r) <= NRanks
    BY <1>3, <2>2
  <2>4. /\ Below(p, 1, r) \in Nat /\ Below(p, 1, GroupEnd(n, r)) \in Nat
    BY <1>1, <1>3, <2>3, BelowStep, Zenon
  <2>5. /\ Below(p, 1, r) <= Below(p, 1, GroupEnd(n, r))
        /\ Below(p, 1, GroupEnd(n, r)) <= Below(p, 1, NRanks)
        /\ Below(p, 1, r) <= Below(p, 1, NRanks)
    BY <1>1, <1>3, <2>3, BelowOrder, Zenon
  <2>6. target_pool_size[r] \in {0, n} /\ rank_pool[r] \in {-1, GroupIn(n, r)} /\ size_pool[r] \in {-1, n}
    BY <2>1, Zenon DEF Computed
  <2>7. /\ total_nlocs[r] \in {0, Below(p, 1, GroupEnd(n, r)) - Below(p, 1, r)}
        /\ global_nlocs[r] \in {0, Below(p, 1, NRanks)} /\ nlocs_start[r] \in {0, Below(p, 1, r)}
    BY <2>1, Zenon DEF Computed
  <2>8. /\ target_pool_size[r] \in 0 .. NRanks
        /\ rank_pool[r] \in -1 .. NRanks - 1 /\ size_pool[r] \in -1 .. NRanks
    BY <1>1, <1>3, <2>2, <2>6
  <2>9. /\ total_nlocs[r] \in 0 .. all /\ global_nlocs[r] \in 0 .. all
        /\ nlocs_start[r] \in 0 .. all
    BY <1>2, <1>4, <2>4, <2>5, <2>7
  <2> QED
    BY <2>8, <2>9, Zenon
<1>6. /\ target_pool_size = [r \in Rank |-> target_pool_size[r]]
      /\ rank_pool = [r \in Rank |-> rank_pool[r]] /\ size_pool = [r \in Rank |-> size_pool[r]]
      /\ total_nlocs = [r \in Rank |-> total_nlocs[r]] /\ global_nlocs = [r \in Rank |-> global_nlocs[r]]
      /\ nlocs_start = [r \in Rank |-> nlocs_start[r]]
  BY <1>1, Zenon DEF PoolSet
<1>7. /\ target_pool_size \in [Rank -> 0 .. NRanks]
      /\ rank_pool \in [Rank -> -1 .. NRanks - 1] /\ size_pool \in [Rank -> -1 .. NRanks]
  BY <1>5, <1>6, Zenon
<1>8. /\ total_nlocs \in [Rank -> 0 .. all] /\ global_nlocs \in [Rank -> 0 .. all]
      /\ nlocs_start \in [Rank -> 0 .. all]
  BY <1>5, <1>6, Zenon
<1>9. varNumber \in [Rank -> 1 .. Len(Variables) + 1]
  <2>1. \A r \in Rank : varNumber[r] \in 1 .. Len(Variables) + 1
    BY <1>1, Zenon DEF TransferInv, AtVariable
  <2>2. varNumber = [r \in Rank |-> varNumber[r]]
    BY <1>1, Zenon DEF TransferInv
  <2> QED
    BY <2>1, <2>2, Zenon
<1>10. waiting \subseteq Rank
  BY <1>1, Zenon DEF TransferInv, Waits
<1> QED
  BY <1>1, <1>7, <1>8, <1>9, <1>10, Zenon DEF TypeOK, PhasesInv, FilesInv, all

\* The invariant implies that every message is expected.
LEMMA PoolInvMessages ==
  ASSUME NEW p, NEW l, NEW m, NEW n, NEW t, Now(p, l, m, n, t)
  PROVE  MessagesExpected
<1>1. /\ p \in Flags /\ n \in 1 .. NRanks
      /\ PhasesInv(n) /\ PoolSet(p, l, n) /\ TransferInv(p, l, n)
  BY Zenon DEF Now, Ambient
<1> SUFFICES ASSUME NEW x \in msgs
             PROVE  /\ InPool(x.to)
                    /\ \A v \in DOMAIN Variables : x.tag = Tag(x.from, v) =>
                         /\ varNumber[x.to] <= v
                         /\ \E k \in DOMAIN rank_assignment[x.to] :
                              rank_assignment[x.to][k][1] = x.from
                              /\ Len(x.data) = rank_assignment[x.to][k][2] * Variables[v].dimFactor
  BY Zenon DEF MessagesExpected
<1>2. PICK s \in Rank, w \in DOMAIN Variables : InFlight(p, l, n, x, s, w)
  BY <1>1, Zenon DEF TransferInv
<1>3. /\ x = Message(p, l, n, s, w) /\ Reached(s, "transfer") /\ Lead(n, s) # s
      /\ varNumber[Lead(n, s)] <= w
  BY <1>2, Zenon DEF InFlight
<1>4. x.from = s /\ x.to = Lead(n, s) /\ x.tag = Tag(s, w) /\ x.data = Values(p, s, w)
  BY <1>3 DEF Message
<1> DEFINE r == Lead(n, s)
<1>5. r \in Rank /\ Lead(n, r) = r
  BY <1>1, GroupFacts, Zenon
<1>6. s - r \in 1 .. GroupEnd(n, r) - r - 1 /\ r + (s - r) = s
  <2>1. r <= s /\ s < GroupEnd(n, r) /\ GroupEnd(n, r) \in 1 .. NRanks
    BY <1>1, GroupFacts, Zenon
  <2> HIDE DEF r
  <2>2. r # s
    BY <1>3, Zenon DEF r
  <2> QED
    BY <1>5, <2>1, <2>2 DEF Rank
<1> HIDE DEF r
<1>7. Reached(r, "strlen")
  BY <1>1, <1>3, <1>5, Zenon DEF PhasesInv
<1>8. Reached(r, "info") /\ Reached(r, "split")
  BY <1>1, <1>5, <1>7, PhaseOrder, ReachedBefore DEF AtLeast
<1>9. rank_pool[r] = GroupIn(n, r) /\ rank_assignment[r] = Assignment(p, n, r)
  <2>1. Computed(p, l, n, r)
    BY <1>1, <1>5, PoolValues, Zenon
  <2> QED
    BY <1>5, <1>8, <2>1, Zenon DEF Computed
<1>10. InPool(r)
  <2>1. GroupIn(n, r) \in 0 .. n - 1
    BY <1>1, <1>5, GroupInIs, Zenon
  <2> QED
    BY <1>9, <2>1 DEF InPool
<1>11. /\ s - r \in DOMAIN rank_assignment[r]
       /\ rank_assignment[r][s - r] = <<s, CountTrue(p[s])>>
  <2>1. Lists(p, n, r, Assignment(p, n, r))
    BY <1>1, <1>5, AssignmentLists, Zenon
  <2> QED
    BY <1>6, <1>9, <2>1, Zenon DEF Lists
<1>12. Len(Values(p, s, w)) = CountTrue(p[s]) * Variables[w].dimFactor
  BY <1>1, <1>2, ValuesLength, Zenon
<1>13. ASSUME NEW v \in DOMAIN Variables, x.tag = Tag(x.from, v) PROVE v = w
  <2>1. v \in Nat /\ w \in Nat
    BY VariablesAssumption
  <2> QED
    BY <1>4, <1>13, <2>1, TagIs, Zenon
<1>14. rank_assignment[r][s - r][1] = s /\ rank_assignment[r][s - r][2] = CountTrue(p[s])
  BY <1>11
<1>15. x.to = r
  BY <1>4, Zenon DEF r
<1>16. \E k \in DOMAIN rank_assignment[x.to] :
         rank_assignment[x.to][k][1] = x.from
         /\ Len(x.data) = rank_assignment[x.to][k][2] * Variables[w].dimFactor
  BY <1>4, <1>11, <1>12, <1>14, <1>15, Zenon
<1>17. varNumber[x.to] <= w
  BY <1>3, <1>15, Zenon DEF r
<1> QED
  BY <1>10, <1>13, <1>15, <1>16, <1>17, Zenon

\* The pool's state is well-typed, and no rank receives data of another sender, variable or
\* size than it has prepared for: calcVarStartsCounts on the receiver and selectPatchValues
\* on the sender agree, and the tags of transferVarDataMPI tell variables of a sender apart.
THEOREM PoolIsConsistent == Spec => []PoolConsistent
<1>1. PoolInv => PoolConsistent
  <2> SUFFICES ASSUME PoolInv PROVE TypeOK /\ MessagesExpected
    BY Zenon DEF PoolConsistent
  <2>1. Now(patchObsVec, stringLength, writeMultipleFiles, TargetPoolSize, timeRank)
    BY PoolInvNow, Zenon
  <2>2. TypeOK
    BY <2>1, PoolInvTypes, Zenon
  <2>3. MessagesExpected
    BY <2>1, PoolInvMessages, Zenon
  <2> QED
    BY <2>2, <2>3, Zenon
<1> QED
  BY <1>1, PoolInvariance, PTL

\* Every place of a variable with f values per location is that of a value of some rank.
LEMMA BelowCovers ==
  ASSUME NEW p \in Flags, NEW f \in Nat, NEW x \in 1 .. Below(p, f, NRanks)
  PROVE  \E r \in Rank : \E k \in 1 .. CountTrue(p[r]) * f : x = Below(p, f, r) + k
<1> DEFINE Covered(y) == \E r \in Rank : \E k \in 1 .. CountTrue(p[r]) * f : y = Below(p, f, r) + k
           S == {s \in 0 .. NRanks : \A y \in 1 .. Below(p, f, s) : Covered(y)}
<1>1. /\ Below(p, f, 0) = 0
      /\ \A s \in 0 .. NRanks : Below(p, f, s) \in Nat
      /\ \A s \in Rank : Below(p, f, s + 1) = Below(p, f, s) + CountTrue(p[s]) * f
  BY BelowStep, Zenon
<1>2. NRanks \in Nat /\ Rank = 0 .. NRanks - 1
  BY SizesAssumption DEF Rank
<1>3. 0 \in S
  <2>1. 1 .. Below(p, f, 0) = {} /\ 0 \in 0 .. NRanks
    BY <1>1, <1>2
  <2> QED
    BY <2>1, Zenon
<1>4. ASSUME NEW s \in 0 .. NRanks - 1, s \in S PROVE s + 1 \in S
  <2>1. s \in Rank /\ s + 1 \in 0 .. NRanks /\ s \in 0 .. NRanks
    BY <1>2
  <2>2. ASSUME NEW y \in 1 .. Below(p, f, s + 1) PROVE Covered(y)
    <3> DEFINE b == Below(p, f, s)
               c == CountTrue(p[s]) * f
    <3>1. b \in Nat /\ Below(p, f, s + 1) = b + c /\ b + c \in Nat
      BY <1>1, <2>1, Zenon
    <3>2. CASE y \in 1 .. b
      BY <1>4, <3>2, Zenon
    <3>3. CASE y \notin 1 .. b
      <4> HIDE DEF b, c
      <4>1. c \in Int
        <5>1. CountTrue(p[s]) \in Nat
          BY <2>1, CountTrueIs, Zenon DEF Flags
        <5> QED
          BY <5>1 DEF c
      <4>2. y - b \in 1 .. c /\ y = b + (y - b)
        BY <2>2, <3>1, <3>3, <4>1
      <4> QED
        BY <2>1, <4>2, Zenon DEF b, c
    <3> QED
      BY <3>2, <3>3, Zenon
  <2> QED
    BY <2>1, <2>2, Zenon
<1>5. 0 .. NRanks \subseteq S
  <2> HIDE DEF S
  <2> QED
    BY <1>2, <1>3, <1>4, InductionTo
<1>6. NRanks \in 0 .. NRanks
  BY <1>2
<1>7. NRanks \in S
  BY <1>5, <1>6, Zenon
<1> QED
  BY <1>7, Zenon

\* The values of all the ranks, joined in the order of the ranks.
LEMMA ValuesJoined ==
  ASSUME NEW p \in Flags, NEW v \in DOMAIN Variables, NEW f, f = Variables[v].dimFactor,
         NEW xs, xs = [r \in Rank |-> Values(p, r, v)]
  PROVE  /\ RankAfterRank(xs, NRanks, Rank \X Nat \X Nat)
         /\ \A s \in 0 .. NRanks : Len(Joined(xs, s)) = Below(p, f, s)
<1>1. NRanks \in Nat /\ Rank = 0 .. NRanks - 1
  BY SizesAssumption DEF Rank
<1>2. \A r \in 0 .. NRanks - 1 : /\ xs[r] \in Seq(Rank \X Nat \X Nat)
                                 /\ Len(xs[r]) = CountTrue(p[r]) * f
  BY <1>1, ValuesLength, Zenon
<1>3. RankAfterRank(xs, NRanks, Rank \X Nat \X Nat)
  BY <1>1, <1>2, JoinedElements, Zenon
<1>4. ASSUME NEW s \in 0 .. NRanks PROVE Len(Joined(xs, s)) = Below(p, f, s)
  <2> DEFINE c == [r \in Rank |-> CountTrue(p[r]) * f]
  <2>1. s \in Nat /\ \A k \in 0 .. s - 1 : k \in 0 .. NRanks - 1
    BY <1>1
  <2>2. \A k \in 0 .. s - 1 : c[k] = Len(xs[k])
    BY <1>1, <1>2, <2>1, Zenon
  <2>3. \A k \in 0 .. s - 1 : xs[k] \in Seq(Rank \X Nat \X Nat)
    BY <1>2, <2>1, Zenon
  <2> HIDE DEF c
  <2>4. SumBelow(c, s) = Len(Joined(xs, s))
    BY <2>1, <2>2, <2>3, SumOfLengths
  <2> QED
    BY <2>4, Zenon DEF Below, c
<1> QED
  BY <1>3, <1>4, Zenon

\* The number of files.  Without parallel io each rank of the pool has one.
Files(m, n) == IF Parallel(m, n) THEN 1 ELSE n

\* The i-th file begins where the one before it ends, and the last one ends with the
\* values of the last rank.
LEMMA FileOrder ==
  ASSUME NEW p \in Flags, NEW m, NEW n \in 1 .. NRanks, NEW f \in Nat,
         NEW i \in 0 .. Files(m, n) - 1
  PROVE  /\ Start(n, i) \in Rank /\ Posts(m, n, Start(n, i))
         /\ i = 0 => FileStart(p, m, n, Start(n, i), f) = 0
         /\ i + 1 \in 0 .. Files(m, n) - 1 =>
              FileStart(p, m, n, Start(n, i + 1), f) = FileEnd(p, m, n, Start(n, i), f)
         /\ i + 1 = Files(m, n) => FileEnd(p, m, n, Start(n, i), f) = Below(p, f, NRanks)
<1>1. i \in 0 .. n - 1
  BY DEF Files
<1>2. /\ Start(n, i) \in Rank /\ Lead(n, Start(n, i)) = Start(n, i)
      /\ GroupEnd(n, Start(n, i)) = Start(n, i + 1)
  BY <1>1, LeadIs, Zenon
<1>3. Start(n, 0) = 0 /\ Start(n, n) = NRanks
  BY StartStep, StartLast, Zenon
<1>4. CASE Parallel(m, n)
  <2>1. i = 0 /\ ~(i + 1 \in 0 .. Files(m, n) - 1)
    BY <1>4 DEF Files
  <2>2. Posts(m, n, Start(n, i))
    BY <1>2, <1>3, <2>1, Zenon DEF Posts
  <2> QED
    BY <1>2, <1>4, <2>1, <2>2, Zenon DEF FileStart, FileEnd
<1>5. CASE ~Parallel(m, n)
  <2>1. Files(m, n) = n
    BY <1>5, Zenon DEF Files
  <2>2. Posts(m, n, Start(n, i))
    BY <1>2, <1>5, Zenon DEF Posts
  <2>3. /\ FileStart(p, m, n, Start(n, i), f) = Below(p, f, Start(n, i))
        /\ FileStart(p, m, n, Start(n, i + 1), f) = Below(p, f, Start(n, i + 1))
        /\ FileEnd(p, m, n, Start(n, i), f) = Below(p, f, Start(n, i + 1))
    BY <1>2, <1>5, Zenon DEF FileStart, FileEnd
  <2>4. Below(p, f, 0) = 0
    BY BelowStep, Zenon
  <2> QED
    BY <1>2, <1>3, <2>1, <2>2, <2>3, <2>4, Zenon
<1> QED
  BY <1>4, <1>5, Zenon

\* The i-th file has e, with as many values as its ranks
Sized(p, m, n, f, S, i, e) ==
  /\ e \in Seq(S)
  /\ Len(e) = FileEnd(p, m, n, Start(n, i), f) - FileStart(p, m, n, Start(n, i), f)

FilesSized(p, m, n, f, S, d) == \A i \in 0 .. Files(m, n) - 1 : Sized(p, m, n, f, S, i, d[i])
FilesInOrder(p, m, n, f, S, d) ==
  /\ RankAfterRank(d, Files(m, n), S)
  /\ \A i \in 0 .. Files(m, n) - 1 : Len(Joined(d, i)) = FileStart(p, m, n, Start(n, i), f)
  /\ Len(Joined(d, Files(m, n))) = Below(p, f, NRanks)

\* The contents d of the files, joined in their order: where each of them begins.
LEMMA FilesJoined ==
  ASSUME NEW p \in Flags, NEW m, NEW n \in 1 .. NRanks, NEW f \in Nat, NEW d, NEW S,
         FilesSized(p, m, n, f, S, d)
  PROVE  FilesInOrder(p, m, n, f, S, d)
<1> DEFINE N == Files(m, n)
           from(i) == FileStart(p, m, n, Start(n, i), f)
           upto(i) == FileEnd(p, m, n, Start(n, i), f)
           T == {i \in 0 .. N : IF i = N THEN Len(Joined(d, i)) = Below(p, f, NRanks)
                                ELSE Len(Joined(d, i)) = from(i)}
<1>1. N \in Nat /\ N >= 1
  BY DEF Files
<1>2. RankAfterRank(d, N, S)
  <2>1. \A i \in 0 .. N - 1 : d[i] \in Seq(S)
    BY Zenon DEF FilesSized, Sized
  <2> QED
    BY <1>1, <2>1, JoinedElements, Zenon
<1>3. /\ Joined(d, 0) = <<>>
      /\ \A i \in 0 .. N : Joined(d, i) \in Seq(S)
      /\ \A i \in 0 .. N - 1 : Joined(d, i + 1) = Joined(d, i) \o d[i]
  <2>1. \A i \in 0 .. N - 1 : d[i] \in Seq(S)
    BY Zenon DEF FilesSized, Sized
  <2> QED
    BY <1>1, <2>1, JoinedStep, Zenon
<1>4. ASSUME NEW i \in 0 .. N - 1
      PROVE  /\ i = 0 => from(i) = 0
             /\ i + 1 \in 0 .. N - 1 => from(i + 1) = upto(i)
             /\ i + 1 = N => upto(i) = Below(p, f, NRanks)
             /\ from(i) \in Nat /\ upto(i) \in Nat
             /\ d[i] \in Seq(S) /\ Len(d[i]) = upto(i) - from(i)
  <2>1. /\ Start(n, i) \in Rank
        /\ i = 0 => from(i) = 0
        /\ i + 1 \in 0 .. N - 1 => from(i + 1) = upto(i)
        /\ i + 1 = N => upto(i) = Below(p, f, NRanks)
    BY FileOrder
  <2>2. from(i) \in Nat /\ upto(i) \in Nat
    BY <2>1, FileLength, Zenon
  <2> QED
    BY <2>1, <2>2, Zenon DEF FilesSized, Sized
<1> HIDE DEF N, from, upto
<1>5. 0 \in T
  <2>1. 0 \in 0 .. N - 1 /\ 0 \in 0 .. N /\ 0 # N
    BY <1>1
  <2>2. Len(Joined(d, 0)) = 0
    BY <1>3
  <2>3. from(0) = 0
    BY <1>4, <2>1, Zenon
  <2> QED
    BY <2>1, <2>2, <2>3, Zenon
<1>6. ASSUME NEW i \in 0 .. N - 1, i \in T PROVE i + 1 \in T
  <2>1. i # N /\ i \in 0 .. N /\ i + 1 \in 0 .. N /\ (i + 1 # N => i + 1 \in 0 .. N - 1)
    BY <1>1
  <2>2. Len(Joined(d, i)) = from(i)
    BY <1>6, <2>1, Zenon
  <2>3. Len(Joined(d, i) \o d[i]) = Len(Joined(d, i)) + Len(d[i])
    <3>1. Joined(d, i) \in Seq(S) /\ d[i] \in Seq(S)
      BY <1>3, <1>4, <2>1, Zenon
    <3> HIDE DEF T
    <3> QED
      BY <3>1
  <2>4. Len(Joined(d, i + 1)) = upto(i)
    <3>1. Joined(d, i + 1) = Joined(d, i) \o d[i]
      BY <1>3, Zenon
    <3>2. from(i) \in Nat /\ upto(i) \in Nat /\ Len(d[i]) = upto(i) - from(i)
      BY <1>4, Zenon
    <3> HIDE DEF T
    <3> QED
      BY <2>2, <2>3, <3>1, <3>2
  <2>5. CASE i + 1 = N
    BY <1>4, <2>1, <2>4, <2>5, Zenon
  <2>6. CASE i + 1 # N
    BY <1>4, <2>1, <2>4, <2>6, Zenon
  <2> QED
    BY <2>5, <2>6, Zenon
<1>7. 0 .. N \subseteq T
  <2> HIDE DEF T
  <2> QED
    BY <1>1, <1>5, <1>6, InductionTo
<1>8. N \in 0 .. N /\ \A i \in 0 .. N - 1 : i \in 0 .. N /\ i # N
  BY <1>1
<1>9. Len(Joined(d, N)) = Below(p, f, NRanks) /\ \A i \in 0 .. N - 1 : Len(Joined(d, i)) = from(i)
  BY <1>7, <1>8, Zenon
<1> QED
  BY <1>2, <1>9, Zenon DEF FilesInOrder, N, from

\* The file that holds the values of rank r.
LEMMA FileOf ==
  ASSUME NEW p \in Flags, NEW m, NEW n \in 1 .. NRanks, NEW f \in Nat, NEW r \in Rank
  PROVE  \E i \in 0 .. Files(m, n) - 1 :
           /\ FileStart(p, m, n, Start(n, i), f) = FileStart(p, m, n, Lead(n, r), f)
           /\ FileEnd(p, m, n, Start(n, i), f) = FileEnd(p, m, n, Lead(n, r), f)
           /\ File(m, n, Start(n, i)) = File(m, n, Lead(n, r))
<1>1. CASE Parallel(m, n)
  <2>1. 0 \in 0 .. Files(m, n) - 1
    BY <1>1 DEF Files
  <2> QED
    BY <1>1, <2>1, Zenon DEF FileStart, FileEnd, File
<1>2. CASE ~Parallel(m, n)
  <2>1. GroupIn(n, r) \in 0 .. n - 1
    BY GroupInIs, Zenon
  <2> QED
    BY <1>2, <2>1, Zenon DEF Files, Lead
<1> QED
  BY <1>1, <1>2, Zenon

\* Two sequences with the same elements are the same.
LEMMA SameElements ==
  ASSUME NEW A, NEW B, NEW a \in Seq(A), NEW b \in Seq(B), Len(a) = Len(b),
         \A x \in 1 .. Len(b) : a[x] = b[x]
  PROVE  a = b
<1>1. a = [x \in 1 .. Len(a) |-> a[x]] /\ b = [x \in 1 .. Len(b) |-> b[x]]
  OBVIOUS
<1> QED
  BY <1>1, Zenon

\* The i-th file holds e of variable v: as much as its ranks have, each value in its place
Holds(p, m, n, v, f, S, i, e) ==
  /\ Sized(p, m, n, f, S, i, e)
  /\ \A r \in Rank : File(m, n, Lead(n, r)) = File(m, n, Start(n, i)) =>
       \A k \in DOMAIN Values(p, r, v) :
         e[Below(p, f, r) - FileStart(p, m, n, Lead(n, r), f) + k] = Values(p, r, v)[k]

FilesHold(p, m, n, v, f, S, d, xs) ==
  /\ f = Variables[v].dimFactor /\ xs = [r \in Rank |-> Values(p, r, v)]
  /\ \A i \in 0 .. Files(m, n) - 1 : Holds(p, m, n, v, f, S, i, d[i])

\* Files that begin and end in their order and have the values of each rank in their
\* places hold, one after the other, the values of all the ranks.
LEMMA FilesTile ==
  ASSUME NEW p \in Flags, NEW m, NEW n \in 1 .. NRanks, NEW v \in DOMAIN Variables,
         NEW f, NEW S, NEW d, NEW xs, FilesHold(p, m, n, v, f, S, d, xs)
  PROVE  Joined(d, Files(m, n)) = Joined(xs, NRanks)
<1> DEFINE N == Files(m, n)
           from(i) == FileStart(p, m, n, Start(n, i), f)
           upto(i) == FileEnd(p, m, n, Start(n, i), f)
<1>a. f = Variables[v].dimFactor /\ xs = [r \in Rank |-> Values(p, r, v)]
  BY Zenon DEF FilesHold
<1>1. f \in Nat
  BY <1>a, VariableIs, Zenon
<1>2. /\ RankAfterRank(d, N, S)
      /\ \A i \in 0 .. N - 1 : Len(Joined(d, i)) = from(i)
      /\ Len(Joined(d, N)) = Below(p, f, NRanks)
  <2>1. FilesSized(p, m, n, f, S, d)
    BY Zenon DEF FilesHold, Holds, FilesSized
  <2>2. FilesInOrder(p, m, n, f, S, d)
    BY <1>1, <2>1, FilesJoined, Zenon
  <2> QED
    BY <2>2, Zenon DEF FilesInOrder
<1>3. /\ RankAfterRank(xs, NRanks, Rank \X Nat \X Nat)
      /\ \A s \in 0 .. NRanks : Len(Joined(xs, s)) = Below(p, f, s)
  BY <1>a, ValuesJoined
<1>4. NRanks \in 0 .. NRanks /\ Rank = 0 .. NRanks - 1 /\ \A r \in Rank : r \in 0 .. NRanks
  BY SizesAssumption DEF Rank
<1>5. ASSUME NEW x \in 1 .. Below(p, f, NRanks) PROVE Joined(d, N)[x] = Joined(xs, NRanks)[x]
  <2>1. PICK r \in Rank : \E k \in 1 .. CountTrue(p[r]) * f : x = Below(p, f, r) + k
    BY <1>1, BelowCovers, Zenon
  <2>2. PICK k \in 1 .. CountTrue(p[r]) * f : x = Below(p, f, r) + k
    BY <2>1, Zenon
  <2>3. k \in DOMAIN Values(p, r, v)
    BY <1>a, ValuesLength, Zenon
  <2>4. Joined(xs, NRanks)[x] = Values(p, r, v)[k]
    <3>1. xs[r] = Values(p, r, v)
      BY <1>a, Zenon
    <3>2. Len(Joined(xs, r)) = Below(p, f, r)
      BY <1>3, <1>4, Zenon
    <3> QED
      BY <1>3, <1>4, <2>2, <2>3, <3>1, <3>2, Zenon DEF RankAfterRank
  <2>5. PICK i \in 0 .. N - 1 : /\ from(i) = FileStart(p, m, n, Lead(n, r), f)
                                /\ upto(i) = FileEnd(p, m, n, Lead(n, r), f)
                                /\ File(m, n, Start(n, i)) = File(m, n, Lead(n, r))
    BY <1>1, FileOf, Zenon
  <2> DEFINE y == Below(p, f, r) - FileStart(p, m, n, Lead(n, r), f) + k
  <2>6. d[i][y] = Values(p, r, v)[k]
    BY <2>3, <2>5, Zenon DEF FilesHold, Holds
  <2>7. /\ Lead(n, r) \in Rank /\ Lead(n, Lead(n, r)) = Lead(n, r)
    BY GroupFacts, Zenon
  <2>8. /\ FileStart(p, m, n, Lead(n, r), f) \in Nat /\ Below(p, f, r) \in Nat /\ k \in Nat
    <3>1. FileStart(p, m, n, Lead(n, r), f) \in Nat
      BY <1>1, <2>7, FileLength, Zenon
    <3>2. Below(p, f, r) \in Nat
      BY <1>1, <1>4, BelowStep, Zenon
    <3>3. CountTrue(p[r]) * f \in Int
      <4>1. CountTrue(p[r]) \in Nat
        BY CountTrueIs, Zenon DEF Flags
      <4> QED
        BY <1>1, <4>1
    <3> QED
      BY <3>1, <3>2, <3>3
  <2>9. y \in 1 .. upto(i) - from(i)
    <3> DEFINE s == Lead(n, r)
               start == Below(p, f, s) - FileStart(p, m, n, s, f)
    <3>1. start = Below(p, f, s) - FileStart(p, m, n, s, f) /\ s \in Rank /\ Lead(n, s) = s
          /\ Lead(n, r) = s /\ y = Below(p, f, r) - FileStart(p, m, n, s, f) + k
      BY <2>7, Zenon
    <3> HIDE DEF start, s, y
    <3>2. Placed(p, m, n, s, s, r, v, f, k, start, y)
      BY <1>a, <2>3, <3>1, FilePlace
    <3> QED
      BY <2>5, <3>2, Zenon DEF Placed, s
  <2>10. from(i) + y = x
    BY <2>2, <2>5, <2>8
  <2>11. DOMAIN d[i] = 1 .. upto(i) - from(i)
    <3>1. d[i] \in Seq(S) /\ Len(d[i]) = upto(i) - from(i)
      BY Zenon DEF FilesHold, Holds, Sized
    <3> HIDE DEF upto, from
    <3> QED
      BY <3>1
  <2> HIDE DEF y
  <2>12. Joined(d, N)[from(i) + y] = d[i][y]
    <3>1. Len(Joined(d, i)) = from(i)
      BY <1>2, Zenon
    <3>2. y \in DOMAIN d[i]
      BY <2>9, <2>11, Zenon
    <3> QED
      BY <1>2, <3>1, <3>2, Zenon DEF RankAfterRank
  <2> QED
    BY <2>4, <2>6, <2>10, <2>12, Zenon
<1>6. /\ Joined(d, N) \in Seq(S) /\ Joined(xs, NRanks) \in Seq(Rank \X Nat \X Nat)
      /\ Len(Joined(xs, NRanks)) = Below(p, f, NRanks)
  BY <1>2, <1>3, <1>4, Zenon DEF RankAfterRank
<1> HIDE DEF N
<1>7. Joined(d, N) = Joined(xs, NRanks)
  <2> DEFINE a == Joined(d, N)
             b == Joined(xs, NRanks)
  <2>1. /\ a \in Seq(S) /\ b \in Seq(Rank \X Nat \X Nat) /\ Len(a) = Len(b)
        /\ \A x \in 1 .. Len(b) : a[x] = b[x]
    BY <1>2, <1>5, <1>6, Zenon
  <2> HIDE DEF a, b
  <2>2. a = b
    BY <2>1, SameElements, Zenon
  <2> QED
    BY <2>2, Zenon DEF a, b
<1> QED
  BY <1>7, Zenon DEF N

\* What the i-th file holds when all ranks have returned from save
Finished(p, m, n, i, file) ==
  /\ Shaped(p, m, n, Start(n, i), file)
  /\ \A s \in Rank : Lead(n, s) = s /\ File(m, n, s) = File(m, n, Start(n, i)) =>
       \A v \in DOMAIN Variables : Tiled(p, m, n, s, v, file[v])

\* The variables with locations: what the finished files hold of one of them, joined.
LEMMA LocationsTile ==
  ASSUME NEW p \in Flags, NEW m, NEW n \in 1 .. NRanks, NEW v \in DOMAIN Variables,
         Variables[v].usesLocation, NEW g, NEW d, d = [i \in 0 .. Files(m, n) - 1 |-> g[i][v]],
         \A i \in 0 .. Files(m, n) - 1 : Finished(p, m, n, i, g[i]),
         NEW xs, xs = [r \in Rank |-> Values(p, r, v)]
  PROVE  Joined(d, Files(m, n)) = Joined(xs, NRanks)
<1> DEFINE f == Variables[v].dimFactor
           size(i) == FileEnd(p, m, n, Start(n, i), f) - FileStart(p, m, n, Start(n, i), f)
           S == {d[i][x] : i \in 0 .. Files(m, n) - 1, x \in Nat}
<1>1. f \in Nat
  BY VariableIs, Zenon
<1>2. ASSUME NEW i \in 0 .. Files(m, n) - 1
      PROVE  Holds(p, m, n, v, f, S, i, d[i])
  <2>1. Finished(p, m, n, i, g[i]) /\ d[i] = g[i][v]
    BY Zenon
  <2>2. d[i] = [x \in 1 .. size(i) |-> d[i][x]]
    BY <2>1, Zenon DEF Finished, Shaped
  <2>3. size(i) \in Nat
    <3>1. Start(n, i) \in Rank
      BY <1>1, FileOrder
    <3> DEFINE a == FileStart(p, m, n, Start(n, i), f)
               b == FileEnd(p, m, n, Start(n, i), f)
    <3>2. a \in Nat /\ b \in Nat /\ a <= b
      BY <1>1, <3>1, FileLength, Zenon
    <3> HIDE DEF a, b
    <3>3. b - a \in Nat
      BY <3>2
    <3> QED
      BY <3>3, Zenon DEF a, b
  <2>4. \A x \in Nat : d[i][x] \in S
    OBVIOUS
  <2> HIDE DEF size, S
  <2>5. \A x \in 1 .. size(i) : d[i][x] \in S
    BY <2>3, <2>4
  <2>6. d[i] \in Seq(S) /\ Len(d[i]) = size(i)
    <3> DEFINE e == d[i]
    <3>1. e = [x \in 1 .. size(i) |-> e[x]] /\ \A x \in 1 .. size(i) : e[x] \in S
      BY <2>2, <2>5, Zenon
    <3> HIDE DEF e
    <3>2. e \in [1 .. size(i) -> S]
      BY <3>1, Zenon
    <3>3. e \in Seq(S) /\ Len(e) = size(i)
      BY <2>3, <3>2
    <3> QED
      BY <3>3, Zenon DEF e
  <2>7. ASSUME NEW r \in Rank, File(m, n, Lead(n, r)) = File(m, n, Start(n, i)),
               NEW k \in DOMAIN Values(p, r, v)
        PROVE  d[i][Below(p, f, r) - FileStart(p, m, n, Lead(n, r), f) + k] = Values(p, r, v)[k]
    <3>1. Lead(n, r) \in Rank /\ Lead(n, Lead(n, r)) = Lead(n, r)
      BY GroupFacts, Zenon
    <3>2. Tiled(p, m, n, Lead(n, r), v, g[i][v])
      BY <2>1, <2>7, <3>1, Zenon DEF Finished
    <3>3. r \in Follows(n, Lead(n, r))
      BY Zenon DEF Follows
    <3> QED
      BY <2>1, <3>2, <3>3, Zenon DEF Tiled
  <2> QED
    BY <2>6, <2>7, Zenon DEF Holds, Sized, size
<1> HIDE DEF S
<1>3. FilesHold(p, m, n, v, f, S, d, xs)
  BY <1>2, Zenon DEF FilesHold
<1> HIDE DEF f
<1> QED
  BY <1>3, FilesTile

\* When all ranks are done, the files are finished.
LEMMA DoneFiles ==
  ASSUME NEW p, NEW l, NEW m, NEW n, NEW t, Now(p, l, m, n, t), Done
  PROVE  /\ (IF IsParallelIo(0) THEN 1 ELSE Cardinality(Pool)) = Files(m, n)
         /\ \A i \in 0 .. Files(m, n) - 1 :
              Finished(p, m, n, i, disk[dir[SavedName(GroupStart(i))]])
<1>1. /\ p \in Flags /\ n \in 1 .. NRanks /\ FilesInv(p, m, n, t)
  BY Zenon DEF Now, Ambient
<1>2. \A r \in Rank : Reached(r, "gather") /\ Reached(r, "info") /\ Reached(r, "strlen") /\ Reached(r, "final")
  <2>1. 11 >= 2 /\ 11 >= 5 /\ 11 >= 7 /\ 11 >= 10
    OBVIOUS
  <2> QED
    BY <2>1, PhaseOrder, Zenon DEF Done, Reached
<1>3. 0 \in Rank /\ Lead(n, 0) = 0
  BY <1>1, LeadZero, Zenon
<1>4. /\ \A i : GroupStart(i) = Start(n, i)
      /\ Pool = {r \in Rank : Lead(n, r) = r}
  BY <1>2, <1>3, GroupsKnown, Zenon
<1>5. \A r \in Rank : Known(m, n, t, r)
  BY <1>2, PoolKnown, Zenon
<1>6. (IF IsParallelIo(0) THEN 1 ELSE Cardinality(Pool)) = Files(m, n)
  <2>1. IsParallelIo(0) <=> Parallel(m, n)
    BY <1>3, <1>5, Zenon DEF Known
  <2>2. Cardinality(Pool) = n
    BY <1>1, <1>4, PoolSize, Zenon
  <2> QED
    BY <2>1, <2>2, Zenon DEF Files
<1>7. ASSUME NEW i \in 0 .. Files(m, n) - 1
      PROVE  Finished(p, m, n, i, disk[dir[SavedName(GroupStart(i))]])
  <2> DEFINE s == Start(n, i)
  <2>1. s \in Rank /\ Posts(m, n, s)
    <3>1. 1 \in Nat
      OBVIOUS
    <3> QED
      BY <1>1, <3>1, FileOrder
  <2>2. GroupStart(i) = s
    BY <1>4, Zenon
  <2>3. SavedName(s) = CopyName(m, n, t, s)
    BY <1>5, <2>1, Zenon DEF Known, Posts
  <2>4. Copied(p, m, n, t, s)
    BY <1>1, <1>2, <2>1, Zenon DEF FilesInv
  <2>5. dir[SavedName(s)] = File(m, n, s) + 1
    BY <2>3, <2>4, Zenon DEF Copied
  <2> QED
    BY <2>2, <2>4, <2>5, Zenon DEF Finished, Copied
<1> QED
  BY <1>6, <1>7, Zenon

\* When save has returned on all ranks (WriterPool::save, finalize), the copies that
\* WriteH5Proc::post leaves behind, in the order of the pool, hold each variable
\* with locations as the values of the ranks' patches one after the other, with no gap,
\* no overlap and nothing of another rank, and every other variable once per file: for
\* every number of ranks, every pool size and every interleaving of the transfer.
THEOREM TilesAreInOrder == Spec => []TilesInOrder
<1>1. ASSUME NEW p, NEW l, NEW m, NEW n, NEW t, Now(p, l, m, n, t)
      PROVE  TilesInOrder
  <2> DEFINE nfiles == IF IsParallelIo(0) THEN 1 ELSE Cardinality(Pool)
             content(i, v) == disk[dir[SavedName(GroupStart(i))]][v]
             xs(v) == [r \in Rank |-> Selected(r, patchObsVec[r], Variables[v].dimFactor)]
             d(v) == [i \in 0 .. nfiles - 1 |-> content(i, v)]
             g == [i \in 0 .. nfiles - 1 |-> disk[dir[SavedName(GroupStart(i))]]]
  <2> SUFFICES ASSUME Done, NEW v \in DOMAIN Variables
               PROVE  IF Variables[v].usesLocation
                      THEN Joined(d(v), nfiles) = Joined(xs(v), NRanks)
                      ELSE \A i \in 0 .. nfiles - 1 : content(i, v) = Shared
    BY Zenon DEF TilesInOrder
  <2>1. p \in Flags /\ n \in 1 .. NRanks /\ patchObsVec = p
    BY <1>1, Zenon DEF Now, Ambient, Fixed
  <2>2. /\ nfiles = Files(m, n)
        /\ \A i \in 0 .. Files(m, n) - 1 : Finished(p, m, n, i, disk[dir[SavedName(GroupStart(i))]])
    BY <1>1, DoneFiles, Zenon
  <2>3. CASE Variables[v].usesLocation
    <3>1. xs(v) = [r \in Rank |-> Values(p, r, v)]
      BY <2>1, Zenon DEF Values
    <3>2. /\ \A i \in 0 .. Files(m, n) - 1 : Finished(p, m, n, i, g[i])
          /\ d(v) = [i \in 0 .. Files(m, n) - 1 |-> g[i][v]]
      BY <2>2, Zenon
    <3> HIDE DEF xs, d, g, nfiles
    <3>3. Joined(d(v), Files(m, n)) = Joined(xs(v), NRanks)
      BY <2>1, <2>3, <3>1, <3>2, LocationsTile
    <3> QED
      BY <2>2, <2>3, <3>3, Zenon
  <2>4. CASE ~Variables[v].usesLocation
    <3>1. ASSUME NEW i \in 0 .. Files(m, n) - 1 PROVE content(i, v) = Shared
      <4>1. Start(n, i) \in Rank /\ Lead(n, Start(n, i)) = Start(n, i)
        <5>1. Start(n, i) \in Rank /\ Posts(m, n, Start(n, i))
          <6>1. 1 \in Nat
            OBVIOUS
          <6> QED
            BY <2>1, <6>1, FileOrder
        <5> QED
          BY <5>1, Zenon DEF Posts
      <4>2. Tiled(p, m, n, Start(n, i), v, content(i, v))
        BY <2>2, <4>1, Zenon DEF Finished
      <4> QED
        BY <2>4, <4>2, Zenon DEF Tiled
    <3> HIDE DEF nfiles
    <3> QED
      BY <2>2, <2>4, <3>1, Zenon
  <2> QED
    BY <2>3, <2>4, Zenon
<1>2. PoolInv => TilesInOrder
  <2> SUFFICES ASSUME PoolInv PROVE TilesInOrder
    OBVIOUS
  <2>1. Now(patchObsVec, stringLength, writeMultipleFiles, TargetPoolSize, timeRank)
    BY PoolInvNow, Zenon
  <2> QED
    BY <1>1, <2>1, Zenon
<1> QED
  BY <1>2, PoolInvariance, PTL
=============================================================================
