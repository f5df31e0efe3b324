------------------------------- MODULE WriterPool -------------------------------
(***************************************************************************)
(* ObsSpace::save: the ranks write their patch locations to one file, or   *)
(* to one file per rank of the io pool.  A WriterPool                      *)
(* (src/engines/ioda/.../WriterPool.cpp, IoPoolBase.cpp) picks the ranks   *)
(* of the pool and assigns each other rank to one of them; ioWriteGroup    *)
(* (WriterUtils.cpp) sends the data of each variable to the pool, which    *)
(* writes it; WriteH5Proc::post (WriteH5File.cpp) renames the file and     *)
(* copies it back, with strings of variable length.                        *)
(*                                                                         *)
(* A collective is a step that contributes, after which pc names the       *)
(* collective the rank is in, and a step that returns.  A value in a       *)
(* variable is <<rank, location, element>>.                                *)
(***************************************************************************)
EXTENDS Vectors, FiniteSets, FiniteSetsExt

CONSTANTS
  NRanks,         \* comm_all_.size()
  PatchVectors,   \* patchObsVec that a rank may have
  MaxPoolSizes,   \* max pool size in the parameters; 0: not given
  Variables,      \* allVarsList: a sequence of [usesLocation, isString, dimFactor]
  StringLengths,  \* lengths of a rank's strings
  TimeRanks,      \* comm_time_.rank(), -1 when comm_time_.size() = 1
  varNumTagFactor \* 100; with NRanks above it, tags of two variables coincide

ASSUME SizesAssumption == NRanks \in Nat \ {0} /\ MaxPoolSizes \subseteq Nat
ASSUME PatchAssumption == PatchVectors \subseteq Seq(BOOLEAN) /\ StringLengths \subseteq Nat
ASSUME VariablesAssumption ==
  /\ Variables \in Seq([usesLocation : BOOLEAN, isString : BOOLEAN, dimFactor : Nat \ {0}])
  /\ Variables # <<>>
ASSUME TagAssumption == varNumTagFactor \in Nat \ {0}
ASSUME TimeAssumption == TimeRanks \subseteq Nat \cup {-1}

Rank == 0 .. NRanks - 1
Phases == <<"size", "gather", "assign", "split", "info", "open", "strlen", "transfer",
            "barrier", "final", "done">>

VARIABLES
  patchObsVec, maxPoolSize, writeMultipleFiles, stringLength, timeRank,  \* inputs
  eager,               \* whether MPI completes a send before it is received
  pc,
  target_pool_size,
  rank_assignment,     \* <<rank, its number of patch locations>> pairs
  rank_pool, size_pool,
  total_nlocs, global_nlocs, nlocs_start,
  strLen,              \* maxStringLengths: one value stands for all string variables
  varNumber,
  msgs,                \* data messages in flight
  waiting,             \* ranks waiting for a send to complete
  arrived,             \* the blocks received for the current variable
  disk,                \* the contents of files, by inode
  dir                  \* the inode of each file name

input == <<patchObsVec, maxPoolSize, writeMultipleFiles, stringLength, timeRank, eager>>
pool == <<target_pool_size, rank_assignment, rank_pool, size_pool, total_nlocs, global_nlocs,
          nlocs_start>>
transfer == <<varNumber, msgs, waiting, arrived>>
files == <<disk, dir>>
vars == <<input, pc, pool, strLen, transfer, files>>

Init ==
  /\ patchObsVec \in [Rank -> PatchVectors]
  /\ maxPoolSize \in MaxPoolSizes
  /\ writeMultipleFiles \in BOOLEAN
  /\ stringLength \in [Rank -> StringLengths]
  /\ timeRank \in TimeRanks
  /\ eager \in BOOLEAN
  /\ pc = [r \in Rank |-> "size"]
  /\ target_pool_size = [r \in Rank |-> 0]
  /\ rank_assignment = [r \in Rank |-> <<>>]
  /\ rank_pool = [r \in Rank |-> -1]
  /\ size_pool = [r \in Rank |-> -1]
  /\ total_nlocs = [r \in Rank |-> 0]
  /\ global_nlocs = [r \in Rank |-> 0]
  /\ nlocs_start = [r \in Rank |-> 0]
  /\ strLen = [r \in Rank |-> 0]
  /\ varNumber = [r \in Rank |-> 1]
  /\ msgs = {}
  /\ waiting = {}
  /\ arrived = [r \in Rank |-> <<>>]
  /\ disk = <<>>
  /\ dir = <<>>

-----------------------------------------------------------------------------

PhaseIndex == [p \in Range(Phases) |-> CHOOSE k \in DOMAIN Phases : Phases[k] = p]

\* Rank s has come as far as phase p
Reached(s, p) == PhaseIndex[pc[s]] >= PhaseIndex[p]

Goto(r, p) == pc' = [pc EXCEPT ![r] = p]

\* The map f with the value e for k
With(f, k, e) == [x \in {k} \cup DOMAIN f |-> IF x = k THEN e ELSE f[x]]

\* std::count of the true elements
CountTrue(vec) == Cardinality({i \in DOMAIN vec : vec[i]})

\* patch_nlocs_
patch_nlocs(r) == CountTrue(patchObsVec[r])

defaultMaxPoolSize == 10

\* setTargetPoolSize: rank 0 decides and broadcasts
TargetPoolSize ==
  LET max == IF maxPoolSize > 0 THEN maxPoolSize ELSE defaultMaxPoolSize
  IN IF NRanks <= max THEN NRanks ELSE max

SetTargetPoolSize(r) ==
  /\ pc[r] = "size"
  /\ r = 0 \/ Reached(0, "gather")
  /\ target_pool_size' = [target_pool_size EXCEPT ![r] = TargetPoolSize]
  /\ Goto(r, "gather")
  /\ UNCHANGED <<input, rank_assignment, rank_pool, size_pool, total_nlocs, global_nlocs,
                 nlocs_start, strLen, transfer, files>>

\* assignRanksToIoPool contributes the number of patch locations to the allGather
GatherNlocs(r) ==
  /\ pc[r] = "gather"
  /\ Goto(r, "assign")
  /\ UNCHANGED <<input, pool, strLen, transfer, files>>

\* groupRanks with n groups: number of ranks in the i-th one, from 0
Count(n, i) == (NRanks \div n) + IF i < NRanks % n THEN 1 ELSE 0

\* groupRanks: start in the i-th iteration, and the group that a rank is put in
Start(n, i) == SumBelow([j \in 0 .. n - 1 |-> Count(n, j)], i)
GroupIn(n, r) == CHOOSE i \in 0 .. n - 1 : Start(n, i) <= r /\ r < Start(n, i) + Count(n, i)

\* The first rank of a group is in the pool, the others are assigned to it
NGroups == target_pool_size[0]
GroupStart(i) == Start(NGroups, i)
GroupCount(i) == Count(NGroups, i)
GroupOf(r) == GroupIn(NGroups, r)
Leads(r) == r = GroupStart(GroupOf(r))
Pool == {r \in Rank : Leads(r)}

\* Mutant: the pool does not expect anything from ranks without locations
NonemptyAssignment(r) ==
  LET start == GroupStart(GroupOf(r))
      all == [k \in 1 .. GroupCount(GroupOf(r)) - 1 |-> <<start + k, patch_nlocs(start + k)>>]
  IN IF Leads(r) THEN SelectSeq(all, LAMBDA a : a[2] > 0) ELSE <<<<start, patch_nlocs(r)>>>>

\* rankAssignments on rank 0
RankAssignment(r) ==
  LET start == GroupStart(GroupOf(r))
  IN IF Leads(r)
     THEN [k \in 1 .. GroupCount(GroupOf(r)) - 1 |-> <<start + k, patch_nlocs(start + k)>>]
     ELSE <<<<start, patch_nlocs(r)>>>>

\* assignRanksToIoPool after the allGather: rank 0 scatters the sizes of the
\* assignments and sends each to its rank
AssignRanksToIoPool(r) ==
  /\ pc[r] = "assign"
  /\ \A s \in Rank : Reached(s, "assign")
  /\ r = 0 \/ Reached(0, "split")
  /\ rank_assignment' = [rank_assignment EXCEPT ![r] = RankAssignment(r)]
  /\ Goto(r, "split")
  /\ UNCHANGED <<input, target_pool_size, rank_pool, size_pool, total_nlocs, global_nlocs,
                 nlocs_start, strLen, transfer, files>>

\* createIoPool and setTotalNlocs: the communicator is split.  Ranks outside the
\* pool have no part in collectSingleFileInfo.
CreateIoPool(r) ==
  /\ pc[r] = "split"
  /\ \A s \in Rank : Reached(s, "split")
  /\ rank_pool' = [rank_pool EXCEPT ![r] = IF Leads(r) THEN GroupOf(r) ELSE -1]
  /\ size_pool' = [size_pool EXCEPT ![r] = IF Leads(r) THEN Cardinality(Pool) ELSE -1]
  /\ total_nlocs' = [total_nlocs EXCEPT ![r] =
       IF Leads(r)
       THEN patch_nlocs(r) + SumBelow([k \in 0 .. Len(rank_assignment[r]) - 1 |->
                                         rank_assignment[r][k + 1][2]], Len(rank_assignment[r]))
       ELSE 0]
  /\ Goto(r, IF Leads(r) THEN "info" ELSE "open")
  /\ UNCHANGED <<input, target_pool_size, rank_assignment, global_nlocs, nlocs_start,
                 strLen, transfer, files>>

\* totalNlocs on the root of the pool, by rank in the pool, and its sums
TotalNlocs == [i \in 0 .. NGroups - 1 |-> total_nlocs[GroupStart(i)]]
NlocsStart(r) == SumBelow(TotalNlocs, GroupOf(r))
GlobalNlocs == SumBelow(TotalNlocs, NGroups)

\* collectSingleFileInfo: a gather to the root of the pool, which is rank 0, a
\* broadcast and a scatter
CollectSingleFileInfo(r) ==
  /\ pc[r] = "info"
  /\ IF r = 0 THEN \A s \in Pool : Reached(s, "info") ELSE Reached(0, "open")
  /\ global_nlocs' = [global_nlocs EXCEPT ![r] = GlobalNlocs]
  /\ nlocs_start' = [nlocs_start EXCEPT ![r] = NlocsStart(r)]
  /\ Goto(r, "open")
  /\ UNCHANGED <<input, target_pool_size, rank_assignment, rank_pool, size_pool, total_nlocs,
                 strLen, transfer, files>>

-----------------------------------------------------------------------------

\* comm_pool_ # nullptr
InPool(r) == rank_pool[r] >= 0

\* is_parallel_io_ and create_multiple_files_
IsParallelIo(r) == ~writeMultipleFiles /\ size_pool[r] > 1
CreateMultipleFiles(r) == writeMultipleFiles /\ size_pool[r] > 1

\* The file names given in the parameters; suffixes are appended to them
OutputName == [flenstr |-> FALSE, suffixes |-> <<>>]
TempName == [flenstr |-> TRUE, suffixes |-> <<>>]

\* uniquifyFileName
UniquifyFileName(name, multiple, rankNum, timeRankNum) ==
  [name EXCEPT !.suffixes = @ \o (IF multiple THEN <<rankNum>> ELSE <<>>)
                              \o (IF timeRankNum >= 0 THEN <<timeRankNum>> ELSE <<>>)]

FileName(r) == UniquifyFileName(OutputName, CreateMultipleFiles(r), rank_pool[r], timeRank)

\* The inode of the file that rank r writes, and of the copy that post makes
Inode(r) == IF IsParallelIo(r) THEN 0 ELSE 2 * r
CopyInode(r) == Inode(r) + 1

Empty == <<>>
Shared == <<"shared">>
Garbled == <<"garbled">>

\* The file as ioWriteGroup creates it: variables of their full size, no data
EmptyFile(r) ==
  LET poolNlocs == IF IsParallelIo(r) THEN global_nlocs[r] ELSE total_nlocs[r]
  IN [v \in DOMAIN Variables |->
        IF Variables[v].usesLocation
        THEN [k \in 1 .. poolNlocs * Variables[v].dimFactor |-> Empty] ELSE Empty]

\* save creates the file; ioWriteGroup contributes to the reduction in
\* calcMaxStringLengths.  With parallel io the calls that create the file and
\* its variables are collective over the pool: all of it is there at once.
OpenFile(r) ==
  /\ pc[r] = "open"
  /\ disk' = IF InPool(r) THEN With(disk, Inode(r), EmptyFile(r)) ELSE disk
  /\ dir' = IF InPool(r) THEN With(dir, FileName(r), Inode(r)) ELSE dir
  /\ Goto(r, "strlen")
  /\ UNCHANGED <<input, pool, strLen, transfer>>

\* Length of the longest string that rank r holds, patch location or not
LocalMaxStringLength(r) == IF patchObsVec[r] = <<>> THEN 0 ELSE stringLength[r]

\* globalMaxStringLen: at least 1
GlobalStringLength(r) == Max({1} \cup {LocalMaxStringLength(s) : s \in Rank})

CalcMaxStringLengths(r) ==
  /\ pc[r] = "strlen"
  /\ \A s \in Rank : Reached(s, "strlen")
  /\ strLen' = [strLen EXCEPT ![r] = GlobalStringLength(r)]
  /\ Goto(r, "transfer")
  /\ UNCHANGED <<input, pool, transfer, files>>

-----------------------------------------------------------------------------

Var(r) == Variables[varNumber[r]]

\* The loop of copyVarData goes on, or ends in the barrier behind save
NextVariable(r) ==
  /\ varNumber' = [varNumber EXCEPT ![r] = @ + 1]
  /\ Goto(r, IF varNumber[r] = Len(Variables) THEN "barrier" ELSE "transfer")

\* Mutant: all locations held are sent
AllValues(r) ==
  [k \in 1 .. Len(patchObsVec[r]) * Var(r).dimFactor |->
     <<r, (k - 1) \div Var(r).dimFactor + 1, (k - 1) % Var(r).dimFactor>>]

\* The f elements of each location of rank r that patchVec marks, in order
Selected(r, patchVec, f) ==
  LET locs == Marked([i \in DOMAIN patchVec |-> i], patchVec, Len(patchVec))
  IN [k \in 1 .. Len(locs) * f |-> <<r, locs[(k - 1) \div f + 1], (k - 1) % f>>]

\* selectPatchValues: the elements of r's patch locations
PatchValues(r) == Selected(r, patchObsVec[r], Var(r).dimFactor)

\* calcVarStartsCounts on a rank of the pool
VarCount(r, k) == rank_assignment[r][k][2] * Var(r).dimFactor

VarStart(r, k) ==
  patch_nlocs(r) * Var(r).dimFactor
  + SumBelow([j \in 0 .. Len(rank_assignment[r]) - 1 |-> VarCount(r, j + 1)], k - 1)

\* A variable without the Location dimension: each rank of the pool writes its copy
TransferVarData(r) ==
  /\ pc[r] = "transfer"
  /\ ~Var(r).usesLocation
  /\ disk' = IF InPool(r) THEN [disk EXCEPT ![Inode(r)][varNumber[r]] = Shared] ELSE disk
  /\ NextVariable(r)
  /\ UNCHANGED <<input, pool, strLen, msgs, waiting, arrived, dir>>

mpiTagBase == 20000

Tag(from, v) == mpiTagBase + v * varNumTagFactor + from

\* transferVarDataMPI outside the pool: the send starts.  A string takes a cell
\* of strLen + 1 characters.
SendVarData(r) ==
  /\ pc[r] = "transfer"
  /\ Var(r).usesLocation
  /\ ~InPool(r)
  /\ r \notin waiting
  /\ msgs' = msgs \cup {[from |-> r, to |-> rank_assignment[r][1][1], tag |-> Tag(r, varNumber[r]),
                         data |-> PatchValues(r), cell |-> strLen[r] + 1]}
  /\ waiting' = waiting \cup {r}
  /\ UNCHANGED <<input, pc, pool, strLen, varNumber, arrived, files>>

\* waitAll(sendRequests), or the return from the blocking send of strings
SendCompletes(r) ==
  /\ r \in waiting
  /\ eager \/ \A m \in msgs : m.from # r
  /\ waiting' = waiting \ {r}
  /\ NextVariable(r)
  /\ UNCHANGED <<input, pool, strLen, msgs, arrived, files>>

\* Strings are cut out of the cells; they are lost if the two ranks do not
\* agree about the cells or a string does not end within its own
Decoded(r, m) ==
  [k \in DOMAIN m.data |->
     IF Var(r).isString /\ (m.cell # strLen[r] + 1 \/ stringLength[m.from] >= m.cell)
     THEN Garbled ELSE m.data[k]]

\* A block arrives on a rank of the pool: in any order, strings in the order of
\* the assignment
ReceiveVarData(r) ==
  /\ pc[r] = "transfer"
  /\ Var(r).usesLocation
  /\ InPool(r)
  /\ \E k \in DOMAIN rank_assignment[r] \ DOMAIN arrived[r], m \in msgs :
       /\ m.from = rank_assignment[r][k][1] /\ m.to = r /\ m.tag = Tag(m.from, varNumber[r])
       /\ Var(r).isString => 1 .. k - 1 \subseteq DOMAIN arrived[r]
       /\ arrived' = [arrived EXCEPT ![r] = With(@, k, Decoded(r, m))]
       /\ msgs' = msgs \ {m}
  /\ UNCHANGED <<input, pc, pool, strLen, varNumber, waiting, files>>

\* varData: the rank's own block, then those that arrived at their starts
VarData(r) ==
  [x \in 1 .. total_nlocs[r] * Var(r).dimFactor |->
     LET blocks == {k \in DOMAIN arrived[r] :
                      x \in VarStart(r, k) + 1 .. VarStart(r, k) + Len(arrived[r][k])}
     IN CASE blocks # {} -> LET k == Max(blocks) IN arrived[r][k][x - VarStart(r, k)]
          [] blocks = {} /\ x \in DOMAIN PatchValues(r) -> PatchValues(r)[x]
          [] OTHER -> Empty]

\* All blocks are here: the rank writes them, with parallel io from nlocs_start on
WriteVarData(r) ==
  /\ pc[r] = "transfer"
  /\ Var(r).usesLocation
  /\ InPool(r)
  /\ DOMAIN arrived[r] = DOMAIN rank_assignment[r]
  /\ LET start == IF IsParallelIo(r) THEN nlocs_start[r] * Var(r).dimFactor ELSE 0
         old == disk[Inode(r)][varNumber[r]]
         new == [x \in DOMAIN old |-> IF x - start \in DOMAIN VarData(r)
                                      THEN VarData(r)[x - start] ELSE old[x]]
     IN disk' = [disk EXCEPT ![Inode(r)][varNumber[r]] = new]
  /\ arrived' = [arrived EXCEPT ![r] = <<>>]
  /\ NextVariable(r)
  /\ UNCHANGED <<input, pool, strLen, msgs, waiting, dir>>

-----------------------------------------------------------------------------

\* Mutant: finalize directly behind save
NoBarrier(r) == TRUE

\* comm().barrier() between save and finalize
SaveBarrier(r) == \A s \in Rank : Reached(s, "barrier")

\* WriteH5Proc::post does something on this rank
DoesPost(r) == InPool(r) /\ (IsParallelIo(r) => r = 0)

\* The writer that makes the copy makes its file name unique once more
SavedName(r) == UniquifyFileName(FileName(r), FALSE, rank_pool[r], timeRank)

\* finalize: the file is renamed, copied to a file with its name, and removed
Finalize(r) ==
  LET finalName == FileName(r)
      tempName == UniquifyFileName(TempName, CreateMultipleFiles(r), rank_pool[r], timeRank)
      renamed == With([n \in DOMAIN dir \ {finalName} |-> dir[n]], tempName, dir[finalName])
      copied == With(renamed, SavedName(r), CopyInode(r))
  IN /\ pc[r] = "barrier"
     /\ SaveBarrier(r)
     /\ IF DoesPost(r)
        THEN /\ disk' = With(disk, CopyInode(r), disk[Inode(r)])
             /\ dir' = [n \in DOMAIN copied \ {tempName} |-> copied[n]]
        ELSE UNCHANGED files
     /\ Goto(r, "final")
     /\ UNCHANGED <<input, pool, strLen, transfer>>

\* The barrier at the end of ObsSpace::save
LeaveSave(r) ==
  /\ pc[r] = "final"
  /\ \A s \in Rank : Reached(s, "final")
  /\ Goto(r, "done")
  /\ UNCHANGED <<input, pool, strLen, transfer, files>>

Done == \A r \in Rank : pc[r] = "done"
Terminated == Done /\ UNCHANGED vars

Step(r) ==
  \/ SetTargetPoolSize(r) \/ GatherNlocs(r) \/ AssignRanksToIoPool(r) \/ CreateIoPool(r)
  \/ CollectSingleFileInfo(r) \/ OpenFile(r) \/ CalcMaxStringLengths(r)
  \/ TransferVarData(r) \/ SendVarData(r) \/ SendCompletes(r) \/ ReceiveVarData(r)
  \/ WriteVarData(r) \/ Finalize(r) \/ LeaveSave(r)

Next == (\E r \in Rank : Step(r)) \/ Terminated

\* Each rank runs on until it waits for others; MPI delivers what was sent
Fairness == \A r \in Rank : WF_vars(Step(r))

Spec == Init /\ [][Next]_vars /\ Fairness

-----------------------------------------------------------------------------

\* Pool ranks are numbered by group, every file name has contents, and the
\* counts stay within the locations there are.
TypeOK ==
  LET all == SumBelow([r \in Rank |-> Cardinality({i \in DOMAIN patchObsVec[r] : patchObsVec[r][i]})],
                      NRanks)
  IN /\ pc \in [Rank -> Range(Phases)]
     /\ target_pool_size \in [Rank -> 0 .. NRanks]
     /\ rank_pool \in [Rank -> -1 .. NRanks - 1] /\ size_pool \in [Rank -> -1 .. NRanks]
     /\ total_nlocs \in [Rank -> 0 .. all] /\ global_nlocs \in [Rank -> 0 .. all]
     /\ nlocs_start \in [Rank -> 0 .. all]
     /\ varNumber \in [Rank -> 1 .. Len(Variables) + 1]
     /\ waiting \subseteq Rank
     /\ \A n \in DOMAIN dir : dir[n] \in DOMAIN disk

\* "we want the tiles from rank 0 first, rank 1 second, rank 2 third and so on"
\* (WriterPool.cpp): when save returns, the files of the pool, one after the
\* other, hold the patch values of all the ranks in the order of the ranks, each
\* once, for every variable; whichever ranks have nothing to write.
TilesInOrder ==
  Done =>
    LET nfiles == IF IsParallelIo(0) THEN 1 ELSE Cardinality(Pool)
        content(i, v) == disk[dir[SavedName(GroupStart(i))]][v]
    IN \A v \in DOMAIN Variables :
         IF Variables[v].usesLocation
         THEN Joined([i \in 0 .. nfiles - 1 |-> content(i, v)], nfiles)
              = Joined([r \in Rank |-> Selected(r, patchObsVec[r], Variables[v].dimFactor)], NRanks)
         ELSE \A i \in 0 .. nfiles - 1 : content(i, v) = Shared

\* A data message is expected: its receiver is in the pool, has the sender in its
\* assignment, is not yet past the only variable its tag can stand for, although
\* tags of different ranks coincide, and has as many places for its values as there
\* are values (the counts of two ranks that compute them apart).
MessagesExpected ==
  \A m \in msgs :
    /\ InPool(m.to)
    /\ \A v \in DOMAIN Variables : m.tag = Tag(m.from, v) =>
         /\ varNumber[m.to] <= v
         /\ \E k \in DOMAIN rank_assignment[m.to] :
              rank_assignment[m.to][k][1] = m.from
              /\ Len(m.data) = rank_assignment[m.to][k][2] * Variables[v].dimFactor

\* Every rank comes back from save, also when MPI does not buffer: no rank waits
\* for a collective, a message or a receiver that never comes.
SaveReturns == <>Done

\* "Rename the output file, then copy back to the original name"
\* (WriteH5File.cpp): when save returns, the files are those the writers created.
OriginalNames ==
  Done => DOMAIN dir = {FileName(r) : r \in {s \in Pool : IsParallelIo(s) => s = 0}}

\* The state of the pool stays well-typed, and no rank receives a message of another
\* sender, variable or size than it has prepared for (WriterPool, WriterUtils).
PoolConsistent == TypeOK /\ MessagesExpected

-----------------------------------------------------------------------------
(***************************************************************************)
(* The inductive invariant behind TilesInOrder and PoolConsistent          *)
(* (WriterSaveProofs).  Its parameters are what no step changes:           *)
(*   p   patchObsVec          l   stringLength       t   timeRank          *)
(*   m   writeMultipleFiles   n   the number of groups                     *)
(***************************************************************************)

\* The rank of the pool that rank r belongs to, and the rank behind its group
Lead(n, r) == Start(n, GroupIn(n, r))
GroupEnd(n, r) == Lead(n, r) + Count(n, GroupIn(n, r))
Follows(n, r) == {s \in Rank : Lead(n, s) = r}

\* The number of values of ranks below s, for a variable with f values per location
Below(p, f, s) == SumBelow([r \in Rank |-> CountTrue(p[r]) * f], s)

\* Ranks leave the collectives when all have entered them
PhasesInv(n) ==
  /\ pc \in [Rank -> Range(Phases)]
  /\ \A r \in Rank : pc[r] = "info" => Lead(n, r) = r
  /\ \A r, s \in Rank :
       /\ Reached(r, "gather") => Reached(0, "gather")
       /\ Reached(r, "split") => Reached(s, "assign")
       /\ Reached(r, "info") => Reached(s, "split")
       /\ Reached(r, "open") /\ Lead(n, r) = r /\ Lead(n, s) = s => Reached(s, "info")
       /\ Reached(r, "transfer") => Reached(s, "strlen")
       /\ Reached(r, "final") => Reached(s, "barrier")

Assignment(p, n, r) ==
  IF Lead(n, r) = r THEN [k \in 1 .. GroupEnd(n, r) - r - 1 |-> <<r + k, CountTrue(p[r + k])>>]
  ELSE <<<<Lead(n, r), CountTrue(p[r])>>>>

CellLength(p, l) == Max({1} \cup {IF p[s] = <<>> THEN 0 ELSE l[s] : s \in Rank})

\* What a rank has computed in each phase
PoolSet(p, l, n) ==
  /\ target_pool_size = [r \in Rank |-> IF Reached(r, "gather") THEN n ELSE 0]
  /\ rank_assignment = [r \in Rank |-> IF Reached(r, "split") THEN Assignment(p, n, r) ELSE <<>>]
  /\ rank_pool = [r \in Rank |-> IF Reached(r, "info") /\ Lead(n, r) = r THEN GroupIn(n, r) ELSE -1]
  /\ size_pool = [r \in Rank |-> IF Reached(r, "info") /\ Lead(n, r) = r THEN n ELSE -1]
  /\ total_nlocs = [r \in Rank |-> IF Reached(r, "info") /\ Lead(n, r) = r
                                   THEN Below(p, 1, GroupEnd(n, r)) - Below(p, 1, r) ELSE 0]
  /\ global_nlocs = [r \in Rank |-> IF Reached(r, "open") /\ Lead(n, r) = r
                                    THEN Below(p, 1, NRanks) ELSE 0]
  /\ nlocs_start = [r \in Rank |-> IF Reached(r, "open") /\ Lead(n, r) = r
                                   THEN Below(p, 1, r) ELSE 0]
  /\ strLen = [r \in Rank |-> IF Reached(r, "transfer") THEN CellLength(p, l) ELSE 0]

\* Rank s has started to send variable v
Sent(s, v) == varNumber[s] > v \/ (varNumber[s] = v /\ s \in waiting)

Values(p, s, v) == Selected(s, p[s], Variables[v].dimFactor)

Message(p, l, n, s, v) ==
  [from |-> s, to |-> Lead(n, s), tag |-> Tag(s, v), data |-> Values(p, s, v),
   cell |-> CellLength(p, l) + 1]

\* The variable a rank has come to, with the phase it is in
AtVariable(r) ==
  /\ varNumber[r] \in 1 .. Len(Variables) + 1
  /\ pc[r] = "transfer" => varNumber[r] <= Len(Variables)
  /\ varNumber[r] > 1 => Reached(r, "transfer")
  /\ Reached(r, "barrier") => varNumber[r] = Len(Variables) + 1

\* Only ranks outside the pool wait for a send, only those of the pool receive
Waits(n, s) ==
  s \in Rank /\ pc[s] = "transfer" /\ Lead(n, s) # s /\ Variables[varNumber[s]].usesLocation
Receives(n, r) ==
  arrived[r] # <<>> => pc[r] = "transfer" /\ Lead(n, r) = r /\ Variables[varNumber[r]].usesLocation

\* The k-th block on rank r is what the k-th rank behind it has sent
Block(p, n, r, k) ==
  /\ r + k \in Follows(n, r) \ {r}
  /\ Sent(r + k, varNumber[r])
  /\ arrived[r][k] = Values(p, r + k, varNumber[r])

\* The variables behind rank r have been sent to it
HasAll(n, r) ==
  \A v \in DOMAIN Variables : \A s \in Follows(n, r) \ {r} :
    varNumber[r] > v /\ Variables[v].usesLocation => Sent(s, v)

\* x is what rank s has sent of variable v; its receiver still needs it
InFlight(p, l, n, x, s, v) ==
  /\ x = Message(p, l, n, s, v)
  /\ Lead(n, s) # s /\ Variables[v].usesLocation /\ Sent(s, v) /\ Reached(s, "transfer")
  /\ varNumber[Lead(n, s)] <= v
  /\ varNumber[Lead(n, s)] = v => s - Lead(n, s) \notin DOMAIN arrived[Lead(n, s)]

TransferInv(p, l, n) ==
  /\ varNumber = [r \in Rank |-> varNumber[r]] /\ arrived = [r \in Rank |-> arrived[r]]
  /\ \A r \in Rank : AtVariable(r) /\ Receives(n, r) /\ HasAll(n, r)
  /\ \A r \in Rank : \A k \in DOMAIN arrived[r] : Block(p, n, r, k)
  /\ \A s \in waiting : Waits(n, s)
  /\ \A x \in msgs : \E s \in Rank, v \in DOMAIN Variables : InFlight(p, l, n, x, s, v)

Parallel(m, n) == ~m /\ n > 1

\* The file that rank r of the pool writes, its name, the name of its copy, and
\* whether rank r makes that
File(m, n, r) == IF Parallel(m, n) THEN 0 ELSE 2 * r
Name(m, n, t, r) == UniquifyFileName(OutputName, m /\ n > 1, GroupIn(n, r), t)
CopyName(m, n, t, r) == UniquifyFileName(Name(m, n, t, r), FALSE, GroupIn(n, r), t)
Posts(m, n, r) == Lead(n, r) = r /\ (Parallel(m, n) => r = 0)

\* Where a file begins and ends, as a number of values
FileStart(p, m, n, r, f) == IF Parallel(m, n) THEN 0 ELSE Below(p, f, r)
FileEnd(p, m, n, r, f) == IF Parallel(m, n) THEN Below(p, f, NRanks) ELSE Below(p, f, GroupEnd(n, r))

\* The variables of a file that rank r of the pool writes have their full size
Shaped(p, m, n, r, file) ==
  /\ DOMAIN file = DOMAIN Variables
  /\ \A v \in DOMAIN Variables : Variables[v].usesLocation =>
       LET f == Variables[v].dimFactor
       IN file[v] = [x \in 1 .. FileEnd(p, m, n, r, f) - FileStart(p, m, n, r, f) |-> file[v][x]]

\* The values of the group of rank r are in their places in what the file holds of variable v
Tiled(p, m, n, r, v, data) ==
  IF Variables[v].usesLocation
  THEN \A s \in Follows(n, r) : \A k \in DOMAIN Values(p, s, v) :
         data[Below(p, Variables[v].dimFactor, s)
              - FileStart(p, m, n, r, Variables[v].dimFactor) + k] = Values(p, s, v)[k]
  ELSE data = Shared

\* The file of rank r of the pool holds the variables that r is behind
Written(p, m, n, r) ==
  /\ File(m, n, r) \in DOMAIN disk
  /\ Shaped(p, m, n, r, disk[File(m, n, r)])
  /\ \A v \in DOMAIN Variables : v < varNumber[r] => Tiled(p, m, n, r, v, disk[File(m, n, r)][v])

\* The file that rank r finalizes has its name, and its copy then holds all variables
Linked(m, n, t, r) ==
  Name(m, n, t, r) \in DOMAIN dir /\ dir[Name(m, n, t, r)] = File(m, n, r)
Copied(p, m, n, t, r) ==
  /\ CopyName(m, n, t, r) \in DOMAIN dir
  /\ dir[CopyName(m, n, t, r)] = File(m, n, r) + 1
  /\ File(m, n, r) + 1 \in DOMAIN disk
  /\ Shaped(p, m, n, r, disk[File(m, n, r) + 1])
  /\ \A s \in Rank : Lead(n, s) = s /\ File(m, n, s) = File(m, n, r) =>
       \A v \in DOMAIN Variables : Tiled(p, m, n, s, v, disk[File(m, n, r) + 1][v])

FilesInv(p, m, n, t) ==
  /\ \A name \in DOMAIN dir : dir[name] \in DOMAIN disk
  /\ \A r \in Rank : Lead(n, r) = r /\ Reached(r, "strlen") => Written(p, m, n, r)
  /\ \A r \in Rank : Posts(m, n, r) /\ Reached(r, "strlen") =>
       IF Reached(r, "final") THEN Copied(p, m, n, t, r) ELSE Linked(m, n, t, r)

InputType ==
  /\ patchObsVec \in [Rank -> PatchVectors] /\ stringLength \in [Rank -> StringLengths]
  /\ maxPoolSize \in MaxPoolSizes /\ writeMultipleFiles \in BOOLEAN /\ timeRank \in TimeRanks

PoolInv ==
  /\ InputType
  /\ PhasesInv(TargetPoolSize)
  /\ PoolSet(patchObsVec, stringLength, TargetPoolSize)
  /\ TransferInv(patchObsVec, stringLength, TargetPoolSize)
  /\ FilesInv(patchObsVec, writeMultipleFiles, TargetPoolSize, timeRank)
=============================================================================
