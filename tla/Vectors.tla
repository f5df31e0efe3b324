--------------------------------- MODULE Vectors --------------------------------
(***************************************************************************)
(* Vectors as the loops over the locations of a rank and the collective    *)
(* calls build them, by recursion on the number of elements or of ranks.   *)
(***************************************************************************)
EXTENDS Integers, Sequences

\* The elements of x at the marked ones among its first n positions: a loop with
\* a counter that is incremented at each marked element
Marked(x, mark, n) ==
  LET xtmp[k \in 0 .. n] ==
        IF k = 0 THEN <<>>
        ELSE IF mark[k] THEN Append(xtmp[k - 1], x[k]) ELSE xtmp[k - 1]
  IN xtmp[n]

\* oops::mpi::allGatherv over the ranks 0 .. n - 1: their vectors, rank after rank
Joined(xs, n) ==
  LET all[k \in 0 .. n] == IF k = 0 THEN <<>> ELSE all[k - 1] \o xs[k - 1]
  IN all[n]

\* oops::mpi::exclusiveScan on rank n: the sum of what the lower ranks contribute
SumBelow(x, n) ==
  LET sum[k \in 0 .. n] == IF k = 0 THEN 0 ELSE sum[k - 1] + x[k - 1]
  IN sum[n]
=============================================================================
