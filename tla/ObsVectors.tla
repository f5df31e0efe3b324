----------------------------- MODULE ObsVectors -----------------------------
(***************************************************************************)
(* ObsVector and ObsDataVector: vectors with one element per variable and  *)
(* location of the ObsSpace, spread over the MPI ranks as the              *)
(* distribution spreads the locations; and the reductions (sums, minima,   *)
(* maxima) that a distribution offers over all ranks.                      *)
(*                                                                         *)
(* A distribution is a record: kind, locs (the locations of each rank, in  *)
(* the order held) and patch (which of them the rank owns); a pair has     *)
(* first and second instead.  The kind is nonoverlapping (RoundRobin,      *)
(* Atlas and their replicas), general (Halo), its replica, or inefficient. *)
(* A vector is a function of the rank; element loc * nvars + var of a rank *)
(* is the value of a variable at a location.                               *)
(* Numbers are integers, quotients are truncated and x / 0 is Inf.         *)
(***************************************************************************)
EXTENDS ObsAccess

Inf == 999
Total(s) == FoldLeft(LAMBDA a, b : a + b, 0, s)
Quotient(a, b) == IF b = 0 THEN Inf ELSE (IF a * b < 0 THEN -1 ELSE 1) * ((IF a < 0 THEN -a ELSE a) \div (IF b < 0 THEN -b ELSE b))

\* Min and max of one number per rank.
Least(f) == CHOOSE v \in Range(f) : \A w \in Range(f) : v <= w
Greatest(f) == CHOOSE v \in Range(f) : \A w \in Range(f) : w <= v

-----------------------------------------------------------------------------
(* Distributions: which locations a rank holds and owns, and reductions.   *)

locsOf(d) ==
    IF d.kind = "pair" THEN [r \in DOMAIN d.first.locs |-> d.first.locs[r] \o d.second.locs[r]] ELSE d.locs

Ranks(d) == DOMAIN locsOf(d)

\* What patchObs gives for one distribution that is not a pair.
patchObs(d) ==
    [r \in Ranks(d) |->
        CASE d.kind = "nonoverlapping" -> [i \in DOMAIN d.locs[r] |-> TRUE]
          [] d.kind = "inefficient"    -> [i \in DOMAIN d.locs[r] |-> r = 1]
          [] d.kind \in {"general", "replica"} -> d.patch[r]]

\* A sum over all ranks, known to all of them.
allReduceSum(f) == [r \in DOMAIN f |-> Total([i \in DOMAIN f |-> f[i]])]

NonoverlappingDistributionAccumulator(d, terms) ==
    allReduceSum([r \in Ranks(d) |-> Total(terms[r])])

\* The ranks add up what they hold.
GeneralDistributionAccumulator_All(d, terms) ==
    allReduceSum([r \in Ranks(d) |-> Total(terms[r])])

GeneralDistributionAccumulator(d, terms) ==
    allReduceSum([r \in Ranks(d) |->
        Total([i \in DOMAIN terms[r] |-> IF patchObs(d)[r][i] THEN terms[r][i] ELSE 0])])

\* Every rank holds everything, nothing is communicated.
InefficientDistributionAccumulator(d, terms) == [r \in Ranks(d) |-> Total(terms[r])]

accumulateOne(d, terms) ==
    CASE d.kind = "nonoverlapping" -> NonoverlappingDistributionAccumulator(d, terms)
      [] d.kind \in {"general", "replica"} -> GeneralDistributionAccumulator(d, terms)
      [] d.kind = "inefficient"    -> InefficientDistributionAccumulator(d, terms)

SumsOf(x, y) == [r \in DOMAIN x |-> x[r] + y[r]]

PairOfDistributionsAccumulator(d, terms) ==
    LET n(r) == Len(d.first.locs[r])
    IN  SumsOf(accumulateOne(d.first, [r \in Ranks(d) |-> SubSeq(terms[r], 1, n(r))]),
               accumulateOne(d.second, [r \in Ranks(d) |-> SubSeq(terms[r], n(r) + 1, Len(terms[r]))]))

createAccumulator(d, terms) ==
    IF d.kind = "pair" THEN PairOfDistributionsAccumulator(d, terms) ELSE accumulateOne(d, terms)

\* min and max over all ranks; one rank's is already that of all when every
\* rank holds everything.
picked(op, x) == IF op = "min" THEN Least(x) ELSE Greatest(x)

NonoverlappingDistribution_reduction(d, x, op) == [r \in DOMAIN x |-> picked(op, x)]
Halo_reduction(d, x, op) == [r \in DOMAIN x |-> picked(op, x)]
ReplicaOfGeneralDistribution_reduction(d, x, op) == [r \in DOMAIN x |-> picked(op, x)]
InefficientDistribution_reduction(d, x, op) == x

reduceOne(d, x, op) ==
    CASE d.kind = "nonoverlapping" -> NonoverlappingDistribution_reduction(d, x, op)
      [] d.kind = "general"        -> Halo_reduction(d, x, op)
      [] d.kind = "replica"        -> ReplicaOfGeneralDistribution_reduction(d, x, op)
      [] d.kind = "inefficient"    -> InefficientDistribution_reduction(d, x, op)

PairOfDistributions_reduction(d, x, op) ==
    reduceOne(d.second, reduceOne(d.first, x, op), op)

reduction(d, x, op) ==
    IF d.kind = "pair" THEN PairOfDistributions_reduction(d, x, op) ELSE reduceOne(d, x, op)

-----------------------------------------------------------------------------
(* DistributionUtils: terms are summed per location.                       *)

\* The elements of location loc, which counts from 1.
AtLoc(v, n, loc) == SubSeq(v, (loc - 1) * n + 1, loc * n)

PerLocation(d, n, Term(_, _), v) ==
    [r \in Ranks(d) |-> [loc \in 1 .. Len(v[r]) \div n |-> Term(r, loc)]]

globalNumNonMissingObs(d, n, v) ==
    createAccumulator(d, PerLocation(d, n, LAMBDA r, loc :
        Len(SelectSeq(AtLoc(v[r], n, loc), LAMBDA x : x # Missing32)), v))

dotProduct(d, n, v, w) ==
    createAccumulator(d, PerLocation(d, n, LAMBDA r, loc :
        LET a == AtLoc(v[r], n, loc)
            b == AtLoc(w[r], n, loc)
        IN  Total([k \in 1 .. n |-> IF a[k] # Missing32 /\ b[k] # Missing32 THEN a[k] * b[k] ELSE 0]), v))

-----------------------------------------------------------------------------
(* ObsVector: one operation on the vector x of a rank, y being another.    *)

BothPresent(x, y, Op(_, _)) ==
    [j \in DOMAIN x |-> IF x[j] = Missing32 \/ y[j] = Missing32 THEN Missing32 ELSE Op(x[j], y[j])]

WherePresent(x, Op(_)) == [j \in DOMAIN x |-> IF x[j] = Missing32 THEN Missing32 ELSE Op(x[j])]

op_times_scalar(x, z) == WherePresent(x, LAMBDA a : z * a)
op_plus(x, y) == BothPresent(x, y, LAMBDA a, b : a + b)
op_minus(x, y) == BothPresent(x, y, LAMBDA a, b : a - b)
op_times(x, y) == BothPresent(x, y, LAMBDA a, b : a * b)
op_divide(x, y) == BothPresent(x, y, LAMBDA a, b : Quotient(a, b))
zero(x) == [j \in DOMAIN x |-> 0]
ones(x) == [j \in DOMAIN x |-> 1]
axpy(x, z, y) == BothPresent(x, y, LAMBDA a, b : a + z * b)

\* beta has one factor per variable.
axpy_beta(x, beta, y) ==
    [j \in DOMAIN x |->
        IF x[j] = Missing32 \/ y[j] = Missing32 THEN Missing32
        ELSE x[j] + beta[((j - 1) % Len(beta)) + 1] * y[j]]

invert(x) == WherePresent(x, LAMBDA a : Quotient(1, a))

mask(x, m) == [j \in DOMAIN x |-> IF m[j] = Missing32 THEN Missing32 ELSE x[j]]

\* The numbers are taken in the order in which a rank holds its locations.
random_Local(perts, index, n) ==
    [j \in 1 .. Len(index) * n |-> perts[j]]

\* Rank 0 draws one number per variable and location of the file and
\* broadcasts them; a rank takes those of its locations.
random(perts, index, n) ==
    [j \in 1 .. Len(index) * n |-> perts[index[((j - 1) \div n) + 1] * n + ((j - 1) % n) + 1]]

packEigen(x, m) ==
    LET kept == Positions(x, LAMBDA j : m[j] # Missing32 /\ x[j] # Missing32)
    IN  [k \in DOMAIN kept |-> x[kept[k]]]

\* save and read go through the variables of the ObsSpace, one after the other.
save(db, group, names, x) ==
    FoldLeft(LAMBDA acc, jv :
                IF acc.state # "done" THEN acc
                ELSE put_db(acc.db, "double", group, names[jv],
                            [jj \in 1 .. db.nlocs |-> x[jv + (jj - 1) * Len(names)]], <<"Location">>),
             After(db, Done(0)), [jv \in DOMAIN names |-> jv])

\* The values of a variable follow one another.
byLocation_ByVariable(got, nlocs) ==
    IF \E jv \in DOMAIN got : got[jv].state # "done" THEN Thrown
    ELSE Done(FlattenSeq([jv \in DOMAIN got |-> got[jv].val]))

byLocation(got, nlocs) ==
    LET n == Len(got)
    IN  IF \E jv \in DOMAIN got : got[jv].state # "done" THEN Thrown
        ELSE IF \E jv \in DOMAIN got : Len(got[jv].val) < nlocs THEN Undefined
        ELSE Done([j \in 1 .. nlocs * n |-> got[((j - 1) % n) + 1].val[((j - 1) \div n) + 1]])

read(db, group, names) ==
    byLocation([jv \in DOMAIN names |-> get_db(db, "double", group, names[jv], <<>>, FALSE)],
               db.nlocs)

-----------------------------------------------------------------------------
(* ObsDataVector: a row per variable.                                      *)

rowsFrom(x, n) ==
    [jv \in 1 .. n |-> [jl \in 1 .. Len(x) \div n |-> LET v == x[(jl - 1) * n + jv]
                                                      IN  IF v = Missing32 THEN Missing32 ELSE toFloat(v)]]

vectorFrom(rows, names, rowNames) ==
    LET row(name) == rows[CHOOSE k \in DOMAIN rowNames : rowNames[k] = name]
        n == Len(names)
    IN  IF ~(Range(names) \subseteq Range(rowNames)) THEN Thrown
        ELSE Done([j \in 1 .. n * Len(rows[1]) |-> row(names[((j - 1) % n) + 1])[((j - 1) \div n) + 1]])

maskRows(rows, flags) ==
    [jv \in DOMAIN rows |-> [jl \in DOMAIN rows[jv] |->
        IF flags[jv][jl] > 0 THEN Missing32 ELSE rows[jv][jl]]]

\* Row jv takes variable jv of the vector.
assignToExistingVariables_InOrder(rowNames, x, names) ==
    IF ~(Range(rowNames) \subseteq Range(names)) THEN Thrown
    ELSE Done([jv \in DOMAIN rowNames |-> rowsFrom(x, Len(names))[jv]])

assignToExistingVariables(rowNames, x, names) ==
    IF ~(Range(rowNames) \subseteq Range(names)) THEN Thrown
    ELSE Done([jv \in DOMAIN rowNames |->
                rowsFrom(x, Len(names))[CHOOSE k \in DOMAIN names : names[k] = rowNames[jv]]])

\* With fail false a variable the ObsSpace does not have leaves its row alone;
\* whether it has it is asked without regard to skipDerived.
readRows(db, kind, group, names, rows, fail, skipDerived) ==
    IF db.nlocs = 0 THEN Done(rows)
    ELSE FoldLeft(LAMBDA acc, jv :
            AndThen(acc, LAMBDA rs :
            AndThen(IF fail THEN Done(TRUE) ELSE has(db, group, names[jv], FALSE), LAMBDA there :
                IF ~there THEN Done(rs)
                ELSE AndThen(get_db(db, kind, group, names[jv], <<>>, skipDerived), LAMBDA vs :
                    IF Len(vs) < db.nlocs THEN Thrown
                    ELSE Done([rs EXCEPT ![jv] = SubSeq(vs, 1, db.nlocs)])))),
         Done(rows), [jv \in DOMAIN names |-> jv])

saveRows(db, kind, group, names, rows) ==
    FoldLeft(LAMBDA acc, jv :
                IF acc.state # "done" THEN acc
                ELSE put_db(acc.db, kind, group, names[jv], rows[jv], <<"Location">>),
             After(db, Done(0)), [jv \in DOMAIN names |-> jv])

-----------------------------------------------------------------------------
(* Statistics.  A rank without a value starts from the limits of the type. *)

Present(x) == SelectSeq(x, LAMBDA v : v # Missing32)
localMin(x) == Least(Append(Present(x), Inf * Inf))
localMax(x) == Greatest(Append(Present(x), -Inf * Inf))

multivar_dot_product_with(d, n, x, y) ==
    LET column(v, jvar) == [r \in DOMAIN v |-> [jloc \in 1 .. Len(v[r]) \div n |-> v[r][jvar + (jloc - 1) * n]]]
        each == [jvar \in 1 .. n |-> dotProduct(d, 1, column(x, jvar), column(y, jvar))]
    IN  [r \in Ranks(d) |-> [jvar \in 1 .. n |-> each[jvar][r]]]

\* A line per rank, empty when there are no values.
Lines(nobs, lo, hi, average) ==
    [r \in DOMAIN nobs |-> IF nobs[r] > 0 THEN <<nobs[r], lo[r], hi[r], average[r]>> ELSE <<>>]

\* The average of a sum, which stays as it is when there is nothing to average.
Averages(nobs, sum) ==
    [r \in DOMAIN nobs |-> IF nobs[r] > 0 THEN Quotient(sum[r], nobs[r]) ELSE sum[r]]

\* The square of rms.
rms(d, n, x) == Averages(globalNumNonMissingObs(d, n, x), dotProduct(d, n, x, x))

\* What ObsVector::print shows.
ObsVector_print(d, n, x) ==
    Lines(globalNumNonMissingObs(d, n, x),
          reduction(d, [r \in Ranks(d) |-> localMin(x[r])], "min"),
          reduction(d, [r \in Ranks(d) |-> localMax(x[r])], "max"),
          rms(d, n, x))

\* What ObsDataVector::print shows of a row of numbers: one term per location
\* that has a value.
printNumericObsDataVectorStats(d, row) ==
    LET nobs == globalNumNonMissingObs(d, 1, row)
    IN  Lines(nobs,
              reduction(d, [r \in Ranks(d) |-> localMin(row[r])], "min"),
              reduction(d, [r \in Ranks(d) |-> localMax(row[r])], "max"),
              Averages(nobs, createAccumulator(d, [r \in Ranks(d) |->
                    [j \in DOMAIN row[r] |-> IF row[r][j] = Missing32 THEN 0 ELSE row[r][j]]])))

-----------------------------------------------------------------------------
(* A program that every rank runs on its part of two vectors.              *)

ApplyOp(op, q, index, x, y) ==
    CASE op = "scale"  -> op_times_scalar(x, 2)
      [] op = "plus"   -> op_plus(x, y)
      [] op = "minus"  -> op_minus(x, y)
      [] op = "times"  -> op_times(x, y)
      [] op = "divide" -> op_divide(x, y)
      [] op = "zero"   -> zero(x)
      [] op = "ones"   -> ones(x)
      [] op = "axpy"   -> axpy(x, 3, y)
      [] op = "beta"   -> axpy_beta(x, q.beta, y)
      [] op = "invert" -> invert(x)
      [] op = "mask"   -> mask(x, y)
      [] op = "random" -> random(q.perts, index, q.n)

\* X, Y and source give the elements and the source index of each location.
LocalPart(d, r, f) == FlattenSeq([i \in DOMAIN locsOf(d)[r] |-> f[locsOf(d)[r][i]]])

AllParts(d, f) == [r \in Ranks(d) |-> LocalPart(d, r, f)]

ApplyOps(q, d, y) ==
    [r \in Ranks(d) |->
        FoldLeft(LAMBDA v, op : ApplyOp(op, q, [i \in DOMAIN locsOf(d)[r] |-> q.source[locsOf(d)[r][i]]], v, y[r]),
                 LocalPart(d, r, q.X), q.ops)]

\* What is shown to each rank.
Shown(d, print, dot, dots, rows) ==
    [r \in Ranks(d) |-> <<print[r], dot[r], dots[r], [jv \in DOMAIN rows |-> rows[jv][r]]>>]

Results(q, d, x, y) ==
    [x |-> x, packed |-> [r \in Ranks(d) |-> packEigen(x[r], y[r])],
     stats |-> Shown(d, ObsVector_print(d, q.n, x), dotProduct(d, q.n, x, y),
                     multivar_dot_product_with(d, q.n, x, y),
                     [jv \in 1 .. q.n |-> printNumericObsDataVectorStats(d,
                        [r \in Ranks(d) |-> rowsFrom(x[r], q.n)[jv]])])]

runVector(q, d) ==
    LET y == AllParts(d, q.Y) IN Results(q, d, ApplyOps(q, d, y), y)

\* One process that holds every location.
Alone(q) == [kind |-> "nonoverlapping", locs |-> << [i \in DOMAIN q.X |-> i] >>]

runVectors(q) == Done(runVector(q, q.dist))

\* A program of vector operations, a random perturbation included, leaves at a
\* location the same values on whichever ranks hold it, and the same as when
\* one process holds all locations (ObsVector's operators and random, where
\* the ranks draw from one broadcast vector by source index); packEigen then
\* packs what is present at the rank's locations, in their order.
VectorsAgree ==
    Returned("vectors") =>
        LET d == call.q.dist
            serial == runVector(call.q, Alone(call.q)).x[1]
        IN  \A r \in Ranks(d) : \A i \in DOMAIN locsOf(d)[r] :
                /\ AtLoc(out.val.x[r], call.q.n, i) = AtLoc(serial, call.q.n, locsOf(d)[r][i])
                /\ out.val.packed[r] = FlattenSeq([k \in DOMAIN locsOf(d)[r] |->
                        packEigen(AtLoc(serial, call.q.n, locsOf(d)[r][k]), call.q.Y[locsOf(d)[r][k]])])

\* Every rank is given the same number of values, extremes, averages and dot
\* products as one process that holds all locations: a location held by several
\* ranks counts once, a missing value never (dotProduct, globalNumNonMissingObs,
\* print, and the accumulators and reductions of the distributions).
StatsAgree ==
    Returned("vectors") =>
        \A r \in Ranks(call.q.dist) :
            out.val.stats[r] = runVector(call.q, Alone(call.q)).stats[1]

-----------------------------------------------------------------------------
(* A vector saved into an ObsSpace and read back.                          *)

IfSaved(s, op(_)) == IF s.state = "done" THEN op(s.db) ELSE s

saveThenRead(q) ==
    LET blank == [jv \in DOMAIN q.names |-> [jl \in 1 .. q.db.nlocs |-> 0]]
    IN  IfSaved(save(q.db, q.group, q.names, q.x), LAMBDA db1 :
        IfSaved(saveRows(db1, "float", q.rowGroup, q.names, rowsFrom(q.x, Len(q.names))), LAMBDA db2 :
        AndThen(read(db2, q.group, q.names), LAMBDA x :
        AndThen(readRows(db2, "float", q.rowGroup, q.names, blank, FALSE, FALSE), LAMBDA rows :
            Done([x |-> x, rows |-> rows])))))

\* A vector saved under a new group name, and the ObsDataVector made of it, read
\* back with the values they had up to the precision of a float, also when the
\* variables are channels that share one two-dimensional variable of the
\* ObsSpace whose order of channels is another (ObsVector::save and read,
\* ObsDataVector::save and read).
SavedVectorReadsBack ==
    Returned("save vector") =>
        /\ out.val.x = [j \in DOMAIN call.q.x |-> toFloat(call.q.x[j])]
        /\ out.val.rows = rowsFrom(call.q.x, Len(call.q.names))

\* An ObsVector to the rows of an ObsDataVector with variables of its own, the
\* flagged elements masked, and back into a vector of those variables.
throughRows(q) ==
    AndThen(assignToExistingVariables(q.rowNames, q.x, q.names), LAMBDA rows :
    AndThen(vectorFrom(maskRows(rows, q.flags), q.back, q.rowNames), LAMBDA x :
        Done([rows |-> rows, x |-> x])))

\* The order in which an ObsVector and an ObsDataVector list their variables
\* does not matter: after assignToExistingVariables, mask and the assignment back
\* an element is that of the variable of the same name at the same location, or
\* missing where it was missing or flagged.
RowsFollowNames ==
    Returned("rows") =>
        \A j \in DOMAIN out.val.x :
            LET q == call.q
                name == q.back[((j - 1) % Len(q.back)) + 1]
                loc  == (j - 1) \div Len(q.back)
                k == CHOOSE i \in DOMAIN q.names : q.names[i] = name
                f == CHOOSE i \in DOMAIN q.rowNames : q.rowNames[i] = name
            IN  out.val.x[j] = IF q.flags[f][loc + 1] > 0 THEN Missing32
                               ELSE toFloat(q.x[loc * Len(q.names) + k])

\* The distribution does not show: values and statistics are those of one process
\* that holds everything (ObsVector, the accumulators of the distributions).
DistributionInvisible == VectorsAgree /\ StatsAgree

\* Values follow the names of variables, not their positions, between vectors and
\* through the ObsSpace (ObsVector and ObsDataVector, save, read, assign).
ValuesFollowNames == SavedVectorReadsBack /\ RowsFollowNames
=============================================================================
