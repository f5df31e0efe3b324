----------------------------- MODULE Selections -----------------------------
(***************************************************************************)
(* What a selection (ioda::Selection) picks, in the two backends.          *)
(*                                                                         *)
(* The in-memory backend (ObsStore) turns a selection into one index list  *)
(* per dimension and walks it with an odometer that yields linear offsets. *)
(* The HDF5 backend (HH) hands it to the HDF5 library, which keeps a set   *)
(* of coordinates and visits it in row-major order.  Coordinates, offsets  *)
(* and dimension numbers count from 0 as in the code; the sequences that   *)
(* hold them count from 1.                                                 *)
(***************************************************************************)
EXTENDS Integers, Sequences, FiniteSets, SequencesExt

Product(s) ==
    LET upTo[k \in 0 .. Len(s)] == IF k = 0 THEN 1 ELSE upTo[k - 1] * s[k]
    IN  upTo[Len(s)]

Coords(dims) ==
    LET sz == UNION {0 .. dims[i] - 1 : i \in DOMAIN dims}
    IN  {c \in [DOMAIN dims -> sz] : \A i \in DOMAIN dims : c[i] < dims[i]}

RowMajor(c, dims) ==
    LET upTo[k \in 0 .. Len(dims)] == IF k = 0 THEN 0 ELSE upTo[k - 1] * dims[k] + c[k]
    IN  upTo[Len(dims)]

CoordAt(offset, dims) ==
    [i \in DOMAIN dims |-> (offset \div Product(SubSeq(dims, i + 1, Len(dims)))) % dims[i]]

\* The elements of a set from the least to the greatest of a strict total order.
Ranked(S, Less(_, _)) ==
    [k \in 1 .. Cardinality(S) |-> CHOOSE x \in S : Cardinality({y \in S : Less(y, x)}) = k - 1]

\* The coordinates of a set in row-major order.
InOrder(S, dims) ==
    SelectSeq([k \in 1 .. Product(dims) |-> CoordAt(k - 1, dims)], LAMBDA c : c \in S)

-----------------------------------------------------------------------------
(* ioda::Selection: a default state, a list of actions, and the extent of  *)
(* the space it applies to (empty when it is that of the variable).        *)

SelectAll == [default |-> "ALL", actions |-> <<>>, extent |-> <<>>]

Hyperslab(op, start, count) ==
    [kind |-> "slab", op |-> op, start |-> start, count |-> count,
     stride |-> [i \in DOMAIN start |-> 1], block |-> [i \in DOMAIN start |-> 1]]

StridedSlab(op, start, count, stride, block) ==
    [kind |-> "slab", op |-> op, start |-> start, count |-> count,
     stride |-> stride, block |-> block]

Points(op, points) == [kind |-> "points", op |-> op, points |-> points]

DimIndices(op, dim, starts, counts) ==
    [kind |-> "dim", op |-> op, dim |-> dim, starts |-> starts, counts |-> counts]

Select(sel, action) == [sel EXCEPT !.actions = Append(@, action)]

Extent(sel, dims) == [sel EXCEPT !.extent = dims]

-----------------------------------------------------------------------------
(* ObsStore: index lists per dimension.                                    *)

genSlabSelects(a) ==
    [d \in DOMAIN a.start |->
        [k \in 1 .. a.count[d] * a.block[d] |->
            a.start[d] + ((k - 1) \div a.block[d]) * a.stride[d] + ((k - 1) % a.block[d])]]

genPointSelects(a) ==
    [d \in DOMAIN a.points[1] |-> [p \in DOMAIN a.points |-> a.points[p][d]]]

\* The inner loop runs to the number of counts, not to the count of range i.
dimIndicesOf(a) ==
    LET len == IF a.counts = <<>> THEN 1 ELSE Len(a.counts)
    IN  {a.starts[i] + j : i \in DOMAIN a.starts, j \in 0 .. len - 1}

dimIndicesOf_Counts(a) ==
    UNION {a.starts[i] .. a.starts[i] + (IF i <= Len(a.counts) THEN a.counts[i] ELSE 1) - 1 :
           i \in DOMAIN a.starts}

genDimSelects(actions, dims) ==
    [d \in DOMAIN dims |->
        LET mine == {k \in DOMAIN actions : actions[k].dim = d - 1}
            last == CHOOSE k \in mine : \A j \in mine : j <= k
            idx  == IF mine = {} THEN {} ELSE dimIndicesOf(actions[last])
        IN  Ranked(IF idx = {} THEN 0 .. dims[d] - 1 ELSE idx, <)]

SelectionOfAll(n) ==
    [mode |-> "ALL", selects |-> <<>>, dims |-> <<>>, npoints |-> n, max |-> n - 1]

SelectionOf(mode, selects, dims) ==
    [mode |-> mode, selects |-> selects, dims |-> dims,
     npoints |-> IF mode = "INTERSECT"
                 THEN Product([d \in DOMAIN selects |-> Len(selects[d])])
                 ELSE Len(selects[1]),
     max |-> Product([d \in DOMAIN selects |-> dims[d]]) - 1]

\* Only the first action decides the mode; the other actions count only when
\* the selection is made of dimension indices.
createObsStoreSelection(sel, dims) ==
    IF sel.default = "ALL" /\ sel.actions = <<>>
    THEN SelectionOfAll(Product(dims))
    ELSE LET a == sel.actions[1]
         IN  CASE a.kind = "slab"   -> SelectionOf("INTERSECT", genSlabSelects(a), dims)
               [] a.kind = "points" -> SelectionOf("POINT", genPointSelects(a), dims)
               [] a.kind = "dim"    ->
                    SelectionOf("INTERSECT", genDimSelects(sel.actions, dims), dims)

-----------------------------------------------------------------------------
(* ObsStore: the odometer (SelectCounter) and the offsets it yields.       *)

CounterReset(s) == [digits |-> [d \in DOMAIN s.selects |-> 0], end |-> FALSE]

\* A counter whose carry resets the lower digits but forgets to go on.
CounterInc_NoCarry(s, c) ==
    LET n == Len(s.selects)
    IN  IF c.digits[n] + 1 = Len(s.selects[n])
        THEN [c EXCEPT !.end = TRUE]
        ELSE [c EXCEPT !.digits[n] = @ + 1]

CounterInc(s, c) ==
    LET n    == Len(s.selects)
        stay == {d \in 1 .. n : c.digits[d] + 1 # Len(s.selects[d])}
        k    == CHOOSE d \in stay : \A e \in stay : e <= d
    IN  CASE s.mode = "POINT" /\ c.digits[1] = n - 1 -> [c EXCEPT !.end = TRUE]
          [] s.mode = "POINT" /\ c.digits[1] # n - 1 ->
                [c EXCEPT !.digits = [d \in 1 .. n |-> @[d] + 1]]
          [] s.mode # "POINT" /\ stay = {} -> [c EXCEPT !.end = TRUE]
          [] OTHER -> [c EXCEPT !.digits =
                [d \in 1 .. n |-> IF d < k THEN @[d] ELSE IF d = k THEN @[d] + 1 ELSE 0]]

lin_indx(s, c) ==
    RowMajor([d \in DOMAIN s.selects |-> s.selects[d][c.digits[d] + 1]],
             SubSeq(s.dims, 1, Len(s.selects)))

\* The counter after k calls of inc.  A POINT counter that has ended stays
\* where it is.
CounterAt(s, n) ==
    LET at[k \in 0 .. n] == IF k = 0 THEN CounterReset(s) ELSE CounterInc(s, at[k - 1])
    IN  at[n]

\* How often next_lin_indx is called before end_lin_indx holds.
Steps(s) ==
    IF s.mode = "ALL" THEN s.npoints
    ELSE CHOOSE k \in 1 .. s.npoints + Len(s.selects) :
            /\ CounterAt(s, k).end
            /\ \A j \in 0 .. k - 1 : ~CounterAt(s, j).end

\* The first n results of next_lin_indx, had it not thrown.
LinIndices(s, n) ==
    [k \in 1 .. n |-> IF s.mode = "ALL" THEN k - 1 ELSE lin_indx(s, CounterAt(s, k - 1))]

\* The calls among the first n in which next_lin_indx throws, if the ones before
\* did not.
OutOfBounds(s, n) == LET at == LinIndices(s, n) IN {k \in 1 .. n : at[k] > s.max}

-----------------------------------------------------------------------------
(* HDF5: the selected coordinates, as HH_Variable::getSpaceWithSelection   *)
(* builds them and in the order the library visits them.                   *)

\* H5Sselect_hyperslab's set of coordinates.
SlabCoords(a, dims) ==
    {c \in Coords(dims) : \A d \in DOMAIN dims :
        \E i \in 0 .. a.count[d] - 1, j \in 0 .. a.block[d] - 1 :
            c[d] = a.start[d] + i * a.stride[d] + j}

DimCoords(a, dims) == {c \in Coords(dims) : c[a.dim + 1] \in dimIndicesOf_Counts(a)}

\* H5Sselect_hyperslab and H5Smodify_select with a set operator.
Combine(op, A, B) ==
    CASE op = "SET" -> B
      [] op = "OR"  -> A \cup B
      [] op = "AND" -> A \cap B
      [] op = "XOR" -> (A \ B) \cup (B \ A)
      [] op = "NOT_B" -> A \ B
      [] op = "NOT_A" -> B \ A

SpaceDims(sel, dims) == IF sel.extent = <<>> THEN dims ELSE sel.extent

\* The first action on dimension indices replaces the selection whatever its
\* operator and the default state are.
getSpaceWithSelection(sel, dims) ==
    LET sp == SpaceDims(sel, dims)
        start == IF sel.default = "ALL" THEN Coords(sp) ELSE {}
        apply(S, k) ==
            LET a == sel.actions[k]
            IN  CASE a.kind = "slab" -> Combine(a.op, S, SlabCoords(a, sp))
                  [] a.kind = "dim"  ->
                        Combine(IF k = 1 THEN "SET" ELSE a.op, S, DimCoords(a, sp))
                  [] a.kind = "points" -> Range(a.points)
    IN  FoldLeft(apply, start, [k \in DOMAIN sel.actions |-> k])

\* Points are visited as listed, every other selection in row-major order.
SelectedCoords(sel, dims) ==
    IF sel.actions # <<>> /\ sel.actions[1].kind = "points"
    THEN sel.actions[1].points
    ELSE InOrder(getSpaceWithSelection(sel, dims), SpaceDims(sel, dims))
=============================================================================
