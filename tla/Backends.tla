------------------------------ MODULE Backends ------------------------------
(***************************************************************************)
(* The facade (Group, ObsGroup, Has_Variables, Variable, Has_Attributes)   *)
(* over its two backends.  One client applies the same sequence of calls   *)
(* to an ObsStore tree (mem) and to an HDF5 file (h5).                     *)
(***************************************************************************)
EXTENDS Stores

CONSTANTS Vars,         \* the variables a client creates: path -> its scales
          NLocs,        \* initial length of Location
          MaxLocs,      \* bound on the length of Location
          NChans,       \* length of Channel
          MaxOps,       \* bound on the calls of a run
          NetcdfFill    \* the fill value of the netCDF policy

VARIABLES mem, h5,      \* the two stores
          res,          \* the last call and what it returned on each
          hist,         \* what has happened that the promises exclude
          ops           \* calls made

vars == <<mem, h5, res, hist, ops>>

LocationPath == <<"Location">>
ChannelPath  == <<"Channel">>
Paths        == DOMAIN Vars

-----------------------------------------------------------------------------
(* Dispatch to the backend b: the facade objects hold a backend pointer and *)
(* pass each call on.                                                      *)

create(b, st, path, spec) ==
    IF b = "mem" THEN OS_create(st, path, spec) ELSE HH_create(st, path, spec)
createGroup(b, st, g) ==
    IF b = "mem" THEN OS_createGroup(st, g) ELSE HH_createGroup(st, g)
open(b, st, path) ==
    IF b = "mem" THEN OS_open(st, path) ELSE HH_open(st, path)
remove(b, st, base, path) ==
    IF b = "mem" THEN OS_remove(st, base, path) ELSE HH_remove(st, base, path)
resize(b, st, id, dims) ==
    IF b = "mem" THEN OS_resize(st, id, dims) ELSE HH_resize(st, id, dims)
attach(b, st, id, d, s) ==
    IF b = "mem" THEN OS_attach(st, id, d, s) ELSE HH_attach(st, id, d, s)
detach(b, st, id, d, s) ==
    IF b = "mem" THEN OS_detach(st, id, d, s) ELSE HH_detach(st, id, d, s)
isAttached(b, st, id, d, s) ==
    IF b = "mem" THEN OS_isAttached(st, id, d, s) ELSE HH_isAttached(st, id, d, s)
setIsScale(b, st, id, name) ==
    IF b = "mem" THEN OS_setIsScale(st, id, name) ELSE HH_setIsScale(st, id, name)
write(b, st, id, type, buf, msel, fsel) ==
    IF b = "mem" THEN OS_write(st, id, type, buf, msel, fsel)
                 ELSE HH_write(st, id, type, buf, msel, fsel)
read(b, st, id, type, n, msel, fsel) ==
    IF b = "mem" THEN OS_read(st, id, type, n, msel, fsel)
                 ELSE HH_read(st, id, type, n, msel, fsel)
addAtt(b, st, id, name, val) ==
    IF b = "mem" THEN OS_addAtt(st, id, name, val) ELSE HH_addAtt(st, id, name, val)
removeAtt(b, st, id, name) ==
    IF b = "mem" THEN OS_removeAtt(st, id, name) ELSE HH_removeAtt(st, id, name)
renameAtt(b, st, id, old, new) ==
    IF b = "mem" THEN OS_renameAtt(st, id, old, new) ELSE HH_renameAtt(st, id, old, new)

\* Apply op to the outcome r unless it threw, and op one after another.
Then(r, op(_)) == IF r.ok THEN op(r) ELSE r
RunAll(r, S, op(_, _)) == FoldLeft(LAMBDA acc, x : IF acc.ok THEN op(acc.st, x) ELSE acc, r, S)

-----------------------------------------------------------------------------
(* The facade.                                                             *)

\* Fill values follow netCDF in memory, and in a file that says it is one.
FillPolicy(b, st) ==
    IF b = "mem" \/ {"_NCProperties", "_ioda_layout"} \cap DOMAIN st.groups[<<>>] # {}
    THEN NetcdfFill ELSE NoFill

\* Variables are made one by one; all scales are attached at the end.
createWithScales(b, st, path, scales) ==
    LET spec == [type |-> "int", chunk |-> TRUE, fill |-> NetcdfFill,
                 dims |-> [d \in DOMAIN scales |-> st.heap[scales[d]].dims[1]],
                 max  |-> [d \in DOMAIN scales |-> st.heap[scales[d]].max[1]]]
        each(s, id) == RunAll(Ok(s, id), [d \in DOMAIN scales |-> d],
                              LAMBDA s1, d : attach(b, s1, id, d - 1, scales[d]))
    IN  Then(create(b, st, path, spec), LAMBDA r :
             IF b = "mem" THEN each(r.st, r.val)
             ELSE HH_attachAll(r.st, <<[var |-> r.val, scales |-> scales]>>))

newScale(b, st, path, size, max) ==
    Then(create(b, st, path, [type |-> "int", dims |-> <<size>>, max |-> <<max>>,
                              chunk |-> TRUE, fill |-> NoFill]),
         LAMBDA r : setIsScale(b, r.st, r.val, path[1]))

\* ObsGroup::generate: the layout's mark, then the fundamental dimensions.
generate(b) ==
    LET g == [EmptyStore EXCEPT !.groups = <<>> :> ("_ioda_layout" :> 1)]
    IN  Then(newScale(b, g, ChannelPath, NChans, NChans),
             LAMBDA r : newScale(b, r.st, LocationPath, NLocs, Unlimited)).st

\* Group::listObjects: depth first by name in HDF5; in memory the variables
\* of a group come before those of the groups below it.
CharOrder == <<"Channel", "Location", "MetaData", "ObsValue", "air", "id">>
Rank(n) == CHOOSE k \in DOMAIN CharOrder : CharOrder[k] = n
PathLess(b, p, q) ==
    IF b = "mem" /\ Len(p) # Len(q) THEN Len(p) < Len(q)
    ELSE \/ Rank(p[1]) < Rank(q[1])
         \/ p[1] = q[1] /\ Len(p) < Len(q)
         \/ p[1] = q[1] /\ Len(p) = 2 /\ Len(q) = 2 /\ Rank(p[2]) < Rank(q[2])
listVariables(b, st) == Ranked(DOMAIN st.names, LAMBDA p, q : PathLess(b, p, q))

\* A variable follows the first scale of the list whatever its axis is.
newDimsOf_AnyAxis(b, st, id, newDims) ==
    [d \in DOMAIN st.heap[id].dims |-> newDims[1][2]]

newDimsOf(b, st, id, newDims) ==
    [d \in DOMAIN st.heap[id].dims |->
        LET hits == {k \in DOMAIN newDims : isAttached(b, st, id, d - 1, newDims[k][1])}
        IN  IF hits = {} THEN st.heap[id].dims[d]
            ELSE newDims[CHOOSE k \in hits : \A j \in hits : j <= k][2]]

\* ObsGroup::resize: the scales first, then every variable that is no scale.
resizeGroup(b, st, newDims) ==
    LET s1 == RunAll(Ok(st, ""), newDims, LAMBDA s, nd : resize(b, s, nd[1], <<nd[2]>>))
    IN  Then(s1, LAMBDA r : RunAll(r, listVariables(b, r.st), LAMBDA s, p :
             IF Obj(s, p).scale # NotScale THEN Ok(s, "")
             ELSE resize(b, s, Id(s, p), newDimsOf(b, s, Id(s, p), newDims))))

-----------------------------------------------------------------------------
(* Copying a tree to another backend.                                      *)

isPossiblyScale(p) == Len(p) = 1

\* Every possible scale goes to the front, whatever is there.
preferentialSortVariableNames_Front(names) ==
    FoldLeft(LAMBDA acc, p : IF isPossiblyScale(p) THEN <<p>> \o acc ELSE Append(acc, p),
             <<>>, names)

preferentialSortVariableNames(names) ==
    FoldLeft(LAMBDA acc, p :
                IF acc = <<>> \/ ~isPossiblyScale(p) THEN Append(acc, p)
                ELSE IF acc[1] = LocationPath THEN <<acc[1], p>> \o Tail(acc)
                ELSE <<p>> \o acc,
             <<>>, names)

\* Without groups below the root, the scales are put first for certain.
sortedNames(b, st) ==
    LET s == preferentialSortVariableNames(listVariables(b, st))
        isScale(p) == Obj(st, p).scale # NotScale
        scales == SelectSeq(s, isScale)
    IN  IF DOMAIN st.groups # {<<>>} THEN s
        ELSE SelectSeq(scales, LAMBDA p : p = LocationPath)
             \o SelectSeq(scales, LAMBDA p : p # LocationPath)
             \o SelectSeq(s, LAMBDA p : ~isScale(p))

\* A variable is matched against the scales met so far only; it is an error
\* when one of its dimensions has none of them.
collectVarDimInfo(b, st) ==
    LET match(acc, id, d) ==
            IF b = "mem" THEN SelectSeq(acc.scales, LAMBDA p : OS_isAttached(st, id, d, Id(st, p)))
            ELSE LET hit == SelectSeq(st.heap[id].dimlist[d + 1],
                                      LAMBDA s : \E p \in Range(acc.scales) : Id(st, p) = s)
                 IN  [k \in DOMAIN hit |->
                        CHOOSE p \in Range(acc.scales) : Id(st, p) = hit[k]]
        step(acc, p) ==
            LET v == Obj(st, p)
                m == [d \in DOMAIN v.dims |-> match(acc, Id(st, p), d - 1)]
            IN  IF ~acc.ok THEN acc
                ELSE IF Len(v.dims) = 1 /\ isPossiblyScale(p) /\ v.scale # NotScale
                THEN [acc EXCEPT !.scales = IF p = LocationPath THEN <<p>> \o @
                                            ELSE Append(@, p)]
                ELSE IF \E d \in DOMAIN m : m[d] = <<>> THEN [acc EXCEPT !.ok = FALSE]
                ELSE [acc EXCEPT !.vars = Append(@, p),
                                 !.dims = @ @@ (p :> [d \in DOMAIN m |-> m[d][1]])]
    IN  FoldLeft(step, [ok |-> TRUE, scales |-> <<>>, vars |-> <<>>, dims |-> <<>>],
                 sortedNames(b, st))

ignoredNames == {"_FillValue", "suggested_chunk_dim"}

copyAttributes(bd, src, dst) == dst @@ Without(src, ignoredNames)

\* The maximum dimensions are not carried over.
createAndCopyVariable_FixedSize(b, st, p, bd, dst) ==
    LET v == Obj(st, p)
        n == Product(v.dims)
        fill == IF v.fill = NoFill THEN FillPolicy(bd, dst) ELSE v.fill
    IN  Then(create(bd, dst, p, [type |-> v.type, dims |-> v.dims, max |-> v.dims,
                                 chunk |-> v.chunk, fill |-> fill]),
             LAMBDA r : write(bd, [r.st EXCEPT !.heap[r.val].atts =
                                       copyAttributes(bd, v.atts, @)],
                              r.val, v.type,
                              read(b, st, Id(st, p), v.type, n, SelectAll, SelectAll).val,
                              SelectAll, SelectAll))

\* The creation parameters and the attributes of the source, then its data.
createAndCopyVariable(b, st, p, bd, dst) ==
    LET v == Obj(st, p)
        n == Product(v.dims)
        fill == IF v.fill = NoFill THEN FillPolicy(bd, dst) ELSE v.fill
    IN  Then(create(bd, dst, p, [type |-> v.type, dims |-> v.dims, max |-> v.max,
                                 chunk |-> v.chunk, fill |-> fill]),
             LAMBDA r : write(bd, [r.st EXCEPT !.heap[r.val].atts =
                                       copyAttributes(bd, v.atts, @)],
                              r.val, v.type,
                              read(b, st, Id(st, p), v.type, n, SelectAll, SelectAll).val,
                              SelectAll, SelectAll))

copyGroup(b, st, bd, dst) ==
    LET d0 == [dst EXCEPT !.groups[<<>>] = copyAttributes(bd, st.groups[<<>>], @)]
        gs == Ranked(DOMAIN st.groups \ {<<>>}, LAMBDA p, q : PathLess(b, p, q))
        g  == RunAll(Ok(d0, ""), gs, LAMBDA s, q :
                Then(createGroup(bd, s, q), LAMBDA r :
                     Ok([r.st EXCEPT !.groups[q] = copyAttributes(bd, st.groups[q], @)], "")))
        info == collectVarDimInfo(b, st)
        scale(s, p) == Then(createAndCopyVariable(b, st, p, bd, s), LAMBDA r :
                            setIsScale(bd, r.st, Id(r.st, p), Obj(st, p).scale))
        v == RunAll(RunAll(g, info.scales, scale), info.vars,
                    LAMBDA s, p : createAndCopyVariable(b, st, p, bd, s))
        mapping(s) == [k \in DOMAIN info.vars |->
                         [var |-> Id(s, info.vars[k]),
                          scales |-> [d \in DOMAIN info.dims[info.vars[k]] |->
                                        Id(s, info.dims[info.vars[k]][d])]]]
        attachOne(s, m) == RunAll(Ok(s, ""), [d \in DOMAIN m.scales |-> d],
                                  LAMBDA s1, d : attach(bd, s1, m.var, d - 1, m.scales[d]))
    IN  IF ~g.ok \/ ~info.ok THEN Throw(g.st)
        ELSE Then(v, LAMBDA r : IF bd = "mem" THEN RunAll(r, mapping(r.st), attachOne)
                                ELSE HH_attachAll(r.st, mapping(r.st)))

-----------------------------------------------------------------------------
(* The client.                                                             *)

build(b, made) ==
    FoldLeft(LAMBDA s, p : createWithScales(b, s, p, [d \in DOMAIN Vars[p] |-> Id(s, Vars[p][d])]).st,
             generate(b), SetToSeq(made))

Init ==
    \E made \in {{}, {p \in Paths : Len(p) = 2}} :
        /\ mem = build("mem", made) /\ h5 = build("h5", made)
        /\ res = [op |-> "none", mem |-> TRUE, h5 |-> TRUE, arg |-> <<>>]
        /\ hist = {} /\ ops = 0

\* Apply one call to both stores.  After a call whose outcome the backends do
\* not promise to share, the client stops.
Call(op, arg, run(_, _), marks) ==
    LET m == run("mem", mem)
        h == run("h5", h5)
        out(r) == IF r.ok /\ op = "read" THEN r.val ELSE r.ok
    IN  /\ ops < MaxOps /\ "unshared" \notin hist
        /\ mem' = m.st /\ h5' = h.st
        /\ res' = [op |-> op, mem |-> out(m), h5 |-> out(h), arg |-> arg]
        /\ hist' = hist \cup marks
        /\ ops' = ops + 1

If(cond, mark) == IF cond THEN {mark} ELSE {}

Taken(p) == p \in DOMAIN mem.names \/ p \in DOMAIN mem.groups
IsVar(p) == p \in DOMAIN mem.names
IsScale(p) == IsVar(p) /\ Obj(mem, p).scale # NotScale
ScaleNames == {p \in DOMAIN mem.names : IsScale(p)}
IsAttachedScale(p) ==
    \E q \in DOMAIN mem.names : \E d \in DOMAIN Obj(mem, q).dims :
        OS_isAttached(mem, Id(mem, q), d - 1, Id(mem, p))

CreateGroup(g) ==
    Call("createGroup", g, LAMBDA b, st : createGroup(b, st, g), If(Taken(g), "unshared"))

\* Has_Variables::create with default parameters: neither chunks nor fill.
CreatePlain(p) ==
    LET dims == [d \in DOMAIN Vars[p] |-> NLocs]
    IN  Call("create", p, LAMBDA b, st :
             create(b, st, p, [type |-> "int", dims |-> dims, max |-> <<>>,
                               chunk |-> FALSE, fill |-> NoFill]), If(Taken(p), "unshared"))

CreateWithScales(p) ==
    /\ \A d \in DOMAIN Vars[p] : IsScale(Vars[p][d])
    /\ Call("createWithScales", p, LAMBDA b, st :
            createWithScales(b, st, p, [d \in DOMAIN Vars[p] |-> Id(st, Vars[p][d])]),
            If(Taken(p), "unshared"))

\* Through the root, or through the group that holds the variable.
RemoveVar(p, base) ==
    /\ base = SubSeq(p, 1, Len(base))
    /\ Call("remove", p, LAMBDA b, st :
            remove(b, st, base, SubSeq(p, Len(base) + 1, Len(p))),
            If(IF IsVar(p) THEN IsAttachedScale(p) ELSE TRUE, "unshared")
            \cup If(base # <<>>, "below"))

Attach(p, d, s) ==
    /\ IsVar(p) /\ IsVar(s) /\ d < Len(Obj(mem, p).dims)
    /\ LET slot == Obj(mem, p).dimlist[d + 1]
       IN  Call("attach", <<p, d, s>>, LAMBDA b, st :
                attach(b, st, Id(st, p), d, Id(st, s)),
                If(IsScale(p) \/ ~IsScale(s) \/ slot \notin {<<>>, <<Id(mem, s)>>}, "unshared")
                \cup If(Obj(mem, p).dims[d + 1] # Obj(mem, s).dims[1], "uneven"))

Detach(p, d, s) ==
    /\ IsVar(p) /\ IsVar(s) /\ ~IsScale(p) /\ d < Len(Obj(mem, p).dims)
    /\ Call("detach", <<p, d, s>>, LAMBDA b, st :
            detach(b, st, Id(st, p), d, Id(st, s)), {})

SameTail(old, new) == Tail(old) = Tail(new)

ResizeVar(p, n, c) ==
    /\ IsVar(p) /\ ~IsScale(p)
    /\ LET v == Obj(mem, p)
           dims == [d \in DOMAIN v.dims |-> IF d = 1 THEN n ELSE c]
       IN  Call("resize", p, LAMBDA b, st : resize(b, st, Id(st, p), dims),
                If(~v.chunk \/ ~SameTail(v.dims, dims), "unshared")
                \cup If(dims # v.dims, "uneven"))

\* Location alone, or Location and then Channel, which has a fixed length.
ResizeGroup(n, c) ==
    /\ IsVar(LocationPath) /\ IsVar(ChannelPath)
    /\ LET newDims(st) == IF c = NChans THEN <<<<Id(st, LocationPath), n>>>>
                          ELSE <<<<Id(st, LocationPath), n>>, <<Id(st, ChannelPath), c>>>>
           m == resizeGroup("mem", mem, newDims(mem))
           h == resizeGroup("h5", h5, newDims(h5))
           fits(p) == LET v == Obj(mem, p)
                          d == newDimsOf("mem", mem, Id(mem, p), newDims(mem))
                      IN  v.chunk /\ SameTail(v.dims, d) /\ WithinMax(d, v.max)
       IN  Call("resizeGroup", <<n, c>>, LAMBDA b, st : resizeGroup(b, st, newDims(st)),
                If(\E p \in DOMAIN mem.names : ~IsScale(p) /\ ~fits(p), "unshared")
                \cup If(~m.ok \/ ~h.ok, "uneven"))

\* The selections a client uses on a variable of these dimensions.
Slab(start, count)  == Select(SelectAll, Hyperslab("SET", start, count))
SharedSelections(dims) ==
    LET n == dims[1]
    IN  IF Len(dims) = 1
        THEN {SelectAll, Slab(<<n - 1>>, <<1>>),
              Select(SelectAll, DimIndices("SET", 0, <<n - 1, 0>>, <<>>))}
        ELSE {SelectAll, Slab(<<0, 1>>, <<n, 1>>),
              Select(SelectAll, StridedSlab("SET", <<0, 0>>, <<1, 2>>, <<n, 1>>, <<n, 1>>)),
              Select(Select(SelectAll, DimIndices("SET", 0, <<n - 1>>, <<>>)),
                     DimIndices("AND", 1, <<0, 1>>, <<>>)),
              Select(SelectAll, Points("SET", <<<<n - 1, 0>>, <<0, 1>>>>))}

\* Three points in two dimensions, and ranges of two lengths.
OtherSelections(dims) ==
    IF Len(dims) = 1 THEN {}
    ELSE {Select(SelectAll, Points("SET", <<<<0, 0>>, <<dims[1] - 1, 0>>, <<0, 1>>>>)),
          Select(SelectAll, DimIndices("SET", 1, <<0, 1>>, <<1, 1>>))}

MemFor(fsel, n) ==
    IF fsel = SelectAll THEN SelectAll ELSE Extent(Slab(<<0>>, <<n>>), <<n>>)

\* The buffer has as many elements as the selection names.
PointsOf(fsel, dims) == Len(SelectedCoords(fsel, dims))

Write(p, fsel, other) ==
    LET n == PointsOf(fsel, Obj(mem, p).dims)
        buf == [k \in 1 .. n |-> 10 + k]
    IN  Call("write", [path |-> p, sel |-> fsel, buf |-> buf], LAMBDA b, st :
             write(b, st, Id(st, p), "int", buf, MemFor(fsel, n), fsel),
             If(other, "unshared"))

Read(p, fsel, other) ==
    LET n == PointsOf(fsel, Obj(mem, p).dims)
    IN  Call("read", [path |-> p, sel |-> fsel], LAMBDA b, st :
             read(b, st, Id(st, p), "int", n, MemFor(fsel, n), fsel),
             If(other, "unshared"))

AddAtt(p, a, val) ==
    /\ IsVar(p)
    /\ Call("addAtt", a, LAMBDA b, st : addAtt(b, st, Id(st, p), a, val),
            If(a \in DOMAIN Obj(mem, p).atts, "unshared"))

RemoveAtt(p, a) ==
    /\ IsVar(p)
    /\ Call("removeAtt", a, LAMBDA b, st : removeAtt(b, st, Id(st, p), a),
            If(a \notin DOMAIN Obj(mem, p).atts, "unshared"))

RenameAtt(p, a, a2) ==
    /\ IsVar(p)
    /\ Call("renameAtt", <<a, a2>>, LAMBDA b, st : renameAtt(b, st, Id(st, p), a, a2),
            If(a \in DOMAIN Obj(mem, p).atts /\ a2 \in DOMAIN Obj(mem, p).atts, "unshared"))

Atts == {"units", "long_name"}

ClientSelections(dims) == SharedSelections(dims) \cup OtherSelections(dims)
IsOther(f, p) == f \in OtherSelections(Obj(mem, p).dims)

WriteAny ==
    \E p \in DOMAIN mem.names : \E f \in ClientSelections(Obj(mem, p).dims) : Write(p, f, IsOther(f, p))

ReadAny ==
    \E p \in DOMAIN mem.names : \E f \in ClientSelections(Obj(mem, p).dims) : Read(p, f, IsOther(f, p))

Next ==
    \/ \E p \in Paths : CreateGroup(Parent(p))
    \/ \E p \in Paths : CreatePlain(p)
    \/ \E p \in Paths : CreateWithScales(p)
    \/ \E p \in Paths \cup {LocationPath} : \E base \in {<<>>, Parent(p)} : RemoveVar(p, base)
    \/ \E p \in Paths, s \in Paths \cup ScaleNames, d \in 0 .. 1 : Attach(p, d, s)
    \/ \E p \in Paths, s \in ScaleNames, d \in 0 .. 1 : Detach(p, d, s)
    \/ \E p \in Paths, n \in {1, MaxLocs}, c \in NChans .. NChans + 1 : ResizeVar(p, n, c)
    \/ \E n \in {1, MaxLocs}, c \in NChans .. NChans + 1 : ResizeGroup(n, c)
    \/ WriteAny
    \/ ReadAny
    \/ \E p \in Paths, a \in Atts : AddAtt(p, a, 1)
    \/ \E p \in Paths, a \in Atts : RemoveAtt(p, a)
    \/ \E p \in Paths, a, a2 \in Atts : a # a2 /\ RenameAtt(p, a, a2)

Spec == Init /\ [][Next]_vars

-----------------------------------------------------------------------------
(* Properties.                                                             *)

\* The values of a variable in row-major order, whatever its store.
Values(b, v) ==
    IF b = "mem" THEN v.data
    ELSE LET cs == InOrder(Coords(v.dims), v.dims) IN [k \in DOMAIN cs |-> v.data[cs[k]]]

\* What a client can see of a store.
View(b, st) ==
    [groups |-> DOMAIN st.groups, root |-> st.groups[<<>>],
     vars   |-> [p \in DOMAIN st.names |->
        LET v == Obj(st, p)
        IN  [type |-> v.type, dims |-> v.dims, max |-> v.max, scale |-> v.scale,
             chunk |-> v.chunk, values |-> Values(b, v),
             atts |-> Without(v.atts, {"_FillValue"}),
             scales |-> [d \in DOMAIN v.dimlist |->
                {q \in DOMAIN st.names : Id(st, q) \in Range(v.dimlist[d])}]]]]

Stores == {<<"mem", mem>>, <<"h5", h5>>}

\* Type invariant: names lead to heap objects in existing groups, and a
\* variable holds one value per element.
StoreOK ==
    /\ hist \subseteq {"unshared", "uneven", "below"} /\ ops \in 0 .. MaxOps
    /\ \A x \in Stores : \A p \in DOMAIN x[2].names :
        /\ Id(x[2], p) \in DOMAIN x[2].heap /\ Ancestors(p) \subseteq DOMAIN x[2].groups
        /\ Len(Values(x[1], Obj(x[2], p))) = Product(Obj(x[2], p).dims)

\* A client that keeps to the calls both backends define cannot tell the
\* in-memory store from the HDF5 file: every call returns or throws on both,
\* every read delivers the same values, and the two trees look the same.
BackendsAgree ==
    "unshared" \notin hist => View("mem", mem) = View("h5", h5) /\ res.mem = res.h5

\* ObsGroup::resize keeps every variable as long as the scales attached to it,
\* unless a client attached or resized a variable by itself, or it threw.
ScalesMatch ==
    "uneven" \notin hist =>
        \A x \in Stores : \A p \in DOMAIN x[2].names :
            LET v == Obj(x[2], p)
            IN  \A d \in DOMAIN v.dims : \A s \in Range(v.dimlist[d]) :
                    x[2].heap[s].dims[1] = v.dims[d]

\* In the file, a dimension refers to a scale once, and exactly when the scale
\* lists that dimension, after any mix of attach, detach, the bulk
\* attachDimensionScales and remove from the root.
ReferenceListsMatch ==
    "below" \notin hist =>
        \A p, q \in DOMAIN h5.names :
            LET v == Obj(h5, p)
                s == Obj(h5, q)
            IN  /\ \A r \in Range(s.reflist) : Live(h5, r[1])
                /\ \A d \in DOMAIN v.dims :
                      LET fwd == Cardinality({k \in DOMAIN v.dimlist[d] :
                                              v.dimlist[d][k] = Id(h5, q)})
                          rev == Cardinality({k \in DOMAIN s.reflist :
                                              s.reflist[k] = <<Id(h5, p), d - 1>>})
                      IN  fwd = rev /\ fwd <= 1

\* What was written through a selection is read back through it, in order.
ReadBack ==
    res.op = "write" /\ "unshared" \notin hist =>
        \A x \in Stores :
            LET f == res.arg.sel
                n == Len(res.arg.buf)
            IN  read(x[1], x[2], Id(x[2], res.arg.path), "int", n, MemFor(f, n), f).val
                    = res.arg.buf

\* The backends are interchangeable: both trees are sound, a client of shared calls
\* cannot tell them apart, and reads back what it wrote (Has_Variables, Variable).
BackendsInterchangeable == StoreOK /\ BackendsAgree /\ ReadBack

\* A tree every variable of which has scales of the tree on its dimensions.
\* A variable beside the scales lies along Location only: the sort may put it
\* before any other scale, and collectVarDimInfo then throws.
Complete(st) ==
    \A p \in DOMAIN st.names :
        LET v == Obj(st, p)
        IN  IF v.scale # NotScale THEN Len(p) = 1 /\ Len(v.dims) = 1
            ELSE \A d \in DOMAIN v.dims :
                    /\ Len(v.dimlist[d]) = 1
                    /\ \E q \in DOMAIN st.names :
                          /\ Id(st, q) = v.dimlist[d][1] /\ Obj(st, q).scale # NotScale
                          /\ Len(p) = 1 => q = LocationPath

\* copyGroup reproduces such a tree on either backend: structure, scales,
\* attributes and values.
CopyFaithful ==
    "unshared" \notin hist => \A x \in Stores : Complete(x[2]) =>
        \A bd \in {"mem", "h5"} :
            LET r == copyGroup(x[1], x[2], bd, EmptyStore)
            IN  r.ok /\ View(bd, r.st) = View(x[1], x[2])

\* The order the copy relies on (VarUtils.h): Location first, then all names
\* that may be scales, then all others.
SortedForCopy ==
    \A x \in Stores :
        LET s == preferentialSortVariableNames(listVariables(x[1], x[2]))
        IN  /\ Range(s) = DOMAIN x[2].names /\ Len(s) = Cardinality(DOMAIN x[2].names)
            /\ \A j, k \in DOMAIN s : j < k =>
                  s[k] # LocationPath /\ (isPossiblyScale(s[k]) => isPossiblyScale(s[j]))

\* copyGroup goes through the variables in the order it relies on, and reproduces
\* the tree (preferentialSortVariableNames, createAndCopyVariable).
CopiesFaithful == SortedForCopy /\ CopyFaithful
=============================================================================
