------------------------------- MODULE Stores -------------------------------
(***************************************************************************)
(* The two storage backends of a Group: ObsStore (in memory) and HH (an    *)
(* HDF5 file).  A store is a value; an operation of a backend maps a store *)
(* to an outcome [ok, st, val]: whether it returned or threw, the store it *)
(* leaves behind in either case, and what it returned.                     *)
(*                                                                         *)
(* A variable is an object of the heap: shared_ptr targets (ObsStore) and  *)
(* dataset addresses (HDF5) are heap indices, so a handle or a reference   *)
(* can outlive the name.  A path is the sequence of its components; the    *)
(* groups of a store map the path of a group, <<>> being the root, to its  *)
(* attributes.                                                             *)
(***************************************************************************)
EXTENDS Selections, TLC

Unlimited == -1
NoFill    == -1         \* no fill value is set
NotScale  == "not a scale"

EmptyStore == [groups |-> <<>> :> <<>>, names |-> <<>>, heap |-> <<>>]

Ok(st, val) == [ok |-> TRUE, st |-> st, val |-> val]
Throw(st)   == [ok |-> FALSE, st |-> st, val |-> "throw"]

AddGroups(st, S) == [st EXCEPT !.groups = @ @@ [g \in S |-> <<>>]]

Ancestors(path) == {SubSeq(path, 1, k) : k \in 0 .. Len(path) - 1}
Parent(path)    == SubSeq(path, 1, Len(path) - 1)
Id(st, path)    == st.names[path]
Obj(st, path)   == st.heap[st.names[path]]

Without(f, S)  == [x \in DOMAIN f \ S |-> f[x]]

\* What a new element of a variable holds.
FillOf(v) == IF v.fill = NoFill THEN 0 ELSE v.fill

WithinMax(dims, max) == \A d \in DOMAIN max : max[d] >= 0 => dims[d] <= max[d]

-----------------------------------------------------------------------------
(* ObsStore.  The values of a variable are one vector in row-major order.  *)

\* VarAttrStore::resize: the vector is cut or filled at its end.
storeResize(data, n, fill) == [k \in 1 .. n |-> IF k <= Len(data) THEN data[k] ELSE fill]

\* The dimensions change and the vector does not.
OS_resize_DimsOnly(st, id, dims) ==
    IF ~WithinMax(dims, st.heap[id].max) THEN Throw(st)
    ELSE Ok([st EXCEPT !.heap[id].dims = dims], id)

\* Variable::resize changes the end of the vector wherever the dimension that
\* changes stands.
OS_resize(st, id, dims) ==
    LET v == st.heap[id]
    IN  IF ~WithinMax(dims, v.max) THEN Throw(st)
        ELSE Ok([st EXCEPT !.heap[id].dims = dims,
                           !.heap[id].data = storeResize(@, Product(dims), FillOf(v))], id)

\* Group::create makes every missing group of the path and returns the last.
OS_createGroup(st, g) ==
    Ok(AddGroups(st, Ancestors(g) \cup {g}), g)

newVariable(spec, max) ==
    [type |-> spec.type, dims |-> spec.dims, max |-> max, fill |-> spec.fill,
     chunk |-> spec.chunk, data |-> <<>>, scale |-> NotScale,
     dimlist |-> [d \in DOMAIN spec.dims |-> <<>>], atts |-> <<>>]

\* Has_Variables::create.  A name that is taken keeps its variable: map::insert
\* changes nothing, and the caller gets a variable that no name leads to.
varsCreate(st, path, v) ==
    LET s1 == OS_createGroup(st, Parent(path)).st
        id == Len(s1.heap) + 1
        r  == OS_resize([s1 EXCEPT !.heap = Append(@, v)], id, v.dims)
    IN  IF ~r.ok THEN Throw(s1)
        ELSE Ok([r.st EXCEPT !.names = @ @@ (path :> id)], id)

\* The dimensions are the maximum when none is given.
maxOf(spec) == IF spec.max = <<>> THEN spec.dims ELSE spec.max

OS_create(st, path, spec) == varsCreate(st, path, newVariable(spec, maxOf(spec)))

OS_open(st, path) ==
    IF path \in DOMAIN st.names THEN Ok(st, Id(st, path)) ELSE Throw(st)

\* Erasing a name that is not there is no error; a missing group is.
OS_remove(st, base, path) ==
    IF Parent(base \o path) \notin DOMAIN st.groups THEN Throw(st)
    ELSE Ok([st EXCEPT !.names = Without(@, {base \o path})], "")

\* One slot per dimension: attaching replaces what was attached.
OS_attach(st, id, d, scale) ==
    Ok([st EXCEPT !.heap[id].dimlist[d + 1] = <<scale>>], id)

OS_isAttached(st, id, d, scale) == st.heap[id].dimlist[d + 1] = <<scale>>

OS_detach(st, id, d, scale) ==
    IF OS_isAttached(st, id, d, scale)
    THEN Ok([st EXCEPT !.heap[id].dimlist[d + 1] = <<>>], id)
    ELSE Throw(st)

OS_setIsScale(st, id, name) == Ok([st EXCEPT !.heap[id].scale = name], id)

\* The selection of the buffer gets the extent of the selection, or the size
\* of the buffer when none is set.
MemSelection(msel, n) ==
    createObsStoreSelection(msel, IF msel.extent = <<>> THEN <<n>> ELSE msel.extent)

\* The elements mi of a buffer go to the elements fi, the later over the earlier.
Scatter(data, buf, mi, fi) ==
    [k \in DOMAIN data |->
        LET hit == {i \in DOMAIN mi : fi[i] = k - 1}
        IN  IF hit = {} THEN data[k] ELSE buf[mi[CHOOSE i \in hit : \A j \in hit : j <= i] + 1]]

\* A buffer of n elements that held 0, with the elements fi at mi.
Gather(data, n, mi, fi) ==
    [o \in 1 .. n |->
        LET hit == {i \in DOMAIN mi : mi[i] = o - 1}
        IN  IF hit = {} THEN 0 ELSE data[fi[CHOOSE i \in hit : TRUE] + 1]]

\* VarAttrStore walks both selections in step until that of the buffer ends or one
\* of them is out of bounds.
StepsTaken(m, f) ==
    LET past == OutOfBounds(m, Steps(m)) \cup OutOfBounds(f, Steps(m))
    IN  IF past = {} THEN Steps(m) ELSE (CHOOSE k \in past : \A j \in past : k <= j) - 1

\* What is written before an index out of bounds stays.
storeWrite(data, buf, m, f) ==
    LET n == StepsTaken(m, f)
    IN  IF buf = <<>> THEN data ELSE Scatter(data, buf, LinIndices(m, n), LinIndices(f, n))

\* What VarAttrStore::read leaves in a buffer of n elements that held 0.
storeRead(data, n, m, f) ==
    IF n = 0 THEN <<>> ELSE Gather(data, n, LinIndices(m, Steps(m)), LinIndices(f, Steps(m)))

LeavesBounds(n, m, f) == n > 0 /\ StepsTaken(m, f) < Steps(m)

Written(st, id, buf, m, f) == [st EXCEPT !.heap[id].data = storeWrite(@, buf, m, f)]

\* Variable::write and Variable::read.
varWrite(st, id, type, buf, m, f) ==
    IF type # st.heap[id].type THEN Throw(st)
    ELSE IF LeavesBounds(Len(buf), m, f) THEN Throw(Written(st, id, buf, m, f))
    ELSE Ok(Written(st, id, buf, m, f), id)

varRead(st, id, type, n, m, f) ==
    IF type # st.heap[id].type \/ LeavesBounds(n, m, f) THEN Throw(st)
    ELSE Ok(st, storeRead(st.heap[id].data, n, m, f))

\* The points of the selections are compared the same way for both directions.
IfCovered(st, m, f, move(_, _)) == IF m.npoints > f.npoints THEN Throw(st) ELSE move(m, f)

OS_write(st, id, type, buf, msel, fsel) ==
    IfCovered(st, MemSelection(msel, Len(buf)), createObsStoreSelection(fsel, st.heap[id].dims),
              LAMBDA m, f : varWrite(st, id, type, buf, m, f))

\* The selection of the variable is checked and then not used.
OS_read_FromFront(st, id, type, n, msel, fsel) ==
    IfCovered(st, MemSelection(msel, n), createObsStoreSelection(fsel, st.heap[id].dims),
              LAMBDA m, f : varRead(st, id, type, n, m, m))

OS_read(st, id, type, n, msel, fsel) ==
    IfCovered(st, MemSelection(msel, n), createObsStoreSelection(fsel, st.heap[id].dims),
              LAMBDA m, f : varRead(st, id, type, n, m, f))

\* Has_Attributes::create does not replace an attribute, so the value written
\* next goes to an attribute that no name leads to.
attsCreate(atts, name, val) == atts @@ (name :> val)

OS_addAtt(st, id, name, val) ==
    Ok([st EXCEPT !.heap[id].atts = attsCreate(@, name, val)], id)

OS_removeAtt(st, id, name) ==
    Ok([st EXCEPT !.heap[id].atts = Without(@, {name})], "")

OS_renameAtt(st, id, old, new) ==
    LET a == st.heap[id].atts
    IN  IF old \notin DOMAIN a THEN Throw(st)
        ELSE Ok([st EXCEPT !.heap[id].atts = Without(a, {old}) @@ (new :> a[old])], "")

-----------------------------------------------------------------------------
(* HH.  The values of a dataset are a function of the coordinates.  The    *)
(* scales of a dimension are object references (DIMENSION_LIST), a scale   *)
(* lists the axes it is attached to (REFERENCE_LIST).                      *)

Live(st, id) == \E p \in DOMAIN st.names : st.names[p] = id

\* H5Dset_extent: only a chunked dataset has an extent that can change.
HH_resize(st, id, dims) ==
    LET v == st.heap[id]
    IN  IF ~v.chunk \/ ~WithinMax(dims, v.max) THEN Throw(st)
        ELSE Ok([st EXCEPT !.heap[id].dims = dims,
                           !.heap[id].data =
                              [c \in Coords(dims) |->
                                 IF c \in DOMAIN v.data THEN v.data[c] ELSE FillOf(v)]], id)

\* H5Gcreate makes the intermediate groups and fails on a name that is taken.
HH_createGroup(st, g) ==
    IF g \in DOMAIN st.groups \/ g \in DOMAIN st.names THEN Throw(st)
    ELSE Ok(AddGroups(st, Ancestors(g) \cup {g}), g)

\* VariableCreation and dataspace: HDF5 takes no maximum for the dimensions
\* themselves.
VariableCreation(spec) ==
    [type |-> spec.type, dims |-> spec.dims, max |-> maxOf(spec), fill |-> spec.fill,
     chunk |-> spec.chunk, scale |-> NotScale,
     data |-> [c \in Coords(spec.dims) |-> IF spec.fill = NoFill THEN 0 ELSE spec.fill],
     dimlist |-> [d \in DOMAIN spec.dims |-> <<>>], reflist |-> <<>>, atts |-> <<>>]

\* H5Dcreate: a dataset that can grow must be chunked.  A fill value is also
\* written as the attribute _FillValue.
HH_create(st, path, spec) ==
    LET v  == VariableCreation(spec)
        id == Len(st.heap) + 1
    IN  IF \/ path \in DOMAIN st.names \/ path \in DOMAIN st.groups
           \/ ~WithinMax(v.dims, v.max)
           \/ v.dims # v.max /\ ~v.chunk
        THEN Throw(st)
        ELSE Ok([AddGroups(st, Ancestors(path))
                   EXCEPT !.heap = Append(@, [v EXCEPT !.atts =
                                       IF v.fill = NoFill THEN <<>> ELSE "_FillValue" :> v.fill]),
                          !.names = @ @@ (path :> id)], id)

HH_open(st, path) ==
    IF path \in DOMAIN st.names THEN Ok(st, Id(st, path)) ELSE Throw(st)

\* H5DSattach_scale: the scale becomes one, both lists get the pair unless
\* they have it, and a scale cannot have scales of its own.
HH_attach(st, id, d, scale) ==
    IF st.heap[id].scale # NotScale \/ id = scale THEN Throw(st)
    ELSE IF scale \in Range(st.heap[id].dimlist[d + 1]) THEN Ok(st, id)
    ELSE Ok([st EXCEPT !.heap[id].dimlist[d + 1] = Append(@, scale),
                       !.heap[scale].reflist = Append(@, <<id, d>>),
                       !.heap[scale].scale = IF @ = NotScale THEN "" ELSE @], id)

\* H5DSdetach_scale.
HH_detach(st, id, d, scale) ==
    IF scale \notin Range(st.heap[id].dimlist[d + 1]) THEN Throw(st)
    ELSE Ok([st EXCEPT !.heap[id].dimlist[d + 1] = SelectSeq(@, LAMBDA s : s # scale),
                       !.heap[scale].reflist = SelectSeq(@, LAMBDA r : r # <<id, d>>)], id)

\* H5DSset_scale.
HH_setIsScale(st, id, name) ==
    IF \E d \in DOMAIN st.heap[id].dimlist : st.heap[id].dimlist[d] # <<>>
    THEN Throw(st) ELSE Ok([st EXCEPT !.heap[id].scale = name], id)

\* The scales of a list that each dimension of a variable refers to.  Every
\* reference is opened on the way: one to a deleted dataset ends the program.
HH_mappings(st, id, scales) ==
    LET dl == st.heap[id].dimlist
    IN  IF \A d \in DOMAIN dl : \A k \in DOMAIN dl[d] : Live(st, dl[d][k])
        THEN Ok(st, [d \in DOMAIN dl |-> SelectSeq(dl[d], LAMBDA s : s \in Range(scales))])
        ELSE [ok |-> FALSE, st |-> st, val |-> "terminate"]

HH_isAttached(st, id, d, scale) == scale \in Range(st.heap[id].dimlist[d + 1])

\* identifyDimensionScales on the one-level list of a group.
HH_scalesOf(st, base) ==
    {Id(st, p) : p \in {q \in DOMAIN st.names :
        Parent(q) = base /\ Len(Obj(st, q).dims) = 1 /\ Obj(st, q).scale # NotScale}}

\* The link is deleted and the scales keep their references.
HH_remove_KeepRefs(st, base, path) ==
    LET full == base \o path
    IN  IF full \notin DOMAIN st.names THEN Throw(st)
        ELSE Ok([st EXCEPT !.names = Without(@, {full})], "")

\* Only scales that lie in the same group as the Has_Variables are detached.
HH_remove(st, base, path) ==
    LET full == base \o path
        id   == Id(st, full)
        near == SetToSeq(HH_scalesOf(st, base))
        m    == HH_mappings(st, id, near)
        pairs == {<<d, s>> \in (DOMAIN m.val) \X Range(near) : s \in Range(m.val[d])}
        detached == FoldLeft(LAMBDA acc, p : HH_detach(acc, id, p[1] - 1, p[2]).st,
                             st, SetToSeq(pairs))
    IN  IF full \notin DOMAIN st.names THEN Throw(st)
        ELSE IF ~m.ok THEN m
        ELSE Ok([detached EXCEPT !.names = Without(@, {full})], "")

\* One list of new scales per dimension is appended to what is there, without a
\* look for scales that are there already.
attr_update_dimension_list(st, id, new) ==
    [st EXCEPT !.heap[id].dimlist = [d \in DOMAIN @ |-> @[d] \o new[d]]]

attr_update_reference_list(st, scale, refs) ==
    [st EXCEPT !.heap[scale].reflist = @ \o refs]

\* HH_HasVariables::attachDimensionScales: all the lists of the variables, then
\* those of the scales.
HH_attachAll(st, mapping) ==
    LET scalesOf(k) == [d \in DOMAIN st.heap[mapping[k].var].dims |->
                          IF d <= Len(mapping[k].scales) THEN <<mapping[k].scales[d]>> ELSE <<>>]
        refsOf(s) == FlattenSeq([k \in DOMAIN mapping |->
                        LET axes == SelectSeq([d \in DOMAIN mapping[k].scales |-> d],
                                              LAMBDA d : mapping[k].scales[d] = s)
                        IN  [i \in DOMAIN axes |-> <<mapping[k].var, axes[i] - 1>>]])
        scales == UNION {Range(mapping[k].scales) : k \in DOMAIN mapping}
        fwd == FoldLeft(LAMBDA acc, k : attr_update_dimension_list(acc, mapping[k].var, scalesOf(k)),
                        st, [k \in DOMAIN mapping |-> k])
    IN  IF \E k \in DOMAIN mapping :
              Len(mapping[k].scales) > Len(st.heap[mapping[k].var].dims)
        THEN Throw(st)
        ELSE Ok(FoldLeft(LAMBDA acc, s : attr_update_reference_list(acc, s, refsOf(s)),
                         fwd, SetToSeq(scales)), "")

\* H5Dwrite: both selections have the same number of points, inside the
\* space; a buffer selection of everything stands for the file selection.
Offsets(coords, dims) == [k \in DOMAIN coords |-> RowMajor(coords[k], dims)]

memOffsets(msel, ext, fc, dims) ==
    IF msel.actions = <<>> THEN Offsets(fc, dims) ELSE Offsets(SelectedCoords(msel, ext), ext)

memExtent(msel, n) == IF msel.extent = <<>> THEN <<n>> ELSE msel.extent

\* fc are the coordinates of the dataset, mi the offsets in the buffer.
Transferable(v, fc, mi) == Len(mi) = Len(fc) /\ \A k \in DOMAIN fc : fc[k] \in DOMAIN v.data

H5Dwrite(st, id, buf, fc, mi) ==
    LET hit(c) == {k \in DOMAIN fc : fc[k] = c}
    IN  IF ~Transferable(st.heap[id], fc, mi) THEN Throw(st)
        ELSE Ok([st EXCEPT !.heap[id].data =
                    [c \in DOMAIN @ |->
                        IF hit(c) = {} THEN @[c]
                        ELSE buf[mi[CHOOSE k \in hit(c) : \A j \in hit(c) : j <= k] + 1]]], id)

HH_write(st, id, type, buf, msel, fsel) ==
    LET dims == st.heap[id].dims
        fc == SelectedCoords(fsel, dims)
    IN  H5Dwrite(st, id, buf, fc, memOffsets(msel, memExtent(msel, Len(buf)), fc, dims))

\* H5Dread into a buffer of n elements that held 0.
H5Dread(st, v, n, fc, mi) ==
    LET hit(o) == {k \in DOMAIN mi : mi[k] = o}
    IN  IF ~Transferable(v, fc, mi) THEN Throw(st)
        ELSE Ok(st, [o \in 1 .. n |-> IF hit(o - 1) = {} THEN 0
                                      ELSE v.data[fc[CHOOSE k \in hit(o - 1) : TRUE]]])

HH_read(st, id, type, n, msel, fsel) ==
    LET dims == st.heap[id].dims
        fc == SelectedCoords(fsel, dims)
    IN  H5Dread(st, st.heap[id], n, fc, memOffsets(msel, memExtent(msel, n), fc, dims))

HH_addAtt(st, id, name, val) ==
    IF name \in DOMAIN st.heap[id].atts THEN Throw(st)
    ELSE Ok([st EXCEPT !.heap[id].atts = @ @@ (name :> val)], id)

HH_removeAtt(st, id, name) ==
    IF name \notin DOMAIN st.heap[id].atts THEN Throw(st)
    ELSE Ok([st EXCEPT !.heap[id].atts = Without(@, {name})], "")

HH_renameAtt(st, id, old, new) ==
    LET a == st.heap[id].atts
    IN  IF old \notin DOMAIN a \/ new \in DOMAIN a THEN Throw(st)
        ELSE Ok([st EXCEPT !.heap[id].atts = Without(a, {old}) @@ (new :> a[old])], "")
=============================================================================
