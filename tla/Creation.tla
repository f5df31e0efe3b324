------------------------------ MODULE Creation ------------------------------
(***************************************************************************)
(* How a variable is stored: chunks, compression filters and fill value,   *)
(* from the parameters a variable is created with to the parameters read   *)
(* back from it when it is copied into another container.                  *)
(*                                                                         *)
(* A container is a backend ("ObsStore" or "HH") and the fill value policy *)
(* its has_variables reports.  A value is a pair of what the union of a    *)
(* FillValueData_t holds and its string; the numbers stand for the bytes,  *)
(* so that one byte types of either sign share them.                       *)
(***************************************************************************)
EXTENDS Calls

Unlimited == -1             \* ioda::Unlimited, also the hint "no chunk size"

Value(num, str) == [num |-> num, str |-> str]
Nothing == Value(0, "")

FixedTypes == {"signed char", "char", "unsigned char", "int16", "int32", "int64", "uint16",
               "uint32", "uint64"}

ClassOf(T) == IF T = "string" THEN "string" ELSE IF T \in FixedTypes THEN "integer" ELSE "float"

SizeOf(T) == CASE T \in {"signed char", "char", "unsigned char"} -> 1
               [] T \in {"int16", "uint16"} -> 2
               [] T \in {"int32", "uint32", "float"} -> 4
               [] OTHER -> 8

SignOf(T) == IF T \in {"uint16", "uint32", "uint64"} THEN "unsigned" ELSE "signed"

\* HH_Variable::isA: is a variable of type "mine" a T?
isA(mine, T) ==
    /\ ClassOf(mine) = ClassOf(T)
    /\ \/ ClassOf(T) = "string"
       \/ /\ SizeOf(mine) = SizeOf(T)
          /\ ClassOf(T) = "integer" /\ SizeOf(T) > 1 => SignOf(mine) = SignOf(T)

-----------------------------------------------------------------------------
(* Fill values.                                                            *)

HDF5_default(T) == Nothing

netCDF4_default(T) ==
    LET of == ("signed char" :> 129) @@ ("unsigned char" :> 255) @@ ("int16" :> 1016)
              @@ ("int32" :> 1032) @@ ("int64" :> 1064) @@ ("uint16" :> 2016) @@ ("uint32" :> 2032)
              @@ ("uint64" :> 2064) @@ ("float" :> 3032) @@ ("double" :> 3064)
    IN  IF T \in DOMAIN of THEN Value(of[T], "") ELSE Nothing

NoFill == [set |-> FALSE, isString |-> FALSE, val |-> Nothing]

\* A string keeps whatever number the union held.
assignFillValue(T, f, v) ==
    [set |-> TRUE, isString |-> T = "string",
     val |-> IF T = "string" THEN Value(f.val.num, v.str) ELSE Value(v.num, "")]

\* detail::getFillValue<T>.
FillAs(T, f) == IF T = "string" THEN Value(0, f.val.str) ELSE Value(f.val.num, "")

\* FillValueData_t::finalize, as a T: a string that is not marked as one is
\* the null pointer the union holds.
finalize(T, f) ==
    IF T = "string" THEN Value(0, IF f.isString THEN f.val.str ELSE "") ELSE Value(f.val.num, "")

\* A policy that is applied to a fill value the caller has chosen.
applyFillValuePolicy_Always(T, policy, f) ==
    assignFillValue(T, f, IF policy = "HDF5" THEN HDF5_default(T) ELSE netCDF4_default(T))

applyFillValuePolicy(T, policy, f) ==
    IF f.set THEN f
    ELSE assignFillValue(T, f, IF policy = "HDF5" THEN HDF5_default(T) ELSE netCDF4_default(T))

-----------------------------------------------------------------------------
(* VariableCreationParameters.                                             *)

NoSzip == [on |-> FALSE, ppb |-> 16, options |-> 4]
NoParams == [chunk |-> FALSE, chunks |-> <<>>, gzip |-> 0, szip |-> NoSzip, fill |-> NoFill]

compressWithGZIP(p, level) == [p EXCEPT !.gzip = level, !.szip.on = FALSE]

compressWithSZIP(p, ppb, options) ==
    [p EXCEPT !.gzip = 0, !.szip = [on |-> TRUE, ppb |-> ppb, options |-> options]]

defaulted(T) ==
    [compressWithGZIP([NoParams EXCEPT !.chunk = TRUE], 6)
        EXCEPT !.fill = applyFillValuePolicy(T, "NETCDF4", @)]

\* The default strategy takes the dimensions.
getChunks(p, dims) == IF p.chunks # <<>> THEN p.chunks ELSE dims

-----------------------------------------------------------------------------
(* The filter pipeline of a dataset (HH-Filters.cpp).                      *)

Filter(id, cd) == [id |-> id, cd |-> cd]

\* SCALE is a class no filter belongs to.
getType(f) == CASE f.id = "shuffle" -> "SHUFFLE"
                [] f.id \in {"deflate", "szip", "nbit", "scaleoffset"} -> "COMPRESSION"
                [] OTHER -> "OTHER"

OfType(fs, type) == SelectSeq(fs, LAMBDA f : getType(f) = type)
hasFilter(fs, id) == \E i \in DOMAIN fs : fs[i].id = id

removeOfType(fs, type) == SelectSeq(fs, LAMBDA f : getType(f) # type)

setShuffle(fs) ==
    IF hasFilter(fs, "shuffle") THEN fs
    ELSE OfType(fs, "SCALE") \o <<Filter("shuffle", <<>>)>> \o OfType(fs, "COMPRESSION") \o OfType(fs, "OTHER")

\* H5Pset_szip takes an even number of pixels, at most 32, and adds two flags
\* to the options.
setSZIP(fs, options, ppb) ==
    IF hasFilter(fs, "szip") THEN Done(fs)
    ELSE IF ppb % 2 = 1 \/ ppb > 32 THEN Thrown
    ELSE Done(OfType(fs, "SCALE") \o OfType(fs, "SHUFFLE")
              \o <<Filter("szip", <<129 + (options % 129), ppb>>)>> \o OfType(fs, "OTHER"))

\* A compression put behind those that are there.
setGZIP_Behind(fs, level) == Append(fs, Filter("deflate", <<level>>))

setGZIP(fs, level) ==
    OfType(fs, "SCALE") \o OfType(fs, "SHUFFLE") \o <<Filter("deflate", <<level>>)>> \o OfType(fs, "OTHER")

setScaleOffset(fs, factor) ==
    <<Filter("scaleoffset", <<factor>>)>> \o OfType(fs, "SHUFFLE") \o OfType(fs, "COMPRESSION")
    \o OfType(fs, "OTHER")

-----------------------------------------------------------------------------
(* Creating a variable in a backend.                                       *)

\* A chunk size of zero is left alone.
chunkOf_Zero(chunk, dim, max) ==
    LET c == IF chunk > 0 THEN chunk ELSE dim
    IN  IF max > 0 /\ c > max THEN max ELSE c

chunkOf(chunk, dim, max) ==
    LET c == IF chunk > 0 THEN chunk ELSE dim
        d == IF max > 0 /\ c > max THEN max ELSE c
    IN  IF d = 0 THEN 100 ELSE d

\* H5Dcreate: chunks are positive and no larger than a dimension that cannot
\* grow, only a chunked dataset can grow, and a chunk has the pixels of one szip
\* block.
H5Dcreate(v) ==
    LET n == DOMAIN v.dims
    IN  /\ IF v.chunks = <<>> THEN \A i \in n : v.max[i] = v.dims[i]
           ELSE \A i \in n : v.chunks[i] > 0
                             /\ (v.dims[i] > 0 /\ v.max[i] # Unlimited => v.chunks[i] <= v.max[i])
        /\ \A f \in Range(v.filters) :
              f.id = "szip" => f.cd[2] <= FoldLeft(LAMBDA a, b : a * b, 1, v.chunks)

\* VariableCreation and HH_HasVariables::create.  A bare throw with no
\* exception to rethrow ends the program; it is modelled as an exception.
HH_create(at, T, dims, max, p) ==
    LET hcs == LET g == getChunks(p, dims) IN [i \in DOMAIN g |-> chunkOf(g[i], dims[i], max[i])]
        gz  == IF p.gzip > 0 THEN setGZIP(<<>>, p.gzip) ELSE <<>>
        fs  == IF p.szip.on THEN setSZIP(gz, p.szip.options, p.szip.ppb) ELSE Done(gz)
        made(f) == [at |-> at, type |-> T, dims |-> dims, max |-> max,
                    chunks |-> IF p.chunk THEN hcs ELSE <<>>, filters |-> f,
                    property |-> IF p.fill.set THEN <<finalize(T, p.fill)>> ELSE <<>>,
                    attr |-> IF p.fill.set THEN <<finalize(T, p.fill)>> ELSE <<>>, orig |-> <<>>]
    IN  IF (p.gzip > 0 \/ p.szip.on) /\ ~p.chunk THEN Thrown
        ELSE AndThen(fs, LAMBDA f : IF H5Dcreate(made(f)) THEN Done(made(f)) ELSE Thrown)

\* ObsStore_HasVariables_Backend::create: chunks and compression are kept as
\* attributes beside the variable.
OS_create(at, T, dims, max, p) ==
    Done([at |-> at, type |-> T, dims |-> dims, max |-> max, fill |-> p.fill,
          chunks |-> IF p.chunk THEN getChunks(p, dims) ELSE <<>>,
          gzip |-> p.gzip,
          szip |-> IF p.szip.on THEN <<p.szip.options, p.szip.ppb>> ELSE <<>>,
          attr |-> <<>>, orig |-> <<>>])

\* Has_Variables_Base::create.
create(at, T, dims, max, p) ==
    LET fixed == IF max = <<>> THEN dims ELSE max
    IN  IF at.backend = "HH" THEN HH_create(at, T, dims, fixed, p)
        ELSE OS_create(at, T, dims, fixed, p)

\* Has_Variables_Base::create<DataType>.
createTyped(at, T, dims, max, p) ==
    create(at, T, dims, max, [p EXCEPT !.fill = applyFillValuePolicy(T, at.policy, @)])

\* createWithScales: a scale is its length, its maximum and its suggested
\* chunk size (Unlimited if it has none).  No fill value policy applies.
createWithScales(at, T, scales, p) ==
    create(at, T, [i \in DOMAIN scales |-> scales[i].len], [i \in DOMAIN scales |-> scales[i].max],
           [p EXCEPT !.chunk = TRUE,
                     !.chunks = IF @ # <<>> THEN @ ELSE [i \in DOMAIN scales |-> scales[i].hint]])

\* The Python binding: the policy applies only with scales.
create_py(at, T, dims, max, scales, p) ==
    IF scales = <<>> THEN create(at, T, dims, max, p)
    ELSE createWithScales(at, T, scales, [p EXCEPT !.fill = applyFillValuePolicy(T, at.policy, @)])

-----------------------------------------------------------------------------
(* Reading the parameters back.                                            *)

\* A contiguous dataset has no chunks; ObsStore gives back what was asked for.
HH_getChunkSizes(v) == v.chunks
OS_getChunkSizes(v) == v.chunks

HH_getGZIPCompression(v) ==
    LET z == SelectSeq(v.filters, LAMBDA f : f.id = "deflate")
    IN  IF z = <<>> THEN 0 ELSE z[1].cd[1]
OS_getGZIPCompression(v) == v.gzip

\* Options first, as both backends store them.
HH_getSZIPCompression(v) ==
    LET z == SelectSeq(v.filters, LAMBDA f : f.id = "szip")
    IN  IF z = <<>> THEN <<>> ELSE z[1].cd
OS_getSZIPCompression(v) == v.szip

getGZIPCompression(v) ==
    IF v.at.backend = "HH" THEN HH_getGZIPCompression(v) ELSE OS_getGZIPCompression(v)

getSZIPCompression(v) ==
    IF v.at.backend = "HH" THEN HH_getSZIPCompression(v) ELSE OS_getSZIPCompression(v)

\* HH_Variable::getFillValue: the types are tried in this order.
DefaultsTried == <<"string", "signed char", "char", "int16", "int32", "float", "double",
                   "unsigned char", "uint16", "uint32", "int64", "uint64">>

HH_getFillValue(v) ==
    IF v.property = <<>> /\ v.at.policy = "NETCDF4"
    THEN LET k == CHOOSE i \in DOMAIN DefaultsTried :
                     /\ isA(v.type, DefaultsTried[i])
                     /\ \A j \in 1 .. i - 1 : ~isA(v.type, DefaultsTried[j])
         IN  assignFillValue(DefaultsTried[k], NoFill, netCDF4_default(DefaultsTried[k]))
    ELSE [set |-> TRUE, isString |-> FALSE,
          val |-> IF v.property = <<>> THEN Nothing ELSE v.property[1]]

getNcFillValue(v) ==
    IF v.attr = <<>> THEN NoFill ELSE assignFillValue(v.type, NoFill, v.attr[1])

\* Variable_Base::getFillValue: the netCDF attribute takes precedence.
getFillValue(v) ==
    LET nc == getNcFillValue(v)
    IN  IF nc.set THEN nc ELSE IF v.at.backend = "HH" THEN HH_getFillValue(v) ELSE v.fill

\* The pair of an szip filter is passed on in the order it was read.
readBack(chunks, gz, sz) ==
    LET p == [NoParams EXCEPT !.chunk = chunks # <<>>, !.chunks = chunks]
        q == IF gz > 0 THEN compressWithGZIP(p, gz) ELSE p
    IN  IF sz # <<>> THEN compressWithSZIP(q, sz[1], sz[2]) ELSE q

HH_getCreationParameters(v) ==
    [readBack(HH_getChunkSizes(v), HH_getGZIPCompression(v), HH_getSZIPCompression(v))
        EXCEPT !.fill = HH_getFillValue(v)]

OS_getCreationParameters(v) ==
    [readBack(OS_getChunkSizes(v), OS_getGZIPCompression(v), OS_getSZIPCompression(v))
        EXCEPT !.fill = v.fill]

\* Variable_Base::getCreationParameters replaces the backend's fill value.
getCreationParameters(v) ==
    [(IF v.at.backend = "HH" THEN HH_getCreationParameters(v) ELSE OS_getCreationParameters(v))
        EXCEPT !.fill = getFillValue(v)]

\* forAnySupportedVariableType: the first of these that the variable is.
SupportedTypes == <<"int32", "int64", "float", "string", "char">>

supportedType(v) ==
    LET is(T) == IF v.at.backend = "HH" THEN isA(v.type, T) ELSE v.type = T
    IN  SelectSeq(SupportedTypes, is)

\* makeVariable<string>: the attribute _orig_fill_value, which the writer leaves on
\* strings of fixed length, takes the place of the fill value.  It is not copied.
overrideFill(T, orig, p) ==
    IF T = "string" /\ orig # <<>> THEN [p EXCEPT !.fill = assignFillValue(T, @, orig[1])] ELSE p

makeVariable(v, at) ==
    LET T == supportedType(v)
    IN  IF T = <<>> THEN Thrown
        ELSE createTyped(at, T[1], v.dims, v.max, overrideFill(T[1], v.orig, getCreationParameters(v)))

\* What an element nobody wrote holds.
Unwritten(v) ==
    IF v.at.backend = "HH"
    THEN IF v.property = <<>> THEN Nothing ELSE v.property[1]
    ELSE IF v.fill.set THEN FillAs(v.type, v.fill) ELSE Nothing

-----------------------------------------------------------------------------
(* A variable is created in one container and copied through others.       *)

\* A variable another program wrote: it may have the HDF5 fill value property,
\* the netCDF attribute, both or neither; or a string of fixed length of the ioda
\* writer, with _orig_fill_value.
FoundInFile(q, at) ==
    [at |-> at, type |-> q.type, dims |-> q.dims, max |-> q.dims, chunks |-> <<>>, filters |-> <<>>,
     property |-> q.property, attr |-> q.attr, orig |-> q.orig]

firstVariable(q, at) ==
    CASE q.entry = "typed"  -> createTyped(at, q.type, q.dims, q.max, q.params)
      [] q.entry = "type"   -> create(at, q.type, q.dims, q.max, q.params)
      [] q.entry = "scales" -> createWithScales(at, q.type, q.scales, q.params)
      [] q.entry = "python" -> create_py(at, q.type, q.dims, q.max, q.scales, q.params)
      [] q.entry = "file"   -> Done(FoundInFile(q, at))

copyTo(o, at) ==
    AndThen(o, LAMBDA vs : AndThen(makeVariable(Last(vs), at), LAMBDA v : Done(Append(vs, v))))

createAndCopy(q) ==
    FoldLeft(copyTo, AndThen(firstVariable(q, q.at[1]), LAMBDA v : Done(<<v>>)), Tail(q.at))

\* Each of the calls of a Filters object on a pipeline.
setFilters(q) ==
    LET apply(o, c) == AndThen(o, LAMBDA fs :
            CASE c = "shuffle" -> Done(setShuffle(fs))
              [] c = "gzip"    -> Done(setGZIP(fs, 6))
              [] c = "szip"    -> setSZIP(fs, 4, 16)
              [] c = "scale"   -> Done(setScaleOffset(fs, 2))
              [] c = "plain"   -> Done(removeOfType(fs, "COMPRESSION")))
    IN  FoldLeft(apply, Done(q.filters), q.calls)

-----------------------------------------------------------------------------
Reported(v) == FillAs(v.type, getFillValue(v))
UnmarkedString(v) == v.type = "string" /\ v.attr = <<>> /\ v.property # <<>>

\* The fill value a variable had before the writer made its strings of fixed length.
Original(v) == IF v.type = "string" /\ v.orig # <<>> THEN v.orig[1] ELSE Reported(v)

\* A fill value the caller gives is the one every copy reports, whatever the
\* policies of the containers; a value the first variable reports on its own
\* account is kept likewise, and one it has kept in _orig_fill_value comes back;
\* and in each copy the elements nobody wrote hold what the copy reports as its
\* fill value (makeVariable, getCreationParameters, Variable::getFillValue and the
\* create functions of both backends).  The exception is a string found in a file
\* with the property alone, which is read without being marked as a string.
FillSurvivesCopy ==
    Returned("create and copy") =>
        LET vs == out.val
        IN  /\ call.q.params.fill.set => Reported(vs[1]) = FillAs(vs[1].type, call.q.params.fill)
            /\ getFillValue(vs[1]).set
               /\ (call.q.entry = "file" /\ vs[1].orig = <<>> => ~UnmarkedString(vs[1])) =>
                   \A i \in DOMAIN vs : i > 1 => Reported(vs[i]) = Original(vs[1])
            /\ \A i \in DOMAIN vs : i > 1 => getFillValue(vs[i]).set /\ Unwritten(vs[i]) = Reported(vs[i])

\* A variable that could be created can be copied, unless its type is not
\* supported or it is not chunked and a file would need it to be, and
\* the copies are stored alike: compressed by the same method and at the same GZIP
\* level, and with the same chunks from the first file on, which are those asked for
\* wherever a file allows them (VariableCreation, getChunkSizes,
\* getGZIPCompression).  SZIP is the exception: getSZIPCompression gives the options
\* and then the pixels per block, where Variable.h has the pixels first and
\* getCreationParameters takes them so.  A copy has the two the other way round, or
\* cannot be made; nothing is claimed about them.
CopyKeepsStorage ==
    /\ call.op = "create and copy" /\ out.state = "thrown" =>
          LET first == firstVariable(call.q, call.q.at[1])
          IN  first.state = "done" =>
                  \/ supportedType(first.val) = <<>>
                  \/ first.val.at.backend = "ObsStore" /\ first.val.chunks = <<>>
                  \/ getSZIPCompression(first.val) # <<>>
    /\ Returned("create and copy") =>
          LET vs == out.val
          IN  \A i, j \in DOMAIN vs : i < j =>
                 /\ getGZIPCompression(vs[i]) = getGZIPCompression(vs[j])
                 /\ getSZIPCompression(vs[i]) = <<>> <=> getSZIPCompression(vs[j]) = <<>>
                 /\ vs[i].at.backend = "HH" => vs[i].chunks = vs[j].chunks
                 /\ \A d \in DOMAIN vs[i].chunks :
                       vs[i].chunks[d] > 0 /\ (vs[i].chunks[d] <= vs[i].max[d] \/ vs[i].max[d] = Unlimited)
                           => vs[j].chunks[d] = vs[i].chunks[d]

\* Whatever is asked of a filter pipeline and in whatever order, bytes are
\* shuffled before they are compressed, at most one of gzip and szip is left,
\* and filters the class does not know stay, behind all others (setShuffle,
\* setSZIP, setGZIP, setScaleOffset, removeOfType).
PipelineOrdered ==
    Returned("filters") =>
        LET fs == out.val
            packs == {i \in DOMAIN fs : fs[i].id \in {"deflate", "szip"}}
        IN  /\ Cardinality(packs) <= 1
            /\ \A i \in packs, j \in DOMAIN fs : fs[j].id = "shuffle" => j < i
            /\ OfType(fs, "OTHER") = OfType(call.q.filters, "OTHER")
            /\ \A i, j \in DOMAIN fs : getType(fs[i]) = "OTHER" /\ i < j => getType(fs[j]) = "OTHER"

\* How a variable is stored survives copies from container to container: its fill
\* value, its chunks and its compression (but for the parameters of SZIP), and the
\* order of its filters.
StorageKept == FillSurvivesCopy /\ CopyKeepsStorage /\ PipelineOrdered
=============================================================================
