----------------------------- MODULE ObsAccess -----------------------------
(***************************************************************************)
(* What ObsSpace::put_db and get_db do to the variables of an ObsSpace,    *)
(* from C++ and through the Fortran interface.                             *)
(*                                                                         *)
(* A group is a sequence whose head may be "Derived".  A variable name is  *)
(* <<"t">>, or <<"t", 4>> for "t_4"; <<"t", NoDigits>> is "t_".  The       *)
(* ObsSpace is a record: its variables by <<group, name>>, the number of   *)
(* locations, the channel numbers (NoChannel without that dimension) and   *)
(* the epoch given to new date variables.                                  *)
(***************************************************************************)
EXTENDS Calls

Sel == INSTANCE Selections

NoDigits == -1
NoChannel == <<0>>
NoEpoch == -1                   \* no "units" attribute
Missing32 == -99                \* util::missingValue<T>() of every type T
Int32(x) == ((x + 128) % 256) - 128     \* narrowing to an int, 8 bits wide here

-----------------------------------------------------------------------------
(* Names, dimensions and the channel map.                                  *)

fullVarName(group, name) == <<group, name>>

Derived(group) == <<"Derived">> \o group

hasChannels(db) == db.channels # NoChannel

get_dim_size(db, dim) == IF dim = "Location" THEN db.nlocs ELSE Len(db.channels)

DimSizes(db, dims) == [d \in DOMAIN dims |-> get_dim_size(db, dims[d])]

exists(db, group, name) == fullVarName(group, name) \in DOMAIN db.vars

\* std::stoi throws when there is no digit after the underscore.
extractChannelSuffixIfPresent(name) ==
    CASE Len(name) = 1 -> Done([name |-> name, chans |-> <<>>])
      [] Len(name) = 2 /\ name[2] = NoDigits -> Thrown
      [] OTHER -> Done([name |-> <<name[1]>>, chans |-> <<name[2]>>])

splitChanSuffix(db, group, name, chanSelect, skipDerived) ==
    IF /\ chanSelect = <<>>
       /\ ~exists(db, group, name)
       /\ skipDerived \/ ~exists(db, Derived(group), name)
    THEN extractChannelSuffixIfPresent(name)
    ELSE Done([name |-> name, chans |-> chanSelect])

\* Of two channels with the same number the later one counts.
fillChanNumToIndexMap(channels) ==
    [c \in Range(channels) |->
        CHOOSE i \in DOMAIN channels : channels[i] = c /\ \A j \in DOMAIN channels :
                                            channels[j] = c => j <= i]

-----------------------------------------------------------------------------
(* Slices of a variable along its channels.                                *)

\* The channel indices, counted from 0, are the ones of the map.
createChannelSelections(db, dims, chanDim, channels) ==
    LET index == fillChanNumToIndexMap(db.channels)
        sizes == DimSizes(db, dims)
        picked == [d \in DOMAIN dims |-> IF d = chanDim THEN [k \in DOMAIN channels |-> index[channels[k]] - 1]
                                         ELSE [k \in 1 .. sizes[d] |-> k - 1]]
        n == Sel!Product([d \in DOMAIN dims |-> Len(picked[d])])
        slab(counts) == Sel!Select(Sel!SelectAll, Sel!Hyperslab("SET", [d \in DOMAIN counts |-> 0], counts))
    IN  IF ~(Range(channels) \subseteq DOMAIN index) THEN Thrown
        ELSE Done([n |-> n, mem |-> slab(<<n>>),
                   file |-> IF n = 0 THEN slab([d \in DOMAIN dims |-> 0])
                            ELSE [Sel!SelectAll EXCEPT !.actions =
                                    [d \in DOMAIN dims |->
                                        Sel!DimIndices(IF d = 1 THEN "SET" ELSE "AND", d - 1, picked[d], <<>>)]]])

\* The offsets of a selection in a variable of the in-memory backend, refused
\* when it has fewer points than the memory side or leaves the variable.
offsetsIn(f, n) ==
    IF n > f.npoints \/ Sel!OutOfBounds(f, n) # {} THEN Thrown ELSE Done(Sel!LinIndices(f, n))

offsetsOf(sizes, s) == offsetsIn(Sel!createObsStoreSelection(s.file, sizes), s.n)

readSlice(db, v, chanDim, channels) ==
    AndThen(createChannelSelections(db, v.dims, chanDim, channels), LAMBDA s :
    AndThen(offsetsOf(DimSizes(db, v.dims), s), LAMBDA at :
        Done([k \in DOMAIN at |-> v.data[at[k] + 1]])))

\* The memory selection runs past the end of a vector that is too short.
writeSlice(db, v, chanDim, channels, vals) ==
    AndThen(createChannelSelections(db, v.dims, chanDim, channels), LAMBDA s :
    AndThen(offsetsOf(DimSizes(db, v.dims), s), LAMBDA at :
        IF s.n > Len(vals) THEN Undefined
        ELSE Done([v EXCEPT !.data = [i \in DOMAIN @ |->
                IF \E k \in DOMAIN at : at[k] + 1 = i
                THEN vals[CHOOSE k \in DOMAIN at : at[k] + 1 = i] ELSE @[i]]])))

\* ObsStore writes a vector to the front of a variable that is not shorter.
writeAll(v, vals) ==
    IF Len(vals) > Len(v.data) THEN Thrown
    ELSE Done([v EXCEPT !.data = [i \in DOMAIN @ |-> IF i <= Len(vals) THEN vals[i] ELSE @[i]]])

-----------------------------------------------------------------------------
(* loadVar and saveVar.                                                    *)

\* Prefers the Derived group even when it is to be skipped.
groupToUse_Derived(db, group, name, skipDerived) ==
    IF ~exists(db, Derived(group), name) THEN group ELSE Derived(group)

groupToUse(db, group, name, skipDerived) ==
    IF skipDerived \/ ~exists(db, Derived(group), name) THEN group ELSE Derived(group)

\* The suffix is split with the default of skipDerived, not with the caller's.
\* The in-memory backend reads a variable only as the type it has.
loadVar(db, type, group, name, chanSelect, skipDerived) ==
    AndThen(splitChanSuffix(db, group, name, chanSelect, FALSE), LAMBDA s :
        LET g == groupToUse(db, group, s.name, skipDerived)
            v == db.vars[fullVarName(g, s.name)]
        IN  IF ~exists(db, g, s.name) THEN Thrown
            ELSE IF v.type # type THEN Thrown
            ELSE IF hasChannels(db) /\ Len(v.dims) > 1 /\ v.dims[2] = "Channel" /\ s.chans # <<>>
                 THEN readSlice(db, v, 2, s.chans)
                 ELSE Done(v.data))

\* A new variable holds the missing value of its type.
openCreateVar(db, type, group, name, dims) ==
    IF exists(db, group, name) THEN db
    ELSE [db EXCEPT !.vars = @ @@ (fullVarName(group, name) :>
            [type |-> type, dims |-> dims, epoch |-> NoEpoch,
             data |-> [i \in 1 .. Sel!Product(DimSizes(db, dims)) |-> Missing32]])]

\* What a call that changes the ObsSpace leaves, whether it threw or not.
After(db, o) == [db |-> db, state |-> o.state]

dimListToUse(db, group, name, chans, dimList) ==
    IF ~exists(db, group, name) /\ chans # <<>> /\ "Channel" \notin Range(dimList)
    THEN Append(dimList, "Channel") ELSE dimList

splitForSave(db, group, name) ==
    IF group # <<"MetaData">> /\ hasChannels(db)
    THEN splitChanSuffix(db, group, name, <<>>, FALSE)
    ELSE Done([name |-> name, chans |-> <<>>])

writeTo(db, v, type, chans, vals) ==
    LET chanDims == {i \in DOMAIN v.dims : v.dims[i] = "Channel"}
    IN  IF v.type # type THEN Thrown
        ELSE IF chans = <<>> THEN writeAll(v, vals)
        ELSE IF chanDims = {} THEN Thrown
        ELSE writeSlice(db, v, CHOOSE i \in chanDims : \A j \in chanDims : i <= j, chans, vals)

\* The variable stays created when the write that follows fails.
Written(db, key, w) ==
    IF w.state = "done" THEN After([db EXCEPT !.vars[key] = w.val], w) ELSE After(db, w)

saveIn(db, type, key, chans, vals) ==
    Written(db, key, writeTo(db, db.vars[key], type, chans, vals))

saveSplit(db, type, group, s, vals, dims) ==
    IF ~hasChannels(db) /\ "Channel" \in Range(dims) /\ ~exists(db, group, s.name)
    THEN After(db, Thrown)
    ELSE saveIn(openCreateVar(db, type, group, s.name, dims), type,
                fullVarName(group, s.name), s.chans, vals)

saveVar(db, type, group, name, vals, dimList) ==
    LET sp == splitForSave(db, group, name)
    IN  IF sp.state # "done" THEN After(db, sp)
        ELSE saveSplit(db, type, group, sp.val, vals,
                       dimListToUse(db, group, sp.val.name, sp.val.chans, dimList))

-----------------------------------------------------------------------------
(* The queries and the typed get_db and put_db.                            *)

has(db, group, name, skipDerived) ==
    AndThen(splitChanSuffix(db, group, name, <<>>, skipDerived), LAMBDA s :
        Done(exists(db, group, s.name) \/ (~skipDerived /\ exists(db, Derived(group), s.name))))

declaredType(db, group, g, name) ==
    LET t == db.vars[fullVarName(g, name)].type
    IN  CASE t = "int64" /\ group = <<"MetaData">> /\ name = <<"dateTime">> -> Done("DateTime")
          [] t = "string" /\ group = <<"MetaData">> /\ name = <<"datetime">> -> Done("DateTime")
          [] t \in {"int", "int64", "float", "string", "char"} -> Done(t)
          [] OTHER -> Thrown

\* Looks for the full name in the named group alone before it splits it.
dtype_OwnSuffix(db, group, name, skipDerived) ==
    AndThen(splitChanSuffix(db, group, name, <<>>, TRUE), LAMBDA s :
        LET g == groupToUse(db, group, s.name, skipDerived)
        IN  IF exists(db, g, s.name) THEN declaredType(db, group, g, s.name) ELSE Done("None"))

dtype(db, group, name, skipDerived) ==
    AndThen(splitChanSuffix(db, group, name, <<>>, skipDerived), LAMBDA s :
        LET g == groupToUse(db, group, s.name, skipDerived)
        IN  AndThen(has(db, g, s.name, skipDerived), LAMBDA there :
                IF ~there THEN Done("None")
                ELSE IF ~exists(db, g, s.name) THEN Thrown
                ELSE declaredType(db, group, g, s.name)))

\* double <-> float: a missing value stays missing, the rest loses precision.
toFloat(x) == IF x = Missing32 THEN x ELSE (x \div 2) * 2

MapVals(Op(_), o) == AndThen(o, LAMBDA vs : Done([i \in DOMAIN vs |-> Op(vs[i])]))

\* The epoch is that of the variable of this very name and group.
getDateTimes(db, group, name, chanSelect, skipDerived) ==
    AndThen(loadVar(db, "int64", group, name, chanSelect, skipDerived), LAMBDA offs :
        IF ~exists(db, group, name) THEN Thrown
        ELSE IF db.vars[fullVarName(group, name)].epoch = NoEpoch THEN Thrown
        ELSE Done([i \in DOMAIN offs |->
                IF offs[i] = Missing32 THEN Missing32
                ELSE db.vars[fullVarName(group, name)].epoch + offs[i]]))

\* A new date variable has no fill value, so its elements start at 0.
openCreateEpochDtimeVar(db, group, name) ==
    IF exists(db, group, name) THEN db
    ELSE [db EXCEPT !.vars = @ @@ (fullVarName(group, name) :>
            [type |-> "int64", dims |-> <<"Location">>, epoch |-> db.epoch,
             data |-> [i \in 1 .. db.nlocs |-> 0]])]

convertDtimeToTimeOffsets(epoch, times) ==
    [i \in DOMAIN times |-> IF times[i] = Missing32 THEN Missing32 ELSE times[i] - epoch]

\* Offsets from the epoch of new variables, not from that of this one.
putDateTimes_ParamEpoch(db, group, name, vals, dimList) ==
    LET db1 == openCreateEpochDtimeVar(db, group, name)
    IN  saveVar(db1, "int64", group, name, convertDtimeToTimeOffsets(db.epoch, vals), dimList)

putDateTimes(db, group, name, vals, dimList) ==
    LET db1 == openCreateEpochDtimeVar(db, group, name)
        epoch == db1.vars[fullVarName(group, name)].epoch
    IN  IF epoch = NoEpoch THEN After(db1, Thrown)
        ELSE saveVar(db1, "int64", group, name, convertDtimeToTimeOffsets(epoch, vals), dimList)

\* The type of the variable behind a vector of this type.
storedAs(kind) == CASE kind = "double" -> "float" [] kind = "bool" -> "char" [] OTHER -> kind

get_db(db, kind, group, name, chanSelect, skipDerived) ==
    IF kind = "datetime" THEN getDateTimes(db, group, name, chanSelect, skipDerived)
    ELSE MapVals(LAMBDA c : IF kind = "bool" /\ c # 0 THEN 1 ELSE c,
                 loadVar(db, storedAs(kind), group, name, chanSelect, skipDerived))

put_db(db, kind, group, name, vals, dimList) ==
    IF kind = "datetime" THEN putDateTimes(db, group, name, vals, dimList)
    ELSE saveVar(db, storedAs(kind), group, name,
                 IF kind = "double" THEN [i \in DOMAIN vals |-> toFloat(vals[i])] ELSE vals,
                 dimList)

-----------------------------------------------------------------------------
(* The constructor: the observed variables, and the errors they lack.      *)

\* obsvars_: from the YAML when it names any, else what the generator makes,
\* else what the file holds (with the channels of the simulated variables).
observedVars(db, y) ==
    LET inFile == SetToSeq({key[2] : key \in {k \in DOMAIN db.vars : k[1] = <<"ObsValue">>}})
        withChans == IF y.channels = <<>> THEN inFile
                     ELSE FlattenSeq([i \in DOMAIN inFile |->
                            [c \in DOMAIN y.channels |-> inFile[i] \o <<y.channels[c]>>]])
    IN  IF y.observed # <<>> \/ y.derived # <<>> THEN y.observed
        ELSE IF y.generator \/ inFile = <<>> THEN y.simulated
        ELSE withChans

\* A simulated variable must be observed or derived.
obsvarsOf(db, y) ==
    LET obsvars == observedVars(db, y) \o y.derived
    IN  IF Range(y.simulated) \subseteq Range(obsvars) THEN Done(obsvars) ELSE Thrown

\* Asks the ObsError group alone.
hasError_Own(db, name) == has(db, <<"ObsError">>, name, TRUE)

hasError(db, name) == has(db, <<"ObsError">>, name, FALSE)

createMissingObsErrors(db, obsvars) ==
    FoldLeft(LAMBDA acc, name :
                IF acc.state # "done" THEN acc
                ELSE LET h == hasError(acc.db, name)
                     IN  IF h.state # "done" THEN After(acc.db, h)
                         ELSE IF h.val THEN acc
                         ELSE put_db(acc.db, "float", <<"Derived", "ObsError">>, name,
                                     [i \in 1 .. db.nlocs |-> Missing32], <<"Location">>),
             After(db, Done(0)), obsvars)

\* The variables the reader creates from the ones of the file: the other forms
\* of the date, and types ioda does not know, are left out.
createVariables(vars) ==
    LET kept == {k \in DOMAIN vars :
                    /\ k \notin {<< <<"MetaData">>, <<"datetime">> >>, << <<"MetaData">>, <<"time">> >>}
                    /\ vars[k].type \in {"int", "int64", "float", "string", "char"}}
    IN  [k \in kept |-> vars[k]]

Constructed(r, obsvars) ==
    IF r.state = "done" THEN Done([db |-> r.db, obsvars |-> obsvars]) ELSE Thrown

construct(q) ==
    LET db == [q.db EXCEPT !.vars = createVariables(@)] IN
    AndThen(obsvarsOf(db, q.yaml), LAMBDA obsvars :
        Constructed(createMissingObsErrors(db, obsvars), obsvars))

nvars(db) ==
    LET inGroup(g) == {k \in DOMAIN db.vars : k[1] = g}
    IN  IF inGroup(<<"ObsValue">>) # {} THEN Cardinality(inGroup(<<"ObsValue">>))
        ELSE Cardinality(inGroup(<<"ObsError">>))

-----------------------------------------------------------------------------
(* The Fortran interface (obsspace_f.cc).                                  *)

\* All elements go to the caller's array of the given length, which is not
\* looked at.
copyOut(o, length) == AndThen(o, LAMBDA vs : IF Len(vs) > length THEN Undefined ELSE o)

getFrom_f(db, kind, group, name, length, chanSelect) ==
    IF Len(chanSelect) > (IF hasChannels(db) THEN Len(db.channels) ELSE 0) THEN Thrown
    ELSE copyOut(get_db(db, kind, group, name, chanSelect, FALSE), length)

obsspace_get_int32_f(db, group, name, length, cs) == getFrom_f(db, "int", group, name, length, cs)

\* An int64 is fetched as one.
obsspace_get_int64_f_Wide(db, group, name, length, cs) == getFrom_f(db, "int64", group, name, length, cs)

\* An int64 is fetched into a vector of int32.
obsspace_get_int64_f(db, group, name, length, cs) == getFrom_f(db, "int", group, name, length, cs)

obsspace_get_real32_f(db, group, name, length, cs) == getFrom_f(db, "float", group, name, length, cs)
obsspace_get_real64_f(db, group, name, length, cs) == getFrom_f(db, "double", group, name, length, cs)
obsspace_get_bool_f(db, group, name, length, cs) == getFrom_f(db, "bool", group, name, length, cs)

\* Here it is the array that is read past its end.
obsspace_get_datetime_f(db, group, name, length, cs) ==
    IF Len(cs) > (IF hasChannels(db) THEN Len(db.channels) ELSE 0) THEN Thrown
    ELSE AndThen(get_db(db, "datetime", group, name, cs, FALSE), LAMBDA ts :
            IF length > Len(ts) THEN Undefined ELSE Done(SubSeq(ts, 1, length)))

get_f(db, kind, group, name, length, cs) ==
    CASE kind = "int"    -> obsspace_get_int32_f(db, group, name, length, cs)
      [] kind = "int64"  -> obsspace_get_int64_f(db, group, name, length, cs)
      [] kind = "float"  -> obsspace_get_real32_f(db, group, name, length, cs)
      [] kind = "double" -> obsspace_get_real64_f(db, group, name, length, cs)
      [] kind = "bool"   -> obsspace_get_bool_f(db, group, name, length, cs)
      [] kind = "datetime" -> obsspace_get_datetime_f(db, group, name, length, cs)

\* The vector that a put function of the interface hands to put_db.
HandsOn(kind, vals) == [kind |-> kind, vals |-> vals]

obsspace_put_int32_f(vals) == HandsOn("int", vals)

\* An int64 is narrowed to int32 and stored as one.
obsspace_put_int64_f(vals) == HandsOn("int", [i \in DOMAIN vals |-> Int32(vals[i])])

obsspace_put_real32_f(vals) == HandsOn("float", vals)
obsspace_put_real64_f(vals) == HandsOn("double", vals)
obsspace_put_bool_f(vals) == HandsOn("bool", vals)

put_f(kind, vals) ==
    CASE kind = "int"    -> obsspace_put_int32_f(vals)
      [] kind = "int64"  -> obsspace_put_int64_f(vals)
      [] kind = "float"  -> obsspace_put_real32_f(vals)
      [] kind = "double" -> obsspace_put_real64_f(vals)
      [] kind = "bool"   -> obsspace_put_bool_f(vals)

-----------------------------------------------------------------------------
(* A sequence of puts on an ObsSpace; via tells the interface.             *)

putVector(db, p, x) == put_db(db, x.kind, p.group, p.name, x.vals, p.dims)

put(db, p) ==
    putVector(db, p, IF p.via = "Fortran" THEN put_f(p.kind, p.vals)
                     ELSE HandsOn(p.kind, p.vals))

runPuts(q) ==
    Done(FoldLeft(LAMBDA acc, p :
                    IF acc # <<>> /\ acc[Len(acc)].state = "undefined" THEN acc
                    ELSE Append(acc, put(IF acc = <<>> THEN q.db ELSE acc[Len(acc)].db, p)),
                  <<>>, q.puts))

-----------------------------------------------------------------------------
(* Properties.                                                             *)

dbBefore(k) == IF k = 1 THEN call.q.db ELSE out.val[k - 1].db

StartsWith(s, t) ==
    \A i \in 1 .. (IF Len(s) < Len(t) THEN Len(s) ELSE Len(t)) : s[i] = t[i]

\* What put_db stored under a group and a name, whichever of the variable and
\* the slice of a variable the name stood for, get_db returns: from the group
\* itself when Derived groups are skipped, and in any case when there is no
\* variable in the Derived group (loadVar and saveVar resolve names alike).
LastPutIsRead ==
    Returned("puts") =>
        \A k \in DOMAIN out.val :
            LET p  == call.q.puts[k]
                db == out.val[k].db
                got(skip) == get_db(db, p.kind, p.group, p.name, <<>>, skip)
                hidden == \E n \in {p.name, <<p.name[1]>>} : exists(db, Derived(p.group), n)
                wanted == IF p.kind = "double" THEN [i \in DOMAIN p.vals |-> toFloat(p.vals[i])] ELSE p.vals
            IN  p.via = "C++" /\ out.val[k].state = "done" =>
                    \A skip \in BOOLEAN : skip \/ ~hidden =>
                        got(skip).state = "done" /\ StartsWith(got(skip).val, wanted)

\* The names under which a variable or one channel of it can be read.
Readable(db) ==
    (DOMAIN db.vars) \cup
    {<<k[1], k[2] \o <<c>>>> : k \in {x \in DOMAIN db.vars : Len(x[2]) = 1 /\ Len(db.vars[x].dims) = 2},
                                c \in IF hasChannels(db) THEN Range(db.channels) ELSE {}}

\* The type dtype reports for a name is one get_db can read it as, the Derived
\* group being preferred by both, for every variable and every channel the
\* named group holds (the suffix is split alike in ObsSpace::dtype and loadVar).
ReadAsDeclared ==
    Returned("puts") =>
        \A k \in DOMAIN out.val : LET db == out.val[k].db IN
            \A r \in {x \in Readable(db) : x[1][1] # "Derived"} :
                LET t == dtype(db, r[1], r[2], FALSE)
                    kind == IF t.val = "DateTime" THEN "datetime" ELSE t.val
                IN  t.state = "done" /\ t.val # "None"
                    => get_db(db, kind, r[1], r[2], <<>>, FALSE).state = "done"

\* A put changes only what its name stands for: every other variable, and the
\* other channels of the same variable, read as before, also when the put
\* throws half way (saveVar's selections).
PutKeepsTheRest ==
    Returned("puts") =>
        \A k \in DOMAIN out.val :
            LET p == call.q.puts[k]
                covers(a, b) == a = b \/ a = <<b[1]>> \/ b = <<a[1]>>
            IN  \A r \in Readable(dbBefore(k)) :
                    (r[1] = p.group /\ covers(r[2], p.name))
                    \/ \A type \in {"float", "int", "int64"} :
                          LET was == loadVar(dbBefore(k), type, r[1], r[2], <<>>, TRUE)
                          IN  was.state = "done" =>
                                loadVar(out.val[k].db, type, r[1], r[2], <<>>, TRUE) = was

\* What a Fortran caller put it gets back with the call of the same type, as
\* long as it is one value per location and fits a 32-bit int: both int64 calls go through int32 variables
\* (obsspace_put_int64_f and obsspace_get_int64_f).
FortranRoundTrip ==
    Returned("puts") =>
        \A k \in DOMAIN out.val :
            LET p == call.q.puts[k]
                db == out.val[k].db
                got == get_f(db, p.kind, p.group, p.name, Len(p.vals), <<>>)
            IN  /\ p.via = "Fortran" /\ out.val[k].state = "done"
                /\ Len(p.vals) = db.nlocs
                /\ exists(db, p.group, p.name) => Len(db.vars[<<p.group, p.name>>].data) = Len(p.vals)
                /\ \A n \in {p.name, <<p.name[1]>>} : ~exists(db, Derived(p.group), n)
                /\ \A i \in DOMAIN p.vals : Int32(p.vals[i]) = p.vals[i] /\ toFloat(p.vals[i]) = p.vals[i]
                => got = Done(p.vals)

\* After construction every observed variable whose channel the ObsSpace knows
\* has an ObsError: the one of the file as it was, or else missing values at
\* all locations (ObsSpace::createMissingObsErrors).
ErrorsFilled ==
    Returned("construct") =>
        \A i \in DOMAIN out.val.obsvars :
            LET name == out.val.obsvars[i]
                read(db) == get_db(db, "float", <<"ObsError">>, name, <<>>, FALSE)
                file == [call.q.db EXCEPT !.vars = createVariables(@)]
            IN  (Len(name) = 2 => name[2] \in Range(file.channels))
                => read(out.val.db) = IF has(file, <<"ObsError">>, name, FALSE).val THEN read(file)
                                      ELSE Done([l \in 1 .. file.nlocs |-> Missing32])

\* What was put is what is got, by the same name from C++ or Fortran and as the
\* type that is declared (loadVar, saveVar, dtype, obsspace_f.cc).
PutIsGot == LastPutIsRead /\ ReadAsDeclared /\ FortranRoundTrip

\* Writing one thing leaves the others alone: other variables and channels in a
\* put, and the errors of the file in createMissingObsErrors.
OthersKept == PutKeepsTheRest /\ ErrorsFilled
=============================================================================
