--------------------------- MODULE MCConversions ---------------------------
(***************************************************************************)
(* Small inputs for the conversions, all of them checked in one run.       *)
(***************************************************************************)
EXTENDS OdbExport, UpgradeFiles, ObsVectors, Handles, Creation, Validator,
        RecordKeys, RecIdx

CONSTANTS MaxReports, MaxRows       \* reports in a file, rows of a varno in a report

-----------------------------------------------------------------------------
(* ODB files.  Rows are numbered by their value so that each can be told   *)
(* from the others.                                                        *)

Report(seqno, varnos, count, numlev, metas) ==
    FlattenSeq([v \in DOMAIN varnos |-> [k \in 1 .. count[v] |->
        [seqno |-> seqno, varno |-> varnos[v], numlev |-> numlev,
         c |-> [val |-> seqno * 100 + v * 10 + k, vertco |-> 3 * k, meta |-> metas[v][k]]]]])

Table(varnos, counts, numlevs, metas) ==
    FlattenSeq([r \in DOMAIN counts |->
        Report(r, varnos, counts[r], numlevs[r], metas[r])])

Plain(counts) == [r \in DOMAIN counts |-> [v \in 1 .. 2 |-> [k \in 1 .. MaxRows |-> 1]]]
NoLevels(counts) == [r \in DOMAIN counts |-> 0]

GroupVarnos ==
    ("surface" :> <<"a", "b">>) @@ ("sonde" :> <<"a", "b">>) @@ ("atms" :> <<"rawbt", "a">>)
    @@ ("iasi" :> <<"rawsca", "a">>) @@ ("amsr" :> <<"rawbt", "rawbt_amsr_89ghz">>)
    @@ ("gnssro" :> <<"bending_angle", "a">>)
    @@ ("surfacecloud" :> <<"cloud_fraction_covered", "a">>)

Counts == UNION {[1 .. r -> [1 .. 2 -> 0 .. MaxRows]] : r \in 1 .. MaxReports - 1}
          \cup {c \in [1 .. MaxReports -> [1 .. 2 -> 1 .. 2]] : \A r \in 1 .. MaxReports : c[r] = c[1]}

VarnoCalls ==
    {[op |-> "varno",
      q |-> [group |-> g, max |-> m, varnos |-> GroupVarnos[g], truncate |-> FALSE,
             v |-> GroupVarnos[g][i], rows |-> Table(GroupVarnos[g], c, NoLevels(c), Plain(c))]] :
        g \in DOMAIN GroupVarnos, m \in {0, 2}, i \in 1 .. 2, c \in Counts}

ChannelCalls == {[op |-> "channels", q |-> c.q] : c \in {d \in VarnoCalls : d.q.v = d.q.varnos[1]}}

\* The bits of the members one after the other.
Packed(sizes, p) ==
    LET all == FlattenSeq([m \in DOMAIN sizes |-> SubSeq(p[m], 1, sizes[m])])
    IN  {b \in 0 .. Len(all) - 1 : all[b + 1] = 1}

MemberCalls ==
    {[op |-> "members",
      q |-> [bitfield |-> [m \in DOMAIN sizes |-> [name |-> ToString(m), size |-> sizes[m]]],
             members |-> names, packed |-> <<p>>, values |-> <<Packed(sizes, p)>>]] :
        sizes \in {<<1, 1, 1>>, <<2, 1, 1>>, <<1, 2, 1>>}, names \in SUBSET {"1", "2", "3"},
        p \in [1 .. 3 -> [1 .. 2 -> {0, 1}]]}

StationCalls ==
    {[op |-> "stations", q |-> [group |-> "sonde", locs |-> <<a, b>>]] :
        a, b \in {[block |-> n, station |-> t, statid |-> s] :
            n \in {Missing, 1, 12}, t \in {Missing, 3, 23}, s \in {<<"a", "b", "c", "d", "e", "f">>, <<>>}}}
    \cup {[op |-> "stations", q |-> [group |-> "oceansound", locs |-> <<a, b>>]] :
        a, b \in {[argo |-> n, buoy |-> t, statid |-> s] :
            n \in {Missing, 12}, t \in {Missing, 1, 12}, s \in {<<"a", "b", "c", "d", "e", "f">>, <<>>}}}

MetadataCalls ==
    {[op |-> "metadata",
      q |-> [group |-> "surface", max |-> 0, varnos |-> <<"a">>, truncate |-> FALSE, type |-> t,
             rows |-> Table(<<"a">>, [r \in 1 .. 3 |-> <<2>>], <<0, 0, 0>>,
                            [r \in 1 .. 3 |-> <<m[r]>>])]] :
        t \in {"int", "string"}, m \in [1 .. 3 -> [1 .. 2 -> {Missing, 1, 2}]]}

SelectCalls ==
    {[op |-> "select",
      q |-> [group |-> "sonde", max |-> 0, varnos |-> vs, truncate |-> TRUE,
             rows |-> Table(<<"a", "b">>, [r \in DOMAIN n |-> <<n[r], n[r]>>], lev,
                            Plain(n))]] :
        vs \in {<<"a", "b">>, <<"b", "a">>}, n \in [1 .. 2 -> 1 .. MaxRows],
        lev \in [1 .. 2 -> 0 .. MaxRows]}

-----------------------------------------------------------------------------
(* Mapping and query files.                                                *)

Sources == {<<"lat">>, <<"flags">>, <<"flags", "bit0">>, <<"flags", "bit1">>}

Mappings ==
    {[variables |-> [k \in DOMAIN vs |-> [source |-> vs[k], name |-> <<"MetaData", ToString(k)>>]],
      varnoColumns |-> <<[source |-> s, group |-> "ObsValue", names |-> ("rawbt" :> "x")]>>,
      complementary |-> cs] :
        vs \in {<<>>} \cup {<<s>> : s \in Sources} \cup {<<s, t>> : s, t \in Sources},
        s \in {<<"obsvalue">>, <<"flags", "bit0">>},
        cs \in {<<>>, <<[inputs |-> << <<"lon">>, <<"lat">> >>, output |-> <<"MetaData", "dateTime">>]>>,
                <<[inputs |-> << <<"lon">>, <<"lat">> >>, output |-> <<"MetaData", "site">>]>>}}

Queries == {<<>>} \cup {<<s>> : s \in Sources} \cup
           {<<s, t, <<"obsvalue">>>> : s, t \in Sources}

OpenCalls ==
    {[op |-> "open", q |-> [query |-> query, mapping |-> M, group |-> g, extended |-> FALSE,
                            varnos |-> <<"rawbt", "rawbt_amsr_89ghz">>]] :
        query \in Queries, M \in Mappings, g \in {"amsr", "atms"}}

-----------------------------------------------------------------------------
(* Files to write.                                                         *)

Texts(n) == UNION {[1 .. k -> {"a", " "}] : k \in 0 .. n}

StringCalls ==
    {[op |-> "strings", q |-> [strings |-> <<s, t>>, backwards |-> b, absent |-> a]] :
        s \in Texts(2 * Width + 1), t \in {<<>>, <<"a", "a", "a">>}, b \in BOOLEAN,
        a \in {{}, {<<"name", "1">>}}}

MetaVars ==
    {[name |-> "dateTime", type |-> "date", data |-> <<0, 1>>],
     [name |-> "x", type |-> "float", data |-> <<1, 2>>],
     [name |-> "y", type |-> "int1", data |-> <<1, 2>>],
     [name |-> "z", type |-> "string", data |-> << <<"a">>, <<"a", "b", "a">> >>]}

ObsVars(type) == {[name |-> "t", type |-> type, data |-> <<5, 6>>],
                  [name |-> "u", type |-> "float", data |-> <<7, 8>>]}

Pairs(S) == {p \in S \X S : p[1] # p[2]}

ExportCalls ==
    {[op |-> "export",
      q |-> [group |-> [n |-> 2, meta |-> m, obs |-> o, body |-> b],
             flags |-> <<"F1", "F2", "F3">>,
             mapping |-> [variables |-> <<[source |-> <<"colx">>, name |-> <<"MetaData", "x">>]>>,
                          complementary |-> <<>>,
                          varnoColumns |-> <<[source |-> <<"initial_obsvalue">>, group |-> "ObsValue",
                                              names |-> names]>>]]] :
        m \in {<<>>} \cup {<<x>> : x \in MetaVars} \cup Pairs(MetaVars),
        o \in Pairs(ObsVars("float")) \cup Pairs(ObsVars("int4")),
        b \in {<<>>, (<<"DerivedObsValue", "u">> :> <<9, 9>>) @@ (<<"F2", "t">> :> <<1, 0>>)},
        names \in {(11 :> "t") @@ (12 :> "u"), (11 :> "u") @@ (12 :> "t"), (12 :> "u")}}

-----------------------------------------------------------------------------
(* Dates.                                                                  *)

Epochs == {[y |-> 1970, m |-> 1, d |-> 1, secs |-> 0], [y |-> 2000, m |-> 2, d |-> 28, secs |-> 43200]}

ExportDateCalls ==
    {[op |-> "export date", q |-> [offset |-> x, epoch |-> e]] :
        x \in {MissingDate} \cup {d * Day + s : d \in 0 .. 70, s \in {0, 3661, 86399}}, e \in Epochs}

DateCalls ==
    {[op |-> "dates",
      q |-> [date |-> d, time |-> t, displacement |-> x, epoch |-> dateTimeOf(1970, 1, 1, 0),
             window |-> w]] :
        d \in {MissingDate, 20200228, 20200229, 20200301}, t \in {MissingDate, 0, 120000, 235959},
        x \in {0, 3600, -3600},
        w \in {NoWindow} \cup
              {[extended |-> TRUE, start |-> dateTimeOf(2020, 2, 29, s), lower |-> dateTimeOf(2020, 2, 28, l)] :
                   s \in {0, 43200}, l \in {0, 43200}} \cup
              {[extended |-> TRUE, start |-> dateTimeOf(2020, 2, 28, 0), lower |-> dateTimeOf(2020, 2, 29, 0)]}}

-----------------------------------------------------------------------------
(* Files to upgrade.                                                       *)

V1Names ==
    {[meta |-> FALSE, s |-> s] :
        s \in {<<"a">>, <<"a", "_">>, <<"a", "_", "1">>, <<"a", "_", "2">>, <<"a", "_", "1", "2">>,
               <<"a", "_", "1", "_", "b">>, <<"a", "1", "_", "2">>, <<"b">>,
               <<"b", "_", "1">>, <<"b", "_", "2">>, <<"b", "_", "1", "2">>}}
    \cup {[meta |-> TRUE, s |-> <<"a", "_", "1">>]}

UpgradeV1Calls ==
    {[op |-> "upgrade v1", q |-> [names |-> SetToSeq(S), groupSimilarVariables |-> g]] :
        S \in UNION {kSubset(k, V1Names) : k \in 1 .. 5}, g \in BOOLEAN}

Scales == {[name |-> "nlocs", used |-> TRUE, data |-> <<>>],
           [name |-> "Location", used |-> TRUE, data |-> <<>>],
           [name |-> "nchans", used |-> TRUE, data |-> <<4, 7>>],
           [name |-> "Channel", used |-> FALSE, data |-> <<4, 7>>]}

V2Vars ==
    (DateTimePath :> [dims |-> <<"nlocs">>, epoch |-> dateTimeOf(1970, 1, 1, 0), data |-> <<7, 8>>])
    @@ (StringPath :> [dims |-> <<"nlocs">>, data |-> <<dateTimeOf(2000, 2, 29, 5), dateTimeOf(2000, 3, 1, 0)>>])
    @@ (OffsetPath :> [dims |-> <<"nlocs">>, data |-> <<-3, 3601>>])
    @@ (<<"VarMetaData", "old">> :> [dims |-> <<"nchans">>, data |-> <<1, 2>>])
    @@ (<<"MetaData", "new">> :> [dims |-> <<"nchans">>, data |-> <<3, 4>>])

UpgradeV2Calls ==
    {[op |-> "upgrade v2",
      q |-> [scales |-> SetToSeq(S), vars |-> [p \in P |-> V2Vars[p]], date_time |-> 2000022906,
             lookup |-> getOldNewNameMap(m)]] :
        S \in SUBSET Scales, P \in SUBSET DOMAIN V2Vars,
        m \in {<<>>, << <<"new", "old", "older">> >>, << <<"dateTime", "old">> >>}}

ChunkedVar(type, dims, scales, atts, chars, chunks) ==
    [type |-> type, dims |-> dims, scales |-> scales, atts |-> atts, chars |-> chars, chunks |-> chunks]

OldVar(type, dims, scales, atts, chars) == ChunkedVar(type, dims, scales, atts, chars, <<>>)

\* No variable of this name, or one of several.
OneOf(meta, s, V) == {{}} \cup {{<<[meta |-> meta, s |-> s], v>>} : v \in V}

OldFile(n, width, pairs) ==
    [atts |-> "title" :> <<>>,
     scales |-> <<[name |-> "nlocs", len |-> n], [name |-> "nchans", len |-> 81],
                  [name |-> "nstring", len |-> width], [name |-> "idle", len |-> 5]>>,
     vars |-> [m \in {p[1] : p \in pairs} |-> (CHOOSE p \in pairs : p[1] = m)[2]]]

\* Rows of two characters and strings, contiguous and in chunks of one.
OldStrings(n) ==
    {ChunkedVar("char", <<n, 2>>, <<"nlocs", "nstring">>, <<>>, [k \in 1 .. 2 * n |-> "a"], c) :
        c \in {<<>>, <<1, 2>>}}
    \cup {ChunkedVar("string", <<n>>, <<"nlocs">>, <<>>, [k \in 1 .. n |-> IF k = 1 THEN <<"a", "b">> ELSE <<>>], c) :
        c \in {<<>>, <<1>>}}

OldFiles ==
    UNION {{OldFile(n, 3, a \cup b \cup c \cup d) :
        a \in OneOf(FALSE, <<"a", "_", "1">>,
                    {OldVar("float", <<n>>, <<"nlocs">>, t, <<>>) :
                        t \in {<<>>, ("x" :> <<"1">>) @@ ("NAME" :> <<"z">>)}}),
        b \in OneOf(FALSE, <<"a", "_", "2">>,
                    {OldVar("float", <<n>>, <<"nlocs">>, t, <<>>) :
                        t \in {"x" :> <<>>, ("x" :> <<"2">>) @@ ("y" :> <<>>)}}),
        c \in OneOf(FALSE, <<"b">>, {OldVar("float", <<n, 81>>, <<"nlocs", "nchans">>, <<>>, <<>>)}),
        d \in OneOf(TRUE, <<"b">>, {OldVar("string", <<n>>, <<"nlocs">>, <<>>, <<>>)})} :
        n \in {0, 3, 8000, 200000}}
    \cup UNION {{OldFile(4 \div w, w, a \cup b) :
        a \in OneOf(FALSE, <<"a", "_", "1">>, {OldVar("float", <<4 \div w>>, <<"nlocs">>, <<>>, <<>>)}),
        b \in OneOf(TRUE, <<"b">>, {OldVar("char", <<4 \div w, w>>, <<"nlocs", "nstring">>, <<>>, c) :
                                       c \in [1 .. 4 -> {"a", " ", "NUL"}]})} :
        w \in {1, 2, 4}}
    \cup UNION {{OldFile(n, 2, a \cup b \cup c) :
        a \in OneOf(FALSE, <<"a", "_", "1">>, OldStrings(n)), b \in OneOf(FALSE, <<"a", "_", "2">>, OldStrings(n)),
        c \in OneOf(FALSE, <<"b">>, OldStrings(n)
                    \cup {OldVar("float", <<n>>, <<"nlocs">>, <<>>, <<>>)})} : n \in {0, 2}}

OnlyAttached(f) == [f EXCEPT !.scales = SelectSeq(@, LAMBDA d : d.name \in attachedDims(f))]

UpgradeFileCalls ==
    {[op |-> "upgrade v1 file", q |-> [file |-> f, args |-> a]] :
        f \in {g \in OldFiles : DOMAIN g.vars # {}},
        a \in {<<"in", "out">>, <<"-n", "in", "out">>, <<"in">>}}
    \cup {[op |-> "upgrade v2 file", q |-> [file |-> f, args |-> <<"in", "out", "yaml">>]] :
              f \in OldFiles \cup {OnlyAttached(g) : g \in OldFiles}}

-----------------------------------------------------------------------------
(* ObsSpaces and the puts on them.                                         *)

Var(type, dims, epoch, data) == [type |-> type, dims |-> dims, epoch |-> epoch, data |-> data]

Locs == <<"Location">>
LocsByChannel == <<"Location", "Channel">>

FileVars(channels) ==
    LET t == IF channels = NoChannel THEN Var("float", Locs, NoEpoch, <<1, 2>>)
             ELSE Var("float", LocsByChannel, NoEpoch, <<1, 2, 3, 4>>)
    IN  (<< <<"ObsValue">>, <<"t">> >> :> t)
        @@ (<< <<"Derived", "ObsValue">>, <<"t">> >> :> [t EXCEPT !.data = [i \in DOMAIN @ |-> @[i] + 10]])
        @@ (<< <<"ObsValue">>, <<"t", 4>> >> :> Var("float", Locs, NoEpoch, <<21, 22>>))
        @@ (<< <<"MetaData">>, <<"dateTime">> >> :> Var("int64", Locs, 50, <<3, Missing32>>))
        @@ (<< <<"Derived", "ObsValue">>, <<"t", 4>> >> :> Var("int", Locs, NoEpoch, <<31, 32>>))

ObsSpaces ==
    {[nlocs |-> 2, epoch |-> 70, channels |-> c, vars |-> [k \in K |-> FileVars(c)[k]]] :
        c \in {NoChannel, <<4, 7>>, <<7, 4>>}, K \in SUBSET DOMAIN FileVars(NoChannel)}
    \cup {[nlocs |-> 0, epoch |-> 70, channels |-> <<4, 7>>, vars |-> <<>>]}

Puts(base) ==
    {[via |-> v, kind |-> k, group |-> g, name |-> n, dims |-> d,
      vals |-> [i \in 1 .. (IF Len(n) = 1 /\ Len(d) = 2 THEN 4 ELSE 2) |-> base + 2 * i]] :
        v \in {"C++"}, k \in {"float"}, g \in {<<"ObsValue">>, <<"Derived", "ObsValue">>, <<"MetaData">>},
        n \in {<<"t">>, <<"t", 4>>, <<"t", 9>>}, d \in {Locs, LocsByChannel}}
    \cup {[via |-> v, kind |-> k, group |-> <<"ObsValue">>, name |-> n, dims |-> Locs,
           vals |-> IF k = "bool" THEN <<1, 0>> ELSE <<base, base + 300>>] :
        v \in {"C++"}, k \in {"double", "bool", "int"}, n \in {<<"t">>, <<"u", 4>>, <<"u", NoDigits>>}}
    \cup {[via |-> "Fortran", kind |-> k, group |-> <<"ObsValue">>, name |-> n, dims |-> Locs,
           vals |-> IF k = "bool" THEN <<0, 0>> ELSE <<base, base + x>>] :
        k \in {"double", "float", "int", "int64", "bool"}, n \in {<<"t">>, <<"u", 4>>}, x \in {2, 300}}
    \cup {[via |-> "C++", kind |-> "datetime", group |-> <<"MetaData">>, name |-> n, dims |-> Locs,
           vals |-> <<base, Missing32>>] : n \in {<<"dateTime">>, <<"other">>}}

PutCalls ==
    {[op |-> "puts", q |-> [db |-> db, puts |-> <<p>>]] : db \in ObsSpaces, p \in Puts(30)}
    \cup {[op |-> "puts", q |-> [db |-> db, puts |-> <<p, r>>]] :
            db \in {d \in ObsSpaces : Cardinality(DOMAIN d.vars) <= 1 /\ d.channels # <<4, 7>>},
            p \in {x \in Puts(30) : x.kind = "float" /\ (Len(x.name) = 1 \/ x.dims = Locs)}, r \in Puts(40)}

ConstructCalls ==
    {[op |-> "construct",
      q |-> [db |-> [nlocs |-> 2, epoch |-> 70, channels |-> c,
                     vars |-> [k \in {<<h, x[2]>> : h \in G, x \in K} |->
                                  [FileVars(c)[<< <<"ObsValue">>, k[2]>>] EXCEPT !.type =
                                       IF k[1] = <<"ObsError">> THEN ty ELSE @]]],
             yaml |-> [generator |-> gen, observed |-> o, derived |-> d, simulated |-> m,
                       channels |-> IF c = NoChannel THEN <<>> ELSE y]]] :
        c \in {NoChannel, <<4, 7>>}, gen \in BOOLEAN,
        G \in SUBSET {<<"ObsValue">>, <<"ObsError">>, <<"Derived", "ObsError">>},
        K \in SUBSET {<<1, <<"t">> >>, <<1, <<"t", 4>> >>},
        o \in {<<>>, << <<"t">> >>, << <<"t", 4>>, <<"t", 7>> >>, << <<"t", 7>>, <<"t", 9>> >>},
        d \in {<<>>, << <<"v">> >>, << <<"v", 7>> >>}, m \in {<<>>, << <<"t", 4>> >>},
        y \in {<<>>, <<4, 7>>, <<9>>}, ty \in {"float", "double"}}

-----------------------------------------------------------------------------
(* Three locations on two ranks, and vectors of two variables over them.   *)

Ascending(S) == SetToSortSeq(S, <)
Own(L) == {[kind |-> "nonoverlapping", locs |-> <<Ascending(A), Ascending(L \ A)>>] : A \in SUBSET L}
Copied(L) == {[kind |-> "inefficient", locs |-> <<Ascending(L), Ascending(L)>>]}

\* Who holds a location, and which of the holders has it in its patch.
Overlapping(kind, L) ==
    {[kind |-> kind,
      locs |-> [r \in 1 .. 2 |-> Ascending({l \in L : r \in h[l][1]})],
      patch |-> [r \in 1 .. 2 |-> LET at == Ascending({l \in L : r \in h[l][1]})
                                  IN  [i \in DOMAIN at |-> h[at[i]][2] = r]]] :
        h \in [L -> {<<{1}, 1>>, <<{2}, 2>>, <<{1, 2}, 1>>, <<{1, 2}, 2>>}]}

Paired(A, B) == {[kind |-> "pair", first |-> a, second |-> b] : a \in A, b \in B}

Distributions ==
    Own(1 .. 3) \cup Copied(1 .. 3) \cup Overlapping("general", 1 .. 3) \cup Paired(Own(1 .. 2), Own({3}))
    \cup Paired(Copied(1 .. 2), Copied({3})) \cup Paired(Overlapping("general", 1 .. 2), Overlapping("replica", {3}))

VectorOps == {"scale", "plus", "minus", "times", "divide", "zero", "ones", "axpy", "beta", "invert", "mask"}

VectorCalls ==
    {[op |-> "vectors",
      q |-> [dist |-> d, n |-> 2, X |-> x, Y |-> y, source |-> <<2, 0, 3>>, beta |-> <<2, 3>>,
             perts |-> [k \in 1 .. 8 |-> 20 + k], ops |-> o]] :
        d \in Distributions,
        x \in {<< <<1, 2>>, <<Missing32, 3>>, <<-4, 0>> >>,
               << <<Missing32, Missing32>>, <<5, -1>>, <<Missing32, 2>> >>},
        y \in {<< <<2, Missing32>>, <<1, 1>>, <<3, 0>> >>},
        o \in {<<>>, <<"random">>} \cup {<<a>> : a \in VectorOps} \cup {<<"random", a>> : a \in {"plus", "mask"}}}

SaveCalls ==
    {[op |-> "save vector",
      q |-> [db |-> db, group |-> <<"hofx">>, rowGroup |-> <<"QC">>, names |-> ns,
             x |-> [j \in 1 .. db.nlocs * Len(ns) |-> IF j = 3 THEN Missing32 ELSE 40 + j]]] :
        db \in ObsSpaces,
        ns \in {<< <<"t">> >>, << <<"t", 4>>, <<"t", 7>> >>, << <<"t", 7>>, <<"t", 4>> >>,
                << <<"u">>, <<"t", 7>> >>, << <<"t", 9>> >>}}

NameLists == {<<"a">>, <<"b">>, <<"a", "b">>, <<"b", "a">>, <<"b", "c", "a">>}

RowCalls ==
    {[op |-> "rows",
      q |-> [names |-> n, rowNames |-> r, back |-> b,
             x |-> [j \in 1 .. 2 * Len(n) |-> IF j = 2 THEN Missing32 ELSE 10 + j],
             flags |-> [v \in DOMAIN r |-> [l \in 1 .. 2 |-> IF v + l = f THEN 1 ELSE 0]]]] :
        n \in NameLists, r \in NameLists, b \in NameLists, f \in 1 .. 4}

-----------------------------------------------------------------------------
(* Variables to create, and the containers they are copied through.        *)

Containers == {[backend |-> "ObsStore", policy |-> "NETCDF4"], [backend |-> "HH", policy |-> "NETCDF4"],
               [backend |-> "HH", policy |-> "HDF5"]}
Journeys == {<<a, b, c>> : a, b \in Containers, c \in {d \in Containers : d.policy = "NETCDF4"}}

ValueOf(T) == IF T = "string" THEN Value(0, "none") ELSE Value(7, "")
Fills(T) == {NoFill, assignFillValue(T, NoFill, ValueOf(T))}

ParamsOf(T, rank) ==
    {defaulted(T)} \cup
    {[NoParams EXCEPT !.chunk = c # "no", !.chunks = IF c = "given" THEN SubSeq(<<5, 2>>, 1, rank) ELSE <<>>,
                      !.gzip = z, !.fill = f] :
        c \in {"no", "given", "strategy"}, z \in {0, 3}, f \in Fills(T)}
    \cup IF T = "string" THEN {} ELSE
    {compressWithSZIP([NoParams EXCEPT !.chunk = c # "no",
                                       !.chunks = IF c = "given" THEN SubSeq(<<5, 2>>, 1, rank) ELSE <<>>], 8, 4) :
        c \in {"no", "given", "strategy"}}

Shapes == {[dims |-> <<4, 0>>, max |-> <<Unlimited, 0>>, hints |-> <<Unlimited, 3>>],
           [dims |-> <<3, 2>>, max |-> <<3, 6>>, hints |-> <<9, Unlimited>>],
           [dims |-> <<0>>, max |-> <<>>, hints |-> <<Unlimited>>]}

ScalesOf(s) == [i \in DOMAIN s.dims |->
    [len |-> s.dims[i], max |-> IF s.max = <<>> THEN s.dims[i] ELSE s.max[i], hint |-> s.hints[i]]]

CreationCalls == UNION {
    {[op |-> "create and copy",
      q |-> [entry |-> e, type |-> t[1], dims |-> s.dims, max |-> s.max, scales |-> ScalesOf(s),
             params |-> t[2], at |-> j]] :
        e \in {"typed", "type", "scales", "python"}, j \in Journeys,
        t \in UNION {{T} \X ParamsOf(T, Len(s.dims)) : T \in {"string", "float", "char"}}} :
    s \in Shapes}

ForeignCalls ==
    {[op |-> "create and copy",
      q |-> [entry |-> "file", type |-> t[1], dims |-> <<2>>, property |-> t[2], attr |-> t[3],
             orig |-> t[4], params |-> NoParams, at |-> <<a>> \o SubSeq(j, 2, 3)]] :
        a \in {c \in Containers : c.backend = "HH"}, j \in Journeys,
        t \in UNION {{T} \X {<<>>, <<ValueOf(T)>>} \X {<<>>, <<ValueOf(T)>>, <<Nothing>>} \X {<<>>} :
                       T \in {"string", "float", "int64", "signed char", "char", "unsigned char", "uint32"}}
              \cup {"string"} \X {<<>>, <<ValueOf("string")>>} \X {<<>>, <<Nothing>>} \X {<<Value(0, "was")>>}}

FilterCalls ==
    {[op |-> "filters", q |-> [filters |-> f, calls |-> c]] :
        f \in {<<>>, <<Filter("checksum", <<>>)>>, <<Filter("nbit", <<>>), Filter("checksum", <<>>)>>},
        c \in UNION {[1 .. n -> {"shuffle", "gzip", "szip", "scale", "plain"}] : n \in 0 .. 4}}

-----------------------------------------------------------------------------
(* Expressions on arrays of lengths, and columns to convert.               *)

Metres == Unit(1, Rat(1))
Fathoms == Unit(1, Rat(4))

MathOps == {"+", "-", "*", "/", "+2", "-2", "*2", "/2", "raise", "pow", "asUnits", "cast", "range", "fill"}
           \cup Comparisons

MathCalls ==
    {[op |-> "math",
      q |-> [x |-> Array(<<Rat(3), Rat(12), Rat(-17), Rat(-17)>>, u, Rat(-17)),
             y |-> Array(<<Rat(2), Rat(5), Rat(4), Rat(19)>>, v, Rat(19)), ops |-> o]] :
        u, v \in {Metres, Fathoms},
        o \in {<<>>} \cup {<<a>> : a \in MathOps} \cup (MathOps \X MathOps)
              \cup ({"asUnits"} \X {"+", "*", "<", ">=", "+2", "fill"} \X {"-", "/", "!=", "range"})}

UnitCalls ==
    {[op |-> "convert units", q |-> c] :
        c \in UNION {[1 .. n -> {[mapped |-> m, unit |-> u, units |-> "", data |-> <<Rat(20), Rat(0)>>] :
                                     m \in BOOLEAN, u \in {"", "celsius", "knot", "okta", "furlong"}}] :
                     n \in 1 .. 2}}

-----------------------------------------------------------------------------
(* Files to validate, and the conventions.                                 *)

YAMLGroup(names, type, force, units) ==
    [names |-> names, required |-> TRUE, remove |-> FALSE, reqAtts |-> <<>>, optAtts |-> <<"title">>,
     requiredvars |-> <<"t">>, regular |-> names[1] # "/", type |-> type, forceunits |-> force, units |-> units]

YAMLVariable(names, type, force, units, exact) ==
    [names |-> names, dimNames |-> <<>>, type |-> type, canBeMetadata |-> FALSE, atts |-> <<>>,
     forceunits |-> force, remove |-> names[1] = "gone", exact |-> exact, units |-> units]

Conventions ==
    {[policies |-> IF e THEN [RequiredGroups |-> "Warn"] ELSE <<>>,
      attributes |-> <<[names |-> <<"units">>, rank |-> <<0>>, dims |-> <<>>],
                       [names |-> <<"title", "name">>, rank |-> <<1>>, dims |-> << <<2>> >>]>>,
      groups |-> <<[YAMLGroup(<<"/">>, <<>>, <<>>, "") EXCEPT !.requiredvars = <<>>],
                   YAMLGroup(<<"ObsValue">>, gt, gf, u[1]),
                   [YAMLGroup(<<"MetaData">>, <<>>, <<>>, "") EXCEPT !.required = FALSE, !.requiredvars = <<>>]>>,
      dimensions |-> <<[names |-> <<"Location", "nlocs">>, required |-> TRUE],
                       [names |-> <<"Channel", "nchans">>, required |-> FALSE]>>,
      vardefaults |-> [dimNames |-> << << <<"Location">>, <<"Location", "Channel">> >> >>,
                       type |-> t[1], canBeMetadata |-> ~e,
                       atts |-> <<[required |-> <<"units">>, optional |-> <<>>, requiredNotEnum |-> <<"title">>]>>],
      variables |-> <<YAMLVariable(<<"t", "temp">>, t[2], vf, u[2], e), YAMLVariable(<<"gone">>, <<>>, <<>>, "", e)>>] :
        e \in BOOLEAN, gt \in {<<>>, <<"Enum">>}, gf \in {<<>>, <<FALSE>>}, vf \in {<<>>, <<TRUE>>},
        t \in {<< <<>>, <<>> >>, << <<"Float">>, <<>> >>, << <<"Float">>, <<"StringVLen">> >>},
        u \in {<<"", "m">>, <<"km", "m">>, <<"", "what">>}}

FileVariables ==
    {[path |-> p, dims |-> <<3, 2>>, scales |-> s, atts |-> a, units |-> u] :
        p \in {<<"ObsValue", "t">>, <<"ObsValue", "temp">>, <<"MetaData", "t">>},
        s \in {<<"nlocs", "Channel">>, <<"Channel", "nlocs">>, <<"nlocs", "">>},
        a \in {"units" :> <<>>, "title" :> <<2>>}, u \in {"m", "m2", ""}}
    \cup {[path |-> p, dims |-> <<3>>, scales |-> <<"nlocs">>, atts |-> "units" :> <<>>, units |-> "km"] :
            p \in {<<"other", "gone">>, <<"other", "t">>, <<"x">>}}

ValidateCalls ==
    {[op |-> "validate",
      q |-> [args |-> <<"yaml", "file">>, unset |-> FALSE, opens |-> TRUE, yaml |-> y,
             file |-> [atts |-> <<>>, groups |-> <<[name |-> "ObsValue", atts |-> <<>>]>>,
                       dims |-> <<[name |-> "nlocs", len |-> 3], [name |-> "Channel", len |-> 2]>>,
                       vars |-> <<v>>]]] :
        y \in Conventions, v \in FileVariables}
    \cup {[op |-> "validate",
           q |-> [args |-> o, unset |-> g, opens |-> b, yaml |-> y,
                  file |-> [atts |-> "title" :> <<1>>, groups |-> <<[name |-> "odd", atts |-> "odd" :> <<>>]>>,
                            dims |-> d, vars |-> <<>>]]] :
        o \in {<<"yaml">>, <<"yaml", "file">>, <<"--ignore-warn", "yaml", "file">>,
               <<"--ignore-error", "yaml", "file">>, <<"--ignore-warn", "--ignore-error", "yaml", "file">>},
        g, b \in BOOLEAN, y \in {c \in Conventions : c.groups[2].units = "" /\ c.groups[2].type = <<>>},
        d \in {<<>>, <<[name |-> "nlocs", len |-> 3]>>, <<[name |-> "Location", len |-> 3], [name |-> "odd", len |-> 1]>>}}

-----------------------------------------------------------------------------
(* Grouping keys and sort values.                                          *)

GroupTexts == {<<"a">>, <<"a", "b">>, <<"b", "a">>, <<"b">>, <<"a", ":", "b">>}

GroupCalls ==
    {[op |-> "group", q |-> [vars |-> v, kept |-> k, maxFrameSize |-> f]] :
        v \in {<<[i \in 1 .. 3 |-> TextVal(a[i])], [i \in 1 .. 3 |-> TextVal(b[i])]>> :
                  a \in [1 .. 3 -> GroupTexts], b \in [1 .. 3 -> {<<"a">>, <<"b", "a">>}]}
             \cup {<<[i \in 1 .. 3 |-> FloatVal(a[i])], [i \in 1 .. 3 |-> IntVal(b[i])]>> :
                  a \in [1 .. 3 -> {0, 10, 12, 20}], b \in [1 .. 3 -> {1, 12}]},
        k \in {{1, 2, 3}, {1, 3}, {2, 3}, {}}, f \in {2, 3}}

\* Around a time of 2020: neighbours, and times a year and decades away.
DateSortCalls ==
    {[op |-> "sort dates", q |-> [dates |-> d]] :
        d \in [1 .. 3 -> {missingDateTime} \cup
                {1600000000 + k : k \in {-1600000000, -1599999999, -16777217, -16777216, -1, 0,
                                         1, 16777216, 16777217, 16777219, 40000000, 40000003}}]}

-----------------------------------------------------------------------------
(* Up to three locations in two records, with their sort values and a      *)
(* variable to extend, either of which may be missing.                     *)

SortTreatments == {"unsorted", "SORT", "NO_SORT", "IGNORE_MISSING"}

RecordCalls(n, t, o) ==
    {[op |-> "records",
      q |-> [recnums |-> r[1], sortValues |-> v, varVals |-> x, treatment |-> t, order |-> o, levels |-> 2,
             originalRecs |-> r[2]]] :
        v, x \in [1 .. n -> {MissingFloat, 1, 2}],
        r \in {a \in [1 .. n -> 0 .. 1] \X (0 .. 2) : Range(a[1]) \subseteq 0 .. a[2] - 1}}

-----------------------------------------------------------------------------
vars == <<call, out, api>>

CallInit ==
    /\ out = Pending
    /\ api = NoApi
    /\ \/ call \in VarnoCalls
       \/ call \in MetadataCalls
       \/ call \in ChannelCalls
       \/ call \in MemberCalls
       \/ call \in StationCalls
       \/ call \in SelectCalls
       \/ call \in OpenCalls
       \/ call \in StringCalls
       \/ call \in ExportCalls
       \/ call \in ExportDateCalls
       \/ call \in DateCalls
       \/ call \in UpgradeV1Calls
       \/ call \in UpgradeV2Calls
       \/ call \in UpgradeFileCalls
       \/ call \in PutCalls
       \/ call \in ConstructCalls
       \/ call \in VectorCalls
       \/ call \in SaveCalls
       \/ call \in RowCalls
       \/ call \in CreationCalls
       \/ call \in ForeignCalls
       \/ call \in FilterCalls
       \/ call \in MathCalls
       \/ call \in UnitCalls
       \/ call \in ValidateCalls
       \/ call \in GroupCalls
       \/ call \in DateSortCalls
       \/ \E n \in 0 .. 3, t \in SortTreatments, o \in {"ascending", "descending"} :
              call \in RecordCalls(n, t, o)

OneCall(op, outcome) == Runs(op, outcome) /\ UNCHANGED api

CallNext ==
    \/ OneCall("varno", importVarno(call.q))
    \/ OneCall("metadata", importMetadata(call.q))
    \/ OneCall("channels", importChannels(call.q))
    \/ OneCall("members", importMembers(call.q))
    \/ OneCall("stations", importStations(call.q))
    \/ OneCall("select", select(call.q))
    \/ OneCall("open", openFile(call.q))
    \/ OneCall("strings", exportThenImportStrings(call.q))
    \/ OneCall("export", createFile(call.q))
    \/ OneCall("export date", exportThenImportDate(call.q))
    \/ OneCall("dates", getDates(call.q))
    \/ OneCall("upgrade v1", upgradeV1toV2(call.q))
    \/ OneCall("upgrade v2", upgradeV2toV3(call.q))
    \/ OneCall("upgrade v1 file", mainV1toV2(call.q))
    \/ OneCall("upgrade v2 file", mainV2toV3(call.q))
    \/ OneCall("puts", runPuts(call.q))
    \/ OneCall("construct", construct(call.q))
    \/ OneCall("vectors", runVectors(call.q))
    \/ OneCall("save vector", saveThenRead(call.q))
    \/ OneCall("rows", throughRows(call.q))
    \/ OneCall("create and copy", createAndCopy(call.q))
    \/ OneCall("filters", setFilters(call.q))
    \/ OneCall("math", evalMath(call.q))
    \/ OneCall("convert units", convertVariableUnits(call.q))
    \/ OneCall("validate", execute(call.q))
    \/ OneCall("group", groupLocations(call.q))
    \/ OneCall("sort dates", sortByDateTime(call.q))
    \/ OneCall("records", indexRecords(call.q))

\* The run is either one call, or one session of a client of the C interface.
Init ==
    \/ CallInit
    \/ call = [op |-> "session"] /\ out = Pending /\ ApiInit

Next ==
    \/ CallNext
    \/ ApiNext /\ UNCHANGED <<call, out>>

Spec == Init /\ [][Next]_vars
=============================================================================
