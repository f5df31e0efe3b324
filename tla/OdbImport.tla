----------------------------- MODULE OdbImport -----------------------------
(***************************************************************************)
(* Reading an ODB file (Engines/ODC): the rows a query returns become one  *)
(* metadata value per location and one value per location (and channel) of *)
(* every varno.                                                            *)
(*                                                                         *)
(* A row holds one observed value: seqno says which report it belongs to,  *)
(* varno which quantity it is.  Nothing in the file says where a location  *)
(* begins: the code infers it from changes of seqno, from counts and from  *)
(* the observation group.  Quantities and groups are named, values are     *)
(* small integers and Missing stands for odb_missing.                      *)
(***************************************************************************)
EXTENDS Calls

Missing == -1
Empty == -2         \* the empty string

\* Groups whose locations are the rows of one varno; their levels are locations.
LevelsAreLocations(D) ==
    D.group \in {"sonde", "oceansound"} \/ (D.group = "gnssro" /\ D.max = 0)

-----------------------------------------------------------------------------
(* DataFromSQL::select: the counts everything else is derived from.        *)

numberOfRowsForVarno(D, v) == Cardinality({i \in DOMAIN D.rows : D.rows[i].varno = v})

hasVarno(D, v) == v \in Range(D.varnos)

distinctVarnos(rows) ==
    FoldLeft(LAMBDA acc, r : IF r.varno \in Range(acc) THEN acc ELSE Append(acc, r.varno),
             <<>>, rows)

\* The rows at which a new location starts: the report changes, or the
\* channels of a location are used up.
locationStarts(rows, max) ==
    LET step(acc, i) ==
            IF rows[i].seqno # acc.seqno \/ (max > 0 /\ acc.chan + 1 > max)
            THEN [seqno |-> rows[i].seqno, chan |-> 1, at |-> Append(acc.at, i)]
            ELSE [acc EXCEPT !.chan = @ + 1]
    IN  FoldLeft(step, [seqno |-> -1, chan |-> 0, at |-> <<>>], [i \in DOMAIN rows |-> i]).at

metadataRows(D) ==
    IF LevelsAreLocations(D)
    THEN Len(D.rows) \div Len(D.varnos)
    ELSE Len(locationStarts(D.rows, D.max))

\* A truncation that takes the level counts from the row of the report's last level.
profilesToTruncate_Last(D) ==
    LET first == locationStarts(D.rows, 0)
        end(p) == IF p = Len(first) THEN metadataRows(D)
                  ELSE (first[p + 1] - 1) \div Len(D.varnos)
    IN  [p \in DOMAIN first |->
            [initial |-> (first[p] - 1) \div Len(D.varnos), final |-> end(p),
             numlev |-> D.rows[IF p = Len(first) THEN Len(D.rows) ELSE first[p + 1]].numlev]]

\* The assigned levels of each profile, numbered over one varno's rows, and the
\* number of levels it reports.
profilesFrom(D, first) ==
    [p \in DOMAIN first |->
        [initial |-> (first[p] - 1) \div Len(D.varnos),
         final |-> IF p = Len(first) THEN metadataRows(D) ELSE (first[p + 1] - 1) \div Len(D.varnos),
         numlev |-> D.rows[first[p]].numlev]]

profilesToTruncate(D) == profilesFrom(D, locationStarts(D.rows, 0))

varnoRows(D, v) == Positions(D.rows, LAMBDA i : D.rows[i].varno = v)

DropAt(s, gone) == [k \in 1 .. Len(s) - Cardinality(gone) |-> s[Positions(s, LAMBDA i : i \notin gone)[k]]]

\* The rows of every requested varno beyond the reported levels go.  A requested
\* varno with fewer rows than the profiles have levels is indexed past its end.
withoutLevels(D, of, surplus) ==
    IF \E v \in DOMAIN of, k \in surplus : k >= Len(of[v]) THEN Undefined
    ELSE LET gone == {of[v][k + 1] : v \in DOMAIN of, k \in surplus}
             rows == DropAt(D.rows, gone)
         IN  Done([D EXCEPT !.rows = rows, !.nmeta = Len(rows) \div Len(D.varnos)])

truncateProfiles(D, requested) ==
    withoutLevels(D, [v \in Range(requested) |-> varnoRows(D, v)],
        UNION {p.initial + p.numlev .. p.final - 1 : p \in Range(profilesToTruncate(D))})

\* Rows per location of each varno, as counted and as used (never zero).
countLevels(D) ==
    LET counted(v) == IF D.max > 0 THEN D.max ELSE numberOfRowsForVarno(D, v) \div D.nmeta
    IN  [D EXCEPT !.levels = [v \in Range(D.varnos) |-> counted(v)],
                  !.use = [v \in Range(D.varnos) |->
                            IF counted(v) > 1 THEN counted(v) ELSE 1]]

selected(q, rows) ==
    LET D == [group |-> q.group, max |-> q.max, rows |-> rows,
              varnos |-> distinctVarnos(rows), nmeta |-> 0, levels |-> <<>>, use |-> <<>>]
    IN  [D EXCEPT !.nmeta = metadataRows(D)]

truncated(q, D) ==
    IF q.truncate /\ q.group \in {"sonde", "oceansound"} THEN truncateProfiles(D, q.varnos) ELSE Done(D)

withLevels(D) == Done(IF D.nmeta > 0 THEN countLevels(D) ELSE D)

\* A query that selects no row of a file that has some reads row 0 of an empty
\* column and throws.
select(q) ==
    LET rows == SelectSeq(q.rows, LAMBDA r : r.varno \in Range(q.varnos))
    IN  IF rows = <<>> THEN Thrown ELSE AndThen(truncated(q, selected(q, rows)), withLevels)

numberOfLevels(D, v) ==
    IF hasVarno(D, v) /\ D.nmeta > 0
    THEN IF D.group = "surfacecloud" THEN D.levels[v] ELSE D.use[v]
    ELSE 0

-----------------------------------------------------------------------------
(* One value per location.                                                 *)

ofFirstVarno(D, col) ==
    [k \in 1 .. numberOfRowsForVarno(D, D.varnos[1]) |-> D.rows[varnoRows(D, D.varnos[1])[k]].c[col]]

\* Takes the first value of the location even when it is missing.
getNumericMetadataColumn_First(D, col) ==
    LET starts == locationStarts(D.rows, D.max)
    IN  Done([k \in DOMAIN starts |-> D.rows[starts[k]].c[col]])

\* The values fill the locations from the first on.
perLocation(D, found) ==
    IF Len(found) > D.nmeta THEN Undefined
    ELSE Done([k \in 1 .. D.nmeta |-> IF k <= Len(found) THEN found[k] ELSE Missing])

\* The first value of the location, or while that is missing a later one.  The
\* search goes on into the next location when it found nothing: there the second
\* row replaces the first even if the first was good.
getNumericMetadataColumn(D, col) ==
    LET val(i) == D.rows[i].c[col]
        starts == Range(locationStarts(D.rows, D.max))
        step(acc, i) ==
            IF i \in starts
            THEN [arr |-> Append(acc.arr, val(i)),
                  looking |-> acc.looking \/ val(i) = Missing]
            ELSE IF acc.looking
                 THEN [arr |-> [acc.arr EXCEPT ![Len(acc.arr)] = val(i)],
                       looking |-> val(i) = Missing]
                 ELSE acc
        found == IF LevelsAreLocations(D) \/ D.group = "geocloud" THEN ofFirstVarno(D, col)
                 ELSE FoldLeft(step, [arr |-> <<>>, looking |-> FALSE],
                               [i \in DOMAIN D.rows |-> i]).arr
    IN  perLocation(D, found)

\* For strings a later value replaces the first only when it is not missing.
getMetadataStringColumn(D, col) ==
    LET val(i) == D.rows[i].c[col]
        starts == Range(locationStarts(D.rows, D.max))
        step(acc, i) ==
            IF i \in starts
            THEN [arr |-> Append(acc.arr, val(i)),
                  looking |-> acc.looking \/ val(i) = Missing]
            ELSE IF acc.looking /\ val(i) # Missing
                 THEN [arr |-> [acc.arr EXCEPT ![Len(acc.arr)] = val(i)], looking |-> FALSE]
                 ELSE acc
        found == IF LevelsAreLocations(D) \/ D.group = "geocloud" THEN ofFirstVarno(D, col)
                 ELSE FoldLeft(step, [arr |-> <<>>, looking |-> FALSE],
                               [i \in DOMAIN D.rows |-> i]).arr
    IN  found \o [k \in 1 .. D.nmeta - Len(found) |-> Empty]

-----------------------------------------------------------------------------
(* The values of a varno, per location and channel.                        *)

\* n rows behind the first k.  0 stands for an index taken past the end.
Slice(rows, k, n) == [j \in 1 .. n |-> IF k + j <= Len(rows) THEN rows[k + j] ELSE 0]

\* Location by location, varno by varno, so many rows of each.
varnoIndexOrder(D, varnos) ==
    LET counted(v) == numberOfRowsForVarno(D, v) \div D.nmeta
        size(v) == IF D.group # "surfacecloud" /\ counted(v) < 1 THEN 1 ELSE counted(v)
    IN  FlattenSeq([loc \in 1 .. D.nmeta |-> FlattenSeq([n \in DOMAIN varnos |->
            Slice(varnoRows(D, varnos[n]), (loc - 1) * size(varnos[n]), size(varnos[n]))])])

\* The scan for several channels: where each row of the varnos is written.
channelSlots(D, varnos, nchans, nactual) ==
    LET step(acc, i) ==
            LET full == acc.k + 1 > nactual
                j1 == acc.j + 1 + IF full THEN nchans - nactual ELSE 0
                k1 == IF full THEN 1 ELSE acc.k + 1
                leap == D.max > 0 /\ D.rows[i].seqno # acc.seqno
            IN  [at |-> Append(acc.at, <<acc.j + 1, i>>),
                 j |-> IF leap THEN j1 + nchans - k1 + 1 ELSE j1,
                 k |-> IF leap THEN 1 ELSE k1,
                 seqno |-> IF leap THEN D.rows[i].seqno ELSE acc.seqno]
    IN  FoldLeft(step, [at |-> <<>>, j |-> 0, k |-> 1, seqno |-> D.rows[1].seqno],
                 Positions(D.rows, LAMBDA i : D.rows[i].varno \in Range(varnos))).at

\* The rows of an order one after the other: n of them, or all.
orderSlots(order, n) == [j \in 1 .. n |-> <<j, IF j <= Len(order) THEN order[j] ELSE 0>>]

\* An array of the given size with the values at their slots, the later over the
\* earlier.
fillSlots(D, col, size, slots) ==
    LET last(k) == {s \in DOMAIN slots : slots[s][1] = k}
    IN  IF \E s \in DOMAIN slots : slots[s][1] > size \/ slots[s][2] = 0
        THEN Undefined
        ELSE Done([k \in 1 .. size |->
                IF last(k) = {} THEN Missing
                ELSE D.rows[slots[CHOOSE s \in last(k) : \A t \in last(k) : t <= s][2]].c[col]])

\* a: the varnos and the numbers of channels, all and used.
columnOf(D, col, a, order, total) ==
    LET byOrder == D.group \in {"surface", "aircraft"}
    IN  fillSlots(D, col,
            IF byOrder THEN D.nmeta
            ELSE IF a.nchans = 1 THEN Len(order)
            ELSE IF a.nchans > 1 THEN a.nchans * D.nmeta ELSE total,
            IF a.nchans # 1 THEN channelSlots(D, a.varnos, a.nchans, a.nactual)
            ELSE orderSlots(order, IF byOrder THEN total ELSE Len(order)))

getVarnoColumn(D, col, a) ==
    columnOf(D, col, a, varnoIndexOrder(D, a.varnos),
             FoldLeft(LAMBDA n, v : n + numberOfRowsForVarno(D, v), 0, a.varnos))

-----------------------------------------------------------------------------
(* The shape of the ioda variables.                                        *)

\* The varnos whose levels make up the Channel dimension, per group.
channelVarnos(group) ==
    CASE group \in {"iasi", "cris", "hiras"} -> <<"rawsca">>
      [] group = "atovs" -> <<"rawbt_amsu">>
      [] group = "amsr" -> <<"rawbt", "rawbt_amsr_89ghz">>
      [] group \in {"abiclr", "ahiclr", "airs", "atms", "gmihigh", "gmilow", "mwri",
                    "seviriclr", "ssmis"} -> <<"rawbt">>
      [] group = "mwsfy3" -> <<"rawbt_mwts", "rawbt_mwhs">>
      [] group \in {"geocloud", "surfacecloud"} -> <<"cloud_fraction_covered">>
      [] group = "scatwind" -> <<"dd">>
      [] group = "gnssro" -> <<"bending_angle">>
      [] OTHER -> <<>>

\* Location, and Channel for the groups that have one.
getVertcos(D) ==
    LET vs == channelVarnos(D.group)
        levels == FoldLeft(LAMBDA n, v : n + numberOfLevels(D, v), 0, vs)
    IN  IF vs = <<>> \/ (D.group = "gnssro" /\ D.max = 0)
        THEN [Location |-> D.nmeta]
        ELSE [Location |-> D.nmeta, Channel |-> levels]

\* Opening the Channel scale of a group that has none throws.
getVarnoDependentVariableDimensionScales(D, v) ==
    LET clouds == D.group \in {"geocloud", "surfacecloud"}
        n == numberOfLevels(D, IF clouds THEN "cloud_fraction_covered" ELSE v)
    IN  CASE n = 0 -> Done(<<>>)
          [] n = 1 /\ ~clouds -> Done(<<"Location">>)
          [] OTHER -> IF "Channel" \in DOMAIN getVertcos(D)
                      THEN Done(<<"Location", "Channel">>) ELSE Thrown

\* A variable of the hyperspectral sounders read without the skip of unused channels.
getVarnoColumnCallArguments_NoSkip(D, v) ==
    [varnos |-> IF D.group \in {"amsr", "mwsfy3"} THEN channelVarnos(D.group) ELSE <<v>>,
     nchans |-> IF D.group \in {"cris", "hiras", "iasi", "geocloud", "surfacecloud", "gnssro"}
                THEN numberOfLevels(D, channelVarnos(D.group)[1]) ELSE 1,
     nactual |-> IF D.group \in {"cris", "hiras", "iasi", "geocloud", "surfacecloud", "gnssro"}
                 THEN numberOfLevels(D, channelVarnos(D.group)[1]) ELSE 1]

getVarnoColumnCallArguments(D, v) ==
    LET several == D.group \in {"cris", "hiras", "iasi", "geocloud", "surfacecloud", "gnssro"}
    IN  [varnos |-> IF D.group \in {"amsr", "mwsfy3"} THEN channelVarnos(D.group) ELSE <<v>>,
         nchans |-> IF several THEN numberOfLevels(D, channelVarnos(D.group)[1]) ELSE 1,
         nactual |-> IF several THEN numberOfLevels(D, v) ELSE 1]

Extents(D, scales) == [k \in DOMAIN scales |-> getVertcos(D)[scales[k]]]

Points(dims) == FoldLeft(LAMBDA a, b : a * b, 1, dims)

\* Writing more values than the variable has points throws; with fewer, the rest
\* keeps the fill value, which is Missing.
writeVariable(dims, values) ==
    IF Len(values) > Points(dims) THEN Thrown
    ELSE Done([dims |-> dims, n |-> Len(values),
               data |-> values \o [k \in 1 .. Points(dims) - Len(values) |-> Missing]])

NoVariable == [dims |-> <<>>, n |-> 0, data |-> <<>>]

createVarnoDependentIodaVariable(D, col, v) ==
    AndThen(getVarnoDependentVariableDimensionScales(D, v), LAMBDA scales :
        IF scales = <<>> THEN Done(NoVariable)
        ELSE AndThen(getVarnoColumn(D, col, getVarnoColumnCallArguments(D, v)),
                     LAMBDA values : writeVariable(Extents(D, scales), values)))

createVarnoIndependentIodaVariable(D, col, type) ==
    LET written(values) == writeVariable(<<D.nmeta>>, values)
    IN  IF type = "string" THEN written(getMetadataStringColumn(D, col))
        ELSE AndThen(getNumericMetadataColumn(D, col), written)

-----------------------------------------------------------------------------
(* Bitfields.  The value of a bitfield column is the set of its bits.      *)

\* Every member starts one bit behind the one before it.
memberStart_OneBit(bitfield, m) == m - 1

\* setData: members lie one after the other from bit 0.
memberStart(bitfield, m) ==
    FoldLeft(LAMBDA n, k : n + bitfield[k].size, 0, [k \in 1 .. m - 1 |-> k])

\* The missing integer, 2^31 - 1.
MissingBits == 0 .. 30

\* One flag variable per selected member; a member of several bits throws.
createMemberVariables(bitfield, members, values) ==
    LET mine == Positions(bitfield, LAMBDA m : bitfield[m].name \in members)
        flag(m, bits) == IF bits # MissingBits /\ memberStart(bitfield, m) \in bits THEN 1 ELSE 0
    IN  IF \E k \in DOMAIN mine : bitfield[mine[k]].size # 1 THEN Thrown
        ELSE Done([k \in DOMAIN mine |->
                    [member |-> bitfield[mine[k]].name,
                     data |-> [loc \in DOMAIN values |-> flag(mine[k], values[loc])]]])

-----------------------------------------------------------------------------
(* Channel numbers.                                                        *)

\* Numbers that are counted although the file has them.
assignChannelNumbers_Counted(D, v) == Done([k \in 1 .. numberOfLevels(D, v) |-> k])

\* The vertical coordinates of the first location.
assignChannelNumbers(D, v) ==
    LET n == numberOfLevels(D, v)
        firstOnes(values) == IF Len(values) < n THEN Undefined ELSE Done(SubSeq(values, 1, n))
    IN  AndThen(getVarnoColumn(D, "vertco", [varnos |-> <<v>>, nchans |-> n, nactual |-> n]), firstOnes)

assignChannelNumbersSeq(D, varnos) ==
    LET n == FoldLeft(LAMBDA k, v : k + numberOfLevels(D, v), 0, varnos)
        base == CASE D.group \in {"abiclr", "ahiclr"} -> 7
                  [] D.group = "gmihigh" -> 10
                  [] OTHER -> 1
    IN  [k \in 1 .. n |-> base + k - 1]

\* The Channel scale is filled when the column of vertical coordinates is met.
channelNumbers(D) ==
    LET vs == channelVarnos(D.group)
        scale(values) == IF "Channel" \notin DOMAIN getVertcos(D) THEN Thrown
                         ELSE writeVariable(<<getVertcos(D).Channel>>, values)
    IN  IF D.group \in {"airs", "iasi", "cris", "hiras"}
        THEN AndThen(assignChannelNumbers(D, vs[1]), scale)
        ELSE IF vs = <<>> \/ D.group = "geocloud" THEN Done(NoVariable)
        ELSE scale(assignChannelNumbersSeq(D, vs))

-----------------------------------------------------------------------------
(* Station identifiers.  An identifier is a sequence of characters.        *)

\* Numbers are written as they are.
digits_Plain(n, width) ==
    LET some == {k \in 1 .. width : 10 ^ (k - 1) <= n}
    IN  [k \in 1 .. Cardinality(some) |-> (n \div 10 ^ (Cardinality(some) - k)) % 10]

\* A number in the given width, filled up with zeros; wider if it does not fit.
digits(n, width) ==
    LET wide == {k \in width + 1 .. 9 : 10 ^ (k - 1) <= n}
        len == width + Cardinality(wide)
    IN  [k \in 1 .. len |-> (n \div 10 ^ (len - k)) % 10]

odb_missing_string == [k \in 1 .. 15 |-> "*"]

getStationIDs(group, loc) ==
    CASE group = "sonde" /\ loc.block # Missing /\ loc.station # Missing ->
            digits(loc.block, 2) \o digits(loc.station, 3)
      [] group = "oceansound" /\ loc.argo # Missing -> digits(loc.argo, 8)
      [] group = "oceansound" /\ loc.argo = Missing /\ loc.buoy # Missing -> digits(loc.buoy, 8)
      [] OTHER -> IF loc.statid # <<>> THEN loc.statid ELSE odb_missing_string

-----------------------------------------------------------------------------
(* The operations the properties are about.                                *)

importVarno(q) ==
    AndThen(select(q), LAMBDA D : createVarnoDependentIodaVariable(D, "val", q.v))

importMetadata(q) ==
    AndThen(select(q), LAMBDA D : createVarnoIndependentIodaVariable(D, "meta", q.type))

importChannels(q) == AndThen(select(q), channelNumbers)

importMembers(q) == createMemberVariables(q.bitfield, q.members, q.values)

importStations(q) == Done([k \in DOMAIN q.locs |-> getStationIDs(q.group, q.locs[k])])

-----------------------------------------------------------------------------
(* Properties.                                                             *)

reports(rows) == LET starts == locationStarts(rows, 0)
                 IN  [r \in DOMAIN starts |-> rows[starts[r]].seqno]

rowsOf(rows, seqno, varnos) ==
    FlattenSeq([k \in DOMAIN varnos |->
        SelectSeq(rows, LAMBDA r : r.seqno = seqno /\ r.varno = varnos[k])])

\* Every report has as many rows of v as the first one, and at least one.
Regular(q, v) ==
    \A s \in Range(reports(q.rows)) :
        /\ Len(rowsOf(q.rows, s, <<v>>)) > 0
        /\ Len(rowsOf(q.rows, s, <<v>>)) = Len(rowsOf(q.rows, q.rows[1].seqno, <<v>>))

\* In a file whose reports all have the same rows, the value at a location and a
\* channel is the one of that report and channel: the counts, index orders and skips
\* of DataFromSQL put the n-th row of a report's varnos at its n-th channel, fill
\* the unused channels of a hyperspectral sounder with missing values, and for
\* profiles put every level at its own location.
VarnoValuesInPlace ==
    call.op = "varno" /\ out # Pending /\ call.q.rows # <<>> =>
        LET q == call.q
            rs == reports(q.rows)
            combined == IF q.group \in {"amsr", "mwsfy3"} THEN channelVarnos(q.group) ELSE <<q.v>>
            mine(r) == rowsOf(q.rows, rs[r], combined)
            channels == IF channelVarnos(q.group) = <<>> THEN 1
                        ELSE Len(rowsOf(q.rows, rs[1], channelVarnos(q.group)))
            n == Len(mine(1))
            width == Len(out.val.data) \div Len(rs)
            fits == /\ IF q.group \in {"iasi", "surfacecloud"} THEN n > 1 \/ channels = 1
                       ELSE n = channels
                    /\ Len(combined) > 1 => Len(rowsOf(q.rows, rs[1], <<q.v>>)) > 1
        IN  q.max = 0 /\ ~q.truncate /\ (\A v \in Range(q.varnos) : Regular(q, v)) =>
            IF q.group \in {"sonde", "gnssro"}
            THEN (\A v \in Range(q.varnos) : numberOfRowsForVarno(q, v) = numberOfRowsForVarno(q, q.v)) =>
                    out.state = "done" /\ out.val.data =
                        [k \in 1 .. Len(varnoRows(q, q.v)) |-> q.rows[varnoRows(q, q.v)[k]].c.val]
            ELSE fits /\ n <= channels =>
                    /\ out.state = "done"
                    /\ \A r \in DOMAIN rs, c \in 1 .. width :
                        out.val.data[(r - 1) * width + c] =
                            IF c <= n THEN mine(r)[c].c.val ELSE Missing

\* The metadata of a location come from the rows of its own report, and are the
\* first value there that is not missing as long as no location before it was left
\* without a value.
MetadataOfOwnReport ==
    Returned("metadata") /\ call.q.group \notin {"sonde", "gnssro"} /\ call.q.max = 0 =>
        LET q == call.q
            rs == reports(q.rows)
            metas(r) == LET own == rowsOf(q.rows, rs[r], q.varnos)
                        IN  {own[k].c.meta : k \in DOMAIN own}
            first(r) == LET own == SelectSeq(q.rows, LAMBDA x : x.seqno = rs[r] /\ x.c.meta # Missing)
                        IN  IF own = <<>> THEN Missing ELSE own[1].c.meta
        IN  \A r \in DOMAIN rs :
                /\ out.val.data[r] \in metas(r)
                /\ (\A e \in 1 .. r - 1 : first(e) # Missing) => out.val.data[r] = first(r)

\* Truncation to the reported number of levels keeps, of every varno of every
\* profile, the first numlev levels and no other, whatever the order in which the
\* query lists the varnos, when the file has all levels of all varnos.
TruncatedToReported ==
    Returned("select") /\ call.q.truncate /\ call.q.group = "sonde"
    /\ (\A v, w \in Range(call.q.varnos) :
            Regular(call.q, v) /\ numberOfRowsForVarno(call.q, v) = numberOfRowsForVarno(call.q, w)) =>
        \A s \in Range(reports(call.q.rows)), v \in Range(call.q.varnos) :
            LET before == rowsOf(call.q.rows, s, <<v>>)
                numlev == before[1].numlev
            IN  rowsOf(out.val.rows, s, <<v>>) =
                    SubSeq(before, 1, IF numlev < Len(before) THEN numlev ELSE Len(before))

\* assignChannelNumbers, assignChannelNumbersSeq: in a file whose reports all have
\* the same rows every point of the Channel scale gets a number, no number is given
\* twice, and for the sounders the number of a channel is the vertical coordinate
\* of the row that every location has at that channel.
ChannelsNumbered ==
    call.op = "channels" /\ out # Pending /\ call.q.rows # <<>> /\ call.q.max = 0
    /\ (\A v \in Range(call.q.varnos) : Regular(call.q, v)) /\ channelVarnos(call.q.group) # <<>>
    /\ call.q.group # "gnssro" =>
        LET rs == reports(call.q.rows)
            vs == channelVarnos(call.q.group)
        IN  /\ out.state = "done"
            /\ out.val.n = out.val.dims[1]
            /\ IsInjective(out.val.data)
            /\ call.q.group = "iasi" => \A r \in DOMAIN rs :
                 LET mine == rowsOf(call.q.rows, rs[r], vs)
                 IN  out.val.data = [k \in DOMAIN mine |-> mine[k].c.vertco]

\* createVarnoIndependentIodaVariables: the flag variable of a member holds what was
\* packed into that member at every location, whichever members are asked for and
\* however wide the members before it are.
MembersUnpacked ==
    Returned("members") =>
        \A k \in DOMAIN out.val : \A m \in DOMAIN call.q.bitfield :
            call.q.bitfield[m].name = out.val[k].member =>
                out.val[k].data = [loc \in DOMAIN call.q.packed |-> call.q.packed[loc][m][1]]

\* getStationIDs: two soundings, or two ocean profiles, get the same identifier only
\* if they come from the same station, as long as the numbers have the widths the
\* code fills up to and the texts are not made of digits.
StationsToldApart ==
    Returned("stations") =>
        \A i, j \in DOMAIN out.val :
            out.val[i] = out.val[j] =>
                LET key(loc) == IF call.q.group = "sonde"
                                THEN IF loc.block # Missing /\ loc.station # Missing
                                     THEN <<loc.block, loc.station>> ELSE loc.statid
                                ELSE IF loc.argo # Missing THEN <<loc.argo>>
                                ELSE IF loc.buoy # Missing THEN <<loc.buoy>> ELSE loc.statid
                IN  key(call.q.locs[i]) = key(call.q.locs[j])

\* DataFromSQL infers locations and channels from changes and counts, and every
\* value still stands at the location of its own report, under the number of its
\* channel: observed values, metadata, channel numbers, and truncated profiles.
ReportsInPlace ==
    VarnoValuesInPlace /\ MetadataOfOwnReport /\ ChannelsNumbered /\ TruncatedToReported
=============================================================================
