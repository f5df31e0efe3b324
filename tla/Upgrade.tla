------------------------------ MODULE Upgrade ------------------------------
(***************************************************************************)
(* The two programs that bring old files up to date.                       *)
(*                                                                         *)
(* ioda-upgrade-v1-to-v2 gathers the variables of one quantity, one per    *)
(* channel, into a variable with a channel dimension; it tells them by     *)
(* their names.  A name is [meta, s]: whether it lies in a MetaData group, *)
(* and its characters.  The values of a variable are its name.             *)
(*                                                                         *)
(* ioda-upgrade-v2-to-v3 renames variables and dimensions and turns the    *)
(* three ways to store the time of an observation into one.                *)
(***************************************************************************)
EXTENDS OdbDates

-----------------------------------------------------------------------------
(* v1 to v2: names.                                                        *)

Digits == {"1", "2"}
Digit(c) == IF c = "1" THEN 1 ELSE 2
CharRank(c) == CASE c = "1" -> 1 [] c = "2" -> 2 [] c = "_" -> 3 [] c = "a" -> 4 [] c = "b" -> 5

NoPos == 0
LastOf(S) == CHOOSE k \in S : \A j \in S : j <= k

NameLess(m, n) ==
    LET differ == {k \in DOMAIN m.s \cap DOMAIN n.s : m.s[k] # n.s[k]}
        k == CHOOSE j \in differ : \A i \in differ : j <= i
    IN  IF m.meta # n.meta THEN m.meta
        ELSE IF differ = {} THEN Len(m.s) < Len(n.s)
        ELSE CharRank(m.s[k]) < CharRank(n.s[k])

\* The underscore before a channel number; also a last underscore with nothing
\* behind it.
getChanSuffixPos(s) ==
    LET bars == {k \in DOMAIN s : s[k] = "_"}
    IN  IF bars = {} \/ \E k \in LastOf(bars) + 1 .. Len(s) : s[k] \notin Digits
        THEN NoPos ELSE LastOf(bars)

\* atoi: the number at the front, 0 if there is none.
atoi(s) ==
    LET stop == {k \in DOMAIN s : s[k] \notin Digits}
        n == IF stop = {} THEN Len(s) ELSE (CHOOSE k \in stop : \A j \in stop : k <= j) - 1
    IN  FoldLeft(LAMBDA acc, c : 10 * acc + Digit(c), 0, SubSeq(s, 1, n))

stem(s) == IF getChanSuffixPos(s) = NoPos THEN s ELSE SubSeq(s, 1, getChanSuffixPos(s) - 1)

\* A name without a suffix is its own number, which is 0 for a letter.
suffixNumber(s) == atoi(SubSeq(s, getChanSuffixPos(s) + 1, Len(s)))

HasDigit(s) == Range(s) \cap Digits # {}

varsAreSimilar(m, n) ==
    /\ ~m.meta /\ ~n.meta
    /\ IF ~HasDigit(m.s) /\ ~HasDigit(n.s) THEN m.s = n.s ELSE stem(m.s) = stem(n.s)

\* A second range with the same stem takes the place of the first.
collect(acc, range) ==
    LET first == range[1]
        byNumber == SetToSortSeq(DOMAIN range, LAMBDA i, j :
                        \/ suffixNumber(range[i].s) < suffixNumber(range[j].s)
                        \/ suffixNumber(range[i].s) = suffixNumber(range[j].s) /\ i < j)
        sorted == [k \in DOMAIN byNumber |-> range[byNumber[k]]]
    IN  IF Len(range) = 1 /\ (first.meta \/ getChanSuffixPos(first.s) = NoPos)
        THEN [acc EXCEPT !.dissimilar = Append(@, first)]
        ELSE [acc EXCEPT !.similar = (stem(first.s) :> sorted) @@ @]

\* A name joins the range before it, or ends it and begins one.
joinOrCollect(acc, name) ==
    IF varsAreSimilar(acc.range[1], name)
    THEN [acc EXCEPT !.range = Append(@, name)]
    ELSE [range |-> <<name>>, found |-> collect(acc.found, acc.range)]

rangesOf(sorted) ==
    FoldLeft(joinOrCollect,
             [range |-> <<sorted[1]>>, found |-> [similar |-> <<>>, dissimilar |-> <<>>]], Tail(sorted))

collectLast(acc) == collect(acc.found, acc.range)

\* The last range is collected when its last name is met: a list of one name has
\* no range at all.
identifySimilarVariables(names) ==
    IF Cardinality(Range(names)) = 1 THEN [similar |-> <<>>, dissimilar |-> <<>>]
    ELSE collectLast(rangesOf(SetToSortSeq(Range(names), NameLess)))

-----------------------------------------------------------------------------
(* v1 to v2: the channel dimension and the values.                         *)

\* The first of the largest groups, in the order of the stems.
chanTemplate(similar) ==
    LET larger(a, b) ==
            \/ Len(similar[a]) > Len(similar[b])
            \/ Len(similar[a]) = Len(similar[b])
               /\ NameLess([meta |-> FALSE, s |-> a], [meta |-> FALSE, s |-> b])
    IN  similar[SetToSortSeq(DOMAIN similar, larger)[1]]

\* What stands two characters behind the last letter: the number after a suffix,
\* but another one when the stem itself ends in a digit.
channelOf(s) ==
    LET letters == {k \in DOMAIN s : s[k] \in {"a", "b"}}
        from == (IF letters = {} THEN 0 ELSE LastOf(letters)) + 2
    IN  IF from > Len(s) + 1 THEN Thrown ELSE Done(atoi(SubSeq(s, from, Len(s))))

\* Puts the i-th variable of a group at index i.
chanIndexOf_Order(nchans, base, group, i) == Done(i)

\* The index of a variable's channel number; std::stoi and map::at throw.
chanIndexOf(nchans, base, group, i) ==
    LET s == group[i].s
        suffix == SubSeq(s, Len(base) + 2, Len(s))
        hits == {k \in DOMAIN nchans : nchans[k] = atoi(suffix)}
    IN  IF suffix = <<>> \/ suffix[1] \notin Digits \/ hits = {} THEN Thrown
        ELSE Done(LastOf(hits))

Fill == [meta |-> FALSE, s |-> <<>>]

\* Every numeric variable of a group is written at its channel.  UpgradeFiles has
\* what is done to strings.
copyData(nchans, base, group) ==
    LET write(acc, i) ==
            AndThen(acc, LAMBDA data : AndThen(chanIndexOf(nchans, base, group, i),
                         LAMBDA c : Done([data EXCEPT ![c] = group[i]])))
    IN  IF Len(group) = 1 THEN Done(group)
        ELSE FoldLeft(write, Done([c \in DOMAIN nchans |-> Fill]), [i \in DOMAIN group |-> i])

\* The results of a loop whose body throws when one of them does.
AllDone(results) ==
    IF \E k \in DOMAIN results : results[k] = Thrown THEN Thrown
    ELSE Done([k \in DOMAIN results |-> results[k].val])

channelsOf(template) == AllDone([k \in DOMAIN template |-> channelOf(template[k].s)])

identify(q) ==
    IF q.groupSimilarVariables THEN identifySimilarVariables(q.names)
    ELSE [similar |-> <<>>, dissimilar |-> q.names]

regroup(found) ==
    IF DOMAIN found.similar = {}
    THEN Done([nchans |-> <<>>, plain |-> found.dissimilar, grouped |-> <<>>])
    ELSE AndThen(channelsOf(chanTemplate(found.similar)), LAMBDA nchans :
         AndThen(AllDone([b \in DOMAIN found.similar |-> copyData(nchans, b, found.similar[b])]),
                 LAMBDA grouped :
                    Done([nchans |-> nchans, plain |-> found.dissimilar, grouped |-> grouped])))

upgradeV1toV2(q) == regroup(identify(q))

\* The characters behind a NUL are kept.
repackStrings_NoCut(chars, width) ==
    LET trim(s) == LET ink == {c \in DOMAIN s : s[c] # " "}
                   IN  IF ink = {} THEN <<>> ELSE SubSeq(s, 1, LastOf(ink))
    IN  [k \in 1 .. Len(chars) \div width |-> trim(SubSeq(chars, (k - 1) * width + 1, k * width))]

\* Old strings are arrays of characters.  They are put together row by row, cut
\* at a NUL and trimmed at the end.
repackStrings(chars, width) ==
    LET row(k) == [c \in 1 .. width |-> chars[(k - 1) * width + c]]
        cut(s) == LET nul == {c \in DOMAIN s : s[c] = "NUL"}
                  IN  IF nul = {} THEN s
                      ELSE SubSeq(s, 1, (CHOOSE c \in nul : \A d \in nul : c <= d) - 1)
        trim(s) == LET ink == {c \in DOMAIN s : s[c] # " "}
                   IN  IF ink = {} THEN <<>> ELSE SubSeq(s, 1, LastOf(ink))
    IN  [k \in 1 .. Len(chars) \div width |-> trim(cut(row(k)))]

-----------------------------------------------------------------------------
(* v2 to v3.  A path is <<group, variable>> or <<variable>>.               *)

renameDimension(n) == CASE n = "nlocs" -> "Location" [] n = "nchans" -> "Channel" [] OTHER -> n

\* Every name of an entry but the first is an old name of the first.
getOldNewNameMap(entries) ==
    LET one(map, names) == [n \in Range(names) \ {names[1]} |-> names[1]] @@ map
    IN  FoldLeft(one, <<>>, entries)

getNewNamingConventionsName(path, lookup) ==
    LET var == path[Len(path)]
        group == IF path[1] = "VarMetaData" THEN "MetaData" ELSE path[1]
        new == IF var \in DOMAIN lookup THEN lookup[var] ELSE var
    IN  IF DOMAIN lookup = {} THEN path
        ELSE IF Len(path) = 1 THEN <<new>> ELSE <<group, new>>

DateTimePath == <<"MetaData", "dateTime">>
StringPath == <<"MetaData", "datetime">>
OffsetPath == <<"MetaData", "time">>

\* Prefers the offsets to the strings.
dateTimeStyle_OffsetFirst(paths) ==
    CASE DateTimePath \in paths -> "epoch"
      [] OffsetPath \in paths -> "offset"
      [] StringPath \in paths -> "string"
      [] OTHER -> "none"

dateTimeStyle(paths) ==
    CASE DateTimePath \in paths -> "epoch"
      [] DateTimePath \notin paths /\ StringPath \in paths -> "string"
      [] paths \cap {DateTimePath, StringPath} = {} /\ OffsetPath \in paths -> "offset"
      [] OTHER -> "none"

\* lround, of a number of half seconds.
lround(halves) == IF halves >= 0 THEN (halves + 1) \div 2 ELSE -((1 - halves) \div 2)

\* The epoch of the new variable: 1970 for strings, the attribute date_time
\* (yyyymmddhh) for offsets.
newEpoch(style, dateTimeAtt) ==
    IF style = "string" THEN dateTimeOf(1970, 1, 1, 0)
    ELSE LET rest == dateTimeAtt % 1000000
         IN  dateTimeOf(dateTimeAtt \div 1000000, rest \div 10000, (rest % 10000) \div 100,
                        (rest % 100) * 3600)

convertDtStringsToTimeOffsets(epoch, times) ==
    [k \in DOMAIN times |-> secondsBetween(times[k], epoch)]

newOffsets(style, epoch, data) ==
    IF style = "string" THEN convertDtStringsToTimeOffsets(epoch, data)
    ELSE [k \in DOMAIN data |-> lround(data[k])]

\* q.scales: name, whether a variable uses it, its values.  q.vars: path to dims and
\* data.  The file is written before the channel numbers are: they are read from
\* any scale of that name and written only if it was one in use.
upgradeV2toV3(q) ==
    LET used == SelectSeq(q.scales, LAMBDA s : s.used)
        newdims == [k \in DOMAIN used |-> renameDimension(used[k].name)]
        chans == SelectSeq(q.scales, LAMBDA s : s.name \in {"Channel", "nchans"} /\ s.data # <<>>)
        style == dateTimeStyle(DOMAIN q.vars)
        copied == DOMAIN q.vars \ {StringPath, OffsetPath}
        name == [p \in copied |-> getNewNamingConventionsName(p, q.lookup)]
        made == {name[p] : p \in copied}
        converts == style \in {"string", "offset"}
        epoch == newEpoch(style, q.date_time)
        old == IF style = "string" THEN StringPath ELSE OffsetPath
        moved == [n \in made |->
                    LET p == CHOOSE x \in copied : name[x] = n
                    IN  [q.vars[p] EXCEPT !.dims = [d \in DOMAIN @ |-> renameDimension(@[d])]]]
        times == DateTimePath :> [dims |-> <<"Location">>, epoch |-> epoch,
                                  data |-> newOffsets(style, epoch, q.vars[old].data)]
    IN  IF \/ ~IsInjective(newdims)
           \/ Cardinality(made) < Cardinality(copied)
           \/ converts /\ (DateTimePath \in made \/ "Location" \notin Range(newdims))
           \/ chans # <<>> /\ "Channel" \notin Range(newdims)
        THEN Thrown
        ELSE Done([dims |-> newdims, channels |-> IF chans = <<>> THEN <<>> ELSE chans[1].data,
                   vars |-> IF converts THEN times @@ moved ELSE moved])

-----------------------------------------------------------------------------
(* Properties.                                                             *)

\* The names the upgrade is meant for: the stem of a channel variable ends in a
\* letter and is not itself a variable, nothing sorts between the channels of a
\* quantity, and the largest group has all the channels.
Groupable(names) ==
    LET data == {n \in Range(names) : ~n.meta}
        channels == {n \in data : getChanSuffixPos(n.s) # NoPos}
        numbers(b) == {suffixNumber(n.s) : n \in {m \in channels : stem(m.s) = b}}
        stems == {stem(n.s) : n \in channels}
    IN  /\ \A n \in channels : /\ stem(n.s) # <<>> /\ stem(n.s)[Len(stem(n.s))] \in {"a", "b"}
                               /\ getChanSuffixPos(n.s) < Len(n.s)
        /\ \A n \in data : n.s \notin stems
        /\ \A m, n \in channels, x \in data :
              stem(m.s) = stem(n.s) /\ NameLess(m, x) /\ NameLess(x, n) => stem(x.s) = stem(m.s)
        /\ \A b \in stems : \/ Cardinality(numbers(b)) = 1
                            \/ \E c \in stems : /\ numbers(b) \subseteq numbers(c)
                                                /\ \A d \in stems :
                                                     Cardinality(numbers(d)) <= Cardinality(numbers(c))
                                                /\ \A d \in stems : numbers(d) # numbers(c) =>
                                                     Cardinality(numbers(d)) < Cardinality(numbers(c))

\* A file of one variable: identifySimilarVariables collects nothing from it.
LoneVariable(names) == Cardinality(names) = 1

\* upgradeFile (v1 to v2) loses no numeric variable, but for the only one of a file
\* when grouping is on: each one is in the new file once, by itself, or in the
\* group of its stem at the index that nchans gives its channel number, whatever
\* the lengths of the numbers and however many channels the other groups lack.
ChannelsKept ==
    call.op = "upgrade v1" /\ out # Pending /\ Groupable(call.q.names)
    /\ ~(call.q.groupSimilarVariables /\ LoneVariable(Range(call.q.names))) =>
        LET r == out.val
            places(n) == {<< <<>>, k>> : k \in {j \in DOMAIN r.plain : r.plain[j] = n}} \cup
                         {<<b, k>> \in (DOMAIN r.grouped) \X (DOMAIN r.nchans) :
                             k <= Len(r.grouped[b]) /\ r.grouped[b][k] = n}
        IN  /\ out.state = "done"
            /\ \A n \in Range(call.q.names) :
                /\ Cardinality(places(n)) = 1
                /\ \A p \in places(n) : p[1] # <<>> =>
                     p[1] = stem(n.s)
                     /\ (Len(r.grouped[p[1]]) > 1 => r.nchans[p[2]] = suffixNumber(n.s))

\* upgradeFile (v2 to v3): a file whose dimensions are all in use and whose new
\* names differ is upgraded, and the time of every observation is kept to the
\* second, from dateTime if the file has it, else from datetime, else from time.
\* The old variables are gone.
TimesKept ==
    call.op = "upgrade v2" /\ out # Pending =>
        LET q == call.q
            paths == DOMAIN q.vars
            times(vars, p) == [k \in DOMAIN vars[p].data |->
                                  plusSeconds(vars[p].epoch, vars[p].data[k])]
            names == {getNewNamingConventionsName(p, q.lookup) : p \in paths \ {StringPath, OffsetPath}}
            clean == /\ \A s \in Range(q.scales) : s.used
                     /\ Cardinality({renameDimension(s.name) : s \in Range(q.scales)}) = Len(q.scales)
                     /\ Cardinality(names) = Cardinality(paths \ {StringPath, OffsetPath})
                     /\ DateTimePath \in names => DateTimePath \in paths
                     /\ \E s \in Range(q.scales) : renameDimension(s.name) = "Location"
        IN  /\ clean => out.state = "done"
            /\ out.state = "done" =>
                /\ {StringPath, OffsetPath} \cap DOMAIN out.val.vars = {}
                /\ CASE DateTimePath \in paths ->
                          times(out.val.vars, DateTimePath) = times(q.vars, DateTimePath)
                     [] DateTimePath \notin paths /\ StringPath \in paths ->
                          times(out.val.vars, DateTimePath) = q.vars[StringPath].data
                     [] paths \cap {DateTimePath, StringPath} = {} /\ OffsetPath \in paths ->
                          \A k \in DOMAIN q.vars[OffsetPath].data :
                             LET exact == 2 * secondsBetween(newEpoch("offset", q.date_time),
                                                             dateTimeOf(2000, 1, 1, 0))
                                          + q.vars[OffsetPath].data[k]
                                 got == 2 * secondsBetween(times(out.val.vars, DateTimePath)[k],
                                                           dateTimeOf(2000, 1, 1, 0))
                             IN  got - exact \in -1 .. 1
                     [] OTHER -> TRUE

\* The time of an observation is kept by every conversion that touches it: to the
\* second of the day through an ODB file, but for the move to the start of the
\* window, and to the second by the upgrade to v3.
ObservationTimesKept == TimeOfDaySurvives /\ WindowMovesForwardOnly /\ TimesKept
=============================================================================
