---------------------------- MODULE UpgradeFiles ----------------------------
(***************************************************************************)
(* What the two upgrade programs do to the structure of a file: dimension  *)
(* scales, shapes, chunks, attributes and old strings.  Upgrade.tla has    *)
(* the grouping of variables and the conversion of times.                  *)
(*                                                                         *)
(* A file has attributes, scales (name, len) and variables: a function     *)
(* from names (as in Upgrade) to [type, dims, scales, atts, chars, chunks].*)
(* The type "char" is a string of one byte, the way old files hold         *)
(* strings; chars are its elements, or those of a variable of strings.  A  *)
(* contiguous variable has no chunks.  The value of an attribute is a      *)
(* sequence.  The variables of a group have one type.                      *)
(***************************************************************************)
EXTENDS Upgrade

defaultChunkSize == 100
max_chunk_size == 6400

ProductOf(s) == FoldLeft(LAMBDA a, b : a * b, 1, s)
Front1(s) == SubSeq(s, 1, Len(s) - 1)

\* Applied last: what it puts in for a zero may make the chunk too large again.
checkAdjustChunkSizes(chunks, new) == [i \in DOMAIN chunks |-> IF chunks[i] = 0 THEN new ELSE chunks[i]]

\* Halves the last dimension even if it is 1 by now.
halve_Last(c) == [c EXCEPT ![Len(c)] = @ \div 2]

\* One round of the loop: the last dimension that is not 1 is halved.
halve(c) ==
    LET d == LastOf({i \in DOMAIN c : c[i] # 1})
    IN  [c EXCEPT ![d] = @ \div 2]

\* MaxRounds rounds are enough for 6400 * 2^MaxRounds elements.
MaxRounds == 14
chunksOf(dims) ==
    LET round(c, k) == IF ProductOf(c) > max_chunk_size THEN halve(c) ELSE c
    IN  checkAdjustChunkSizes(FoldLeft(round, dims, [k \in 1 .. MaxRounds |-> k]), defaultChunkSize)

ignored_names ==
    {"CLASS", "DIMENSION_LIST", "NAME", "REFERENCE_LIST", "_Netcdf4Coordinates", "_Netcdf4Dimid", "_nc3_strict"}

\* The later source replaces what the earlier one gave.
copyAttributes_Replace(src, dest) ==
    [n \in DOMAIN src \ ignored_names |-> src[n]] @@ dest

\* What the destination has is kept.  An attribute without elements becomes one
\* with a null byte.
copyAttributes(src, dest) ==
    dest @@ [n \in DOMAIN src \ ignored_names |-> IF src[n] = <<>> THEN <<"NUL">> ELSE src[n]]

\* The second program has the same text.
copyAttributes_v3(src, dest) == copyAttributes(src, dest)

attachedDims(file) == UNION {Range(file.vars[n].scales) : n \in DOMAIN file.vars}

-----------------------------------------------------------------------------
(* v1 to v2.                                                               *)

newDims(file, nchans) ==
    LET kept == SelectSeq(file.scales, LAMBDA d :
                    d.name \in attachedDims(file) /\ ~(d.name = "nchans" /\ nchans > 0))
    IN  IF nchans > 0 THEN Append(kept, [name |-> "nchans", len |-> nchans]) ELSE kept

isString(v) == v.type \in {"char", "string"}

\* Strings of one byte lose their last dimension if they have two or more, and are
\* chunked by what is left.  Other strings keep the chunks they are given, and
\* strings that were contiguous are contiguous.
makeNewVar(v, dims, chunks) ==
    LET short == v.type = "char" /\ Len(dims) > 1
        d == IF short THEN Front1(dims) ELSE dims
    IN  [type |-> IF isString(v) THEN "string" ELSE v.type, dims |-> d, atts |-> <<>>, scales |-> <<>>,
         chunks |-> IF ~isString(v) THEN chunksOf(d)
                    ELSE IF v.chunks = <<>> THEN <<>>
                    ELSE checkAdjustChunkSizes(IF short THEN d ELSE chunks, defaultChunkSize)]

\* The scale of the length of the strings is attached like the others.
scalesFor_All(v, scales) == scales

scalesFor(v, scales) == IF v.type = "char" THEN Front1(scales) ELSE scales

\* The elements as they are read; a NUL ends a string.
stringsOf(v) ==
    IF v.type = "char" THEN [k \in DOMAIN v.chars |-> IF v.chars[k] = "NUL" THEN <<>> ELSE <<v.chars[k]>>]
    ELSE v.chars

\* The strings of the new variable after those of v are written to it, by the shapes
\* of the two: all of them, or the first character of each put together by the
\* last dimension of v.  A write of fewer strings than the variable has reads
\* past their end.
writeStrings(v, new, was) ==
    LET read == stringsOf(v)
        first == [k \in DOMAIN read |-> IF read[k] = <<>> THEN "NUL" ELSE read[k][1]]
        width == v.dims[Len(v.dims)]
    IN  IF ProductOf(v.dims) = ProductOf(new.dims) THEN Done(read)
        ELSE IF v.dims = <<>> THEN Done(was)
        ELSE IF width = 0 \/ ProductOf(v.dims) \div width # ProductOf(new.dims) THEN Undefined
        ELSE Done(repackStrings(first, width))

\* Every variable of a group of strings is written to the whole new variable, the
\* later over the earlier.
copyStrings(old, new) ==
    FoldLeft(LAMBDA acc, v : AndThen(acc, LAMBDA was : IF isString(v) THEN writeStrings(v, new, was) ELSE acc),
             Done(<<>>), old)

ungroupedVar(v) ==
    [makeNewVar(v, v.dims, v.chunks) EXCEPT !.atts = copyAttributes(v.atts, @), !.scales = scalesFor(v, v.scales)]

\* The shape is that of the first variable and the channels; a group of one has
\* one.  The type asked about when scales are dropped is that of the new variable,
\* so that none is, although makeNewVar has shortened strings of one byte.
groupedVar(file, group, nchans) ==
    LET v == file.vars[group[1]]
        n == IF Len(group) > 1 THEN nchans ELSE 1
        atts == FoldLeft(LAMBDA acc, m : copyAttributes(file.vars[m].atts, acc), <<>>, group)
    IN  [makeNewVar(v, Append(v.dims, n), Append(v.chunks, nchans)) EXCEPT
            !.atts = atts, !.scales = Append(v.scales, "nchans")]

numChans(similar) == IF DOMAIN similar = {} THEN 0 ELSE Len(chanTemplate(similar))

\* The old variables a new one is made from.
madeFrom(groups, n) == IF n.s \in DOMAIN groups /\ ~n.meta THEN groups[n.s] ELSE <<n>>

\* All variables are made, then their scales attached, then their values copied.
\* attachDimensionScales refuses more scales than dimensions.
restructured(file, found, nchans) ==
    LET made == [n \in Range(found.dissimilar) |-> ungroupedVar(file.vars[n])]
                @@ [n \in {[meta |-> FALSE, s |-> b] : b \in DOMAIN found.similar} |->
                       groupedVar(file, found.similar[n.s], nchans)]
        old(n) == LET from == madeFrom(found.similar, n) IN [k \in DOMAIN from |-> file.vars[from[k]]]
        strings == [n \in DOMAIN made |-> copyStrings(old(n), made[n])]
    IN  IF \E n \in DOMAIN made : Len(made[n].scales) > Len(made[n].dims) THEN Thrown
        ELSE IF \E n \in DOMAIN made : strings[n] = Undefined THEN Undefined
        ELSE Done([scales |-> newDims(file, nchans), atts |-> copyAttributes(file.atts, <<>>),
                   vars |-> [n \in DOMAIN made |-> made[n] @@ [strings |-> strings[n].val]],
                   groups |-> found.similar])

upgradeStructure(file, found) == restructured(file, found, numChans(found.similar))

\* The program says how it is used, or upgrades the file.
mainV1toV2(q) ==
    IF Len(q.args) = 2 \/ (Len(q.args) = 3 /\ q.args[1] = "-n")
    THEN upgradeStructure(q.file, identify([groupSimilarVariables |-> Len(q.args) = 2,
                                            names |-> SetToSeq(DOMAIN q.file.vars)]))
    ELSE Thrown

-----------------------------------------------------------------------------
(* v2 to v3.                                                               *)

newDims_v3(file) ==
    LET kept == SelectSeq(file.scales, LAMBDA d : d.name \in attachedDims(file))
    IN  [k \in DOMAIN kept |-> [kept[k] EXCEPT !.name = renameDimension(@)]]

\* Strings of one byte are dropped a scale although their shape is kept.
newVar_v3(v) ==
    [type |-> v.type, dims |-> v.dims, chunks |-> chunksOf(v.dims), atts |-> copyAttributes_v3(v.atts, <<>>),
     scales |-> LET s == [i \in DOMAIN v.scales |-> renameDimension(v.scales[i])]
                IN  IF v.type = "char" THEN Front1(s) ELSE s]

\* The channel numbers are read whether or not a variable has channels, and
\* written to the new scale at the very end.
readChannelNumbers(file) == \E d \in Range(file.scales) : d.name \in {"Channel", "nchans"} /\ d.len > 0

upgradeStructure_v3(file) ==
    LET scales == newDims_v3(file)
        names == [k \in DOMAIN scales |-> scales[k].name]
    IN  IF ~IsInjective(names) \/ (readChannelNumbers(file) /\ "Channel" \notin Range(names)) THEN Thrown
        ELSE Done([scales |-> scales, atts |-> copyAttributes_v3(file.atts, <<>>), groups |-> <<>>,
                   vars |-> [n \in DOMAIN file.vars |-> newVar_v3(file.vars[n])]])

mainV2toV3(q) == IF Len(q.args) = 3 THEN upgradeStructure_v3(q.file) ELSE Thrown

-----------------------------------------------------------------------------
(* Properties.                                                             *)

Upgraded == Returned("upgrade v1 file") \/ Returned("upgrade v2 file")

Grouping == Len(call.q.args) = 2

\* What the first program cannot upgrade: it would gather strings of one byte, even
\* one variable of them, or two variables of strings with elements.
GathersStrings(file) ==
    \E m, n \in DOMAIN file.vars :
        /\ ~m.meta /\ ~n.meta /\ stem(m.s) = stem(n.s)
        /\ getChanSuffixPos(m.s) # NoPos /\ getChanSuffixPos(n.s) # NoPos
        /\ \/ file.vars[m].type = "char"
           \/ m # n /\ file.vars[m].type = "string" /\ ProductOf(file.vars[m].dims) > 0

\* A group of one variable has one channel and the scale of all; a variable that had
\* channels before others were grouped keeps its shape and gets the new scale; a
\* string of one byte with a single dimension, or left as it is by the second
\* program, has no scale for its last dimension.
Odd(n) ==
    \/ n.s \in DOMAIN out.val.groups /\ ~n.meta /\ Len(out.val.groups[n.s]) = 1
    \/ DOMAIN out.val.groups # {} /\ n \in DOMAIN call.q.file.vars
       /\ "nchans" \in Range(call.q.file.vars[n].scales)
    \/ n \in DOMAIN call.q.file.vars /\ call.q.file.vars[n].type = "char"
       /\ (call.op = "upgrade v2 file" \/ Len(call.q.file.vars[n].dims) = 1)

\* upgradeFile (both programs): a new variable has a scale for every dimension, of
\* that dimension's length and defined in the new file, whether it was copied,
\* grouped, or had the dimension of its strings' length removed.
NewScalesFit ==
    Upgraded => \A n \in DOMAIN out.val.vars : Odd(n) \/
        LET v == out.val.vars[n]
        IN  /\ Len(v.scales) = Len(v.dims)
            /\ \A i \in DOMAIN v.dims :
                  \E s \in Range(out.val.scales) : s.name = v.scales[i] /\ s.len = v.dims[i]

\* upgradeFile (both programs): chunks have the shape of the variable and at least one
\* element (strings may be contiguous), those of a numeric variable without a zero dimension at most max_chunk_size elements and no more
\* than the variable, and a variable that fits is one chunk.
NewChunksFit ==
    Upgraded => \A n \in DOMAIN out.val.vars :
        LET v == out.val.vars[n]
        IN  /\ \A i \in DOMAIN v.chunks : v.chunks[i] >= 1
            /\ v.chunks = <<>> \/ Len(v.chunks) = Len(v.dims)
            /\ v.type = "float" /\ 0 \notin Range(v.dims) =>
                 /\ ProductOf(v.chunks) <= max_chunk_size
                 /\ \A i \in DOMAIN v.dims : v.chunks[i] <= v.dims[i]
                 /\ ProductOf(v.dims) <= max_chunk_size => v.chunks = v.dims

\* upgradeFile (v1 to v2), of a file that does not gather strings: the upgrade
\* finishes, and every old variable is a variable of the new file or belongs to a
\* group that is one.  The only variable of a file is excepted, which grouping
\* drops.
VariablesKept ==
    LET file == call.q.file
    IN  call.op = "upgrade v1 file" /\ out # Pending /\ Len(call.q.args) > 1
        /\ ~(Grouping /\ GathersStrings(file)) =>
            /\ out.state = "done"
            /\ \/ Grouping /\ LoneVariable(DOMAIN file.vars)
               \/ \A n \in DOMAIN file.vars : \E m \in DOMAIN out.val.vars :
                     n \in Range(madeFrom(out.val.groups, m))

\* upgradeFile (v1 to v2): every attribute of a variable but those that bind it to
\* scales is in the new file, with the value of the first variable of its group
\* that has it.
AttributesKept ==
    Returned("upgrade v1 file") => \A n \in DOMAIN out.val.vars :
        LET from == madeFrom(out.val.groups, n)
            atts(k) == call.q.file.vars[from[k]].atts
            first(a) == CHOOSE k \in DOMAIN from : a \in DOMAIN atts(k)
                            /\ \A j \in 1 .. k - 1 : a \notin DOMAIN atts(j)
            all == UNION {DOMAIN atts(k) : k \in DOMAIN from} \ ignored_names
        IN  /\ DOMAIN out.val.vars[n].atts = all
            /\ \A a \in all : LET was == atts(first(a))[a]
                              IN  out.val.vars[n].atts[a] = IF was = <<>> THEN <<"NUL">> ELSE was

\* copyData (v1 to v2), of an upgrade that finishes: strings are copied, also those
\* of a group of one variable, and strings that were stored as rows of
\* characters, filled up with NULs or blanks, are the strings of the new variable
\* without blanks at their ends (rows of one character apart, which are copied as
\* they are).
OldStringsKept ==
    Returned("upgrade v1 file") => \A n \in DOMAIN out.val.vars :
        LET v == call.q.file.vars[madeFrom(out.val.groups, n)[1]]
            width == v.dims[Len(v.dims)]
            row(k) == SubSeq(v.chars, (k - 1) * width + 1, k * width)
            got == out.val.vars[n].strings
        IN  /\ v.type = "string" => got = v.chars
            /\ v.type = "char" /\ Len(v.dims) > 1 /\ width > 1 =>
                /\ Len(got) = ProductOf(out.val.vars[n].dims)
                /\ \A k \in DOMAIN got :
                     /\ IsPrefix(got[k], row(k))
                     /\ got[k] # <<>> => got[k][Len(got[k])] # " "
                     /\ "NUL" \notin Range(got[k])
                     /\ LET rest == SubSeq(row(k), Len(got[k]) + 1, width)
                            nul == {i \in DOMAIN rest : rest[i] = "NUL"}
                        IN  \A i \in DOMAIN rest : (\A j \in nul : i < j) => rest[i] = " "

\* An upgrade loses no variable, no attribute and no string of the old file, and
\* the new shapes fit: variables their scales, chunks their variables
\* (upgradev1v2.cpp and upgradev2v3.cpp, upgradeFile).  Two kinds of files are
\* excepted: those in which the first program would gather strings, which it
\* refuses or fills with what lies behind its buffer, and a file of one variable,
\* which it loses when it groups.
UpgradedFileSound ==
    /\ ChannelsKept /\ VariablesKept /\ AttributesKept /\ OldStringsKept
    /\ NewScalesFit /\ NewChunksFit
=============================================================================
