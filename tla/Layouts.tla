------------------------------ MODULE Layouts ------------------------------
(***************************************************************************)
(* Names: which ODB columns a query selects, which ioda variables the      *)
(* mapping file makes of them, and how the pieces of a split string column *)
(* are put together again.                                                 *)
(*                                                                         *)
(* A name is a sequence of parts.  An ODB source is <<column>>,            *)
(* <<column, member>> for a member of a bitfield column, and ends in the   *)
(* varno for a column that depends on it; an ioda name is                  *)
(* <<group, variable>> or <<variable>>.  A mapping file M has variables    *)
(* (source to name), varnoColumns (source to a map from varno to name) and *)
(* complementary (input sources to one output name).                       *)
(***************************************************************************)
EXTENDS OdbImport

-----------------------------------------------------------------------------
(* The query file: selected columns, whole or member by member.            *)

addMember(sel, m) == IF sel.all THEN sel ELSE [sel EXCEPT !.members = @ \cup {m}]

addAllMembers(sel) == [all |-> TRUE, members |-> {}]

intersectionWith(sel, members) == IF sel.all THEN members ELSE members \cap sel.members

NoMembers == [all |-> FALSE, members |-> {}]

\* Forgets that a whole column was selected when a member is named after it.
addQueryColumn_Latest(selection, src) ==
    LET old == IF src[1] \in DOMAIN selection THEN selection[src[1]] ELSE NoMembers
    IN  (src[1] :> IF Len(src) = 1 THEN addAllMembers(old)
                   ELSE [all |-> FALSE, members |-> old.members \cup {src[2]}]) @@ selection

addQueryColumn(selection, src) ==
    LET old == IF src[1] \in DOMAIN selection THEN selection[src[1]] ELSE NoMembers
    IN  (src[1] :> IF Len(src) = 1 THEN addAllMembers(old) ELSE addMember(old, src[2]))
        @@ selection

addQueryColumns(srcs) == FoldLeft(addQueryColumn, <<>>, srcs)

addMandatoryColumns(selection) ==
    FoldLeft(LAMBDA s, c : addQueryColumn(s, <<c>>), selection,
             <<"lat", "lon", "date", "time", "seqno", "varno", "ops_obsgroup", "vertco_type">>)

-----------------------------------------------------------------------------
(* The mapping file as the reader uses it: which columns and members have  *)
(* a variable, once or per varno.                                          *)

collectColumnMappings(M) ==
    LET single == {M.variables[k].source : k \in DOMAIN M.variables}
        pieces == UNION {Range(M.complementary[k].inputs) : k \in DOMAIN M.complementary}
        perVarno == {<<M.varnoColumns[k].source, v>> : k \in DOMAIN M.varnoColumns,
                                                       v \in UNION {DOMAIN M.varnoColumns[j].names :
                                                                    j \in DOMAIN M.varnoColumns}}
        real == {p \in perVarno : \E k \in DOMAIN M.varnoColumns :
                    M.varnoColumns[k].source = p[1] /\ p[2] \in DOMAIN M.varnoColumns[k].names}
    IN  IF \E p \in real : p[1] \in single \cup pieces
        THEN Thrown
        ELSE Done([single |-> single \cup pieces, perVarno |-> real])

\* For these groups one variable holds the channels of all the varnos.
firstVarnoOnly(group, v) ==
    ~ \/ group = "amsr" /\ v # "rawbt"
      \/ group = "mwsfy3" /\ v # "rawbt_mwts"

\* NonbitfieldColumnMapping::createIodaVariables: the sources of the variables
\* made of a whole column.
wholeColumnVariables(maps, group, column, varnos) ==
    IF <<column>> \in maps.single THEN << <<column>> >>
    ELSE LET mine == SelectSeq(varnos, LAMBDA v : <<<<column>>, v>> \in maps.perVarno
                                                  /\ firstVarnoOnly(group, v))
         IN  [k \in DOMAIN mine |-> <<column, mine[k]>>]

\* BitfieldColumnMapping::createIodaVariables: those made of its members.
memberVariables(maps, group, column, selection, varnos) ==
    LET once == intersectionWith(selection, {s[2] : s \in {t \in maps.single :
                                                   Len(t) = 2 /\ t[1] = column}})
        per(v) == intersectionWith(selection, {p[1][2] : p \in {q \in maps.perVarno :
                                                   Len(q[1]) = 2 /\ q[1][1] = column /\ q[2] = v}})
    IN  {<<column, m>> : m \in once} \cup
        UNION {{<<column, m, v>> : m \in per(v)} :
               v \in {w \in Range(varnos) : firstVarnoOnly(group, w)}}

\* The columns that number the channels instead of making a variable.
numbersChannels(group, column) ==
    \/ column = "vertco_reference_2" /\ group = "gnssro"
    \/ /\ column = "initial_vertco_reference"
       /\ group \in {"airs", "iasi", "cris", "hiras", "abiclr", "ahiclr", "atms", "gmihigh",
                     "gmilow", "mwri", "seviriclr", "ssmis", "atovs", "mwsfy3", "amsr",
                     "scatwind", "surfacecloud"}

-----------------------------------------------------------------------------
(* DataLayoutPolicy_ObsGroup_ODB: from source names to ioda names.         *)

\* Does not know the varno-dependent columns.
addMappings_Columns(M) ==
    FoldLeft(LAMBDA map, e : (e.source :> e.name) @@ map, <<>>, M.variables)

\* The last mapping of a source wins.
addMappings(M) ==
    LET entries == M.variables \o
            FlattenSeq([k \in DOMAIN M.varnoColumns |->
                LET c == M.varnoColumns[k]
                    vs == SetToSeq(DOMAIN c.names)
                IN  [j \in DOMAIN vs |-> [source |-> Append(c.source, vs[j]),
                                          name |-> <<c.group, c.names[vs[j]]>>]]])
    IN  FoldLeft(LAMBDA map, e : (e.source :> e.name) @@ map, <<>>, entries)

parseComponentVariables(M) ==
    FoldLeft(LAMBDA map, c :
                [k \in Range(c.inputs) |->
                    [position |-> CHOOSE p \in DOMAIN c.inputs : c.inputs[p] = k,
                     output |-> c.output, needed |-> Len(c.inputs)]] @@ map,
             <<>>, M.complementary)

isMapped(L, n) == n \in DOMAIN L.mapping
isComplementary(L, n) == n \in DOMAIN L.pieces
isMapOutput(L, n) == \/ \E s \in DOMAIN L.mapping : L.mapping[s] = n
                     \/ \E s \in DOMAIN L.pieces : L.pieces[s].output = n

addUnchangedVariableName(L, n) ==
    IF isComplementary(L, n) \/ isMapped(L, n) \/ isMapOutput(L, n)
    THEN Thrown
    ELSE Done([L EXCEPT !.mapping = (n :> n) @@ @])

\* The policy for a mapping file and the names it must leave alone.
layoutOf(M, ignores) ==
    LET L0 == [mapping |-> addMappings(M), pieces |-> parseComponentVariables(M)]
        add(o, n) == AndThen(o, LAMBDA L : addUnchangedVariableName(L, n))
    IN  IF \E k \in DOMAIN M.complementary :
                M.complementary[k].output \in Range(M.complementary[k].inputs)
        THEN Thrown
        ELSE FoldLeft(add, Done(L0), ignores)

\* The pieces between the @ signs, empty ones dropped, in reverse order.
convertV1PathToV2Path(n) ==
    LET step(acc, part) == IF part = "@" THEN <<<<>>>> \o acc
                           ELSE <<Append(acc[1], part)>> \o Tail(acc)
    IN  FlattenSeq(FoldLeft(step, <<<<>>>>, n))

doMap(L, n) == convertV1PathToV2Path(IF isMapped(L, n) THEN L.mapping[n] ELSE n)

\* DataLayoutPolicy::generate.  The overload that takes the policy's name and a
\* mapping file throws whatever the name is.
generatePolicy(how, policy) ==
    CASE how = "plain" -> IF policy = "ObsGroupODB" THEN Thrown ELSE Done(policy)
      [] how = "mapped by name" -> Thrown
      [] how = "mapped" -> IF policy = "ObsGroupODB" THEN Done(policy) ELSE Thrown

-----------------------------------------------------------------------------
(* Has_Variables_Base::stitchComplementaryVariables.  A string is a        *)
(* sequence of characters; a store maps a variable's name to its strings.  *)

trimEnd(str) ==
    LET ink == {k \in DOMAIN str : str[k] # " "}
    IN  IF ink = {} THEN <<>> ELSE SubSeq(str, 1, CHOOSE k \in ink : \A j \in ink : j <= k)

concatenateStringVectors(vectors) ==
    IF \E k \in DOMAIN vectors : Len(vectors[k]) # Len(vectors[1]) THEN Thrown
    ELSE Done([e \in DOMAIN vectors[1] |->
                trimEnd(FlattenSeq([k \in DOMAIN vectors |-> vectors[k][e]]))])

createDerivedVariableParameters(piece, name) ==
    [names |-> [k \in 1 .. piece.needed |-> IF k = piece.position THEN name ELSE <<>>],
     entered |-> 1]

\* Merges as soon as two pieces were met.
enterComponent_Early(known, piece, name) ==
    IF piece.output \notin DOMAIN known
    THEN (piece.output :> createDerivedVariableParameters(piece, name)) @@ known
    ELSE [known EXCEPT ![piece.output].names[piece.position] = name,
                       ![piece.output].entered = piece.needed]

enterComponent(known, piece, name) ==
    IF piece.output \notin DOMAIN known
    THEN (piece.output :> createDerivedVariableParameters(piece, name)) @@ known
    ELSE [known EXCEPT ![piece.output].names[piece.position] = name,
                       ![piece.output].entered = @ + 1]

\* loadComponentVariableData, the merge, and the removal of the pieces.
mergeComponents(store, output, names, removeOriginals) ==
    LET merged == concatenateStringVectors([k \in DOMAIN names |-> store[names[k]]])
        kept == IF removeOriginals THEN DOMAIN store \ Range(names) ELSE DOMAIN store
        withOutput(val) == Done((output :> val) @@ [n \in kept |-> store[n]])
    IN  IF \E k \in DOMAIN names : names[k] \notin DOMAIN store THEN Thrown
        ELSE AndThen(merged, withOutput)

stitchComplementaryVariables(L, store, listed, removeOriginals) ==
    LET visit(st, name) ==
            LET dest == doMap(L, name)
                piece == L.pieces[dest]
                known == enterComponent(st.known, piece, name)
                merged == mergeComponents(st.store.val, piece.output,
                                          known[piece.output].names, removeOriginals)
            IN  IF st.store.state # "done" \/ ~isComplementary(L, dest) THEN st
                ELSE [known |-> known,
                      store |-> IF known[piece.output].entered = piece.needed
                                THEN merged ELSE st.store]
    IN  FoldLeft(visit, [known |-> <<>>, store |-> Done(store)], listed).store

-----------------------------------------------------------------------------
(* Engines::ODC::openFile, after the query: the variables it makes.        *)

ignoredNames(group, extended) ==
    << <<"Location">>, <<"MetaData", "dateTime">>, <<"MetaData", "receiptdateTime">> >>
    \o (IF extended THEN << <<"MetaData", "initialDateTime">> >> ELSE <<>>)
    \o << <<"Channel">> >>
    \o (IF group \in {"sonde", "oceansound"}
        THEN << <<"MetaData", "stationIdentification">> >> ELSE <<>>)

\* The sources of all the variables made of the selected columns.
sourcesOf(maps, group, selection, varnos) ==
    UNION {IF numbersChannels(group, c) THEN {}
           ELSE Range(wholeColumnVariables(maps, group, c, varnos)) \cup
                memberVariables(maps, group, c, selection[c], varnos) :
           c \in DOMAIN selection}

\* Creating a variable the layout does not know throws.  q.varnos are the requested
\* varnos that have rows: the others make no variable.
openFile(q) ==
    LET selection == addMandatoryColumns(addQueryColumns(q.query))
        create(L, maps) ==
            LET sources == sourcesOf(maps, q.group, selection, q.varnos)
            IN  IF \E s \in sources : ~(isMapped(L, s) \/ isComplementary(L, s) \/ isMapOutput(L, s))
                THEN Thrown
                ELSE Done([sources |-> sources, names |-> {doMap(L, s) : s \in sources},
                           layout |-> L])
        policy(p) == layoutOf(q.mapping, ignoredNames(q.group, q.extended))
    IN  AndThen(AndThen(generatePolicy("mapped", "ObsGroupODB"), policy),
                LAMBDA L : AndThen(collectColumnMappings(q.mapping),
                                   LAMBDA maps : create(L, maps)))

-----------------------------------------------------------------------------
(* Properties.                                                             *)

\* What the reader selects does not depend on the order in which the query file
\* lists columns and members of bitfield columns.
SelectionOrderFree ==
    call.op = "open" =>
        \A k \in 1 .. Len(call.q.query) - 1 :
            LET swapped == [call.q.query EXCEPT ![k] = call.q.query[k + 1],
                                                ![k + 1] = call.q.query[k]]
            IN  addQueryColumns(swapped) = addQueryColumns(call.q.query)

\* The reader (collectColumnMappings) and the layout (parseMappingFile) parse the
\* mapping file separately.  Every variable the reader makes is one the layout
\* knows, so openFile fails only for a file that is inconsistent in itself: a column
\* mapped both as a whole and per varno, or one that claims a name openFile uses.
\* Two variables share an ioda name only when the file gives it twice.
ReaderAndLayoutAgree ==
    call.op = "open" /\ out # Pending =>
        LET M == call.q.mapping
            reserved == Range(ignoredNames(call.q.group, call.q.extended))
            clash == \/ collectColumnMappings(M) = Thrown
                     \/ \E n \in reserved : isMapOutput([mapping |-> addMappings(M),
                                                         pieces |-> parseComponentVariables(M)], n)
        IN  /\ (out = Thrown) = clash
            /\ out.state = "done" =>
                \A s, t \in out.val.sources :
                    s # t /\ doMap(out.val.layout, s) = doMap(out.val.layout, t) =>
                        \E n \in DOMAIN addMappings(M), m \in DOMAIN addMappings(M) :
                            n # m /\ addMappings(M)[n] = addMappings(M)[m]

\* Names mean the same to all who resolve them: to the query in any order, to the
\* reader and to the layout (addQueryColumns, collectColumnMappings,
\* parseMappingFile).
NamesResolved == SelectionOrderFree /\ ReaderAndLayoutAgree
=============================================================================
