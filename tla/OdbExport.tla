----------------------------- MODULE OdbExport -----------------------------
(***************************************************************************)
(* Writing an ODB file (Engines/ODC createFile): one row per location and  *)
(* varno, the metadata columns repeated in each.                           *)
(*                                                                         *)
(* A group G has n locations, a sequence meta of metadata variables, a     *)
(* sequence obs of the variables of the group ObsValue and a function body *)
(* from <<group, variable>> to the values of the variables that go with    *)
(* them.  Strings are sequences of characters, cut every Width of them.    *)
(***************************************************************************)
EXTENDS Layouts, Bitwise

CONSTANT Width      \* the characters in one ODB cell; 8 in the code

-----------------------------------------------------------------------------
(* Strings in cells.                                                       *)

longest(strings) ==
    LET lens == {Len(strings[k]) : k \in DOMAIN strings} \cup {0}
    IN  CHOOSE n \in lens : \A m \in lens : m <= n

\* 1 + (length - 1) / Width, where C rounds towards zero.
cellsFor(len) == IF len = 0 THEN 1 ELSE 1 + ((len - 1) \div Width)

\* Cell c of a string, padded with NUL characters.
stringCell(str, c) ==
    [k \in 1 .. Width |-> IF Width * c + k <= Len(str) THEN str[Width * c + k] ELSE "NUL"]

\* Up to the first NUL, spaces trimmed at both ends.
reinterpretString(cell) ==
    LET nul == {k \in DOMAIN cell : cell[k] = "NUL"}
        str == IF nul = {} THEN cell ELSE SubSeq(cell, 1, (CHOOSE k \in nul : \A j \in nul : k <= j) - 1)
        ink == {k \in DOMAIN str : str[k] # " "}
    IN  IF ink = {} THEN <<>>
        ELSE SubSeq(str, CHOOSE k \in ink : \A j \in ink : k <= j,
                         CHOOSE k \in ink : \A j \in ink : j <= k)

\* A string variable written to an ODB file, its cells read back as the pieces of
\* a complementary variable and stitched together.
exportThenImportStrings(q) ==
    LET cells == cellsFor(longest(q.strings))
        source(c) == <<"name", ToString(c)>>
        M == [variables |-> <<>>, varnoColumns |-> <<>>,
              complementary |-> <<[inputs |-> [c \in 1 .. cells |-> source(c)],
                                   output |-> <<"MetaData", "name">>]>>]
        read == [s \in {source(c) : c \in 1 .. cells} |->
                    LET c == CHOOSE d \in 1 .. cells : source(d) = s
                    IN  [r \in DOMAIN q.strings |->
                            reinterpretString(stringCell(q.strings[r], c - 1))]]
        listed == IF q.backwards THEN [c \in 1 .. cells |-> source(cells + 1 - c)]
                  ELSE [c \in 1 .. cells |-> source(c)]
        there == SelectSeq(listed, LAMBDA s : s \notin q.absent)
    IN  AndThen(layoutOf(M, <<>>),
                LAMBDA L : stitchComplementaryVariables(L, [s \in Range(there) |-> read[s]],
                                                        there, TRUE))

-----------------------------------------------------------------------------
(* The columns.                                                            *)

\* One entry per column description; a dateTime has two.
setupColumnInfo(G) ==
    FlattenSeq([k \in DOMAIN G.meta |->
        IF G.meta[k].name = "dateTime"
        THEN <<[name |-> "date", type |-> "date", len |-> 0],
               [name |-> "time", type |-> "date", len |-> 0]>>
        ELSE <<[name |-> G.meta[k].name, type |-> G.meta[k].type,
                len |-> IF G.meta[k].type = "string" THEN longest(G.meta[k].data) ELSE 0]>>])

numColumns(infos) ==
    FoldLeft(LAMBDA n, i : n + (IF i.type = "string" THEN cellsFor(i.len) ELSE 1), 0, infos)

collectReverseColumnMappings(M) ==
    LET entries == [k \in DOMAIN M.variables |-> <<M.variables[k].name, M.variables[k].source>>]
        varnos == FlattenSeq([k \in DOMAIN M.varnoColumns |->
                    LET c == M.varnoColumns[k]
                        vs == SetToSeq(DOMAIN c.names)
                    IN  IF c.source = <<"initial_obsvalue">>
                        THEN [j \in DOMAIN vs |-> <<c.names[vs[j]], vs[j]>>] ELSE <<>>])
    IN  [columns |-> FoldLeft(LAMBDA f, e : (e[1] :> e[2]) @@ f, <<>>, entries),
         varnos |-> FoldLeft(LAMBDA f, e : (e[1] :> e[2]) @@ f, <<>>, varnos)]

\* Counts the cells of a string variable as if the last one were full.
setODBColumn_Floor(rev, i) ==
    LET source == <<"MetaData", i.name>>
        name == IF source \in DOMAIN rev.columns THEN rev.columns[source] ELSE <<i.name>>
        cells == IF i.type # "string" \/ i.len <= Width THEN 1 ELSE i.len \div Width
    IN  [c \in 1 .. cells |-> [name |-> name, cell |-> c - 1]]

\* The columns one description declares; those of a string are numbered from 0.
setODBColumn(rev, i) ==
    LET source == <<"MetaData", i.name>>
        name == IF source \in DOMAIN rev.columns THEN rev.columns[source] ELSE <<i.name>>
        cells == IF i.type # "string" \/ i.len <= Width THEN 1 ELSE cellsFor(i.len)
    IN  [c \in 1 .. cells |-> [name |-> name, cell |-> c - 1]]

\* The columns of values readColumn appends: none for an integer that is neither
\* 4 nor 8 bytes long.
readColumn(G, i) ==
    LET var == IF i.type = "date" THEN "dateTime" ELSE i.name
        k == CHOOSE m \in DOMAIN G.meta : G.meta[m].name = var
        values == G.meta[k].data
    IN  CASE i.type \in {"date", "float", "int4", "int8"} -> <<values>>
          [] i.type = "string" ->
                [c \in 1 .. cellsFor(i.len) |-> [r \in 1 .. G.n |-> stringCell(values[r], c - 1)]]
          [] i.type = "unknown" -> <<[r \in 1 .. G.n |-> -1]>>
          [] OTHER -> <<>>

-----------------------------------------------------------------------------
(* The body: the values of every observed variable.                        *)

\* Leaves the varnos in the order of the mapping file.
setupVarnos_MapOrder(G, rev) ==
    [columns |-> G.obs,
     varnos |-> LET names == SetToSortSeq({v.name : v \in Range(G.obs)} \cap DOMAIN rev.varnos,
                                          LAMBDA a, b : rev.varnos[a] < rev.varnos[b])
                IN  [k \in DOMAIN names |-> rev.varnos[names[k]]]]

\* Every variable of ObsValue has a column, every mapped one a varno.
setupVarnos(G, rev) ==
    LET mapped == SelectSeq(G.obs, LAMBDA v : v.name \in DOMAIN rev.varnos)
    IN  [columns |-> G.obs, varnos |-> [k \in DOMAIN mapped |-> rev.varnos[mapped[k].name]]]

Has(G, group, v) == <<group, v>> \in DOMAIN G.body

valuesOr(G, group, v) ==
    IF Has(G, group, v) THEN G.body[<<group, v>>] ELSE [r \in 1 .. G.n |-> Missing]

\* The first flag sets bit 0; flag number i ors in the number i itself.
diagnosticFlags(G, v, flags) ==
    LET set(f, r) == Has(G, flags[f], v) /\ G.body[<<flags[f], v>>][r] > 0
    IN  [r \in 1 .. G.n |->
            FoldLeft(LAMBDA acc, f : IF set(f, r) THEN acc | f ELSE acc, 0,
                     [f \in DOMAIN flags |-> f])]

\* Nothing is stored for a variable whose values are not floating-point numbers.
readBodyColumns(G, v, flags) ==
    LET derived == Has(G, "DerivedObsValue", v.name)
        values == IF derived THEN G.body[<<"DerivedObsValue", v.name>>] ELSE v.data
    IN  IF v.type # "float" THEN <<>>
        ELSE <<[var |-> v.name, obsvalue |-> values,
                initial |-> IF derived THEN v.data ELSE <<>>,
                error |-> valuesOr(G, "EffectiveError", v.name),
                hofx |-> valuesOr(G, "hofx", v.name),
                qc |-> valuesOr(G, "EffectiveQC", v.name),
                flags |-> diagnosticFlags(G, v.name, flags)]>>

\* The writer's row is reused: without values of its own a variable is written with
\* the last ones of the variables before it.
initialCell(bodies, k, r) ==
    LET given == {j \in 1 .. k : bodies[j].initial # <<>>}
        last == CHOOSE j \in given : \A i \in given : i <= j
    IN  IF given = {} THEN Empty
        ELSE IF last = k THEN bodies[k].initial[r] ELSE bodies[last].initial[Len(bodies[last].initial)]

\* The k-th varno is written with the k-th set of values.
writeODB(G, data, bodies, varnos) ==
    IF Len(bodies) < Len(varnos) THEN Undefined
    ELSE Done(FlattenSeq([k \in DOMAIN varnos |-> [r \in 1 .. G.n |->
            [meta |-> [c \in DOMAIN data |-> data[c][r]], varno |-> varnos[k],
             var |-> bodies[k].var, obsvalue |-> bodies[k].obsvalue[r],
             initial |-> initialCell(bodies, k, r),
             qc |-> bodies[k].qc[r], flags |-> bodies[k].flags[r]]]]))

\* Without metadata no file is written.
createFile(q) ==
    LET G == q.group
        infos == setupColumnInfo(G)
        rev == collectReverseColumnMappings(q.mapping)
        header == FlattenSeq([k \in DOMAIN infos |-> setODBColumn(rev, infos[k])])
        data == FlattenSeq([k \in DOMAIN infos |-> readColumn(G, infos[k])])
        vs == setupVarnos(G, rev)
        bodies == FlattenSeq([k \in DOMAIN vs.columns |-> readBodyColumns(G, vs.columns[k], q.flags)])
        withHeader(rows) == Done([header |-> header, rows |-> rows])
    IN  IF infos = <<>> THEN Done([header |-> <<>>, rows |-> <<>>])
        ELSE IF Len(data) < numColumns(infos) THEN Undefined
        ELSE AndThen(writeODB(G, data, bodies, vs.varnos), withHeader)

-----------------------------------------------------------------------------
(* Properties.                                                             *)

\* The header createFile declares (setODBColumn) and the cells it writes in every
\* row (readColumn) are counted by different code and match, and no two columns
\* share a name, for metadata of the types the writer knows.
HeaderMatchesRows ==
    call.op = "export" /\ out # Pending
    /\ (\A k \in DOMAIN call.q.group.meta : call.q.group.meta[k].type # "int1")
    /\ (\A k \in DOMAIN call.q.group.obs : call.q.group.obs[k].type = "float") =>
        /\ out.state = "done"
        /\ \A k \in DOMAIN out.val.rows : Len(out.val.rows[k].meta) = Len(out.val.header)
        /\ IsInjective(out.val.header)

\* When all the observed variables are mapped and floating-point, every location
\* has exactly one row for each of them, under the varno of that variable and with
\* its value: the parallel lists of writeODB stay aligned.
RowsCarryTheirVarno ==
    LET G == call.q.group
        rev == collectReverseColumnMappings(call.q.mapping)
        rows == out.val.rows
    IN  Returned("export") /\ G.meta # <<>>
        /\ (\A k \in DOMAIN G.obs : G.obs[k].type = "float" /\ G.obs[k].name \in DOMAIN rev.varnos) =>
            /\ Len(rows) = G.n * Len(G.obs)
            /\ \A v \in DOMAIN G.obs, r \in 1 .. G.n :
                LET row == rows[(v - 1) * G.n + r]
                IN  /\ row.varno = rev.varnos[G.obs[v].name]
                    /\ row.obsvalue = valuesOr(G, "DerivedObsValue", G.obs[v].name)[r]
                       \/ (~Has(G, "DerivedObsValue", G.obs[v].name) /\ row.obsvalue = G.obs[v].data[r])
                    /\ (row.flags = 0) = (\A f \in DOMAIN call.q.flags :
                            Has(G, call.q.flags[f], G.obs[v].name) =>
                                G.body[<<call.q.flags[f], G.obs[v].name>>][r] <= 0)

\* Strings without a space at the edge of an ODB cell come back as they were: cut
\* by readColumn, trimmed by reinterpretString, stitched by
\* stitchComplementaryVariables, in whatever order the pieces are listed.  The
\* pieces are gone afterwards.  When a piece is absent nothing is merged and
\* nothing removed.
StringsSurvive ==
    call.op = "strings" /\ out # Pending =>
        LET output == <<"MetaData", "name">>
            edge(k) == k % Width \in {0, 1 % Width}
            plain(str) == \A k \in DOMAIN str : edge(k) \/ k = Len(str) => str[k] # " "
        IN  /\ out.state = "done"
            /\ call.q.absent = {} /\ (\A r \in DOMAIN call.q.strings : plain(call.q.strings[r])) =>
                out.val = (output :> call.q.strings)
            /\ call.q.absent # {} => output \notin DOMAIN out.val
            /\ output \in DOMAIN out.val => DOMAIN out.val = {output}

\* Each row createFile writes has the cells its header declares, and the varno,
\* value and flags of one variable at one location.
RowsMatch == HeaderMatchesRows /\ RowsCarryTheirVarno

\* What is packed into the cells of an ODB file is unpacked as it was: the members of
\* a bitfield, the pieces of a string, the numbers that make up a station.
CellsDecoded == MembersUnpacked /\ StringsSurvive /\ StationsToldApart
=============================================================================
