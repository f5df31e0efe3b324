----------------------------- MODULE Validator -----------------------------
(***************************************************************************)
(* ioda-validate.x (src/mains/validator): checks a file against a YAML     *)
(* description of the conventions and returns the number of findings.      *)
(*                                                                         *)
(* A file has attributes, groups (name, atts), dimension scales (name,     *)
(* len) and variables (path, dims, scales, atts, units).  The attributes   *)
(* of an object are a function from their names to their dimensions.  An   *)
(* optional entry of the YAML is a sequence of at most one value.  A       *)
(* finding is <<policy, what was found>>, in the order it is logged.       *)
(***************************************************************************)
EXTENDS UnitMath

Finding(policy, what) == <<policy, what>>
When(cond, policy, what) == IF cond THEN <<Finding(policy, what)>> ELSE <<>>
ForEach(S, Check(_)) == FlattenSeq([k \in 1 .. Cardinality(S) |-> Check(SetToSeq(S)[k])])
InOrderOf(s, Check(_)) == FlattenSeq([k \in DOMAIN s |-> Check(s[k])])

\* The severities a YAML file does not set.
PolicyParameters ==
    [KnownGroupNames |-> "Error", RequiredGroups |-> "Error", GroupHasRequiredAttributes |-> "Error",
     GroupHasKnownAttributes |-> "Warn", GroupAllowsVariables |-> "Error",
     KnownDimensionNames |-> "Warn", PreferredDimensionNames |-> "Warn",
     RequiredDimensions |-> "Error", KnownVariableNames |-> "Error",
     PreferredVariableNames |-> "Error", VariableCanBeMetaData |-> "Warn",
     VariableDimensionCheck |-> "Warn", VariableHasValidUnits |-> "Warn",
     VariableHasConvertibleUnits |-> "Error", VariableHasExactUnits |-> "Warn",
     AttributeHasCorrectDims |-> "Warn", Unparsed |-> "Error"]

\* An entry stands for each of its names.  map::insert keeps the first entry of a
\* name, operator[] the last.
firstEntries(list) ==
    FoldLeft(LAMBDA map, e : map @@ [n \in Range(e.names) |-> e], <<>>, list)
lastEntries(list) ==
    FoldLeft(LAMBDA map, e : [n \in Range(e.names) |-> e] @@ map, <<>>, list)

\* The first name of an entry is the one to use.
oldNewNames(list) ==
    FoldLeft(LAMBDA map, e : [n \in Range(e.names) \ {e.names[1]} |-> e.names[1]] @@ map, <<>>, list)

newName(map, n) == IF n \in DOMAIN map THEN map[n] ELSE n

-----------------------------------------------------------------------------
(* AttributeChecks.cpp.                                                    *)

requiredSymbolsCheck(required, names) ==
    InOrderOf(required, LAMBDA n : When(n \notin names, "GroupHasRequiredAttributes", n))

Ignored == {"DIMENSION_LIST", "REFERENCE_LIST", "_FillValue"}

appropriateAttributesCheck(names, required, optional) ==
    ForEach(names \ (required \cup optional \cup Ignored),
            LAMBDA n : When(TRUE, "GroupHasKnownAttributes", n))

\* A description whose two entries on dimensions disagree fits no attribute.
matchingAttributesCheck(known, atts) ==
    LET check(n) ==
            LET y == known[n]
                both == y.rank # <<>> /\ y.dims # <<>>
                agree == both => y.rank[1] = Len(y.dims[1])
                rank == IF ~agree THEN -1
                        ELSE IF y.rank # <<>> THEN y.rank[1] ELSE Len(y.dims[1])
                wrong(i) == i <= Len(atts[n]) /\ i <= rank /\ atts[n][i] # y.dims[1][i]
            IN  IF n \notin DOMAIN known THEN When(TRUE, "GroupHasKnownAttributes", "no spec")
                ELSE IF y.rank = <<>> /\ y.dims = <<>> THEN <<>>
                ELSE When(~agree, "AttributeHasCorrectDims", "inconsistent")
                     \o When(Len(atts[n]) # rank, "AttributeHasCorrectDims", "rank")
                     \o (IF y.dims = <<>> THEN <<>>
                         ELSE ForEach({i \in DOMAIN y.dims[1] : wrong(i)},
                                      LAMBDA i : When(TRUE, "AttributeHasCorrectDims", "size")))
    IN  ForEach(DOMAIN atts, check)

-----------------------------------------------------------------------------
(* Groups and dimensions.                                                  *)

\* Every name of a required group is looked for, so that a group with two names
\* is reported under the one it does not use.
requiredGroupsCheck(groups, present) ==
    LET absent == {n \in DOMAIN groups : groups[n].required /\ n \notin present}
        used(n) == Range(groups[n].names) \cap present
    IN  ForEach(absent, LAMBDA n :
            IF used(n) = {} THEN When(TRUE, "RequiredGroups", "missing")
            ELSE ForEach(used(n), LAMBDA o : When(TRUE, "RequiredGroups", "older name")))

groupCheck(y, file, g) ==
    LET spec == firstEntries(y.groups)[g.name]
        own == IF g.name = "/" THEN {d.name : d \in Range(file.dims)}
               ELSE {v.path[2] : v \in {w \in Range(file.vars) : Len(w.path) = 2 /\ w.path[1] = g.name}}
    IN  IF g.name \notin DOMAIN firstEntries(y.groups)
        THEN When(TRUE, "KnownGroupNames", "group")
        ELSE When(spec.remove, "KnownGroupNames", "deprecated")
             \o requiredSymbolsCheck(spec.reqAtts, DOMAIN g.atts)
             \o appropriateAttributesCheck(DOMAIN g.atts, Range(spec.reqAtts), Range(spec.optAtts))
             \o matchingAttributesCheck(firstEntries(y.attributes), g.atts)
             \o requiredSymbolsCheck(spec.requiredvars, own)

\* A dimension scale that collectVarDimInfo finds has one dimension.
dimensionsCheck(y, file) ==
    LET present == {d.name : d \in Range(file.dims)}
    IN  InOrderOf(y.dimensions, LAMBDA e :
            When(e.names # <<>> /\ e.required /\ Range(e.names) \cap present = {},
                 "RequiredDimensions", "missing"))
        \o InOrderOf(file.dims, LAMBDA d :
            IF d.name \in DOMAIN lastEntries(y.dimensions)
            THEN When(d.name \in DOMAIN oldNewNames(y.dimensions), "PreferredDimensionNames", "older name")
            ELSE When(TRUE, "KnownDimensionNames", "dimension"))

-----------------------------------------------------------------------------
(* Variables.                                                              *)

\* What an entry leaves out comes from the defaults.  An entry that says FALSE of
\* canBeMetadata cannot be told from one that says nothing.
withDefaults(v, d) ==
    LET or(a, b) == IF a = <<>> THEN b ELSE a
    IN  [v EXCEPT !.atts = or(@, d.atts), !.canBeMetadata = @ \/ d.canBeMetadata,
                  !.dimNames = or(@, d.dimNames), !.type = or(@, d.type)]

\* The names of the dimensions as they stand in the file.
dimensionsMatch_AsNamed(y, v, recommended) ==
    \E r \in Range(recommended) : r = v.scales

\* A dimension's name is first taken for the old name of a variable.
dimensionsMatch(y, v, recommended) ==
    LET cur == [i \in DOMAIN v.scales |->
                   newName(oldNewNames(y.dimensions), newName(oldNewNames(y.variables), v.scales[i]))]
    IN  \E r \in Range(recommended) : Len(r) = Len(cur) /\ Len(v.dims) = Len(cur) /\ r = cur

lengthsCheck(file, v) ==
    LET length(n) == (CHOOSE d \in Range(file.dims) : d.name = n).len
    IN  ForEach({i \in DOMAIN v.dims : v.dims[i] # length(v.scales[i])},
                LAMBDA i : When(TRUE, "VariableDimensionCheck", "length"))

\* Only attributes that should not be there are reported: none is missed.
attributesCheck(y, spec, v) ==
    LET a == spec.atts[1]
        req == Range(a.required)
               \cup (IF spec.type # <<>> /\ spec.type # <<"Enum">> THEN Range(a.requiredNotEnum) ELSE {})
    IN  (IF spec.atts = <<>> THEN <<>>
         ELSE appropriateAttributesCheck(DOMAIN v.atts, req, Range(a.optional)))
        \o matchingAttributesCheck(firstEntries(y.attributes), v.atts)

NoUnitsTypes == {"Enum", "StringVLen", "StringFixedLen"}

\* Looks at the units only if the file has some.
checkUnits_IfPresent(spec, v) == "units" \in DOMAIN v.atts /\ spec.forceunits # <<FALSE>>

checkUnits(spec, v) ==
    LET required == \/ spec.forceunits = <<TRUE>>
                    \/ spec.forceunits = <<>> /\ spec.type # <<>> /\ spec.type[1] \notin NoUnitsTypes
    IN  spec.forceunits # <<FALSE>> /\ ("units" \in DOMAIN v.atts \/ required)

\* Texts of units, as udunits parses them.
Units(text) ==
    CASE text = "m" -> Unit(1, Rat(1)) [] text = "km" -> Unit(1, Rat(1000))
      [] text = "m2" -> Unit(2, Rat(1)) [] OTHER -> Invalid

\* groupUnits: the units the group sets for all its variables, "" for none.
unitsCheck(spec, groupUnits, v) ==
    LET has == "units" \in DOMAIN v.atts
        ofFile == IF has THEN v.units ELSE ""
        ofYaml == IF groupUnits # "" THEN groupUnits ELSE spec.units
        f == Units(ofFile)
        s == Units(ofYaml)
    IN  When(spec.forceunits = <<FALSE>> /\ has, "VariableHasConvertibleUnits", "prohibited")
        \o (IF ~checkUnits(spec, v) THEN <<>>
            ELSE When(ofYaml = "", "VariableHasValidUnits", "none in the YAML")
                 \o When(~has, "VariableHasValidUnits", "none in the file")
                 \o (IF ofFile = "" \/ ofYaml = "" THEN <<>>
                     ELSE When(~f.valid, "VariableHasConvertibleUnits", "invalid in the file")
                          \o When(~s.valid, "VariableHasConvertibleUnits", "invalid in the YAML")
                          \o When(f.valid /\ s.valid /\ ~isConvertibleWith(f, s),
                                  "VariableHasConvertibleUnits", "not convertible")
                          \o When(f.valid /\ s.valid /\ ~unitsEqual(f, s) /\ spec.exact,
                                  "VariableHasExactUnits", "not equal")))

\* An entry of the variable, with what its group overrides.
inGroup(spec, groups, g) ==
    LET or(a, b) == IF b = <<>> THEN a ELSE b
    IN  IF g \in DOMAIN groups
        THEN [spec EXCEPT !.type = or(@, groups[g].type), !.forceunits = or(@, groups[g].forceunits)]
        ELSE spec

\* The checks of a variable that has an entry, which is not deprecated.
knownVariableCheck(y, file, v, groups, spec) ==
    LET g == v.path[1]
        known == g \in DOMAIN groups
    IN  (IF known THEN When(~groups[g].regular, "GroupAllowsVariables", "group")
         ELSE When(TRUE, "KnownGroupNames", "variable's group"))
        \o When(g = "MetaData" /\ ~spec.canBeMetadata, "VariableCanBeMetaData", "variable")
        \o When(spec.dimNames # <<>> /\ ~dimensionsMatch(y, v, spec.dimNames[1]),
                "VariableDimensionCheck", "names")
        \o lengthsCheck(file, v) \o attributesCheck(y, spec, v)
        \o unitsCheck(spec, IF known THEN groups[g].units ELSE "", v)

checkVariable(y, file, v, specs, groups) ==
    LET n == v.path[2]
        plain == withDefaults(specs[n], y.vardefaults)
    IN  IF Len(v.path) # 2 THEN When(TRUE, "Unparsed", "name")
        ELSE IF n \notin DOMAIN specs THEN When(TRUE, "KnownVariableNames", "variable")
        ELSE When(n \in DOMAIN oldNewNames(y.variables), "PreferredVariableNames", "older name")
             \o (IF plain.remove THEN When(TRUE, "PreferredVariableNames", "deprecated")
                 ELSE knownVariableCheck(y, file, v, groups, inGroup(plain, groups, v.path[1])))

variableCheck(y, file, v) ==
    checkVariable(y, file, v, lastEntries(y.variables), firstEntries(y.groups))

-----------------------------------------------------------------------------
(* The program.                                                            *)

groupsCheck(y, file, groups) ==
    requiredGroupsCheck(firstEntries(y.groups), {g.name : g \in Range(groups)})
    \o InOrderOf(groups, LAMBDA g : groupCheck(y, file, g))

\* A variable with a dimension that has no scale ends the validation, after the
\* checks of the groups.
validate(y, file) ==
    LET bare == \E v \in Range(file.vars) : "" \in Range(v.scales)
    IN  [thrown |-> bare,
         found |-> groupsCheck(y, file, Append(file.groups, [name |-> "/", atts |-> file.atts]))
                   \o (IF bare THEN <<>>
                       ELSE dimensionsCheck(y, file)
                            \o InOrderOf(file.vars, LAMBDA v : variableCheck(y, file, v)))]

countOf(y, found, severity) ==
    Len(SelectSeq(found, LAMBDA f : (y.policies @@ PolicyParameters)[f[1]] = severity))

\* Only the first of two options is read.
ignores_First(args, option) == Len(args) \in 3 .. 4 /\ args[1] = option

ignores(args, option) ==
    \/ Len(args) = 3 /\ args[1] = option
    \/ Len(args) = 4 /\ option \in {args[1], args[2]}

\* What the system keeps of the value main returns.
ExitStatus(ret) == ret % 256

Usage(q) == Len(q.args) \in 2 .. 4

\* q.unset: what the two flags hold when the usage is wrong and they are not set.
flag(q, option) == IF Usage(q) THEN ignores(q.args, option) ELSE q.unset

resultOf(q, v) ==
    LET caught == IF v.thrown THEN 1 ELSE 0
        errors == countOf(q.yaml, v.found, "Error") + caught
        warnings == countOf(q.yaml, v.found, "Warn")
        ret == caught + (IF flag(q, "--ignore-warn") THEN 0 ELSE warnings)
               + (IF flag(q, "--ignore-error") THEN 0 ELSE errors)
    IN  Done([exit |-> ExitStatus(ret), ret |-> ret, thrown |-> v.thrown, found |-> v.found])

execute(q) ==
    resultOf(q, IF Usage(q) /\ q.opens THEN validate(q.yaml, q.file)
                ELSE [thrown |-> TRUE, found |-> <<>>])

-----------------------------------------------------------------------------
(* Properties.                                                             *)

\* Validator::execute: with fewer than 256 findings the exit status is zero exactly
\* when the validation came to its end and found nothing that is not ignored,
\* however the options are ordered.
ExitTellsFindings ==
    Returned("validate") =>
        LET r == out.val
            q == call.q
            options == Range(SubSeq(q.args, 1, Len(q.args) - 2))
            matters(f) ==
                LET s == (q.yaml.policies @@ PolicyParameters)[f[1]]
                IN  \/ s = "Error" /\ "--ignore-error" \notin options
                    \/ s = "Warn" /\ "--ignore-warn" \notin options
        IN  r.ret < 256 /\ Len(q.args) \in 2 .. 4 =>
                (r.exit = 0 <=> ~r.thrown /\ \A f \in Range(r.found) : ~matters(f))

\* The file with every dimension and variable under the name to use.
Renamed(y, file) ==
    LET dim(n) == newName(oldNewNames(y.dimensions), n)
        var(n) == newName(oldNewNames(y.variables), n)
    IN  [file EXCEPT
            !.dims = [k \in DOMAIN @ |-> [@[k] EXCEPT !.name = dim(@)]],
            !.vars = [k \in DOMAIN @ |-> [@[k] EXCEPT
                !.path = [i \in DOMAIN @ |-> IF i = 2 THEN var(@[i]) ELSE @[i]],
                !.scales = [i \in DOMAIN @ |-> dim(@[i])]]]]

\* Validator::validate: names from an old standard are reported as such and change
\* nothing else.  The other findings are those of the same file with the names of
\* the new standard (required variables apart, which have one name).
OldNamesOnlyReported ==
    Returned("validate") /\ ~out.val.thrown =>
        LET y == call.q.yaml
            renaming(f) == f[2] = "older name" /\ f[1] # "RequiredGroups"
            others(found) == SelectSeq(found, LAMBDA f :
                                ~renaming(f) /\ f[1] # "GroupHasRequiredAttributes")
        IN  others(out.val.found) = others(validate(y, Renamed(y, call.q.file)).found)

\* Validator::validate: a known variable whose type or entry asks for units is either
\* reported for its units or has units that convert to those of the YAML, and
\* equal them when the entry wants them exact.  A units attribute that is the empty
\* string is excepted, which is compared with nothing and not reported.
UnitsVouchedFor ==
    Returned("validate") /\ ~out.val.thrown =>
        LET y == call.q.yaml
            specs == lastEntries(y.variables)
            groups == firstEntries(y.groups)
            reported == \E f \in Range(out.val.found) :
                f[1] \in {"VariableHasValidUnits", "VariableHasConvertibleUnits", "VariableHasExactUnits"}
        IN  reported \/ \A v \in Range(call.q.file.vars) :
                Len(v.path) = 2 /\ v.path[2] \in DOMAIN specs /\ ~specs[v.path[2]].remove =>
                    LET s == inGroup(withDefaults(specs[v.path[2]], y.vardefaults), groups, v.path[1])
                        group == IF v.path[1] \in DOMAIN groups THEN groups[v.path[1]].units ELSE ""
                        want == Units(IF group # "" THEN group ELSE s.units)
                        asks == \/ s.forceunits = <<TRUE>>
                                \/ /\ s.forceunits = <<>>
                                   /\ s.type # <<>> /\ s.type[1] \notin NoUnitsTypes
                    IN  asks => /\ "units" \in DOMAIN v.atts
                                /\ v.units # ""
                                   => /\ isConvertibleWith(Units(v.units), want)
                                      /\ s.exact => unitsEqual(Units(v.units), want)

\* The validator can be believed: its exit status tells whether there are findings,
\* old names cause no others, and no wrong units go unreported but empty ones.
VerdictRight == ExitTellsFindings /\ OldNamesOnlyReported /\ UnitsVouchedFor
=============================================================================
