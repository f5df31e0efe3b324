------------------------------ MODULE UnitMath ------------------------------
(***************************************************************************)
(* Arithmetic on arrays that carry a unit and a missing value (EigenMath   *)
(* in MathOps.h, the udunits wrapper in Units.cpp), and the conversion of  *)
(* ODB columns to SI units (Has_Variables::convertVariableUnits).          *)
(*                                                                         *)
(* Numbers are exact: a pair of a numerator and a denominator.  A unit is  *)
(* a power of one base unit and a factor to it; Invalid stands for the     *)
(* null pointer udunits gives for what it cannot express.                  *)
(***************************************************************************)
EXTENDS Calls

Rat(n) == <<n, 1>>
RAdd(a, b) == <<a[1] * b[2] + b[1] * a[2], a[2] * b[2]>>
RSub(a, b) == <<a[1] * b[2] - b[1] * a[2], a[2] * b[2]>>
RMul(a, b) == <<a[1] * b[1], a[2] * b[2]>>
RDiv(a, b) == IF b[1] > 0 THEN <<a[1] * b[2], a[2] * b[1]>> ELSE <<-(a[1] * b[2]), a[2] * (-b[1])>>
REq(a, b) == a[1] * b[2] = b[1] * a[2]
RLess(a, b) == a[1] * b[2] < b[1] * a[2]
RPow(a, k) == <<a[1] ^ k, a[2] ^ k>>
RootOf(n, k) == CHOOSE r \in 0 .. n : r ^ k = n
RRoot(a, k) == IF k = 1 THEN a ELSE <<RootOf(a[1], k), RootOf(a[2], k)>>

-----------------------------------------------------------------------------
(* Units.cpp.                                                              *)

Unit(dim, factor) == [valid |-> TRUE, dim |-> dim, factor |-> factor]
Invalid == [valid |-> FALSE, dim |-> 0, factor |-> Rat(1)]
NoUnits == Unit(0, Rat(1))

unitsEqual(u, v) == u.valid /\ v.valid /\ u.dim = v.dim /\ REq(u.factor, v.factor)
isConvertibleWith(u, v) == u.valid /\ v.valid /\ u.dim = v.dim

\* A product of units that forgets the factor of the right one.
unitsTimes_LeftFactor(u, v) ==
    IF u.valid /\ v.valid THEN Unit(u.dim + v.dim, u.factor) ELSE Invalid

unitsTimes(u, v) ==
    IF u.valid /\ v.valid THEN Unit(u.dim + v.dim, RMul(u.factor, v.factor)) ELSE Invalid
unitsOver(u, v) ==
    IF u.valid /\ v.valid THEN Unit(u.dim - v.dim, RDiv(u.factor, v.factor)) ELSE Invalid
unitsRaise(u, k) == IF u.valid THEN Unit(u.dim * k, RPow(u.factor, k)) ELSE Invalid
unitsRoot(u, k) ==
    IF u.valid /\ u.dim % k = 0 THEN Unit(u.dim \div k, RRoot(u.factor, k)) ELSE Invalid

\* A converter between units that cannot be converted is a null pointer,
\* which the library is then given.
getConverterTo(u, v) ==
    IF isConvertibleWith(u, v) THEN Done(RDiv(u.factor, v.factor)) ELSE Undefined

-----------------------------------------------------------------------------
(* EigenMath.                                                              *)

Array(data, units, missing) == [data |-> data, units |-> units, missing |-> missing]
Flags(bits) == Array([i \in DOMAIN bits |-> Rat(IF bits[i] THEN 1 ELSE 0)], NoUnits, Rat(0))

isMissing(a, i) == REq(a.data[i], a.missing)

asUnits(a, to) ==
    AndThen(getConverterTo(a.units, to), LAMBDA f :
        Done(Array([i \in DOMAIN a.data |-> IF isMissing(a, i) THEN a.missing ELSE RMul(a.data[i], f)],
                   to, a.missing)))

\* A cast to an integer type drops the fraction, of the missing value too.
Truncated(r) == Rat(IF r[1] >= 0 THEN r[1] \div r[2] ELSE -((-r[1]) \div r[2]))
cast(a) == Array([i \in DOMAIN a.data |-> Truncated(a.data[i])], a.units, Truncated(a.missing))

\* What each operation does to the numbers of an element.
applied(op, x, y) ==
    CASE op = "+" -> RAdd(x, y)
      [] op = "-" -> RSub(x, y)
      [] op = "*" -> RMul(x, y)
      [] op = "/" -> RDiv(x, y)
      [] op = "raise" -> RPow(x, y)
      [] op = "root"  -> RRoot(x, y)

UnitlessScalar(op, a, y, units) ==
    Array([i \in DOMAIN a.data |-> IF isMissing(a, i) THEN a.missing ELSE applied(op, a.data[i], y)],
          units, a.missing)

\* The result of an operation of two arrays has the left one's missing value.
MultiplicativeWE(op, units, a, b) ==
    Array([i \in DOMAIN a.data |->
              IF isMissing(a, i) \/ isMissing(b, i) THEN a.missing ELSE applied(op, a.data[i], b.data[i])],
          units, a.missing)

AdditiveWE(op, a, b) ==
    IF unitsEqual(a.units, b.units) THEN Done(MultiplicativeWE(op, a.units, a, b)) ELSE Thrown

Compares(op, x, y) ==
    CASE op = "<"  -> RLess(x, y)
      [] op = ">"  -> RLess(y, x)
      [] op = "<=" -> ~RLess(y, x)
      [] op = ">=" -> ~RLess(x, y)
      [] op = "==" -> REq(x, y)
      [] op = "!=" -> ~REq(x, y)

ComparativeSC(op, a, val) ==
    Flags([i \in DOMAIN a.data |-> ~isMissing(a, i) /\ Compares(op, a.data[i], val)])

\* A comparison that looks at the left operand's missing values alone.
ComparativeWE_LeftOnly(op, a, b) ==
    IF ~unitsEqual(a.units, b.units) THEN Thrown
    ELSE Done(Flags([i \in DOMAIN a.data |-> ~isMissing(a, i) /\ Compares(op, a.data[i], b.data[i])]))

ComparativeWE(op, a, b) ==
    IF ~unitsEqual(a.units, b.units) THEN Thrown
    ELSE Done(Flags([i \in DOMAIN a.data |->
                        ~isMissing(a, i) /\ ~isMissing(b, i) /\ Compares(op, a.data[i], b.data[i])]))

\* Arrays of booleans have no missing value.
logical(op, a, b) ==
    LET is(x, i) == REq(x.data[i], Rat(1))
    IN  Flags([i \in DOMAIN a.data |->
                  IF op = "&&" THEN is(a, i) /\ is(b, i) ELSE is(a, i) \/ is(b, i)])

raise(a, k) == UnitlessScalar("raise", a, k, unitsRaise(a.units, k))
root(a, k) == UnitlessScalar("root", a, k, unitsRoot(a.units, k))

\* raise(num) / root(denom), not the power num / denom.
powOf(a, num, denom) ==
    LET r == raise(a, num)
        s == root(a, denom)
    IN  MultiplicativeWE("/", unitsOver(r.units, s.units), r, s)

whereMissing(a) == Flags([i \in DOMAIN a.data |-> isMissing(a, i)])

\* The three overloads: two arrays, an array and a number, a number and an array.
selectArrays(c, a, b) ==
    IF ~unitsEqual(a.units, b.units) THEN Thrown
    ELSE Done(Array([i \in DOMAIN a.data |->
                        IF REq(c.data[i], Rat(1)) THEN a.data[i]
                        ELSE IF isMissing(b, i) THEN a.missing ELSE b.data[i]], a.units, a.missing))
selectElse(c, a, val) ==
    Array([i \in DOMAIN a.data |-> IF REq(c.data[i], Rat(1)) THEN a.data[i] ELSE val], a.units, a.missing)
selectThen(c, val, b) ==
    Array([i \in DOMAIN b.data |-> IF REq(c.data[i], Rat(1)) THEN val ELSE b.data[i]], b.units, b.missing)

-----------------------------------------------------------------------------
(* An expression built up step by step on one array, with a second one as  *)
(* the other operand.  The outcome is the array after each step.           *)

Comparisons == {"<", ">", "<=", ">=", "==", "!="}
Two == Rat(2)

evalStep(a, op, y) ==
    CASE op \in {"+", "-"} -> AdditiveWE(op, a, y)
      [] op = "*" -> Done(MultiplicativeWE(op, unitsTimes(a.units, y.units), a, y))
      [] op = "/" -> Done(MultiplicativeWE(op, unitsOver(a.units, y.units), a, y))
      [] op = "+2" -> Done(UnitlessScalar("+", a, Two, a.units))
      [] op = "-2" -> Done(UnitlessScalar("-", a, Two, a.units))
      [] op = "*2" -> Done(UnitlessScalar("*", a, Two, a.units))
      [] op = "/2" -> Done(UnitlessScalar("/", a, Two, a.units))
      [] op = "raise" -> Done(raise(a, 2))
      [] op = "pow"   -> Done(powOf(a, 2, 1))
      [] op = "asUnits" -> asUnits(a, y.units)
      [] op = "cast" -> Done(cast(a))
      [] op \in Comparisons ->            \* (a op y).select(a, y)
            AndThen(ComparativeWE(op, a, y), LAMBDA c : selectArrays(c, a, y))
      [] op = "range" ->                  \* (a > 2 && a <= y).select(a, 2)
            AndThen(ComparativeWE("<=", a, y), LAMBDA c :
                Done(selectElse(logical("&&", ComparativeSC(">", a, Two), c), a, Two)))
      [] op = "fill" ->                   \* (a missing || y missing).select(2, a)
            Done(selectThen(logical("||", whereMissing(a), whereMissing(y)), Two, a))

evalMath(q) ==
    LET next(o, op) == AndThen(o, LAMBDA tr : AndThen(evalStep(Last(tr), op, q.y),
                                              LAMBDA a : Done(Append(tr, a))))
    IN  FoldLeft(next, Done(<<q.x>>), q.ops)

-----------------------------------------------------------------------------
(* ODB columns to SI units.  A conversion is a factor and an offset.       *)

unitConversionEquations ==
    ("celsius" :> <<Rat(1), <<27315, 100>> >>) @@ ("knot" :> << <<514444, 1000000>>, Rat(0)>>)
    @@ ("percentage" :> << <<1, 100>>, Rat(0)>>) @@ ("hectopascal" :> <<Rat(100), Rat(0)>>)
    @@ ("degree" :> << <<174533, 10000000>>, Rat(0)>>) @@ ("okta" :> << <<1, 8>>, Rat(0)>>)

equivalentSIUnit ==
    ("celsius" :> "kelvin") @@ ("knot" :> "meters per second") @@ ("percentage" :> "-")
    @@ ("hectopascal" :> "pascal") @@ ("degree" :> "radian") @@ ("okta" :> "-")

InSI(unit, x) == LET e == unitConversionEquations[unit] IN RAdd(RMul(x, e[1]), e[2])

convertColumn(unit, data) ==
    IF unit \in DOMAIN unitConversionEquations THEN Done([i \in DOMAIN data |-> InSI(unit, data[i])]) ELSE Thrown

getSIUnit(unit) == IF unit \in DOMAIN equivalentSIUnit THEN Done(equivalentSIUnit[unit]) ELSE Thrown

\* The variable keeps the name of the unit the mapping file gives.
convertOne_OldUnit(v) ==
    AndThen(convertColumn(v.unit, v.data), LAMBDA d : Done([v EXCEPT !.data = d, !.units = v.unit]))

\* The column is written only once all of it has been converted.
convertOne(v) ==
    AndThen(convertColumn(v.unit, v.data), LAMBDA d :
        AndThen(getSIUnit(v.unit), LAMBDA u : Done([v EXCEPT !.data = d, !.units = u])))

\* The exception of an unknown unit is not of the type the loop catches: the
\* variables after it are not converted.
convertVariableUnits(vars) ==
    LET next(s, v) ==
            IF s.thrown \/ ~v.mapped \/ v.unit = "" THEN [s EXCEPT !.vars = Append(@, v)]
            ELSE LET o == convertOne(v)
                 IN  [thrown |-> o.state # "done",
                      vars |-> Append(s.vars, IF o.state = "done" THEN o.val ELSE v)]
    IN  Done(FoldLeft(next, [thrown |-> FALSE, vars |-> <<>>], vars))

-----------------------------------------------------------------------------
(* The same expressions on quantities: a number of base units that may be  *)
(* absent.                                                                 *)

Quantity(a, i) == [miss |-> isMissing(a, i), n |-> RMul(a.data[i], a.units.factor)]
OfTwo(a) == [miss |-> FALSE, n |-> RMul(Two, a.units.factor)]

quantityStep(e, op, a, y) ==
    LET with(F(_, _), z) == [miss |-> e.miss \/ z.miss, n |-> F(e.n, z.n)]
        less == \/ op \in {"<", "<=", "!="} /\ RLess(e.n, y.n)
                \/ op \in {">", ">=", "!="} /\ RLess(y.n, e.n)
                \/ op \in {"<=", ">=", "=="} /\ REq(e.n, y.n)
    IN  CASE op = "+" -> with(RAdd, y)
          [] op = "-" -> with(RSub, y)
          [] op = "*" -> with(RMul, y)
          [] op \in {"/", "pow"} -> with(RDiv, y)
          [] op = "+2" -> with(RAdd, OfTwo(a))
          [] op = "-2" -> with(RSub, OfTwo(a))
          [] op = "*2" -> [e EXCEPT !.n = RMul(@, Two)]
          [] op = "/2" -> [e EXCEPT !.n = RDiv(@, Two)]
          [] op = "raise" -> [e EXCEPT !.n = RMul(@, @)]
          [] op \in {"asUnits", "cast"} -> e
          [] op \in Comparisons -> IF ~e.miss /\ ~y.miss /\ less THEN e ELSE y
          [] op = "range" -> IF ~e.miss /\ ~y.miss /\ RLess(OfTwo(a).n, e.n) /\ ~RLess(y.n, e.n)
                             THEN e ELSE OfTwo(a)
          [] op = "fill" -> IF e.miss \/ y.miss THEN OfTwo(a) ELSE e

\* What the steps make of element i.
QuantityAt(q, tr, i) ==
    FoldLeft(LAMBDA e, k : quantityStep(e, q.ops[k], tr[k], Quantity(q.y, i)),
             Quantity(q.x, i), [k \in DOMAIN q.ops |-> k])

\* An element of an expression is missing exactly when the elements it was
\* computed from say so, though each array marks missing values in its own way
\* and operations, conversions and selections change the marks (EigenMath's
\* operators).  A power is left out: it combines an array with itself.
MissingKept ==
    Returned("math") /\ ~Contains(call.q.ops, "pow") =>
        \A i \in DOMAIN call.q.x.data :
            isMissing(Last(out.val), i) = QuantityAt(call.q, out.val, i).miss

\* An expression that is evaluated without an exception has the value, in base
\* units, that the same expression of the quantities has: arrays in different
\* units are never added, compared or merged as plain numbers (AdditiveWE,
\* ComparativeWE, asUnits, Units::operator* and operator/).
QuantitiesRight ==
    Returned("math") /\ ~Contains(call.q.ops, "pow") /\ ~Contains(call.q.ops, "cast") =>
        \A i \in DOMAIN call.q.x.data :
            LET e == QuantityAt(call.q, out.val, i)
            IN  ~e.miss => REq(Quantity(Last(out.val), i).n, e.n)

ToConvert(v) == v.mapped /\ v.unit # ""
UnknownUnit(v) == ToConvert(v) /\ v.unit \notin DOMAIN unitConversionEquations

\* convertVariableUnits converts every variable whose unit it knows and names the SI
\* unit, up to the first unit it does not know; the numbers of every other variable
\* are left as they are and in the unit its attribute names, if it names one.  That
\* a unit it does not know is named, and that the variables behind it are converted,
\* is not claimed: see UnknownUnitStored.
UnitsTellTheTruth ==
    Returned("convert units") =>
        \A k \in DOMAIN call.q :
            LET v == call.q[k]
                w == out.val.vars[k]
            IN  IF ToConvert(v) /\ \A j \in 1 .. k : ~UnknownUnit(call.q[j])
                THEN /\ w.units = equivalentSIUnit[v.unit]
                     /\ \A i \in DOMAIN v.data : w.data[i] = InSI(v.unit, v.data[i])
                ELSE w.data = v.data /\ w.units \in {"", v.unit}

\* convertVariableUnits: "If conversion function not defined, stores unit as
\* attribute" (Has_Variables.h), and it goes on with the next variable.
UnknownUnitStored ==
    Returned("convert units") =>
        \A k \in DOMAIN call.q : UnknownUnit(call.q[k]) =>
            /\ out.val.vars[k].units = call.q[k].unit
            /\ out.val.vars[k].data = call.q[k].data

\* A number never parts from its unit and its missing value: in expressions of
\* arrays and in the conversion of columns (EigenMath, convertVariableUnits).
NumbersKeepUnits == MissingKept /\ QuantitiesRight /\ UnitsTellTheTruth
=============================================================================
