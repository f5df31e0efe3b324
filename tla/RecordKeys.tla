---------------------------- MODULE RecordKeys ----------------------------
(***************************************************************************)
(* The values that decide records and their order, as the reader and the   *)
(* ObsSpace convert them: the text keys by which locations are grouped     *)
(* into records (ObsFrameRead), and the single-precision sort values of    *)
(* the dateTime variable (ObsSpace::buildSortedObsGroups).                 *)
(*                                                                         *)
(* A text is the sequence of its characters, a number's text one symbol.   *)
(* Float values count in units of 10^-7.  Locations count from 1.          *)
(***************************************************************************)
EXTENDS Calls

IntVal(n) == [type |-> "int", n |-> n]
FloatVal(n) == [type |-> "float", n |-> n]
TextVal(s) == [type |-> "text", s |-> s]

\* std::to_string of a float has six decimals; a text is its own segment.
to_string(v) ==
    CASE v.type = "int" -> <<ToString(v.n)>>
      [] v.type = "float" -> <<ToString((v.n + 5) \div 10)>>
      [] v.type = "text" -> v.s

appendSegment_Bare(key, segment) == key \o segment

appendSegment(key, segment) == key \o <<":">> \o segment

\* The frame variable's value at each kept place of the frame.
groupVarValues(q, v, frame) ==
    [k \in DOMAIN frame.frameIndex |-> q.vars[v][frame.start + frame.frameIndex[k]]]

\* The keys of the locations of a frame that passed the filters.
buildObsGroupingKeys(q, frame) ==
    [j \in DOMAIN frame.frameIndex |->
        FoldLeft(LAMBDA key, v :
                    LET seg == to_string(groupVarValues(q, v, frame)[j])
                    IN  IF v = 1 THEN seg ELSE appendSegment(key, seg),
                 <<>>, [v \in DOMAIN q.vars |-> v])]

\* The kept places of the frame that starts behind location start.
frameAt(q, start) ==
    [start |-> start,
     frameIndex |-> SetToSortSeq({i \in 1 .. q.maxFrameSize :
                        start + i \in q.kept}, <)]

\* Over all frames: a record for every new key, numbered in order.
groupLocations(q) ==
    LET n == Len(q.vars[1])
        starts == [k \in 1 .. (n + q.maxFrameSize - 1) \div q.maxFrameSize |->
                      (k - 1) * q.maxFrameSize]
        keys == FlattenSeq([k \in DOMAIN starts |->
                    buildObsGroupingKeys(q, frameAt(q, starts[k]))])
        seen == FoldLeft(LAMBDA s, k : IF Contains(s, k) THEN s ELSE Append(s, k), <<>>, keys)
    IN  Done([j \in DOMAIN keys |-> CHOOSE r \in DOMAIN seen : seen[r] = keys[j]])

-----------------------------------------------------------------------------
(* dateTime sort values.  Times are seconds since 1970.                    *)

\* util::missingValue(util::DateTime()), 9996-02-29T23:58:57, is
\* MissingUnits * FarSpacing + MissingRest seconds.
missingDateTime == -1
FarSpacing == 16384
MissingUnits == 15459060
MissingRest == 15297

\* An int64_t below 2^31 in magnitude as a float: 24 bits, ties to even.
asFloat(n) ==
    LET m == IF n < 0 THEN -n ELSE n
        u == CHOOSE p \in {2 ^ e : e \in 0 .. 7} :
                m \div p < 2 ^ 24 /\ (p = 1 \/ m \div (p \div 2) >= 2 ^ 24)
        q == m \div u
        r == 2 * (m % u)
        up == IF r > u \/ (r = u /\ q % 2 = 1) THEN 1 ELSE 0
    IN  IF n < 0 THEN -((q + up) * u) ELSE (q + up) * u

\* Seconds from the missing time to a present one, as a float: its spacing at
\* that distance is FarSpacing, which is also the unit of this result.
asFloatFar(t) ==
    LET m == t - MissingRest
        q == m \div FarSpacing
        r == 2 * (m % FarSpacing)
        up == IF r > FarSpacing \/ (r = FarSpacing /\ (q - MissingUnits) % 2 # 0) THEN 1 ELSE 0
    IN  q + up - MissingUnits

\* Seconds from a present time to the missing one are beyond every other value.
SortBeyond == 2147483647

\* A sort value that counts from 1970 in the place of the first location's time.
SortValue_FromEpoch(q, i) ==
    IF q.dates[i] = missingDateTime THEN SortBeyond ELSE asFloat(q.dates[i])

SortValue(q, i) ==
    IF q.dates[1] = missingDateTime
    THEN IF q.dates[i] = missingDateTime THEN 0 ELSE asFloatFar(q.dates[i])
    ELSE IF q.dates[i] = missingDateTime THEN SortBeyond ELSE asFloat(q.dates[i] - q.dates[1])

\* A record of all locations, sorted in ascending order, ties in file order.
sortByDateTime(q) ==
    LET value == [i \in DOMAIN q.dates |-> SortValue(q, i)]
    IN  Done(SortSeq([i \in DOMAIN q.dates |-> i],
                     LAMBDA i, j : value[i] < value[j] \/ (value[i] = value[j] /\ i < j)))

-----------------------------------------------------------------------------

\* The j-th location that passes the filters, over all frames.
KeptAt(q, j) == SetToSortSeq(q.kept, <)[j]

Colon(v) == v.type = "text" /\ Contains(v.s, ":")
SixDecimals(v) == v.type = "float" => v.n % 10 = 0

\* Locations whose grouping values are equal are in one record, in whichever
\* frames they were read and whichever locations the filters dropped between
\* them.  Locations whose values differ are in different records, unless a text
\* holds the colon of the key or two floats differ beyond the sixth decimal
\* (ObsFrameRead::buildObsGroupingKeys, genRecordNumbersGrouping).
RecordsAreGroups ==
    Returned("group") =>
        LET q == call.q
            plain == \A v \in DOMAIN q.vars : \A i \in DOMAIN q.vars[v] :
                        ~Colon(q.vars[v][i]) /\ SixDecimals(q.vars[v][i])
        IN  /\ Len(out.val) = Cardinality(q.kept)
            /\ \A j, k \in DOMAIN out.val :
                 LET equal == \A v \in DOMAIN q.vars :
                                q.vars[v][KeptAt(q, j)] = q.vars[v][KeptAt(q, k)]
                 IN  /\ equal => out.val[j] = out.val[k]
                     /\ (plain /\ ~equal) => out.val[j] # out.val[k]

\* Locations within 2^24 seconds of the first location of the rank are sorted
\* by time exactly.  Farther ones are out of order by 128 seconds at most; when
\* the time of the first location is missing, all are by up to 16384 seconds
\* (ObsSpace::buildSortedObsGroups stores time differences as float).
TimesSorted ==
    Returned("sort dates") =>
        LET d == call.q.dates
            near(t) == d[1] # missingDateTime /\ t - d[1] \in -(2 ^ 24) .. 2 ^ 24
            slack(s, t) == IF near(s) /\ near(t) THEN 0
                           ELSE IF d[1] # missingDateTime THEN 128 ELSE FarSpacing
        IN  \A j, k \in DOMAIN out.val :
              LET s == d[out.val[j]]
                  t == d[out.val[k]]
              IN  (j < k /\ missingDateTime \notin {s, t}) => s <= t + slack(s, t)

\* The converted values decide as the values they come from: keys of the same group
\* are equal and others differ, sort values are in the order of the times.
KeysDecide == RecordsAreGroups /\ TimesSorted
=============================================================================
