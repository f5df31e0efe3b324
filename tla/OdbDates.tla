------------------------------ MODULE OdbDates ------------------------------
(***************************************************************************)
(* Date and time columns of an ODB file, read into and written from        *)
(* MetaData/dateTime, which counts seconds from an epoch.  A date is a     *)
(* number yyyymmdd and a time a number hhmmss.                             *)
(***************************************************************************)
EXTENDS Calls

MissingDate == -1
Day == 86400

\* Days from the start of March of year 0, for a month from 1 to 12.
dayNumber(y, m, d) ==
    LET yy  == IF m <= 2 THEN y - 1 ELSE y
        doy == (153 * ((m + 9) % 12) + 2) \div 5 + d - 1
    IN  (yy \div 400) * 146097 + (yy % 400) * 365 + (yy % 400) \div 4 - (yy % 400) \div 100 + doy

\* The date with a number; the year is found first.
yearOfEra(doe) == (doe - doe \div 1460 + doe \div 36524 - doe \div 146096) \div 365

dateIn(y, doy) ==
    LET mp == (5 * doy + 2) \div 153
    IN  [y |-> IF mp < 10 THEN y ELSE y + 1, m |-> IF mp < 10 THEN mp + 3 ELSE mp - 9,
         d |-> doy - (153 * mp + 2) \div 5 + 1]

dateOfEra(era, doe, yoe) == dateIn(400 * era + yoe, doe - (365 * yoe + yoe \div 4 - yoe \div 100))

civilDate(n) == dateOfEra(n \div 146097, n % 146097, yearOfEra(n % 146097))

\* util::DateTime as seconds of the same clock.
dateTimeOf(y, m, d, secs) == [day |-> dayNumber(y, m, d), secs |-> secs]

Before(a, b) == a.day < b.day \/ (a.day = b.day /\ a.secs < b.secs)

plusSeconds(t, s) == [day |-> t.day + ((t.secs + s) \div Day), secs |-> (t.secs + s) % Day]

secondsBetween(a, b) == (a.day - b.day) * Day + a.secs - b.secs

-----------------------------------------------------------------------------
(* DataFromSQL::getDates, for one location.                                *)

\* Moves every late observation, however old, to the start of the window.
intoWindow_Unbounded(t, window) ==
    IF window.extended /\ ~Before(window.start, t) THEN window.start ELSE t

\* Observations between the extended lower bound and the start of the window are
\* moved to the start.
intoWindow(t, window) ==
    IF window.extended /\ Before(window.lower, t) /\ ~Before(window.start, t)
    THEN window.start ELSE t

getDate(date, time, displacement, epoch, window) ==
    LET y == date \div 10000
        m == (date \div 100) - y * 100
        d == date - 10000 * y - 100 * m
        h == time \div 10000
        mi == (time \div 100) - h * 100
        s == time - 10000 * h - 100 * mi
        t == plusSeconds(dateTimeOf(y, m, d, h * 3600 + mi * 60 + s), displacement)
    IN  IF date = MissingDate \/ time = MissingDate THEN MissingDate
        ELSE secondsBetween(intoWindow(t, window), epoch)

NoWindow == [extended |-> FALSE]

getDates(q) ==
    IF q.window.extended /\ Before(q.window.start, q.window.lower) THEN Thrown
    ELSE Done([dateTime |-> getDate(q.date, q.time, q.displacement, q.epoch, q.window),
               \* no window and no displacement
               initialDateTime |-> getDate(q.date, q.time, 0, q.epoch, NoWindow)])

-----------------------------------------------------------------------------
(* readColumn for the columns date and time.  The C library's timegm       *)
(* takes months from 0 and years from 1900, the code gives it months from  *)
(* 1 and years from 0.                                                     *)

\* timegm: the fields put in range, as a civil date of the library's calendar.
brokenDown(c, sec) == [year |-> c.y - 1900, mon |-> c.m - 1, mday |-> c.d, sec |-> sec]

timegm(tm) ==
    brokenDown(civilDate(dayNumber(1900 + tm.year + tm.mon \div 12, (tm.mon % 12) + 1, tm.mday)
                         + tm.sec \div Day),
               tm.sec % Day)

shifted(offset, epoch) ==
    timegm([year |-> epoch.y, mon |-> epoch.m, mday |-> epoch.d, sec |-> epoch.secs + offset])

yyyymmdd(tm) == tm.year * 10000 + tm.mon * 100 + tm.mday

hhmmss(s) == (s \div 3600) * 10000 + ((s \div 60) % 60) * 100 + (s % 60)

\* The low word of the fill value of dateTime, -2^63 + 2.
FillLowWord == 2

\* The check for a missing time compares the offset with the fill value taken for a
\* float, which is no whole number: it never holds, and the low word of the fill
\* value becomes an offset.
asInt(offset) == IF offset = MissingDate THEN FillLowWord ELSE offset

readDateColumn(offset, epoch) == yyyymmdd(shifted(asInt(offset), epoch))

\* Drops the hours of the epoch.
readTimeColumn_NoEpochHours(offset, epoch) == hhmmss(shifted(asInt(offset), [epoch EXCEPT !.secs = 0]).sec)

readTimeColumn(offset, epoch) == hhmmss(shifted(asInt(offset), epoch).sec)

epochTime(epoch) == dateTimeOf(epoch.y, epoch.m, epoch.d, epoch.secs)

\* A dateTime written to an ODB file and read back with the same epoch.
writtenThenRead(epoch, date, time) ==
    Done([date |-> date, time |-> time, back |-> getDate(date, time, 0, epochTime(epoch), NoWindow)])

exportThenImportDate(q) ==
    writtenThenRead(q.epoch, readDateColumn(q.offset, q.epoch), readTimeColumn(q.offset, q.epoch))

-----------------------------------------------------------------------------
(* Properties.                                                             *)

\* An observation keeps its time of day through an ODB file: whatever the date
\* column says, readColumn's time column and getDates agree to the second.  Missing
\* times are excepted: they come back as times of the epoch's day.
TimeOfDaySurvives ==
    Returned("export date") /\ call.q.offset # MissingDate =>
        (out.val.back - call.q.offset) % Day = 0

\* The date and the time that readColumn writes, read back by getDates, are the
\* dateTime that was written.  The code says that its offset calendar does not
\* matter (ODC.cpp:448).
DateSurvives ==
    Returned("export date") /\ call.q.offset # MissingDate => out.val.back = call.q.offset

\* The extended lower bound moves observations forward in time only, never past
\* the start of the window, and leaves those at or before the bound alone; an
\* observation without a time displacement has its original time in
\* initialDateTime.
WindowMovesForwardOnly ==
    Returned("dates") /\ call.q.date # MissingDate /\ call.q.time # MissingDate =>
        LET original == out.val.initialDateTime + call.q.displacement
            rel(t) == secondsBetween(t, call.q.epoch)
        IN  /\ out.val.dateTime >= original
            /\ out.val.dateTime > original =>
                /\ out.val.dateTime = rel(call.q.window.start)
                /\ original > rel(call.q.window.lower)
            /\ call.q.displacement = 0 /\ ~call.q.window.extended =>
                out.val.dateTime = out.val.initialDateTime
=============================================================================
