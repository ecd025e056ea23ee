------------------------------ MODULE Calendar -------------------------------
(***************************************************************************)
(* The dates of the date picker: days, numbered from 1 January of year 1,  *)
(* what the browser's Date does with them, and how the picker moves a date *)
(* by months and reads one from a text. Months count from 0, as in Date.   *)
(***************************************************************************)
EXTENDS Integers, SequencesExt

Months == 0 .. 11

\* DPGlobal.isLeapYear and getDaysInMonth
isLeapYear(y) == (y % 4 = 0 /\ y % 100 # 0) \/ y % 400 = 0
getDaysInMonth(y, m) ==
    CASE m = 1 -> IF isLeapYear(y) THEN 29 ELSE 28
      [] m \in {3, 5, 8, 10} -> 30
      [] OTHER -> 31

\* The days before a year, and before a month of the year.
BeforeYear(y) ==
    LET years == y - 1
    IN  365 * years + years \div 4 - years \div 100 + years \div 400
BeforeMonth(y, m) ==
    <<0, 31, 59, 90, 120, 151, 181, 212, 243, 273, 304, 334, 365>>[m + 1]
        + (IF m > 1 /\ isLeapYear(y) THEN 1 ELSE 0)

\* UTCDate: months before January and after December count into other years, days before
\* the first and after the last into other months.
UTCDate(y, m, d) ==
    LET year == y + m \div 12
    IN  BeforeYear(year) + BeforeMonth(year, m % 12) + d - 1

\* getUTCFullYear, getUTCMonth, getUTCDate and getUTCDay (0 is Sunday)
YearOf(day) ==
    CHOOSE y \in (day \div 366 + 1) .. (day \div 365 + 1) :
        BeforeYear(y) <= day /\ day < BeforeYear(y + 1)
MonthOf(day) ==
    LET year == YearOf(day)
        before == day - BeforeYear(year)
    IN  CHOOSE m \in Months : BeforeMonth(year, m) <= before /\ before < BeforeMonth(year, m + 1)
DateOf(day) == day - UTCDate(YearOf(day), MonthOf(day), 1) + 1
WeekdayOf(day) == (day + 1) % 7

\* setUTCFullYear, setUTCMonth and setUTCDate
WithYear(day, y) == UTCDate(y, MonthOf(day), DateOf(day))
WithMonth(day, m) == UTCDate(YearOf(day), m, DateOf(day))
WithDate(day, d) == UTCDate(YearOf(day), MonthOf(day), d)

\* The months of all years in one row, and the month of a day in it.
MonthIndex(day) == 12 * YearOf(day) + MonthOf(day)
FirstOf(index) == UTCDate(index \div 12, index % 12, 1)
DaysIn(index) == getDaysInMonth(index \div 12, index % 12)

-----------------------------------------------------------------------------
\* "make it end of month": from date d of the month on down, the first that, set in the
\* month that the day has fallen into, comes back to month m when that is set.
ResetDate(day, d, m) ==
    LET at(i) == WithMonth(WithDate(day, i), m)
        back == {i \in 1 .. d - 1 : MonthOf(at(i)) = m}
    IN  IF MonthOf(day) = m THEN day ELSE at(Max(back \cup {0}))

\* Mutant: a date that the month does not have is one of the month after.
moveOneMonthOver(day, dir) == WithMonth(day, MonthOf(day) + dir)

\* Datepicker.moveMonth by one month, forward or back
moveOneMonth(day, dir) ==
    ResetDate(WithMonth(day, MonthOf(day) + dir), DateOf(day), (MonthOf(day) + dir) % 12)

\* Datepicker.moveMonth: by more months one by one, each move into the month after or
\* before, and back to the date at the beginning as far as the month has it.
moveMonth(day, dir) ==
    LET there == MonthIndex(day) + dir
    IN  IF dir \in {-1, 1} THEN moveOneMonth(day, dir)
        ELSE ResetDate(WithDate(FirstOf(there), DateOf(day)), DateOf(day), there % 12)

moveYear(day, dir) == moveMonth(day, 12 * dir)

\* What is meant by that: the same date of the other month, or the last there is.
MonthsLater(day, dir) ==
    LET index == MonthIndex(day) + dir
    IN  FirstOf(index) + (IF DateOf(day) <= DaysIn(index) THEN DateOf(day) ELSE DaysIn(index)) - 1

-----------------------------------------------------------------------------
\* DPGlobal.formatDate, with a format that has year, month and date
formatDate(day) == [y |-> YearOf(day), m |-> MonthOf(day) + 1, d |-> DateOf(day)]

\* A day moved by days, weeks, months or years.
MovedBy(day, dir, by) ==
    CASE by = "month" -> moveMonth(day, dir)
      [] by = "year" -> moveYear(day, dir)
      [] by = "week" -> day + 7 * dir
      [] OTHER -> day + dir

\* DPGlobal.parseDate of a text such as +1m -1d: it moves the present day, one part after
\* the other.
relativeDate(parts, today) ==
    FoldLeft(LAMBDA day, part : MovedBy(day, part.dir, part.by), today, parts)

\* The month of a day is set, and the day steps back from a month that has no such date.
InMonth(day, m) ==
    LET there == WithMonth(day, m)
        back == CHOOSE i \in 0 .. 3 :
                    MonthOf(there - i) = m /\ \A j \in 0 .. i - 1 : MonthOf(there - j) # m
    IN  there - back

\* Mutant: the month is set without stepping back into it.
parseDateOver(text, today) ==
    LET ofYear == IF "y" \in DOMAIN text THEN WithYear(today, text.y) ELSE today
        ofMonth == IF "m" \in DOMAIN text THEN WithMonth(ofYear, text.m - 1) ELSE ofYear
    IN  IF "d" \in DOMAIN text THEN WithDate(ofMonth, text.d) ELSE ofMonth

\* DPGlobal.parseDate of a text with as many parts as the format: it sets the year, the
\* month and then the date of the present day, each if that part of the text is a number.
parseDate(text, today) ==
    LET ofYear == IF "y" \in DOMAIN text THEN WithYear(today, text.y) ELSE today
        ofMonth == IF "m" \in DOMAIN text THEN InMonth(ofYear, (text.m - 1) % 12) ELSE ofYear
    IN  IF "d" \in DOMAIN text THEN WithDate(ofMonth, text.d) ELSE ofMonth
=============================================================================
