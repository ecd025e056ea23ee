---------------------------- MODULE PickersProofs ----------------------------
(***************************************************************************)
(* For any options, limits, texts and dates: the date picker moves by      *)
(* whole months, reads back what it writes, chooses what a cell shows and  *)
(* only what is allowed; a range of any length keeps its order; and so on  *)
(* a page with both and a slider. First, what the calendar computes.       *)
(***************************************************************************)
EXTENDS Pickers, TLAPS, WellFoundedInduction

-----------------------------------------------------------------------------
(* Years.                                                                  *)

Leap(y) == IF isLeapYear(y) THEN 1 ELSE 0

LEMMA YearLength ==
    ASSUME NEW y \in Int
    PROVE  /\ BeforeYear(y) \in Int
           /\ BeforeYear(y + 1) = BeforeYear(y) + 365 + Leap(y)
BY DEF BeforeYear, Leap, isLeapYear

LEMMA YearsGrow ==
    ASSUME NEW y \in Int, NEW z \in Int, y < z
    PROVE  BeforeYear(y + 1) <= BeforeYear(z)
BY DEF BeforeYear

LEMMA YearBounds ==
    ASSUME NEW y \in Nat \ {0}
    PROVE  365 * (y - 1) <= BeforeYear(y) /\ BeforeYear(y + 1) <= 366 * y
BY DEF BeforeYear

\* The year of a day is the one that it is in.
LEMMA YearOfIs ==
    ASSUME NEW day \in Nat, NEW y \in Nat \ {0}, BeforeYear(y) <= day, day < BeforeYear(y + 1)
    PROVE  YearOf(day) = y
<1> DEFINE P(z) == BeforeYear(z) <= day /\ day < BeforeYear(z + 1)
           S == (day \div 366 + 1) .. (day \div 365 + 1)
<1>1. y \in S
    <2>1. BeforeYear(y) \in Int /\ BeforeYear(y + 1) \in Int
        BY YearLength
    <2>2. 365 * (y - 1) <= day /\ day < 366 * y
        BY <2>1, YearBounds
    <2> QED BY <2>2
<1>2. ASSUME NEW z \in S, P(z) PROVE z = y
    <2>1. z \in Int
        OBVIOUS
    <2>2. BeforeYear(z) \in Int /\ BeforeYear(y) \in Int /\ BeforeYear(z + 1) \in Int
          /\ BeforeYear(y + 1) \in Int
        BY <2>1, YearLength
    <2>3. ~(z < y)
        BY <1>2, <2>1, <2>2, YearsGrow
    <2>4. ~(y < z)
        BY <1>2, <2>1, <2>2, YearsGrow
    <2> QED BY <2>1, <2>3, <2>4
<1>3. P(y)
    OBVIOUS
<1>4. (CHOOSE z \in S : P(z)) = y
    <2> HIDE DEF S, P
    <2> QED BY <1>1, <1>2, <1>3
<1> QED BY <1>4 DEF YearOf

LEMMA LeastExists ==
    ASSUME NEW T \in SUBSET Nat, NEW n \in T
    PROVE  \E least \in T : \A k \in T : least <= k
<1> DEFINE R == {ss \in Nat \X Nat : ss[1] < ss[2]}
<1>1. IsWellFoundedOn(R, Nat)
    BY NatLessThanWellFounded DEF OpToRel
<1>2. PICK least \in T : \A y \in T : ~ (<<y, least>> \in R)
    <2> HIDE DEF R
    <2> QED BY <1>1, WFMin, Zenon
<1>3. \A y \in T : <<y, least>> \in Nat \X Nat
    OBVIOUS
<1>4. \A y \in T : ~(y < least)
    BY <1>2, <1>3
<1> QED BY <1>4

\* Every day has a year.
LEMMA YearExists ==
    ASSUME NEW day \in Nat
    PROVE  /\ YearOf(day) \in Nat \ {0}
           /\ BeforeYear(YearOf(day)) <= day /\ day < BeforeYear(YearOf(day) + 1)
<1> DEFINE T == {y \in Nat \ {0} : day < BeforeYear(y + 1)}
<1>1. day + 1 \in T
    BY DEF BeforeYear
<1>2. PICK y \in T : \A k \in T : y <= k
    <2> HIDE DEF T
    <2>1. T \in SUBSET Nat
        BY DEF T
    <2> QED BY <1>1, <2>1, LeastExists
<1>3. BeforeYear(y) <= day
    <2>1. CASE y = 1
        BY <2>1 DEF BeforeYear
    <2>2. CASE y # 1
        <3>1. y - 1 \in Nat \ {0} /\ y - 1 \notin T
            BY <1>2, <2>2
        <3>2. BeforeYear(y) \in Int
            BY YearLength
        <3> QED BY <3>1, <3>2
    <2> QED BY <2>1, <2>2
<1> QED BY <1>2, <1>3, YearOfIs

-----------------------------------------------------------------------------
(* Months.                                                                 *)

LEMMA MonthTable ==
    ASSUME NEW y
    PROVE  /\ BeforeMonth(y, 0) = 0 /\ BeforeMonth(y, 1) = 31
           /\ BeforeMonth(y, 2) = 59 + Leap(y) /\ BeforeMonth(y, 3) = 90 + Leap(y)
           /\ BeforeMonth(y, 4) = 120 + Leap(y) /\ BeforeMonth(y, 5) = 151 + Leap(y)
           /\ BeforeMonth(y, 6) = 181 + Leap(y) /\ BeforeMonth(y, 7) = 212 + Leap(y)
           /\ BeforeMonth(y, 8) = 243 + Leap(y) /\ BeforeMonth(y, 9) = 273 + Leap(y)
           /\ BeforeMonth(y, 10) = 304 + Leap(y) /\ BeforeMonth(y, 11) = 334 + Leap(y)
           /\ BeforeMonth(y, 12) = 365 + Leap(y)
BY DEF BeforeMonth, Leap

LEMMA LeapIs == ASSUME NEW y PROVE Leap(y) \in {0, 1}
BY DEF Leap

LEMMA MonthLength ==
    ASSUME NEW y, NEW m \in Months
    PROVE  /\ getDaysInMonth(y, m) \in 28 .. 31
           /\ BeforeMonth(y, m) \in 0 .. 366
           /\ BeforeMonth(y, m + 1) = BeforeMonth(y, m) + getDaysInMonth(y, m)
<1>1. m \in {0, 1, 2, 3, 4, 5, 6, 7, 8, 9, 10, 11}
    BY DEF Months
<1>2. getDaysInMonth(y, m) = IF m = 1 THEN 28 + Leap(y)
                             ELSE IF m \in {3, 5, 8, 10} THEN 30 ELSE 31
    BY DEF getDaysInMonth, Leap
<1> QED BY <1>1, <1>2, MonthTable, LeapIs

\* A month that is not of 31 days lies between two of 31 in its year.
LEMMA ShortMonth ==
    ASSUME NEW y, NEW z, NEW m \in Months, getDaysInMonth(y, m) # 31
    PROVE  m \in 1 .. 10 /\ getDaysInMonth(z, m + 1) = 31
BY DEF Months, getDaysInMonth

LEMMA MonthsGrow ==
    ASSUME NEW y, NEW m \in Months, NEW n \in Months, m < n
    PROVE  BeforeMonth(y, m + 1) <= BeforeMonth(y, n)
<1>1. /\ m \in {0, 1, 2, 3, 4, 5, 6, 7, 8, 9, 10, 11}
      /\ n \in {0, 1, 2, 3, 4, 5, 6, 7, 8, 9, 10, 11}
    BY DEF Months
<1> QED BY <1>1, MonthTable, LeapIs

\* The month of a day, and its date, are those that it was made of.
LEMMA RoundTrip ==
    ASSUME NEW y \in Nat \ {0}, NEW m \in Months, NEW d \in 1 .. getDaysInMonth(y, m)
    PROVE  LET day == UTCDate(y, m, d)
           IN  day \in Nat /\ YearOf(day) = y /\ MonthOf(day) = m /\ DateOf(day) = d
<1> DEFINE day == UTCDate(y, m, d)
           before == BeforeMonth(y, m) + d - 1
<1>1. m \in Int /\ m \div 12 = 0 /\ m % 12 = m
    BY DEF Months
<1>2. BeforeYear(y) \in Nat
    <2>1. BeforeYear(y) \in Int /\ 365 * (y - 1) <= BeforeYear(y)
        BY YearLength, YearBounds
    <2> QED BY <2>1
<1>3. /\ BeforeMonth(y, m) \in 0 .. 366 /\ d \in Int
      /\ getDaysInMonth(y, m) \in Int /\ d <= getDaysInMonth(y, m) /\ d >= 1
      /\ BeforeMonth(y, m + 1) = BeforeMonth(y, m) + getDaysInMonth(y, m)
    BY MonthLength
<1>4. day = BeforeYear(y) + before
    BY <1>1, <1>2, <1>3 DEF UTCDate
<1>5. before >= BeforeMonth(y, m) /\ before < BeforeMonth(y, m + 1) /\ before \in Nat
    BY <1>3
<1>6. BeforeMonth(y, m + 1) <= 365 + Leap(y)
    <2>1. CASE m = 11
        BY <2>1, MonthTable, LeapIs
    <2>2. CASE m # 11
        <3>1. BeforeMonth(y, m + 1) <= BeforeMonth(y, 11) /\ BeforeMonth(y, 11) = 334 + Leap(y)
            <4>1. CASE m + 1 = 11
                BY <4>1, MonthTable, LeapIs
            <4>2. CASE m + 1 # 11
                BY <2>2, <4>2, MonthsGrow, MonthTable DEF Months
            <4> QED BY <4>1, <4>2
        <3> QED BY <1>3, <3>1, LeapIs
    <2> QED BY <2>1, <2>2
<1>7. BeforeYear(y + 1) = BeforeYear(y) + 365 + Leap(y)
    BY YearLength
<1> HIDE DEF before, day
<1>8. day \in Nat /\ BeforeYear(y) <= day /\ day < BeforeYear(y + 1)
    BY <1>2, <1>3, <1>4, <1>5, <1>6, <1>7, LeapIs
<1>9. YearOf(day) = y
    BY <1>8, YearOfIs
<1>10. MonthOf(day) = m
    <2> DEFINE P(n) == BeforeMonth(y, n) <= before /\ before < BeforeMonth(y, n + 1)
    <2>1. day - BeforeYear(y) = before
        BY <1>2, <1>4, <1>5
    <2>2. P(m)
        BY <1>5
    <2>3. ASSUME NEW n \in Months, P(n) PROVE n = m
        <3>1. /\ BeforeMonth(y, n) \in Int /\ BeforeMonth(y, n + 1) \in Int
              /\ m \in Int /\ n \in Int
            <4>1. /\ BeforeMonth(y, n) \in 0 .. 366 /\ getDaysInMonth(y, n) \in 28 .. 31
                  /\ BeforeMonth(y, n + 1) = BeforeMonth(y, n) + getDaysInMonth(y, n)
                BY MonthLength
            <4> QED BY <1>1, <4>1 DEF Months
        <3>2. ~(n < m)
            BY <1>3, <1>5, <2>3, <3>1, MonthsGrow
        <3>3. ~(m < n)
            BY <1>3, <1>5, <2>3, <3>1, MonthsGrow
        <3> QED BY <3>1, <3>2, <3>3
    <2>4. MonthOf(day) = CHOOSE n \in Months : P(n)
        BY <1>9, <2>1 DEF MonthOf
    <2> HIDE DEF P
    <2> QED BY <2>2, <2>3, <2>4
<1>11. DateOf(day) = d
    <2>1. UTCDate(y, m, 1) = BeforeYear(y) + BeforeMonth(y, m) + 1 - 1
        BY <1>1 DEF UTCDate
    <2>2. DateOf(day) = day - UTCDate(y, m, 1) + 1
        BY <1>9, <1>10 DEF DateOf
    <2>3. day = BeforeYear(y) + (BeforeMonth(y, m) + d - 1)
        BY <1>4 DEF before
    <2> QED BY <1>2, <1>3, <2>1, <2>2, <2>3
<1> QED BY <1>8, <1>9, <1>10, <1>11 DEF day

\* Every day has a month and a date.
LEMMA DayParts ==
    ASSUME NEW day \in Nat
    PROVE  /\ YearOf(day) \in Nat \ {0} /\ MonthOf(day) \in Months
           /\ DateOf(day) \in 1 .. getDaysInMonth(YearOf(day), MonthOf(day))
           /\ day = UTCDate(YearOf(day), MonthOf(day), DateOf(day))
<1> DEFINE y == YearOf(day)
           before == day - BeforeYear(y)
<1>1. y \in Nat \ {0} /\ BeforeYear(y) <= day /\ day < BeforeYear(y + 1)
    BY YearExists
<1>2. BeforeYear(y) \in Int /\ BeforeYear(y + 1) = BeforeYear(y) + 365 + Leap(y)
    BY <1>1, YearLength
<1> HIDE DEF y
<1>3. before \in Nat /\ before < 365 + Leap(y)
    BY <1>1, <1>2, LeapIs
<1> HIDE DEF before
<1>4. PICK m \in Months : BeforeMonth(y, m) <= before /\ before < BeforeMonth(y, m + 1)
    <2>1. \E m \in {0, 1, 2, 3, 4, 5, 6, 7, 8, 9, 10, 11} :
              BeforeMonth(y, m) <= before /\ before < BeforeMonth(y, m + 1)
        BY <1>3, MonthTable, LeapIs
    <2> QED BY <2>1 DEF Months
<1> DEFINE d == before - BeforeMonth(y, m) + 1
<1>5. d \in 1 .. getDaysInMonth(y, m)
    BY <1>3, <1>4, MonthLength
<1>6. day = UTCDate(y, m, d)
    <2>1. m \in Int /\ m \div 12 = 0 /\ m % 12 = m /\ BeforeMonth(y, m) \in Int
        BY MonthLength DEF Months
    <2>2. UTCDate(y, m, d) = BeforeYear(y) + BeforeMonth(y, m) + d - 1
        BY <1>1, <2>1 DEF UTCDate
    <2>3. day = BeforeYear(y) + before
        BY <1>2 DEF before
    <2> QED BY <1>2, <1>3, <2>1, <2>2, <2>3
<1> HIDE DEF d
<1>7. MonthOf(day) = m /\ DateOf(day) = d
    BY <1>1, <1>5, <1>6, RoundTrip
<1> QED BY <1>1, <1>5, <1>6, <1>7 DEF y

-----------------------------------------------------------------------------
(* The months of all years in one row.                                     *)

LEMMA Twelve ==
    ASSUME NEW index \in Int
    PROVE  /\ index \div 12 \in Int /\ index % 12 \in Months
           /\ index = 12 * (index \div 12) + (index % 12)
BY DEF Months

LEMMA TwelveParts ==
    ASSUME NEW y \in Int, NEW m \in Months
    PROVE  (12 * y + m) \div 12 = y /\ (12 * y + m) % 12 = m
BY DEF Months

LEMMA RowOfMonths ==
    ASSUME NEW y \in Int, NEW m \in Int, NEW d \in Int
    PROVE  UTCDate(y, m, d) = FirstOf(12 * y + m) + d - 1 /\ UTCDate(y, m, d) \in Int
<1> DEFINE index == 12 * y + m
           year == y + m \div 12
           month == m % 12
<1>1. index \div 12 = year /\ index % 12 = month /\ year \in Int /\ month \in Months
    BY DEF Months
<1> HIDE DEF index, year, month
<1>2. month \in Int /\ month \div 12 = 0 /\ month % 12 = month
    BY <1>1 DEF Months
<1>3. BeforeYear(year) \in Int /\ BeforeMonth(year, month) \in Int
    <2>1. BeforeMonth(year, month) \in 0 .. 366
        BY <1>1, MonthLength
    <2>2. BeforeYear(year) \in Int
        BY <1>1, YearLength
    <2> QED BY <2>1, <2>2
<1>4. UTCDate(y, m, d) = BeforeYear(year) + BeforeMonth(year, month) + d - 1
    BY DEF UTCDate, year, month
<1>5. FirstOf(index) = BeforeYear(year) + BeforeMonth(year, month) + 1 - 1
    BY <1>1, <1>2 DEF FirstOf, UTCDate
<1> QED BY <1>3, <1>4, <1>5 DEF index

LEMMA FirstTyped == ASSUME NEW index \in Int PROVE FirstOf(index) \in Int
<1>1. index \div 12 \in Int /\ index % 12 \in Int
    BY Twelve DEF Months
<1> QED BY <1>1, RowOfMonths DEF FirstOf

\* The day that is a date of a month.
LEMMA InRow ==
    ASSUME NEW index \in Nat, index >= 12, NEW d \in 1 .. DaysIn(index)
    PROVE  LET day == FirstOf(index) + d - 1
           IN  /\ day \in Nat /\ MonthIndex(day) = index /\ DateOf(day) = d
               /\ YearOf(day) = index \div 12 /\ MonthOf(day) = index % 12
<1> DEFINE y == index \div 12
           m == index % 12
<1>1. y \in Nat \ {0} /\ m \in Months /\ index = 12 * y + m
    BY Twelve
<1>2. d \in 1 .. getDaysInMonth(y, m) /\ d \in Int
    BY <1>1, MonthLength DEF DaysIn
<1> HIDE DEF y, m
<1>3. UTCDate(y, m, d) = FirstOf(index) + d - 1
    BY <1>1, <1>2, RowOfMonths DEF Months
<1> QED BY <1>1, <1>2, <1>3, RoundTrip DEF MonthIndex, y, m

\* Every day is a date of a month.
LEMMA DayInRow ==
    ASSUME NEW day \in Nat
    PROVE  /\ MonthIndex(day) \in Nat /\ MonthIndex(day) >= 12
           /\ MonthIndex(day) = 12 * YearOf(day) + MonthOf(day)
           /\ MonthIndex(day) \div 12 = YearOf(day) /\ MonthIndex(day) % 12 = MonthOf(day)
           /\ DateOf(day) \in 1 .. DaysIn(MonthIndex(day))
           /\ day = FirstOf(MonthIndex(day)) + DateOf(day) - 1
<1>1. /\ YearOf(day) \in Nat \ {0} /\ MonthOf(day) \in Months
      /\ DateOf(day) \in 1 .. getDaysInMonth(YearOf(day), MonthOf(day))
      /\ day = UTCDate(YearOf(day), MonthOf(day), DateOf(day))
    BY DayParts
<1>2. MonthIndex(day) = 12 * YearOf(day) + MonthOf(day)
    BY DEF MonthIndex
<1>3. MonthIndex(day) \in Nat /\ MonthIndex(day) >= 12
    BY <1>1, <1>2 DEF Months
<1>4. MonthIndex(day) \div 12 = YearOf(day) /\ MonthIndex(day) % 12 = MonthOf(day)
    BY <1>1, <1>2, TwelveParts
<1>5. DateOf(day) \in Int /\ MonthOf(day) \in Int
    BY <1>1, MonthLength DEF Months
<1>6. day = FirstOf(MonthIndex(day)) + DateOf(day) - 1
    <2> DEFINE y == YearOf(day)
               m == MonthOf(day)
               d == DateOf(day)
    <2>1. y \in Int /\ m \in Int /\ d \in Int
        BY <1>1, <1>5
    <2>2. UTCDate(y, m, d) = FirstOf(12 * y + m) + d - 1
        BY <2>1, RowOfMonths
    <2>3. UTCDate(YearOf(day), MonthOf(day), DateOf(day))
              = FirstOf(MonthIndex(day)) + DateOf(day) - 1
        BY <1>2, <2>2
    <2> QED BY <1>1, <2>3
<1> QED BY <1>1, <1>2, <1>3, <1>4, <1>6 DEF DaysIn

\* Months follow on one another, and after one of less than 31 days comes one of 31 in
\* the same year.
LEMMA MonthFollows ==
    ASSUME NEW index \in Int
    PROVE  /\ DaysIn(index) \in 28 .. 31
           /\ FirstOf(index + 1) = FirstOf(index) + DaysIn(index)
           /\ DaysIn(index) # 31 =>
                  /\ DaysIn(index + 1) = 31
                  /\ (index + 1) \div 12 = index \div 12
                  /\ (index + 1) % 12 # index % 12
<1> DEFINE y == index \div 12
           m == index % 12
<1>1. y \in Int /\ m \in Months /\ index = 12 * y + m /\ m \in Int /\ m + 1 \in Int
    BY Twelve DEF Months
<1>2. /\ getDaysInMonth(y, m) \in 28 .. 31 /\ BeforeMonth(y, m) \in Int
      /\ BeforeMonth(y, m + 1) = BeforeMonth(y, m) + getDaysInMonth(y, m)
    BY <1>1, MonthLength
<1>3. DaysIn(index) = getDaysInMonth(y, m)
    BY DEF DaysIn
<1> HIDE DEF y, m
<1>4. FirstOf(index) = BeforeYear(y) + BeforeMonth(y, m) /\ BeforeYear(y) \in Int
    <2>1. m \div 12 = 0 /\ m % 12 = m
        BY <1>1 DEF Months
    <2>2. FirstOf(index) = BeforeYear(y) + BeforeMonth(y, m) + 1 - 1
        BY <1>1, <2>1 DEF FirstOf, UTCDate, y, m
    <2> QED BY <1>1, <1>2, <2>2, YearLength
<1>5. FirstOf(index + 1) = BeforeYear(y) + BeforeMonth(y, m + 1)
    <2>1. CASE m = 11
        <3>1. (index + 1) \div 12 = y + 1 /\ (index + 1) % 12 = 0
            BY <1>1, <2>1
        <3>2. FirstOf(index + 1) = BeforeYear(y + 1) + BeforeMonth(y + 1, 0) + 1 - 1
            <4>1. 0 \div 12 = 0 /\ 0 % 12 = 0 /\ y + 1 + 0 = y + 1
                BY <1>1
            <4> QED BY <3>1, <4>1 DEF FirstOf, UTCDate
        <3>3. BeforeMonth(y + 1, 0) = 0 /\ BeforeMonth(y, m + 1) = 365 + Leap(y)
            BY <2>1, MonthTable
        <3>4. BeforeYear(y + 1) = BeforeYear(y) + 365 + Leap(y) /\ Leap(y) \in Int
            BY <1>1, YearLength, LeapIs
        <3> QED BY <1>4, <3>2, <3>3, <3>4
    <2>2. CASE m # 11
        <3>1. m + 1 \in Months /\ index + 1 = 12 * y + (m + 1)
            BY <1>1, <2>2 DEF Months
        <3>2. (index + 1) \div 12 = y /\ (index + 1) % 12 = m + 1
            BY <1>1, <3>1, TwelveParts
        <3>3. (m + 1) \div 12 = 0 /\ (m + 1) % 12 = m + 1
            BY <3>1 DEF Months
        <3>4. FirstOf(index + 1) = BeforeYear(y) + BeforeMonth(y, m + 1) + 1 - 1
            BY <1>1, <3>2, <3>3 DEF FirstOf, UTCDate
        <3> QED BY <1>2, <1>4, <3>4
    <2> QED BY <2>1, <2>2
<1>6. ASSUME DaysIn(index) # 31
      PROVE  /\ DaysIn(index + 1) = 31
             /\ (index + 1) \div 12 = index \div 12
             /\ (index + 1) % 12 # index % 12
    <2>1. m \in 1 .. 10 /\ getDaysInMonth(y, m + 1) = 31
        BY <1>1, <1>3, <1>6, ShortMonth
    <2>2. m + 1 \in Months /\ index + 1 = 12 * y + (m + 1)
        BY <1>1, <2>1 DEF Months
    <2>3. (index + 1) \div 12 = y /\ (index + 1) % 12 = m + 1
        BY <1>1, <2>2, TwelveParts
    <2> QED BY <1>1, <2>1, <2>3 DEF DaysIn, y, m
<1> QED BY <1>2, <1>3, <1>4, <1>5, <1>6

-----------------------------------------------------------------------------
(* Days moved by months.                                                   *)

\* What setUTCFullYear, setUTCMonth and setUTCDate come to.
LEMMA Setters ==
    ASSUME NEW day \in Nat, NEW n \in Int
    PROVE  /\ WithYear(day, n) = FirstOf(12 * n + MonthOf(day)) + DateOf(day) - 1
           /\ WithMonth(day, n) = FirstOf(12 * YearOf(day) + n) + DateOf(day) - 1
           /\ WithDate(day, n) = FirstOf(MonthIndex(day)) + n - 1
           /\ WithYear(day, n) \in Int /\ WithMonth(day, n) \in Int /\ WithDate(day, n) \in Int
<1> DEFINE y == YearOf(day)
           m == MonthOf(day)
           d == DateOf(day)
<1>1. y \in Int /\ m \in Int
    BY DayParts DEF Months
<1>2. d \in Int
    <2>1. d \in 1 .. DaysIn(MonthIndex(day)) /\ MonthIndex(day) \in Int
        BY DayInRow
    <2>2. DaysIn(MonthIndex(day)) \in 28 .. 31
        BY <2>1, MonthFollows
    <2> QED BY <2>1, <2>2
<1>3. MonthIndex(day) = 12 * y + m
    BY DEF MonthIndex
<1> HIDE DEF y, m, d
<1>4. UTCDate(n, m, d) = FirstOf(12 * n + m) + d - 1 /\ UTCDate(n, m, d) \in Int
    BY <1>1, <1>2, RowOfMonths
<1>5. UTCDate(y, n, d) = FirstOf(12 * y + n) + d - 1 /\ UTCDate(y, n, d) \in Int
    BY <1>1, <1>2, RowOfMonths
<1>6. UTCDate(y, m, n) = FirstOf(12 * y + m) + n - 1 /\ UTCDate(y, m, n) \in Int
    BY <1>1, RowOfMonths
<1> QED BY <1>3, <1>4, <1>5, <1>6 DEF WithYear, WithMonth, WithDate, y, m, d

\* A date up to 31 of a month is in it or, if the month is too short, the first in the
\* next.
LEMMA Overflow ==
    ASSUME NEW index \in Nat, index >= 12, NEW d \in 1 .. 31
    PROVE  LET day == FirstOf(index) + d - 1
           IN  /\ day \in Nat /\ YearOf(day) = index \div 12
               /\ d <= DaysIn(index) => MonthIndex(day) = index /\ DateOf(day) = d
               /\ d > DaysIn(index) =>
                      MonthIndex(day) = index + 1 /\ DateOf(day) = d - DaysIn(index)
<1> DEFINE day == FirstOf(index) + d - 1
<1>1. /\ DaysIn(index) \in 28 .. 31 /\ FirstOf(index) \in Int
      /\ FirstOf(index + 1) = FirstOf(index) + DaysIn(index)
    BY MonthFollows, FirstTyped
<1>2. CASE d <= DaysIn(index)
    <2>1. d \in 1 .. DaysIn(index)
        BY <1>1, <1>2
    <2> QED BY <1>1, <1>2, <2>1, InRow
<1>3. CASE d > DaysIn(index)
    <2>1. DaysIn(index) # 31
        BY <1>1, <1>3
    <2>2. DaysIn(index + 1) = 31 /\ (index + 1) \div 12 = index \div 12
        BY <2>1, MonthFollows
    <2> DEFINE e == d - DaysIn(index)
               next == index + 1
    <2>3. e \in 1 .. DaysIn(next) /\ next \in Nat /\ next >= 12
        BY <1>1, <1>3, <2>2
    <2>4. FirstOf(next) + e - 1 = day
        BY <1>1
    <2> HIDE DEF e, next, day
    <2>5. day \in Nat /\ MonthIndex(day) = next /\ DateOf(day) = e /\ YearOf(day) = next \div 12
        BY <2>3, <2>4, InRow
    <2>6. ~(d <= DaysIn(index))
        BY <1>1, <1>3
    <2> QED BY <1>3, <2>2, <2>5, <2>6 DEF e, next, day
<1> QED BY <1>1, <1>2, <1>3

\* Stepping back from the month after comes to the last date of the month.
LEMMA ResetIs ==
    ASSUME NEW index \in Nat, index >= 12, NEW d \in 1 .. 31
    PROVE  ResetDate(FirstOf(index) + d - 1, d, index % 12)
               = FirstOf(index) + (IF d <= DaysIn(index) THEN d ELSE DaysIn(index)) - 1
<1> DEFINE day == FirstOf(index) + d - 1
           m == index % 12
           last == DaysIn(index)
<1>1. last \in 28 .. 31 /\ m \in Months /\ index \div 12 \in Int /\ FirstOf(index) \in Int
      /\ index = 12 * (index \div 12) + m
    BY MonthFollows, FirstTyped, Twelve
<1>2. /\ day \in Nat /\ YearOf(day) = index \div 12
      /\ d <= last => MonthIndex(day) = index
      /\ d > last => MonthIndex(day) = index + 1
    BY Overflow
<1>3. MonthIndex(day) % 12 = MonthOf(day)
    BY <1>2, DayInRow
<1>4. CASE d <= last
    <2>1. MonthOf(day) = m
        BY <1>2, <1>3, <1>4
    <2>2. ResetDate(day, d, m) = day
        BY <2>1 DEF ResetDate
    <2> QED BY <1>4, <2>2
<1>5. CASE d > last
    <2> DEFINE at(i) == WithMonth(WithDate(day, i), m)
               back == {i \in 1 .. d - 1 : MonthOf(at(i)) = m}
    <2>1. last # 31
        BY <1>1, <1>5
    <2>2. /\ DaysIn(index + 1) = 31 /\ (index + 1) \div 12 = index \div 12
          /\ (index + 1) % 12 # m
        BY <2>1, MonthFollows
    <2>3. MonthOf(day) # m
        BY <1>2, <1>3, <1>5, <2>2
    <2>4. ASSUME NEW i \in 1 .. d - 1
          PROVE  at(i) = FirstOf(index) + i - 1 /\ (MonthOf(at(i)) = m <=> i <= last)
        <3>1. i \in Int /\ i \in 1 .. 31 /\ index + 1 \in Nat /\ index + 1 >= 12
            OBVIOUS
        <3>2. WithDate(day, i) = FirstOf(index + 1) + i - 1
            BY <1>2, <1>5, <3>1, Setters
        <3>3. LET moved == FirstOf(index + 1) + i - 1
              IN  moved \in Nat /\ YearOf(moved) = index \div 12 /\ DateOf(moved) = i
            BY <2>2, <3>1, InRow
        <3>4. at(i) = FirstOf(12 * (index \div 12) + m) + i - 1
            <4> DEFINE moved == FirstOf(index + 1) + i - 1
            <4>1. moved \in Nat /\ YearOf(moved) = index \div 12 /\ DateOf(moved) = i /\ m \in Int
                BY <1>1, <3>3 DEF Months
            <4>2. WithMonth(moved, m) = FirstOf(12 * YearOf(moved) + m) + DateOf(moved) - 1
                BY <4>1, Setters
            <4> QED BY <3>2, <4>1, <4>2
        <3>5. at(i) = FirstOf(index) + i - 1
            BY <1>1, <3>4
        <3>6. LET there == FirstOf(index) + i - 1
              IN  /\ there \in Nat
                  /\ MonthIndex(there) = IF i <= last THEN index ELSE index + 1
            BY <1>1, <3>1, Overflow
        <3>7. MonthOf(at(i)) = m <=> i <= last
            <4>1. MonthIndex(at(i)) % 12 = MonthOf(at(i))
                BY <3>5, <3>6, DayInRow
            <4> QED BY <2>2, <3>5, <3>6, <4>1
        <3> QED BY <3>5, <3>7
    <2>5. last \in 1 .. d - 1
        BY <1>1, <1>5
    <2>6. Max(back \cup {0}) = last
        <3> HIDE DEF at
        <3>1. last \in back \cup {0} /\ \A i \in back \cup {0} : last >= i
            BY <1>1, <2>4, <2>5
        <3>2. back \cup {0} \subseteq Int
            OBVIOUS
        <3> HIDE DEF back
        <3>3. \A x \in back \cup {0} : (\A i \in back \cup {0} : x >= i) => x = last
            BY <3>1, <3>2
        <3> QED BY <3>1, <3>3 DEF Max
    <2>7. ResetDate(day, d, m) = at(last)
        BY <2>3, <2>6 DEF ResetDate
    <2>8. ~(d <= last)
        BY <1>1, <1>5
    <2> QED BY <2>4, <2>5, <2>7, <2>8
<1> QED BY <1>1, <1>4, <1>5

\* By any number of months, a day comes to the same date or to the last of the month.
LEMMA MonthMoves ==
    ASSUME NEW day \in Nat, NEW n \in Int, MonthIndex(day) + n >= 12
    PROVE  /\ moveMonth(day, n) = MonthsLater(day, n) /\ moveMonth(day, n) \in Nat
           /\ MonthIndex(moveMonth(day, n)) = MonthIndex(day) + n
<1> DEFINE y == YearOf(day)
           m == MonthOf(day)
           d == DateOf(day)
           there == MonthIndex(day) + n
<1>1. /\ y \in Nat \ {0} /\ m \in Int /\ MonthIndex(day) \in Nat
      /\ MonthIndex(day) = 12 * y + m
      /\ d \in 1 .. DaysIn(MonthIndex(day))
    BY DayParts, DayInRow DEF Months
<1>2. there \in Nat /\ there >= 12
    BY <1>1
<1>3. d \in 1 .. 31
    <2>1. DaysIn(MonthIndex(day)) \in 28 .. 31
        BY <1>1, MonthFollows
    <2> QED BY <1>1, <2>1
<1>4. DaysIn(there) \in 28 .. 31 /\ FirstOf(there) \in Int
    BY <1>2, MonthFollows, FirstTyped
<1>5. ResetDate(FirstOf(there) + d - 1, d, there % 12) = MonthsLater(day, n)
    BY <1>2, <1>3, ResetIs DEF MonthsLater
<1>6. ASSUME n \in {-1, 1} PROVE moveMonth(day, n) = MonthsLater(day, n)
    <2>1. WithMonth(day, m + n) = FirstOf(there) + d - 1
        <3>1. m + n \in Int /\ 12 * y + (m + n) = there
            BY <1>1, <1>6
        <3>2. WithMonth(day, m + n) = FirstOf(12 * y + (m + n)) + d - 1
            BY <3>1, Setters
        <3> QED BY <3>1, <3>2
    <2>2. (m + n) % 12 = there % 12
        BY <1>1, <1>6
    <2> QED BY <1>5, <1>6, <2>1, <2>2 DEF moveMonth, moveOneMonth
<1>7. ASSUME n \notin {-1, 1} PROVE moveMonth(day, n) = MonthsLater(day, n)
    <2>1. WithDate(FirstOf(there), d) = FirstOf(there) + d - 1
        <3>1. 1 \in 1 .. DaysIn(there) /\ FirstOf(there) + 1 - 1 = FirstOf(there) /\ d \in Int
            BY <1>3, <1>4
        <3> DEFINE first == FirstOf(there)
        <3>2. first \in Nat /\ MonthIndex(first) = there
            BY <1>2, <3>1, InRow
        <3> HIDE DEF first, there
        <3>3. WithDate(first, d) = FirstOf(MonthIndex(first)) + d - 1
            BY <3>1, <3>2, Setters
        <3> QED BY <3>2, <3>3 DEF first
    <2> QED BY <1>5, <1>7, <2>1 DEF moveMonth
<1>8. MonthsLater(day, n) \in Nat /\ MonthIndex(MonthsLater(day, n)) = there
    <2> DEFINE e == IF d <= DaysIn(there) THEN d ELSE DaysIn(there)
    <2>1. e \in 1 .. DaysIn(there)
        BY <1>3, <1>4
    <2>2. MonthsLater(day, n) = FirstOf(there) + e - 1
        BY DEF MonthsLater
    <2> HIDE DEF e, there
    <2> QED BY <1>2, <2>1, <2>2, InRow
<1> QED BY <1>5, <1>6, <1>7, <1>8

-----------------------------------------------------------------------------
(* Days written and read.                                                  *)

\* A text with a year, a month and a date is read as the same day whatever day it is read on.
LEMMA ParsedIs ==
    ASSUME NEW t, DOMAIN t = {"y", "m", "d"}, t.y \in Nat \ {0}, t.m \in Int, t.d \in Int,
           NEW now \in Nat
    PROVE  parseDate(t, now) = UTCDate(t.y, (t.m - 1) % 12, t.d)
<1> DEFINE m == (t.m - 1) % 12
           index == 12 * t.y + m
           inYear == WithYear(now, t.y)
           e == DateOf(inYear)
           ofYear == WithMonth(inYear, m)
<1>1. /\ m \in Months /\ m \in Int /\ index \in Nat /\ index >= 12 /\ index % 12 = m
      /\ index \div 12 = t.y
    BY Twelve, TwelveParts DEF Months
<1>2. inYear \in Nat /\ YearOf(inYear) = t.y
    <2> DEFINE at == 12 * t.y + MonthOf(now)
    <2>1. MonthOf(now) \in Months /\ DateOf(now) \in 1 .. 31
        <3>1. DateOf(now) \in 1 .. DaysIn(MonthIndex(now)) /\ MonthIndex(now) \in Int
            BY DayInRow
        <3>2. DaysIn(MonthIndex(now)) \in 28 .. 31
            BY <3>1, MonthFollows
        <3>3. MonthOf(now) \in Months
            BY DayParts
        <3> QED BY <3>1, <3>2, <3>3
    <2>2. at \in Nat /\ at >= 12 /\ at \div 12 = t.y
        BY <2>1, TwelveParts DEF Months
    <2>3. inYear = FirstOf(at) + DateOf(now) - 1
        <3>1. t.y \in Int
            OBVIOUS
        <3> QED BY <3>1, Setters
    <2> HIDE DEF at, inYear
    <2> QED BY <2>1, <2>2, <2>3, Overflow
<1>3. e \in 1 .. 31
    <2>1. e \in 1 .. DaysIn(MonthIndex(inYear)) /\ MonthIndex(inYear) \in Int
        BY <1>2, DayInRow
    <2>2. DaysIn(MonthIndex(inYear)) \in 28 .. 31
        BY <2>1, MonthFollows
    <2> QED BY <2>1, <2>2
<1>4. ofYear = FirstOf(index) + e - 1
    BY <1>1, <1>2, Setters
<1>5. DaysIn(index) \in 28 .. 31 /\ FirstOf(index) \in Int
    BY <1>1, MonthFollows, FirstTyped
<1> DEFINE excess == IF e <= DaysIn(index) THEN 0 ELSE e - DaysIn(index)
<1> HIDE DEF index, inYear, m, e, ofYear
<1>6. excess \in 0 .. 3
    BY <1>3, <1>5
<1>7. ASSUME NEW i \in 0 .. excess
      PROVE  /\ ofYear - i \in Nat
             /\ MonthIndex(ofYear - i) = IF i = excess THEN index ELSE index + 1
    <2>1. e - i \in 1 .. 31 /\ ofYear - i = FirstOf(index) + (e - i) - 1
        BY <1>3, <1>4, <1>5
    <2>2. e - i <= DaysIn(index) <=> i = excess
        BY <1>3, <1>5
    <2> HIDE DEF excess
    <2>3. /\ ofYear - i \in Nat
          /\ e - i <= DaysIn(index) => MonthIndex(ofYear - i) = index
          /\ e - i > DaysIn(index) => MonthIndex(ofYear - i) = index + 1
        BY <1>1, <2>1, Overflow
    <2> QED BY <1>3, <1>5, <2>1, <2>2, <2>3
<1>8. ASSUME NEW i \in 0 .. excess PROVE MonthOf(ofYear - i) = m <=> i = excess
    <2>1. MonthIndex(ofYear - i) % 12 = MonthOf(ofYear - i)
        BY <1>7, DayInRow
    <2>2. i # excess => (index + 1) % 12 # index % 12
        BY <1>1
    <2> QED BY <1>1, <1>7, <2>1, <2>2
<1> DEFINE P(i) == MonthOf(ofYear - i) = m /\ \A j \in 0 .. i - 1 : MonthOf(ofYear - j) # m
<1>9. (CHOOSE i \in 0 .. 3 : P(i)) = excess
    <2>1. P(excess)
        <3>1. \A j \in 0 .. excess - 1 : j \in 0 .. excess /\ j # excess
            BY <1>6
        <3>2. excess \in 0 .. excess
            BY <1>6
        <3> HIDE DEF excess
        <3> QED BY <1>8, <3>1, <3>2
    <2>2. ASSUME NEW i \in 0 .. 3, P(i) PROVE i = excess
        <3> HIDE DEF excess
        <3>1. CASE i <= excess
            <4>1. i \in 0 .. excess
                BY <1>6, <3>1
            <4> QED BY <1>8, <2>2, <4>1
        <3>2. CASE i > excess
            <4>1. excess \in 0 .. i - 1
                BY <1>6, <3>2
            <4> QED BY <2>1, <2>2, <4>1
        <3> QED BY <1>6, <3>1, <3>2
    <2> HIDE DEF P, excess
    <2> QED BY <1>6, <2>1, <2>2
<1>10. parseDate(t, now) = WithDate(ofYear - excess, t.d)
    <2>1. InMonth(inYear, m) = ofYear - excess
        BY <1>9 DEF InMonth, ofYear
    <2>2. parseDate(t, now) = WithDate(InMonth(inYear, m), t.d)
        BY DEF parseDate, inYear, m
    <2> QED BY <2>1, <2>2
<1>11. WithDate(ofYear - excess, t.d) = FirstOf(index) + t.d - 1
    <2>1. excess \in 0 .. excess
        BY <1>6
    <2>2. ofYear - excess \in Nat /\ MonthIndex(ofYear - excess) = index
        BY <1>7, <2>1
    <2> HIDE DEF excess
    <2> QED BY <2>2, Setters
<1>12. UTCDate(t.y, m, t.d) = FirstOf(index) + t.d - 1
    <2>1. t.y \in Int
        OBVIOUS
    <2> QED BY <1>1, <2>1, RowOfMonths DEF index
<1> QED BY <1>10, <1>11, <1>12 DEF m

\* What formatDate writes, parseDate reads back.
LEMMA Rewritten ==
    ASSUME NEW day \in Nat
    PROVE  /\ formatDate(day) \in [y : Nat \ {0}, m : Nat, d : Nat]
           /\ \A now \in Nat : parseDate(formatDate(day), now) = day
<1> DEFINE t == formatDate(day)
<1>1. /\ YearOf(day) \in Nat \ {0} /\ MonthOf(day) \in Months
      /\ DateOf(day) \in 1 .. getDaysInMonth(YearOf(day), MonthOf(day))
      /\ day = UTCDate(YearOf(day), MonthOf(day), DateOf(day))
    BY DayParts
<1>2. DateOf(day) \in Nat /\ MonthOf(day) \in Nat
    BY <1>1, MonthLength DEF Months
<1>3. t.y = YearOf(day) /\ t.m = MonthOf(day) + 1 /\ t.d = DateOf(day)
    BY DEF formatDate
<1>4. (t.m - 1) % 12 = MonthOf(day)
    BY <1>1, <1>3 DEF Months
<1>5. t \in [y : Nat \ {0}, m : Nat, d : Nat]
    BY <1>1, <1>2 DEF formatDate
<1> HIDE DEF t
<1>6. ASSUME NEW now \in Nat PROVE parseDate(t, now) = day
    <2>1. t.y \in Nat \ {0} /\ t.m \in Int /\ t.d \in Int /\ DOMAIN t = {"y", "m", "d"}
        BY <1>5
    <2>2. parseDate(t, now) = UTCDate(t.y, (t.m - 1) % 12, t.d)
        BY <2>1, ParsedIs
    <2> QED BY <1>1, <1>3, <1>4, <2>2
<1> QED BY <1>5, <1>6 DEF t

-----------------------------------------------------------------------------
(* The inductive invariant of a date picker.                               *)

\* A date is there unless the form's link took it, and unless the last fill failed it was
\* for the month of the view.
Painted ==
    /\ isInput => date # Null
    /\ ~unmarked => shown = MonthIndex(viewDate)
\* A text that the picker wrote names a year.
TextTyped == text \in Texts \cup {Blank, Junk} \cup [y : Nat \ {0}, m : Nat, d : Nat]

IInv == TypeOK /\ TextTyped /\ Painted /\ TextIsDate /\ ChosenAllowed

\* The dates of the window, and ten years before them, have years from 1 on.
LEMMA WindowDays ==
    ASSUME NEW day \in Window
    PROVE  day \in Nat /\ day # Null /\ MonthIndex(day) \in Nat /\ MonthIndex(day) >= 1212
<1>1. day \in Nat /\ day # Null /\ day >= UTCDate(101, 0, 1)
    BY DatesAssumption
<1>2. UTCDate(101, 0, 1) = BeforeYear(101) /\ BeforeYear(101) \in Int
    <2>1. UTCDate(101, 0, 1) = BeforeYear(101) + BeforeMonth(101, 0) + 1 - 1
        <3>1. 0 \div 12 = 0 /\ 0 % 12 = 0 /\ 101 + 0 = 101
            OBVIOUS
        <3> QED BY <3>1 DEF UTCDate
    <2> QED BY <2>1, MonthTable, YearLength
<1>3. /\ YearOf(day) \in Nat \ {0} /\ MonthOf(day) \in Months
      /\ day < BeforeYear(YearOf(day) + 1) /\ BeforeYear(YearOf(day) + 1) \in Int
    BY <1>1, DayParts, YearExists, YearLength
<1>4. YearOf(day) >= 101
    <2>1. SUFFICES ASSUME YearOf(day) < 101 PROVE FALSE
        BY <1>3
    <2>2. BeforeYear(YearOf(day) + 1) <= BeforeYear(101)
        BY <1>3, <2>1, YearsGrow
    <2> QED BY <1>1, <1>2, <1>3, <2>2
<1> QED BY <1>1, <1>3, <1>4 DEF MonthIndex, Months

LEMMA ConstantsTyped ==
    ASSUME TypeOK
    PROVE  /\ options.minViewMode \in 0 .. 2 /\ options.startView \in options.minViewMode .. 2
           /\ viewMode \in 0 .. 2
           /\ limits.start \in Nat /\ limits.end \in Nat
           /\ today \in Window /\ GivenDates \subseteq Window /\ Window \subseteq Nat
<1>1. options.minViewMode \in 0 .. 2 /\ options.startView \in options.minViewMode .. 2
    BY OptionsAssumption DEF TypeOK
<1> QED BY <1>1, DatesAssumption DEF TypeOK

LEMMA ModeTyped ==
    ASSUME TypeOK, NEW from \in 0 .. 2, NEW dir \in Int
    PROVE  Mode(from, dir) \in options.minViewMode .. 2
BY ConstantsTyped DEF Mode

-----------------------------------------------------------------------------
(* Texts and their date.                                                   *)

\* A text of the format is read as the same date on any day.
LEMMA ReadsTheSame ==
    ASSUME TextTyped, text # Blank, text # Junk, DOMAIN text = {"y", "m", "d"},
           NEW now \in Nat
    PROVE  parseDate(text, now) = Read
<1>1. text.y \in Nat \ {0} /\ text.m \in Int /\ text.d \in Int
    <2>1. CASE text \in Texts
        <3>1. text \notin [relative : Seq([dir : Int, by : {"day", "week", "month", "year"}])]
            OBVIOUS
        <3>2. /\ \E parts \in SUBSET {"y", "m", "d"} : text \in [parts -> Nat]
              /\ "y" \in DOMAIN text => text.y # 0
            BY <2>1, <3>1, TextsAssumption
        <3>3. PICK parts \in SUBSET {"y", "m", "d"} : text \in [parts -> Nat]
            BY <3>2
        <3>4. parts = {"y", "m", "d"}
            BY <3>3
        <3>5. text["y"] \in Nat /\ text["m"] \in Nat /\ text["d"] \in Nat
            BY <3>3, <3>4
        <3> QED BY <3>2, <3>5
    <2>2. CASE text \in [y : Nat \ {0}, m : Nat, d : Nat]
        BY <2>2
    <2> QED BY <2>1, <2>2 DEF TextTyped
<1>3. today \in Nat
    BY DatesAssumption
<1>4. Read = parseDate(text, today)
    BY DEF Read
<1> QED BY <1>1, <1>3, <1>4, ParsedIs

\* The date that was read from the text that there is.
LEMMA ReadIsDate ==
    ASSUME IInv, options' = options, text' = text, date' = Read
    PROVE  TextIsDate'
<1>1. Read' = Read
    BY DEF Read
<1>2. ASSUME text # Blank, text # Junk, DOMAIN text = {"y", "m", "d"}, NEW day \in GivenDates
      PROVE  parseDate(text, day) = Read
    <2>1. day \in Nat
        BY DatesAssumption
    <2> QED BY <1>2, <2>1, ReadsTheSame DEF IInv
<1> QED BY <1>1, <1>2 DEF TextIsDate, isInput

\* A date that is written into the input, if there is one.
LEMMA WrittenIsDate ==
    ASSUME IInv, options' = options, NEW d \in Window, setValue(d), date' = d
    PROVE  TextIsDate' /\ TextTyped' /\ typed' \in BOOLEAN
<1>1. CASE ~isInput
    BY <1>1 DEF setValue, TextIsDate, TextTyped, IInv, TypeOK, isInput
<1>2. CASE isInput
    <2>1. d \in Nat /\ GivenDates \subseteq Nat /\ today \in Nat
        BY DatesAssumption
    <2>2. /\ formatDate(d) \in [y : Nat \ {0}, m : Nat, d : Nat]
          /\ \A now \in Nat : parseDate(formatDate(d), now) = d
        BY <2>1, Rewritten
    <2>3. text' = formatDate(d) /\ typed' = FALSE
        BY <1>2 DEF setValue
    <2>4. text' \notin {Blank, Junk} /\ "relative" \notin DOMAIN text'
        <3>1. formatDate(d) \in [y : Nat, m : Nat, d : Nat]
            BY <2>2
        <3>2. DOMAIN formatDate(d) = {"y", "m", "d"}
            BY DEF formatDate
        <3> QED BY <2>3, <3>1, <3>2, TextsAssumption
    <2>5. Read' = d
        BY <2>1, <2>2, <2>3, <2>4 DEF Read
    <2> QED BY <2>1, <2>2, <2>3, <2>5 DEF TextIsDate, TextTyped
<1> QED BY <1>1, <1>2

-----------------------------------------------------------------------------
(* The actions preserve the invariant.                                     *)

Ways == {"text", "key", "day", "stale", "month", "year", "today"}

\* What fill and update do to the view.
LEMMA FilledTyped ==
    ASSUME NEW view \in Window, fill(view, date'), viewDate' = view
    PROVE  /\ shown \in Nat => shown' \in Nat
           /\ unmarked' \in BOOLEAN
           /\ (~unmarked => shown = MonthIndex(viewDate))'
<1>1. MonthIndex(view) \in Nat
    BY WindowDays
<1> QED BY <1>1 DEF fill, MonthIndex

\* A date that is written into the input, and is the one in view or past a limit.
LEMMA UpdatedIInv ==
    ASSUME IInv, Step, NEW d \in Int, NEW l \in Limits, update(d, l), limits' = l,
           visible' \in BOOLEAN, viewMode' \in options.minViewMode .. 2, chosen' \in Ways,
           TextTyped', typed' \in BOOLEAN, TextIsDate', ChosenAllowed'
    PROVE  IInv'
<1>1. d \in Window /\ date' = d /\ InLimits(d, l) \in Window /\ viewDate' = InLimits(d, l)
      /\ fill(viewDate', d)
    BY DEF update
<1>2. date' \in Window /\ date' # Null /\ viewDate' \in Window
    BY <1>1, WindowDays
<1>3. /\ shown' \in Nat /\ unmarked' \in BOOLEAN
      /\ (~unmarked => shown = MonthIndex(viewDate))'
    BY <1>1, <1>2, FilledTyped DEF IInv, TypeOK
<1>4. options' = options /\ options' \in Options /\ steps' \in 0 .. MaxSteps
    BY DatesAssumption DEF Step, IInv, TypeOK
<1>5. text' \in Texts \cup {Blank, Junk} \cup [y : Nat, m : Nat, d : Nat]
    BY DEF TextTyped
<1>6. TypeOK'
    BY <1>2, <1>3, <1>4, <1>5 DEF TypeOK, Ways
<1>7. Painted'
    BY <1>2, <1>3 DEF Painted
<1> QED BY <1>6, <1>7 DEF IInv

\* A step that leaves the date and the text alone, and shows the month of the date's view.
LEMMA ViewIInv ==
    ASSUME IInv, Step, UNCHANGED <<limits, date, text, typed, chosen>>,
           NEW view \in Window, viewDate' = view, fill(view, date),
           visible' \in BOOLEAN, viewMode' \in options.minViewMode .. 2
    PROVE  IInv'
<1>1. /\ shown' \in Nat /\ unmarked' \in BOOLEAN
      /\ (~unmarked => shown = MonthIndex(viewDate))'
    BY FilledTyped DEF IInv, TypeOK
<1>2. options' = options /\ steps' \in 0 .. MaxSteps
    BY DatesAssumption DEF Step, IInv, TypeOK
<1>3. TypeOK' /\ TextTyped'
    BY <1>1, <1>2 DEF TypeOK, IInv, TextTyped
<1>4. Painted'
    BY <1>1, <1>2 DEF Painted, IInv, isInput
<1>5. TextIsDate' /\ ChosenAllowed'
    BY <1>2 DEF IInv, TextIsDate, ChosenAllowed, isInput, Read, Enabled
<1> QED BY <1>3, <1>4, <1>5 DEF IInv

\* A step that changes only whether the popup is there and which view it has.
LEMMA PopupIInv ==
    ASSUME IInv, Step, UNCHANGED <<limits, date, viewDate, page, text, typed, chosen>>,
           visible' \in BOOLEAN, viewMode' \in options.minViewMode .. 2
    PROVE  IInv'
<1>1. options' = options /\ steps' \in 0 .. MaxSteps
    BY DatesAssumption DEF Step, IInv, TypeOK
<1>2. TypeOK' /\ TextTyped'
    BY <1>1 DEF TypeOK, IInv, TextTyped, page
<1>3. Painted'
    BY <1>1 DEF Painted, IInv, isInput, page
<1>4. TextIsDate' /\ ChosenAllowed'
    BY <1>1 DEF IInv, TextIsDate, ChosenAllowed, isInput, Read, Enabled
<1> QED BY <1>2, <1>3, <1>4 DEF IInv

\* A date that is chosen, and may be.
LEMMA ChosenIInv ==
    ASSUME IInv, NEW d \in Int, NEW how \in Ways, NEW mode \in options.minViewMode .. 2,
           choose(d, how, mode), ChosenAllowed'
    PROVE  IInv'
<1>1. /\ d \in Window /\ date' = d /\ viewDate' = d /\ chosen' = how /\ fill(d, d)
      /\ setValue(d) /\ visible' \in BOOLEAN /\ viewMode' = mode /\ Step /\ limits' = limits
    BY DEF choose, IInv, TypeOK
<1>2. /\ shown' \in Nat /\ unmarked' \in BOOLEAN
      /\ (~unmarked => shown = MonthIndex(viewDate))'
    BY <1>1, FilledTyped DEF IInv, TypeOK
<1>3. options' = options /\ steps' \in 0 .. MaxSteps
    BY <1>1, DatesAssumption DEF Step, IInv, TypeOK
<1>4. TextIsDate' /\ TextTyped' /\ typed' \in BOOLEAN
    BY <1>1, <1>3, WrittenIsDate
<1>5. date' \in Window /\ date' # Null
    BY <1>1, WindowDays
<1>6. text' \in Texts \cup {Blank, Junk} \cup [y : Nat, m : Nat, d : Nat]
    BY <1>4 DEF TextTyped
<1>7. TypeOK'
    BY <1>1, <1>2, <1>3, <1>4, <1>5, <1>6 DEF TypeOK, IInv, Ways
<1>8. Painted'
    BY <1>2, <1>5 DEF Painted
<1> QED BY <1>4, <1>7, <1>8 DEF IInv

LEMMA InitIInv == Init => IInv
<1> SUFFICES ASSUME Init PROVE IInv
    OBVIOUS
<1>1. date = Read /\ date \in Window /\ viewDate \in Window /\ options \in Options
      /\ options.limits \in Limits /\ options.startView \in options.minViewMode .. 2
      /\ isInput \in BOOLEAN /\ date # Null /\ MaxSteps \in Nat
    BY OptionsAssumption, DatesAssumption, WindowDays DEF Init, isInput
<1>2. shown \in Nat
    BY <1>1, WindowDays DEF Init
<1>3. TypeOK /\ TextTyped
    <2>1. text \in Texts \cup {Blank}
        BY DEF Init
    <2>2. visible \in BOOLEAN
        BY <1>1 DEF Init
    <2>3. /\ limits \in Limits /\ viewMode \in options.minViewMode .. 2
          /\ unmarked \in BOOLEAN /\ typed \in BOOLEAN
          /\ chosen \in {"text", "key", "day", "stale", "month", "year", "today"}
        BY <1>1, Zenon DEF Init
    <2>4. steps \in 0 .. MaxSteps
        BY <1>1 DEF Init
    <2> QED BY <1>1, <1>2, <2>1, <2>2, <2>3, <2>4 DEF TypeOK, TextTyped
<1>4. Painted /\ ChosenAllowed
    BY <1>1 DEF Init, Painted, ChosenAllowed
<1>5. TextIsDate
    <2>1. ASSUME text # Blank, text # Junk, DOMAIN text = {"y", "m", "d"}, NEW day \in GivenDates
          PROVE  parseDate(text, day) = Read
        <3>1. day \in Nat
            BY DatesAssumption
        <3> QED BY <1>3, <2>1, <3>1, ReadsTheSame
    <2> QED BY <1>1, <2>1 DEF TextIsDate
<1> QED BY <1>3, <1>4, <1>5 DEF IInv

\* MovedBy is a day again.
LEMMA MovedTyped ==
    ASSUME NEW d \in Window, NEW dir \in {-1, 1}, NEW by \in {"day", "week", "month", "year"}
    PROVE  MovedBy(d, dir, by) \in Int
<1>1. d \in Nat /\ MonthIndex(d) \in Nat /\ MonthIndex(d) >= 1212
    BY WindowDays
<1>2. ASSUME NEW n \in {-12, -1, 1, 12} PROVE moveMonth(d, n) \in Nat
    BY <1>1, MonthMoves
<1>3. moveMonth(d, dir) \in Nat /\ moveYear(d, dir) \in Nat
    BY <1>2 DEF moveYear
<1> QED BY <1>1, <1>3 DEF MovedBy

\* A key within the limits comes to the day that it moves the date to.
LEMMA KeyIInv ==
    ASSUME IInv, NEW dir \in {-1, 1}, NEW by \in {"day", "week", "month", "year"},
           keydown(dir, by)
    PROVE  IInv'
<1> DEFINE d == Moved(dir, by)
<1>1. isInput /\ visible /\ dateWithinRange(d, limits) /\ KeyedTo(d) /\ Step
      /\ UNCHANGED <<limits, visible, viewMode>>
    BY DEF keydown
<1>2. date \in Window
    BY <1>1 DEF IInv, Painted, TypeOK
<1>3. d \in Nat
    <2>1. d \in Int
        BY <1>2, MovedTyped DEF Moved
    <2>2. limits.start \in Nat /\ limits.start <= d
        BY <1>1, ConstantsTyped DEF dateWithinRange, IInv
    <2> QED BY <2>1, <2>2
<1> HIDE DEF d
<1>4. parseDate(formatDate(d), today) = d
    BY <1>3, Rewritten, DatesAssumption
<1>5. setValue(d) /\ update(d, limits) /\ chosen' = "key"
    BY <1>1, <1>4 DEF KeyedTo
<1>6. d \in Window /\ date' = d /\ options' = options
    BY <1>1, <1>5 DEF update, Step
<1>7. TextIsDate' /\ TextTyped' /\ typed' \in BOOLEAN
    BY <1>5, <1>6, WrittenIsDate
<1>8. ChosenAllowed'
    BY <1>1, <1>5, <1>6 DEF ChosenAllowed
<1> QED BY <1>1, <1>3, <1>5, <1>7, <1>8, UpdatedIInv DEF IInv, TypeOK, Ways

\* The day that a cell stands for is the one that it shows, unless the last fill failed.
LEMMA PickedIs ==
    ASSUME IInv, ~unmarked, NEW cell \in Cells
    PROVE  DayIn(cell) \in Nat /\ Picked(cell) = DayIn(cell)
<1> DEFINE day == DayIn(cell)
<1>1. shown = MonthIndex(viewDate) /\ viewDate \in Window
    BY DEF IInv, Painted, TypeOK
<1>2. viewDate \in Nat /\ shown \in Nat /\ shown >= 1212
    BY <1>1, WindowDays
<1>3. FirstCell(shown) \in Int /\ FirstCell(shown) >= FirstOf(shown) - 7
    <2> DEFINE lastBefore == FirstOf(shown) - 1
               back == (WeekdayOf(lastBefore) - options.weekStart + 7) % 7
    <2>1. lastBefore \in Int /\ options.weekStart \in Int
        BY <1>2, FirstTyped, OptionsAssumption DEF IInv, TypeOK
    <2>2. back \in 0 .. 6
        BY <2>1 DEF WeekdayOf
    <2>3. FirstCell(shown) = lastBefore - back
        BY DEF FirstCell
    <2> HIDE DEF back
    <2> QED BY <1>2, <2>2, <2>3, FirstTyped
<1>4. FirstOf(shown) >= 7
    <2>1. 1 \in 1 .. DaysIn(shown)
        BY <1>2, MonthFollows
    <2>2. FirstOf(shown) + 1 - 1 = FirstOf(shown) /\ FirstOf(shown) \in Int
        BY <1>2, FirstTyped
    <2>3. FirstOf(shown) \in Nat /\ YearOf(FirstOf(shown)) = shown \div 12
        BY <1>2, <2>1, <2>2, InRow
    <2>4. /\ shown \div 12 \in Nat \ {0} /\ shown \div 12 >= 101
          /\ BeforeYear(shown \div 12) <= FirstOf(shown)
        BY <1>2, <2>3, YearExists
    <2>5. /\ 365 * (shown \div 12 - 1) <= BeforeYear(shown \div 12)
          /\ BeforeYear(shown \div 12) \in Int
        BY <2>4, YearBounds, YearLength
    <2> QED BY <2>3, <2>4, <2>5
<1>5. day \in Nat
    BY <1>2, <1>3, <1>4, FirstTyped, DatesAssumption DEF DayIn
<1>6. Picked(cell) =
          UTCDate(YearOf(viewDate), MonthOf(viewDate) + MonthIndex(day) - shown, DateOf(day))
    BY DEF Picked
<1> HIDE DEF day
<1> DEFINE y == YearOf(viewDate)
           m == MonthOf(viewDate)
           month == m + MonthIndex(day) - shown
<1>7. y \in Int /\ m \in Int /\ shown = 12 * y + m
    BY <1>1, <1>2, DayParts, DayInRow DEF Months
<1>8. /\ MonthIndex(day) \in Nat /\ DateOf(day) \in Int
      /\ day = FirstOf(MonthIndex(day)) + DateOf(day) - 1
    <2>1. DateOf(day) \in 1 .. DaysIn(MonthIndex(day)) /\ MonthIndex(day) \in Nat
        BY <1>5, DayInRow
    <2>2. DaysIn(MonthIndex(day)) \in 28 .. 31
        BY <2>1, MonthFollows
    <2> QED BY <1>5, <2>1, <2>2, DayInRow
<1>9. month \in Int /\ 12 * y + month = MonthIndex(day)
    BY <1>7, <1>8
<1>10. UTCDate(y, month, DateOf(day)) = FirstOf(12 * y + month) + DateOf(day) - 1
    <2> HIDE DEF y, month
    <2> QED BY <1>7, <1>8, <1>9, RowOfMonths
<1> QED BY <1>5, <1>6, <1>8, <1>9, <1>10 DEF day

LEMMA DayIInv == ASSUME IInv, NEW cell \in Cells, ClickDay(cell) PROVE IInv'
<1> DEFINE how == IF unmarked THEN "stale" ELSE "day"
<1>1. viewMode = 0 /\ Enabled(DayIn(cell), limits) /\ choose(Picked(cell), how, Closed(0))
    BY DEF ClickDay
<1>2. Closed(0) \in options.minViewMode .. 2
    BY <1>1, ConstantsTyped DEF Closed, IInv, TypeOK
<1>3. date' = Picked(cell) /\ chosen' = how /\ limits' = limits /\ options' = options
      /\ Picked(cell) \in Window
    BY <1>1 DEF choose, Step
<1>4. ChosenAllowed'
    <2>1. CASE unmarked
        BY <1>3, <2>1 DEF ChosenAllowed
    <2>2. CASE ~unmarked
        <3>1. date' = DayIn(cell) /\ chosen' = "day"
            BY <1>3, <2>2, PickedIs
        <3>2. Enabled(date, limits)'
            BY <1>1, <1>3, <3>1 DEF Enabled
        <3> QED BY <3>1, <3>2 DEF ChosenAllowed
    <2> QED BY <2>1, <2>2
<1>5. how \in Ways /\ Picked(cell) \in Int
    BY <1>3, WindowDays DEF Ways
<1> HIDE DEF how
<1> QED BY <1>1, <1>2, <1>4, <1>5, ChosenIInv

\* A first of a month is in that month.
LEMMA FirstOfMonth ==
    ASSUME NEW y \in Nat \ {0}, NEW m \in Months
    PROVE  LET day == UTCDate(y, m, 1)
           IN  day \in Nat /\ YearOf(day) = y /\ MonthIndex(day) = 12 * y + m
<1>1. 1 \in 1 .. getDaysInMonth(y, m)
    BY MonthLength
<1> QED BY <1>1, RoundTrip DEF MonthIndex

LEMMA MonthIInv == ASSUME IInv, NEW m \in Months, ClickMonth(m) PROVE IInv'
<1> DEFINE index == 12 * (shown \div 12) + m
           view == UTCDate(YearOf(viewDate), m, 1)
           how == IF unmarked THEN "stale" ELSE "month"
           mode == Mode(Closed(1), -1)
<1>1. viewDate \in Nat /\ YearOf(viewDate) \in Nat \ {0} /\ YearOf(viewDate) \in Int
    BY WindowDays, DayParts DEF IInv, TypeOK
<1>2. view \in Nat /\ MonthIndex(view) = 12 * YearOf(viewDate) + m
    BY <1>1, FirstOfMonth
<1>3. mode \in options.minViewMode .. 2 /\ Mode(viewMode, -1) \in options.minViewMode .. 2
    <2>1. Closed(1) \in 0 .. 2 /\ viewMode \in 0 .. 2
        BY ConstantsTyped DEF Closed, IInv
    <2> QED BY <2>1, ModeTyped DEF IInv
<1>4. /\ unmarked \/ (MonthIndex(limits.start) <= index /\ index <= MonthIndex(limits.end))
      /\ visible
      /\ IF options.minViewMode = 1 THEN choose(view, how, mode) ELSE ViewOnly(view)
    BY DEF ClickMonth
<1>5. CASE options.minViewMode = 1
    <2>1. choose(view, how, mode)
        BY <1>4, <1>5
    <2>2. date' = view /\ chosen' = how /\ limits' = limits
        BY <2>1 DEF choose
    <2>3. ChosenAllowed'
        <3>1. CASE unmarked
            BY <2>2, <3>1 DEF ChosenAllowed
        <3>2. CASE ~unmarked
            <4>1. shown = MonthIndex(viewDate)
                BY <3>2 DEF IInv, Painted
            <4>2. shown \div 12 = YearOf(viewDate)
                BY <1>1, <4>1, DayInRow
            <4>3. index = MonthIndex(view)
                BY <1>2, <4>2
            <4> QED BY <1>4, <2>2, <3>2, <4>3 DEF ChosenAllowed
        <3> QED BY <3>1, <3>2
    <2>4. how \in Ways
        BY DEF Ways
    <2> HIDE DEF how, mode, view
    <2> QED BY <1>2, <1>3, <2>1, <2>3, <2>4, ChosenIInv
<1>6. CASE options.minViewMode # 1
    <2>1. ViewOnly(view)
        BY <1>4, <1>6
    <2> HIDE DEF view
    <2> QED BY <1>3, <2>1, ViewIInv DEF ViewOnly, IInv, TypeOK
<1> QED BY <1>5, <1>6

LEMMA YearIInv == ASSUME IInv, NEW y \in Int, ClickYear(y) PROVE IInv'
<1> DEFINE mode == Mode(Closed(2), -1)
<1>1. mode \in options.minViewMode .. 2 /\ Mode(viewMode, -1) \in options.minViewMode .. 2
    <2>1. Closed(2) \in 0 .. 2 /\ viewMode \in 0 .. 2
        BY ConstantsTyped DEF Closed, IInv
    <2> QED BY <2>1, ModeTyped DEF IInv
<1>2. y \in Nat \ {0} /\ YearOf(limits.start) <= y /\ y <= YearOf(limits.end)
    <2>1. YearOf(limits.start) \in Nat \ {0}
        BY ConstantsTyped, DayParts DEF IInv
    <2> QED BY <2>1 DEF ClickYear
<1>3. CASE options.minViewMode = 2
    <2> DEFINE view == UTCDate(y, 0, 1)
    <2>1. choose(view, "year", mode)
        BY <1>3 DEF ClickYear
    <2>2. view \in Nat /\ YearOf(view) = y
        BY <1>2, FirstOfMonth DEF Months
    <2>3. date' = view /\ chosen' = "year" /\ limits' = limits
        BY <2>1 DEF choose
    <2> HIDE DEF view, mode
    <2>4. ChosenAllowed'
        BY <1>2, <2>2, <2>3 DEF ChosenAllowed
    <2>5. "year" \in Ways
        BY DEF Ways
    <2> QED BY <1>1, <2>1, <2>2, <2>4, <2>5, ChosenIInv
<1>4. CASE options.minViewMode # 2
    <2>1. ViewOnly(UTCDate(y, MonthOf(viewDate), 1))
        BY <1>4 DEF ClickYear
    <2>2. visible \in BOOLEAN
        BY DEF IInv, TypeOK
    <2> QED BY <1>1, <2>1, <2>2, ViewIInv DEF ViewOnly
<1> QED BY <1>3, <1>4

LEMMA TurnIInv == ASSUME IInv, NEW dir \in {-1, 1}, Turn(dir) PROVE IInv'
<1> DEFINE view == CASE viewMode = 0 -> moveMonth(viewDate, dir)
                     [] viewMode = 1 -> moveYear(viewDate, dir)
                     [] OTHER -> moveYear(viewDate, 10 * dir)
<1>1. /\ view \in Window /\ viewDate' = view /\ fill(view, date)
      /\ Step /\ UNCHANGED <<limits, visible, viewMode, date, text, typed, chosen>>
    BY DEF Turn
<1> HIDE DEF view
<1> QED BY <1>1, ViewIInv DEF IInv, TypeOK

LEMMA TodayIInv == ASSUME IInv, Today PROVE IInv'
<1>1. /\ Mode(viewMode, -2) \in options.minViewMode .. 2 /\ viewMode \in 0 .. 2
      /\ options.minViewMode \in 0 .. 2 /\ today \in Window /\ today \in Int
    BY ConstantsTyped, ModeTyped, WindowDays DEF IInv
<1>2. CASE options.linked
    <2>1. choose(today, "today", Closed(Mode(viewMode, -2)))
        BY <1>2 DEF Today
    <2>2. Closed(Mode(viewMode, -2)) \in options.minViewMode .. 2
        BY <1>1, ConstantsTyped DEF Closed, IInv
    <2>3. ChosenAllowed'
        BY <2>1 DEF choose, ChosenAllowed
    <2>4. "today" \in Ways
        BY DEF Ways
    <2> QED BY <1>1, <2>1, <2>2, <2>3, <2>4, ChosenIInv
<1>3. CASE ~options.linked
    <2>1. /\ visible /\ viewMode' = Mode(viewMode, -2)
          /\ viewDate' = today /\ fill(today, date)
          /\ IF date = Null THEN UNCHANGED <<text, typed>> ELSE setValue(date)
          /\ Step /\ UNCHANGED <<limits, visible, date, chosen>>
        BY <1>3 DEF Today
    <2>2. CASE UNCHANGED <<text, typed>>
        BY <1>1, <2>1, <2>2, ViewIInv DEF IInv, TypeOK
    <2>3. CASE date # Null /\ setValue(date)
        <3>1. date \in Window /\ date' = date /\ options' = options /\ steps' \in 0 .. MaxSteps
            BY <2>1, <2>3, DatesAssumption DEF IInv, TypeOK, Step
        <3>2. TextIsDate' /\ TextTyped' /\ typed' \in BOOLEAN
            BY <2>3, <3>1, WrittenIsDate
        <3>3. /\ shown' \in Nat /\ unmarked' \in BOOLEAN
              /\ (~unmarked => shown = MonthIndex(viewDate))'
            BY <1>1, <2>1, <3>1, FilledTyped DEF IInv, TypeOK
        <3>4. text' \in Texts \cup {Blank, Junk} \cup [y : Nat, m : Nat, d : Nat]
            BY <3>2 DEF TextTyped
        <3>5. TypeOK'
            BY <1>1, <2>1, <3>1, <3>2, <3>3, <3>4 DEF TypeOK, IInv
        <3>6. Painted'
            BY <2>3, <3>1, <3>3 DEF Painted
        <3>7. ChosenAllowed'
            BY <2>1, <3>1 DEF ChosenAllowed, IInv, Enabled
        <3> QED BY <3>2, <3>5, <3>6, <3>7 DEF IInv
    <2> QED BY <2>1, <2>2, <2>3
<1> QED BY <1>2, <1>3

LEMMA HideIInv == ASSUME IInv, Hide PROVE IInv'
<1>1. /\ isInput /\ visible' = FALSE /\ viewMode' = options.startView
      /\ IF text = Blank THEN UNCHANGED <<text, typed>> ELSE setValue(date)
      /\ Step /\ UNCHANGED <<limits, date, viewDate, page, chosen>>
    BY DEF Hide
<1>2. options.startView \in options.minViewMode .. 2
    BY ConstantsTyped DEF IInv
<1>3. CASE UNCHANGED <<text, typed>>
    BY <1>1, <1>2, <1>3, PopupIInv
<1>4. CASE setValue(date)
    <2>1. date \in Window /\ date' = date /\ options' = options /\ steps' \in 0 .. MaxSteps
        BY <1>1, DatesAssumption DEF IInv, TypeOK, Step, Painted
    <2>2. TextIsDate' /\ TextTyped' /\ typed' \in BOOLEAN
        BY <1>4, <2>1, WrittenIsDate
    <2>3. text' \in Texts \cup {Blank, Junk} \cup [y : Nat, m : Nat, d : Nat]
        BY <2>2 DEF TextTyped
    <2>4. TypeOK'
        BY <1>1, <1>2, <2>1, <2>2, <2>3 DEF TypeOK, IInv, page
    <2>5. Painted' /\ ChosenAllowed'
        BY <1>1, <2>1 DEF Painted, ChosenAllowed, IInv, Enabled, page, isInput
    <2> QED BY <2>2, <2>4, <2>5 DEF IInv
<1> QED BY <1>1, <1>3, <1>4

LEMMA TypeIInv ==
    ASSUME IInv, NEW t \in Texts \cup {Blank, Junk}, Type(t) PROVE IInv'
<1>1. /\ text' = t /\ typed' = TRUE /\ options' = options /\ steps' \in 0 .. MaxSteps
      /\ UNCHANGED <<limits, visible, viewMode, date, viewDate, page, chosen>>
    BY DatesAssumption DEF Type, Step, IInv, TypeOK
<1>2. TypeOK' /\ TextTyped'
    BY <1>1 DEF TypeOK, TextTyped, IInv, page
<1>3. Painted' /\ ChosenAllowed'
    BY <1>1 DEF Painted, ChosenAllowed, IInv, Enabled, page, isInput
<1>4. TextIsDate'
    BY <1>1 DEF TextIsDate
<1> QED BY <1>2, <1>3, <1>4 DEF IInv

\* The date is read from the text that there is, under new limits or the same.
LEMMA ReadIInv ==
    ASSUME IInv, Step, NEW l \in Limits, limits' = l, update(Read, l), typed' = FALSE,
           UNCHANGED <<visible, viewMode, text>>,
           chosen' = "text" \/ (l = limits /\ date' = date /\ chosen' = chosen)
    PROVE  IInv'
<1>1. date' = Read /\ Read \in Window /\ options' = options
    BY DEF update, Step
<1>2. TextIsDate'
    BY <1>1, ReadIsDate
<1>3. ChosenAllowed'
    BY <1>1 DEF ChosenAllowed, IInv, Enabled
<1>4. TextTyped' /\ chosen' \in Ways /\ Read \in Int
    BY <1>1, WindowDays DEF TextTyped, IInv, TypeOK, Ways
<1>5. visible' \in BOOLEAN /\ viewMode' \in options.minViewMode .. 2 /\ typed' \in BOOLEAN
    BY DEF IInv, TypeOK
<1> QED BY <1>2, <1>3, <1>4, <1>5, UpdatedIInv

LEMMA GivenIInv == ASSUME IInv, NEW d \in GivenDates, Give(d) PROVE IInv'
<1>1. /\ update(d, limits) /\ chosen' = "text" /\ setValue(d) /\ Step /\ options' = options
      /\ UNCHANGED <<limits, visible, viewMode>>
    BY DEF Give, Step
<1>2. d \in Window /\ date' = d /\ d \in Int
    BY <1>1, WindowDays DEF update
<1>3. TextIsDate' /\ TextTyped' /\ typed' \in BOOLEAN
    BY <1>1, <1>2, WrittenIsDate
<1>4. ChosenAllowed'
    BY <1>1 DEF ChosenAllowed
<1> QED BY <1>1, <1>2, <1>3, <1>4, UpdatedIInv DEF IInv, TypeOK, Ways

LEMMA SetIInv == ASSUME IInv, NEW d \in GivenDates, SetDate(d) PROVE IInv'
<1>1. /\ date' = d /\ d \in Window /\ d # Null /\ chosen' = "text" /\ setValue(d)
      /\ options' = options /\ steps' \in 0 .. MaxSteps
      /\ UNCHANGED <<limits, visible, viewMode, viewDate, page>>
    BY WindowDays, DatesAssumption DEF SetDate, Step, IInv, TypeOK
<1>2. TextIsDate' /\ TextTyped' /\ typed' \in BOOLEAN
    BY <1>1, WrittenIsDate
<1>3. text' \in Texts \cup {Blank, Junk} \cup [y : Nat, m : Nat, d : Nat]
    BY <1>2 DEF TextTyped
<1>4. TypeOK'
    BY <1>1, <1>2, <1>3 DEF TypeOK, IInv, page
<1>5. Painted' /\ ChosenAllowed'
    BY <1>1 DEF Painted, ChosenAllowed, IInv, page
<1> QED BY <1>2, <1>4, <1>5 DEF IInv

LEMMA RangeIInv == ASSUME IInv, SetRange PROVE IInv'
<1>1. /\ viewDate \in Window /\ viewDate' = viewDate /\ fill(viewDate, date)
      /\ Step /\ UNCHANGED <<limits, visible, viewMode, date, text, typed, chosen>>
    BY DEF SetRange, IInv, TypeOK
<1> QED BY <1>1, ViewIInv DEF IInv, TypeOK

\* Today's date, of a calendar in the page, or where the text is cleared.
LEMMA AnewIInv ==
    ASSUME IInv, Step, update(today, limits), chosen' = "text", limits' = limits,
           visible' \in BOOLEAN, viewMode' \in options.minViewMode .. 2,
           ~isInput \/ text' = Blank, TextTyped', typed' \in BOOLEAN
    PROVE  IInv'
<1>1. TextIsDate'
    BY DEF TextIsDate, isInput, Step
<1>2. ChosenAllowed'
    BY DEF ChosenAllowed
<1>3. today \in Int
    <2>1. today \in Window /\ Window \subseteq Nat
        BY ConstantsTyped DEF IInv
    <2> QED BY <2>1
<1> QED BY <1>1, <1>2, <1>3, UpdatedIInv DEF IInv, TypeOK, Ways

LEMMA GiveNoneIInv == ASSUME IInv, GiveNone PROVE IInv'
<1>1. TextTyped' /\ typed' \in BOOLEAN
    BY DEF GiveNone, IInv, TextTyped, TypeOK
<1> QED BY <1>1, AnewIInv DEF GiveNone, IInv, TypeOK

LEMMA ClearIInv == ASSUME IInv, Clear PROVE IInv'
<1>1. TextTyped' /\ typed' \in BOOLEAN
    BY DEF Clear, TextTyped
<1>2. Closed(viewMode) \in options.minViewMode .. 2 /\ visible' \in BOOLEAN
    BY ConstantsTyped DEF Closed, Clear, IInv, TypeOK
<1> QED BY <1>1, <1>2, AnewIInv DEF Clear

LEMMA ForgetIInv == ASSUME IInv, Forget PROVE IInv'
<1>1. /\ ~isInput /\ date' = Null /\ chosen' = "text"
      /\ options' = options /\ steps' \in 0 .. MaxSteps
      /\ UNCHANGED <<limits, visible, viewMode, viewDate, page, text, typed>>
    BY DatesAssumption DEF Forget, Step, IInv, TypeOK
<1>2. TypeOK' /\ TextTyped'
    BY <1>1 DEF TypeOK, TextTyped, IInv, page
<1>3. Painted' /\ ChosenAllowed' /\ TextIsDate'
    BY <1>1 DEF Painted, ChosenAllowed, TextIsDate, IInv, isInput, page
<1> QED BY <1>2, <1>3 DEF IInv

LEMMA StepIInv == IInv /\ [Next]_vars => IInv'
<1> SUFFICES ASSUME IInv, [Next]_vars PROVE IInv'
    OBVIOUS
<1>1. CASE Show
    BY <1>1, PopupIInv DEF Show, IInv, TypeOK
<1>2. CASE Hide
    BY <1>2, HideIInv
<1>3. CASE KeyUp
    <2>1. /\ update(Read, limits) /\ typed' = FALSE /\ Step
          /\ chosen' = IF date' = date THEN chosen ELSE "text"
          /\ UNCHANGED <<limits, visible, viewMode, text>> /\ limits \in Limits
        BY <1>3 DEF KeyUp, IInv, TypeOK
    <2> QED BY <2>1, ReadIInv
<1>4. CASE GiveNone
    BY <1>4, GiveNoneIInv
<1>5. CASE Forget
    BY <1>5, ForgetIInv
<1>6. CASE Switch
    <2>1. Mode(viewMode, 1) \in options.minViewMode .. 2
        BY ConstantsTyped, ModeTyped DEF IInv
    <2> QED BY <1>6, <2>1, PopupIInv DEF Switch, IInv, TypeOK
<1>7. CASE Today
    BY <1>7, TodayIInv
<1>8. CASE Clear
    BY <1>8, ClearIInv
<1>9. ASSUME NEW t \in Texts \cup {Blank, Junk}, Type(t) PROVE IInv'
    BY <1>9, TypeIInv
<1>10. ASSUME NEW dir \in {-1, 1}, Turn(dir) PROVE IInv'
    BY <1>10, TurnIInv
<1>11. ASSUME NEW dir \in {-1, 1}, NEW by \in {"day", "week", "month", "year"}, keydown(dir, by)
       PROVE  IInv'
    BY <1>11, KeyIInv
<1>12. ASSUME NEW l \in Limits, SetLimits(l) PROVE IInv'
    BY <1>12, ReadIInv DEF SetLimits
<1>13. ASSUME NEW d \in GivenDates, Give(d) PROVE IInv'
    BY <1>13, GivenIInv
<1>14. ASSUME NEW cell \in Cells, ClickDay(cell) PROVE IInv'
    BY <1>14, DayIInv
<1>15. ASSUME NEW m \in Months, ClickMonth(m) PROVE IInv'
    BY <1>15, MonthIInv
<1>16. ASSUME NEW d \in GivenDates, ClickYear(YearOf(d)) PROVE IInv'
    <2>1. YearOf(d) \in Int
        BY ConstantsTyped, DayParts DEF IInv
    <2> QED BY <1>16, <2>1, YearIInv
<1>17. CASE UNCHANGED vars
    BY <1>17 DEF vars, page, IInv, TypeOK, TextTyped, Painted, TextIsDate, ChosenAllowed,
                 isInput, Read, Enabled
<1>18. ASSUME NEW d \in GivenDates, SetDate(d) PROVE IInv'
    BY <1>18, SetIInv
<1>19. CASE SetRange
    BY <1>19, RangeIInv
<1> QED BY <1>1, <1>2, <1>3, <1>4, <1>5, <1>6, <1>7, <1>8, <1>9, <1>10, <1>11, <1>12,
           <1>13, <1>14, <1>15, <1>16, <1>17, <1>18, <1>19 DEF Next

THEOREM IInvHolds == Spec => []IInv
BY InitIInv, StepIInv, PTL DEF Spec

-----------------------------------------------------------------------------
(* Results about a date picker.                                            *)

\* TypeOK, for all options, limits, texts and dates.
THEOREM TypeCorrect == Spec => []TypeOK
<1>1. IInv => TypeOK
    BY DEF IInv
<1> QED BY IInvHolds, <1>1, PTL

\* TextIsDate: a text that was read, or written, is the date. One whose year, month and date
\* are numbers, as all are that the picker writes, is read as the same date on any other
\* day; blank, relative and incomplete texts, and those that are no date, are not meant
\* (setValue, parseDate, formatDate).
THEOREM TextStaysDate == Spec => []TextIsDate
<1>1. IInv => TextIsDate
    BY DEF IInv
<1> QED BY IInvHolds, <1>1, PTL

\* ChosenAllowed: a click chooses an enabled day, or a month or year with days within the
\* limits, and a key a day within them, whatever dates scripts set in between (setUTCDate);
\* not so a day or month clicked after a fill that failed (getClassNames, click, keydown).
THEOREM ChoicesAllowed == Spec => []ChosenAllowed
<1>1. IInv => ChosenAllowed
    BY DEF IInv
<1> QED BY IInvHolds, <1>1, PTL

\* MovesWholeMonths: keys and arrows go to the same date of another month or year, or to
\* its last (moveMonth, moveYear).
THEOREM MovesByMonths == Spec => []MovesWholeMonths
<1>1. IInv => MovesWholeMonths
    <2>1. ASSUME IInv, NEW d \in {date, viewDate} \ {Null}, NEW n \in {-12, -1, 1, 12}
          PROVE  moveMonth(d, n) = MonthsLater(d, n)
        <3>1. d \in Window
            BY <2>1 DEF IInv, TypeOK
        <3>2. d \in Nat /\ MonthIndex(d) \in Nat /\ MonthIndex(d) + n >= 12
            BY <3>1, WindowDays
        <3> QED BY <3>2, MonthMoves
    <2> QED BY <2>1 DEF MovesWholeMonths
<1> QED BY IInvHolds, <1>1, PTL

\* PickedIsShown: a click on a cell chooses the day that the cell shows, though it counts
\* it from the month of the view and scripts set dates without moving that (setUTCDate),
\* unless the last fill failed for want of a date (click, fill).
THEOREM ClickPicksShown == Spec => PickedIsShown
<1>1. ASSUME IInv, NEW cell \in Cells, ClickDay(cell), ~unmarked PROVE date' = DayIn(cell)
    BY <1>1, PickedIs DEF ClickDay, choose
<1>2. IInv /\ [Next]_vars =>
        [\A cell \in Cells : ClickDay(cell) /\ ~unmarked => date' = DayIn(cell)]_vars
    BY <1>1
<1> QED BY IInvHolds, <1>2, PTL DEF Spec, PickedIsShown

-----------------------------------------------------------------------------
(* A range of dates.                                                       *)

RangeTyped == DateRange!RangeAssumption /\ DateRange!TypeOK

\* In an ordered range, those that come along with a date are those it comes past.
LEMMA AlongIsPast ==
    ASSUME RangeTyped, DateRange!Ordered(rangeDates), NEW d \in RangeDates,
           NEW i \in DateRange!Inputs, NEW j \in DateRange!Inputs \ {i}
    PROVE  j \in DateRange!Along(i, d) <=>
               (j < i /\ d < rangeDates[j]) \/ (j > i /\ d > rangeDates[j])
<1> USE DEF DateRange!Inputs, RangeTyped, DateRange!TypeOK, DateRange!RangeAssumption
<1>1. rangeDates \in [1 .. RangeSize -> Int] /\ d \in Int /\ RangeSize \in Nat
    OBVIOUS
<1>2. CASE d < rangeDates[i]
    <2>1. \A k \in DateRange!Inputs : i < k => rangeDates[i] <= rangeDates[k]
        BY DEF DateRange!Ordered
    <2>2. \A k \in DateRange!Inputs : j < k => rangeDates[j] <= rangeDates[k]
        BY DEF DateRange!Ordered
    <2>3. DateRange!Along(i, d) = {n \in 1 .. i : \A k \in n .. i : d < rangeDates[k]}
        BY <1>2 DEF DateRange!Along
    <2>4. j \in DateRange!Along(i, d) <=> j < i /\ d < rangeDates[j]
        <3>1. ASSUME j < i, d < rangeDates[j] PROVE \A k \in j .. i : d < rangeDates[k]
            <4>1. TAKE k \in j .. i
            <4>2. k = j \/ (k \in DateRange!Inputs /\ j < k)
                BY <1>1
            <4> QED BY <1>1, <2>2, <3>1, <4>2
        <3>2. j \in DateRange!Along(i, d) => j < i /\ d < rangeDates[j]
            BY <1>1, <2>3
        <3> QED BY <1>1, <2>3, <3>1, <3>2
    <2>5. ~(j > i /\ d > rangeDates[j])
        BY <1>1, <1>2, <2>1
    <2> QED BY <2>4, <2>5
<1>3. CASE ~(d < rangeDates[i])
    <2>1. \A k \in DateRange!Inputs : k < i => rangeDates[k] <= rangeDates[i]
        BY DEF DateRange!Ordered
    <2>2. \A k \in DateRange!Inputs : k < j => rangeDates[k] <= rangeDates[j]
        BY DEF DateRange!Ordered
    <2>3. DateRange!Along(i, d) = {n \in i .. RangeSize : \A k \in i .. n : d > rangeDates[k]}
        BY <1>3 DEF DateRange!Along
    <2>4. j \in DateRange!Along(i, d) <=> j > i /\ d > rangeDates[j]
        <3>1. ASSUME j > i, d > rangeDates[j] PROVE \A k \in i .. j : d > rangeDates[k]
            <4>1. TAKE k \in i .. j
            <4>2. k = j \/ (k \in DateRange!Inputs /\ k < j)
                BY <1>1
            <4> QED BY <1>1, <2>2, <3>1, <4>2
        <3>2. j \in DateRange!Along(i, d) => j > i /\ d > rangeDates[j]
            BY <1>1, <2>3
        <3> QED BY <1>1, <2>3, <3>1, <3>2
    <2>5. ~(j < i /\ d < rangeDates[j])
        BY <1>1, <1>3, <2>1
    <2> QED BY <2>4, <2>5
<1> QED BY <1>2, <1>3

\* A date that comes past no other moves none.
LEMMA OwnDateMovesNone ==
    ASSUME RangeTyped, NEW i \in DateRange!Inputs PROVE DateRange!Along(i, rangeDates[i]) = {}
<1> USE DEF DateRange!Inputs, RangeTyped, DateRange!TypeOK, DateRange!RangeAssumption
<1>1. rangeDates \in [1 .. RangeSize -> Int] /\ RangeSize \in Nat
    OBVIOUS
<1> QED BY <1>1 DEF DateRange!Along

LEMMA UpdatedTyped ==
    ASSUME NEW i \in DateRange!Inputs, NEW now \in [DateRange!Inputs -> RangeDates]
    PROVE  DateRange!dateUpdated(i, now) \in [DateRange!Inputs -> RangeDates]
BY DEF DateRange!dateUpdated

LEMMA RangeInitTyped == DateRange!Init => DateRange!TypeOK
BY DEF DateRange!Init, DateRange!TypeOK, DateRange!Inputs

LEMMA RangeStepTyped == RangeTyped /\ [DateRange!Next]_(DateRange!vars) => DateRange!TypeOK'
<1> SUFFICES ASSUME RangeTyped, [DateRange!Next]_(DateRange!vars) PROVE DateRange!TypeOK'
    OBVIOUS
<1> USE DEF RangeTyped, DateRange!TypeOK
<1>1. ASSUME NEW i \in DateRange!Inputs, NEW d \in RangeDates, DateRange!Choose(i, d)
      PROVE  DateRange!TypeOK'
    <2>1. [rangeDate EXCEPT ![i] = d] \in [DateRange!Inputs -> RangeDates]
        BY <1>1
    <2> QED BY <1>1, <2>1, UpdatedTyped DEF DateRange!Choose
<1>2. ASSUME NEW i \in DateRange!Inputs, NEW d \in RangeDates, DateRange!Set(i, d)
      PROVE  DateRange!TypeOK'
    BY <1>2 DEF DateRange!Set
<1>3. ASSUME NEW i \in DateRange!Inputs, DateRange!Clear(i) PROVE DateRange!TypeOK'
    <2>1. DateRange!dateUpdated(i, rangeDate) \in [DateRange!Inputs -> RangeDates]
        BY UpdatedTyped
    <2> QED BY <1>3, <2>1 DEF DateRange!Clear, DateRange!RangeAssumption
<1>4. CASE UNCHANGED DateRange!vars
    BY <1>4 DEF DateRange!vars
<1> QED BY <1>1, <1>2, <1>3, <1>4 DEF DateRange!Next

\* TypeOK, for every number of pickers (DateRangePicker.dateUpdated).
THEOREM RangeTypeCorrect == DateRange!Spec => []DateRange!TypeOK
<1>1. DateRange!TypeOK /\ [DateRange!Next]_(DateRange!vars) => DateRange!TypeOK'
    BY PageAssumption, RangeStepTyped DEF RangeTyped
<1> QED BY RangeInitTyped, <1>1, PTL DEF DateRange!Spec

\* What a choice comes to while every change was told.
LEMMA ChosenDates ==
    ASSUME RangeTyped, DateRange!RangeOrdered, rangeUntold = {},
           NEW i \in DateRange!Inputs, NEW d \in RangeDates, DateRange!Choose(i, d)
    PROVE  \A j \in DateRange!Inputs :
               rangeDate'[j] =
                   IF j = i \/ (j < i /\ d < rangeDate[j]) \/ (j > i /\ d > rangeDate[j])
                   THEN d ELSE rangeDate[j]
<1>1. rangeDate = rangeDates /\ DateRange!Ordered(rangeDates)
    BY DEF DateRange!RangeOrdered
<1>2. TAKE j \in DateRange!Inputs
<1> DEFINE now == [rangeDate EXCEPT ![i] = d]
<1>3. now \in [DateRange!Inputs -> RangeDates] /\ now[i] = d /\ (j # i => now[j] = rangeDate[j])
    BY DEF RangeTyped, DateRange!TypeOK
<1>4. rangeDate'[j] = IF j \in DateRange!Along(i, d) THEN d ELSE now[j]
    BY <1>3 DEF DateRange!Choose, DateRange!dateUpdated
<1>5. CASE j = i
    BY <1>3, <1>4, <1>5
<1>6. CASE j # i
    <2>1. j \in DateRange!Along(i, d) <=>
              (j < i /\ d < rangeDates[j]) \/ (j > i /\ d > rangeDates[j])
        BY <1>1, <1>6, AlongIsPast
    <2> QED BY <1>1, <1>3, <1>4, <1>6, <2>1
<1> QED BY <1>5, <1>6

LEMMA ChoiceKeepsOrder ==
    ASSUME RangeTyped, DateRange!RangeOrdered, rangeUntold = {},
           NEW i \in DateRange!Inputs, NEW d \in RangeDates, DateRange!Choose(i, d)
    PROVE  DateRange!Ordered(rangeDates')
<1>1. \A j \in DateRange!Inputs :
          rangeDate'[j] =
              IF j = i \/ (j < i /\ d < rangeDate[j]) \/ (j > i /\ d > rangeDate[j])
              THEN d ELSE rangeDate[j]
    BY ChosenDates
<1>2. /\ rangeDates' = rangeDate' /\ DateRange!Ordered(rangeDate)
      /\ rangeDate \in [DateRange!Inputs -> Int] /\ d \in Int
    BY DEF DateRange!Choose, DateRange!RangeOrdered, RangeTyped, DateRange!TypeOK,
           DateRange!RangeAssumption
<1>3. ASSUME NEW j \in DateRange!Inputs, NEW k \in DateRange!Inputs, j < k
      PROVE  rangeDate'[j] <= rangeDate'[k]
    <2>1. rangeDate[j] <= rangeDate[k]
        BY <1>2, <1>3 DEF DateRange!Ordered
    <2> QED BY <1>1, <1>2, <1>3, <2>1 DEF DateRange!Inputs
<1> QED BY <1>2, <1>3 DEF DateRange!Ordered

LEMMA RangeStepOrdered ==
    RangeTyped /\ DateRange!RangeOrdered /\ [DateRange!Next]_(DateRange!vars) =>
        DateRange!RangeOrdered'
<1> SUFFICES ASSUME RangeTyped, DateRange!RangeOrdered, [DateRange!Next]_(DateRange!vars),
                    rangeUntold' = {}
             PROVE  rangeDate' = rangeDates' /\ DateRange!Ordered(rangeDates)'
    BY DEF DateRange!RangeOrdered
<1>1. ASSUME NEW i \in DateRange!Inputs, NEW d \in RangeDates, DateRange!Choose(i, d)
      PROVE  rangeDate' = rangeDates' /\ DateRange!Ordered(rangeDates)'
    <2>1. rangeUntold = {}
        BY <1>1 DEF DateRange!Choose
    <2>2. DateRange!Ordered(rangeDates')
        BY <1>1, <2>1, ChoiceKeepsOrder
    <2> QED BY <1>1, <2>2 DEF DateRange!Choose, DateRange!Ordered
<1>2. ASSUME NEW i \in DateRange!Inputs, NEW d \in RangeDates, DateRange!Set(i, d) PROVE FALSE
    BY <1>2 DEF DateRange!Set
<1>3. ASSUME NEW i \in DateRange!Inputs, DateRange!Clear(i) PROVE FALSE
    BY <1>3 DEF DateRange!Clear
<1>4. CASE UNCHANGED DateRange!vars
    BY <1>4 DEF DateRange!vars, DateRange!RangeOrdered, DateRange!Ordered
<1> QED BY <1>1, <1>2, <1>3, <1>4 DEF DateRange!Next

\* While the range was told of every change, its dates are those of the pickers, and in
\* order (DateRangePicker.dateUpdated, updateDates).
THEOREM OrderedDates == DateRange!Spec => []DateRange!RangeOrdered
<1>1. DateRange!Init => DateRange!RangeOrdered
    BY DEF DateRange!Init, DateRange!RangeOrdered
<1>2. DateRange!TypeOK /\ DateRange!RangeOrdered /\ [DateRange!Next]_(DateRange!vars) =>
          DateRange!RangeOrdered'
    BY PageAssumption, RangeStepOrdered DEF RangeTyped
<1> QED BY RangeTypeCorrect, <1>1, <1>2, PTL DEF DateRange!Spec

\* MovesOnlyPast: a date that the user chooses takes along the dates it comes past, and
\* moves no other (DateRangePicker.dateUpdated).
THEOREM ChoiceMovesOnlyPast == DateRange!Spec => DateRange!MovesOnlyPast
<1>1. ASSUME DateRange!TypeOK, DateRange!RangeOrdered,
             NEW i \in DateRange!Inputs, NEW d \in RangeDates,
             rangeUntold = {}, DateRange!Choose(i, d)
      PROVE  \A j \in DateRange!Inputs :
                 rangeDate'[j] =
                     IF j = i \/ (j < i /\ d < rangeDate[j]) \/ (j > i /\ d > rangeDate[j])
                     THEN d ELSE rangeDate[j]
    BY <1>1, PageAssumption, ChosenDates DEF RangeTyped
<1>2. DateRange!TypeOK /\ DateRange!RangeOrdered /\ [DateRange!Next]_(DateRange!vars) =>
          [\A i \in DateRange!Inputs, d \in RangeDates :
              rangeUntold = {} /\ DateRange!Choose(i, d) =>
                  \A j \in DateRange!Inputs :
                      rangeDate'[j] =
                          IF j = i \/ (j < i /\ d < rangeDate[j]) \/ (j > i /\ d > rangeDate[j])
                          THEN d ELSE rangeDate[j]]_(DateRange!vars)
    BY <1>1
<1> QED BY RangeTypeCorrect, OrderedDates, <1>2, PTL DEF DateRange!Spec, DateRange!MovesOnlyPast

-----------------------------------------------------------------------------
(* The page.                                                               *)

SliderPart == INSTANCE SliderProofs

LEMMA SameSlider ==
    /\ Slider!Init <=> SliderPart!Init
    /\ [Slider!Next]_(Slider!vars) <=> [SliderPart!Next]_(SliderPart!vars)
    /\ SliderPart!TypeOK <=> Slider!TypeOK
    /\ SliderPart!InBounds <=> Slider!InBounds
<1> USE DEF Slider!Handles, SliderPart!Handles, Slider!diff, SliderPart!diff
<1>1. Slider!Init <=> SliderPart!Init
    BY DEF Slider!Init, SliderPart!Init, Slider!GivenValues, SliderPart!GivenValues,
           Slider!Given, SliderPart!Given, Slider!Clamp, SliderPart!Clamp
<1>2. [Slider!Next]_(Slider!vars) <=> [SliderPart!Next]_(SliderPart!vars)
    BY DEF Slider!Next, SliderPart!Next, Slider!vars, SliderPart!vars,
           Slider!GivenValues, SliderPart!GivenValues, Slider!Points, SliderPart!Points,
           Slider!Given, SliderPart!Given, Slider!Clamp, SliderPart!Clamp,
           Slider!Round, SliderPart!Round, Slider!Abs, SliderPart!Abs,
           Slider!getPercentage, SliderPart!getPercentage, Slider!valueAt, SliderPart!valueAt,
           Slider!calculateValue, SliderPart!calculateValue, Slider!Moved, SliderPart!Moved,
           Slider!mousedown, SliderPart!mousedown, Slider!mousemove, SliderPart!mousemove,
           Slider!mouseup, SliderPart!mouseup, Slider!mouseenter, SliderPart!mouseenter,
           Slider!mouseleave, SliderPart!mouseleave, Slider!setValue, SliderPart!setValue
<1>3. SliderPart!TypeOK <=> Slider!TypeOK
    BY DEF Slider!TypeOK, SliderPart!TypeOK
<1>4. SliderPart!InBounds <=> Slider!InBounds
    BY DEF Slider!InBounds, SliderPart!InBounds
<1> QED BY <1>1, <1>2, <1>3, <1>4

LEMMA PageIInvSteps ==
    /\ PageInit => IInv /\ DateRange!TypeOK /\ DateRange!RangeOrdered /\ SliderPart!IInv
    /\ [PageNext]_pageVars =>
           [Next]_vars /\ [DateRange!Next]_(DateRange!vars) /\ [SliderPart!Next]_(SliderPart!vars)
<1>1. SliderPart!ScalesAssumption
    BY PageAssumption DEF SliderPart!ScalesAssumption
<1>2. DateRange!Init => DateRange!RangeOrdered
    BY DEF DateRange!Init, DateRange!RangeOrdered
<1>3. PageInit => IInv /\ DateRange!TypeOK /\ DateRange!RangeOrdered /\ SliderPart!IInv
    BY <1>1, <1>2, InitIInv, RangeInitTyped, SameSlider, SliderPart!InitIInv DEF PageInit
<1>4. [PageNext]_pageVars =>
          [Next]_vars /\ [DateRange!Next]_(DateRange!vars) /\ [Slider!Next]_(Slider!vars)
    BY DEF PageNext, pageVars, rangeVars, sliderVars, DateRange!vars, Slider!vars
<1> QED BY <1>3, <1>4, SameSlider

\* On a page, each of the three keeps its invariant.
THEOREM PageKeeps ==
    PageSpec => [](IInv /\ DateRange!TypeOK /\ DateRange!RangeOrdered /\ SliderPart!IInv)
<1> DEFINE All == IInv /\ DateRange!TypeOK /\ DateRange!RangeOrdered /\ SliderPart!IInv
<1>1. PageInit => All
    BY PageIInvSteps
<1>2. All /\ [PageNext]_pageVars => All'
    <2> SUFFICES ASSUME All, [PageNext]_pageVars PROVE All'
        OBVIOUS
    <2>1. [Next]_vars /\ [DateRange!Next]_(DateRange!vars) /\ [SliderPart!Next]_(SliderPart!vars)
        BY PageIInvSteps
    <2>2. DateRange!RangeAssumption /\ SliderPart!ScalesAssumption
        BY PageAssumption DEF SliderPart!ScalesAssumption
    <2>3. IInv'
        BY <2>1, StepIInv
    <2>4. DateRange!TypeOK' /\ DateRange!RangeOrdered'
        BY <2>1, <2>2, RangeStepTyped, RangeStepOrdered DEF RangeTyped
    <2>5. SliderPart!IInv'
        BY <2>1, <2>2, SliderPart!StepIInv
    <2> QED BY <2>3, <2>4, <2>5
<1> HIDE DEF All
<1>3. PageSpec => []All
    BY <1>1, <1>2, PTL DEF PageSpec
<1> QED BY <1>3 DEF All

\* PageTypeOK, for everything that the three may be given.
THEOREM PageTypeCorrect == PageSpec => []PageTypeOK
<1>1. IInv /\ DateRange!TypeOK /\ SliderPart!IInv => PageTypeOK
    BY SameSlider DEF IInv, SliderPart!IInv, PageTypeOK
<1> QED BY PageKeeps, <1>1, PTL

\* InBounds: on the page too, the handles are on the track and the values in their limits
\* (calculateValue, getPercentage).
THEOREM SliderInBounds == PageSpec => []InBounds
<1>1. SliderPart!IInv => InBounds
    BY SameSlider DEF SliderPart!IInv, SliderPart!Places, SliderPart!Bounded, SliderPart!InBounds,
                      InBounds
<1> QED BY PageKeeps, <1>1, PTL

\* MovesOnlyPast: on the page too, a date that the user chooses takes along the dates it
\* comes past, and moves no other (DateRangePicker.dateUpdated).
THEOREM PageMovesOnlyPast == PageSpec => MovesOnlyPast
<1>1. PageSpec => DateRange!Spec
    <2>1. PageInit => DateRange!Init
        BY DEF PageInit
    <2>2. [PageNext]_pageVars => [DateRange!Next]_(DateRange!vars)
        BY PageIInvSteps
    <2> QED BY <2>1, <2>2, PTL DEF PageSpec, DateRange!Spec
<1> QED BY <1>1, ChoiceMovesOnlyPast, PTL DEF MovesOnlyPast

=============================================================================
