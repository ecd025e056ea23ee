------------------------------ MODULE DateRange ------------------------------
(***************************************************************************)
(* A range of dates: date pickers in a row, where a date that is moved     *)
(* takes along the others that it comes past. It compares with the dates   *)
(* that it remembers, and is told when the user chooses one, but not when  *)
(* one is typed or set by a script.                                        *)
(***************************************************************************)
EXTENDS Integers

CONSTANTS
    N,              \* inputs
    Dates,
    today

RangeAssumption == N \in Nat \ {0} /\ Dates \subseteq Int /\ today \in Dates

VARIABLES
    date,           \* of each picker
    dates,          \* as remembered (DateRangePicker.dates)
    untold          \* inputs whose date was changed without a word to the range since it
                    \* was ordered

vars == <<date, dates, untold>>

Inputs == 1 .. N

Ordered(of) == \A i, j \in Inputs : i < j => of[i] <= of[j]

\* The inputs that hold dates in order to begin with.
Init ==
    /\ date \in [Inputs -> Dates] /\ Ordered(date)
    /\ dates = date
    /\ untold = {}

-----------------------------------------------------------------------------
\* Mutant: only the next comes along.
AlongNext(i, new) ==
    IF new < dates[i] THEN {j \in i - 1 .. i : j > 0 /\ new < dates[j]}
    ELSE {j \in i .. i + 1 : j <= N /\ new > dates[j]}

\* Those that come along when input i gets date new: on from i as long as the date
\* remembered is later, or earlier.
Along(i, new) ==
    IF new < dates[i] THEN {j \in 1 .. i : \A k \in j .. i : new < dates[k]}
    ELSE {j \in i .. N : \A k \in i .. j : new > dates[k]}

\* dateUpdated and updateDates, where the pickers' dates are those in now.
dateUpdated(i, now) ==
    [j \in Inputs |-> IF j \in Along(i, now[i]) THEN now[i] ELSE now[j]]

\* The user clicks or presses a key in picker i.
Choose(i, d) ==
    /\ date' = dateUpdated(i, [date EXCEPT ![i] = d])
    /\ dates' = date'
    /\ UNCHANGED untold

\* A text is typed into input i, or a script sets its date.
Set(i, d) ==
    /\ date' = [date EXCEPT ![i] = d]
    /\ untold' = untold \cup {i}
    /\ UNCHANGED dates

\* The clear button of picker i: the range is told of the date that there was.
Clear(i) ==
    LET now == dateUpdated(i, date)
    IN  /\ dates' = now
        /\ date' = [now EXCEPT ![i] = today]
        /\ untold' = untold \cup {i}

Next == \E i \in Inputs : Clear(i) \/ \E d \in Dates : Choose(i, d) \/ Set(i, d)

Spec == Init /\ [][Next]_vars

-----------------------------------------------------------------------------
\* Type invariant: every variable has its type.
TypeOK ==
    /\ date \in [Inputs -> Dates] /\ dates \in [Inputs -> Dates]
    /\ untold \subseteq Inputs

\* While every change was told, the dates are in order and the range knows them.
RangeOrdered == untold = {} => date = dates /\ Ordered(dates)

\* A choice then moves no date but those it comes past.
MovesOnlyPast ==
    [][\A i \in Inputs, d \in Dates :
          untold = {} /\ Choose(i, d) =>
              \A j \in Inputs :
                  date'[j] = IF j = i \/ (j < i /\ d < date[j]) \/ (j > i /\ d > date[j])
                             THEN d ELSE date[j]]_vars
=============================================================================
