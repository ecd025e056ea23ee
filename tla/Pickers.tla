------------------------------- MODULE Pickers -------------------------------
(***************************************************************************)
(* A page with a date picker, a range of dates and a slider. They share    *)
(* nothing but the user.                                                   *)
(***************************************************************************)
EXTENDS Datepicker

CONSTANTS
    RangeSize, RangeDates, RangeToday,      \* of the range
    Scales, Margin                          \* of the slider

VARIABLES
    rangeDate, rangeDates, rangeUntold,
    scale, range, rest, value, place, dragged, inDrag, over, tooltip

rangeVars == <<rangeDate, rangeDates, rangeUntold>>
sliderVars == <<scale, range, rest, value, place, dragged, inDrag, over, tooltip>>
pageVars == <<vars, rangeVars, sliderVars>>

DateRange == INSTANCE DateRange WITH
    N <- RangeSize, Dates <- RangeDates, today <- RangeToday,
    date <- rangeDate, dates <- rangeDates, untold <- rangeUntold

Slider == INSTANCE Slider

ASSUME PageAssumption ==
    /\ DateRange!RangeAssumption
    /\ \A s \in Scales : s.min \in Int /\ s.max \in Int /\ s.min < s.max /\ s.step \in Nat \ {0}
    /\ Margin \in Nat

PageInit == Init /\ DateRange!Init /\ Slider!Init

PageNext ==
    \/ Next /\ UNCHANGED <<rangeVars, sliderVars>>
    \/ DateRange!Next /\ UNCHANGED <<vars, sliderVars>>
    \/ Slider!Next /\ UNCHANGED <<vars, rangeVars>>

PageSpec == PageInit /\ [][PageNext]_pageVars

-----------------------------------------------------------------------------
\* Type invariant: every variable of the three has its type.
PageTypeOK == TypeOK /\ DateRange!TypeOK /\ Slider!TypeOK

\* While every change of a date was told to the range, a date that is chosen moves no
\* others but those it comes past, and these along with it.
MovesOnlyPast == DateRange!MovesOnlyPast

\* The handles are on the track and the values in their limits, but for a step that does
\* not divide the range.
InBounds == Slider!InBounds
=============================================================================
