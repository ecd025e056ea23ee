------------------------------ MODULE MCPickers ------------------------------
(***************************************************************************)
(* The widgets of a page share nothing, so a behaviour is one of a single  *)
(* of them while the other two rest.                                       *)
(***************************************************************************)
EXTENDS Pickers

VARIABLE widget

\* A step that divides the slider's range and one that does not.
MCScales == {[min |-> -1, max |-> 2, step |-> 1], [min |-> 1, max |-> 6, step |-> 2]}

Free == [start |-> UTCDate(2000, 0, 1), end |-> UTCDate(2030, 0, 1), disabled |-> {}]
Tight == [start |-> UTCDate(2012, 0, 30), end |-> UTCDate(2012, 2, 15), disabled |-> {0, 3}]
MCLimits == {Free, Tight}
MCToday == UTCDate(2012, 0, 31)

O(input, l, weekStart, startView, minViewMode, linked, autoclose) ==
    [input |-> input, limits |-> l, weekStart |-> weekStart,
     startView |-> startView, minViewMode |-> minViewMode, linked |-> linked,
     autoclose |-> autoclose]
MCOptions ==
    { O(TRUE, Free, 0, 0, 0, TRUE, FALSE),
      O(TRUE, Tight, 1, 0, 0, FALSE, TRUE),
      O(TRUE, Tight, 1, 2, 1, FALSE, TRUE),
      O(FALSE, Tight, 1, 0, 0, FALSE, FALSE),
      O(FALSE, Tight, 0, 1, 1, FALSE, FALSE),
      O(FALSE, Free, 6, 2, 2, TRUE, TRUE) }
\* A day, one that is not in its month, one whose month is no number, and +1m -1d.
MCTexts == {[y |-> 2011, m |-> 12, d |-> 31], [y |-> 2012, m |-> 2, d |-> 31],
            [y |-> 2012, d |-> 30],
            [relative |-> <<[dir |-> 1, by |-> "month"], [dir |-> -1, by |-> "day"]>>]}
MCGivenDates == {UTCDate(2012, 1, 29), UTCDate(2011, 11, 31)}
MCWindow == UTCDate(2001, 0, 1) .. UTCDate(2023, 11, 31)
\* The first, some of the month before, of the month and of the month after.
MCCells == {0, 6, 8, 36, 40}
MCRangeDates == 0 .. 3

\* The widgets begin; those that rest begin in one way.
DateRests == options = O(FALSE, Free, 6, 2, 2, TRUE, TRUE)
RangeRests == rangeDate = [i \in 1 .. 3 |-> 1]
SliderRests == scale.min = 1 /\ ~range /\ rest = 1 /\ value = [h \in {1, 2} |-> 1]

MCInit ==
    /\ PageInit
    /\ \/ widget = "date" /\ RangeRests /\ SliderRests
       \/ widget = "range" /\ DateRests /\ SliderRests
       \/ widget = "slider" /\ DateRests /\ RangeRests

MCNext ==
    /\ UNCHANGED widget
    /\ \/ widget = "date" /\ Next /\ UNCHANGED <<rangeVars, sliderVars>>
       \/ widget = "range" /\ DateRange!Next /\ UNCHANGED <<vars, sliderVars>>
       \/ widget = "slider" /\ Slider!Next /\ UNCHANGED <<vars, rangeVars>>

MCSpec == MCInit /\ [][MCNext]_<<pageVars, widget>>
=============================================================================
