----------------------------- MODULE Datepicker ------------------------------
(***************************************************************************)
(* A date picker: the popup of a text input, or a calendar in the page, as *)
(* an editable element has it. The user clicks in its three views (days,   *)
(* months, years), presses keys and types; scripts give dates and limits.  *)
(***************************************************************************)
EXTENDS Calendar

CONSTANTS
    Options,        \* input, limits, weekStart, startView, minViewMode, linked, autoclose
    Limits,         \* [start, end, disabled]: what scripts set, disabled are days of the week
    Texts,          \* what users type: those of y, m and d that are numbers, or [relative],
                    \* a sequence of [dir, by]
    GivenDates,     \* the dates that scripts give
    today,
    Window,         \* bound: days that the views and the date stay in
    Cells,          \* bound: the cells of the view of days that are clicked, from 0
    MaxSteps,       \* bound: how many things happen
    Blank,          \* no text
    Junk,           \* a text with more or fewer parts than a date
    Null            \* no date

ASSUME OptionsAssumption ==
    \A o \in Options :
        /\ o.input \in BOOLEAN /\ o.linked \in BOOLEAN /\ o.autoclose \in BOOLEAN
        /\ o.limits \in Limits /\ o.weekStart \in 0 .. 6
        /\ o.minViewMode \in 0 .. 2 /\ o.startView \in o.minViewMode .. 2
\* Date.UTC takes a year below 100 for one of the 20th century.
ASSUME DatesAssumption ==
    /\ Window \subseteq Nat /\ \A day \in Window : day >= UTCDate(101, 0, 1)
    /\ GivenDates \subseteq Window /\ today \in Window
    /\ \A l \in Limits : l.start \in Nat /\ l.end \in Nat /\ l.disabled \subseteq 0 .. 6
    /\ Cells \subseteq 0 .. 41 /\ MaxSteps \in Nat
    /\ Null \notin Nat
ASSUME TextsAssumption ==
    /\ \A t \in Texts : \/ /\ \E parts \in SUBSET {"y", "m", "d"} : t \in [parts -> Nat]
                           /\ "y" \in DOMAIN t => t.y # 0
                        \/ t \in [relative : Seq([dir : Int, by : {"day", "week", "month", "year"}])]
    /\ Blank \notin Texts /\ Junk \notin Texts
    /\ Blank # Junk /\ Blank \notin [y : Nat, m : Nat, d : Nat] /\ Junk \notin [y : Nat, m : Nat, d : Nat]

VARIABLES
    options,
    limits,
    visible,        \* the popup; a calendar in the page always is
    viewMode,       \* 0 days, 1 months, 2 years
    date,
    viewDate,
    shown,          \* the month that the view of days was last filled with
    unmarked,       \* the last fill failed: the days are those of an earlier one, and the
                    \* months were made anew, those past the limits not disabled
    text,           \* of the input
    typed,          \* the text changed and no key was let go since
    chosen,         \* how the date came to be
    steps

page == <<shown, unmarked>>
vars == <<options, limits, visible, viewMode, date, viewDate, page, text, typed, chosen, steps>>

isInput == options.input

-----------------------------------------------------------------------------
dateWithinRange(day, l) == l.start <= day /\ day <= l.end

\* The date that the input's text stands for.
Read ==
    CASE text \in {Blank, Junk} -> today
      [] "relative" \in DOMAIN text -> relativeDate(text.relative, today)
      [] OTHER -> parseDate(text, today)

\* getClassNames: the cell of a day that is not disabled
Enabled(day, l) == dateWithinRange(day, l) /\ WeekdayOf(day) \notin l.disabled

\* fill: six weeks from the last day of the week's first in the month before. While there
\* is no date it makes the months anew and fails before it disables any, or paints days.
fill(view, d) ==
    /\ shown' = IF d = Null THEN shown ELSE MonthIndex(view)
    /\ unmarked' = (d = Null)
FirstCell(index) ==
    LET lastBefore == FirstOf(index) - 1
    IN  lastBefore - ((WeekdayOf(lastBefore) - options.weekStart + 7) % 7)
DayIn(cell) == FirstCell(shown) + cell

\* Mutant: from the smallest view there is one smaller.
ModeFurther(from, dir) ==
    LET mode == IF from + dir > 2 THEN 2 ELSE from + dir
    IN  IF from > options.minViewMode /\ mode < options.minViewMode THEN options.minViewMode
        ELSE mode

\* showMode
Mode(from, dir) ==
    LET mode == IF from + dir > 2 THEN 2 ELSE from + dir
    IN  IF mode < options.minViewMode THEN options.minViewMode ELSE mode

InLimits(day, l) == IF day < l.start THEN l.start ELSE IF day > l.end THEN l.end ELSE day

\* The date is d under limits l; the view is of d or of the limit that it is past.
update(d, l) ==
    /\ d \in Window /\ InLimits(d, l) \in Window
    /\ date' = d
    /\ viewDate' = InLimits(d, l)
    /\ fill(viewDate', d)

\* The text of the input is that of d.
setValue(d) ==
    IF isInput THEN text' = formatDate(d) /\ typed' = FALSE
    ELSE UNCHANGED <<text, typed>>

Step ==
    /\ steps < MaxSteps /\ steps' = steps + 1
    /\ UNCHANGED options

Init ==
    /\ options \in Options
    /\ limits = options.limits
    /\ visible = ~isInput
    /\ viewMode = options.startView
    /\ text \in IF isInput THEN Texts \cup {Blank} ELSE {Blank}
    /\ typed = FALSE
    /\ date = Read /\ date \in Window
    /\ viewDate = InLimits(date, limits) /\ viewDate \in Window
    /\ shown = MonthIndex(viewDate) /\ unmarked = FALSE
    /\ chosen = "text"
    /\ steps = 0

-----------------------------------------------------------------------------
\* The input is focused, or escape is pressed in it.
Show ==
    /\ isInput /\ ~visible /\ visible' = TRUE
    /\ Step /\ UNCHANGED <<limits, viewMode, date, viewDate, page, text, typed, chosen>>

\* A click elsewhere, escape, enter or tab: a text in the input is replaced by the date
\* (forceParse).
Hide ==
    /\ isInput /\ visible
    /\ visible' = FALSE
    /\ viewMode' = options.startView
    /\ IF text = Blank THEN UNCHANGED <<text, typed>> ELSE setValue(date)
    /\ Step /\ UNCHANGED <<limits, date, viewDate, page, chosen>>

\* The text is changed; each key that is let go updates the date from the text, but a
\* text that the mouse brings does not.
Type(t) ==
    /\ isInput
    /\ text' = t /\ typed' = TRUE
    /\ Step /\ UNCHANGED <<limits, visible, viewMode, date, viewDate, page, chosen>>

KeyUp ==
    /\ isInput
    /\ update(Read, limits) /\ typed' = FALSE
    /\ chosen' = IF date' = date THEN chosen ELSE "text"
    /\ Step /\ UNCHANGED <<limits, visible, viewMode, text>>

\* An arrow key moves the date by days, with shift by a month, with ctrl by a year.
Moved(dir, by) == MovedBy(date, dir, by)

\* The date goes into the text and is read from there.
KeyedTo(d) ==
    /\ setValue(d)
    /\ update(parseDate(formatDate(d), today), limits)
    /\ chosen' = "key"

\* Mutant: a key takes the date past the limits.
keydownAnywhere(dir, by) ==
    /\ isInput /\ visible
    /\ KeyedTo(Moved(dir, by))
    /\ Step /\ UNCHANGED <<limits, visible, viewMode>>

keydown(dir, by) ==
    /\ isInput /\ visible
    /\ dateWithinRange(Moved(dir, by), limits)
    /\ KeyedTo(Moved(dir, by))
    /\ Step /\ UNCHANGED <<limits, visible, viewMode>>

\* setStartDate, setEndDate and setDaysOfWeekDisabled. A calendar in the page has no text and takes today.
SetLimits(l) ==
    /\ limits' = l
    /\ update(Read, l) /\ chosen' = "text"
    /\ typed' = FALSE
    /\ Step /\ UNCHANGED <<visible, viewMode, text>>

\* A script, or the editable element's form, gives the date.
Give(d) ==
    /\ update(d, limits) /\ chosen' = "text" /\ setValue(d)
    /\ Step /\ UNCHANGED <<limits, visible, viewMode>>

\* setDate and setUTCDate: the view stays where it is and is not filled.
SetDate(d) ==
    /\ date' = d /\ d \in Window
    /\ chosen' = "text" /\ setValue(d)
    /\ Step /\ UNCHANGED <<limits, visible, viewMode, viewDate, page>>

\* setRange: which days are marked as of a range is left out, but the view is filled.
SetRange ==
    /\ fill(viewDate, date)
    /\ Step /\ UNCHANGED <<limits, visible, viewMode, date, viewDate, text, typed, chosen>>

\* The form gives no date.
GiveNone ==
    /\ ~isInput
    /\ update(today, limits) /\ chosen' = "text"
    /\ Step /\ UNCHANGED <<limits, visible, viewMode, text, typed>>

\* The form's link that clears the date; the calendar stays as it is.
Forget ==
    /\ ~isInput
    /\ date' = Null /\ chosen' = "text"
    /\ Step /\ UNCHANGED <<limits, visible, viewMode, viewDate, page, text, typed>>

-----------------------------------------------------------------------------
\* _setDate to d, where the popup then closes or the view changes.
choose(d, how, mode) ==
    /\ d \in Window
    /\ date' = d /\ viewDate' = d /\ chosen' = how
    /\ fill(d, d)
    /\ setValue(d)
    /\ visible' = (visible /\ ~(isInput /\ options.autoclose))
    /\ viewMode' = mode
    /\ Step /\ UNCHANGED limits
Closed(mode) == IF isInput /\ options.autoclose THEN options.startView ELSE mode

\* Mutant: the days before January and after December are taken to be of the same year.
PickedInYear(cell) ==
    LET day == DayIn(cell)
        month == MonthOf(viewDate) + MonthIndex(day) - shown
    IN  UTCDate(YearOf(viewDate), month % 12, DateOf(day))

\* The date that a cell stands for: that day of the month of the view, or of the month
\* before or after it if the cell was painted as old or new.
Picked(cell) ==
    LET day == DayIn(cell)
        month == MonthOf(viewDate) + MonthIndex(day) - shown
    IN  UTCDate(YearOf(viewDate), month, DateOf(day))

ClickDay(cell) ==
    /\ visible /\ viewMode = 0
    /\ Enabled(DayIn(cell), limits)
    /\ choose(Picked(cell), IF unmarked THEN "stale" ELSE "day", Closed(0))

\* The title: the next larger view.
Switch ==
    /\ visible /\ viewMode' = Mode(viewMode, 1)
    /\ Step /\ UNCHANGED <<limits, visible, date, viewDate, page, text, typed, chosen>>

\* updateNavArrows
Arrow(dir) ==
    LET limit == IF dir = -1 THEN limits.start ELSE limits.end
        AtLimit(of(_)) == IF dir = -1 THEN of(viewDate) <= of(limit) ELSE of(viewDate) >= of(limit)
    IN  ~(AtLimit(YearOf) /\ (viewMode = 0 => AtLimit(MonthOf)))

\* prev and next: a month, a year or ten.
Turn(dir) ==
    LET view == CASE viewMode = 0 -> moveMonth(viewDate, dir)
                  [] viewMode = 1 -> moveYear(viewDate, dir)
                  [] OTHER -> moveYear(viewDate, 10 * dir)
    IN  /\ visible /\ Arrow(dir) /\ view \in Window
        /\ viewDate' = view
        /\ fill(view, date)
        /\ Step /\ UNCHANGED <<limits, visible, viewMode, date, text, typed, chosen>>

\* A month or a year, not disabled as far as it was painted: the view moves to it, or it
\* is chosen if there are no smaller views; then the next smaller view. Where the last fill
\* failed, it need not be the one that was painted.
ViewOnly(view) ==
    /\ view \in Window
    /\ viewDate' = view
    /\ fill(view, date)
    /\ viewMode' = Mode(viewMode, -1)
    /\ Step /\ UNCHANGED <<limits, visible, date, text, typed, chosen>>

ClickMonth(m) ==
    LET index == 12 * (shown \div 12) + m
        view == UTCDate(YearOf(viewDate), m, 1)
    IN  /\ visible /\ viewMode = 1
        /\ unmarked \/ (MonthIndex(limits.start) <= index /\ index <= MonthIndex(limits.end))
        /\ IF options.minViewMode = 1
           THEN choose(view, IF unmarked THEN "stale" ELSE "month", Mode(Closed(1), -1))
           ELSE ViewOnly(view)

ClickYear(y) ==
    /\ visible /\ viewMode = 2
    /\ LET decade == 10 * (shown \div 120) IN y \in decade - 1 .. decade + 10
    /\ YearOf(limits.start) <= y /\ y <= YearOf(limits.end)
    /\ IF options.minViewMode = 2 THEN choose(UTCDate(y, 0, 1), "year", Mode(Closed(2), -1))
       ELSE ViewOnly(UTCDate(y, MonthOf(viewDate), 1))

\* The button of today: the date, or only the view.
Today ==
    /\ visible
    /\ IF options.linked THEN choose(today, "today", Closed(Mode(viewMode, -2)))
       ELSE /\ viewMode' = Mode(viewMode, -2)
            /\ viewDate' = today /\ fill(today, date)
            /\ IF date = Null THEN UNCHANGED <<text, typed>> ELSE setValue(date)
            /\ Step /\ UNCHANGED <<limits, visible, date, chosen>>

\* The button that clears the text: the date is today. It fails while there is none.
Clear ==
    /\ visible /\ date # Null
    /\ update(today, limits) /\ chosen' = "text"
    /\ text' = Blank /\ typed' = FALSE
    /\ visible' = (visible /\ ~(isInput /\ options.autoclose))
    /\ viewMode' = Closed(viewMode)
    /\ Step /\ UNCHANGED limits

Next ==
    \/ Show \/ Hide \/ KeyUp \/ SetRange \/ GiveNone \/ Forget \/ Switch \/ Today \/ Clear
    \/ \E t \in Texts \cup {Blank, Junk} : Type(t)
    \/ \E dir \in {-1, 1} :
           Turn(dir) \/ \E by \in {"day", "week", "month", "year"} : keydown(dir, by)
    \/ \E l \in Limits : SetLimits(l)
    \/ \E d \in GivenDates : Give(d) \/ SetDate(d)
    \/ \E cell \in Cells : ClickDay(cell)
    \/ \E m \in Months : ClickMonth(m)
    \/ \E y \in {YearOf(d) : d \in GivenDates} : ClickYear(y)

Spec == Init /\ [][Next]_vars

-----------------------------------------------------------------------------
\* Type invariant: every variable has its type.
TypeOK ==
    /\ options \in Options /\ limits \in Limits
    /\ visible \in BOOLEAN /\ viewMode \in options.minViewMode .. 2
    /\ date \in Window \cup {Null} /\ viewDate \in Window
    /\ shown \in Nat /\ unmarked \in BOOLEAN
    /\ text \in Texts \cup {Blank, Junk} \cup [y : Nat, m : Nat, d : Nat]
    /\ typed \in BOOLEAN /\ chosen \in {"text", "key", "day", "stale", "month", "year", "today"}
    /\ steps \in 0 .. MaxSteps

\* A text in the input is the date, once it has been read, and is read as the same date on
\* any other day if its year, month and date are numbers: what the picker itself writes is.
\* What else users type is read against the present day.
TextIsDate ==
    isInput /\ text # Blank /\ ~typed =>
        /\ Read = date
        /\ text # Junk /\ DOMAIN text = {"y", "m", "d"} =>
               \A day \in GivenDates : parseDate(text, day) = date

\* A click on a cell chooses the day that the cell shows, wherever the view and the date
\* have been since the cells were painted. Only after a fill that failed, because the form's
\* link had taken the date, may it choose another.
PickedIsShown == [][\A cell \in Cells : ClickDay(cell) /\ ~unmarked => date' = DayIn(cell)]_vars

\* A click chooses an enabled day, a key a day within the limits, perhaps of a disabled
\* weekday; the month or year that was chosen is one with days within the limits, of
\* which the date itself, its first, need not be. A day or a month that was clicked after a
\* fill that failed ("stale") may be any.
ChosenAllowed ==
    /\ chosen = "day" => Enabled(date, limits)
    /\ chosen = "key" => dateWithinRange(date, limits)
    /\ chosen = "month" =>
           MonthIndex(limits.start) <= MonthIndex(date) /\ MonthIndex(date) <= MonthIndex(limits.end)
    /\ chosen = "year" => YearOf(limits.start) <= YearOf(date) /\ YearOf(date) <= YearOf(limits.end)

\* Arrow keys and arrows go to the same date of another month or year, or to its last.
MovesWholeMonths ==
    \A d \in {date, viewDate} \ {Null}, n \in {-12, -1, 1, 12} : moveMonth(d, n) = MonthsLater(d, n)
=============================================================================
