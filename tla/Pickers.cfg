\* Four steps of a date picker; a range of three dates; a slider.
SPECIFICATION MCSpec
CONSTANTS
    Options <- MCOptions
    Limits <- MCLimits
    Texts <- MCTexts
    GivenDates <- MCGivenDates
    today <- MCToday
    Window <- MCWindow
    Cells <- MCCells
    RangeSize = 3
    RangeDates <- MCRangeDates
    RangeToday = 1
    Scales <- MCScales
    Margin = 1
    MaxSteps = 4
    Blank = Blank
    Junk = Junk
    Null = Null
INVARIANTS PageTypeOK TextIsDate ChosenAllowed MovesWholeMonths InBounds
PROPERTIES PickedIsShown MovesOnlyPast
\* No more steps may be left.
CHECK_DEADLOCK FALSE
