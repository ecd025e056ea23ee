------------------------------- MODULE Slider --------------------------------
(***************************************************************************)
(* A slider with one handle, or with two for a range: a mouse that drags a *)
(* handle, scripts that set the value, and the value that comes of it.     *)
(*                                                                         *)
(* The program keeps the places of the handles in percent of the track;    *)
(* here they are exact, in the unit of the values from the track's start.  *)
(***************************************************************************)
EXTENDS Integers

CONSTANTS
    Scales,         \* options min, max and step, where min < max and step > 0
    Margin          \* bound: how far outside the track the mouse may be

VARIABLES
    scale,
    range,          \* two handles
    rest,           \* with one handle: the end of the track where the selection is
    value,          \* of both handles
    place,          \* of both handles on the track (percentage)
    dragged,        \* the handle that the mouse took last
    inDrag,
    over,           \* the mouse is over the slider
    tooltip         \* is shown

vars == <<scale, range, rest, value, place, dragged, inDrag, over, tooltip>>

Handles == 1 .. 2
diff == scale.max - scale.min

\* Math.round(a / b)
Round(a, b) == (2 * a + b) \div (2 * b)

Clamp(x, low, high) == IF x < low THEN low ELSE IF x > high THEN high ELSE x

\* Where the mouse can be, in halves of the unit, and the place of a handle there: the
\* next multiple of the step on the track.
Points == (0 - 2 * Margin) .. 2 * (diff + Margin)

\* Mutant: the handle leaves the track.
getPercentageAnywhere(point) == Round(point, 2 * scale.step) * scale.step

getPercentage(point) == Clamp(Round(point, 2 * scale.step) * scale.step, 0, diff)

\* Slider.calculateValue
valueAt(p) == scale.min + Round(p, scale.step) * scale.step
calculateValue(places) ==
    [h \in Handles |-> IF range \/ h = 1 THEN valueAt(places[h]) ELSE value[h]]

\* The values that are given to the slider, at first or by setValue. At first a second
\* value of 0 does not make a range.
Given(v) ==
    [h \in Handles |-> IF range \/ h = 1 THEN Clamp(v[h], scale.min, scale.max) ELSE rest]
GivenValues == [Handles -> (scale.min - Margin) .. (scale.max + Margin)]

Init ==
    /\ scale \in Scales /\ range \in BOOLEAN
    /\ rest \in {scale.min, scale.max}
    /\ \E v \in GivenValues : (range => v[2] # 0) /\ value = Given(v)
    /\ place = [h \in Handles |-> value[h] - scale.min]
    /\ dragged = 1
    /\ inDrag = FALSE /\ over = FALSE /\ tooltip = FALSE

-----------------------------------------------------------------------------
Moved(places, handle) ==
    /\ place' = places
    /\ dragged' = handle
    /\ value' = calculateValue(places)

Abs(x) == IF x < 0 THEN -x ELSE x

\* The nearer handle comes to the mouse, the second if both are as near.
mousedown(point) ==
    LET p == getPercentage(point)
        first == ~range \/ Abs(place[1] - p) < Abs(place[2] - p)
        handle == IF first THEN 1 ELSE 2
    IN  /\ over
        /\ Moved([place EXCEPT ![handle] = p], handle)
        /\ inDrag' = TRUE
        /\ UNCHANGED <<scale, range, rest, over, tooltip>>

\* A handle that comes past the other stays there, and the mouse takes the other.
mousemove(point) ==
    LET p == getPercentage(point)
        past == range /\ IF dragged = 1 THEN place[2] < p ELSE place[1] > p
        other == 3 - dragged
    IN  /\ inDrag
        /\ IF past THEN Moved([place EXCEPT ![dragged] = place[other], ![other] = p], other)
           ELSE Moved([place EXCEPT ![dragged] = p], dragged)
        /\ UNCHANGED <<scale, range, rest, inDrag, over, tooltip>>

mouseup ==
    /\ inDrag /\ inDrag' = FALSE
    /\ value' = calculateValue(place)
    /\ tooltip' = (tooltip /\ over)
    /\ UNCHANGED <<scale, range, rest, place, dragged, over>>

\* showTooltip and hideTooltip, as the mouse comes and goes.
mouseenter ==
    /\ ~over /\ over' = TRUE
    /\ tooltip' = TRUE
    /\ UNCHANGED <<scale, range, rest, value, place, dragged, inDrag>>

mouseleave ==
    /\ over /\ over' = FALSE
    /\ tooltip' = (tooltip /\ inDrag)
    /\ UNCHANGED <<scale, range, rest, value, place, dragged, inDrag>>

setValue(v) ==
    /\ value' = Given(v)
    /\ place' = [h \in Handles |-> value'[h] - scale.min]
    /\ UNCHANGED <<scale, range, rest, dragged, inDrag, over, tooltip>>

Next ==
    \/ \E point \in Points : mousedown(point) \/ mousemove(point)
    \/ mouseup \/ mouseenter \/ mouseleave
    \/ \E v \in GivenValues : setValue(v)

Spec == Init /\ [][Next]_vars

-----------------------------------------------------------------------------
\* Type invariant: every variable has its type.
TypeOK ==
    /\ scale \in Scales /\ range \in BOOLEAN /\ rest \in {scale.min, scale.max}
    /\ value \in [Handles -> Int] /\ place \in [Handles -> Int]
    /\ dragged \in Handles
    /\ inDrag \in BOOLEAN /\ over \in BOOLEAN /\ tooltip \in BOOLEAN

\* The handles are on the track and the values in their limits; a step that does not
\* divide the range takes the value up to half a step past the maximum.
InBounds ==
    \A h \in Handles :
        /\ place[h] \in 0 .. diff
        /\ value[h] >= scale.min
        /\ IF diff % scale.step = 0 THEN value[h] <= scale.max
           ELSE 2 * (value[h] - scale.max) <= scale.step

Crossed(places) == range /\ places[1] > places[2]

\* A script may put the first handle past the second, and so may a press of the mouse
\* while both are at one place, which takes the second to the left. Moving the mouse
\* always leaves them in order, wherever they were.
DraggingOrders ==
    [][\A point \in Points :
          /\ mousemove(point) => ~Crossed(place')
          /\ mousedown(point) => (Crossed(place') => place[1] >= place[2])]_vars

\* The tooltip is there exactly while the mouse is over the slider or drags a handle.
TooltipWhileUsed == tooltip <=> (over \/ inDrag)
=============================================================================
