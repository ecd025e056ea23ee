---------------------------- MODULE SliderProofs -----------------------------
(***************************************************************************)
(* For every scale: the handles stay on the track and the values in their  *)
(* limits, moving the mouse leaves two handles in order, and the tooltip   *)
(* is there while the slider is used.                                      *)
(***************************************************************************)
EXTENDS Slider, TLAPS

\* The options make sense.
ScalesAssumption ==
    /\ Margin \in Nat
    /\ \A s \in Scales : /\ s.min \in Int /\ s.max \in Int /\ s.step \in Nat \ {0}
                         /\ s.min < s.max

Typed == ScalesAssumption /\ TypeOK

-----------------------------------------------------------------------------
(* Arithmetic.                                                             *)

LEMMA Division ==
    ASSUME NEW a \in Int, NEW b \in Nat \ {0}
    PROVE  a \div b \in Int /\ (a \div b) * b <= a /\ a < (a \div b) * b + b
OBVIOUS

\* A multiple of the step is at most half a step from what it stands for.
LEMMA Rounded ==
    ASSUME NEW a \in Int, NEW s \in Nat \ {0}
    PROVE  /\ Round(a, s) \in Int
           /\ 2 * (Round(a, s) * s) <= 2 * a + s
           /\ 2 * a < 2 * (Round(a, s) * s) + s
<1> DEFINE q == (2 * a + s) \div (2 * s)
<1>1. 2 * a + s \in Int /\ 2 * s \in Nat \ {0}
    OBVIOUS
<1>2. q \in Int /\ q * (2 * s) <= 2 * a + s /\ 2 * a + s < q * (2 * s) + 2 * s
    BY <1>1, Division
<1>3. q * (2 * s) = 2 * (q * s)
    BY <1>2
<1> QED BY <1>2, <1>3 DEF Round

LEMMA Clamped ==
    ASSUME NEW x \in Int, NEW low \in Int, NEW high \in Int, low <= high
    PROVE  Clamp(x, low, high) \in low .. high
BY DEF Clamp

\* The value of a place on the track.
LEMMA ValueInBounds ==
    ASSUME ScalesAssumption, scale \in Scales, NEW p \in 0 .. diff
    PROVE  /\ valueAt(p) \in Int
           /\ valueAt(p) >= scale.min
           /\ IF diff % scale.step = 0 THEN valueAt(p) <= scale.max
              ELSE 2 * (valueAt(p) - scale.max) <= scale.step
<1> DEFINE s == scale.step
           q == Round(p, s)
           v == q * s
<1>1. s \in Nat \ {0} /\ scale.min \in Int /\ scale.max \in Int /\ diff \in Nat
    BY DEF ScalesAssumption, diff
<1>2. q \in Int /\ 2 * v <= 2 * p + s /\ 2 * p < 2 * v + s
    <2>1. p \in Int
        BY <1>1
    <2> QED BY <1>1, <2>1, Rounded
<1>3. valueAt(p) = scale.min + v
    BY DEF valueAt
<1>4. v \in Int /\ 0 <= v
    <2>1. v \in Int
        BY <1>1, <1>2
    <2>2. q >= 0
        <3>1. SUFFICES ASSUME q <= -1 PROVE FALSE
            BY <1>2
        <3>2. q * s <= -s
            BY <1>1, <1>2, <3>1
        <3> QED BY <1>1, <1>2, <2>1, <3>2
    <2> QED BY <1>1, <1>2, <2>1, <2>2
<1>5. 2 * (v - diff) <= s
    BY <1>1, <1>2, <1>4
<1>6. ASSUME diff % s = 0 PROVE v <= diff
    <2> DEFINE k == diff \div s
    <2>1. k \in Int /\ diff = k * s
        BY <1>1, <1>6
    <2>2. SUFFICES ASSUME q >= k + 1 PROVE FALSE
        BY <1>1, <1>2, <2>1
    <2>3. v >= diff + s
        <3>1. q * s >= (k + 1) * s
            BY <1>1, <1>2, <2>1, <2>2
        <3>2. (k + 1) * s = k * s + s
            BY <1>1, <2>1
        <3> QED BY <1>1, <1>4, <2>1, <3>1, <3>2
    <2> QED BY <1>1, <1>4, <1>5, <2>3
<1> QED BY <1>1, <1>3, <1>4, <1>5, <1>6 DEF diff

-----------------------------------------------------------------------------
(* What a step does to places and values.                                  *)

Places == [Handles -> 0 .. diff]

\* The limits, with those of the end of the track where the selection of a single handle is.
Bounded(v) ==
    /\ v \in Int /\ v >= scale.min
    /\ IF diff % scale.step = 0 THEN v <= scale.max
       ELSE 2 * (v - scale.max) <= scale.step

LEMMA ScaleTyped ==
    ASSUME ScalesAssumption, scale \in Scales
    PROVE  /\ scale.min \in Int /\ scale.max \in Int /\ scale.step \in Nat \ {0}
           /\ diff \in Nat /\ scale.min <= scale.max
           /\ scale.max = scale.min + diff
BY DEF ScalesAssumption, diff

LEMMA PercentageOnTrack ==
    ASSUME ScalesAssumption, scale \in Scales, NEW point \in Points
    PROVE  getPercentage(point) \in 0 .. diff
<1> DEFINE q == Round(point, 2 * scale.step)
<1>1. point \in Int /\ 2 * scale.step \in Nat \ {0} /\ scale.step \in Int /\ diff \in Nat
    BY ScaleTyped DEF Points, ScalesAssumption
<1>2. q \in Int
    BY <1>1, Rounded
<1>3. q * scale.step \in Int
    BY <1>1, <1>2
<1> HIDE DEF q
<1>4. Clamp(q * scale.step, 0, diff) \in 0 .. diff
    BY <1>1, <1>3 DEF Clamp
<1> QED BY <1>4 DEF getPercentage, q

LEMMA CalculatedBounded ==
    ASSUME Typed, NEW places \in Places, \A h \in Handles : Bounded(value[h])
    PROVE  /\ calculateValue(places) \in [Handles -> Int]
           /\ \A h \in Handles : Bounded(calculateValue(places)[h])
<1>1. \A h \in Handles : Bounded(valueAt(places[h]))
    BY ValueInBounds DEF Places, Bounded, Typed, TypeOK
<1>2. \A h \in Handles : calculateValue(places)[h] = valueAt(places[h])
                         \/ calculateValue(places)[h] = value[h]
    BY DEF calculateValue
<1>3. \A h \in Handles : Bounded(calculateValue(places)[h])
    BY <1>1, <1>2
<1> QED BY <1>3 DEF calculateValue, Bounded

\* Values that are given to the slider are within the limits, and so are their places.
LEMMA GivenBounded ==
    ASSUME ScalesAssumption, scale \in Scales, rest \in {scale.min, scale.max},
           NEW v \in GivenValues
    PROVE  Given(v) \in [Handles -> scale.min .. scale.max]
<1>1. \A h \in Handles : v[h] \in Int
    BY ScaleTyped DEF GivenValues, ScalesAssumption
<1>2. \A h \in Handles : Clamp(v[h], scale.min, scale.max) \in scale.min .. scale.max
    BY <1>1, ScaleTyped, Clamped
<1>3. rest \in scale.min .. scale.max
    BY ScaleTyped
<1> QED BY <1>2, <1>3 DEF Given

LEMMA WithinIsBounded ==
    ASSUME ScalesAssumption, scale \in Scales,
           NEW v \in [Handles -> scale.min .. scale.max]
    PROVE  /\ v \in [Handles -> Int] /\ \A h \in Handles : Bounded(v[h])
           /\ [h \in Handles |-> v[h] - scale.min] \in Places
<1>1. ASSUME NEW h \in Handles
      PROVE  v[h] \in Int /\ Bounded(v[h]) /\ v[h] - scale.min \in 0 .. diff
    <2>1. v[h] \in scale.min .. scale.max
        OBVIOUS
    <2>2. v[h] \in Int /\ v[h] >= scale.min /\ v[h] <= scale.max
        BY <2>1, ScaleTyped
    <2>3. 2 * (v[h] - scale.max) <= scale.step
        BY <2>2, ScaleTyped
    <2> QED BY <2>2, <2>3, ScaleTyped DEF Bounded
<1> QED BY <1>1 DEF Places

-----------------------------------------------------------------------------
(* The inductive invariant: types, and every handle in its limits.         *)

IInv ==
    /\ TypeOK
    /\ place \in Places
    /\ \A h \in Handles : Bounded(value[h])

LEMMA InitIInv == ScalesAssumption /\ Init => IInv
<1> SUFFICES ASSUME ScalesAssumption, Init PROVE IInv
    OBVIOUS
<1>1. PICK v \in GivenValues : value = Given(v)
    BY DEF Init
<1>2. value \in [Handles -> scale.min .. scale.max]
    BY <1>1, GivenBounded DEF Init
<1>3. /\ value \in [Handles -> Int] /\ \A h \in Handles : Bounded(value[h])
      /\ place \in Places
    BY <1>2, WithinIsBounded DEF Init
<1>4. place \in [Handles -> Int]
    BY <1>3, ScaleTyped DEF Places, Init
<1>5. 1 \in Handles
    BY DEF Handles
<1> QED BY <1>3, <1>4, <1>5 DEF IInv, TypeOK, Init

\* A handle comes to another place on the track.
LEMMA MovedIInv ==
    ASSUME ScalesAssumption, IInv, NEW places \in Places, NEW handle \in Handles,
           Moved(places, handle), UNCHANGED <<scale, range, rest>>,
           inDrag' \in BOOLEAN, over' \in BOOLEAN, tooltip' \in BOOLEAN
    PROVE  IInv'
<1>1. /\ calculateValue(places) \in [Handles -> Int]
      /\ \A h \in Handles : Bounded(calculateValue(places)[h])
    BY CalculatedBounded DEF IInv, Typed
<1>2. place' \in Places' /\ place' \in [Handles -> Int] /\ dragged' \in Handles
    BY ScaleTyped DEF Moved, Places, diff, IInv, TypeOK
<1>3. value' \in [Handles -> Int] /\ \A h \in Handles : Bounded(value'[h])
    BY <1>1 DEF Moved
<1>4. (\A h \in Handles : Bounded(value[h]))'
    BY <1>3 DEF Bounded, diff
<1> QED BY <1>2, <1>3, <1>4 DEF IInv, TypeOK

LEMMA StepIInv == ScalesAssumption /\ IInv /\ [Next]_vars => IInv'
<1> SUFFICES ASSUME ScalesAssumption, IInv, [Next]_vars PROVE IInv'
    OBVIOUS
<1>1. ASSUME NEW point \in Points, mousedown(point) PROVE IInv'
    <2>1. getPercentage(point) \in 0 .. diff
        BY PercentageOnTrack DEF IInv, TypeOK
    <2>2. PICK handle \in Handles : Moved([place EXCEPT ![handle] = getPercentage(point)], handle)
        <3> DEFINE p == getPercentage(point)
                   first == ~range \/ Abs(place[1] - p) < Abs(place[2] - p)
                   h == IF first THEN 1 ELSE 2
        <3>1. h \in Handles
            BY DEF Handles
        <3>2. Moved([place EXCEPT ![h] = p], h)
            BY <1>1 DEF mousedown
        <3> QED BY <3>1, <3>2
    <2>3. [place EXCEPT ![handle] = getPercentage(point)] \in Places
        BY <2>1 DEF IInv, Places
    <2> QED BY <1>1, <2>2, <2>3, MovedIInv DEF mousedown, IInv, TypeOK
<1>2. ASSUME NEW point \in Points, mousemove(point) PROVE IInv'
    <2> DEFINE p == getPercentage(point)
               other == 3 - dragged
    <2>1. p \in 0 .. diff
        BY PercentageOnTrack DEF IInv, TypeOK
    <2>2. dragged \in Handles /\ other \in Handles
        BY DEF IInv, TypeOK, Handles
    <2>3. [place EXCEPT ![dragged] = p] \in Places
        BY <2>1 DEF IInv, Places
    <2>4. [place EXCEPT ![dragged] = place[other], ![other] = p] \in Places
        BY <2>1, <2>2 DEF IInv, Places
    <2>5. \/ Moved([place EXCEPT ![dragged] = p], dragged)
          \/ Moved([place EXCEPT ![dragged] = place[other], ![other] = p], other)
        BY <1>2 DEF mousemove
    <2>6. /\ UNCHANGED <<scale, range, rest>>
          /\ inDrag' \in BOOLEAN /\ over' \in BOOLEAN /\ tooltip' \in BOOLEAN
        BY <1>2 DEF mousemove, IInv, TypeOK
    <2> HIDE DEF p, other
    <2> QED BY <2>2, <2>3, <2>4, <2>5, <2>6, MovedIInv
<1>3. CASE mouseup
    <2>1. Moved(place, dragged) /\ place \in Places /\ dragged \in Handles
        BY <1>3 DEF mouseup, Moved, IInv, TypeOK
    <2> QED BY <1>3, <2>1, MovedIInv DEF mouseup, IInv, TypeOK
<1>4. CASE mouseenter \/ mouseleave \/ UNCHANGED vars
    <2>1. UNCHANGED <<scale, range, rest, value, place, dragged>>
        BY <1>4 DEF mouseenter, mouseleave, vars
    <2>2. inDrag' \in BOOLEAN /\ over' \in BOOLEAN /\ tooltip' \in BOOLEAN
        BY <1>4 DEF mouseenter, mouseleave, vars, IInv, TypeOK
    <2> QED BY <2>1, <2>2 DEF IInv, TypeOK, Places, Bounded, diff
<1>5. ASSUME NEW v \in GivenValues, setValue(v) PROVE IInv'
    <2>1. Given(v) \in [Handles -> scale.min .. scale.max]
        BY GivenBounded DEF IInv, TypeOK
    <2>2. /\ value' \in [Handles -> Int] /\ \A h \in Handles : Bounded(value'[h])
          /\ place' \in Places
        BY <1>5, <2>1, WithinIsBounded DEF setValue, IInv, TypeOK
    <2>3. place' \in [Handles -> Int]
        BY <2>2, ScaleTyped DEF Places, IInv, TypeOK
    <2>4. UNCHANGED <<scale, range, rest, dragged, inDrag, over, tooltip>>
        BY <1>5 DEF setValue
    <2> QED BY <2>2, <2>3, <2>4 DEF IInv, TypeOK, Places, Bounded, diff
<1> QED BY <1>1, <1>2, <1>3, <1>4, <1>5 DEF Next

THEOREM IInvHolds == ASSUME ScalesAssumption PROVE Spec => []IInv
<1>1. Init => IInv
    BY InitIInv
<1>2. IInv /\ [Next]_vars => IInv'
    BY StepIInv
<1> QED BY <1>1, <1>2, PTL DEF Spec

-----------------------------------------------------------------------------
(* Results.                                                                *)

\* TypeOK, for all scales.
THEOREM TypeCorrect == ASSUME ScalesAssumption PROVE Spec => []TypeOK
<1>1. IInv => TypeOK
    BY DEF IInv
<1> QED BY IInvHolds, <1>1, PTL

\* InBounds: the handles are on the track, and a value is past the maximum by half a step
\* at most, which only a step that does not divide the range can cause (calculateValue).
THEOREM ValuesInBounds == ASSUME ScalesAssumption PROVE Spec => []InBounds
<1>1. IInv => InBounds
    BY DEF IInv, InBounds, Places, Bounded
<1> QED BY IInvHolds, <1>1, PTL

\* DraggingOrders: after a move of the mouse the handles are in order, and a press puts
\* one past the other only if they were at one place or crossed before.
THEOREM MovingOrders == ASSUME ScalesAssumption PROVE Spec => DraggingOrders
<1>1. ASSUME IInv, NEW point \in Points, mousemove(point) PROVE ~Crossed(place')
    <2> DEFINE p == getPercentage(point)
    <2>1. p \in 0 .. diff /\ diff \in Nat
        BY <1>1, PercentageOnTrack, ScaleTyped DEF IInv, TypeOK
    <2>2. /\ place \in [Handles -> Int] /\ p \in Int
          /\ dragged = 1 \/ dragged = 2
          /\ Handles = {1, 2}
        BY <1>1, <2>1 DEF IInv, TypeOK, Handles
    <2>3. CASE dragged = 1
        BY <1>1, <2>2, <2>3 DEF mousemove, Moved, Crossed
    <2>4. CASE dragged = 2
        BY <1>1, <2>2, <2>4 DEF mousemove, Moved, Crossed
    <2> QED BY <2>2, <2>3, <2>4
<1>2. ASSUME IInv, NEW point \in Points, mousedown(point), Crossed(place')
      PROVE  place[1] >= place[2]
    <2> DEFINE p == getPercentage(point)
    <2>1. p \in 0 .. diff /\ diff \in Nat
        BY <1>2, PercentageOnTrack, ScaleTyped DEF IInv, TypeOK
    <2>2. place \in [Handles -> Int] /\ p \in Int /\ Handles = {1, 2} /\ range
        BY <1>2, <2>1 DEF IInv, TypeOK, Handles, Crossed, mousedown
    <2> QED BY <1>2, <2>2 DEF mousedown, Moved, Crossed, Abs
<1>3. IInv /\ [Next]_vars =>
        [\A point \in Points :
            /\ mousemove(point) => ~Crossed(place')
            /\ mousedown(point) => (Crossed(place') => place[1] >= place[2])]_vars
    BY <1>1, <1>2
<1> QED BY IInvHolds, <1>3, PTL DEF Spec, DraggingOrders

\* TooltipWhileUsed: the tooltip is there while the mouse is over the slider, and until
\* the button is released elsewhere (showTooltip, hideTooltip, mouseup).
THEOREM TooltipThere == ASSUME ScalesAssumption PROVE Spec => []TooltipWhileUsed
<1>1. Init => TooltipWhileUsed
    BY DEF Init, TooltipWhileUsed
<1>2. IInv /\ TooltipWhileUsed /\ [Next]_vars => TooltipWhileUsed'
    <2> SUFFICES ASSUME IInv, TooltipWhileUsed, [Next]_vars PROVE TooltipWhileUsed'
        OBVIOUS
    <2> USE DEF TooltipWhileUsed
    <2>1. ASSUME NEW point \in Points, mousedown(point) PROVE TooltipWhileUsed'
        BY <2>1 DEF mousedown
    <2>2. ASSUME NEW point \in Points, mousemove(point) PROVE TooltipWhileUsed'
        BY <2>2 DEF mousemove
    <2>3. CASE mouseup
        BY <2>3, Zenon DEF mouseup, IInv, TypeOK
    <2>4. CASE mouseenter
        BY <2>4 DEF mouseenter
    <2>5. CASE mouseleave
        BY <2>5, Zenon DEF mouseleave, IInv, TypeOK
    <2>6. ASSUME NEW v \in GivenValues, setValue(v) PROVE TooltipWhileUsed'
        BY <2>6 DEF setValue
    <2>7. CASE UNCHANGED vars
        BY <2>7 DEF vars
    <2> QED BY <2>1, <2>2, <2>3, <2>4, <2>5, <2>6, <2>7 DEF Next
<1> QED BY IInvHolds, <1>1, <1>2, PTL DEF Spec
=============================================================================
