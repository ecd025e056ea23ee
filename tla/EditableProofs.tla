---------------------------- MODULE EditableProofs ---------------------------
(***************************************************************************)
(* For any set of elements, values and options, and whatever the servers   *)
(* answer: a form that saves is not closed, a hide is put off only for it, *)
(* one element is edited at a time, and a form follows its element.        *)
(***************************************************************************)
EXTENDS Editable, TLAPS

-----------------------------------------------------------------------------
(* The inductive invariant.                                                *)

Shown == {e \in Elements : view[e] \in {"open", "fading"}}

\* The form's input is not that of an older form.
Own(e) == ~(options[e].list /\ shows[e] > 1)

\* What stage, requests and history have to do with each other.
Staged ==
    \A e \in Elements :
        /\ stage[e] # "none" => shows[e] > 0
        /\ older[e] # None => shows[e] > 1
        /\ stage[e] = "loading" => options[e].sends
        /\ RequestsOf(e) # {} => stage[e] \in {"shown", "loading"}
        /\ e \in Shown /\ stage[e] = "loading" /\ Own(e) => e \in touched

IInv ==
    /\ TypeOK
    /\ Staged
    /\ SavingWaits
    /\ DelayedOnlySaving
    /\ OneEditing
    /\ FormFollowsElement

LEMMA InitIInv == Init => IInv
<1> SUFFICES ASSUME Init PROVE IInv
    OBVIOUS
<1> USE OptionsAssumption, ValuesAssumption, BoundAssumption
<1>1. TypeOK
    <2>1. /\ options \in [Elements -> OptionSets]
          /\ value \in [Elements -> Values] /\ formValue \in [Elements -> Values]
          /\ typed \in [Elements -> Values]
        BY DEF Init
    <2>2. /\ view \in [Elements -> {"closed", "open", "fading", "gone"}]
          /\ stage \in [Elements -> {"none", "rendering", "broken", "shown", "loading"}]
          /\ older \in [Elements -> Values \cup {None}]
        BY DEF Init
    <2>3. /\ shows \in [Elements -> 0 .. MaxShows]
          /\ sends \in [Elements -> 0 .. MaxSends]
        BY DEF Init
    <2> QED BY <2>1, <2>2, <2>3 DEF Init, TypeOK
<1>2. Open = {} /\ \A e \in Elements : RequestsOf(e) = {}
    BY DEF Init, Open, RequestsOf
<1> QED BY <1>1, <1>2 DEF Init, IInv, Staged, Shown, SavingWaits, DelayedOnlySaving,
                          OneEditing, FormFollowsElement

-----------------------------------------------------------------------------
(* Events: what one does to each element.                                  *)

\* What Event does when the forms S are those that have a submit handler.
Effects(H, S, new) ==
    /\ save(Sent(S)) /\ render(new)
    /\ hide(H \cup Unchanged(S) \cup Stored(S), isSaving, new)
    /\ isSaving' = (isSaving \cup Sent(S)) \ new
    /\ touched' = touched \ (Stored(S) \cup new)
    /\ hasty' = hasty \cup (Saved(S) \ Open)
    /\ left' \in BOOLEAN
    /\ UNCHANGED <<options, loaded>>
    /\ stage' = [e \in Elements |-> IF e \in Pending(new) THEN "rendering"
                                    ELSE IF e \in new \cup Refused(S) THEN "shown"
                                    ELSE IF e \in Sent(S) THEN "loading"
                                    ELSE stage[e]]
    /\ value' = [e \in Elements |-> IF e \in Stored(S) THEN typed[e] ELSE value[e]]
    /\ formValue' = [e \in Elements |-> IF e \in Stored(S) THEN typed[e]
                                        ELSE IF e \in new THEN value[e]
                                        ELSE formValue[e]]

\* An event that opens the elements new closes the others, among the containers H that it
\* hides, unless a script shows one beside another.
ClosesOthers(H, new) ==
    /\ beside' \in BOOLEAN
    /\ \A x, y \in new : x = y
    /\ ~beside' => Others(new, "cancel") \subseteq H \/ (new = {} /\ ~beside)

\* An event that hides the containers H, submits the forms S, which are there, and opens
\* at most one element, which is closed.
Happens(H, S, new) ==
    /\ Effects(H, S, new)
    /\ H \cap S = {}
    /\ \A e \in S : /\ e \in Shown
                    /\ stage[e] = "shown" \/ (stage[e] = "loading" /\ options[e].onblur = "submit")
    /\ \A e \in new : view[e] = "closed"
    /\ ClosesOthers(H, new)

LEMMA EventTyped ==
    ASSUME NEW H \in SUBSET Elements, NEW S \in SUBSET Elements,
           NEW new \in SUBSET Elements, Happens(H, S, new), IInv,
           disabled' \subseteq Elements
    PROVE  TypeOK'
<1> USE ValuesAssumption, BoundAssumption DEF IInv
<1>1. \A e \in S : shows[e] > 0
    BY DEF Happens, Staged
<1>2. TypeOK
    OBVIOUS
<1>3. /\ save(Sent(S)) /\ render(new)
      /\ hide(H \cup Unchanged(S) \cup Stored(S), isSaving, new)
      /\ isSaving' = (isSaving \cup Sent(S)) \ new
      /\ touched' = touched \ (Stored(S) \cup new)
      /\ hasty' = hasty \cup (Saved(S) \ Open)
      /\ left' \in BOOLEAN
      /\ UNCHANGED <<options, loaded>>
    BY DEF Happens, Effects
<1>4. Sent(S) \subseteq S /\ Stored(S) \subseteq S /\ Saved(S) \subseteq S
    BY DEF Sent, Stored, Saved
<1>5. /\ stage' \in [Elements -> {"none", "rendering", "broken", "shown", "loading"}]
      /\ value' \in [Elements -> Values] /\ formValue' \in [Elements -> Values]
    BY <1>2, <1>4 DEF TypeOK, Happens, Effects
<1>6. /\ view' \in [Elements -> {"closed", "open", "fading", "gone"}]
      /\ delayedHide' \subseteq Elements
    BY <1>2, <1>3 DEF TypeOK, hide, Open
<1>7. /\ typed' \in [Elements -> Values]
      /\ older' \in [Elements -> Values \cup {None}]
      /\ shows' \in [Elements -> 0 .. MaxShows]
      /\ \A e \in Elements : shows[e] <= shows'[e]
    BY <1>2, <1>3 DEF TypeOK, render
<1>8. /\ sends' \in [Elements -> 0 .. MaxSends]
      /\ \A e \in Elements : sends[e] <= sends'[e]
    BY <1>1, <1>2, <1>3, <1>4 DEF TypeOK, save
<1>9. ASSUME NEW r \in requests'
      PROVE  r \in Request /\ r.form <= shows'[r.element] /\ r.id <= sends'[r.element]
    <2>1. CASE r \in requests
        <3>1. /\ r \in Request /\ r.form <= shows[r.element] /\ r.id <= sends[r.element]
              /\ r.element \in Elements /\ r.form \in Nat /\ r.id \in Nat
            BY <1>2, <2>1 DEF TypeOK, Request
        <3> QED BY <1>2, <1>7, <1>8, <3>1 DEF TypeOK
    <2>2. ASSUME NEW e \in Sent(S),
                 r = [element |-> e, form |-> shows[e], value |-> typed[e], id |-> sends[e] + 1]
          PROVE  r \in Request /\ r.form <= shows'[r.element] /\ r.id <= sends'[r.element]
        <3>1. e \in Elements /\ shows[e] > 0 /\ sends[e] < MaxSends
            BY <1>1, <1>3, <1>4 DEF save
        <3>2. sends'[e] = sends[e] + 1
            BY <1>3, <3>1 DEF save
        <3>3. /\ shows[e] \in 1 .. MaxShows /\ sends[e] + 1 \in 1 .. MaxSends
              /\ typed[e] \in Values /\ shows[e] <= shows'[e]
            BY <1>2, <1>7, <3>1 DEF TypeOK
        <3> QED BY <2>2, <3>1, <3>2, <3>3 DEF Request
    <2> QED BY <1>3, <2>1, <2>2 DEF save
<1>10. /\ isSaving' \subseteq Elements /\ touched' \subseteq Elements
       /\ loaded' \subseteq Elements /\ hasty' \subseteq Elements
       /\ options' \in [Elements -> OptionSets] /\ beside' \in BOOLEAN
    BY <1>1, <1>2, <1>3, <1>4 DEF TypeOK, Happens, ClosesOthers
<1> QED BY <1>3, <1>5, <1>6, <1>7, <1>8, <1>9, <1>10 DEF TypeOK

\* No element that opens is submitted.
LEMMA OpensApart ==
    ASSUME NEW H \in SUBSET Elements, NEW S \in SUBSET Elements,
           NEW new \in SUBSET Elements, Happens(H, S, new)
    PROVE  S \cap new = {} /\ Open \cap new = {}
BY DEF Happens, Shown, Open

LEMMA EventShows ==
    ASSUME NEW H \in SUBSET Elements, NEW S \in SUBSET Elements,
           NEW new \in SUBSET Elements, Happens(H, S, new), IInv, NEW e \in Elements
    PROVE  shows'[e] = IF e \in new THEN shows[e] + 1 ELSE shows[e]
BY DEF Happens, Effects, render

\* The requests of the newest forms.
LEMMA EventRequests ==
    ASSUME NEW H \in SUBSET Elements, NEW S \in SUBSET Elements,
           NEW new \in SUBSET Elements, Happens(H, S, new), IInv, NEW e \in Elements
    PROVE  /\ e \in new => RequestsOf(e)' = {}
           /\ e \in Sent(S) => \E r : RequestsOf(e)' = RequestsOf(e) \cup {r} /\ r.value = typed[e]
           /\ e \notin new /\ e \notin Sent(S) => RequestsOf(e)' = RequestsOf(e)
<1> DEFINE Rec(x) == [element |-> x, form |-> shows[x], value |-> typed[x], id |-> sends[x] + 1]
<1>1. requests' = requests \cup {Rec(x) : x \in Sent(S)}
    BY DEF Happens, Effects, save
<1>2. Sent(S) \subseteq S /\ S \cap new = {}
    BY OpensApart DEF Sent, Saved
<1>3. shows'[e] = IF e \in new THEN shows[e] + 1 ELSE shows[e]
    BY EventShows
<1>4. RequestsOf(e)' = {r \in requests' : r.element = e /\ r.form = shows'[e]}
    BY DEF RequestsOf, Newest
<1>5. RequestsOf(e) = {r \in requests : r.element = e /\ r.form = shows[e]}
    BY DEF RequestsOf, Newest
<1>6. ASSUME e \in new PROVE RequestsOf(e)' = {}
    <2>1. ASSUME NEW r \in requests', r.element = e PROVE r.form # shows'[e]
        <3>1. r \in requests
            BY <1>1, <1>2, <1>6, <2>1
        <3>2. r.form <= shows[e] /\ r.form \in Nat /\ shows[e] \in Nat
            BY <2>1, <3>1, BoundAssumption DEF IInv, TypeOK, Request
        <3> QED BY <1>3, <1>6, <3>2
    <2> QED BY <1>4, <2>1
<1>7. ASSUME e \in Sent(S) PROVE RequestsOf(e)' = RequestsOf(e) \cup {Rec(e)} /\ Rec(e).value = typed[e]
    <2>1. shows'[e] = shows[e]
        BY <1>2, <1>3, <1>7
    <2>2. /\ \A x \in Sent(S) : Rec(x).element = x /\ Rec(x).form = shows[x]
          /\ Rec(e).value = typed[e]
        OBVIOUS
    <2> HIDE DEF Rec
    <2> QED BY <1>1, <1>4, <1>5, <1>7, <2>1, <2>2
<1>8. ASSUME e \notin new, e \notin Sent(S) PROVE RequestsOf(e)' = RequestsOf(e)
    <2>1. shows'[e] = shows[e]
        BY <1>3, <1>8
    <2>2. \A x \in Sent(S) : Rec(x).element = x
        OBVIOUS
    <2> HIDE DEF Rec
    <2> QED BY <1>1, <1>4, <1>5, <1>8, <2>1, <2>2
<1> QED BY <1>6, <1>7, <1>8

\* The containers: those that open, those that hide and those whose hide is put off.
LEMMA EventViews ==
    ASSUME NEW H \in SUBSET Elements, NEW S \in SUBSET Elements,
           NEW new \in SUBSET Elements, Happens(H, S, new), IInv, NEW e \in Elements
    PROVE  /\ e \in new => view'[e] = "open" /\ e \notin delayedHide' /\ e \notin isSaving'
           /\ e \notin new /\ e \notin Open => view'[e] = view[e] /\ e \notin delayedHide'
           /\ e \in Open /\ e \in isSaving =>
                  /\ view'[e] = "open"
                  /\ e \in delayedHide' <=> e \in delayedHide \/ e \in H \cup Unchanged(S) \cup Stored(S)
           /\ e \in Open /\ e \notin isSaving =>
                  /\ e \notin delayedHide'
                  /\ view'[e] = IF e \in H \cup Unchanged(S) \cup Stored(S) THEN "fading"
                                ELSE "open"
           /\ e \notin new => (e \in isSaving' <=> e \in isSaving \/ e \in Sent(S))
<1>1. /\ hide(H \cup Unchanged(S) \cup Stored(S), isSaving, new)
      /\ isSaving' = (isSaving \cup Sent(S)) \ new
    BY DEF Happens, Effects
<1>2. Open \cap new = {} /\ delayedHide \subseteq isSaving /\ delayedHide \subseteq Open
    BY OpensApart DEF IInv, DelayedOnlySaving
<1> DEFINE G == H \cup Unchanged(S) \cup Stored(S)
<1>3. /\ view'[e] = IF e \in new THEN "open"
                    ELSE IF e \in (G \cap Open) \ isSaving THEN "fading" ELSE view[e]
      /\ delayedHide' = (delayedHide \ (G \cap Open)) \cup (G \cap Open \cap isSaving)
    BY <1>1 DEF hide
<1> HIDE DEF G
<1>4. e \in Open <=> view[e] = "open"
    BY DEF Open
<1> QED BY <1>1, <1>2, <1>3, <1>4 DEF G

LEMMA EventDelayed ==
    ASSUME NEW H \in SUBSET Elements, NEW S \in SUBSET Elements,
           NEW new \in SUBSET Elements, Happens(H, S, new), IInv
    PROVE  DelayedOnlySaving'
<1>1. ASSUME NEW e \in delayedHide' PROVE e \in isSaving' /\ view'[e] = "open" /\ e \in Elements
    <2>1. e \in Elements
        BY DEF Happens, Effects, hide, Open, IInv, TypeOK
    <2> QED BY <1>1, <2>1, EventViews, OpensApart
<1> QED BY <1>1 DEF DelayedOnlySaving, Open

LEMMA EventOneEditing ==
    ASSUME NEW H \in SUBSET Elements, NEW S \in SUBSET Elements,
           NEW new \in SUBSET Elements, Happens(H, S, new), IInv
    PROVE  OneEditing'
<1>1. options' = options /\ Open' = {e \in Elements : view'[e] = "open"}
    BY DEF Happens, Effects, Open
<1>2. ASSUME NEW e \in Open', e \notin delayedHide', e \notin new
      PROVE  e \in Open \ delayedHide
    <2>1. e \in Elements /\ view'[e] = "open"
        BY <1>1
    <2>2. e \in Open
        BY <1>2, <2>1, EventViews DEF Open
    <2>3. delayedHide \subseteq isSaving
        BY DEF IInv, DelayedOnlySaving
    <2> QED BY <1>2, <2>1, <2>2, <2>3, EventViews
<1>3. SUFFICES ASSUME NEW e \in Open', NEW f \in Open', e \notin delayedHide', f \notin delayedHide',
                      options[e].onblur = "cancel", options[f].onblur = "cancel", ~beside'
               PROVE  e = f
    BY <1>1 DEF OneEditing
<1>4. CASE new = {} /\ ~beside
    BY <1>2, <1>3, <1>4 DEF IInv, OneEditing
<1>5. CASE Others(new, "cancel") \subseteq H
    <2>1. ASSUME NEW g \in Open', g \notin delayedHide', options[g].onblur = "cancel", g \notin new
          PROVE  FALSE
        <3>1. g \in Open \ delayedHide /\ g \in Elements
            BY <1>2, <2>1 DEF Open
        <3>2. g \in H
            BY <1>5, <2>1, <3>1 DEF Others
        <3>3. view'[g] = "open"
            BY <1>1, <2>1
        <3> QED BY <2>1, <3>1, <3>2, <3>3, EventViews
    <2> QED BY <1>3, <2>1 DEF Happens, ClosesOthers
<1> QED BY <1>3, <1>4, <1>5 DEF Happens, ClosesOthers

\* The forms of an event: those that render, come back with an error, or are sent.
FormsNext(S, new, e) ==
    /\ e \in new => /\ stage'[e] = IF e \in Pending(new) THEN "rendering" ELSE "shown"
                    /\ e \notin touched' /\ value'[e] = value[e]
                    /\ formValue'[e] = value[e]
                    /\ e \notin Pending(new) => typed'[e] = value[e]
    /\ e \notin new => /\ typed'[e] = typed[e]
                       /\ e \notin Pending(new)
                       /\ shows'[e] = shows[e]
                       /\ e \in Shown' => e \in Shown
    /\ e \in Sent(S) => /\ stage'[e] = "loading" /\ e \in S /\ options[e].sends
                        /\ typed[e] # formValue[e] /\ (e \notin Open => e \in hasty')
    /\ e \in Stored(S) => /\ ~options[e].sends
                          /\ value'[e] = typed[e] /\ formValue'[e] = typed[e]
    /\ e \notin new /\ e \notin Sent(S) =>
           /\ stage'[e] = IF e \in Refused(S) THEN "shown" ELSE stage[e]
           /\ e \notin Stored(S) => /\ value'[e] = value[e]
                                    /\ formValue'[e] = formValue[e]
    /\ e \notin new /\ e \notin Stored(S) => (e \in touched' <=> e \in touched)
    /\ e \in hasty => e \in hasty'
    /\ options' = options

LEMMA EventForms ==
    ASSUME NEW H \in SUBSET Elements, NEW S \in SUBSET Elements,
           NEW new \in SUBSET Elements, Happens(H, S, new), IInv, NEW e \in Elements
    PROVE  FormsNext(S, new, e)
<1>1. S \cap new = {}
    BY OpensApart
<1>2. Sent(S) \subseteq Saved(S) /\ Stored(S) \subseteq Saved(S) /\ Sent(S) \cap Stored(S) = {}
    BY DEF Sent, Stored
<1>3. Saved(S) \subseteq S /\ Saved(S) \cap Refused(S) = {} /\ Refused(S) \subseteq S
    BY DEF Saved, Refused
<1>4. Pending(new) \subseteq new
    BY DEF Pending
<1>5. /\ stage'[e] = IF e \in Pending(new) THEN "rendering"
                     ELSE IF e \in new \cup Refused(S) THEN "shown"
                     ELSE IF e \in Sent(S) THEN "loading"
                     ELSE stage[e]
      /\ value'[e] = IF e \in Stored(S) THEN typed[e] ELSE value[e]
      /\ formValue'[e] = IF e \in Stored(S) THEN typed[e]
                         ELSE IF e \in new THEN value[e] ELSE formValue[e]
      /\ touched' = touched \ (Stored(S) \cup new)
      /\ hasty' = hasty \cup (Saved(S) \ Open)
      /\ options' = options
    BY DEF Happens, Effects
<1>6. typed'[e] = IF e \in new \ Pending(new) THEN value[e] ELSE typed[e]
    BY DEF Happens, Effects, render
<1>7. e \in Sent(S) => options[e].sends /\ typed[e] # formValue[e]
    BY DEF Sent, Saved, Unchanged
<1>8. e \in Stored(S) => ~options[e].sends
    BY DEF Stored
<1>9. e \notin new /\ e \in Shown' => e \in Shown
    <2>1. e \in Open => e \in Shown
        BY DEF Open, Shown
    <2>2. e \notin new /\ e \notin Open => view'[e] = view[e]
        BY EventViews
    <2> QED BY <2>1, <2>2 DEF Shown
<1>10. shows'[e] = IF e \in new THEN shows[e] + 1 ELSE shows[e]
    BY EventShows
<1> QED BY <1>1, <1>2, <1>3, <1>4, <1>5, <1>6, <1>7, <1>8, <1>9, <1>10 DEF FormsNext

LEMMA EventOptions ==
    ASSUME NEW H \in SUBSET Elements, NEW S \in SUBSET Elements,
           NEW new \in SUBSET Elements, Happens(H, S, new)
    PROVE  options' = options
BY DEF Happens, Effects

LEMMA EventSaving ==
    ASSUME NEW H \in SUBSET Elements, NEW S \in SUBSET Elements,
           NEW new \in SUBSET Elements, Happens(H, S, new), IInv
    PROVE  SavingWaits'
<1>1. SUFFICES ASSUME NEW e \in Elements, options[e].onblur # "submit"
               PROVE  /\ (e \in isSaving') <=> (RequestsOf(e)' # {})
                      /\ \A r \in RequestsOf(e)' :
                            /\ RequestsOf(e)' = {r} /\ stage'[e] = "loading"
                            /\ view'[e] \in {"open", "gone"} \/ e \in hasty'
    BY EventOptions DEF SavingWaits
<1>0. FormsNext(S, new, e)
    BY EventForms
<1>2. /\ (e \in isSaving) <=> (RequestsOf(e) # {})
      /\ \A r \in RequestsOf(e) : /\ RequestsOf(e) = {r} /\ stage[e] = "loading"
                                  /\ view[e] \in {"open", "gone"} \/ e \in hasty
    BY <1>1 DEF IInv, SavingWaits
<1>3. ASSUME e \in S PROVE RequestsOf(e) = {} /\ stage[e] = "shown" /\ e \in Shown
    BY <1>1, <1>2, <1>3 DEF Happens
<1>4. CASE e \in new
    BY <1>4, EventViews, EventRequests
<1>5. CASE e \in Sent(S)
    <2>1. e \in S /\ e \notin new /\ stage'[e] = "loading" /\ (e \notin Open => e \in hasty')
        BY <1>5, <1>0, OpensApart DEF FormsNext
    <2>2. RequestsOf(e) = {} /\ e \notin isSaving
        BY <1>2, <1>3, <2>1
    <2>3. PICK r : RequestsOf(e)' = RequestsOf(e) \cup {r}
        BY <1>5, EventRequests
    <2>4. e \notin H /\ e \notin Unchanged(S) /\ e \notin Stored(S)
        BY <1>5, <2>1 DEF Happens, Sent, Stored, Saved
    <2>5. e \in isSaving' /\ (e \in Open => view'[e] = "open")
        BY <1>5, <2>1, <2>2, <2>4, EventViews
    <2> QED BY <2>1, <2>2, <2>3, <2>5
<1>6. CASE e \notin new /\ e \notin Sent(S)
    <2>1. RequestsOf(e)' = RequestsOf(e) /\ (e \in isSaving' <=> e \in isSaving)
        BY <1>6, EventRequests, EventViews
    <2>2. ASSUME RequestsOf(e) # {}
          PROVE  stage'[e] = "loading" /\ (view'[e] \in {"open", "gone"} \/ e \in hasty')
        <3>1. e \notin S /\ e \in isSaving /\ stage[e] = "loading"
            BY <1>2, <1>3, <2>2
        <3>2. stage'[e] = "loading"
            BY <1>6, <3>1, <1>0 DEF FormsNext, Refused
        <3>3. view[e] \in {"open", "gone"} \/ e \in hasty
            BY <1>2, <2>2
        <3>4. view[e] = "open" => view'[e] = "open"
            BY <3>1, EventViews DEF Open
        <3>5. view[e] = "gone" => view'[e] = "gone"
            BY <1>6, EventViews DEF Open
        <3> QED BY <3>2, <3>3, <3>4, <3>5, <1>0 DEF FormsNext
    <2> QED BY <1>2, <2>1, <2>2
<1> QED BY <1>4, <1>5, <1>6

LEMMA EventStaged ==
    ASSUME NEW H \in SUBSET Elements, NEW S \in SUBSET Elements,
           NEW new \in SUBSET Elements, Happens(H, S, new), IInv
    PROVE  Staged'
<1>1. SUFFICES ASSUME NEW e \in Elements
               PROVE  /\ stage'[e] # "none" => shows'[e] > 0
                      /\ older'[e] # None => shows'[e] > 1
                      /\ stage'[e] = "loading" => options[e].sends
                      /\ RequestsOf(e)' # {} => stage'[e] \in {"shown", "loading"}
                      /\ e \in Shown' /\ stage'[e] = "loading" /\ Own(e)' => e \in touched'
    BY EventOptions DEF Staged
<1>0. FormsNext(S, new, e)
    BY EventForms
<1>2. /\ stage[e] # "none" => shows[e] > 0
      /\ older[e] # None => shows[e] > 1
      /\ stage[e] = "loading" => options[e].sends
      /\ RequestsOf(e) # {} => stage[e] \in {"shown", "loading"}
      /\ e \in Shown /\ stage[e] = "loading" /\ Own(e) => e \in touched
      /\ shows[e] \in Nat
    BY BoundAssumption DEF IInv, Staged, TypeOK
<1>3. /\ Refused(S) \subseteq S
      /\ e \in S => e \in Shown /\ stage[e] \in {"shown", "loading"}
    BY DEF Refused, Happens
<1>4. shows'[e] = IF e \in new THEN shows[e] + 1 ELSE shows[e]
    BY EventShows
<1>5. older'[e] = IF e \in Pending(new) /\ stage[e] = "rendering" /\ older[e] = None
                  THEN formValue[e] ELSE older[e]
    BY DEF Happens, Effects, render
<1>6. Pending(new) \subseteq new
    BY DEF Pending
<1>7. stage'[e] # "none" => shows'[e] > 0
    BY <1>2, <1>3, <1>4, <1>0 DEF FormsNext
<1>8. older'[e] # None => shows'[e] > 1
    BY <1>2, <1>4, <1>5, <1>6
<1>9. stage'[e] = "loading" => options[e].sends
    BY <1>2, <1>3, <1>0 DEF FormsNext
<1>10. RequestsOf(e)' # {} => stage'[e] \in {"shown", "loading"}
    BY <1>2, <1>3, <1>0, EventRequests DEF FormsNext
<1>11. ASSUME e \in Shown', stage'[e] = "loading", Own(e)' PROVE e \in touched'
    <2>1. e \notin new
        BY <1>11, <1>0 DEF FormsNext
    <2>2. Own(e) /\ e \in Shown /\ e \notin Stored(S)
        BY <1>9, <1>11, <2>1, <1>0 DEF FormsNext, Own
    <2>3. e \in touched' <=> e \in touched
        BY <2>1, <2>2, <1>0 DEF FormsNext
    <2>4. CASE e \in Sent(S)
        <3>1. stage[e] \in {"shown", "loading"} /\ typed[e] # formValue[e]
            BY <1>3, <2>4, <1>0 DEF FormsNext
        <3>2. CASE stage[e] = "shown"
            BY <2>2, <2>3, <3>1, <3>2 DEF IInv, FormFollowsElement, Shown, Own
        <3>3. CASE stage[e] = "loading"
            BY <1>2, <2>2, <2>3, <3>3
        <3> QED BY <3>1, <3>2, <3>3
    <2>5. CASE e \notin Sent(S)
        BY <1>2, <1>11, <2>1, <2>2, <2>3, <2>5, <1>0 DEF FormsNext
    <2> QED BY <2>4, <2>5
<1> QED BY <1>7, <1>8, <1>9, <1>10, <1>11

LEMMA EventFollows ==
    ASSUME NEW H \in SUBSET Elements, NEW S \in SUBSET Elements,
           NEW new \in SUBSET Elements, Happens(H, S, new), IInv
    PROVE  FormFollowsElement'
<1>1. SUFFICES ASSUME NEW e \in Elements, e \in Shown'
               PROVE  /\ formValue'[e] = value'[e]
                      /\ stage'[e] = "shown" /\ e \notin touched' /\ Own(e)' =>
                            typed'[e] = value'[e]
    BY DEF FormFollowsElement, Shown, Own
<1>0. FormsNext(S, new, e)
    BY EventForms
<1>2. e \in Shown => /\ formValue[e] = value[e]
                     /\ stage[e] = "shown" /\ e \notin touched /\ Own(e) => typed[e] = value[e]
    BY DEF IInv, FormFollowsElement, Shown, Own
<1>3. CASE e \in new
    BY <1>3, <1>0 DEF FormsNext
<1>4. CASE e \in Stored(S)
    <2>1. e \notin new
        BY <1>4, OpensApart DEF Stored, Saved
    <2> QED BY <1>4, <2>1, <1>0 DEF FormsNext
<1>5. CASE e \notin new /\ e \notin Stored(S)
    <2>1. e \in Shown /\ typed'[e] = typed[e] /\ (e \in touched' <=> e \in touched)
        BY <1>1, <1>5, <1>0 DEF FormsNext
    <2>2. Own(e)' <=> Own(e)
        BY <1>5, <1>0 DEF FormsNext, Own
    <2>3. CASE e \in Sent(S)
        <3>1. formValue'[e] = formValue[e] /\ value'[e] = value[e]
            BY <1>5 DEF Happens, Effects
        <3> QED BY <1>2, <2>1, <2>3, <3>1, <1>0 DEF FormsNext
    <2>4. CASE e \notin Sent(S)
        <3>1. formValue'[e] = formValue[e] /\ value'[e] = value[e]
            BY <1>5, <2>4, <1>0 DEF FormsNext
        <3>2. ASSUME stage'[e] = "shown", e \notin touched', Own(e)' PROVE stage[e] = "shown"
            <4>1. e \in Refused(S) => stage[e] \in {"shown", "loading"}
                BY DEF Refused, Happens
            <4>2. stage[e] # "loading"
                BY <2>1, <2>2, <3>2 DEF IInv, Staged
            <4> QED BY <1>5, <2>4, <3>2, <4>1, <4>2, <1>0 DEF FormsNext
        <3> QED BY <1>2, <2>1, <2>2, <3>1, <3>2
    <2> QED BY <2>3, <2>4
<1> QED BY <1>3, <1>4, <1>5

\* An event keeps the invariant.
LEMMA EventIInv ==
    ASSUME NEW H \in SUBSET Elements, NEW S \in SUBSET Elements,
           NEW new \in SUBSET Elements, Happens(H, S, new), IInv,
           disabled' \subseteq Elements
    PROVE  IInv'
BY EventTyped, EventStaged, EventSaving, EventDelayed, EventOneEditing, EventFollows DEF IInv

-----------------------------------------------------------------------------
(* The user and the scripts: actions that are events.                      *)

Occurs ==
    /\ disabled' \subseteq Elements
    /\ \E H, submit, new \in SUBSET Elements :
        /\ Event(H, submit, new)
        /\ H \cap submit = {}
        /\ \A e \in submit : /\ e \in Shown
                             /\ stage[e] = "shown" \/ options[e].onblur = "submit"
        /\ \A e \in new : view[e] = "closed"
        /\ ClosesOthers(H, new)

LEMMA OccursIInv == IInv /\ Occurs => IInv'
<1> SUFFICES ASSUME IInv, Occurs PROVE IInv'
    OBVIOUS
<1>1. PICK H \in SUBSET Elements, submit \in SUBSET Elements, new \in SUBSET Elements :
        /\ Event(H, submit, new)
        /\ H \cap submit = {}
        /\ \A e \in submit : /\ e \in Shown
                             /\ stage[e] = "shown" \/ options[e].onblur = "submit"
        /\ \A e \in new : view[e] = "closed"
        /\ ClosesOthers(H, new)
    BY DEF Occurs
<1>2. PICK S \in SUBSET Elements : S = {e \in submit : stage[e] \in {"shown", "loading"}}
    OBVIOUS
<1>3. Effects(H, S, new)
    BY <1>1, <1>2 DEF Event, Effects
<1>4. Happens(H, S, new)
    BY <1>1, <1>2, <1>3 DEF Happens
<1> QED BY <1>4, EventIInv DEF Occurs

LEMMA OthersOpen ==
    ASSUME NEW these, NEW action
    PROVE  /\ Others(these, action) \subseteq Open \ these
           /\ Others(these, action) \subseteq Shown
           /\ \A e \in Others(these, action) : options[e].onblur = action
BY DEF Others, Open, Shown

LEMMA OpenIn == Open \subseteq Elements /\ Visible \subseteq Shown
BY DEF Open, Visible, Shown

LEMMA ClickOccurs == ASSUME IInv, NEW e \in Elements, Click(e) PROVE Occurs
<1>1. PICK new \in SUBSET Elements : new = IF view[e] = "closed" /\ e \notin disabled THEN {e} ELSE {}
    OBVIOUS
<1>2. PICK H \in SUBSET Elements : H = Others({e}, "cancel") \cup {e}
    BY OthersOpen, OpenIn
<1>3. PICK submit \in SUBSET Elements : submit = Others({e}, "submit")
    BY OthersOpen, OpenIn
<1>4. Event(H, submit, new) /\ disabled' = disabled
    BY <1>1, <1>2, <1>3 DEF Click
<1>5. H \cap submit = {} /\ Others(new, "cancel") \subseteq H
    BY <1>1, <1>2, <1>3, OthersOpen DEF Others
<1>6. \A x \in submit : x \in Shown /\ options[x].onblur = "submit"
    BY <1>3, OthersOpen
<1>7. \A x \in new : view[x] = "closed"
    BY <1>1
<1>8. ClosesOthers(H, new)
    BY <1>1, <1>5 DEF Click, ClosesOthers
<1>9. disabled' \subseteq Elements
    BY <1>4 DEF IInv, TypeOK
<1> QED BY <1>4, <1>5, <1>6, <1>7, <1>8, <1>9, Zenon DEF Occurs

LEMMA ClickOutsideOccurs == ASSUME IInv, ClickOutside PROVE Occurs
<1>2. PICK H \in SUBSET Elements : H = Others({}, "cancel")
    BY OthersOpen, OpenIn
<1>3. PICK submit \in SUBSET Elements : submit = Others({}, "submit")
    BY OthersOpen, OpenIn
<1>4. Event(H, submit, {}) /\ disabled' = disabled
    BY <1>2, <1>3 DEF ClickOutside
<1>5. H \cap submit = {} /\ \A x \in submit : x \in Shown /\ options[x].onblur = "submit"
    BY <1>2, <1>3, OthersOpen
<1>6. {} \in SUBSET Elements /\ ClosesOthers(H, {})
    BY <1>2 DEF ClickOutside, ClosesOthers
<1> QED BY <1>4, <1>5, <1>6 DEF Occurs, IInv, TypeOK

LEMMA ShowOccurs ==
    ASSUME IInv, NEW e \in Elements, NEW closeAll \in BOOLEAN, Show(e, closeAll) PROVE Occurs
<1>1. PICK H \in SUBSET Elements : H = IF closeAll THEN Others({e}, "cancel") ELSE {}
    BY OthersOpen, OpenIn
<1>2. PICK submit \in SUBSET Elements : submit = IF closeAll THEN Others({e}, "submit") ELSE {}
    BY OthersOpen, OpenIn
<1>3. Event(H, submit, {e}) /\ disabled' = disabled /\ view[e] = "closed"
    BY <1>1, <1>2 DEF Show
<1>4. H \cap submit = {} /\ \A x \in submit : x \in Shown /\ options[x].onblur = "submit"
    BY <1>1, <1>2, OthersOpen
<1>5. {e} \in SUBSET Elements
    OBVIOUS
<1>6. beside' = (~closeAll /\ (beside \/ Open # {}))
    BY DEF Show
<1>7. ClosesOthers(H, {e})
    <2>1. Open = {} => Others({e}, "cancel") = {}
        BY DEF Others
    <2> QED BY <1>1, <1>6, <2>1 DEF ClosesOthers
<1> QED BY <1>3, <1>4, <1>5, <1>7 DEF Occurs, IInv, TypeOK

LEMMA SubmitOccurs == ASSUME IInv, NEW e \in Elements, Submit(e) PROVE Occurs
<1>1. Event({}, {e}, {}) /\ disabled' = disabled /\ e \in Shown /\ stage[e] = "shown"
    BY OpenIn DEF Submit
<1>2. {e} \in SUBSET Elements /\ {} \in SUBSET Elements
    OBVIOUS
<1>3. PICK H \in SUBSET Elements, submit \in SUBSET Elements, new \in SUBSET Elements :
          H = {} /\ submit = {e} /\ new = {}
    BY <1>2
<1>4. Event(H, submit, new) /\ H \cap submit = {} /\ \A x \in submit : x = e
    BY <1>1, <1>3
<1>5. disabled' \subseteq Elements /\ (\A x \in new : FALSE) /\ ClosesOthers(H, new)
    BY <1>1, <1>3 DEF Submit, ClosesOthers, IInv, TypeOK
<1> QED BY <1>1, <1>4, <1>5 DEF Occurs

LEMMA HidesOnly ==
    ASSUME NEW H \in SUBSET Elements, Event(H, {}, {}), disabled' \subseteq Elements,
           ClosesOthers(H, {})
    PROVE  Occurs
<1>1. PICK none \in SUBSET Elements : none = {}
    OBVIOUS
<1>2. /\ Event(H, none, none) /\ H \cap none = {} /\ \A e \in none : FALSE
      /\ ClosesOthers(H, none)
    BY <1>1
<1> QED BY <1>1, <1>2 DEF Occurs

LEMMA EscapeOccurs == ASSUME IInv, Escape PROVE Occurs
<1>1. PICK H \in SUBSET Elements : Event(H, {}, {}) /\ H = Open
    BY OpenIn DEF Escape
<1>2. disabled' \subseteq Elements /\ ClosesOthers(H, {})
    BY <1>1 DEF Escape, IInv, TypeOK, ClosesOthers, Others
<1> QED BY <1>1, <1>2, HidesOnly

LEMMA HideOccurs ==
    ASSUME IInv, NEW e \in Elements, Cancel(e) \/ Hide(e) \/ Disable(e)
    PROVE  Occurs
<1>1. PICK H \in SUBSET Elements : Event(H, {}, {})
    BY DEF Cancel, Hide, Disable
<1>2. disabled' \subseteq Elements /\ ClosesOthers(H, {})
    BY DEF Cancel, Hide, Disable, IInv, TypeOK, ClosesOthers
<1> QED BY <1>1, <1>2, HidesOnly

-----------------------------------------------------------------------------
(* The other actions.                                                      *)

\* An action that leaves requests and forms alone.
LEMMA SameRequests ==
    ASSUME UNCHANGED <<requests, shows>>, NEW e \in Elements
    PROVE  RequestsOf(e)' = RequestsOf(e)
BY DEF RequestsOf, Newest

LEMMA TypeIInv ==
    ASSUME IInv, NEW e \in Elements, NEW v \in Values, Type(e, v) PROVE IInv'
<1>1. /\ UNCHANGED <<options, value, disabled, view, delayedHide, shows, stage, formValue,
                     isSaving, loaded, older, requests, sends, hasty, beside, left>>
      /\ typed' = [typed EXCEPT ![e] = v] /\ touched' = touched \cup {e}
    BY DEF Type, form, server
<1>2. \A x \in Elements : RequestsOf(x)' = RequestsOf(x)
    BY <1>1, SameRequests
<1>3. TypeOK'
    BY <1>1 DEF IInv, TypeOK
<1>4. Staged'
    BY <1>1, <1>2 DEF IInv, Staged, Shown, Own
<1>5. SavingWaits'
    BY <1>1, <1>2 DEF IInv, SavingWaits
<1>6. DelayedOnlySaving' /\ OneEditing'
    BY <1>1 DEF IInv, DelayedOnlySaving, OneEditing, Open
<1>7. FormFollowsElement'
    BY <1>1 DEF IInv, FormFollowsElement, TypeOK
<1> QED BY <1>3, <1>4, <1>5, <1>6, <1>7 DEF IInv

LEMMA EnableIInv ==
    ASSUME IInv, NEW e \in Elements, Enable(e) PROVE IInv'
<1>1. /\ UNCHANGED <<options, value, view, delayedHide, shows, stage, formValue, isSaving,
                     typed, touched, loaded, older, requests, sends, hasty, beside, left>>
      /\ disabled' \subseteq disabled
    BY DEF Enable, form, server, input
<1>2. \A x \in Elements : RequestsOf(x)' = RequestsOf(x)
    BY <1>1, SameRequests
<1>3. TypeOK'
    BY <1>1 DEF IInv, TypeOK
<1>4. Staged' /\ FormFollowsElement'
    BY <1>1, <1>2 DEF IInv, Staged, Shown, Own, FormFollowsElement
<1>5. SavingWaits'
    BY <1>1, <1>2 DEF IInv, SavingWaits
<1>6. DelayedOnlySaving' /\ OneEditing'
    BY <1>1 DEF IInv, DelayedOnlySaving, OneEditing, Open
<1> QED BY <1>3, <1>4, <1>5, <1>6 DEF IInv

LEMMA SetValueIInv ==
    ASSUME IInv, NEW e \in Elements, NEW v \in Values, SetValue(e, v) PROVE IInv'
<1>1. /\ UNCHANGED <<options, disabled, view, delayedHide, shows, stage, isSaving, loaded,
                     older, requests, sends, hasty, beside, left>>
      /\ NewValue(e, v)
    BY DEF SetValue, server
<1>2. \A x \in Elements : RequestsOf(x)' = RequestsOf(x)
    BY <1>1, SameRequests
<1>3. TypeOK'
    BY <1>1 DEF IInv, TypeOK, NewValue
<1>4. Staged'
    <2>1. ASSUME NEW x \in Elements, x \in touched, stage[x] = "loading" PROVE x \in touched'
        BY <1>1, <2>1 DEF NewValue, Visible
    <2> QED BY <1>1, <1>2, <2>1 DEF IInv, Staged, Shown, Own
<1>5. SavingWaits'
    BY <1>1, <1>2 DEF IInv, SavingWaits
<1>6. DelayedOnlySaving' /\ OneEditing'
    BY <1>1 DEF IInv, DelayedOnlySaving, OneEditing, Open
<1>7. FormFollowsElement'
    BY <1>1 DEF IInv, FormFollowsElement, TypeOK, NewValue, Visible
<1> QED BY <1>3, <1>4, <1>5, <1>6, <1>7 DEF IInv

LEMMA DestroyIInv ==
    ASSUME IInv, NEW e \in Elements, Destroy(e) PROVE IInv'
<1>1. /\ UNCHANGED <<options, value, shows, stage, formValue, isSaving, typed, touched,
                     loaded, older, requests, sends, hasty, beside, left>>
      /\ view' = [view EXCEPT ![e] = "gone"]
      /\ delayedHide' = delayedHide \ {e} /\ disabled' = disabled \cup {e}
    BY DEF Destroy, form, server, input
<1>2. \A x \in Elements : RequestsOf(x)' = RequestsOf(x)
    BY <1>1, SameRequests
<1>3. TypeOK'
    BY <1>1 DEF IInv, TypeOK
<1>4. \A x \in Elements : view'[x] = IF x = e THEN "gone" ELSE view[x]
    BY <1>1 DEF IInv, TypeOK
<1>5. Staged' /\ FormFollowsElement'
    BY <1>1, <1>2, <1>4 DEF IInv, Staged, Shown, Own, FormFollowsElement
<1>6. SavingWaits'
    BY <1>1, <1>2, <1>4 DEF IInv, SavingWaits
<1>7. DelayedOnlySaving' /\ OneEditing'
    BY <1>1, <1>4 DEF IInv, DelayedOnlySaving, OneEditing, Open
<1> QED BY <1>3, <1>5, <1>6, <1>7 DEF IInv

LEMMA FadeEndsIInv ==
    ASSUME IInv, NEW e \in Elements, FadeEnds(e) PROVE IInv'
<1>1. /\ UNCHANGED <<options, value, disabled, delayedHide, shows, stage, formValue,
                     isSaving, typed, touched, loaded, older, requests, sends, hasty, beside, left>>
      /\ view[e] = "fading" /\ view' = [view EXCEPT ![e] = "closed"]
    BY DEF FadeEnds, form, server, input
<1>2. \A x \in Elements : RequestsOf(x)' = RequestsOf(x)
    BY <1>1, SameRequests
<1>3. TypeOK'
    BY <1>1 DEF IInv, TypeOK
<1>4. \A x \in Elements : view'[x] = IF x = e THEN "closed" ELSE view[x]
    BY <1>1 DEF IInv, TypeOK
<1>5. Staged' /\ FormFollowsElement'
    BY <1>1, <1>2, <1>4 DEF IInv, Staged, Shown, Own, FormFollowsElement
<1>6. SavingWaits'
    BY <1>1, <1>2, <1>4 DEF IInv, SavingWaits
<1>7. DelayedOnlySaving' /\ OneEditing'
    BY <1>1, <1>4 DEF IInv, DelayedOnlySaving, OneEditing, Open
<1> QED BY <1>3, <1>5, <1>6, <1>7 DEF IInv

LEMMA SourceIInv ==
    ASSUME IInv, NEW e \in Elements, SourceReady(e) \/ SourceFails(e) PROVE IInv'
<1>1. /\ UNCHANGED <<options, value, disabled, view, delayedHide, shows, formValue,
                     isSaving, touched, requests, sends, hasty, beside, left>>
      /\ older' = [older EXCEPT ![e] = None]
      /\ loaded' \subseteq Elements
    BY DEF SourceReady, SourceFails, server, IInv, TypeOK
<1>2. \A x \in Elements : RequestsOf(x)' = RequestsOf(x)
    BY <1>1, SameRequests
<1>3. \/ typed' = typed /\ stage' = stage
      \/ /\ stage[e] = "rendering" /\ stage' = [stage EXCEPT ![e] = "broken"]
         /\ typed' = typed
      \/ /\ stage[e] = "rendering" /\ stage' = [stage EXCEPT ![e] = "shown"]
         /\ options[e].list
         /\ \E v \in {older[e], formValue[e]} \ {None} : typed' = [typed EXCEPT ![e] = v]
    BY DEF SourceReady, SourceFails
<1>4. TypeOK'
    BY <1>1, <1>3 DEF IInv, TypeOK
<1>5. \A x \in Elements : older'[x] = IF x = e THEN None ELSE older[x]
    BY <1>1 DEF IInv, TypeOK
<1>6. ASSUME NEW x \in Elements
      PROVE  \/ stage'[x] = stage[x]
             \/ stage[x] = "rendering" /\ stage'[x] \in {"shown", "broken"}
    BY <1>3 DEF IInv, TypeOK
<1>7. Staged'
    BY <1>1, <1>2, <1>5, <1>6 DEF IInv, Staged, Shown, Own
<1>8. SavingWaits'
    BY <1>1, <1>2, <1>6 DEF IInv, SavingWaits
<1>9. DelayedOnlySaving' /\ OneEditing'
    BY <1>1 DEF IInv, DelayedOnlySaving, OneEditing, Open
<1>10. FormFollowsElement'
    <2>1. ASSUME NEW x \in Elements, x \in Shown, stage'[x] = "shown", x \notin touched, Own(x)
          PROVE  typed'[x] = value[x]
        <3>1. CASE stage[x] = "shown"
            BY <1>3, <2>1, <3>1 DEF IInv, FormFollowsElement, Shown, Own, TypeOK
        <3>2. CASE stage[x] = "rendering"
            <4>1. x = e /\ options[e].list /\ stage' # stage
                BY <1>3, <2>1, <3>2 DEF IInv, TypeOK
            <4>2. \E v \in {older[e], formValue[e]} \ {None} : typed' = [typed EXCEPT ![e] = v]
                BY <1>3, <2>1, <3>2, <4>1 DEF IInv, TypeOK
            <4>3. older[e] = None
                BY <2>1, <4>1 DEF IInv, Staged, Own
            <4>4. formValue[e] = value[e] /\ typed \in [Elements -> Values]
                BY <2>1, <4>1 DEF IInv, FormFollowsElement, Shown, TypeOK
            <4> QED BY <4>1, <4>2, <4>3, <4>4
        <3> QED BY <1>6, <2>1, <3>1, <3>2
    <2> QED BY <1>1, <2>1 DEF IInv, FormFollowsElement, Shown, Own
<1> QED BY <1>4, <1>7, <1>8, <1>9, <1>10 DEF IInv

-----------------------------------------------------------------------------
(* Answers.                                                                *)

LEMMA AnswerRequests ==
    ASSUME IInv, NEW r, Answered(r), NEW x \in Elements
    PROVE  /\ r.element \in Elements
           /\ RequestsOf(x)' = RequestsOf(x) \ {r}
           /\ r \in RequestsOf(x) <=> x = r.element /\ Newest(r)
           /\ x \in isSaving' <=> x \in isSaving /\ ~(x = r.element /\ Newest(r))
<1>1. requests' = requests \ {r} /\ shows' = shows /\ r \in requests
    BY DEF Answered
<1>2. r.element \in Elements
    BY <1>1 DEF IInv, TypeOK, Request
<1>3. RequestsOf(x)' = RequestsOf(x) \ {r}
    BY <1>1 DEF RequestsOf, Newest
<1>4. r \in RequestsOf(x) <=> x = r.element /\ Newest(r)
    BY <1>1 DEF RequestsOf
<1>5. x \in isSaving' <=> x \in isSaving /\ ~(x = r.element /\ Newest(r))
    BY DEF Answered
<1> QED BY <1>2, <1>3, <1>4, <1>5

\* What an answer does to the containers: it hides that of its form, if any.
LEMMA AnswerHides ==
    ASSUME IInv, NEW r, Answered(r), NEW H \in SUBSET Elements, hide(H, isSaving', {}),
           H \subseteq {r.element}, H # {} => Heard(r),
           Heard(r) /\ r.element \in delayedHide => r.element \in H
    PROVE  /\ \A x \in Elements : view'[x] = IF x \in H \cap Open THEN "fading" ELSE view[x]
           /\ view' \in [Elements -> {"closed", "open", "fading", "gone"}]
           /\ delayedHide' \subseteq delayedHide
           /\ DelayedOnlySaving' /\ OneEditing'
<1>1. \A x \in H : x \notin isSaving'
    BY AnswerRequests DEF Heard
<1>2. /\ view' = [e \in Elements |-> IF e \in (H \cap Open) \ isSaving' THEN "fading" ELSE view[e]]
      /\ delayedHide' = (delayedHide \ (H \cap Open)) \cup (H \cap Open \cap isSaving')
    BY DEF hide
<1>3. \A x \in Elements : view'[x] = IF x \in H \cap Open THEN "fading" ELSE view[x]
    BY <1>1, <1>2
<1>4. view' \in [Elements -> {"closed", "open", "fading", "gone"}]
    BY <1>2 DEF IInv, TypeOK
<1>5. delayedHide' = delayedHide \ H
    BY <1>1, <1>2 DEF IInv, DelayedOnlySaving
<1>6. Open' = Open \ H
    BY <1>3 DEF Open
<1>7. DelayedOnlySaving'
    <2>1. SUFFICES ASSUME NEW x \in delayedHide, x \notin H
                   PROVE  x \in isSaving' \cap Open'
        BY <1>5 DEF DelayedOnlySaving
    <2>2. x \in isSaving /\ x \in Open /\ view[x] = "open" /\ x \in Elements
        BY <2>1 DEF IInv, DelayedOnlySaving, Open
    <2>3. ~(x = r.element /\ Newest(r))
        BY <2>1, <2>2 DEF Heard
    <2> QED BY <1>6, <2>1, <2>2, <2>3, AnswerRequests
<1>8. OneEditing'
    <2>1. options' = options /\ beside' = beside
        BY DEF Answered
    <2>2. Open' \ delayedHide' \subseteq Open \ delayedHide
        BY <1>5, <1>6
    <2> QED BY <2>1, <2>2 DEF IInv, OneEditing
<1> QED BY <1>3, <1>4, <1>5, <1>7, <1>8

LEMMA AnswerSaving ==
    ASSUME IInv, NEW r, Answered(r), NEW H \in SUBSET Elements,
           H \subseteq {r.element}, H # {} => Heard(r),
           \A x \in Elements : view'[x] = IF x \in H \cap Open THEN "fading" ELSE view[x],
           \A x \in Elements : stage'[x] = IF x = r.element /\ Newest(r) THEN stage'[x]
                                           ELSE stage[x]
    PROVE  SavingWaits'
<1>1. options' = options /\ hasty' = hasty
    BY DEF Answered
<1>2. SUFFICES ASSUME NEW x \in Elements, options[x].onblur # "submit"
               PROVE  /\ (x \in isSaving') <=> (RequestsOf(x)' # {})
                      /\ \A q \in RequestsOf(x)' :
                            /\ RequestsOf(x)' = {q} /\ stage'[x] = "loading"
                            /\ view'[x] \in {"open", "gone"} \/ x \in hasty
    BY <1>1 DEF SavingWaits
<1>3. /\ (x \in isSaving) <=> (RequestsOf(x) # {})
      /\ \A q \in RequestsOf(x) : /\ RequestsOf(x) = {q} /\ stage[x] = "loading"
                                  /\ view[x] \in {"open", "gone"} \/ x \in hasty
    BY <1>2 DEF IInv, SavingWaits
<1>4. CASE x = r.element /\ Newest(r)
    <2>1. RequestsOf(x)' = {} /\ x \notin isSaving'
        BY <1>3, <1>4, AnswerRequests
    <2> QED BY <2>1
<1>5. CASE ~(x = r.element /\ Newest(r))
    <2>1. RequestsOf(x)' = RequestsOf(x) /\ (x \in isSaving' <=> x \in isSaving)
        <3>1. /\ RequestsOf(x)' = RequestsOf(x) \ {r}
              /\ r \in RequestsOf(x) <=> x = r.element /\ Newest(r)
              /\ x \in isSaving' <=> x \in isSaving /\ ~(x = r.element /\ Newest(r))
            BY AnswerRequests
        <3>2. r \notin RequestsOf(x)
            BY <1>5, <3>1
        <3> QED BY <1>5, <3>1, <3>2
    <2>2. x \notin H /\ view'[x] = view[x] /\ stage'[x] = stage[x]
        BY <1>5 DEF Heard
    <2> QED BY <1>3, <2>1, <2>2
<1> QED BY <1>4, <1>5

LEMMA AcceptedIInv == ASSUME IInv, NEW r, Accepted(r) PROVE IInv'
<1>1. /\ Answered(r) /\ stage' = stage
      /\ UNCHANGED <<options, disabled, shows, loaded, older, sends, hasty, beside, left>>
      /\ requests' = requests \ {r} /\ r \in requests
    BY DEF Accepted, Answered
<1>2. PICK H \in SUBSET Elements : H = {e \in {r.element} : Heard(r)}
    <2>1. r.element \in Elements
        BY <1>1 DEF IInv, TypeOK, Request
    <2>2. {e \in {r.element} : Heard(r)} \in SUBSET Elements
        BY <2>1
    <2> QED BY <2>2
<1>3. /\ H \subseteq {r.element} /\ (H # {} => Heard(r)) /\ hide(H, isSaving', {})
      /\ Heard(r) => r.element \in H
    BY <1>2 DEF Accepted
<1>4. /\ \A x \in Elements : view'[x] = IF x \in H \cap Open THEN "fading" ELSE view[x]
      /\ view' \in [Elements -> {"closed", "open", "fading", "gone"}]
      /\ delayedHide' \subseteq delayedHide
      /\ DelayedOnlySaving' /\ OneEditing'
    BY <1>1, <1>3, AnswerHides
<1>5. PICK v \in Replies[r.value] :
          IF Heard(r) THEN NewValue(r.element, v)
          ELSE /\ formValue' = IF Newest(r) THEN [formValue EXCEPT ![r.element] = v]
                               ELSE formValue
               /\ UNCHANGED <<value, typed, touched>>
    BY DEF Accepted
<1>6. v \in Values /\ r.element \in Elements /\ r.value \in Values
    BY <1>1, <1>5, ValuesAssumption DEF IInv, TypeOK, Request
<1>7. /\ value' \in [Elements -> Values] /\ formValue' \in [Elements -> Values]
      /\ typed' \in [Elements -> Values] /\ touched' \subseteq touched
    BY <1>5, <1>6 DEF NewValue, IInv, TypeOK
<1>8. TypeOK'
    <2>1. isSaving' \subseteq isSaving /\ requests' \subseteq requests
        BY <1>1 DEF Answered
    <2> QED BY <1>1, <1>4, <1>7, <2>1 DEF IInv, TypeOK
<1>9. SavingWaits'
    BY <1>1, <1>3, <1>4, AnswerSaving
<1>10. ASSUME NEW x \in Elements, x \in Shown' PROVE x \in Shown
    BY <1>4, <1>10 DEF Shown, Open
<1>11. Staged'
    <2>1. \A x \in Elements : RequestsOf(x)' \subseteq RequestsOf(x)
        BY <1>1, AnswerRequests
    <2>2. ASSUME NEW x \in Elements, x \in touched, stage[x] = "loading" PROVE x \in touched'
        BY <1>5, <2>2 DEF NewValue, Visible
    <2>3. \A x \in Elements : Own(x)' = Own(x)
        BY <1>1 DEF Own
    <2> QED BY <1>1, <1>10, <2>1, <2>2, <2>3 DEF IInv, Staged
<1>12. FormFollowsElement'
    <2>1. SUFFICES ASSUME NEW x \in Elements, x \in Shown'
                   PROVE  /\ formValue'[x] = value'[x]
                          /\ stage[x] = "shown" /\ x \notin touched' /\ Own(x) =>
                                typed'[x] = value'[x]
        BY <1>1 DEF FormFollowsElement, Shown, Own
    <2>2. /\ formValue[x] = value[x]
          /\ stage[x] = "shown" /\ x \notin touched /\ Own(x) => typed[x] = value[x]
          /\ x \in Shown
        BY <1>10, <2>1 DEF IInv, FormFollowsElement, Shown, Own
    <2>3. CASE Heard(r)
        BY <1>5, <1>6, <2>2, <2>3 DEF NewValue, Visible, Shown, IInv, TypeOK
    <2>4. CASE ~Heard(r)
        <3>1. ~(x = r.element /\ Newest(r))
            BY <1>3, <1>4, <2>1, <2>2, <2>4 DEF Heard, Shown
        <3>2. formValue'[x] = formValue[x] /\ UNCHANGED <<value, typed, touched>>
            BY <1>5, <2>4, <3>1 DEF IInv, TypeOK
        <3> QED BY <2>2, <3>2
    <2> QED BY <2>3, <2>4
<1> QED BY <1>4, <1>8, <1>9, <1>11, <1>12 DEF IInv

LEMMA NotAcceptedIInv == ASSUME IInv, NEW r, NotAccepted(r) PROVE IInv'
<1>1. /\ Answered(r)
      /\ UNCHANGED <<options, disabled, shows, loaded, older, sends, hasty, beside, left,
                     value, formValue, typed, touched>>
      /\ requests' = requests \ {r} /\ r \in requests
    BY DEF NotAccepted, Answered
<1>2. PICK H \in SUBSET Elements : H = {e \in delayedHide : e = r.element /\ Heard(r)}
    BY <1>1, AnswerRequests DEF IInv, TypeOK
<1>3. /\ H \subseteq {r.element} /\ (H # {} => Heard(r)) /\ hide(H, isSaving', {})
      /\ Heard(r) /\ r.element \in delayedHide => r.element \in H
    BY <1>2 DEF NotAccepted
<1>4. /\ \A x \in Elements : view'[x] = IF x \in H \cap Open THEN "fading" ELSE view[x]
      /\ view' \in [Elements -> {"closed", "open", "fading", "gone"}]
      /\ delayedHide' \subseteq delayedHide
      /\ DelayedOnlySaving' /\ OneEditing'
    BY <1>1, <1>3, AnswerHides
<1>5. \A x \in Elements : stage'[x] = IF x = r.element /\ Newest(r) THEN "shown" ELSE stage[x]
    BY DEF NotAccepted, IInv, TypeOK
<1>6. TypeOK'
    <2>1. isSaving' \subseteq isSaving /\ requests' \subseteq requests
        BY <1>1 DEF Answered
    <2>2. stage' \in [Elements -> {"none", "rendering", "broken", "shown", "loading"}]
        BY DEF NotAccepted, IInv, TypeOK
    <2> QED BY <1>1, <1>4, <2>1, <2>2 DEF IInv, TypeOK
<1>7. SavingWaits'
    BY <1>1, <1>3, <1>4, <1>5, AnswerSaving
<1>8. ASSUME NEW x \in Elements, x \in Shown' PROVE x \in Shown
    BY <1>4, <1>8 DEF Shown, Open
<1>9. ASSUME NEW x \in Elements, x = r.element /\ Newest(r)
      PROVE  stage[x] \in {"shown", "loading"}
    <2>1. RequestsOf(x) # {}
        BY <1>1, <1>9, AnswerRequests
    <2> QED BY <2>1 DEF IInv, Staged
<1>10. \A x \in Elements : Own(x)' = Own(x) /\ RequestsOf(x)' \subseteq RequestsOf(x)
    BY <1>1, AnswerRequests DEF Own
<1>11. Staged'
    BY <1>1, <1>5, <1>8, <1>9, <1>10 DEF IInv, Staged
<1>12. FormFollowsElement'
    <2>1. SUFFICES ASSUME NEW x \in Elements, x \in Shown'
                   PROVE  /\ formValue[x] = value[x]
                          /\ stage'[x] = "shown" /\ x \notin touched /\ Own(x) =>
                                typed[x] = value[x]
        BY <1>1 DEF FormFollowsElement, Shown, Own
    <2>2. /\ formValue[x] = value[x]
          /\ stage[x] = "shown" /\ x \notin touched /\ Own(x) => typed[x] = value[x]
          /\ stage[x] = "loading" /\ Own(x) => x \in touched
        BY <1>8, <2>1 DEF IInv, FormFollowsElement, Staged, Shown, Own
    <2> QED BY <1>5, <1>9, <2>2
<1> QED BY <1>4, <1>6, <1>7, <1>11, <1>12 DEF IInv

-----------------------------------------------------------------------------
(* Results.                                                                *)

LEMMA StepIInv == IInv /\ [Next]_vars => IInv'
<1> SUFFICES ASSUME IInv, [Next]_vars PROVE IInv'
    OBVIOUS
<1>1. CASE ClickOutside \/ Escape
    BY <1>1, ClickOutsideOccurs, EscapeOccurs, OccursIInv
<1>2. ASSUME NEW e \in Elements,
             \/ Click(e) \/ Cancel(e) \/ Submit(e) \/ Hide(e) \/ Disable(e)
             \/ \E closeAll \in BOOLEAN : Show(e, closeAll)
      PROVE  IInv'
    BY <1>2, ClickOccurs, HideOccurs, SubmitOccurs, ShowOccurs, OccursIInv
<1>3. ASSUME NEW e \in Elements,
             \/ Enable(e) \/ Destroy(e) \/ FadeEnds(e) \/ SourceReady(e) \/ SourceFails(e)
      PROVE  IInv'
    BY <1>3, EnableIInv, DestroyIInv, FadeEndsIInv, SourceIInv
<1>4. ASSUME NEW e \in Elements, NEW v \in Values, Type(e, v) \/ SetValue(e, v)
      PROVE  IInv'
    BY <1>4, TypeIInv, SetValueIInv
<1>5. ASSUME NEW r \in requests, Accepted(r) \/ NotAccepted(r) PROVE IInv'
    BY <1>5, AcceptedIInv, NotAcceptedIInv
<1>6. CASE UNCHANGED vars
    <2> USE <1>6 DEF vars, form, input, server
    <2>1. \A x \in Elements : RequestsOf(x)' = RequestsOf(x)
        BY SameRequests
    <2>2. TypeOK'
        BY DEF IInv, TypeOK
    <2>3. Staged' /\ FormFollowsElement'
        BY <2>1 DEF IInv, Staged, Shown, Own, FormFollowsElement
    <2>4. SavingWaits'
        BY <2>1 DEF IInv, SavingWaits
    <2>5. DelayedOnlySaving' /\ OneEditing'
        BY DEF IInv, DelayedOnlySaving, OneEditing, Open
    <2> QED BY <2>2, <2>3, <2>4, <2>5 DEF IInv
<1> QED BY <1>1, <1>2, <1>3, <1>4, <1>5, <1>6 DEF Next

THEOREM IInvHolds == Spec => []IInv
BY InitIInv, StepIInv, PTL DEF Spec

\* TypeOK, for all elements, options and bounds.
THEOREM TypeCorrect == Spec => []TypeOK
<1>1. IInv => TypeOK
    BY DEF IInv
<1> QED BY IInvHolds, <1>1, PTL

\* SavingWaits: the flag that keeps a container from hiding is set exactly while the form
\* has its one request (EditableForm.submit, Popup.hide, render).
THEOREM SavingFormWaits == Spec => []SavingWaits
<1>1. IInv => SavingWaits
    BY DEF IInv
<1> QED BY IInvHolds, <1>1, PTL

\* DelayedOnlySaving: a hide is put off only for an open form that is saving (Popup.hide,
\* renderForm's "show" handler).
THEOREM DelayedHideHasAnswer == Spec => []DelayedOnlySaving
<1>1. IInv => DelayedOnlySaving
    BY DEF IInv
<1> QED BY IInvHolds, <1>1, PTL

\* OneEditing: unless a script has shown one beside another, of the elements whose form a
\* click elsewhere cancels one at most is open and not waiting for its answer
\* (Popup.closeOthers, show, toggle).
THEOREM OneElementEdited == Spec => []OneEditing
<1>1. IInv => OneEditing
    BY DEF IInv
<1> QED BY IInvHolds, <1>1, PTL

\* FormFollowsElement: an open form has its element's value, and shows it until the user
\* types (Editable.setValue, EditableForm.option, render).
THEOREM FormHasElementsValue == Spec => []FormFollowsElement
<1>1. IInv => FormFollowsElement
    BY DEF IInv
<1> QED BY IInvHolds, <1>1, PTL

-----------------------------------------------------------------------------
(* Refinement.                                                             *)

Editing(e) == IF view[e] # "open" THEN "no" ELSE IF e \in isSaving THEN "saving" ELSE "form"
Submits(e) == IF view[e] # "open" THEN {} ELSE {r.value : r \in RequestsOf(e)}

LEMMA EditInit == ASSUME Init, NEW e \in Elements PROVE Edit(e)!Init
BY DEF Init, Edit!Init

\* A step of an element, by what becomes of its value, its editing and its submission.
LEMMA EditSteps ==
    ASSUME NEW e \in Elements, value[e] \in Values,
           \/ /\ Editing(e) = "no" /\ Editing(e)' = "form"
              /\ value'[e] = value[e] /\ Submits(e)' = Submits(e)
           \/ /\ Editing(e) = "form" /\ Editing(e)' = "no"
              /\ value'[e] = value[e] /\ Submits(e)' = Submits(e)
           \/ /\ Editing(e) = "form" /\ Editing(e)' = "saving"
              /\ value'[e] = value[e] /\ \E v \in Values \ {value[e]} : Submits(e)' = {v}
           \/ /\ Editing(e) = "saving" /\ Editing(e)' = "no"
              /\ Submits(e)' = {} /\ \E v \in Submits(e) : value'[e] \in Replies[v]
           \/ /\ Editing(e) = "form" /\ Editing(e)' = "no"
              /\ value'[e] \in Values \ {value[e]} /\ Submits(e)' = Submits(e)
           \/ /\ Editing(e) = "saving" /\ Editing(e)' \in {"form", "no"}
              /\ value'[e] = value[e] /\ Submits(e)' = {}
    PROVE  Edit(e)!FormStep
BY DEF Edit!FormStep, Edit!Open, Edit!Close, Edit!Submit, Edit!Accept, Edit!Store, Edit!Refuse,
       Editing, Submits

\* A form whose element is calm has no request, or one while it is open.
LEMMA CalmForms ==
    ASSUME IInv, NEW e \in Elements, Calm(e)
    PROVE  /\ (e \in isSaving) <=> (RequestsOf(e) # {})
           /\ \A r \in RequestsOf(e) : /\ RequestsOf(e) = {r} /\ stage[e] = "loading"
                                       /\ view[e] \in {"open", "gone"}
           /\ value[e] \in Values /\ typed[e] \in Values
           /\ view[e] = "open" => formValue[e] = value[e]
           /\ e \notin isSaving => Submits(e) = {}
           /\ Submits(e) = IF view[e] = "open" THEN {r.value : r \in RequestsOf(e)} ELSE {}
BY DEF IInv, SavingWaits, Calm, TypeOK, FormFollowsElement, Submits

LEMMA Stutters ==
    ASSUME NEW e \in Elements, value'[e] = value[e], Editing(e)' = Editing(e),
           Submits(e)' = Submits(e)
    PROVE  EditStep(e)
BY DEF EditStep, Edit!vars, Editing, Submits

LEMMA EventEdits ==
    ASSUME NEW H \in SUBSET Elements, NEW S \in SUBSET Elements,
           NEW new \in SUBSET Elements, Happens(H, S, new), IInv, IInv',
           NEW e \in Elements, Calm(e), Calm(e)', view'[e] # "gone"
    PROVE  EditStep(e)
<1>0. FormsNext(S, new, e)
    BY EventForms
<1>1. /\ (e \in isSaving) <=> (RequestsOf(e) # {})
      /\ \A r \in RequestsOf(e) : /\ RequestsOf(e) = {r} /\ stage[e] = "loading"
                                  /\ view[e] \in {"open", "gone"}
      /\ value[e] \in Values /\ typed[e] \in Values
      /\ view[e] = "open" => formValue[e] = value[e]
      /\ e \notin isSaving => Submits(e) = {}
    BY CalmForms
<1>2. e \in S => stage[e] = "shown" /\ e \in Shown /\ RequestsOf(e) = {} /\ e \notin isSaving
    BY <1>1 DEF Happens, Calm
<1>3. CASE e \in new
    <2>1. view[e] = "closed" /\ view'[e] = "open" /\ e \notin isSaving'
        <3>1. view'[e] = "open" /\ e \notin isSaving'
            BY <1>3, EventViews
        <3> QED BY <1>3, <3>1 DEF Happens
    <2>2. RequestsOf(e)' = {} /\ value'[e] = value[e]
        BY <1>0, <1>3, EventRequests DEF FormsNext
    <2>3. Editing(e) = "no" /\ Editing(e)' = "form" /\ Submits(e)' = Submits(e)
        BY <2>1, <2>2 DEF Editing, Submits
    <2> QED BY <1>1, <2>2, <2>3, EditSteps DEF EditStep
<1>4. CASE e \in Sent(S)
    <2>1. e \in S /\ e \notin new /\ e \in Open /\ typed[e] # value[e]
        BY <1>0, <1>1, <1>4, OpensApart DEF FormsNext, Calm, Open
    <2>2. e \notin H \cup Unchanged(S) \cup Stored(S)
        BY <1>4, <2>1 DEF Happens, Sent, Stored, Saved
    <2>3. /\ view[e] = "open" /\ view'[e] = "open"
          /\ e \notin isSaving /\ e \in isSaving'
        BY <1>2, <1>4, <2>1, <2>2, EventViews DEF Open
    <2>4. PICK r : RequestsOf(e)' = RequestsOf(e) \cup {r} /\ r.value = typed[e]
        BY <1>4, EventRequests
    <2>5. Submits(e)' = {typed[e]}
        BY <1>2, <2>1, <2>3, <2>4 DEF Submits
    <2>6. Editing(e) = "form" /\ Editing(e)' = "saving"
        BY <2>3 DEF Editing
    <2>7. value'[e] = value[e]
        <3>1. e \notin Stored(S)
            BY <2>2
        <3> QED BY <3>1 DEF Happens, Effects
    <2> QED BY <1>1, <2>1, <2>5, <2>6, <2>7, EditSteps DEF EditStep
<1>5. CASE e \in Stored(S)
    <2>1. e \in S /\ e \in Saved(S) /\ e \notin new /\ e \notin Sent(S)
        BY <1>5, OpensApart DEF Stored, Saved, Sent
    <2>2. e \in Open
        BY <2>1 DEF Happens, Effects, Calm
    <2>3. view[e] = "open" /\ view'[e] = "fading" /\ e \notin isSaving /\ e \notin isSaving'
        BY <1>2, <1>5, <2>1, <2>2, EventViews DEF Open
    <2>4. Editing(e) = "form" /\ Editing(e)' = "no" /\ Submits(e)' = {} /\ Submits(e) = {}
        BY <1>1, <2>3 DEF Editing, Submits
    <2>5. value'[e] = typed[e] /\ typed[e] # value[e]
        BY <1>0, <1>1, <1>5, <2>1, <2>3 DEF FormsNext, Saved, Unchanged
    <2> QED BY <1>1, <2>4, <2>5, EditSteps DEF EditStep
<1>6. CASE e \notin new /\ e \notin Sent(S) /\ e \notin Stored(S)
    <2>1. /\ value'[e] = value[e] /\ RequestsOf(e)' = RequestsOf(e)
          /\ e \in isSaving' <=> e \in isSaving
        BY <1>0, <1>6, EventViews, EventRequests DEF FormsNext
    <2>2. \/ view'[e] = view[e]
          \/ view[e] = "open" /\ view'[e] = "fading" /\ e \notin isSaving
        <3>1. e \in Open <=> view[e] = "open"
            BY DEF Open
        <3>2. CASE e \notin Open
            BY <1>6, <3>2, EventViews
        <3>3. CASE e \in Open
            BY <3>1, <3>3, EventViews
        <3> QED BY <3>2, <3>3
    <2>3. CASE view'[e] = view[e]
        <3>1. Editing(e)' = Editing(e) /\ Submits(e)' = Submits(e)
            BY <2>1, <2>3 DEF Editing, Submits
        <3> QED BY <2>1, <3>1, Stutters
    <2>4. CASE view[e] = "open" /\ view'[e] = "fading" /\ e \notin isSaving
        <3>1. Editing(e) = "form" /\ Editing(e)' = "no" /\ Submits(e)' = {} /\ Submits(e) = {}
            BY <1>1, <2>4 DEF Editing, Submits
        <3> QED BY <1>1, <2>1, <3>1, EditSteps DEF EditStep
    <2> QED BY <2>2, <2>3, <2>4
<1> QED BY <1>3, <1>4, <1>5, <1>6

LEMMA OccursEdits ==
    ASSUME IInv, IInv', Occurs, NEW e \in Elements, Calm(e), Calm(e)', view'[e] # "gone"
    PROVE  EditStep(e)
<1>1. PICK H \in SUBSET Elements, submit \in SUBSET Elements, new \in SUBSET Elements :
        /\ Event(H, submit, new)
        /\ H \cap submit = {}
        /\ \A x \in submit : /\ x \in Shown
                             /\ stage[x] = "shown" \/ options[x].onblur = "submit"
        /\ \A x \in new : view[x] = "closed"
        /\ ClosesOthers(H, new)
    BY DEF Occurs
<1>2. PICK S \in SUBSET Elements : S = {x \in submit : stage[x] \in {"shown", "loading"}}
    OBVIOUS
<1>3. Effects(H, S, new)
    BY <1>1, <1>2 DEF Event, Effects
<1>4. Happens(H, S, new)
    BY <1>1, <1>2, <1>3 DEF Happens
<1> QED BY <1>4, EventEdits

\* An answer to the form of e.
LEMMA AnswerEdits ==
    ASSUME IInv, NEW r, Accepted(r) \/ NotAccepted(r),
           NEW e \in Elements, Calm(e), view'[e] # "gone"
    PROVE  EditStep(e)
<1>1. Answered(r)
    BY DEF Accepted, NotAccepted
<1>2. /\ (e \in isSaving) <=> (RequestsOf(e) # {})
      /\ \A q \in RequestsOf(e) : /\ RequestsOf(e) = {q} /\ stage[e] = "loading"
                                  /\ view[e] \in {"open", "gone"}
      /\ value[e] \in Values
    BY CalmForms
<1>3. /\ r.element \in Elements
      /\ RequestsOf(e)' = RequestsOf(e) \ {r}
      /\ r \in RequestsOf(e) <=> e = r.element /\ Newest(r)
      /\ e \in isSaving' <=> e \in isSaving /\ ~(e = r.element /\ Newest(r))
    BY <1>1, AnswerRequests
<1>4. PICK H \in SUBSET Elements :
        /\ view' = [x \in Elements |-> IF x \in (H \cap Open) \ isSaving' THEN "fading" ELSE view[x]]
        /\ H = {} \/ (H = {r.element} /\ Heard(r))
        /\ Accepted(r) /\ Heard(r) => H = {r.element}
    <2>1. CASE Accepted(r)
        <3>1. PICK H \in SUBSET Elements : H = {x \in {r.element} : Heard(r)}
            BY <1>3
        <3>2. hide(H, isSaving', {})
            BY <2>1, <3>1 DEF Accepted
        <3>3. view' = [x \in Elements |-> IF x \in (H \cap Open) \ isSaving' THEN "fading"
                                         ELSE view[x]]
            BY <3>2 DEF hide
        <3>4. \/ H = {}
              \/ H = {r.element} /\ Heard(r)
            BY <3>1
        <3>5. Accepted(r) /\ Heard(r) => H = {r.element}
            BY <3>1
        <3> QED BY <3>1, <3>3, <3>4, <3>5, Zenon
    <2>2. CASE NotAccepted(r) /\ ~Accepted(r)
        <3>1. PICK H \in SUBSET Elements : H = {x \in delayedHide : x = r.element /\ Heard(r)}
            BY DEF IInv, TypeOK
        <3>2. hide(H, isSaving', {})
            BY <2>2, <3>1 DEF NotAccepted
        <3>3. view' = [x \in Elements |-> IF x \in (H \cap Open) \ isSaving' THEN "fading"
                                         ELSE view[x]]
            BY <3>2 DEF hide
        <3>4. \/ H = {}
              \/ H = {r.element} /\ Heard(r)
            BY <3>1
        <3> QED BY <2>2, <3>1, <3>3, <3>4, Zenon
    <2> QED BY <2>1, <2>2
<1>5. view'[e] = IF e \in (H \cap Open) \ isSaving' THEN "fading" ELSE view[e]
    BY <1>4
<1>6. CASE r \in RequestsOf(e)
    <2>1. /\ RequestsOf(e) = {r} /\ RequestsOf(e)' = {} /\ e \in isSaving /\ e \notin isSaving'
          /\ e = r.element /\ Newest(r) /\ view[e] = "open" /\ e \in Open
        BY <1>2, <1>3, <1>5, <1>6 DEF Open
    <2>2. Heard(r)
        BY <2>1 DEF Heard
    <2>3. Editing(e) = "saving" /\ Submits(e) = {r.value} /\ Submits(e)' = {}
        BY <2>1 DEF Editing, Submits
    <2>4. CASE Accepted(r)
        <3>1. view'[e] = "fading"
            BY <1>4, <1>5, <2>1, <2>2, <2>4
        <3>2. PICK v \in Replies[r.value] : NewValue(e, v)
            BY <2>1, <2>2, <2>4 DEF Accepted
        <3>3. value'[e] = v /\ Editing(e)' = "no"
            BY <3>1, <3>2 DEF NewValue, IInv, TypeOK, Editing
        <3>4. \E w \in Submits(e) : value'[e] \in Replies[w]
            BY <2>3, <3>2, <3>3
        <3> QED BY <1>2, <2>3, <3>3, <3>4, EditSteps DEF EditStep
    <2>5. CASE NotAccepted(r)
        <3>1. value'[e] = value[e] /\ Editing(e)' \in {"form", "no"}
            BY <1>5, <2>1, <2>5 DEF NotAccepted, Editing
        <3> QED BY <1>2, <2>3, <3>1, EditSteps DEF EditStep
    <2> QED BY <2>4, <2>5
<1>7. CASE r \notin RequestsOf(e)
    <2>1. RequestsOf(e)' = RequestsOf(e) /\ (e \in isSaving' <=> e \in isSaving)
        BY <1>3, <1>7
    <2>2. ~(e = r.element /\ Heard(r)) /\ view'[e] = view[e]
        BY <1>3, <1>4, <1>5, <1>7 DEF Heard
    <2>3. value'[e] = value[e]
        BY <2>2 DEF Accepted, NotAccepted, NewValue, IInv, TypeOK
    <2>4. Editing(e)' = Editing(e) /\ Submits(e)' = Submits(e)
        BY <2>1, <2>2 DEF Editing, Submits
    <2> QED BY <2>3, <2>4, Stutters
<1> QED BY <1>6, <1>7

LEMMA StepEdits ==
    ASSUME IInv, [Next]_vars, NEW e \in Elements, Calm(e)', view'[e] # "gone"
    PROVE  EditStep(e)
<1>1. IInv'
    BY StepIInv
<1>2. Calm(e)
    <2>1. ASSUME NEW H \in SUBSET Elements, NEW S \in SUBSET Elements,
                 NEW new \in SUBSET Elements, Happens(H, S, new)
          PROVE  options' = options /\ hasty \subseteq hasty'
        BY <2>1 DEF Happens, Effects
    <2>2. ASSUME Occurs PROVE options' = options /\ hasty \subseteq hasty'
        BY <2>2 DEF Occurs, Event
    <2>3. options' = options /\ hasty \subseteq hasty'
        <3>1. CASE ClickOutside \/ Escape
            BY <2>2, <3>1, ClickOutsideOccurs, EscapeOccurs
        <3>2. ASSUME NEW x \in Elements,
                     \/ Click(x) \/ Cancel(x) \/ Submit(x) \/ Hide(x) \/ Disable(x)
                     \/ \E closeAll \in BOOLEAN : Show(x, closeAll)
              PROVE  options' = options /\ hasty \subseteq hasty'
            BY <2>2, <3>2, ClickOccurs, HideOccurs, SubmitOccurs, ShowOccurs
        <3>3. ASSUME NEW x \in Elements,
                     \/ Enable(x) \/ Destroy(x) \/ FadeEnds(x) \/ SourceReady(x) \/ SourceFails(x)
              PROVE  options' = options /\ hasty \subseteq hasty'
            BY <3>3 DEF Enable, Destroy, FadeEnds, SourceReady, SourceFails, server
        <3>4. ASSUME NEW x \in Elements, NEW v \in Values, Type(x, v) \/ SetValue(x, v)
              PROVE  options' = options /\ hasty \subseteq hasty'
            BY <3>4 DEF Type, SetValue, server
        <3>5. ASSUME NEW r \in requests, Accepted(r) \/ NotAccepted(r)
              PROVE  options' = options /\ hasty \subseteq hasty'
            BY <3>5 DEF Accepted, NotAccepted, Answered
        <3>6. CASE UNCHANGED vars
            BY <3>6 DEF vars, server
        <3> QED BY <3>1, <3>2, <3>3, <3>4, <3>5, <3>6 DEF Next
    <2> QED BY <2>3 DEF Calm
<1>3. CASE Occurs
    BY <1>1, <1>2, <1>3, OccursEdits
<1>4. ASSUME UNCHANGED <<value, view, isSaving, requests, shows>> PROVE EditStep(e)
    <2>1. RequestsOf(e)' = RequestsOf(e)
        BY <1>4, SameRequests
    <2>2. Editing(e)' = Editing(e) /\ Submits(e)' = Submits(e)
        BY <1>4, <2>1 DEF Editing, Submits
    <2> QED BY <1>4, <2>2, Stutters
<1>5. ASSUME NEW x \in Elements, Enable(x) \/ SourceReady(x) \/ SourceFails(x)
      PROVE  EditStep(e)
    BY <1>4, <1>5 DEF Enable, SourceReady, SourceFails, server, form
<1>6. ASSUME NEW x \in Elements, Destroy(x) \/ FadeEnds(x) PROVE EditStep(e)
    <2>1. UNCHANGED <<value, isSaving, requests, shows>>
        BY <1>6 DEF Destroy, FadeEnds, form, server
    <2>2. RequestsOf(e)' = RequestsOf(e)
        BY <2>1, SameRequests
    <2>3. view'[e] = view[e] \/ (view[e] = "fading" /\ view'[e] = "closed")
        BY <1>6 DEF Destroy, FadeEnds, IInv, TypeOK
    <2>4. Editing(e)' = Editing(e) /\ Submits(e)' = Submits(e)
        BY <2>1, <2>2, <2>3 DEF Editing, Submits
    <2> QED BY <2>1, <2>4, Stutters
<1>7. ASSUME NEW x \in Elements, NEW v \in Values, Type(x, v) PROVE EditStep(e)
    BY <1>4, <1>7 DEF Type, server, form
<1>8. ASSUME NEW x \in Elements, NEW v \in Values, SetValue(x, v) PROVE EditStep(e)
    <2>1. UNCHANGED <<view, isSaving, requests, shows>> /\ value' = [value EXCEPT ![x] = v]
        BY <1>8 DEF SetValue, NewValue, server
    <2>2. RequestsOf(e)' = RequestsOf(e)
        BY <2>1, SameRequests
    <2>3. Editing(e)' = Editing(e) /\ Submits(e)' = Submits(e)
        BY <2>1, <2>2 DEF Editing, Submits
    <2>4. CASE x = e
        <3>1. value'[e] \in Values
            BY <2>1, <2>4 DEF IInv, TypeOK
        <3>2. Edit(e)!SetValue
            BY <2>3, <3>1 DEF Edit!SetValue, Editing, Submits
        <3> QED BY <1>8, <2>4, <3>2 DEF EditStep
    <2>5. CASE x # e
        <3>1. value'[e] = value[e]
            BY <2>1, <2>5 DEF IInv, TypeOK
        <3> QED BY <2>3, <3>1, Stutters
    <2> QED BY <2>4, <2>5
<1>9. ASSUME NEW r \in requests, Accepted(r) \/ NotAccepted(r) PROVE EditStep(e)
    BY <1>2, <1>9, AnswerEdits
<1>10. CASE UNCHANGED vars
    BY <1>4, <1>10 DEF vars, form, server
<1>11. CASE ClickOutside \/ Escape
    BY <1>3, <1>11, ClickOutsideOccurs, EscapeOccurs
<1>12. ASSUME NEW x \in Elements,
              \/ Click(x) \/ Cancel(x) \/ Submit(x) \/ Hide(x) \/ Disable(x)
              \/ \E closeAll \in BOOLEAN : Show(x, closeAll)
       PROVE  EditStep(e)
    BY <1>3, <1>12, ClickOccurs, HideOccurs, SubmitOccurs, ShowOccurs
<1> QED BY <1>5, <1>6, <1>7, <1>8, <1>9, <1>10, <1>11, <1>12 DEF Next

\* ImplementsInPlaceEdit: every element that nothing submits twice or too late does what
\* InPlaceEdit promises to who edits it (EditableForm.submit, Popup.save and hide).
THEOREM EditsInPlace == Spec => ImplementsInPlaceEdit
<1>1. Init => \A e \in Elements : Edit(e)!Init
    BY EditInit
<1>2. IInv /\ [Next]_vars =>
          [\A e \in Elements : Calm(e)' /\ view'[e] # "gone" => EditStep(e)]_vars
    BY StepEdits
<1> QED BY IInvHolds, <1>1, <1>2, PTL DEF Spec, ImplementsInPlaceEdit
=============================================================================
