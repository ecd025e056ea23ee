------------------------------- MODULE Editable ------------------------------
(***************************************************************************)
(* Elements edited in place: the element (Editable), the popover or inline *)
(* container that opens at it, and the form in that container, which sends *)
(* the value to a server and waits for the answer; with users, scripts of  *)
(* the page, servers and the loading of lists as environment.              *)
(*                                                                         *)
(* JavaScript runs one event at a time, so each action is an event with    *)
(* every handler it reaches.                                               *)
(***************************************************************************)
EXTENDS Naturals

CONSTANTS
    Elements,
    Values,
    Invalid,        \* the values that the option "validate" refuses
    Replies,        \* for each value sent, what the "success" callback makes of it
    OptionSets,     \* the options an element may have
    None,           \* no value
    MaxShows,       \* bound: how often each element's form is opened
    MaxSends        \* bound: how many requests each element sends

\* Of an element's options: what a click outside does; whether values are sent
\* (a url that is a function, or one with a pk or send = "always"); whether its input
\* is a list loaded from a url; whether the form is inline instead of in a popover.
Options == [onblur : {"cancel", "submit", "ignore"}, sends : BOOLEAN,
            list : BOOLEAN, inline : BOOLEAN]

ASSUME OptionsAssumption == OptionSets \subseteq Options
ASSUME ValuesAssumption ==
    /\ Invalid \subseteq Values
    /\ Replies \in [Values -> SUBSET Values]
    /\ None \notin Values
ASSUME BoundAssumption == MaxShows \in Nat \ {0} /\ MaxSends \in Nat \ {0}

VARIABLES
    options,
    value,          \* Editable.value
    disabled,       \* the elements that are disabled
    view,           \* the container: "closed", "open", "fading" out, or destroyed: "gone"
    delayedHide,    \* the elements with a hide that waits for the answer
    shows,          \* the number of the newest form, 0 before there is one
    stage,          \* of the newest form: "none", "rendering" until its list is there,
                    \* "broken" without it, "shown", or "loading" while it saves
    formValue,      \* EditableForm.value of the newest form
    isSaving,       \* the elements whose newest form is saving
    typed,          \* what the input holds
    touched,        \* history: the elements whose input the user has changed
    loaded,         \* the elements whose list is there
    older,          \* the value of the first form that waits for the list, if another
                    \* was opened since, or None
    requests,       \* the requests without an answer
    sends,          \* how many were sent
    hasty,          \* history: the elements with a form submitted while it faded out
    beside,         \* history: a script showed an element beside another that was open
                    \* (closeAll = false), and no event has closed the others since
    left            \* the browser has left the page

input == <<typed, touched, loaded, older>>
form == <<shows, stage, formValue, isSaving>>
server == <<requests, sends, hasty, beside>>
vars == <<options, value, disabled, view, delayedHide, form, input, server, left>>

Request == [element : Elements, form : 1 .. MaxShows, value : Values, id : 1 .. MaxSends]

Init ==
    /\ options \in [Elements -> OptionSets]
    /\ value \in [Elements -> Values]
    /\ formValue = value
    /\ typed = value
    /\ view = [e \in Elements |-> "closed"]
    /\ shows = [e \in Elements |-> 0]
    /\ stage = [e \in Elements |-> "none"]
    /\ older = [e \in Elements |-> None]
    /\ sends = [e \in Elements |-> 0]
    /\ disabled = {} /\ delayedHide = {} /\ isSaving = {} /\ touched = {}
    /\ loaded = {} /\ requests = {} /\ hasty = {} /\ beside = FALSE
    /\ left = FALSE

-----------------------------------------------------------------------------
(* What one event does to the elements it concerns.                        *)

Open == {e \in Elements : view[e] = "open"}

\* The form can be seen, also while it fades out.
Visible == {e \in Elements : view[e] \in {"open", "fading"} /\ stage[e] \in {"shown", "broken"}}

\* Mutant: hide does not wait for the answer.
hideAtOnce(H, saving, new) ==
    /\ view' = [e \in Elements |-> IF e \in new THEN "open"
                                   ELSE IF e \in H \cap Open THEN "fading" ELSE view[e]]
    /\ delayedHide' = delayedHide \ (H \cap Open)

\* Popup.hide: a form that is saving is hidden only when it has its answer.
hide(H, saving, new) ==
    /\ view' = [e \in Elements |-> IF e \in new THEN "open"
                                   ELSE IF e \in (H \cap Open) \ saving THEN "fading"
                                   ELSE view[e]]
    /\ delayedHide' = (delayedHide \ (H \cap Open)) \cup (H \cap Open \cap saving)

\* What the submit handlers of these forms find.
Refused(S) == {e \in S : typed[e] \in Invalid}
Unchanged(S) == {e \in S \ Refused(S) : typed[e] = formValue[e]}

\* Mutant: a value that has not changed is sent as well.
SavedAlways(S) == S \ Refused(S)

Saved(S) == S \ (Refused(S) \cup Unchanged(S))
Sent(S) == {e \in Saved(S) : options[e].sends}
Stored(S) == {e \in Saved(S) : ~options[e].sends}

\* EditableForm.save: the value of a form goes to the server.
save(S) ==
    /\ \A e \in S : sends[e] < MaxSends
    /\ sends' = [e \in Elements |-> IF e \in S THEN sends[e] + 1 ELSE sends[e]]
    /\ requests' = requests \cup
        {[element |-> e, form |-> shows[e], value |-> typed[e], id |-> sends[e] + 1] : e \in S}

\* Mutant: the old form is used again, and not counted.
renderAgain(new) ==
    /\ \A e \in new : shows[e] < MaxShows
    /\ typed' = [e \in Elements |-> IF e \in new THEN value[e] ELSE typed[e]]
    /\ UNCHANGED <<shows, older>>

\* The input of a new form: the form of a list that is not loaded yet is not seen and
\* has no handlers until it is.
Pending(new) == {e \in new : options[e].list /\ e \notin loaded}
render(new) ==
    /\ \A e \in new : shows[e] < MaxShows
    /\ shows' = [e \in Elements |-> IF e \in new THEN shows[e] + 1 ELSE shows[e]]
    /\ typed' = [e \in Elements |-> IF e \in new \ Pending(new) THEN value[e] ELSE typed[e]]
    /\ older' = [e \in Elements |->
                    IF e \in Pending(new) /\ stage[e] = "rendering" /\ older[e] = None
                    THEN formValue[e] ELSE older[e]]

\* The containers H hide, the forms S are submitted and the elements of new open.  A
\* value that is neither refused nor the old one is sent, or is stored at once.  A form
\* that is still rendering has no submit handler, so that the browser submits it itself
\* and leaves the page; a broken one does nothing.
Event(H, submit, new) ==
    LET S == {e \in submit : stage[e] \in {"shown", "loading"}}
    IN  /\ save(Sent(S))
        /\ hide(H \cup Unchanged(S) \cup Stored(S), isSaving, new)
        /\ render(new)
        /\ isSaving' = (isSaving \cup Sent(S)) \ new
        /\ stage' = [e \in Elements |-> IF e \in Pending(new) THEN "rendering"
                                        ELSE IF e \in new \cup Refused(S) THEN "shown"
                                        ELSE IF e \in Sent(S) THEN "loading"
                                        ELSE stage[e]]
        /\ value' = [e \in Elements |-> IF e \in Stored(S) THEN typed[e] ELSE value[e]]
        /\ formValue' = [e \in Elements |-> IF e \in Stored(S) THEN typed[e]
                                            ELSE IF e \in new THEN value[e]
                                            ELSE formValue[e]]
        /\ touched' = touched \ (Stored(S) \cup new)
        /\ hasty' = hasty \cup (Saved(S) \ Open)
        /\ left' = \E e \in submit : stage[e] = "rendering"
        /\ UNCHANGED <<options, loaded>>

-----------------------------------------------------------------------------
(* The user.                                                               *)

\* Popup.closeOthers: what the option onblur says, for all that are open but these.
Others(these, action) == {e \in Open \ these : options[e].onblur = action}

\* The element's click handler toggles its container, unless it is still fading; then
\* the click is one outside every other container.
Click(e) ==
    /\ view[e] # "gone" /\ ~(options[e].inline /\ view[e] \in {"open", "fading"})
    /\ LET shown == IF view[e] = "closed" /\ e \notin disabled THEN {e} ELSE {}
       IN  Event(Others({e}, "cancel") \cup {e}, Others({e}, "submit"), shown)
    /\ beside' = FALSE
    /\ UNCHANGED disabled

ClickOutside ==
    /\ Event(Others({}, "cancel"), Others({}, "submit"), {})
    /\ beside' = FALSE
    /\ UNCHANGED disabled

Escape ==
    /\ Event(Open, {}, {})
    /\ beside' = FALSE
    /\ UNCHANGED disabled

Cancel(e) ==
    /\ e \in Visible
    /\ Event({e}, {}, {})
    /\ UNCHANGED <<disabled, beside>>

Submit(e) ==
    /\ e \in Visible /\ stage[e] = "shown"
    /\ Event({}, {e}, {})
    /\ UNCHANGED <<disabled, beside>>

Type(e, v) ==
    /\ e \in Visible /\ stage[e] = "shown"
    /\ v # typed[e]
    /\ typed' = [typed EXCEPT ![e] = v]
    /\ touched' = touched \cup {e}
    /\ UNCHANGED <<options, value, disabled, view, delayedHide, form, loaded, older,
                   server, left>>

-----------------------------------------------------------------------------
(* Scripts of the page.                                                    *)

\* Mutant: show never closes the other containers.
ShowBeside(e, closeAll) ==
    /\ view[e] = "closed" /\ e \notin disabled
    /\ Event({}, {}, {e})
    /\ beside' = (~closeAll /\ (beside \/ Open # {}))
    /\ UNCHANGED disabled

\* Editable.show and toggle: the others are closed, unless the script says closeAll = false.
Show(e, closeAll) ==
    /\ view[e] = "closed" /\ e \notin disabled
    /\ IF closeAll THEN Event(Others({e}, "cancel"), Others({e}, "submit"), {e})
                   ELSE Event({}, {}, {e})
    /\ beside' = (~closeAll /\ (beside \/ Open # {}))
    /\ UNCHANGED disabled

Hide(e) ==
    /\ view[e] = "open"
    /\ Event({e}, {}, {})
    /\ UNCHANGED <<disabled, beside>>

Disable(e) ==
    /\ view[e] # "gone"
    /\ Event({e}, {}, {})
    /\ disabled' = disabled \cup {e}
    /\ UNCHANGED beside

Enable(e) ==
    /\ view[e] # "gone" /\ e \in disabled
    /\ disabled' = disabled \ {e}
    /\ UNCHANGED <<options, value, view, delayedHide, form, input, server, left>>

\* Mutant: the container is not told of the new value.
NewValueOfElement(e, v) ==
    /\ value' = [value EXCEPT ![e] = v]
    /\ UNCHANGED <<formValue, typed, touched>>

\* Editable.setValue: the form follows, and its input if it can be seen.
NewValue(e, v) ==
    /\ value' = [value EXCEPT ![e] = v]
    /\ formValue' = [formValue EXCEPT ![e] = v]
    /\ typed' = IF e \in Visible THEN [typed EXCEPT ![e] = v] ELSE typed
    /\ touched' = IF e \in Visible THEN touched \ {e} ELSE touched

SetValue(e, v) ==
    /\ view[e] # "gone" /\ v # value[e]
    /\ NewValue(e, v)
    /\ UNCHANGED <<options, disabled, view, delayedHide, shows, stage, isSaving, loaded,
                   older, server, left>>

\* Editable.destroy: the container goes at once, also while the form is saving.
Destroy(e) ==
    /\ view[e] # "gone"
    /\ view' = [view EXCEPT ![e] = "gone"]
    /\ delayedHide' = delayedHide \ {e}
    /\ disabled' = disabled \cup {e}
    /\ UNCHANGED <<options, value, form, input, server, left>>

-----------------------------------------------------------------------------
(* The environment.                                                        *)

FadeEnds(e) ==
    /\ view[e] = "fading"
    /\ view' = [view EXCEPT ![e] = "closed"]
    /\ UNCHANGED <<options, value, disabled, delayedHide, form, input, server, left>>

\* The forms that wait for the list are rendered in the order of their requests, but for
\* the one that sent the request, which comes last and puts its value into the input.
SourceReady(e) ==
    /\ options[e].list /\ e \notin loaded
    /\ loaded' = loaded \cup {e}
    /\ older' = [older EXCEPT ![e] = None]
    /\ IF stage[e] # "rendering" THEN UNCHANGED <<typed, stage>>
       ELSE /\ \E v \in {older[e], formValue[e]} \ {None} : typed' = [typed EXCEPT ![e] = v]
            /\ stage' = [stage EXCEPT ![e] = "shown"]
    /\ UNCHANGED <<options, value, disabled, view, delayedHide, shows, formValue, isSaving,
                   touched, server, left>>

SourceFails(e) ==
    /\ stage[e] = "rendering"
    /\ older' = [older EXCEPT ![e] = None]
    /\ stage' = [stage EXCEPT ![e] = "broken"]
    /\ UNCHANGED <<options, value, disabled, view, delayedHide, shows, formValue, isSaving,
                   typed, touched, loaded, server, left>>

Newest(r) == r.form = shows[r.element]

\* The form is still there to hear of its answer. jQuery takes its handlers away when
\* another form replaces it, and when it was inline and has faded out.
Heard(r) ==
    /\ Newest(r) /\ view[r.element] # "gone"
    /\ ~(options[r.element].inline /\ view[r.element] = "closed")

\* The answer of the server is there: the form is not saving any more.
Answered(r) ==
    /\ r \in requests
    /\ requests' = requests \ {r}
    /\ isSaving' = IF Newest(r) THEN isSaving \ {r.element} ELSE isSaving
    /\ UNCHANGED <<options, disabled, shows, loaded, older, sends, hasty,
                   beside, left>>

\* The answer accepts the value: the container gives it to the element and hides.
Accepted(r) ==
    /\ Answered(r)
    /\ \E v \in Replies[r.value] :
          IF Heard(r) THEN NewValue(r.element, v)
          ELSE /\ formValue' = IF Newest(r) THEN [formValue EXCEPT ![r.element] = v]
                               ELSE formValue
               /\ UNCHANGED <<value, typed, touched>>
    /\ hide({e \in {r.element} : Heard(r)}, isSaving', {})
    /\ UNCHANGED stage

\* Mutant: a hide that was put off is forgotten.
NotAcceptedForgets(r) ==
    /\ Answered(r)
    /\ stage' = IF Newest(r) THEN [stage EXCEPT ![r.element] = "shown"] ELSE stage
    /\ UNCHANGED <<view, delayedHide, value, formValue, typed, touched>>

\* The request failed, or the "success" callback keeps the form: it is shown again,
\* unless a hide waits for this.
NotAccepted(r) ==
    /\ Answered(r)
    /\ stage' = IF Newest(r) THEN [stage EXCEPT ![r.element] = "shown"] ELSE stage
    /\ hide({e \in delayedHide : e = r.element /\ Heard(r)}, isSaving', {})
    /\ UNCHANGED <<value, formValue, typed, touched>>

Next ==
    /\ ~left
    /\ \/ ClickOutside \/ Escape
       \/ \E e \in Elements :
            \/ Click(e) \/ Cancel(e) \/ Submit(e)
            \/ \E closeAll \in BOOLEAN : Show(e, closeAll)
            \/ Hide(e) \/ Disable(e) \/ Enable(e) \/ Destroy(e)
            \/ FadeEnds(e) \/ SourceReady(e) \/ SourceFails(e)
            \/ \E v \in Values : Type(e, v) \/ SetValue(e, v)
       \/ \E r \in requests : Accepted(r) \/ NotAccepted(r)

\* Every request is answered or fails, and every list that is asked for as well.
Fairness ==
    \A e \in Elements :
        /\ WF_vars(~left /\ stage[e] = "rendering" /\ (SourceReady(e) \/ SourceFails(e)))
        /\ \A n \in 1 .. MaxSends :
            WF_vars(~left /\ \E r \in requests : r.element = e /\ r.id = n
                                              /\ (Accepted(r) \/ NotAccepted(r)))

Spec == Init /\ [][Next]_vars /\ Fairness

-----------------------------------------------------------------------------
(* What holds.                                                             *)

\* Type invariant: every variable has its type, and no request is of a form that was
\* never opened.
TypeOK ==
    /\ options \in [Elements -> OptionSets]
    /\ value \in [Elements -> Values] /\ formValue \in [Elements -> Values]
    /\ typed \in [Elements -> Values]
    /\ view \in [Elements -> {"closed", "open", "fading", "gone"}]
    /\ stage \in [Elements -> {"none", "rendering", "broken", "shown", "loading"}]
    /\ older \in [Elements -> Values \cup {None}]
    /\ shows \in [Elements -> 0 .. MaxShows] /\ sends \in [Elements -> 0 .. MaxSends]
    /\ disabled \subseteq Elements /\ delayedHide \subseteq Elements
    /\ isSaving \subseteq Elements /\ touched \subseteq Elements
    /\ loaded \subseteq Elements /\ hasty \subseteq Elements
    /\ beside \in BOOLEAN
    /\ requests \subseteq Request
    /\ \A r \in requests : r.form <= shows[r.element] /\ r.id <= sends[r.element]
    /\ left \in BOOLEAN

\* The requests of the newest form of an element.
RequestsOf(e) == {r \in requests : r.element = e /\ Newest(r)}

\* The flag isSaving, by which a container knows that it must not hide, is set exactly
\* while the form has its one request; a form that has one is open, unless it was
\* submitted on its way out. (A click outside may submit it again while it saves.)
SavingWaits ==
    \A e \in Elements : options[e].onblur # "submit" =>
        /\ (e \in isSaving) <=> (RequestsOf(e) # {})
        /\ \A r \in RequestsOf(e) : /\ RequestsOf(e) = {r} /\ stage[e] = "loading"
                                    /\ view[e] \in {"open", "gone"} \/ e \in hasty

\* A hide is put off only for a form that is saving and open, whose answer will run it.
DelayedOnlySaving == delayedHide \subseteq isSaving \cap Open

\* Of the containers that a click elsewhere cancels, at most one is open, but for those
\* that only wait for their answer, unless a script has shown one beside another
\* (closeAll = false).
OneEditing ==
    ~beside => \A e, f \in Open \ delayedHide :
        options[e].onblur = "cancel" /\ options[f].onblur = "cancel" => e = f

\* A form has the value of its element, also when a script sets that while the form is
\* open, and shows it until the user types (but for a list, whose load may be answered
\* for an older form last).
FormFollowsElement ==
    \A e \in Elements : view[e] \in {"open", "fading"} =>
        /\ formValue[e] = value[e]
        /\ stage[e] = "shown" /\ e \notin touched /\ ~(options[e].list /\ shows[e] > 1) =>
                typed[e] = value[e]

\* What the element promises to who edits it.
Edit(e) == INSTANCE InPlaceEdit WITH
    value <- value[e],
    editing <- IF view[e] # "open" THEN "no" ELSE IF e \in isSaving THEN "saving" ELSE "form",
    submitted <- IF view[e] # "open" THEN {} ELSE {r.value : r \in RequestsOf(e)}

\* An element whose forms nothing submits twice or too late: a click outside does not
\* submit, and nobody submits a form that is on its way out.
Calm(e) == options[e].onblur # "submit" /\ e \notin hasty

\* Every element that nothing submits twice or too late does what InPlaceEdit says: its
\* value changes only as its form is submitted or has its answer, unless it is a script
\* that sets it.
EditStep(e) ==
    \/ Edit(e)!FormStep
    \/ Edit(e)!SetValue /\ \E v \in Values : SetValue(e, v)
    \/ UNCHANGED Edit(e)!vars
ImplementsInPlaceEdit ==
    /\ \A e \in Elements : Edit(e)!Init
    /\ [][\A e \in Elements : Calm(e)' /\ view'[e] # "gone" => EditStep(e)]_vars

\* A hide that was put off comes about, whatever the answer is.
DelayedHides ==
    \A e \in Elements : e \in delayedHide ~> view[e] # "open" \/ left

\* An open form does not show its loading image for ever.
LoadingEnds ==
    \A e \in Elements :
        e \in Open /\ stage[e] \in {"rendering", "loading"}
            ~> e \notin Open \/ stage[e] \notin {"rendering", "loading"} \/ left

\* No form stays as it is because an answer did not do what it was to do.
FormSettles == DelayedHides /\ LoadingEnds
=============================================================================
