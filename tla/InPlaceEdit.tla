----------------------------- MODULE InPlaceEdit -----------------------------
(***************************************************************************)
(* What an editable element promises to who edits it: the value on the     *)
(* page changes only to what was submitted and accepted, one submission at *)
(* a time, and a form that is saving stays until the answer is there.      *)
(***************************************************************************)
CONSTANTS
    Values,
    Replies         \* for each value submitted, the values it may be stored as

VARIABLES
    value,          \* the element's value on the page
    editing,        \* "no", "form" while a form is there, or "saving"
    submitted       \* {}, or the value being saved

vars == <<value, editing, submitted>>

Init ==
    /\ value \in Values
    /\ editing = "no"
    /\ submitted = {}

Open ==
    /\ editing = "no"
    /\ editing' = "form"
    /\ UNCHANGED <<value, submitted>>

\* Cancelled, left, or submitted with nothing changed.
Close ==
    /\ editing = "form"
    /\ editing' = "no"
    /\ UNCHANGED <<value, submitted>>

Submit ==
    /\ editing = "form"
    /\ editing' = "saving"
    /\ \E v \in Values \ {value} : submitted' = {v}
    /\ UNCHANGED value

\* The answer accepts what was submitted.
Accept ==
    /\ editing = "saving"
    /\ editing' = "no"
    /\ \E v \in submitted : value' \in Replies[v]
    /\ submitted' = {}

\* A value that is not sent anywhere is stored at once.
Store ==
    /\ editing = "form"
    /\ editing' = "no"
    /\ value' \in Values \ {value}
    /\ UNCHANGED submitted

\* The form comes back with an error, or goes if it was to go.
Refuse ==
    /\ editing = "saving"
    /\ editing' \in {"form", "no"}
    /\ submitted' = {}
    /\ UNCHANGED value

\* A script of the page sets the value, whatever the form does.
SetValue ==
    /\ value' \in Values
    /\ UNCHANGED <<editing, submitted>>

\* What becomes of a form, which is all that may change the value but for scripts.
FormStep == Open \/ Close \/ Submit \/ Accept \/ Store \/ Refuse

Next == FormStep \/ SetValue

Spec == Init /\ [][Next]_vars
=============================================================================
