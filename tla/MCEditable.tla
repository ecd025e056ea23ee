----------------------------- MODULE MCEditable ------------------------------
(***************************************************************************)
(* Editable for TLC: one element with every combination of options, which  *)
(* is opened and sends twice, and two elements with the options that make  *)
(* their forms meet.                                                       *)
(***************************************************************************)
EXTENDS Editable, TLC

CONSTANTS e1, e2, v1, v2, v3

\* What is sent as v1 may be stored as v2.
MCReplies == [v \in Values |-> IF v = v1 THEN {v1, v2} ELSE {v}]

\* Whatever is sent may be stored as any value.
AnyReplies == [v \in Values |-> Values]

AllOptions == Options

Sending(how) == [onblur |-> how, sends |-> TRUE, list |-> FALSE, inline |-> FALSE]
PairOptions ==
    {Sending("cancel"), Sending("submit"),
     [onblur |-> "cancel", sends |-> FALSE, list |-> TRUE, inline |-> TRUE]}

PairSymmetry == Permutations(Elements) \cup Permutations(Values)
=============================================================================
