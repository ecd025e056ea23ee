---------------------------- MODULE MCListSource -----------------------------
(***************************************************************************)
(* ListSource for TLC: two inputs, a url that holds a list or no list, and *)
(* a list in the page; their items are of every kind that makeArray tells  *)
(* apart.                                                                  *)
(***************************************************************************)
EXTENDS ListSource, TLC

CONSTANTS i1, i2, u1, a1, v1, v2, p1

List(items) == [kind |-> "list", items |-> items]
InItem(v, t) == [kind |-> "item", value |-> v, text |-> t]

MCInitial == [i \in Inputs |-> v1]

MCTexts == {"one", "two", "again", "more", v1, p1}

MCPrepend == [i \in Inputs |-> IF i = i1 THEN p1 ELSE Null]

MCAnswers ==
    (u1 :> {List(<<[kind |-> "single", key |-> v1, text |-> "one"],
                   [kind |-> "group", text |-> "more",
                    children |-> <<InItem(v2, "two"), InItem(v1, "again")>>]>>),
            [kind |-> "string"]}) @@
    (a1 :> {List(<<[kind |-> "text", text |-> v1]>>)})
=============================================================================
