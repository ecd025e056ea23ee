----------------------------- MODULE MCFrontend ------------------------------
(* Small instances of Frontend for TLC. *)
EXTENDS Frontend, TLC

CONSTANTS q1, q2, inside, outside

Symmetry == Permutations(Navigations)

below(first) == [first |-> first, more |-> TRUE, edition |-> 0]
key(e) == [first |-> "key", more |-> FALSE, edition |-> e]

\* One address of every kind: each servlet, with and without wildcard, and Root's.
AllAddresses ==
    {to(""), below("plugins"), to("test"), below("test"), below("static"), to("error"),
     to("malformed"), to("other"), key(0), key(1)}

AnyAddresses == {to(""), below("static"), to("malformed"), key(0)}

FewAddresses == {to(""), below("static"), key(0)}

\* An address, a subnet that holds every client, a host name and nonsense.
Matched == [address |-> {inside}, subnet |-> {inside, outside}]
SomeLists == {{"address", "name"}, {"subnet"}, {"nonsense"}}
OneList == {{"address"}}
=============================================================================
