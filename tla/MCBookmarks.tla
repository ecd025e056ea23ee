----------------------------- MODULE MCBookmarks -----------------------------
(* Three requests for two bookmarks, from pages made before any of them. *)
EXTENDS Bookmarks, TLC

CONSTANTS r1, r2, r3, i1, i2, i3, i4

MCListed == <<i1, i2>>
MCFirstPath == i1 :> "a" @@ i2 :> "b" @@ i3 :> "c" @@ i4 :> "d"

Ask(op, path, name, good, defaults) ==
    [op |-> op, path |-> path, name |-> name, good |-> good, defaults |-> defaults]
MCAsked ==
    {Ask("edit", path, name, good, FALSE) :
         path \in {"a", "b"}, name \in {"a", "b", "c"}, good \in BOOLEAN}
        \cup {Ask("add", "a", name, TRUE, FALSE) : name \in {"a", Slash}}
        \cup {Ask(op, "a", "a", good, FALSE) : op \in {"remove", "move"}, good \in BOOLEAN}
        \cup {Ask("rename", "b", "a", TRUE, FALSE), Ask("none", "a", "a", TRUE, TRUE)}
        \cup {Ask("edit", "a", "b", good, TRUE) : good \in BOOLEAN}
        \cup {Ask("add", "a", Slash, TRUE, TRUE)}

Symmetry == Permutations(Requests)
=============================================================================
