------------------------------ MODULE Bookmarks ------------------------------
(***************************************************************************)
(* The bookmark editor: requests, each in a thread of the web server, that *)
(* name a bookmark by its path and have the node's bookmark manager change *)
(* it, and store what it has. The manager is the node's: what it does is   *)
(* modelled from how the editor uses it, one call at a time.               *)
(***************************************************************************)
EXTENDS Naturals, FiniteSets, SequencesExt

CONSTANTS
    Requests,
    Asked,          \* what is asked: op, path, name, good (encoding or key), and
                    \* defaults: with the button of the default bookmarks
    Items,          \* bookmarks, those of the beginning and those that are added
    Listed,         \* those of the beginning, in order
    Paths,          \* of bookmarks; names that hold a slash are Slash
    FirstPath,      \* Items -> Paths
    Slash,
    Default,        \* the bookmark that the button of the default bookmarks adds
    None,
    MaxCrashes      \* bound: how often the node crashes

ASSUME BookmarksAssumption ==
    /\ \A a \in Asked :
           /\ a.op \in {"edit", "rename", "add", "remove", "move", "none"}
           /\ a.path \in Paths /\ a.name \in Paths \cup {Slash} /\ a.good \in BOOLEAN
           /\ a.defaults \in IF a.op = "none" THEN {TRUE}
                             ELSE IF a.op \in {"remove", "move"} THEN {FALSE} ELSE BOOLEAN
    /\ Listed \in Seq(Items) /\ IsInjective(Listed) /\ Default \in Items \ Range(Listed)
    /\ FirstPath \in [Items -> Paths \cup {Slash}]
    /\ None \notin Items \cup Requests /\ MaxCrashes \in Nat

VARIABLES
    memory,         \* the manager's bookmarks: order, path and contents (the last edit) of each
    disk,           \* as last stored
    request,
    pc,
    found,          \* the bookmark that a request looked up
    renamed,        \* the one that it renamed
    answer,         \* "none", "editor", "error", "failed", or "lost" in a crash
    \* History:
    unstored,       \* requests with a change that is not on the disk
    changed,        \* requests whose action changed something
    raced,          \* edits during which another request changed a bookmark
    crashes

vars == <<memory, disk, request, pc, found, renamed, answer, unstored, changed, raced, crashes>>

-----------------------------------------------------------------------------
\* The bookmark manager.

\* The bookmark at a path. Names may be given twice; which of them is found is up to
\* the manager.
Named(path) == {i \in Items : i \in Range(memory.order) /\ memory.path[i] = path}

\* Mutant: the path is not looked at.
AtAny(path) == IF memory.order = <<>> THEN None ELSE Head(memory.order)

At(path) == IF Named(path) = {} THEN None ELSE CHOOSE i \in Named(path) : TRUE

\* Where a bookmark is in the list, if it is there.
Where(item) == {n \in DOMAIN memory.order : memory.order[n] = item}

Removed(item) ==
    IF Where(item) = {} THEN memory
    ELSE [memory EXCEPT !.order = RemoveAt(@, CHOOSE n \in Where(item) : TRUE)]

Added(item, path) == [memory EXCEPT !.order = Append(@, item), !.path[item] = path]
Renamed(item, path) == [memory EXCEPT !.path[item] = path]
Updated(item, r) == [memory EXCEPT !.text[item] = r]

\* moveBookmarkUp and moveBookmarkDown, where there is a neighbour
Moves(item) ==
    LET order == memory.order
    IN  { [memory EXCEPT !.order = [order EXCEPT ![n] = order[n + 1], ![n + 1] = order[n]]] :
              n \in {n \in 1 .. Len(order) - 1 : item \in {order[n], order[n + 1]}} }

\* Mutant: a bookmark is added once more.
UnusedAny == Items \ {Default}

Unused == {i \in Items \ {Default} : i \notin Range(memory.order)}

-----------------------------------------------------------------------------
Init ==
    /\ memory = [order |-> Listed, path |-> FirstPath, text |-> [i \in Items |-> None]]
    /\ disk = memory
    /\ request \in [Requests -> Asked]
    /\ pc = [r \in Requests |-> "sent"]
    /\ found = [r \in Requests |-> None] /\ renamed = found
    /\ answer = [r \in Requests |-> "none"]
    /\ unstored = {} /\ changed = {} /\ raced = {}
    /\ crashes = 0

\* The button of the default bookmarks comes before the action of the same request.
Begins(r, ops) ==
    /\ pc[r] = IF request[r].defaults THEN "defaulted" ELSE "sent"
    /\ request[r].op \in ops
Goto(r, step) == pc' = [pc EXCEPT ![r] = step]
Answer(r, a) == answer' = [answer EXCEPT ![r] = a] /\ Goto(r, "done")

\* Request r makes m of the manager's bookmarks.
Put(r, m) ==
    /\ memory' = m
    /\ IF m = memory THEN UNCHANGED <<unstored, raced>>
       ELSE /\ unstored' = unstored \cup {r}
            /\ raced' = raced \cup {s \in Requests \ {r} : pc[s] \in {"looked up", "renamed"}}
    /\ UNCHANGED <<disk, request, crashes>>

\* The action of request r does.
Change(r, m) ==
    /\ Put(r, m)
    /\ changed' = IF m = memory THEN changed ELSE changed \cup {r}

NoChange == UNCHANGED <<memory, disk, request, unstored, changed, raced, crashes>>

\* reAddDefaultBookmarks, which stores nothing; the request goes on with its action.
AddDefaults(r) ==
    /\ pc[r] = "sent" /\ request[r].defaults
    /\ Put(r, IF Default \in Range(memory.order) THEN memory
              ELSE Added(Default, FirstPath[Default]))
    /\ IF request[r].op = "none" THEN Answer(r, "editor")
       ELSE Goto(r, "defaulted") /\ UNCHANGED answer
    /\ UNCHANGED <<found, renamed, changed>>

\* postReqReturnErrorPage: the key of an item, or the path, cannot be read.
Refuse(r) ==
    /\ Begins(r, {"edit", "rename", "add"}) /\ ~request[r].good
    /\ Answer(r, "error")
    /\ NoChange /\ UNCHANGED <<found, renamed>>

\* doGet goes on after the redirect to the error page, with a path that names nothing,
\* and stores; the second redirect fails.
GetUnread(r) ==
    /\ Begins(r, {"remove", "move"}) /\ ~request[r].good
    /\ disk' = memory /\ unstored' = {}
    /\ Answer(r, "failed")
    /\ UNCHANGED <<memory, request, found, renamed, changed, raced, crashes>>

\* editBookmark looks the bookmark up and has it renamed by its path, which looks it up
\* once more and fails where there is none any more; then it updates the one found first.
EditLookup(r) ==
    /\ Begins(r, {"edit", "rename"}) /\ request[r].good
    /\ found' = [found EXCEPT ![r] = At(request[r].path)]
    /\ Goto(r, "looked up")
    /\ NoChange /\ UNCHANGED <<renamed, answer>>

EditRename(r) ==
    /\ pc[r] = "looked up" /\ At(request[r].path) # None
    /\ renamed' = [renamed EXCEPT ![r] = At(request[r].path)]
    /\ Change(r, Renamed(renamed'[r], request[r].name))
    /\ Goto(r, "renamed")
    /\ UNCHANGED <<found, answer>>

EditFails(r) ==
    /\ pc[r] = "looked up" /\ At(request[r].path) = None
    /\ Answer(r, "failed")
    /\ NoChange /\ UNCHANGED <<found, renamed>>

\* A category has no more than its name.
EditUpdate(r) ==
    /\ pc[r] = "renamed"
    /\ Change(r, IF request[r].op = "edit" /\ found[r] # None THEN Updated(found[r], r) ELSE memory)
    /\ Goto(r, "changed")
    /\ UNCHANGED <<found, renamed, answer>>

\* addBookmarkItem and addCategory store nothing if they refuse a name.
Add(r) ==
    /\ Begins(r, {"add"}) /\ request[r].good
    /\ IF request[r].name = Slash
       THEN /\ Answer(r, "editor") /\ NoChange /\ UNCHANGED <<found, renamed>>
       ELSE /\ \E item \in Unused : Change(r, Added(item, request[r].name))
            /\ Goto(r, "changed") /\ UNCHANGED <<found, renamed, answer>>

Delete(r) ==
    /\ Begins(r, {"remove"}) /\ request[r].good
    /\ Change(r, Removed(At(request[r].path)))
    /\ Goto(r, "changed")
    /\ UNCHANGED <<found, renamed, answer>>

Move(r) ==
    LET moves == Moves(At(request[r].path))
    IN  /\ Begins(r, {"move"}) /\ request[r].good
        /\ \E m \in IF moves = {} THEN {memory} ELSE moves : Change(r, m)
        /\ Goto(r, "changed")
        /\ UNCHANGED <<found, renamed, answer>>

\* Mutant: the redirect without storing.
StoreNothing(r) ==
    /\ pc[r] = "changed"
    /\ Answer(r, "editor")
    /\ NoChange /\ UNCHANGED <<found, renamed>>

\* storeBookmarks, and the redirect to the editor.
Store(r) ==
    /\ pc[r] = "changed"
    /\ disk' = memory /\ unstored' = {}
    /\ Answer(r, "editor")
    /\ UNCHANGED <<memory, request, found, renamed, changed, raced, crashes>>

\* The node stops and starts again with what is on the disk.
Crash ==
    /\ crashes < MaxCrashes /\ crashes' = crashes + 1
    /\ memory' = disk
    /\ pc' = [r \in Requests |-> IF pc[r] = "sent" THEN "sent" ELSE "done"]
    /\ answer' = [r \in Requests |->
                      IF pc[r] \in {"sent", "done"} THEN answer[r] ELSE "lost"]
    /\ UNCHANGED <<disk, request, found, renamed, unstored, changed, raced>>

Next ==
    \/ \E r \in Requests :
           \/ AddDefaults(r) \/ Refuse(r) \/ GetUnread(r)
           \/ EditLookup(r) \/ EditRename(r) \/ EditFails(r) \/ EditUpdate(r)
           \/ Add(r) \/ Delete(r) \/ Move(r) \/ Store(r)
    \/ Crash

Spec == Init /\ [][Next]_vars

-----------------------------------------------------------------------------
Stores == [order : Seq(Items), path : [Items -> Paths \cup {Slash}],
           text : [Items -> Requests \cup {None}]]

\* Type invariant: every variable has its type, and no bookmark is listed twice.
TypeOK ==
    /\ memory \in Stores /\ disk \in Stores
    /\ Cardinality(Range(memory.order)) = Len(memory.order)
    /\ request \in [Requests -> Asked]
    /\ pc \in [Requests -> {"sent", "defaulted", "looked up", "renamed", "changed", "done"}]
    /\ found \in [Requests -> Items \cup {None}] /\ renamed \in [Requests -> Items \cup {None}]
    /\ answer \in [Requests -> {"none", "editor", "error", "failed", "lost"}]
    /\ unstored \subseteq Requests /\ changed \subseteq Requests /\ raced \subseteq Requests
    /\ crashes \in 0 .. MaxCrashes

\* A request that is answered by the editor has the change of its action on the disk,
\* whatever others store meanwhile; one that is answered by the error page, or fails, has
\* changed nothing, unless it had the default bookmarks added before its action failed.
AnswersTrue ==
    \A r \in Requests :
        /\ answer[r] = "editor" => r \notin changed \cap unstored
        /\ answer[r] \in {"error", "failed"} =>
               r \notin changed /\ (r \in unstored => request[r].defaults)

\* An edit changes the contents of the bookmark that it renames, unless another request
\* came between; and that is the bookmark that was at the path when the pages were made,
\* unless another has been renamed to that path or added there.
Retaken(path) == \E r \in changed : request[r].op \in {"edit", "rename", "add"} /\ request[r].name = path
EditsWhatWasShown ==
    \A r \in Requests :
        renamed[r] # None =>
            /\ r \in raced \/ found[r] = renamed[r]
            /\ Retaken(request[r].path) \/ FirstPath[renamed[r]] = request[r].path
=============================================================================
