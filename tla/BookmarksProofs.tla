--------------------------- MODULE BookmarksProofs ---------------------------
(***************************************************************************)
(* Proofs about Bookmarks for any requests, bookmarks, paths and crashes.  *)
(***************************************************************************)
EXTENDS Bookmarks, TLAPS, FiniteSetTheorems, SequenceTheorems

\* The manager's bookmarks, without what is no matter here: their order and contents.
Shaped(m) ==
    /\ m = [order |-> m.order, path |-> m.path, text |-> m.text]
    /\ m.path \in [Items -> Paths \cup {Slash}]

\* A bookmark is where it was when the pages were made, or where a request has put it.
PathsKnown(m) == \A i \in Items : m.path[i] = FirstPath[i] \/ Retaken(m.path[i])

Shapes ==
    /\ Shaped(memory) /\ Shaped(disk)
    /\ request \in [Requests -> Asked]
    /\ pc \in [Requests -> {"sent", "defaulted", "looked up", "renamed", "changed", "done"}]
    /\ found \in [Requests -> Items \cup {None}] /\ renamed \in [Requests -> Items \cup {None}]
    /\ answer \in [Requests -> {"none", "editor", "error", "failed", "lost"}]

\* A request that has not got past its first steps has changed nothing, but for the default
\* bookmarks, and one that is not done has no answer.
Early ==
    /\ \A r \in Requests :
           /\ r \in unstored => r \in changed \/ request[r].defaults
           /\ pc[r] \in {"sent", "defaulted", "looked up"} => r \notin changed /\ renamed[r] = None
           /\ pc[r] = "looked up" => request[r].op \in {"edit", "rename"}
           /\ pc[r] # "done" => answer[r] = "none"

\* What a request looked up is still what is at the path, unless another came between.
StillFound ==
    \A r \in Requests :
        pc[r] = "looked up" => r \in raced \/ found[r] = At(request[r].path)

IInv ==
    /\ Shapes /\ Early /\ StillFound
    /\ PathsKnown(memory) /\ PathsKnown(disk)
    /\ AnswersTrue /\ EditsWhatWasShown

-----------------------------------------------------------------------------
(* The manager.                                                            *)

\* What is at a path is a bookmark of that path.
LEMMA AtPath ==
    ASSUME NEW path
    PROVE  At(path) = None \/ (At(path) \in Items /\ memory.path[At(path)] = path)
BY DEF At, Named

\* No change of the manager's puts a bookmark at another path than the one it is given.
LEMMA PathsChange ==
    ASSUME Shaped(memory), NEW m, NEW path \in Paths \cup {Slash},
           \/ \E item : m \in {Removed(item), Added(item, path), Renamed(item, path)}
           \/ \E item, r : m = Updated(item, r)
           \/ \E item : m \in Moves(item)
           \/ m = memory
    PROVE  Shaped(m) /\ \A i \in Items : m.path[i] \in {memory.path[i], path}
<1>1. CASE \E item : m = Removed(item)
    BY <1>1 DEF Shaped, Removed
<1>2. CASE \E item : m = Added(item, path)
    BY <1>2 DEF Shaped, Added
<1>3. CASE \E item : m = Renamed(item, path)
    BY <1>3 DEF Shaped, Renamed
<1>4. CASE \E item, r : m = Updated(item, r)
    BY <1>4 DEF Shaped, Updated
<1>5. CASE \E item : m \in Moves(item)
    BY <1>5 DEF Shaped, Moves
<1>. QED BY <1>1, <1>2, <1>3, <1>4, <1>5

\* Removing a bookmark changes no path.
LEMMA RemovedPaths ==
    ASSUME Shaped(memory), NEW item
    PROVE  Shaped(Removed(item)) /\ Removed(item).path = memory.path
BY DEF Shaped, Removed

\* While nothing changes the same is found.
LEMMA SameAt ==
    ASSUME UNCHANGED <<memory, request>>, NEW r \in Requests
    PROVE  At(request[r].path)' = At(request[r].path)
BY DEF At, Named

-----------------------------------------------------------------------------
(* What a step of one request does to what is known of all.                *)

\* A change at a path that the request may use keeps what is known of the paths.
LEMMA ChangeKeepsPaths ==
    ASSUME Shapes, PathsKnown(memory), PathsKnown(disk), NEW r \in Requests, NEW m,
           Put(r, m), changed \subseteq changed', Shaped(m),
           \A i \in Items : m.path[i] \in {memory.path[i], FirstPath[i]}
                \/ (/\ m.path[i] = request[r].name /\ request[r].op \in {"edit", "rename", "add"}
                    /\ m # memory => r \in changed')
    PROVE  /\ Shaped(memory)' /\ Shaped(disk)'
           /\ PathsKnown(memory)' /\ PathsKnown(disk)'
<1>1. memory' = m /\ disk' = disk /\ request' = request
    BY DEF Put
<1>2. \A path : Retaken(path) => Retaken(path)'
    BY <1>1 DEF Retaken
<1>3. PathsKnown(disk)'
    BY <1>1, <1>2 DEF PathsKnown
<1>4. CASE m = memory
    BY <1>1, <1>2, <1>3, <1>4 DEF PathsKnown, Shapes, Shaped
<1>5. CASE m # memory
    <2>1. \A path : /\ path = request[r].name /\ request[r].op \in {"edit", "rename", "add"}
                    /\ r \in changed'
              => Retaken(path)'
        BY <1>1, <1>5 DEF Retaken
    <2>2. PathsKnown(memory)'
        BY <1>1, <1>2, <1>5, <2>1 DEF PathsKnown
    <2>. QED BY <1>1, <1>3, <2>2 DEF Shapes, Shaped
<1>. QED BY <1>4, <1>5

\* Nor does it disturb what the other requests have looked up, renamed or answered.
LEMMA ChangeKeepsOthers ==
    ASSUME IInv, NEW r \in Requests, NEW m, Put(r, m), changed' \in {changed, changed \cup {r}},
           NEW s \in Requests, s # r,
           pc'[s] = pc[s], found'[s] = found[s], renamed'[s] = renamed[s], answer'[s] = answer[s]
    PROVE  /\ s \in unstored' => s \in changed' \/ request'[s].defaults
           /\ pc'[s] \in {"sent", "defaulted", "looked up"} => s \notin changed' /\ renamed'[s] = None
           /\ pc'[s] = "looked up" => request'[s].op \in {"edit", "rename"}
           /\ pc'[s] # "done" => answer'[s] = "none"
           /\ pc'[s] = "looked up" => s \in raced' \/ found'[s] = At(request[s].path)'
           /\ answer'[s] = "editor" => s \notin changed' \cap unstored'
           /\ answer'[s] \in {"error", "failed"} => s \notin changed'
           /\ renamed'[s] # None =>
                  /\ s \in raced' \/ found'[s] = renamed'[s]
                  /\ Retaken(request[s].path)' \/ FirstPath[renamed'[s]] = request'[s].path
<1>1. /\ request' = request /\ changed \subseteq changed' /\ raced \subseteq raced'
      /\ changed' \subseteq changed \cup {r} /\ unstored' \subseteq unstored \cup {r}
      /\ memory' # memory => (pc[s] \in {"looked up", "renamed"} => s \in raced')
    BY DEF Put
<1>2. memory' = memory => At(request[s].path)' = At(request[s].path)
    BY <1>1 DEF At, Named
<1>3. \A path : Retaken(path) => Retaken(path)'
    BY <1>1 DEF Retaken
<1>4. pc'[s] = "looked up" => s \in raced' \/ found'[s] = At(request[s].path)'
    BY <1>1, <1>2 DEF IInv, StillFound
<1>5. /\ s \in unstored' => s \in changed' \/ request'[s].defaults
      /\ pc'[s] \in {"sent", "defaulted", "looked up"} => s \notin changed' /\ renamed'[s] = None
      /\ pc'[s] = "looked up" => request'[s].op \in {"edit", "rename"}
      /\ pc'[s] # "done" => answer'[s] = "none"
    BY <1>1 DEF IInv, Early
<1>6. /\ answer'[s] = "editor" => s \notin changed' \cap unstored'
      /\ answer'[s] \in {"error", "failed"} => s \notin changed'
    BY <1>1 DEF IInv, AnswersTrue
<1>7. renamed'[s] # None =>
          /\ s \in raced' \/ found'[s] = renamed'[s]
          /\ Retaken(request[s].path)' \/ FirstPath[renamed'[s]] = request'[s].path
    BY <1>1, <1>3 DEF IInv, EditsWhatWasShown
<1>. QED BY <1>4, <1>5, <1>6, <1>7

\* So a request's change keeps the invariant where it keeps it for the request itself.
LEMMA ChangeStep ==
    ASSUME IInv, NEW r \in Requests, NEW m, Put(r, m), Shaped(m), Shapes',
           changed' \in {changed, changed \cup {r}},
           m # memory => r \in changed' \/ request[r].defaults,
           \A i \in Items : m.path[i] \in {memory.path[i], FirstPath[i]}
                \/ (/\ m.path[i] = request[r].name /\ request[r].op \in {"edit", "rename", "add"}
                    /\ m # memory => r \in changed'),
           \A s \in Requests \ {r} :
               /\ pc'[s] = pc[s] /\ found'[s] = found[s] /\ renamed'[s] = renamed[s]
               /\ answer'[s] = answer[s],
           \/ pc'[r] \in {"renamed", "changed"} /\ answer'[r] = "none"
           \/ /\ r \notin changed' /\ renamed'[r] = None
              /\ \/ pc'[r] = "defaulted" /\ answer'[r] = "none"
                 \/ pc'[r] = "done" /\ answer'[r] = "editor",
           renamed'[r] # None =>
                  /\ r \in raced' \/ found'[r] = renamed'[r]
                  /\ Retaken(request[r].path)' \/ FirstPath[renamed'[r]] = request[r].path
    PROVE  IInv'
<1>1. PathsKnown(memory)' /\ PathsKnown(disk)'
    BY ChangeKeepsPaths DEF IInv
<1>2. request' = request /\ (r \in unstored' => r \in changed' \/ request'[r].defaults)
    BY DEF Put, IInv, Early
<1>3. Early'
    BY <1>2, ChangeKeepsOthers DEF Early
<1>4. StillFound'
    BY ChangeKeepsOthers DEF StillFound
<1>5. AnswersTrue'
    BY <1>2, ChangeKeepsOthers DEF AnswersTrue
<1>6. EditsWhatWasShown'
    <2>1. ASSUME NEW s \in Requests, renamed'[s] # None
          PROVE  /\ s \in raced' \/ found'[s] = renamed'[s]
                 /\ Retaken(request[s].path)' \/ FirstPath[renamed'[s]] = request'[s].path
        <3>1. CASE s = r
            BY <1>2, <2>1, <3>1
        <3>2. CASE s # r
            BY <2>1, <3>2, ChangeKeepsOthers
        <3>. QED BY <3>1, <3>2
    <2>2. request' = request
        BY <1>2
    <2>. QED BY <2>1, <2>2 DEF EditsWhatWasShown, Retaken
<1>. QED BY <1>1, <1>3, <1>4, <1>5, <1>6 DEF IInv

\* It does where the action of the request makes it.
LEMMA Changes == ASSUME NEW r, NEW m, Change(r, m)
    PROVE /\ Put(r, m) /\ changed' \in {changed, changed \cup {r}}
          /\ m # memory => r \in changed'
BY DEF Change

\* A step that changes no bookmark keeps it too.
LEMMA QuietStep ==
    ASSUME IInv, NEW r \in Requests, Shapes',
           UNCHANGED <<memory, request, renamed, changed, raced>>,
           disk' \in {disk, memory}, unstored' \subseteq unstored,
           \A s \in Requests \ {r} :
               pc'[s] = pc[s] /\ found'[s] = found[s] /\ answer'[s] = answer[s],
           pc'[r] = "done" \/ (pc'[r] = "looked up" /\ answer'[r] = "none"),
           pc'[r] = "looked up" =>
               pc[r] \in {"sent", "defaulted"} /\ request[r].op \in {"edit", "rename"}
               /\ found'[r] = At(request[r].path),
           pc'[r] = "done" => found'[r] = found[r],
           answer'[r] = "editor" => r \notin changed \cap unstored',
           answer'[r] \in {"error", "failed"} => r \notin changed
    PROVE  IInv'
<1>1. \A path : Retaken(path)' <=> Retaken(path)
    BY DEF Retaken
<1>7. \A s \in Requests : At(request[s].path)' = At(request[s].path)
    BY SameAt
<1>2. PathsKnown(memory)' /\ PathsKnown(disk)'
    BY <1>1 DEF IInv, PathsKnown
<1>3. Early'
    BY DEF IInv, Early
<1>4. StillFound'
    BY <1>7 DEF IInv, StillFound
<1>5. AnswersTrue'
    BY DEF IInv, AnswersTrue, Early
<1>6. EditsWhatWasShown'
    BY <1>1 DEF IInv, EditsWhatWasShown, Early
<1>. QED BY <1>2, <1>3, <1>4, <1>5, <1>6 DEF IInv

-----------------------------------------------------------------------------
(* The invariant is inductive.                                             *)

\* The editor begins in the invariant.
LEMMA InitInv == Init => IInv
<1> SUFFICES ASSUME Init PROVE IInv
    OBVIOUS
<1>1. Shaped(memory) /\ Shaped(disk)
    BY BookmarksAssumption DEF Init, Shaped
<1>2. Shapes
    BY <1>1 DEF Init, Shapes
<1>3. PathsKnown(memory) /\ PathsKnown(disk)
    BY DEF Init, PathsKnown
<1>. QED BY <1>2, <1>3 DEF Init, IInv, Early, StillFound, AnswersTrue, EditsWhatWasShown

\* The invariant holds after every step: one step of the proof per action.
LEMMA NextInv == IInv /\ [Next]_vars => IInv'
<1> SUFFICES ASSUME IInv, [Next]_vars PROVE IInv'
    OBVIOUS
<1> USE DEF Shapes
<1>0. /\ Shapes /\ Early
      /\ \A r \in Requests : request[r] \in Asked
      /\ \A r \in Requests : request[r].path \in Paths /\ request[r].name \in Paths \cup {Slash}
      /\ \A path : At(path) = None \/ At(path) # None
    BY BookmarksAssumption DEF IInv
<1>1. ASSUME NEW r \in Requests, Refuse(r) PROVE IInv'
    BY <1>0, <1>1, QuietStep DEF Refuse, Begins, Answer, Goto, NoChange, Early
<1>2. ASSUME NEW r \in Requests, GetUnread(r) PROVE IInv'
    BY <1>0, <1>2, QuietStep DEF GetUnread, Begins, Answer, Goto, Early
<1>3. ASSUME NEW r \in Requests, EditLookup(r) PROVE IInv'
    <2>1. /\ pc[r] \in {"sent", "defaulted"} /\ pc' = [pc EXCEPT ![r] = "looked up"]
          /\ found' = [found EXCEPT ![r] = At(request[r].path)]
          /\ UNCHANGED <<memory, disk, request, renamed, answer, unstored, changed, raced>>
          /\ request[r].op \in {"edit", "rename"}
        BY <1>3 DEF EditLookup, Begins, Goto, NoChange
    <2>2. At(request[r].path) \in Items \cup {None}
        BY AtPath
    <2>3. Shapes'
        BY <1>0, <2>1, <2>2 DEF Shaped
    <2>4. answer'[r] = "none" /\ renamed[r] = None
        BY <1>0, <2>1 DEF Early
    <2>. QED BY <1>0, <2>1, <2>3, <2>4, QuietStep
<1>4. ASSUME NEW r \in Requests, EditRename(r) PROVE IInv'
    <2> DEFINE item == At(request[r].path)
    <2> DEFINE m == Renamed(item, request[r].name)
    <2>1. /\ pc[r] = "looked up" /\ pc' = [pc EXCEPT ![r] = "renamed"]
          /\ renamed' = [renamed EXCEPT ![r] = item] /\ Change(r, m)
          /\ UNCHANGED <<found, answer>>
          /\ item \in Items /\ memory.path[item] = request[r].path
        BY <1>0, <1>4, AtPath DEF EditRename, Goto
    <2>2. /\ Shaped(m) /\ \A i \in Items : m.path[i] \in {memory.path[i], request[r].name}
        BY <1>0, PathsChange
    <2>3. request[r].op \in {"edit", "rename"} /\ answer[r] = "none"
        BY <1>0, <2>1 DEF Early
    <2> HIDE DEF m
    <2>4. Shapes' /\ answer'[r] = "none" /\ pc'[r] = "renamed" /\ renamed'[r] = item
        BY <1>0, <2>1, <2>2, <2>3 DEF Shaped, Change, Put
    <2>5. r \in raced' \/ found'[r] = renamed'[r]
        BY <2>1, <2>4 DEF IInv, StillFound, Change, Put
    <2>6. Retaken(request[r].path)' \/ FirstPath[item] = request[r].path
        <3>1. FirstPath[item] = request[r].path \/ Retaken(request[r].path)
            BY <2>1 DEF IInv, PathsKnown
        <3>2. request' = request /\ changed \subseteq changed'
            BY <2>1 DEF Change, Put
        <3>. QED BY <3>1, <3>2 DEF Retaken
    <2> HIDE DEF item
    <2>. QED BY <1>0, <2>1, <2>2, <2>3, <2>4, <2>5, <2>6, Changes, ChangeStep
<1>5. ASSUME NEW r \in Requests, EditFails(r) PROVE IInv'
    <2>1. /\ pc[r] = "looked up" /\ pc' = [pc EXCEPT ![r] = "done"]
          /\ answer' = [answer EXCEPT ![r] = "failed"]
          /\ UNCHANGED <<memory, disk, request, found, renamed, unstored, changed, raced>>
        BY <1>5 DEF EditFails, Answer, Goto, NoChange
    <2>2. Shapes' /\ r \notin changed /\ answer'[r] = "failed" /\ pc'[r] = "done"
        BY <1>0, <2>1 DEF Shaped, Early
    <2>. QED BY <1>0, <2>1, <2>2, QuietStep
<1>6. ASSUME NEW r \in Requests, EditUpdate(r) PROVE IInv'
    <2> DEFINE m == IF request[r].op = "edit" /\ found[r] # None
                    THEN Updated(found[r], r) ELSE memory
    <2>1. /\ pc[r] = "renamed" /\ pc' = [pc EXCEPT ![r] = "changed"] /\ Change(r, m)
          /\ UNCHANGED <<found, renamed, answer>>
        BY <1>6 DEF EditUpdate, Goto
    <2>2. Shaped(m) /\ \A i \in Items : m.path[i] = memory.path[i]
        BY <1>0 DEF Updated, Shaped
    <2> HIDE DEF m
    <2>3. Shapes' /\ answer'[r] = "none" /\ pc'[r] = "changed"
        BY <1>0, <2>1, <2>2 DEF Shaped, Early, Change, Put
    <2>4. renamed'[r] # None =>
              /\ r \in raced' \/ found'[r] = renamed'[r]
              /\ Retaken(request[r].path)' \/ FirstPath[renamed'[r]] = request[r].path
        BY <1>0, <2>1 DEF IInv, EditsWhatWasShown, Change, Put, Retaken
    <2>. QED BY <1>0, <2>1, <2>2, <2>3, <2>4, Changes, ChangeStep
<1>7. ASSUME NEW r \in Requests, Add(r) PROVE IInv'
    <2>1. request[r].op = "add" /\ answer[r] = "none"
          /\ renamed[r] = None /\ r \notin changed
        BY <1>0, <1>7 DEF Add, Begins, Early
    <2>2. CASE request[r].name = Slash
        <3>1. /\ pc' = [pc EXCEPT ![r] = "done"] /\ answer' = [answer EXCEPT ![r] = "editor"]
              /\ UNCHANGED <<memory, disk, request, found, renamed, unstored, changed, raced>>
            BY <1>7, <2>2 DEF Add, Answer, Goto, NoChange
        <3>2. Shapes' /\ answer'[r] = "editor" /\ pc'[r] = "done"
            BY <1>0, <3>1 DEF Shaped
        <3>. QED BY <1>0, <2>1, <3>1, <3>2, QuietStep
    <2>3. CASE request[r].name # Slash
        <3>1. PICK item \in Unused : Change(r, Added(item, request[r].name))
            BY <1>7, <2>3 DEF Add
        <3> DEFINE m == Added(item, request[r].name)
        <3>2. /\ pc' = [pc EXCEPT ![r] = "changed"] /\ UNCHANGED <<found, renamed, answer>>
            BY <1>7, <2>3 DEF Add, Goto
        <3>3. /\ Shaped(m) /\ \A i \in Items : m.path[i] \in {memory.path[i], request[r].name}
            BY <1>0, PathsChange
        <3> HIDE DEF m
        <3>4. Change(r, m)
            BY <3>1 DEF m
        <3>5. Shapes' /\ answer'[r] = "none" /\ pc'[r] = "changed" /\ renamed'[r] = None
            BY <1>0, <2>1, <3>2, <3>3, <3>4 DEF Shaped, Change, Put
        <3>. QED BY <1>0, <2>1, <3>2, <3>3, <3>4, <3>5, Changes, ChangeStep
    <2>. QED BY <2>2, <2>3
<1>8. ASSUME NEW r \in Requests, Delete(r) PROVE IInv'
    <2> DEFINE m == Removed(At(request[r].path))
    <2>1. /\ pc' = [pc EXCEPT ![r] = "changed"] /\ Change(r, m)
          /\ UNCHANGED <<found, renamed, answer>>
          /\ answer[r] = "none" /\ renamed[r] = None
        BY <1>0, <1>8 DEF Delete, Begins, Goto, Early
    <2>2. Shaped(m) /\ \A i \in Items : m.path[i] = memory.path[i]
        BY <1>0, RemovedPaths
    <2> HIDE DEF m
    <2>3. Shapes' /\ answer'[r] = "none" /\ pc'[r] = "changed" /\ renamed'[r] = None
        BY <1>0, <2>1, <2>2 DEF Shaped, Change, Put
    <2>. QED BY <1>0, <2>1, <2>2, <2>3, Changes, ChangeStep
<1>9. ASSUME NEW r \in Requests, Move(r) PROVE IInv'
    <2> DEFINE moves == Moves(At(request[r].path))
    <2>1. PICK m \in IF moves = {} THEN {memory} ELSE moves : Change(r, m)
        BY <1>9 DEF Move
    <2>2. /\ pc' = [pc EXCEPT ![r] = "changed"] /\ UNCHANGED <<found, renamed, answer>>
          /\ answer[r] = "none" /\ renamed[r] = None
        BY <1>0, <1>9 DEF Move, Begins, Goto, Early
    <2>3. Shaped(m) /\ \A i \in Items : m.path[i] = memory.path[i]
        BY <1>0 DEF Moves, Shaped
    <2> HIDE DEF moves
    <2>4. Shapes' /\ answer'[r] = "none" /\ pc'[r] = "changed" /\ renamed'[r] = None
        BY <1>0, <2>1, <2>2, <2>3 DEF Shaped, Change, Put
    <2>. QED BY <1>0, <2>1, <2>2, <2>3, <2>4, Changes, ChangeStep
<1>10. ASSUME NEW r \in Requests, Store(r) PROVE IInv'
    <2>1. /\ pc[r] = "changed" /\ pc' = [pc EXCEPT ![r] = "done"]
          /\ answer' = [answer EXCEPT ![r] = "editor"]
          /\ disk' = memory /\ unstored' = {}
          /\ UNCHANGED <<memory, request, found, renamed, changed, raced>>
        BY <1>10 DEF Store, Answer, Goto
    <2>2. Shapes' /\ answer'[r] = "editor" /\ pc'[r] = "done"
        BY <1>0, <2>1 DEF Shaped
    <2>. QED BY <1>0, <2>1, <2>2, QuietStep
<1>11. ASSUME NEW r \in Requests, AddDefaults(r) PROVE IInv'
    <2> DEFINE m == IF Default \in Range(memory.order) THEN memory
                    ELSE Added(Default, FirstPath[Default])
    <2>1. /\ pc[r] = "sent" /\ request[r].defaults /\ Put(r, m)
          /\ UNCHANGED <<found, renamed, changed>>
          /\ \/ answer' = [answer EXCEPT ![r] = "editor"] /\ pc' = [pc EXCEPT ![r] = "done"]
             \/ UNCHANGED answer /\ pc' = [pc EXCEPT ![r] = "defaulted"]
        BY <1>11 DEF AddDefaults, Answer, Goto
    <2>2. Shaped(m) /\ \A i \in Items : m.path[i] \in {memory.path[i], FirstPath[i]}
        BY <1>0, BookmarksAssumption DEF Added, Shaped
    <2> HIDE DEF m
    <2>3. renamed[r] = None /\ r \notin changed /\ answer[r] = "none"
        BY <1>0, <2>1 DEF Early
    <2>4. Shapes'
        BY <1>0, <2>1, <2>2 DEF Shaped, Put
    <2>5. \/ pc'[r] = "defaulted" /\ answer'[r] = "none"
          \/ pc'[r] = "done" /\ answer'[r] = "editor"
        BY <1>0, <2>1, <2>3
    <2>. QED BY <1>0, <2>1, <2>2, <2>3, <2>4, <2>5, ChangeStep
<1>12. ASSUME Crash PROVE IInv'
    <2>1. /\ memory' = disk
          /\ pc' = [r \in Requests |-> IF pc[r] = "sent" THEN "sent" ELSE "done"]
          /\ answer' = [r \in Requests |->
                            IF pc[r] \in {"sent", "done"} THEN answer[r] ELSE "lost"]
          /\ UNCHANGED <<disk, request, found, renamed, unstored, changed, raced>>
        BY <1>12 DEF Crash
    <2>2. \A path : Retaken(path)' <=> Retaken(path)
        BY <2>1 DEF Retaken
    <2>3. Shapes'
        BY <1>0, <2>1 DEF Shaped
    <2>4. PathsKnown(memory)' /\ PathsKnown(disk)'
        BY <2>1, <2>2 DEF IInv, PathsKnown
    <2>5. Early' /\ StillFound' /\ AnswersTrue'
        BY <2>1 DEF IInv, Early, StillFound, AnswersTrue
    <2>6. EditsWhatWasShown'
        BY <2>1, <2>2 DEF IInv, EditsWhatWasShown
    <2>. QED BY <2>3, <2>4, <2>5, <2>6 DEF IInv
<1>13. CASE UNCHANGED vars
    <2>1. \A path : Retaken(path)' <=> Retaken(path)
        BY <1>13 DEF vars, Retaken
    <2>2. \A r \in Requests : At(request[r].path)' = At(request[r].path)
        BY <1>13, SameAt DEF vars
    <2>3. Shapes' /\ Early' /\ AnswersTrue'
        BY <1>0, <1>13 DEF vars, Shaped, Early, IInv, AnswersTrue
    <2>4. StillFound'
        BY <1>13, <2>2 DEF vars, IInv, StillFound
    <2>5. PathsKnown(memory)' /\ PathsKnown(disk)' /\ EditsWhatWasShown'
        BY <1>13, <2>1 DEF vars, IInv, PathsKnown, EditsWhatWasShown
    <2>. QED BY <2>3, <2>4, <2>5 DEF IInv
<1>. QED BY <1>1, <1>2, <1>3, <1>4, <1>5, <1>6, <1>7, <1>8, <1>9, <1>10, <1>11, <1>12, <1>13
         DEF Next

-----------------------------------------------------------------------------
(* No bookmark is listed twice.                                            *)

Stored(m) == m \in Stores /\ IsInjective(m.order)

TypeInv == TypeOK /\ Stored(memory) /\ Stored(disk)

\* A sequence without one of its elements.
LEMMA WithoutOne ==
    ASSUME NEW S, NEW s \in Seq(S), NEW n \in 1 .. Len(s)
    PROVE  /\ RemoveAt(s, n) \in Seq(S) /\ Len(RemoveAt(s, n)) = Len(s) - 1
           /\ \A k \in 1 .. Len(s) - 1 : RemoveAt(s, n)[k] = IF k < n THEN s[k] ELSE s[k + 1]
<1> DEFINE before == SubSeq(s, 1, n - 1)
           after == SubSeq(s, n + 1, Len(s))
<1>1. Len(s) \in Nat /\ n \in Nat
    OBVIOUS
<1>2. /\ before \in Seq(S) /\ Len(before) = n - 1
      /\ \A k \in 1 .. n - 1 : before[k] = s[k]
    BY <1>1, SubSeqProperties
<1>3. /\ after \in Seq(S) /\ Len(after) = Len(s) - n
      /\ \A k \in 1 .. Len(s) - n : after[k] = s[n + k]
    BY <1>1, SubSeqProperties
<1> HIDE DEF before, after
<1>4. /\ before \o after \in Seq(S) /\ Len(before \o after) = Len(s) - 1
      /\ \A k \in 1 .. Len(s) - 1 :
            (before \o after)[k] = IF k <= n - 1 THEN before[k] ELSE after[k - (n - 1)]
    <2> DEFINE both == before \o after
    <2>1. /\ both \in Seq(S) /\ Len(both) = Len(before) + Len(after)
          /\ \A k \in 1 .. Len(before) + Len(after) :
                both[k] = IF k <= Len(before) THEN before[k] ELSE after[k - Len(before)]
        BY <1>2, <1>3, ConcatProperties
    <2>2. Len(before) + Len(after) = Len(s) - 1
        BY <1>1, <1>2, <1>3
    <2> HIDE DEF both
    <2> QED BY <1>2, <2>1, <2>2 DEF both
<1>5. ASSUME NEW k \in 1 .. Len(s) - 1
      PROVE  (before \o after)[k] = IF k < n THEN s[k] ELSE s[k + 1]
    <2>1. CASE k < n
        BY <1>1, <1>2, <1>4, <2>1
    <2>2. CASE ~(k < n)
        <3>1. k - (n - 1) \in 1 .. Len(s) - n /\ n + (k - (n - 1)) = k + 1
            BY <1>1, <2>2
        <3> QED BY <1>1, <1>3, <1>4, <2>2, <3>1
    <2> QED BY <2>1, <2>2
<1> QED BY <1>4, <1>5 DEF RemoveAt, before, after

\* The manager lists a bookmark at most once, also after it removed, added or moved one.
LEMMA RemovedStored ==
    ASSUME Stored(memory), NEW item
    PROVE  Stored(Removed(item))
<1>1. CASE Where(item) = {}
    BY <1>1 DEF Removed
<1>2. CASE Where(item) # {}
    <2> DEFINE order == memory.order
               n == CHOOSE n \in Where(item) : TRUE
               rest == RemoveAt(order, n)
    <2>1. order \in Seq(Items) /\ IsInjective(order)
        BY DEF Stored, Stores
    <2>2. n \in 1 .. Len(order)
        BY <1>2, <2>1 DEF Where
    <2>3. Removed(item) = [memory EXCEPT !.order = rest]
        BY <1>2 DEF Removed
    <2> HIDE DEF order, n
    <2>4. /\ rest \in Seq(Items) /\ Len(rest) = Len(order) - 1
          /\ \A k \in 1 .. Len(order) - 1 : rest[k] = IF k < n THEN order[k] ELSE order[k + 1]
        BY <2>1, <2>2, WithoutOne
    <2> HIDE DEF rest
    <2>5. IsInjective(rest)
        <3>1. DOMAIN rest = 1 .. Len(order) - 1 /\ DOMAIN order = 1 .. Len(order) /\ Len(order) \in Nat
            BY <2>1, <2>4
        <3>2. ASSUME NEW k \in DOMAIN rest, NEW l \in DOMAIN rest, rest[k] = rest[l]
              PROVE  k = l
            <4> DEFINE from(x) == IF x < n THEN x ELSE x + 1
            <4>1. from(k) \in DOMAIN order /\ from(l) \in DOMAIN order
                BY <2>2, <3>1
            <4>2. order[from(k)] = order[from(l)]
                BY <2>4, <3>1, <3>2
            <4>3. from(k) = from(l)
                <5> HIDE DEF from
                <5> QED BY <2>1, <4>1, <4>2 DEF IsInjective
            <4> QED BY <2>2, <3>1, <4>3
        <3> QED BY <3>2 DEF IsInjective
    <2> QED BY <2>3, <2>4, <2>5 DEF Stored, Stores
<1> QED BY <1>1, <1>2

LEMMA AddedStored ==
    ASSUME Stored(memory), NEW item \in Items, item \notin Range(memory.order),
           NEW path \in Paths \cup {Slash}
    PROVE  Stored(Added(item, path))
<1> DEFINE order == memory.order
           longer == Append(order, item)
<1>1. order \in Seq(Items) /\ IsInjective(order)
    BY DEF Stored, Stores
<1>2. \A k \in DOMAIN order : order[k] # item
    BY DEF Range
<1> HIDE DEF order
<1>3. /\ longer \in Seq(Items) /\ Len(order) \in Nat
      /\ DOMAIN order = 1 .. Len(order) /\ DOMAIN longer = 1 .. Len(order) + 1
      /\ \A k \in 1 .. Len(order) : longer[k] = order[k]
      /\ longer[Len(order) + 1] = item
    BY <1>1
<1>4. \A k \in DOMAIN longer : k \in DOMAIN order \/ k = Len(order) + 1
    BY <1>3
<1> HIDE DEF longer
<1>5. IsInjective(longer)
    BY <1>1, <1>2, <1>3, <1>4 DEF IsInjective
<1>6. Added(item, path) = [memory EXCEPT !.order = longer, !.path[item] = path]
    BY DEF Added, order, longer
<1>7. Added(item, path) = [order |-> longer, path |-> [memory.path EXCEPT ![item] = path],
                           text |-> memory.text]
    BY <1>6 DEF Stored, Stores
<1> QED BY <1>3, <1>5, <1>7 DEF Stored, Stores

LEMMA MovedStored ==
    ASSUME Stored(memory), NEW item, NEW m \in Moves(item)
    PROVE  Stored(m)
<1> DEFINE order == memory.order
<1>1. order \in Seq(Items) /\ IsInjective(order)
    BY DEF Stored, Stores
<1>2. PICK n \in 1 .. Len(order) - 1 :
          m = [memory EXCEPT !.order = [order EXCEPT ![n] = order[n + 1], ![n + 1] = order[n]]]
    BY DEF Moves
<1> DEFINE swapped == [order EXCEPT ![n] = order[n + 1], ![n + 1] = order[n]]
<1>3. m = [memory EXCEPT !.order = swapped]
    BY <1>2
<1> HIDE DEF order
<1>4. Len(order) \in Nat /\ DOMAIN order = 1 .. Len(order) /\ DOMAIN swapped = 1 .. Len(order)
      /\ n \in DOMAIN order /\ n + 1 \in DOMAIN order /\ n # n + 1
    BY <1>1
<1>5. \A k \in DOMAIN order : swapped[k] = IF k = n + 1 THEN order[n]
                                           ELSE IF k = n THEN order[n + 1] ELSE order[k]
    BY <1>4
<1>6. swapped = [k \in 1 .. Len(order) |-> swapped[k]] /\ \A k \in 1 .. Len(order) : swapped[k] \in Items
    <2>1. \A k \in 1 .. Len(order) : swapped[k] \in Items
        BY <1>1, <1>4, <1>5
    <2>2. swapped = [k \in DOMAIN order |-> swapped[k]]
        OBVIOUS
    <2> QED BY <1>4, <2>1, <2>2
<1> HIDE DEF swapped
<1>7. swapped \in Seq(Items)
    BY <1>4, <1>6
<1>8. IsInjective(swapped)
    BY <1>1, <1>4, <1>5 DEF IsInjective
<1> QED BY <1>3, <1>7, <1>8 DEF Stored, Stores

LEMMA RenamedStored ==
    ASSUME Stored(memory), NEW item \in Items, NEW path \in Paths \cup {Slash}
    PROVE  Stored(Renamed(item, path))
BY DEF Stored, Stores, Renamed

LEMMA UpdatedStored ==
    ASSUME Stored(memory), NEW item \in Items, NEW r \in Requests
    PROVE  Stored(Updated(item, r))
BY DEF Stored, Stores, Updated

\* Without a bookmark that is listed twice, there are as many as the list is long.
LEMMA StoredCounts ==
    ASSUME NEW m, Stored(m)
    PROVE  Cardinality(Range(m.order)) = Len(m.order)
<1> DEFINE order == m.order
           T == 1 .. Len(order)
<1>1. order \in Seq(Items) /\ IsInjective(order)
    BY DEF Stored, Stores
<1> HIDE DEF order
<1>2. Len(order) \in Nat /\ DOMAIN order = T
    BY <1>1
<1>3. order \in Bijection(T, Range(order))
    <2>1. order \in [T -> Range(order)] /\ \A y \in Range(order) : \E x \in T : order[x] = y
        BY <1>1, <1>2 DEF Range
    <2> QED BY <1>1, <1>2, <2>1 DEF Bijection, Injection, Surjection, IsInjective
<1>4. IsFiniteSet(T) /\ Cardinality(T) = Len(order)
    <2>1. /\ IsFiniteSet(1 .. Len(order))
          /\ Cardinality(1 .. Len(order)) = IF 1 > Len(order) THEN 0 ELSE Len(order) - 1 + 1
        BY <1>2, FS_Interval
    <2> QED BY <1>2, <2>1
<1>5. Cardinality(Range(order)) = Cardinality(T)
    BY <1>3, <1>4, FS_Bijection DEF ExistsBijection
<1> QED BY <1>4, <1>5 DEF order

\* The parts of the type invariant that a request's steps may change.
Steps ==
    /\ pc \in [Requests -> {"sent", "defaulted", "looked up", "renamed", "changed", "done"}]
    /\ found \in [Requests -> Items \cup {None}] /\ renamed \in [Requests -> Items \cup {None}]
    /\ answer \in [Requests -> {"none", "editor", "error", "failed", "lost"}]
Bookkeeping ==
    /\ request \in [Requests -> Asked]
    /\ unstored \subseteq Requests /\ changed \subseteq Requests /\ raced \subseteq Requests
    /\ crashes \in 0 .. MaxCrashes

LEMMA TypeParts == Steps /\ Bookkeeping /\ Stored(memory) /\ Stored(disk) <=> TypeInv
BY StoredCounts DEF Steps, Bookkeeping, Stored, TypeInv, TypeOK

LEMMA TypePartsNext == (Steps /\ Bookkeeping /\ Stored(memory) /\ Stored(disk) => TypeInv)'
BY TypeParts, PTL

LEMMA ChangeTyped ==
    ASSUME TypeInv, NEW r \in Requests, NEW m, Stored(m), Put(r, m), changed' \subseteq Requests
    PROVE  Bookkeeping' /\ Stored(memory)' /\ Stored(disk)'
<1>1. memory' = m /\ disk' = disk /\ request' = request /\ crashes' = crashes
    BY DEF Put
<1>2. unstored' \subseteq Requests /\ raced' \subseteq Requests
    BY DEF Put, TypeInv, TypeOK
<1> QED BY <1>1, <1>2 DEF TypeInv, TypeOK, Bookkeeping, Stored

LEMMA NoChangeTyped ==
    ASSUME TypeInv, NoChange
    PROVE  Bookkeeping' /\ Stored(memory)' /\ Stored(disk)'
BY DEF TypeInv, TypeOK, NoChange, Bookkeeping, Stored

LEMMA StoreTyped ==
    ASSUME TypeInv, disk' = memory, unstored' = {},
           UNCHANGED <<memory, request, changed, raced, crashes>>
    PROVE  Bookkeeping' /\ Stored(memory)' /\ Stored(disk)'
BY DEF TypeInv, TypeOK, Bookkeeping, Stored

LEMMA ChangedTyped ==
    ASSUME TypeInv, NEW r \in Requests, NEW m, Change(r, m)
    PROVE  Put(r, m) /\ changed' \subseteq Requests
BY DEF Change, TypeInv, TypeOK

LEMMA TypeStep == TypeInv /\ [Next]_vars => TypeInv'
<1> SUFFICES ASSUME TypeInv, [Next]_vars PROVE TypeInv'
    OBVIOUS
<1> USE DEF Goto, Answer, Begins
<1>0. Steps /\ Bookkeeping /\ Stored(memory) /\ Stored(disk)
    BY TypeParts
<1>1. \A path : At(path) \in Items \cup {None}
    BY AtPath
<1>2. \A r \in Requests : request[r].name \in Paths \cup {Slash}
    BY <1>0, BookmarksAssumption DEF Bookkeeping
<1> SUFFICES Steps' /\ Bookkeeping' /\ Stored(memory)' /\ Stored(disk)'
    BY TypePartsNext
<1>3. ASSUME NEW r \in Requests, Refuse(r) \/ EditLookup(r) \/ EditFails(r)
      PROVE  Steps' /\ Bookkeeping' /\ Stored(memory)' /\ Stored(disk)'
    <2>1. NoChange
        BY <1>3 DEF Refuse, EditLookup, EditFails
    <2>2. CASE EditLookup(r)
        <3>1. found' = [found EXCEPT ![r] = At(request[r].path)]
            BY <2>2 DEF EditLookup
        <3>2. found' \in [Requests -> Items \cup {None}]
            BY <1>0, <1>1, <3>1 DEF Steps
        <3>3. Steps'
            BY <1>0, <2>2, <3>2 DEF EditLookup, Steps
        <3> QED BY <2>1, <3>3, NoChangeTyped
    <2>3. CASE Refuse(r) \/ EditFails(r)
        <3>1. Steps'
            BY <1>0, <2>3 DEF Refuse, EditFails, Steps
        <3> QED BY <2>1, <3>1, NoChangeTyped
    <2> QED BY <1>3, <2>2, <2>3
<1>4. ASSUME NEW r \in Requests, GetUnread(r) \/ Store(r)
      PROVE  Steps' /\ Bookkeeping' /\ Stored(memory)' /\ Stored(disk)'
    <2>1. Bookkeeping' /\ Stored(memory)' /\ Stored(disk)'
        BY <1>4, StoreTyped DEF GetUnread, Store
    <2>2. Steps'
        BY <1>0, <1>4 DEF GetUnread, Store, Steps
    <2> QED BY <2>1, <2>2
<1>5. ASSUME NEW r \in Requests, EditRename(r)
      PROVE  Steps' /\ Bookkeeping' /\ Stored(memory)' /\ Stored(disk)'
    <2>1. At(request[r].path) \in Items /\ renamed'[r] = At(request[r].path)
        <3>1. At(request[r].path) # None /\ renamed' = [renamed EXCEPT ![r] = At(request[r].path)]
            BY <1>5 DEF EditRename
        <3>2. renamed \in [Requests -> Items \cup {None}]
            BY <1>0 DEF Steps
        <3> QED BY <1>1, <3>1, <3>2
    <2>2. Stored(Renamed(renamed'[r], request[r].name)) /\ Change(r, Renamed(renamed'[r], request[r].name))
        BY <1>0, <1>2, <1>5, <2>1, RenamedStored DEF EditRename
    <2>3. Bookkeeping' /\ Stored(memory)' /\ Stored(disk)'
        BY <2>2, ChangeTyped, ChangedTyped
    <2>4. Steps'
        BY <1>0, <1>1, <1>5 DEF EditRename, Steps
    <2> QED BY <2>3, <2>4
<1>6. ASSUME NEW r \in Requests, EditUpdate(r)
      PROVE  Steps' /\ Bookkeeping' /\ Stored(memory)' /\ Stored(disk)'
    <2> DEFINE m == IF request[r].op = "edit" /\ found[r] # None THEN Updated(found[r], r) ELSE memory
    <2>1. found[r] \in Items \cup {None} /\ Change(r, m)
        BY <1>0, <1>6 DEF EditUpdate, Steps
    <2>2. Stored(m)
        BY <1>0, <2>1, UpdatedStored
    <2>3. Bookkeeping' /\ Stored(memory)' /\ Stored(disk)'
        BY <2>1, <2>2, ChangeTyped, ChangedTyped
    <2>4. Steps'
        BY <1>0, <1>6 DEF EditUpdate, Steps
    <2> QED BY <2>3, <2>4
<1>7. ASSUME NEW r \in Requests, Add(r)
      PROVE  Steps' /\ Bookkeeping' /\ Stored(memory)' /\ Stored(disk)'
    <2>1. CASE request[r].name = Slash
        <3>1. NoChange
            BY <1>7, <2>1 DEF Add
        <3>2. Steps'
            BY <1>0, <1>7, <2>1 DEF Add, Steps
        <3> QED BY <3>1, <3>2, NoChangeTyped
    <2>2. CASE request[r].name # Slash
        <3>1. PICK item \in Unused : Change(r, Added(item, request[r].name))
            BY <1>7, <2>2 DEF Add
        <3>2. Stored(Added(item, request[r].name))
            BY <1>0, <1>2, AddedStored DEF Unused
        <3>3. Bookkeeping' /\ Stored(memory)' /\ Stored(disk)'
            BY <3>1, <3>2, ChangeTyped, ChangedTyped
        <3>4. Steps'
            BY <1>0, <1>7, <2>2 DEF Add, Steps
        <3> QED BY <3>3, <3>4
    <2> QED BY <2>1, <2>2
<1>8. ASSUME NEW r \in Requests, Delete(r)
      PROVE  Steps' /\ Bookkeeping' /\ Stored(memory)' /\ Stored(disk)'
    <2>1. Change(r, Removed(At(request[r].path))) /\ Stored(Removed(At(request[r].path)))
        BY <1>0, <1>8, RemovedStored DEF Delete
    <2>2. Bookkeeping' /\ Stored(memory)' /\ Stored(disk)'
        BY <2>1, ChangeTyped, ChangedTyped
    <2>3. Steps'
        BY <1>0, <1>8 DEF Delete, Steps
    <2> QED BY <2>2, <2>3
<1>9. ASSUME NEW r \in Requests, Move(r)
      PROVE  Steps' /\ Bookkeeping' /\ Stored(memory)' /\ Stored(disk)'
    <2>1. PICK m : Change(r, m) /\ (m = memory \/ m \in Moves(At(request[r].path)))
        BY <1>9 DEF Move
    <2>2. Stored(m)
        BY <1>0, <2>1, MovedStored
    <2>3. Bookkeeping' /\ Stored(memory)' /\ Stored(disk)'
        BY <2>1, <2>2, ChangeTyped, ChangedTyped
    <2>4. Steps'
        BY <1>0, <1>9 DEF Move, Steps
    <2> QED BY <2>3, <2>4
<1>10. ASSUME NEW r \in Requests, AddDefaults(r)
       PROVE  Steps' /\ Bookkeeping' /\ Stored(memory)' /\ Stored(disk)'
    <2> DEFINE m == IF Default \in Range(memory.order) THEN memory
                    ELSE Added(Default, FirstPath[Default])
    <2>1. Put(r, m) /\ changed' \subseteq Requests
        BY <1>0, <1>10 DEF AddDefaults, Bookkeeping
    <2>2. Stored(m)
        BY <1>0, BookmarksAssumption, AddedStored
    <2>3. Bookkeeping' /\ Stored(memory)' /\ Stored(disk)'
        BY <2>1, <2>2, ChangeTyped, ChangedTyped
    <2>4. Steps'
        BY <1>0, <1>10 DEF AddDefaults, Steps
    <2> QED BY <2>3, <2>4
<1>11. CASE Crash
    <2>1. Steps'
        BY <1>0, <1>11 DEF Crash, Steps
    <2>2. Bookkeeping'
        BY <1>0, <1>11, BookmarksAssumption DEF Crash, Bookkeeping
    <2>3. Stored(memory)' /\ Stored(disk)'
        BY <1>0, <1>11 DEF Crash, Stored
    <2> QED BY <2>1, <2>2, <2>3
<1>12. CASE UNCHANGED vars
    BY <1>0, <1>12 DEF vars, Steps, Bookkeeping, Stored
<1> QED BY <1>3, <1>4, <1>5, <1>6, <1>7, <1>8, <1>9, <1>10, <1>11, <1>12 DEF Next

LEMMA TypeInit == Init => TypeInv
<1> SUFFICES ASSUME Init PROVE TypeInv
    OBVIOUS
<1>1. Stored(memory) /\ Stored(disk)
    BY BookmarksAssumption DEF Init, Stored, Stores
<1>2. Steps /\ Bookkeeping
    BY BookmarksAssumption DEF Init, Steps, Bookkeeping
<1> QED BY <1>1, <1>2, TypeParts

-----------------------------------------------------------------------------
(* The theorems.                                                           *)

\* The invariant holds in every run.
THEOREM Invariance == Spec => []IInv
BY InitInv, NextInv, PTL DEF Spec

\* An answer of the editor means that what the request's action changed is on the disk,
\* whatever other requests do and whenever the node crashes.  An error means that nothing
\* was changed, but that the default bookmarks may have been added first (Bookmarks.doGet,
\* doPost, BookmarkFreenetInterface).
THEOREM AnswersAreTrue == Spec => []AnswersTrue
BY Invariance, PTL DEF IInv

\* An edit renames and changes one bookmark, the one that was shown at its path, unless
\* another request came between or took the path.
THEOREM ShownIsEdited == Spec => []EditsWhatWasShown
BY Invariance, PTL DEF IInv
\* What the manager holds in memory and on the disk is a list of bookmarks, none of them
\* twice, whatever the editor has it add, remove and move.
THEOREM TypeCorrect == Spec => []TypeOK
<1>1. TypeInv => TypeOK
    BY DEF TypeInv
<1> QED BY <1>1, TypeInit, TypeStep, PTL DEF Spec
=============================================================================
