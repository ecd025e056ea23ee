----------------------------- MODULE ListSource ------------------------------
(***************************************************************************)
(* The inputs whose choices are a list (List, with Select as the example): *)
(* where the list comes from, the cache that the inputs of a page share,   *)
(* and who waits for a list that is still on its way: the forms that show  *)
(* it, and the elements that need it to show their value as a text.        *)
(***************************************************************************)
EXTENDS Naturals, FiniteSets, SequencesExt

CONSTANTS
    Inputs,
    Urls,           \* sources to be asked for
    Arrays,         \* sources that are a list, or should be one, in the page itself
    Answers,        \* for each source, what it may be found to hold
    Values,
    Texts,          \* what the items of a list are called
    Initial,        \* the value of each element when the page is loaded
    InitiallyDisabled,
    Empty,          \* the value of what is prepended to a list
    Null,           \* no value, no list, no prepend, no text
    EmptyText,      \* option: what an element says that has no text
    Prepend,        \* option: the text prepended to each input's lists, or Null
    MaxCalls,       \* bound: how often a list is needed
    MaxChanges      \* bound: how often a source changes, or a value to null

Sources == Urls \cup Arrays

\* The items of an answer: a text that is the value as well, an object with one key, one
\* with a value and a text, or a group of those; and an answer, a list or just a string.
Named == [kind : {"item"}, value : Values, text : Texts]
Listed == [kind : {"text"}, text : Values \cap Texts]
    \cup [kind : {"single"}, key : Values, text : Texts]
    \cup Named
    \cup [kind : {"group"}, text : Texts, children : Seq(Named)]
Answer == [kind : {"string"}] \cup [kind : {"list"}, items : Seq(Listed)]

\* The items of a list, which may be a group of such items.
Leaf == [value : Values \cup {Empty}, text : Texts, children : {<<>>}]
Made == Leaf \cup [value : {Null}, text : Texts, children : Seq(Leaf)]

ASSUME SourcesAssumption ==
    /\ Urls \cap Arrays = {} /\ Null \notin Sources
    /\ \A s \in Sources : Answers[s] # {} /\ Answers[s] \subseteq Answer
    /\ \A s \in Arrays : Cardinality(Answers[s]) = 1
ASSUME ValuesAssumption ==
    /\ Null \notin Values /\ Empty \notin Values /\ Null # Empty /\ Null \notin Seq(Made)
    /\ Initial \in [Inputs -> Values] /\ InitiallyDisabled \subseteq Inputs
ASSUME TextAssumption ==
    /\ Null \notin Texts /\ EmptyText \notin Texts /\ EmptyText # Null
    /\ Prepend \in [Inputs -> Texts \cup {Null}]
ASSUME BoundAssumption == MaxCalls \in Nat /\ MaxChanges \in Nat

VARIABLES
    mode,           \* option: "kept", "uncached" (no sourceCache), or "function"
    source,         \* option
    value,          \* of the element
    sourceData,     \* the list of each input, or Null; as history, the source it is from
                    \* and whether doPrepend was called twice for it
    shown,          \* the value that the element shows, and the text it has
    isEmpty,        \* the elements that were found without a text
    disabled,       \* option: the elements that cannot be edited
    cache,          \* in the document: for each url whether it is loading, its list, and
                    \* the calls in its queues (callbacks and err_callbacks)
    requests,       \* to servers, without an answer
    calls,          \* how often onSourceReady was called
    changes,        \* how often an option changed
    waiting,        \* history: the calls that had no callback yet
    overtaken,      \* history: the inputs that were to show two values at once
    failed,         \* history: the inputs whose value could not be shown
    switched        \* history: the inputs whose source changed while they waited

options == <<mode, source, disabled>>
text == <<shown, isEmpty>>
history == <<waiting, overtaken, failed, switched>>
vars == <<options, value, sourceData, text, cache, requests, calls, changes, history>>

-----------------------------------------------------------------------------
(* Lists.                                                                  *)

Item(v, t) == [value |-> v, text |-> t, children |-> <<>>]

\* One item of an answer: a text alone, an object with one key, or with several.
makeItem(item) ==
    CASE item.kind = "text" -> Item(item.text, item.text)
      [] item.kind = "single" -> Item(item.key, item.text)
      [] item.kind = "item" -> Item(item.value, item.text)
      [] item.kind = "group" ->
            [value |-> Null, text |-> item.text,
             children |-> [i \in 1 .. Len(item.children) |->
                            LET child == item.children[i]
                            IN  Item(child.value, child.text)]]

\* List.makeArray, with groups of items that are no groups: a string makes no list.
makeArray(data) ==
    IF data.kind = "string" THEN Null
    ELSE [i \in 1 .. Len(data.items) |-> makeItem(data.items[i])]

\* utils.itemsByValue: where the items with a value are, also those in groups.
Leaves(item) == IF item.children = <<>> THEN <<item>> ELSE item.children
With(v, leaves) == {k \in DOMAIN leaves : leaves[k].value = v}
itemsByValue(v, items) ==
    IF v = Null \/ items = Null THEN {}
    ELSE {k \in DOMAIN items : With(v, Leaves(items[k])) # {}}

\* Select.value2htmlFinal: the text of the first of them.
TextOf(v, items) ==
    LET found == itemsByValue(v, items)
        leaves == Leaves(items[Min(found)])
    IN  IF found = {} THEN Null ELSE leaves[Min(With(v, leaves))].text

\* List.doPrepend
doPrepend(i, items) ==
    IF Prepend[i] = Null THEN items ELSE <<Item(Empty, Prepend[i])>> \o items

-----------------------------------------------------------------------------
(* Calls of onSourceReady, for a form or to show a value.                  *)

Call == [id : 1 .. MaxCalls, input : Inputs, goal : {"form", "show"}, value : Values \cup {Null}]

\* The page has the elements without texts, and the option autotext is "never".
Init ==
    /\ mode \in [Inputs -> {"kept", "uncached", "function"}]
    /\ source \in [Inputs -> Sources]
    /\ value = Initial
    /\ sourceData = [i \in Inputs |-> Null]
    /\ disabled = InitiallyDisabled
    /\ isEmpty = Inputs
    /\ shown = [i \in Inputs |-> [value |-> value[i],
                                 text |-> IF i \in disabled THEN Null ELSE EmptyText]]
    /\ cache = [u \in Urls |-> [loading |-> FALSE, items |-> Null, callbacks |-> <<>>]]
    /\ requests = {} /\ calls = 0 /\ changes = 0
    /\ waiting = {} /\ overtaken = {} /\ failed = {} /\ switched = {}

\* The calls that show the value of an input and had no callback yet.
ToShow(i) == {c \in waiting : c.input = i /\ c.goal = "show"}

\* Editable.handleEmpty, after these elements were given these texts: one that has none
\* says so as long as it is enabled. What it says is not told from another text later.
handleEmpty(given) ==
    /\ isEmpty' = (isEmpty \ DOMAIN given) \cup {i \in DOMAIN given : given[i].text = Null}
    /\ shown' = [i \in Inputs |->
                    IF i \notin DOMAIN given THEN shown[i]
                    ELSE IF i \in isEmpty' \ disabled THEN [given[i] EXCEPT !.text = EmptyText]
                    ELSE given[i]]

\* Where the calls are in a queue that show the value of an input.
Showing(batch, i) == {k \in DOMAIN batch : batch[k].input = i /\ batch[k].goal = "show"}

\* The list that input i has after a batch of calls. One call in the queue takes the list
\* after the other, but the call that asked the server, which comes last, only prepends to
\* what its input has: if a call in the queue was of the same input, a second time.
Taken(batch, i, s, items) ==
    LET twice == /\ Last(batch).input = i
                 /\ \E k \in 1 .. Len(batch) - 1 : batch[k].input = i
    IN  [of |-> s, twice |-> twice,
         items |-> doPrepend(i, IF twice THEN doPrepend(i, items) ELSE items)]

\* Mutant: the calls of the queue run from its end.
SucceedBackwards(batch, s, items) ==
    /\ sourceData' = [i \in Inputs |->
                        IF \E c \in ToSet(batch) : c.input = i
                        THEN Taken(batch, i, s, items) ELSE sourceData[i]]
    /\ handleEmpty([i \in {j \in Inputs : Showing(batch, j) # {}} |->
                        LET v == batch[Min(Showing(batch, i))].value
                        IN  [value |-> v, text |-> TextOf(v, doPrepend(i, items))]])
    /\ UNCHANGED failed

\* A list is there for these calls, one after the other: each takes it for its input, and
\* finds the text of its value in it (behind what is prepended, how often that is).
Succeed(batch, s, items) ==
    /\ sourceData' = [i \in Inputs |->
                        IF \E c \in ToSet(batch) : c.input = i
                        THEN Taken(batch, i, s, items) ELSE sourceData[i]]
    /\ handleEmpty([i \in {j \in Inputs : Showing(batch, j) # {}} |->
                        LET v == batch[Max(Showing(batch, i))].value
                        IN  [value |-> v, text |-> TextOf(v, doPrepend(i, items))]])
    /\ UNCHANGED failed

\* There is none: what an element shows stays as it is.
Fail(batch) ==
    LET of == {c.input : c \in {d \in ToSet(batch) : d.goal = "show"}}
    IN  /\ failed' = failed \cup of
        /\ handleEmpty([i \in of |-> shown[i]])

\* The call waits for an answer, its own or that of the request it joins.
Wait(c) ==
    /\ waiting' = waiting \cup {c}
    /\ sourceData' = IF mode[c.input] = "function"
                     THEN [sourceData EXCEPT ![c.input] = Null] ELSE sourceData
    /\ UNCHANGED <<text, failed>>

Cached(c) == mode[c.input] # "uncached" /\ source[c.input] \in Urls
Loading(c) == Cached(c) /\ cache[source[c.input]].loading

\* List.onSourceReady
AlreadyThere(c) ==
    /\ mode[c.input] = "kept" /\ sourceData[c.input] # Null
    /\ handleEmpty([i \in {j \in {c.input} : c.goal = "show"} |->
                        [value |-> c.value, text |-> TextOf(c.value, sourceData[i].items)]])
    /\ UNCHANGED <<sourceData, cache, requests, waiting, failed>>

FromPage(c) ==
    LET s == source[c.input]
        items == makeArray(CHOOSE data \in Answers[s] : TRUE)
    IN  /\ s \in Arrays
        /\ IF items # Null THEN Succeed(<<c>>, s, items)
           ELSE Fail(<<c>>) /\ sourceData' = [sourceData EXCEPT ![c.input] = Null]
        /\ UNCHANGED <<cache, requests, waiting>>

FromCache(c) ==
    LET u == source[c.input]
    IN  /\ Cached(c) /\ ~Loading(c) /\ cache[u].items # Null
        /\ Succeed(<<c>>, u, cache[u].items)
        /\ UNCHANGED <<cache, requests, waiting>>

JoinQueue(c) ==
    /\ Loading(c)
    /\ cache' = [cache EXCEPT ![source[c.input]].callbacks = Append(@, c)]
    /\ Wait(c)
    /\ UNCHANGED requests

\* Mutant: the queues of an earlier load that failed are not emptied.
AskServerAgain(c) ==
    LET u == source[c.input]
    IN  /\ u \in Urls /\ ~Loading(c) /\ ~(Cached(c) /\ cache[u].items # Null)
        /\ requests' = requests \cup {[url |-> u, call |-> c, cached |-> Cached(c)]}
        /\ cache' = IF Cached(c) THEN [cache EXCEPT ![u].loading = TRUE] ELSE cache
        /\ Wait(c)

AskServer(c) ==
    LET u == source[c.input]
    IN  /\ u \in Urls /\ ~Loading(c) /\ ~(Cached(c) /\ cache[u].items # Null)
        /\ requests' = requests \cup {[url |-> u, call |-> c, cached |-> Cached(c)]}
        /\ cache' = IF Cached(c)
                    THEN [cache EXCEPT ![u].loading = TRUE, ![u].callbacks = <<>>]
                    ELSE cache
        /\ Wait(c)

onSourceReady(c) ==
    \/ AlreadyThere(c)
    \/ /\ ~(mode[c.input] = "kept" /\ sourceData[c.input] # Null)
       /\ FromPage(c) \/ FromCache(c) \/ JoinQueue(c) \/ AskServer(c)

-----------------------------------------------------------------------------
(* The page and the servers.                                               *)

\* Mutant: the call is not counted before it is numbered.
RenderUncounted(i) ==
    /\ calls < MaxCalls /\ calls' = calls + 1
    /\ onSourceReady([id |-> calls, input |-> i, goal |-> "form", value |-> Null])
    /\ UNCHANGED <<options, value, changes, overtaken, switched>>

\* List.render, for a form.
Render(i) ==
    /\ calls < MaxCalls /\ calls' = calls + 1
    /\ onSourceReady([id |-> calls + 1, input |-> i, goal |-> "form", value |-> Null])
    /\ UNCHANGED <<options, value, changes, overtaken, switched>>

\* What the element is to show next may be overtaken by what it is to show already, unless
\* all that joins the same queue, behind the request of another input.
Behind(i) ==
    \/ ToShow(i) = {}
    \/ /\ mode[i] # "uncached" /\ source[i] \in Urls /\ cache[source[i]].loading
       /\ ~(mode[i] = "kept" /\ sourceData[i] # Null)
       /\ ToShow(i) \subseteq ToSet(cache[source[i]].callbacks)

\* Editable.setValue and List.value2html
SetValue(i, v) ==
    /\ calls < MaxCalls /\ calls' = calls + 1
    /\ value' = [value EXCEPT ![i] = v]
    /\ overtaken' = IF ToShow(i) = {} THEN overtaken \ {i}
                    ELSE IF Behind(i) THEN overtaken ELSE overtaken \cup {i}
    /\ onSourceReady([id |-> calls + 1, input |-> i, goal |-> "show", value |-> v])
    /\ UNCHANGED <<options, changes, switched>>

Change == changes < MaxChanges /\ changes' = changes + 1

\* A value of null is shown at once.
Clear(i) ==
    /\ Change /\ value[i] # Null
    /\ value' = [value EXCEPT ![i] = Null]
    /\ handleEmpty([j \in {i} |-> [value |-> Null, text |-> Null]])
    /\ overtaken' = IF ToShow(i) = {} THEN overtaken \ {i} ELSE overtaken \cup {i}
    /\ UNCHANGED <<options, sourceData, cache, requests, calls, waiting, failed, switched>>

\* Mutant: the list of the old source is kept.
SetSourceOnly(i, s) ==
    /\ Change /\ source' = [source EXCEPT ![i] = s]
    /\ switched' = IF \E c \in waiting : c.input = i THEN switched \cup {i}
                   ELSE switched \ {i}
    /\ UNCHANGED <<mode, disabled, value, sourceData, text, cache, requests, calls, waiting,
                   overtaken, failed>>

\* List.option
SetSource(i, s) ==
    /\ Change /\ source' = [source EXCEPT ![i] = s]
    /\ sourceData' = [sourceData EXCEPT ![i] = Null]
    /\ switched' = IF \E c \in waiting : c.input = i THEN switched \cup {i}
                   ELSE switched \ {i}
    /\ UNCHANGED <<mode, disabled, value, text, cache, requests, calls, waiting, overtaken,
                   failed>>

\* Editable.disable and enable, which rely on what was found when a text was given last.
SetDisabled(i) ==
    /\ Change
    /\ disabled' = SymDiff(disabled, {i})
    /\ shown' = IF i \notin isEmpty THEN shown
                ELSE [shown EXCEPT ![i].text = IF i \in disabled THEN EmptyText ELSE Null]
    /\ UNCHANGED <<mode, source, value, sourceData, isEmpty, cache, requests, calls, waiting,
                   overtaken, failed, switched>>

\* Mutant: the queue is forgotten.
BatchOwn(r) == <<r.call>>

\* The calls that an answer concerns: those in the queue, then the one that asked.
Batch(r) == IF r.cached THEN Append(cache[r.url].callbacks, r.call) ELSE <<r.call>>

Loaded(r, items) ==
    IF r.cached THEN [cache EXCEPT ![r.url].loading = FALSE, ![r.url].items = items]
    ELSE cache

Done(r) ==
    /\ r \in requests
    /\ requests' = requests \ {r}
    /\ waiting' = waiting \ ToSet(Batch(r))
    /\ UNCHANGED <<options, value, calls, changes, overtaken, switched>>

Answered(r) ==
    /\ Done(r)
    /\ \E data \in Answers[r.url] :
        LET items == makeArray(data)
        IN  /\ cache' = Loaded(r, items)
            /\ IF items # Null THEN Succeed(Batch(r), r.url, items)
               ELSE /\ Fail(Batch(r))
                    /\ sourceData' = [sourceData EXCEPT ![r.call.input] = Null]

Failed(r) ==
    /\ Done(r)
    /\ cache' = Loaded(r, Null)
    /\ Fail(Batch(r))
    /\ UNCHANGED sourceData

Next ==
    \/ \E i \in Inputs :
        \/ Render(i) \/ Clear(i) \/ SetDisabled(i)
        \/ \E v \in Values : SetValue(i, v)
        \/ \E s \in Sources \ {source[i]} : SetSource(i, s)
    \/ \E r \in requests : Answered(r) \/ Failed(r)

\* Every request is answered or fails.
Fairness ==
    \A n \in 1 .. MaxCalls :
        WF_vars(\E r \in requests : r.call.id = n /\ (Answered(r) \/ Failed(r)))

Spec == Init /\ [][Next]_vars /\ Fairness

-----------------------------------------------------------------------------
(* What holds.                                                             *)

\* Type invariant: every variable has its type, and a call waits in a queue, or for its
\* request, with the number it was given.
TypeOK ==
    /\ mode \in [Inputs -> {"kept", "uncached", "function"}]
    /\ source \in [Inputs -> Sources]
    /\ value \in [Inputs -> Values \cup {Null}]
    /\ sourceData \in [Inputs -> [of : Sources, twice : BOOLEAN, items : Seq(Made)] \cup {Null}]
    /\ shown \in [Inputs -> [value : Values \cup {Null}, text : Texts \cup {EmptyText, Null}]]
    /\ cache \in [Urls -> [loading : BOOLEAN, items : Seq(Made) \cup {Null}, callbacks : Seq(Call)]]
    /\ calls \in 0 .. MaxCalls /\ changes \in 0 .. MaxChanges
    /\ waiting \subseteq {c \in Call : c.id <= calls}
    /\ requests \subseteq [url : Urls, call : Call, cached : BOOLEAN]
    /\ disabled \subseteq Inputs /\ isEmpty \subseteq Inputs
    /\ overtaken \subseteq Inputs /\ failed \subseteq Inputs /\ switched \subseteq Inputs

\* The document's cache asks for a url at most once at a time, and believes that a url is
\* loading exactly while that request is there.
OneLoadEach ==
    \A u \in Urls :
        Cardinality({r \in requests : r.url = u /\ r.cached}) =
            IF cache[u].loading THEN 1 ELSE 0

\* Every call that had no callback waits in exactly one place: it asked for a list itself,
\* or it is once in the queue of a url that is loading; and only such calls will be called.
NoCallLost ==
    LET asked == {r.call : r \in requests}
        queued(u) == IF cache[u].loading THEN cache[u].callbacks ELSE <<>>
    IN  /\ OneLoadEach
        /\ waiting = asked \cup UNION {ToSet(queued(u)) : u \in Urls}
        /\ Cardinality(asked) = Cardinality(requests)
        /\ \A u \in Urls : /\ IsInjective(queued(u))
                           /\ ToSet(queued(u)) \cap asked = {}
                           /\ \A w \in Urls \ {u} : ToSet(queued(u)) \cap ToSet(queued(w)) = {}

\* The list of an input is from its source, unless that changed while the input waited.
DataOfSource ==
    \A i \in Inputs \ switched : sourceData[i] # Null => sourceData[i].of = source[i]

\* What is prepended is there once, and not in what the inputs share; it is there twice
\* for an input that asked the server while another of its calls waited in the queue.
PrependedOnce ==
    /\ \A i \in Inputs : sourceData[i] # Null =>
           Cardinality(With(Empty, sourceData[i].items)) =
               IF Prepend[i] = Null THEN 0 ELSE IF sourceData[i].twice THEN 2 ELSE 1
    /\ \A u \in Urls : cache[u].items # Null => With(Empty, cache[u].items) = {}

\* An element shows its value when it waits for no list, unless one failed or it was to
\* show two values at once and not behind another input's request. While it is enabled it
\* is never blank, and a disabled one says that it is empty only after a list failed.
ShowsValue ==
    /\ \A i \in Inputs \ (overtaken \cup failed) : ToShow(i) = {} => shown[i].value = value[i]
    /\ \A i \in Inputs \ disabled : shown[i].text # Null
    /\ \A i \in disabled \ failed : shown[i].text # EmptyText

\* The texts that an answer has for the value v: it names itself, or is the key or the
\* value of an item, in the list or in one of its groups.
TextsFor(data, v) ==
    LET items == ToSet(data.items)
        inGroups == UNION {ToSet(item.children) : item \in {g \in items : g.kind = "group"}}
    IN  {item.text : item \in
            {t \in items : t.kind = "text" /\ t.text = v}
            \cup {s \in items : s.kind = "single" /\ s.key = v}
            \cup {n \in {m \in items : m.kind = "item"} \cup inGroups : n.value = v}}

\* Whatever the form of the answer that an input has its list from, the list has a text
\* for exactly the values that the answer has one for, and has one of those.
TextOfValue ==
    \A i \in Inputs : sourceData[i] # Null =>
        \E data \in Answers[sourceData[i].of] :
            /\ data.kind # "string"
            /\ \A v \in Values :
                LET told == TextOf(v, sourceData[i].items)
                IN  told \in TextsFor(data, v) \/ (told = Null /\ TextsFor(data, v) = {})

\* Whatever the pages' cache hands from one input to the other, the list of an input is
\* that of its source, with what is prepended, and has the texts of the answer.
ListsIntact == DataOfSource /\ PrependedOnce /\ TextOfValue

\* Whoever needs a list is called back.
CalledBack ==
    \A n \in 1 .. MaxCalls :
        (\E c \in waiting : c.id = n) ~> (\A c \in waiting : c.id # n)
=============================================================================
