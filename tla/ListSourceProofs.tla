-------------------------- MODULE ListSourceProofs ---------------------------
(***************************************************************************)
(* Proofs about ListSource for any inputs, sources, answers and values: no *)
(* call is lost, the lists are what the answers were, and elements show    *)
(* their values.                                                           *)
(***************************************************************************)
EXTENDS ListSource, TLAPS, FiniteSetTheorems, WellFoundedInduction

-----------------------------------------------------------------------------
(* The inductive invariant.                                                *)

\* The calls in the queue of a url that is loading.
Queue(u) == IF cache[u].loading THEN cache[u].callbacks ELSE <<>>

CacheTyped ==
    cache \in [Urls -> [loading : BOOLEAN, items : Seq(Made) \cup {Null}, callbacks : Seq(Call)]]

DataTyped ==
    sourceData \in [Inputs -> [of : Sources, twice : BOOLEAN, items : Seq(Made)] \cup {Null}]
TextTyped ==
    /\ shown \in [Inputs -> [value : Values \cup {Null}, text : Texts \cup {EmptyText, Null}]]
    /\ isEmpty \subseteq Inputs

\* NoCallLost, without counting.
Loads ==
    /\ \A r, s \in requests : r.cached /\ s.cached /\ r.url = s.url => r = s
    /\ \A u \in Urls : cache[u].loading <=> \E r \in requests : r.cached /\ r.url = u
Apart ==
    /\ \A r, s \in requests : r.call = s.call => r = s
    /\ \A u, w \in Urls : \A k \in DOMAIN Queue(u), l \in DOMAIN Queue(w) :
           Queue(u)[k] = Queue(w)[l] => u = w /\ k = l
    /\ \A r \in requests, u \in Urls : \A k \in DOMAIN Queue(u) : Queue(u)[k] # r.call
Queued(c) == \E u \in Urls : \E k \in DOMAIN Queue(u) : Queue(u)[k] = c
Waits == \A c \in Call : c \in waiting <=> (\E r \in requests : r.call = c) \/ Queued(c)

Places == IsFiniteSet(requests) /\ Loads /\ Apart /\ Waits

\* The lists of inputs and of the cache are made of answers.
IsList(s, items) == \E data \in Answers[s] : data.kind = "list" /\ items = makeArray(data)
Prepended(i, twice, items) == doPrepend(i, IF twice THEN doPrepend(i, items) ELSE items)
InputsOrigin ==
    \A i \in Inputs : sourceData[i] # Null =>
        \E items \in Seq(Made) :
            /\ IsList(sourceData[i].of, items)
            /\ sourceData[i].items = Prepended(i, sourceData[i].twice, items)
CacheOrigin == \A u \in Urls : cache[u].items # Null => IsList(u, cache[u].items)
Origin == InputsOrigin /\ CacheOrigin

\* The calls of an input that was not switched wait for its source.
Expected ==
    \A i \in Inputs \ switched :
        /\ \A r \in requests : r.call.input = i => r.url = source[i]
        /\ \A u \in Urls : \A k \in DOMAIN Queue(u) : Queue(u)[k].input = i => u = source[i]

\* What an element says, and whether it was found without a text.
Says ==
    \A i \in Inputs :
        /\ i \in isEmpty => shown[i].text = IF i \in disabled THEN Null ELSE EmptyText
        /\ i \notin isEmpty => shown[i].text # Null /\ (i \notin failed => shown[i].text # EmptyText)

\* The last to show something of i in this queue is to show its value.
LastShows(i, batch) ==
    \E k \in Showing(batch, i) : /\ \A l \in Showing(batch, i) : l <= k
                                 /\ batch[k].value = value[i]

\* What an element will show last is its value.
WillShow ==
    \A i \in Inputs \ (overtaken \cup failed) :
        IF ToShow(i) = {} THEN shown[i].value = value[i]
        ELSE \/ \E c \in ToShow(i) : ToShow(i) = {c} /\ c.value = value[i]
             \/ \E u \in Urls : ToShow(i) \subseteq ToSet(Queue(u)) /\ LastShows(i, Queue(u))

IInv ==
    /\ TypeOK /\ Places
    /\ Origin /\ DataOfSource /\ Expected
    /\ Says /\ WillShow

-----------------------------------------------------------------------------
(* First and last.                                                         *)

\* A set of numbers has a least one.
LEMMA LeastExists ==
    ASSUME NEW T \in SUBSET Nat, NEW n \in T
    PROVE  \E m \in T : \A k \in T : m <= k
<1> DEFINE R == {ss \in Nat \X Nat : ss[1] < ss[2]}
<1>1. IsWellFoundedOn(R, Nat)
    BY NatLessThanWellFounded DEF OpToRel
<1>2. PICK m \in T : \A y \in T : ~ (<<y, m>> \in R)
    <2> HIDE DEF R
    <2> QED BY <1>1, WFMin, Zenon
<1>3. \A y \in T : <<y, m>> \in Nat \X Nat
    OBVIOUS
<1>4. \A y \in T : ~(y < m)
    BY <1>2, <1>3
<1> QED BY <1>4

LEMMA MinIsLeast ==
    ASSUME NEW T \in SUBSET Nat, T # {}
    PROVE  Min(T) \in T /\ \A k \in T : Min(T) <= k
<1>1. PICK m \in T : \A k \in T : m <= k
    BY LeastExists
<1> QED BY <1>1 DEF Min

\* A set of positions has a last one.
LEMMA MaxIsLast ==
    ASSUME NEW n \in Nat, NEW T \in SUBSET (1 .. n), T # {}
    PROVE  Max(T) \in T /\ \A k \in T : k <= Max(T)
<1> DEFINE fromEnd == {n - k : k \in T}
<1>0. \A k \in T : n - k \in Nat
    OBVIOUS
<1>1. fromEnd \in SUBSET Nat /\ fromEnd # {}
    BY <1>0
<1>2. PICK m \in fromEnd : \A k \in fromEnd : m <= k
    BY <1>1, LeastExists
<1>3. PICK last \in T : m = n - last
    BY <1>2
<1>4. \A k \in T : k <= last
    <2>1. TAKE k \in T
    <2>2. n - k \in fromEnd
        OBVIOUS
    <2> QED BY <1>2, <1>3, <2>2
<1> QED BY <1>3, <1>4 DEF Max

-----------------------------------------------------------------------------
(* Lists and texts.                                                        *)

\* The texts that one item of an answer has for a value.
TextsOf(item, v) ==
    {t \in Texts : \/ item.kind = "text" /\ item.text = v /\ t = v
                   \/ item.kind = "single" /\ item.key = v /\ t = item.text
                   \/ item.kind = "item" /\ item.value = v /\ t = item.text
                   \/ /\ item.kind = "group"
                      /\ \E child \in ToSet(item.children) : child.value = v /\ child.text = t}

\* What is made of an item is one or a group of them.
LEMMA ItemTyped ==
    ASSUME NEW item \in Listed
    PROVE  makeItem(item) \in Made /\ makeItem(item).value # Empty
<1> DEFINE made == makeItem(item)
<1> USE ValuesAssumption
<1>1. CASE item \in [kind : {"text"}, text : Values \cap Texts]
    <2>1. made = Item(item.text, item.text)
        BY <1>1 DEF makeItem
    <2> QED BY <1>1, <2>1 DEF Made, Leaf, Item
<1>2. CASE item \in [kind : {"single"}, key : Values, text : Texts]
    <2>1. made = Item(item.key, item.text)
        BY <1>2 DEF makeItem
    <2> QED BY <1>2, <2>1 DEF Made, Leaf, Item
<1>3. CASE item \in Named
    <2>1. made = Item(item.value, item.text)
        BY <1>3 DEF makeItem, Named
    <2> QED BY <1>3, <2>1 DEF Made, Leaf, Item, Named
<1>4. CASE item \in [kind : {"group"}, text : Texts, children : Seq(Named)]
    <2> DEFINE n == Len(item.children)
    <2>1. n \in Nat /\ \A j \in 1 .. n : item.children[j] \in Named
        BY <1>4
    <2>2. made = [value |-> Null, text |-> item.text,
                  children |-> [j \in 1 .. n |-> Item(item.children[j].value, item.children[j].text)]]
        BY <1>4 DEF makeItem
    <2>3. \A j \in 1 .. n : Item(item.children[j].value, item.children[j].text) \in Leaf
        BY <2>1 DEF Named, Leaf, Item
    <2>4. [j \in 1 .. n |-> Item(item.children[j].value, item.children[j].text)] \in Seq(Leaf)
        BY <2>1, <2>3
    <2>5. item.text \in Texts
        BY <1>4
    <2> QED BY <2>2, <2>4, <2>5 DEF Made
<1> QED BY <1>1, <1>2, <1>3, <1>4 DEF Listed

\* Making an item keeps its values and texts.
LEMMA ItemMade ==
    ASSUME NEW item \in Listed, NEW v \in Values
    PROVE  LET leaves == Leaves(makeItem(item))
           IN  /\ DOMAIN leaves \subseteq Nat
               /\ \A j \in DOMAIN leaves : leaves[j].value # Empty
               /\ \A j \in With(v, leaves) : leaves[j].text \in TextsOf(item, v)
               /\ TextsOf(item, v) # {} => With(v, leaves) # {}
<1> DEFINE made == makeItem(item)
           leaves == Leaves(made)
<1> USE ValuesAssumption
<1>1. CASE item \in [kind : {"text"}, text : Values \cap Texts]
    <2>1. item.kind = "text" /\ item.text \in Values \cap Texts
        BY <1>1
    <2>2. made = Item(item.text, item.text)
        BY <2>1 DEF makeItem
    <2>3. leaves = <<made>> /\ made.value = item.text /\ made.text = item.text
        BY <2>2 DEF Leaves, Item
    <2> QED BY <2>1, <2>3 DEF With, TextsOf
<1>2. CASE item \in [kind : {"single"}, key : Values, text : Texts]
    <2>1. item.kind = "single" /\ item.key \in Values /\ item.text \in Texts
        BY <1>2
    <2>2. made = Item(item.key, item.text)
        BY <2>1 DEF makeItem
    <2>3. leaves = <<made>> /\ made.value = item.key /\ made.text = item.text
        BY <2>2 DEF Leaves, Item
    <2> QED BY <2>1, <2>3 DEF With, TextsOf
<1>3. CASE item \in Named
    <2>1. item.kind = "item" /\ item.value \in Values /\ item.text \in Texts
        BY <1>3 DEF Named
    <2>2. made = Item(item.value, item.text)
        BY <2>1 DEF makeItem
    <2>3. leaves = <<made>> /\ made.value = item.value /\ made.text = item.text
        BY <2>2 DEF Leaves, Item
    <2> QED BY <2>1, <2>3 DEF With, TextsOf
<1>4. CASE item \in [kind : {"group"}, text : Texts, children : Seq(Named)]
    <2> DEFINE n == Len(item.children)
    <2>1. item.kind = "group" /\ item.children \in Seq(Named)
        BY <1>4
    <2>2. n \in Nat /\ \A j \in 1 .. n : item.children[j] \in Named
        BY <2>1
    <2>3. made = [value |-> Null, text |-> item.text,
                  children |-> [j \in 1 .. n |-> Item(item.children[j].value, item.children[j].text)]]
        BY <2>1 DEF makeItem
    <2>4. CASE made.children = <<>>
        <3>1. n = 0
            BY <2>2, <2>3, <2>4
        <3>2. ToSet(item.children) = {}
            BY <2>1, <3>1 DEF ToSet
        <3>3. leaves = <<made>>
            BY <2>4 DEF Leaves
        <3>4. made.value = Null
            BY <2>3
        <3> QED BY <2>1, <3>2, <3>3, <3>4 DEF With, TextsOf
    <2>5. CASE made.children # <<>>
        <3>1. leaves = [j \in 1 .. n |-> Item(item.children[j].value, item.children[j].text)]
            BY <2>3, <2>5 DEF Leaves
        <3>2. \A j \in 1 .. n : /\ leaves[j].value = item.children[j].value
                                /\ leaves[j].text = item.children[j].text
            BY <3>1 DEF Item
        <3>3. \A j \in 1 .. n : item.children[j].value \in Values /\ item.children[j].text \in Texts
            BY <2>2 DEF Named
        <3>4. DOMAIN leaves = 1 .. n /\ ToSet(item.children) = {item.children[j] : j \in 1 .. n}
            BY <2>1, <3>1 DEF ToSet
        <3> QED BY <2>1, <2>2, <3>2, <3>3, <3>4 DEF With, TextsOf
    <2> QED BY <2>4, <2>5
<1> QED BY <1>1, <1>2, <1>3, <1>4 DEF Listed

\* What an answer has for a value is what its items have.
LEMMA TextsOfItems ==
    ASSUME NEW data \in Answer, data.kind = "list", NEW v \in Values
    PROVE  /\ data.items \in Seq(Listed)
           /\ TextsFor(data, v) = UNION {TextsOf(data.items[k], v) : k \in 1 .. Len(data.items)}
<1>1. data.items \in Seq(Listed)
    BY DEF Answer
<1> DEFINE n == Len(data.items)
           items == ToSet(data.items)
           inGroups == UNION {ToSet(item.children) : item \in {g \in items : g.kind = "group"}}
<1>2. n \in Nat /\ \A k \in 1 .. n : data.items[k] \in Listed
    BY <1>1
<1>3. items = {data.items[k] : k \in 1 .. n}
    BY <1>1 DEF ToSet
<1>4. \A item \in items :
          /\ item.kind = "text" => item.text \in Values \cap Texts
          /\ item.kind = "single" => item.text \in Texts
          /\ item.kind = "item" => item.text \in Texts
          /\ item.kind = "group" => \A child \in ToSet(item.children) : child.text \in Texts
    <2>1. TAKE item \in items
    <2>2. item \in Listed
        BY <1>2, <1>3
    <2>3. CASE item \in [kind : {"group"}, text : Texts, children : Seq(Named)]
        <3>1. item.kind = "group" /\ item.children \in Seq(Named)
            BY <2>3
        <3>2. \A child \in ToSet(item.children) : child \in Named
            BY <3>1 DEF ToSet
        <3> QED BY <3>1, <3>2 DEF Named
    <2>4. CASE item \notin [kind : {"group"}, text : Texts, children : Seq(Named)]
        BY <2>2, <2>4 DEF Listed, Named
    <2> QED BY <2>3, <2>4
<1>5. ASSUME NEW t, \E item \in items : t \in TextsOf(item, v) PROVE t \in TextsFor(data, v)
    <2>1. PICK item \in items : t \in TextsOf(item, v)
        BY <1>5
    <2>2. CASE item.kind = "group"
        <3>1. PICK child \in ToSet(item.children) : child.value = v /\ child.text = t
            BY <2>1, <2>2 DEF TextsOf
        <3>2. child \in inGroups
            BY <2>2, <3>1
        <3> QED BY <3>1, <3>2 DEF TextsFor
    <2>3. CASE item.kind # "group"
        BY <2>1, <2>3 DEF TextsOf, TextsFor
    <2> QED BY <2>2, <2>3
<1>6. ASSUME NEW t \in TextsFor(data, v) PROVE \E item \in items : t \in TextsOf(item, v)
    <2>1. CASE \E s \in items : s.kind = "text" /\ s.text = v /\ t = s.text
        BY <1>4, <2>1 DEF TextsOf
    <2>2. CASE \E s \in items : s.kind = "single" /\ s.key = v /\ t = s.text
        BY <1>4, <2>2 DEF TextsOf
    <2>3. CASE \E s \in items : s.kind = "item" /\ s.value = v /\ t = s.text
        BY <1>4, <2>3 DEF TextsOf
    <2>4. CASE \E child \in inGroups : child.value = v /\ t = child.text
        <3>1. PICK child \in inGroups : child.value = v /\ t = child.text
            BY <2>4
        <3>2. PICK item \in items : item.kind = "group" /\ child \in ToSet(item.children)
            BY <3>1
        <3> QED BY <1>4, <3>1, <3>2 DEF TextsOf
    <2> QED BY <1>6, <2>1, <2>2, <2>3, <2>4 DEF TextsFor
<1> QED BY <1>1, <1>3, <1>5, <1>6

\* What is prepended comes first, then the items of the answer.
Offset(i) == IF Prepend[i] = Null THEN 0 ELSE 1

LEMMA PrependedItems ==
    ASSUME NEW data \in Answer, data.kind = "list", NEW i \in Inputs
    PROVE  LET n == Len(data.items)
               list == doPrepend(i, makeArray(data))
           IN  /\ n \in Nat /\ \A k \in 1 .. n : data.items[k] \in Listed
               /\ makeArray(data) \in Seq(Made) /\ list \in Seq(Made)
               /\ makeArray(data) = [k \in 1 .. n |-> makeItem(data.items[k])]
               /\ DOMAIN list = 1 .. n + Offset(i)
               /\ Offset(i) = 1 => list[1] = Item(Empty, Prepend[i])
               /\ \A k \in 1 .. n : list[k + Offset(i)] = makeItem(data.items[k])
<1> DEFINE n == Len(data.items)
           items == makeArray(data)
           first == Item(Empty, Prepend[i])
<1>1. n \in Nat /\ \A k \in 1 .. n : data.items[k] \in Listed
    <2>1. data.items \in Seq(Listed)
        BY DEF Answer
    <2> QED BY <2>1
<1>2. items = [k \in 1 .. n |-> makeItem(data.items[k])]
    BY DEF makeArray
<1>3. items \in Seq(Made) /\ Len(items) = n
    <2>1. \A k \in 1 .. n : makeItem(data.items[k]) \in Made
        BY <1>1, ItemTyped
    <2> QED BY <1>1, <1>2, <2>1
<1>4. CASE Prepend[i] = Null
    BY <1>1, <1>2, <1>3, <1>4 DEF doPrepend, Offset
<1>5. CASE Prepend[i] # Null
    <2>1. doPrepend(i, items) = <<first>> \o items
        BY <1>5 DEF doPrepend
    <2> DEFINE list == <<first>> \o items
    <2>7. <<first>> \in Seq(Made) /\ Len(<<first>>) = 1
        <3>1. first \in Leaf
            BY <1>5, TextAssumption DEF Leaf, Item
        <3> QED BY <3>1 DEF Made
    <2>2. list \in Seq(Made) /\ Len(list) = 1 + n
          /\ \A k \in 1 .. 1 + n : list[k] = IF k <= 1 THEN <<first>>[k] ELSE items[k - 1]
        <3> HIDE DEF first, items
        <3> QED BY <1>3, <2>7
    <2>3. DOMAIN list = 1 .. 1 + n
        <3> HIDE DEF list
        <3> QED BY <2>2
    <2>4. list[1] = first
        BY <1>1, <2>2
    <2>5. \A k \in 1 .. n : list[k + 1] = makeItem(data.items[k])
        <3>1. TAKE k \in 1 .. n
        <3>2. k + 1 \in 1 .. 1 + n /\ ~(k + 1 <= 1) /\ (k + 1) - 1 = k
            BY <1>1
        <3>3. list[k + 1] = items[k]
            BY <2>2, <3>2
        <3> QED BY <1>2, <3>3
    <2>6. Offset(i) = 1 /\ 1 + n = n + 1
        BY <1>1, <1>5 DEF Offset
    <2>8. DOMAIN list = 1 .. n + Offset(i)
        BY <2>3, <2>6
    <2> HIDE DEF list, n, first
    <2>9. doPrepend(i, items) = list
        BY <2>1 DEF list, first
    <2>10. list \in Seq(Made)
        BY <2>2
    <2> HIDE DEF items
    <2> QED BY <1>1, <1>2, <1>3, <2>9, <2>10, <2>4, <2>5, <2>6, <2>8 DEF first, n, items
<1> QED BY <1>4, <1>5

\* A list made of an answer has a text for exactly the values that the answer has one for.
LEMMA TextOfList ==
    ASSUME NEW s \in Sources, NEW data \in Answers[s], data.kind = "list",
           NEW i \in Inputs, NEW v \in Values \cup {Null}
    PROVE  LET told == TextOf(v, doPrepend(i, makeArray(data)))
           IN  /\ told \in Texts \cup {Null}
               /\ v # Null =>
                      told \in TextsFor(data, v) \/ (told = Null /\ TextsFor(data, v) = {})
<1> DEFINE n == Len(data.items)
           off == Offset(i)
           list == doPrepend(i, makeArray(data))
           told == TextOf(v, list)
           found == itemsByValue(v, list)
<1> USE ValuesAssumption, TextAssumption
<1>1. data \in Answer
    BY SourcesAssumption
<1>2. /\ n \in Nat /\ \A k \in 1 .. n : data.items[k] \in Listed
      /\ list # Null /\ DOMAIN list = 1 .. n + off
      /\ off = 1 => list[1] = Item(Empty, Prepend[i])
      /\ \A k \in 1 .. n : list[k + off] = makeItem(data.items[k])
    <2>1. list \in Seq(Made)
        BY <1>1, PrependedItems
    <2>2. list # Null
        BY <2>1
    <2> HIDE DEF n, off, list
    <2> QED BY <1>1, <2>2, PrependedItems DEF n, off, list
<1>3. CASE v = Null
    BY <1>3 DEF TextOf, itemsByValue
<1>4. CASE v # Null
    <2>1. v \in Values
        BY <1>4
    <2>2. found = {k \in 1 .. n + off : With(v, Leaves(list[k])) # {}}
        <3> HIDE DEF list
        <3> QED BY <1>2, <1>4 DEF itemsByValue
    <2>3. off \in {0, 1} /\ n + off \in Nat
        <3>1. off \in {0, 1}
            BY DEF Offset
        <3> HIDE DEF off, n
        <3> QED BY <1>2, <3>1
    <2>4. off = 1 => With(v, Leaves(list[1])) = {}
        BY <1>2, <2>1 DEF Leaves, With, Item
    <2>5. ASSUME NEW k \in found
          PROVE  /\ k - off \in 1 .. n
                 /\ list[k] = makeItem(data.items[k - off])
        <3>1. ~(off = 1 /\ k = 1)
            BY <2>2, <2>4
        <3>2. k - off \in 1 .. n /\ (k - off) + off = k
            BY <1>2, <2>2, <2>3, <3>1
        <3> QED BY <1>2, <3>2
    <2>6. TextsFor(data, v) = UNION {TextsOf(data.items[k], v) : k \in 1 .. n}
        BY <1>1, <2>1, TextsOfItems
    <2>7. CASE found = {}
        <3>1. told = Null
            BY <2>7 DEF TextOf
        <3>2. ASSUME NEW k \in 1 .. n PROVE TextsOf(data.items[k], v) = {}
            <4>1. k + off \in 1 .. n + off
                BY <1>2, <2>3
            <4>2. With(v, Leaves(makeItem(data.items[k]))) = {}
                BY <1>2, <2>2, <2>7, <4>1
            <4> QED BY <1>2, <2>1, <4>2, ItemMade
        <3>3. TextsFor(data, v) = {}
            <4>1. SUFFICES ASSUME NEW t \in TextsFor(data, v) PROVE FALSE
                OBVIOUS
            <4>2. PICK k \in 1 .. n : t \in TextsOf(data.items[k], v)
                <5> HIDE DEF n
                <5> QED BY <2>6
            <4> QED BY <3>2, <4>2
        <3> QED BY <3>1, <3>3
    <2>8. CASE found # {}
        <3> DEFINE k == Min(found)
                   leaves == Leaves(list[k])
                   j == Min(With(v, leaves))
        <3>1. k \in found
            <4>1. found \in SUBSET Nat
                <5> HIDE DEF found, n, off
                <5> QED BY <1>2, <2>2, <2>3
            <4> HIDE DEF found
            <4> QED BY <2>8, <4>1, MinIsLeast
        <3> DEFINE item == data.items[k - off]
        <3>2. k - off \in 1 .. n /\ list[k] = makeItem(item) /\ item \in Listed
            BY <1>2, <2>5, <3>1
        <3>3. With(v, leaves) # {} /\ With(v, leaves) \in SUBSET Nat
            BY <2>1, <2>2, <3>1, <3>2, ItemMade DEF With
        <3>4. j \in With(v, leaves)
            BY <3>3, MinIsLeast
        <3>5. leaves[j].text \in TextsOf(item, v)
            BY <2>1, <3>2, <3>4, ItemMade
        <3>6. told = leaves[j].text
            BY <2>8 DEF TextOf
        <3>7. leaves[j].text \in TextsFor(data, v) /\ leaves[j].text \in Texts
            <4> HIDE DEF leaves, j, k, n, off
            <4> QED BY <2>6, <3>2, <3>5 DEF TextsOf
        <3>8. told \in TextsFor(data, v) /\ told \in Texts
            BY <3>6, <3>7
        <3> QED BY <3>8
    <2> QED BY <1>4, <2>7, <2>8
<1> QED BY <1>3, <1>4

\* What is prepended is in no list, and once more in one that it is prepended to.
LEMMA NotPrepended ==
    ASSUME NEW s \in Sources, NEW items, IsList(s, items)
    PROVE  With(Empty, items) = {}
<1>1. PICK data \in Answers[s] : data.kind = "list" /\ items = makeArray(data)
    BY DEF IsList
<1>2. data \in Answer
    BY SourcesAssumption
<1> DEFINE n == Len(data.items)
<1>3. data.items \in Seq(Listed)
    BY <1>1, <1>2 DEF Answer
<1>4. n \in Nat /\ \A k \in 1 .. n : data.items[k] \in Listed
    BY <1>3
<1>5. items = [k \in 1 .. n |-> makeItem(data.items[k])]
    BY <1>1 DEF makeArray
<1>6. \A k \in 1 .. n : items[k].value # Empty
    BY <1>4, <1>5, ItemTyped
<1> QED BY <1>5, <1>6 DEF With

LEMMA EmptyAgain ==
    ASSUME NEW list \in Seq(Made), NEW i \in Inputs, Prepend[i] # Null
    PROVE  LET more == doPrepend(i, list)
           IN  /\ more \in Seq(Made) /\ Len(more) = Len(list) + 1
               /\ more[1] = Item(Empty, Prepend[i])
               /\ \A k \in 1 .. Len(list) : more[k + 1] = list[k]
               /\ With(Empty, more) = {1} \cup {k + 1 : k \in With(Empty, list)}
<1> DEFINE first == Item(Empty, Prepend[i])
           more == <<first>> \o list
           n == Len(list)
<1>1. doPrepend(i, list) = more
    BY DEF doPrepend
<1>2. <<first>> \in Seq(Made) /\ Len(<<first>>) = 1
    <2>1. first \in Leaf
        BY TextAssumption DEF Leaf, Item
    <2> QED BY <2>1 DEF Made
<1>3. n \in Nat /\ DOMAIN list = 1 .. n
    OBVIOUS
<1>4. first.value = Empty
    BY DEF Item
<1>5. /\ more \in Seq(Made) /\ Len(more) = 1 + n
      /\ \A k \in 1 .. 1 + n : more[k] = IF k <= 1 THEN <<first>>[k] ELSE list[k - 1]
    <2> HIDE DEF first
    <2> QED BY <1>2
<1> HIDE DEF more
<1>6. DOMAIN more = 1 .. 1 + n
    BY <1>5
<1>7. more[1] = first
    BY <1>3, <1>5
<1>8. ASSUME NEW k \in 1 .. n PROVE more[k + 1] = list[k]
    <2>1. k + 1 \in 1 .. 1 + n /\ ~(k + 1 <= 1) /\ (k + 1) - 1 = k
        BY <1>3
    <2> QED BY <1>5, <2>1
<1> HIDE DEF first, n
<1>9. ASSUME NEW k \in With(Empty, more), k # 1 PROVE \E l \in With(Empty, list) : k = l + 1
    <2>1. k \in 1 .. 1 + n /\ more[k].value = Empty
        BY <1>6 DEF With
    <2>2. k - 1 \in 1 .. n /\ k = (k - 1) + 1
        BY <1>3, <1>9, <2>1
    <2>3. k - 1 \in With(Empty, list)
        BY <1>3, <1>8, <2>1, <2>2 DEF With
    <2> QED BY <2>2, <2>3
<1>10. ASSUME NEW l \in With(Empty, list) PROVE l + 1 \in With(Empty, more)
    <2>1. l \in 1 .. n /\ list[l].value = Empty
        BY <1>3 DEF With
    <2>2. l + 1 \in 1 .. 1 + n
        BY <1>3, <2>1
    <2> QED BY <1>6, <1>8, <2>1, <2>2 DEF With
<1>11. 1 \in With(Empty, more)
    <2>1. 1 \in 1 .. 1 + n
        BY <1>3
    <2> QED BY <1>4, <1>6, <1>7, <2>1 DEF With
<1>12. With(Empty, more) = {1} \cup {k + 1 : k \in With(Empty, list)}
    BY <1>9, <1>10, <1>11
<1>13. Len(more) = n + 1
    BY <1>3, <1>5
<1> QED BY <1>1, <1>5, <1>7, <1>8, <1>12, <1>13 DEF first, n

\* What is prepended names no value, so that the list has the texts that it had.
LEMMA TextsKept ==
    ASSUME NEW list \in Seq(Made), NEW i \in Inputs, NEW v \in Values \cup {Null}
    PROVE  TextOf(v, doPrepend(i, list)) = TextOf(v, list)
<1> USE ValuesAssumption
<1>1. CASE Prepend[i] = Null
    BY <1>1 DEF doPrepend
<1>2. CASE v = Null
    BY <1>2 DEF TextOf, itemsByValue
<1>3. CASE Prepend[i] # Null /\ v # Null
    <2> DEFINE more == doPrepend(i, list)
               n == Len(list)
               was == itemsByValue(v, list)
               found == itemsByValue(v, more)
    <2>1. /\ more \in Seq(Made) /\ Len(more) = n + 1 /\ more[1] = Item(Empty, Prepend[i])
          /\ \A k \in 1 .. n : more[k + 1] = list[k]
        BY <1>3, EmptyAgain
    <2>2. n \in Nat /\ DOMAIN list = 1 .. n
        OBVIOUS
    <2> HIDE DEF more, n
    <2>3. DOMAIN more = 1 .. n + 1
        BY <2>1, <2>2
    <2>4. list # Null /\ more # Null
        BY <2>1
    <2>5. was = {k \in 1 .. n : With(v, Leaves(list[k])) # {}}
        BY <1>3, <2>2, <2>4 DEF itemsByValue
    <2>6. found = {k \in 1 .. n + 1 : With(v, Leaves(more[k])) # {}}
        BY <1>3, <2>3, <2>4 DEF itemsByValue
    <2>7. With(v, Leaves(more[1])) = {}
        BY <1>3, <2>1 DEF Leaves, With, Item
    <2> HIDE DEF was, found
    <2>8. ASSUME NEW k \in was PROVE k \in 1 .. n /\ k + 1 \in found /\ more[k + 1] = list[k]
        <3>1. k \in 1 .. n /\ k + 1 \in 1 .. n + 1
            BY <2>2, <2>5
        <3> QED BY <2>1, <2>5, <2>6, <3>1
    <2>9. ASSUME NEW k \in found PROVE k \in Nat /\ k - 1 \in was /\ k = (k - 1) + 1
        <3>1. k \in 1 .. n + 1 /\ k # 1
            BY <2>6, <2>7
        <3>2. k - 1 \in 1 .. n /\ k = (k - 1) + 1 /\ k \in Nat
            BY <2>2, <3>1
        <3> QED BY <2>1, <2>5, <2>6, <3>2
    <2>10. CASE was = {}
        <3>1. found = {}
            BY <2>9, <2>10
        <3> QED BY <2>10, <3>1 DEF TextOf, was, found, more
    <2>11. CASE was # {}
        <3>1. was \in SUBSET Nat /\ found \in SUBSET Nat /\ found # {}
            BY <2>2, <2>5, <2>8, <2>9, <2>11
        <3>2. Min(was) \in was /\ \A k \in was : Min(was) <= k
            BY <2>11, <3>1, MinIsLeast
        <3>3. Min(found) \in found /\ \A k \in found : Min(found) <= k
            BY <3>1, MinIsLeast
        <3> DEFINE k == Min(was)
                   l == Min(found)
        <3>4. k \in Nat /\ l \in Nat /\ k + 1 \in found /\ l - 1 \in was
            BY <2>8, <2>9, <3>1, <3>2, <3>3
        <3>5. l <= k + 1 /\ k <= l - 1
            BY <3>2, <3>3, <3>4
        <3>6. l = k + 1
            BY <3>4, <3>5
        <3>7. more[l] = list[k]
            BY <2>8, <3>2, <3>6
        <3> QED BY <2>11, <3>1, <3>7 DEF TextOf, was, found, more
    <2> QED BY <2>10, <2>11
<1> QED BY <1>1, <1>2, <1>3

LEMMA EmptyCounted ==
    ASSUME NEW s \in Sources, NEW items \in Seq(Made), IsList(s, items), NEW i \in Inputs,
           NEW twice
    PROVE  Cardinality(With(Empty, Prepended(i, twice, items))) =
               IF Prepend[i] = Null THEN 0 ELSE IF twice THEN 2 ELSE 1
<1>1. With(Empty, items) = {}
    BY NotPrepended
<1>2. CASE Prepend[i] = Null
    <2>1. Prepended(i, twice, items) = items
        BY <1>2 DEF Prepended, doPrepend
    <2> QED BY <1>1, <1>2, <2>1, FS_EmptySet
<1>3. CASE Prepend[i] # Null
    <2> DEFINE once == doPrepend(i, items)
    <2>1. once \in Seq(Made) /\ With(Empty, once) = {1}
        BY <1>1, <1>3, EmptyAgain
    <2>2. With(Empty, doPrepend(i, once)) = {1, 1 + 1}
        <3> HIDE DEF once
        <3>1. With(Empty, doPrepend(i, once)) = {1} \cup {k + 1 : k \in With(Empty, once)}
            BY <1>3, <2>1, EmptyAgain
        <3>2. {k + 1 : k \in With(Empty, once)} = {1 + 1}
            BY <2>1
        <3> QED BY <3>1, <3>2
    <2>3. Cardinality({1}) = 1 /\ IsFiniteSet({1})
        BY FS_Singleton
    <2>4. Cardinality({1} \cup {1 + 1}) = Cardinality({1}) + 1
        <3>1. 1 + 1 \notin {1}
            OBVIOUS
        <3> QED BY <2>3, <3>1, FS_AddElement
    <2>5. {1, 1 + 1} = {1} \cup {1 + 1}
        OBVIOUS
    <2>6. Cardinality({1, 1 + 1}) = 2
        BY <2>3, <2>4, <2>5
    <2> HIDE DEF once
    <2>7. Prepended(i, twice, items) = IF twice THEN doPrepend(i, once) ELSE once
        BY DEF Prepended, once
    <2> QED BY <1>3, <2>1, <2>2, <2>3, <2>6, <2>7
<1> QED BY <1>2, <1>3

\* Whether once or twice, the list is one and has the texts of the answer.
LEMMA PrependedTells ==
    ASSUME NEW s \in Sources, NEW items \in Seq(Made), IsList(s, items), NEW i \in Inputs,
           NEW twice
    PROVE  /\ Prepended(i, twice, items) \in Seq(Made)
           /\ \A v \in Values \cup {Null} :
                TextOf(v, Prepended(i, twice, items)) = TextOf(v, doPrepend(i, items))
<1>1. doPrepend(i, items) \in Seq(Made)
    BY EmptyAgain DEF doPrepend
<1>2. doPrepend(i, doPrepend(i, items)) \in Seq(Made)
    <2> DEFINE once == doPrepend(i, items)
    <2> HIDE DEF once
    <2>1. once \in Seq(Made)
        BY <1>1 DEF once
    <2>2. doPrepend(i, once) \in Seq(Made)
        BY <2>1, EmptyAgain DEF doPrepend
    <2> QED BY <2>2 DEF once
<1> QED BY <1>1, <1>2, TextsKept DEF Prepended

\* Lists that are made of answers hold what is prepended as often as it was, and the texts
\* of the answers.
LEMMA OriginTells == TypeOK /\ Origin => PrependedOnce /\ TextOfValue
<1> SUFFICES ASSUME TypeOK, Origin PROVE PrependedOnce /\ TextOfValue
    OBVIOUS
<1> USE DEF Origin, InputsOrigin, CacheOrigin
<1>1. ASSUME NEW i \in Inputs, sourceData[i] # Null
      PROVE  /\ Cardinality(With(Empty, sourceData[i].items)) =
                    IF Prepend[i] = Null THEN 0 ELSE IF sourceData[i].twice THEN 2 ELSE 1
             /\ \E data \in Answers[sourceData[i].of] :
                  /\ data.kind # "string"
                  /\ \A v \in Values :
                        LET told == TextOf(v, sourceData[i].items)
                        IN  told \in TextsFor(data, v) \/ (told = Null /\ TextsFor(data, v) = {})
    <2>1. sourceData[i].of \in Sources
        BY <1>1 DEF TypeOK
    <2> DEFINE twice == sourceData[i].twice
    <2>2. PICK items \in Seq(Made) : /\ IsList(sourceData[i].of, items)
                                     /\ sourceData[i].items = Prepended(i, twice, items)
        BY <1>1
    <2> HIDE DEF twice
    <2>3. PICK data \in Answers[sourceData[i].of] : data.kind = "list" /\ items = makeArray(data)
        BY <2>2 DEF IsList
    <2>4. ASSUME NEW v \in Values
          PROVE  LET told == TextOf(v, sourceData[i].items)
                 IN  told \in TextsFor(data, v) \/ (told = Null /\ TextsFor(data, v) = {})
        <3>1. v # Null
            BY ValuesAssumption
        <3>2. TextOf(v, sourceData[i].items) = TextOf(v, doPrepend(i, items))
            BY <2>1, <2>2, PrependedTells
        <3> QED BY <2>1, <2>2, <2>3, <3>1, <3>2, TextOfList
    <2>5. Cardinality(With(Empty, sourceData[i].items)) =
              IF Prepend[i] = Null THEN 0 ELSE IF twice THEN 2 ELSE 1
        BY <2>1, <2>2, EmptyCounted
    <2>6. data.kind # "string"
        BY <2>3
    <2> QED BY <2>3, <2>4, <2>5, <2>6 DEF twice
<1>2. ASSUME NEW u \in Urls, cache[u].items # Null
      PROVE  With(Empty, cache[u].items) = {}
    <2>1. IsList(u, cache[u].items) /\ u \in Sources
        BY <1>2 DEF Sources
    <2>2. With(Empty, cache[u].items) = {}
        BY <2>1, NotPrepended
    <2> QED BY <2>2
<1> QED BY <1>1, <1>2 DEF PrependedOnce, TextOfValue

-----------------------------------------------------------------------------
(* Who waits where.                                                        *)

LEMMA QueueTyped ==
    ASSUME CacheTyped, NEW u \in Urls
    PROVE  Queue(u) \in Seq(Call) /\ ToSet(Queue(u)) = {Queue(u)[k] : k \in 1 .. Len(Queue(u))}
           /\ DOMAIN Queue(u) = 1 .. Len(Queue(u)) /\ Len(Queue(u)) \in Nat
<1>1. Queue(u) \in Seq(Call)
    BY DEF CacheTyped, Queue
<1> QED BY <1>1 DEF ToSet

\* A call that joins a queue is its last; the other queues stay.
LEMMA JoinQueues ==
    ASSUME CacheTyped, NEW c \in Call, JoinQueue(c)
    PROVE  LET u == source[c.input]
           IN  /\ CacheTyped'
               /\ \A w \in Urls : /\ cache'[w].loading = cache[w].loading
                                  /\ cache'[w].items = cache[w].items
               /\ u \in Urls /\ cache[u].loading
               /\ \A w \in Urls :
                      Queue(w)' = IF w = u THEN Append(Queue(w), c) ELSE Queue(w)
<1> DEFINE u == source[c.input]
<1>1. u \in Urls /\ cache[u].loading /\ cache' = [cache EXCEPT ![u].callbacks = Append(@, c)]
    BY DEF JoinQueue, Loading, Cached
<1>2. cache[u].callbacks \in Seq(Call) /\ Append(cache[u].callbacks, c) \in Seq(Call)
    BY <1>1 DEF CacheTyped
<1> HIDE DEF u
<1>3. CacheTyped'
    BY <1>1, <1>2 DEF CacheTyped
<1>4. \A w \in Urls \ {u} : cache'[w] = cache[w]
    BY <1>1 DEF CacheTyped
<1>5. /\ cache'[u].loading = cache[u].loading /\ cache'[u].items = cache[u].items
      /\ cache'[u].callbacks = Append(cache[u].callbacks, c)
    BY <1>1 DEF CacheTyped
<1>6. ASSUME NEW w \in Urls, w = u PROVE Queue(w)' = Append(Queue(w), c)
    BY <1>1, <1>5, <1>6 DEF Queue
<1>7. \A w \in Urls \ {u} : Queue(w)' = Queue(w)
    BY <1>4 DEF Queue
<1>8. \A w \in Urls : cache'[w].loading = cache[w].loading /\ cache'[w].items = cache[w].items
    BY <1>4, <1>5
<1> QED BY <1>1, <1>3, <1>6, <1>7, <1>8 DEF u

\* A request leaves the queues as they are: that of its url was empty and is.
LEMMA AskQueues ==
    ASSUME CacheTyped, NEW c \in Call, AskServer(c)
    PROVE  LET u == source[c.input]
           IN  /\ CacheTyped'
               /\ u \in Urls /\ requests' = requests \cup {[url |-> u, call |-> c, cached |-> Cached(c)]}
               /\ \A w \in Urls : /\ cache'[w].items = cache[w].items
                                  /\ cache'[w].loading <=> cache[w].loading \/ (w = u /\ Cached(c))
                                  /\ Queue(w)' = Queue(w)
               /\ Cached(c) => ~cache[u].loading
<1> DEFINE u == source[c.input]
<1>1. /\ u \in Urls /\ (Cached(c) => ~cache[u].loading)
      /\ requests' = requests \cup {[url |-> u, call |-> c, cached |-> Cached(c)]}
    BY DEF AskServer, Loading
<1>2. CASE ~Cached(c)
    <2>1. cache' = cache
        BY <1>2 DEF AskServer
    <2> QED BY <1>1, <1>2, <2>1 DEF CacheTyped, Queue
<1>3. CASE Cached(c)
    <2>1. cache' = [cache EXCEPT ![u].loading = TRUE, ![u].callbacks = <<>>]
        BY <1>3 DEF AskServer
    <2> HIDE DEF u
    <2>2. \A w \in Urls \ {u} : cache'[w] = cache[w]
        BY <2>1 DEF CacheTyped
    <2>3. /\ cache'[u].loading = TRUE /\ cache'[u].items = cache[u].items
          /\ cache'[u].callbacks = <<>>
        BY <1>1, <2>1 DEF CacheTyped
    <2>4. CacheTyped'
        <3>1. <<>> \in Seq(Call)
            OBVIOUS
        <3> QED BY <1>1, <2>1, <3>1 DEF CacheTyped
    <2> QED BY <1>1, <1>3, <2>2, <2>3, <2>4 DEF Queue, u
<1> QED BY <1>2, <1>3

\* An answer empties the queue of a url that was loading.
LEMMA DoneQueues ==
    ASSUME CacheTyped, NEW r, r.url \in Urls, r.cached \in BOOLEAN,
           NEW items \in Seq(Made) \cup {Null}, r.cached => cache[r.url].loading,
           cache' = Loaded(r, items)
    PROVE  /\ CacheTyped'
           /\ \A w \in Urls :
                /\ cache'[w].items = IF r.cached /\ w = r.url THEN items ELSE cache[w].items
                /\ cache'[w].loading <=> cache[w].loading /\ ~(r.cached /\ w = r.url)
                /\ Queue(w)' = IF r.cached /\ w = r.url THEN <<>> ELSE Queue(w)
           /\ Batch(r) = IF r.cached THEN Append(Queue(r.url), r.call) ELSE <<r.call>>
<1> DEFINE u == r.url
<1>1. CASE ~r.cached
    <2>1. cache' = cache
        BY <1>1 DEF Loaded
    <2> QED BY <1>1, <2>1 DEF CacheTyped, Queue, Batch
<1>2. CASE r.cached
    <2>1. cache' = [cache EXCEPT ![u].loading = FALSE, ![u].items = items]
        BY <1>2 DEF Loaded
    <2>5. u \in Urls /\ cache[u].loading
        BY <1>2
    <2>6. Batch(r) = Append(Queue(u), r.call)
        BY <1>2, <2>5 DEF Batch, Queue
    <2> HIDE DEF u
    <2>2. \A w \in Urls \ {u} : cache'[w] = cache[w]
        BY <2>1 DEF CacheTyped
    <2>3. /\ cache'[u].loading = FALSE /\ cache'[u].items = items
          /\ cache'[u].callbacks = cache[u].callbacks
        BY <2>5, <2>1 DEF CacheTyped
    <2>4. CacheTyped'
        <3>1. cache[u].callbacks \in Seq(Call)
            BY <2>5 DEF CacheTyped
        <3>2. [cache[u] EXCEPT !.loading = FALSE, !.items = items]
                  \in [loading : BOOLEAN, items : Seq(Made) \cup {Null}, callbacks : Seq(Call)]
            BY <2>5, <3>1 DEF CacheTyped
        <3>3. cache' = [cache EXCEPT ![u] = [cache[u] EXCEPT !.loading = FALSE, !.items = items]]
            BY <2>1, <2>5 DEF CacheTyped
        <3> QED BY <2>5, <3>2, <3>3 DEF CacheTyped
    <2> QED BY <1>2, <2>2, <2>3, <2>4, <2>5, <2>6 DEF Queue, u
<1> QED BY <1>1, <1>2

LEMMA TypesUsed ==
    ASSUME TypeOK
    PROVE  /\ CacheTyped
           /\ \A r \in requests : r.url \in Urls /\ r.call \in Call /\ r.cached \in BOOLEAN
           /\ \A c \in waiting : c \in Call /\ c.id <= calls
           /\ waiting \subseteq Call
BY DEF TypeOK, CacheTyped

\* A call that is new waits in the queue that it joins, and there only.
LEMMA JoinPlaces ==
    ASSUME TypeOK, Places, NEW c \in Call, c \notin waiting,
           JoinQueue(c), waiting' = waiting \cup {c}
    PROVE  Places'
<1> DEFINE u == source[c.input]
<1>1. /\ CacheTyped' /\ u \in Urls
      /\ \A w \in Urls : /\ cache'[w].loading = cache[w].loading
                         /\ Queue(w)' = IF w = u THEN Append(Queue(w), c) ELSE Queue(w)
    BY TypesUsed, JoinQueues
<1>2. requests' = requests
    BY DEF JoinQueue
<1>3. \A w \in Urls :
          /\ Queue(w) \in Seq(Call) /\ Len(Queue(w)) \in Nat /\ DOMAIN Queue(w) = 1 .. Len(Queue(w))
          /\ DOMAIN Queue(w)' = IF w = u THEN 1 .. Len(Queue(w)) + 1 ELSE DOMAIN Queue(w)
          /\ \A k \in DOMAIN Queue(w) : Queue(w)'[k] = Queue(w)[k]
          /\ w = u => Queue(w)'[Len(Queue(w)) + 1] = c
    <2>1. TAKE w \in Urls
    <2>2. /\ Queue(w) \in Seq(Call) /\ Len(Queue(w)) \in Nat /\ DOMAIN Queue(w) = 1 .. Len(Queue(w))
        BY TypesUsed, QueueTyped
    <2>3. CASE w = u
        <3>1. Queue(w)' = Append(Queue(w), c)
            BY <1>1, <2>3
        <3> HIDE DEF u
        <3> QED BY <2>2, <2>3, <3>1
    <2>4. CASE w # u
        BY <1>1, <2>2, <2>4
    <2> QED BY <2>3, <2>4
<1> HIDE DEF u
<1>4. (\A r \in requests : r.call # c) /\ (\A w \in Urls : \A k \in DOMAIN Queue(w) : Queue(w)[k] # c)
    BY DEF Places, Waits, Queued
<1>5. \A w \in Urls : \A k \in DOMAIN Queue(w)' :
          \/ k \in DOMAIN Queue(w) /\ Queue(w)'[k] = Queue(w)[k]
          \/ w = u /\ k = Len(Queue(w)) + 1 /\ Queue(w)'[k] = c
    BY <1>3
<1>6. Loads' /\ IsFiniteSet(requests')
    BY <1>1, <1>2 DEF Places, Loads
<1>7. Apart'
    <2>1. \A r, s \in requests' : r.call = s.call => r = s
        BY <1>2 DEF Places, Apart
    <2>2. ASSUME NEW w \in Urls, NEW x \in Urls, NEW k \in DOMAIN Queue(w)',
                 NEW l \in DOMAIN Queue(x)', Queue(w)'[k] = Queue(x)'[l]
          PROVE  w = x /\ k = l
        <3>1. CASE k \in DOMAIN Queue(w) /\ l \in DOMAIN Queue(x)
            BY <1>3, <2>2, <3>1 DEF Places, Apart
        <3>2. CASE k \notin DOMAIN Queue(w) \/ l \notin DOMAIN Queue(x)
            BY <1>4, <1>5, <2>2, <3>2
        <3> QED BY <3>1, <3>2
    <2>3. \A r \in requests', w \in Urls : \A k \in DOMAIN Queue(w)' : Queue(w)'[k] # r.call
        BY <1>2, <1>4, <1>5 DEF Places, Apart
    <2> QED BY <2>1, <2>2, <2>3 DEF Apart
<1>8. Waits'
    <2>1. ASSUME NEW d \in Call PROVE Queued(d)' <=> Queued(d) \/ d = c
        <3>1. Queued(d)' => Queued(d) \/ d = c
            BY <1>5 DEF Queued
        <3>2. Queued(d) => Queued(d)'
            BY <1>3 DEF Queued
        <3>3. d = c => Queued(d)'
            BY <1>1, <1>3 DEF Queued
        <3> QED BY <3>1, <3>2, <3>3
    <2> QED BY <1>2, <2>1 DEF Places, Waits
<1> QED BY <1>6, <1>7, <1>8 DEF Places

\* A call that is new waits for the request that it sends.
LEMMA AskPlaces ==
    ASSUME TypeOK, Places, NEW c \in Call, c \notin waiting,
           AskServer(c), waiting' = waiting \cup {c}
    PROVE  Places'
<1> DEFINE u == source[c.input]
           r == [url |-> u, call |-> c, cached |-> Cached(c)]
<1>1. /\ u \in Urls /\ requests' = requests \cup {r}
      /\ \A w \in Urls : /\ cache'[w].loading <=> cache[w].loading \/ (w = u /\ Cached(c))
                         /\ Queue(w)' = Queue(w)
      /\ Cached(c) => ~cache[u].loading
    BY TypesUsed, AskQueues
<1>2. r.url = u /\ r.call = c /\ (r.cached <=> Cached(c))
    OBVIOUS
<1> HIDE DEF u, r
<1>3. (\A s \in requests : s.call # c) /\ (\A w \in Urls : \A k \in DOMAIN Queue(w) : Queue(w)[k] # c)
    BY DEF Places, Waits, Queued
<1>4. IsFiniteSet(requests')
    BY <1>1, FS_AddElement DEF Places
<1>5. Loads'
    BY <1>1, <1>2 DEF Places, Loads
<1>6. Apart'
    <2>1. \A s, t \in requests' : s.call = t.call => s = t
        BY <1>1, <1>2, <1>3 DEF Places, Apart
    <2>2. \A w, x \in Urls : \A k \in DOMAIN Queue(w)', l \in DOMAIN Queue(x)' :
              Queue(w)'[k] = Queue(x)'[l] => w = x /\ k = l
        BY <1>1 DEF Places, Apart
    <2>3. \A s \in requests', w \in Urls : \A k \in DOMAIN Queue(w)' : Queue(w)'[k] # s.call
        BY <1>1, <1>2, <1>3 DEF Places, Apart
    <2> QED BY <2>1, <2>2, <2>3 DEF Apart
<1>7. Waits'
    <2>1. \A d \in Call : Queued(d)' <=> Queued(d)
        BY <1>1 DEF Queued
    <2>2. \A d \in Call : (\E s \in requests' : s.call = d) <=> (\E s \in requests : s.call = d) \/ d = c
        BY <1>1, <1>2
    <2> QED BY <2>1, <2>2 DEF Places, Waits
<1> QED BY <1>4, <1>5, <1>6, <1>7 DEF Places

\* The calls that an answer concerns.
LEMMA BatchCalls ==
    ASSUME TypeOK, Places, NEW r \in requests
    PROVE  /\ r.cached => cache[r.url].loading
           /\ Batch(r) \in Seq(Call)
           /\ DOMAIN Batch(r) = 1 .. Len(Batch(r)) /\ Len(Batch(r)) \in Nat
           /\ ToSet(Batch(r)) = {d \in Call : d = r.call \/ (r.cached /\ \E k \in DOMAIN Queue(r.url) : Queue(r.url)[k] = d)}
           /\ ToSet(Batch(r)) \subseteq waiting
           /\ Batch(r) = IF r.cached THEN Append(Queue(r.url), r.call) ELSE <<r.call>>
<1> DEFINE u == r.url
<1>1. u \in Urls /\ r.call \in Call /\ r.cached \in BOOLEAN /\ CacheTyped
    BY TypesUsed
<1>2. r.cached => cache[u].loading
    BY <1>1 DEF Places, Loads
<1>3. Batch(r) = IF r.cached THEN Append(Queue(u), r.call) ELSE <<r.call>>
    BY <1>2 DEF Batch, Queue
<1>4. Queue(u) \in Seq(Call) /\ DOMAIN Queue(u) = 1 .. Len(Queue(u)) /\ Len(Queue(u)) \in Nat
    BY <1>1, QueueTyped
<1> HIDE DEF u
<1>5. /\ Batch(r) \in Seq(Call) /\ DOMAIN Batch(r) = 1 .. Len(Batch(r)) /\ Len(Batch(r)) \in Nat
      /\ \A d : (\E k \in DOMAIN Batch(r) : Batch(r)[k] = d) <=>
                d = r.call \/ (r.cached /\ \E k \in DOMAIN Queue(u) : Queue(u)[k] = d)
    <2>1. CASE r.cached
        <3>1. Batch(r) = Append(Queue(u), r.call)
            BY <1>3, <2>1
        <3> QED BY <1>1, <1>4, <2>1, <3>1
    <2>2. CASE ~r.cached
        <3>1. Batch(r) = <<r.call>>
            BY <1>3, <2>2
        <3> QED BY <1>1, <2>2, <3>1
    <2> QED BY <2>1, <2>2
<1>6. ToSet(Batch(r)) = {d \in Call : d = r.call \/ (r.cached /\ \E k \in DOMAIN Queue(u) : Queue(u)[k] = d)}
    <2>1. ToSet(Batch(r)) = {Batch(r)[k] : k \in DOMAIN Batch(r)}
        BY DEF ToSet
    <2>2. \A k \in DOMAIN Batch(r) : Batch(r)[k] \in Call
        BY <1>5
    <2> DEFINE there(d) == d = r.call \/ (r.cached /\ \E k \in DOMAIN Queue(u) : Queue(u)[k] = d)
    <2>3. \A d : d \in ToSet(Batch(r)) <=> \E k \in DOMAIN Batch(r) : Batch(r)[k] = d
        BY <2>1
    <2>4. \A d : d \in ToSet(Batch(r)) <=> there(d)
        BY <1>5, <2>3
    <2>5. \A d \in ToSet(Batch(r)) : d \in Call
        BY <2>2, <2>3
    <2> HIDE DEF there
    <2>6. ToSet(Batch(r)) = {d \in Call : there(d)}
        BY <2>4, <2>5
    <2> QED BY <2>6 DEF there
<1>7. ToSet(Batch(r)) \subseteq waiting
    BY <1>1, <1>6 DEF Places, Waits, Queued
<1> QED BY <1>2, <1>3, <1>5, <1>6, <1>7 DEF u

\* The calls of an answer are in no place any more, and the others stay in theirs.
LEMMA DonePlaces ==
    ASSUME TypeOK, Places, NEW r \in requests, NEW items \in Seq(Made) \cup {Null},
           cache' = Loaded(r, items), requests' = requests \ {r},
           waiting' = waiting \ ToSet(Batch(r))
    PROVE  Places'
<1> DEFINE u == r.url
<1>1. u \in Urls /\ r.call \in Call /\ r.cached \in BOOLEAN /\ CacheTyped
    BY TypesUsed
<1>2. /\ r.cached => cache[u].loading
      /\ ToSet(Batch(r)) = {d \in Call : d = r.call \/ (r.cached /\ \E k \in DOMAIN Queue(u) : Queue(u)[k] = d)}
    BY BatchCalls
<1>3. \A w \in Urls : /\ cache'[w].loading <=> cache[w].loading /\ ~(r.cached /\ w = u)
                      /\ Queue(w)' = IF r.cached /\ w = u THEN <<>> ELSE Queue(w)
    BY <1>1, <1>2, DoneQueues
<1> HIDE DEF u
<1>4. \A w \in Urls : \A k \in DOMAIN Queue(w)' :
          ~(r.cached /\ w = u) /\ k \in DOMAIN Queue(w) /\ Queue(w)'[k] = Queue(w)[k]
    <2>1. TAKE w \in Urls
    <2>2. CASE r.cached /\ w = u
        <3>1. Queue(w)' = <<>>
            BY <1>3, <2>2
        <3> QED BY <3>1
    <2>3. CASE ~(r.cached /\ w = u)
        BY <1>3, <2>3
    <2> QED BY <2>2, <2>3
<1>5. IsFiniteSet(requests')
    BY FS_RemoveElement DEF Places
<1>6. Loads'
    <2>1. \A s, t \in requests' : s.cached /\ t.cached /\ s.url = t.url => s = t
        BY DEF Places, Loads
    <2>2. \A w \in Urls : cache'[w].loading <=> \E s \in requests' : s.cached /\ s.url = w
        BY <1>3 DEF Places, Loads, u
    <2> QED BY <2>1, <2>2 DEF Loads
<1>7. Apart'
    BY <1>4 DEF Places, Apart
<1>8. Waits'
    <2>1. ASSUME NEW d \in Call
          PROVE  d \in waiting' <=> (\E s \in requests' : s.call = d) \/ Queued(d)'
        <3>1. d \in waiting <=> (\E s \in requests : s.call = d) \/ Queued(d)
            BY DEF Places, Waits
        <3>2. d \in waiting' <=> /\ d \in waiting /\ d # r.call
                                 /\ ~(r.cached /\ \E k \in DOMAIN Queue(u) : Queue(u)[k] = d)
            BY <1>2
        <3>3. (\E s \in requests' : s.call = d) <=> (\E s \in requests : s.call = d) /\ d # r.call
            BY DEF Places, Apart
        <3>4. (\E s \in requests : s.call = d) =>
                  ~(r.cached /\ \E k \in DOMAIN Queue(u) : Queue(u)[k] = d)
            BY <1>1 DEF Places, Apart, u
        <3>5. Queued(d) => d # r.call
            BY DEF Places, Apart, Queued
        <3>6. Queued(d)' <=> Queued(d) /\ ~(r.cached /\ \E k \in DOMAIN Queue(u) : Queue(u)[k] = d)
            <4>1. Queued(d)' => Queued(d) /\ ~(r.cached /\ \E k \in DOMAIN Queue(u) : Queue(u)[k] = d)
                BY <1>1, <1>4 DEF Queued, Places, Apart
            <4>2. Queued(d) /\ ~(r.cached /\ \E k \in DOMAIN Queue(u) : Queue(u)[k] = d) => Queued(d)'
                BY <1>3 DEF Queued
            <4> QED BY <4>1, <4>2
        <3> QED BY <3>1, <3>2, <3>3, <3>4, <3>5, <3>6
    <2> QED BY <2>1 DEF Waits
<1> QED BY <1>5, <1>6, <1>7, <1>8 DEF Places

\* Whoever waits in one place is not lost.
LEMMA PlacesKeepCalls == TypeOK /\ Places => NoCallLost
<1> SUFFICES ASSUME TypeOK, Places PROVE NoCallLost
    OBVIOUS
<1> DEFINE asked == {r.call : r \in requests}
           queued(u) == IF cache[u].loading THEN cache[u].callbacks ELSE <<>>
<1>1. \A u \in Urls : queued(u) = Queue(u)
    BY DEF Queue
<1>2. \A u \in Urls : ToSet(queued(u)) = {Queue(u)[k] : k \in DOMAIN Queue(u)}
    BY <1>1 DEF ToSet
<1>3. \A u \in Urls : \A k \in DOMAIN Queue(u) : Queue(u)[k] \in Call
    <2>1. TAKE u \in Urls
    <2>2. Queue(u) \in Seq(Call)
        BY TypesUsed, QueueTyped
    <2> QED BY <2>2
<1>4. OneLoadEach
    <2> SUFFICES ASSUME NEW u \in Urls
                 PROVE  Cardinality({r \in requests : r.url = u /\ r.cached}) =
                            IF cache[u].loading THEN 1 ELSE 0
        BY DEF OneLoadEach
    <2> DEFINE loads == {r \in requests : r.url = u /\ r.cached}
    <2>2. CASE cache[u].loading
        <3>1. PICK r \in requests : r.cached /\ r.url = u
            BY <2>2 DEF Places, Loads
        <3>2. loads = {r}
            BY <3>1 DEF Places, Loads
        <3> QED BY <2>2, <3>2, FS_Singleton
    <2>3. CASE ~cache[u].loading
        <3>1. loads = {}
            BY <2>3 DEF Places, Loads
        <3> QED BY <2>3, <3>1, FS_EmptySet
    <2> QED BY <2>2, <2>3
<1>5. waiting = asked \cup UNION {ToSet(queued(u)) : u \in Urls}
    <2> DEFINE all == asked \cup UNION {ToSet(queued(u)) : u \in Urls}
    <2>1. \A c \in all : c \in Call /\ c \in waiting
        <3>1. TAKE c \in all
        <3>2. c \in asked \/ \E u \in Urls : c \in ToSet(queued(u))
            <4> HIDE DEF queued
            <4> QED OBVIOUS
        <3>3. c \in Call /\ (c \in asked \/ Queued(c))
            BY <1>2, <1>3, <3>2, TypesUsed DEF Queued
        <3> QED BY <3>3 DEF Places, Waits
    <2>2. \A c \in waiting : c \in all
        <3>1. TAKE c \in waiting
        <3>2. c \in asked \/ Queued(c)
            BY TypesUsed DEF Places, Waits
        <3>3. Queued(c) => \E u \in Urls : c \in ToSet(queued(u))
            BY <1>2 DEF Queued
        <3> HIDE DEF queued
        <3> QED BY <3>2, <3>3
    <2> QED BY <2>1, <2>2
<1>6. Cardinality(asked) = Cardinality(requests)
    <2> DEFINE f == [r \in requests |-> r.call]
    <2>1. f \in Bijection(requests, asked)
        BY DEF Places, Apart, Bijection, Injection, Surjection, IsInjective
    <2> QED BY <2>1, FS_Bijection DEF ExistsBijection, Places
<1>7. ASSUME NEW u \in Urls
      PROVE  /\ IsInjective(queued(u)) /\ ToSet(queued(u)) \cap asked = {}
             /\ \A w \in Urls \ {u} : ToSet(queued(u)) \cap ToSet(queued(w)) = {}
    <2>1. IsInjective(Queue(u))
        BY DEF IsInjective, Places, Apart
    <2>2. ToSet(queued(u)) \cap asked = {}
        <3> HIDE DEF queued
        <3> QED BY <1>2 DEF Places, Apart
    <2>3. \A w \in Urls \ {u} : ToSet(queued(u)) \cap ToSet(queued(w)) = {}
        <3> HIDE DEF queued
        <3> QED BY <1>2 DEF Places, Apart
    <2> QED BY <1>1, <2>1, <2>2, <2>3
<1> QED BY <1>4, <1>5, <1>6, <1>7 DEF NoCallLost

-----------------------------------------------------------------------------
(* What the calls do when they are called back.                            *)

\* A list made of an answer is one, with or without what is prepended.
LEMMA ListTyped ==
    ASSUME NEW s \in Sources, NEW items, IsList(s, items), NEW i \in Inputs
    PROVE  items \in Seq(Made) /\ doPrepend(i, items) \in Seq(Made)
<1>1. PICK data \in Answers[s] : data.kind = "list" /\ items = makeArray(data)
    BY DEF IsList
<1>2. data \in Answer
    BY SourcesAssumption
<1> QED BY <1>1, <1>2, PrependedItems

\* An answer makes a list, or none.
LEMMA AnswerMade ==
    ASSUME NEW s \in Sources, NEW data \in Answers[s]
    PROVE  LET items == makeArray(data)
           IN  items # Null => IsList(s, items)
<1>1. data \in Answer
    BY SourcesAssumption
<1>2. data.kind = "string" \/ data.kind = "list"
    BY <1>1 DEF Answer
<1>3. data.kind = "string" => makeArray(data) = Null
    BY DEF makeArray
<1> QED BY <1>2, <1>3 DEF IsList

\* Elements are given texts, and say so when they have none.
LEMMA TextsGiven ==
    ASSUME TextTyped, Says, NEW given, DOMAIN given \subseteq Inputs,
           \A i \in DOMAIN given :
               /\ given[i] \in [value : Values \cup {Null}, text : Texts \cup {EmptyText, Null}]
               /\ given[i].text = EmptyText => i \in failed',
           handleEmpty(given), disabled' = disabled, failed \subseteq failed'
    PROVE  /\ TextTyped' /\ Says'
           /\ \A i \in Inputs : shown'[i].value = IF i \in DOMAIN given THEN given[i].value
                                                  ELSE shown[i].value
<1> USE TextAssumption
<1>1. isEmpty' = (isEmpty \ DOMAIN given) \cup {i \in DOMAIN given : given[i].text = Null}
    BY DEF handleEmpty
<1>2. shown' = [i \in Inputs |->
                    IF i \notin DOMAIN given THEN shown[i]
                    ELSE IF i \in isEmpty' \ disabled THEN [given[i] EXCEPT !.text = EmptyText]
                    ELSE given[i]]
    BY DEF handleEmpty
<1>3. ASSUME NEW i \in Inputs
      PROVE  /\ shown'[i] \in [value : Values \cup {Null}, text : Texts \cup {EmptyText, Null}]
             /\ shown'[i].value = IF i \in DOMAIN given THEN given[i].value ELSE shown[i].value
             /\ i \in isEmpty' => shown'[i].text = IF i \in disabled' THEN Null ELSE EmptyText
             /\ i \notin isEmpty' => /\ shown'[i].text # Null
                                     /\ i \notin failed' => shown'[i].text # EmptyText
    <2>1. CASE i \notin DOMAIN given
        <3>1. shown'[i] = shown[i] /\ (i \in isEmpty' <=> i \in isEmpty)
            BY <1>1, <1>2, <2>1
        <3> QED BY <2>1, <3>1 DEF TextTyped, Says
    <2>2. CASE i \in DOMAIN given /\ i \in isEmpty' \ disabled
        <3>1. shown'[i] = [given[i] EXCEPT !.text = EmptyText]
            BY <1>2, <2>2
        <3> QED BY <2>2, <3>1
    <2>3. CASE i \in DOMAIN given /\ i \notin isEmpty' \ disabled
        <3>1. shown'[i] = given[i]
            BY <1>2, <2>3
        <3>2. i \in isEmpty' <=> given[i].text = Null
            BY <1>1, <2>3
        <3> QED BY <2>3, <3>1, <3>2
    <2> QED BY <2>1, <2>2, <2>3
<1>4. TextTyped'
    BY <1>1, <1>2, <1>3 DEF TextTyped
<1>5. Says'
    BY <1>3 DEF Says
<1> QED BY <1>3, <1>4, <1>5

\* The calls of a batch that show the value of an input have a last one.
LEMMA LastOfBatch ==
    ASSUME NEW batch \in Seq(Call), NEW i \in Inputs, Showing(batch, i) # {}
    PROVE  LET k == Max(Showing(batch, i))
           IN  /\ k \in Showing(batch, i) /\ \A l \in Showing(batch, i) : l <= k
               /\ batch[k] \in Call
<1>1. DOMAIN batch = 1 .. Len(batch) /\ Len(batch) \in Nat
    OBVIOUS
<1>2. Showing(batch, i) \in SUBSET (1 .. Len(batch))
    BY <1>1 DEF Showing
<1>3. /\ Max(Showing(batch, i)) \in Showing(batch, i)
      /\ \A l \in Showing(batch, i) : l <= Max(Showing(batch, i))
    BY <1>1, <1>2, MaxIsLast
<1> QED BY <1>2, <1>3

\* A list reaches every input of a batch, and the last to show a value of an input has it
\* shown.
LEMMA SucceedStep ==
    ASSUME TypeOK, InputsOrigin, Says, NEW batch \in Seq(Call), NEW s \in Sources, NEW items,
           IsList(s, items), Succeed(batch, s, items), disabled' = disabled
    PROVE  /\ DataTyped' /\ TextTyped' /\ InputsOrigin' /\ Says' /\ failed' = failed
           /\ \A i \in Inputs :
                IF \E c \in ToSet(batch) : c.input = i THEN sourceData'[i].of = s
                ELSE sourceData'[i] = sourceData[i]
           /\ \A i \in Inputs :
                IF Showing(batch, i) = {} THEN shown'[i].value = shown[i].value
                ELSE \E k \in Showing(batch, i) : /\ \A l \in Showing(batch, i) : l <= k
                                                  /\ shown'[i].value = batch[k].value
<1>1. sourceData' = [i \in Inputs |->
                        IF \E c \in ToSet(batch) : c.input = i
                        THEN Taken(batch, i, s, items) ELSE sourceData[i]]
    BY DEF Succeed
<1>2. failed' = failed
    BY DEF Succeed
<1>3. items \in Seq(Made) /\ \A i \in Inputs : doPrepend(i, items) \in Seq(Made)
    <2>1. \A i \in Inputs : items \in Seq(Made) /\ doPrepend(i, items) \in Seq(Made)
        BY ListTyped
    <2>2. items \in Seq(Made)
        <3>1. PICK data \in Answers[s] : data.kind = "list" /\ items = makeArray(data)
            BY DEF IsList
        <3>2. data.items \in Seq(Listed)
            BY <3>1, SourcesAssumption DEF Answer
        <3>3. \A k \in 1 .. Len(data.items) : makeItem(data.items[k]) \in Made
            BY <3>2, ItemTyped
        <3> QED BY <3>1, <3>2, <3>3 DEF makeArray
    <2> QED BY <2>1, <2>2
<1>13. ASSUME NEW i \in Inputs
       PROVE  LET list == Taken(batch, i, s, items)
              IN  /\ list \in [of : Sources, twice : BOOLEAN, items : Seq(Made)]
                  /\ list.of = s /\ list.items = Prepended(i, list.twice, items)
    <2> DEFINE twice == /\ Last(batch).input = i
                        /\ \E k \in 1 .. Len(batch) - 1 : batch[k].input = i
    <2>1. Taken(batch, i, s, items) =
              [of |-> s, twice |-> twice, items |-> Prepended(i, twice, items)]
        BY DEF Taken, Prepended
    <2>2. twice \in BOOLEAN
        OBVIOUS
    <2> HIDE DEF twice
    <2>3. Prepended(i, twice, items) \in Seq(Made)
        BY <1>3, PrependedTells
    <2> QED BY <2>1, <2>2, <2>3
<1>4. DataTyped'
    BY <1>1, <1>13 DEF TypeOK, DataTyped
<1>5. \A i \in Inputs :
          IF \E c \in ToSet(batch) : c.input = i
          THEN /\ sourceData'[i].of = s
               /\ sourceData'[i].items = Prepended(i, sourceData'[i].twice, items)
          ELSE sourceData'[i] = sourceData[i]
    BY <1>1, <1>13
<1>6. InputsOrigin'
    BY <1>3, <1>5 DEF InputsOrigin
<1> DEFINE given == [i \in {j \in Inputs : Showing(batch, j) # {}} |->
                        LET v == batch[Max(Showing(batch, i))].value
                        IN  [value |-> v, text |-> TextOf(v, doPrepend(i, items))]]
<1>7. handleEmpty(given)
    BY DEF Succeed
<1>8. \A i \in DOMAIN given :
          /\ i \in Inputs /\ Showing(batch, i) # {}
          /\ given[i].value = batch[Max(Showing(batch, i))].value
          /\ given[i] \in [value : Values \cup {Null}, text : Texts \cup {Null}]
    <2>1. TAKE i \in DOMAIN given
    <2>2. i \in Inputs /\ Showing(batch, i) # {}
        OBVIOUS
    <2> DEFINE v == batch[Max(Showing(batch, i))].value
    <2>3. v \in Values \cup {Null}
        BY <2>2, LastOfBatch DEF Call
    <2>4. PICK data \in Answers[s] : data.kind = "list" /\ items = makeArray(data)
        BY DEF IsList
    <2>5. TextOf(v, doPrepend(i, items)) \in Texts \cup {Null}
        BY <2>2, <2>3, <2>4, TextOfList
    <2>6. given[i] = [value |-> v, text |-> TextOf(v, doPrepend(i, items))]
        OBVIOUS
    <2> HIDE DEF given, v
    <2>7. /\ given[i] \in [value : Values \cup {Null}, text : Texts \cup {Null}]
          /\ given[i].value = v
        BY <2>3, <2>5, <2>6
    <2> QED BY <2>2, <2>7 DEF v
<1>9. DOMAIN given = {j \in Inputs : Showing(batch, j) # {}}
    OBVIOUS
<1> HIDE DEF given
<1>10. /\ TextTyped' /\ Says'
       /\ \A i \in Inputs : shown'[i].value = IF i \in DOMAIN given THEN given[i].value
                                              ELSE shown[i].value
    <2>1. \A i \in DOMAIN given :
              /\ given[i] \in [value : Values \cup {Null}, text : Texts \cup {EmptyText, Null}]
              /\ given[i].text # EmptyText
        BY <1>8, TextAssumption
    <2>2. TextTyped
        BY DEF TypeOK, TextTyped
    <2>3. DOMAIN given \subseteq Inputs
        BY <1>9
    <2> QED BY <1>2, <1>7, <2>1, <2>2, <2>3, TextsGiven
<1>11. \A i \in Inputs :
          IF Showing(batch, i) = {} THEN shown'[i].value = shown[i].value
          ELSE \E k \in Showing(batch, i) : /\ \A l \in Showing(batch, i) : l <= k
                                            /\ shown'[i].value = batch[k].value
    BY <1>8, <1>9, <1>10, LastOfBatch
<1> QED BY <1>2, <1>4, <1>5, <1>6, <1>10, <1>11

\* Without a list, elements show what they showed.
LEMMA FailStep ==
    ASSUME TypeOK, Says, NEW batch \in Seq(Call), Fail(batch), disabled' = disabled
    PROVE  /\ TextTyped' /\ Says' /\ failed' \subseteq Inputs /\ failed \subseteq failed'
           /\ \A i \in Inputs : shown'[i].value = shown[i].value
           /\ \A i \in Inputs : Showing(batch, i) # {} => i \in failed'
<1> DEFINE of == {c.input : c \in {d \in ToSet(batch) : d.goal = "show"}}
           given == [i \in of |-> shown[i]]
<1>1. failed' = failed \cup of /\ handleEmpty(given)
    BY DEF Fail
<1>2. \A k \in DOMAIN batch : batch[k] \in Call
    OBVIOUS
<1>3. ToSet(batch) = {batch[k] : k \in DOMAIN batch}
    BY DEF ToSet
<1>4. of \subseteq Inputs
    BY <1>2, <1>3 DEF Call
<1>5. \A i \in Inputs : Showing(batch, i) # {} => i \in of
    BY <1>3 DEF Showing
<1>6. DOMAIN given = of /\ \A i \in of : given[i] = shown[i]
    OBVIOUS
<1>7. TextTyped
    BY DEF TypeOK, TextTyped
<1> HIDE DEF of, given
<1>8. \A i \in DOMAIN given :
          /\ given[i] \in [value : Values \cup {Null}, text : Texts \cup {EmptyText, Null}]
          /\ i \in failed'
    BY <1>1, <1>4, <1>6, <1>7 DEF TextTyped
<1>9. /\ TextTyped' /\ Says'
      /\ \A i \in Inputs : shown'[i].value = IF i \in DOMAIN given THEN given[i].value
                                             ELSE shown[i].value
    BY <1>1, <1>4, <1>6, <1>7, <1>8, TextsGiven
<1>10. failed' \subseteq Inputs /\ failed \subseteq failed'
    BY <1>1, <1>4 DEF TypeOK
<1>11. \A i \in Inputs : shown'[i].value = shown[i].value
    BY <1>6, <1>9
<1>12. \A i \in Inputs : Showing(batch, i) # {} => i \in failed'
    BY <1>1, <1>5
<1> QED BY <1>9, <1>10, <1>11, <1>12

-----------------------------------------------------------------------------
(* A list is needed: for a form, or to show a value.                       *)

\* The steps of Render and SetValue.
Called(c) ==
    /\ c \in Call /\ c.id = calls + 1 /\ calls' = calls + 1
    /\ onSourceReady(c)
    /\ UNCHANGED <<options, changes, switched>>
    /\ \/ c.goal = "form" /\ UNCHANGED <<value, overtaken>>
       \/ /\ c.goal = "show"
          /\ value' = [value EXCEPT ![c.input] = c.value]
          /\ overtaken' = IF ToShow(c.input) = {} THEN overtaken \ {c.input}
                          ELSE IF Behind(c.input) THEN overtaken
                          ELSE overtaken \cup {c.input}

\* The call has its callback at once, with a list or an error.
AtOnce(c) == AlreadyThere(c) \/ FromPage(c) \/ FromCache(c)

\* The call waits.
Later(c) == JoinQueue(c) \/ AskServer(c)

LEMMA CalledCases ==
    ASSUME NEW c, Called(c)
    PROVE  AtOnce(c) \/ Later(c)
BY DEF Called, onSourceReady, AtOnce, Later

LEMMA CalledIsNew ==
    ASSUME TypeOK, NEW c, Called(c)
    PROVE  c \notin waiting /\ c \in Call /\ c.input \in Inputs /\ disabled' = disabled
           /\ c.value \in Values \cup {Null}
<1>1. c.id = calls + 1 /\ calls \in Nat
    BY BoundAssumption DEF Called, TypeOK
<1>2. c \in waiting => c.id <= calls
    BY DEF TypeOK
<1>3. c \in Call /\ disabled' = disabled
    BY DEF Called, options
<1> QED BY <1>1, <1>2, <1>3 DEF Call

\* A call that has its callback at once leaves every other one where it is.
LEMMA AtOnceKeeps ==
    ASSUME NEW c, AtOnce(c)
    PROVE  UNCHANGED <<cache, requests, waiting>>
BY DEF AtOnce, AlreadyThere, FromPage, FromCache

LEMMA QueuesKept ==
    ASSUME cache' = cache
    PROVE  /\ \A u \in Urls : Queue(u)' = Queue(u)
           /\ \A c \in Call : Queued(c)' <=> Queued(c)
           /\ CacheTyped => CacheTyped'
BY DEF Queue, Queued, CacheTyped

LEMMA PlacesKept ==
    ASSUME Places, cache' = cache, requests' = requests, waiting' = waiting
    PROVE  Places'
BY QueuesKept DEF Places, Loads, Apart, Waits

LEMMA CalledPlaces ==
    ASSUME TypeOK, Places, NEW c, Called(c)
    PROVE  Places' /\ CacheTyped'
<1> USE CalledIsNew
<1>1. CASE AtOnce(c)
    <2>1. UNCHANGED <<cache, requests, waiting>>
        BY <1>1, AtOnceKeeps
    <2> QED BY <2>1, PlacesKept, QueuesKept, TypesUsed
<1>2. CASE JoinQueue(c)
    <2>1. waiting' = waiting \cup {c}
        BY <1>2 DEF JoinQueue, Wait
    <2> QED BY <1>2, <2>1, JoinPlaces, JoinQueues, TypesUsed
<1>3. CASE AskServer(c)
    <2>1. waiting' = waiting \cup {c}
        BY <1>3 DEF AskServer, Wait
    <2> QED BY <1>3, <2>1, AskPlaces, AskQueues, TypesUsed
<1> QED BY <1>1, <1>2, <1>3, CalledCases DEF Later

\* The batch of one call.
LEMMA OneCall ==
    ASSUME NEW c \in Call
    PROVE  /\ <<c>> \in Seq(Call) /\ ToSet(<<c>>) = {c}
           /\ \A i \in Inputs : Showing(<<c>>, i) =
                  IF c.input = i /\ c.goal = "show" THEN {1} ELSE {}
<1>1. <<c>> \in Seq(Call) /\ DOMAIN <<c>> = {1} /\ <<c>>[1] = c
    OBVIOUS
<1>2. ToSet(<<c>>) = {c}
    BY <1>1 DEF ToSet
<1> QED BY <1>1, <1>2 DEF Showing

\* What is true of the lists and the texts after a call: an element that the call is to
\* show shows it, unless it waits or there is no list.
CallOutcome(c) ==
    /\ DataTyped' /\ TextTyped' /\ InputsOrigin' /\ Says'
    /\ failed' \subseteq Inputs /\ failed \subseteq failed'
    /\ \A i \in Inputs : sourceData'[i] # Null =>
            sourceData'[i] = sourceData[i] \/ (i = c.input /\ sourceData'[i].of = source[i])
    /\ \A i \in Inputs : ~(i = c.input /\ c.goal = "show") => shown'[i].value = shown[i].value
    /\ AtOnce(c) /\ c.goal = "show" =>
            shown'[c.input].value = c.value \/ c.input \in failed'

LEMMA AlreadyThereStep ==
    ASSUME TypeOK, InputsOrigin, Says, NEW c, Called(c), AlreadyThere(c)
    PROVE  CallOutcome(c)
<1> USE CalledIsNew, TextAssumption
<1> DEFINE given == [i \in {j \in {c.input} : c.goal = "show"} |->
                        [value |-> c.value, text |-> TextOf(c.value, sourceData[i].items)]]
<1>1. /\ handleEmpty(given) /\ sourceData[c.input] # Null
      /\ sourceData' = sourceData /\ failed' = failed
    BY DEF AlreadyThere
<1>2. /\ DOMAIN given = {j \in {c.input} : c.goal = "show"}
      /\ \A i \in DOMAIN given : given[i] = [value |-> c.value, text |-> TextOf(c.value, sourceData[i].items)]
    OBVIOUS
<1> HIDE DEF given
<1>3. TextOf(c.value, sourceData[c.input].items) \in Texts \cup {Null}
    <2>1. sourceData[c.input].of \in Sources
        BY <1>1 DEF TypeOK
    <2> DEFINE twice == sourceData[c.input].twice
    <2>2. PICK items \in Seq(Made) :
              /\ IsList(sourceData[c.input].of, items)
              /\ sourceData[c.input].items = Prepended(c.input, twice, items)
        BY <1>1 DEF InputsOrigin
    <2> HIDE DEF twice
    <2>4. TextOf(c.value, sourceData[c.input].items) = TextOf(c.value, doPrepend(c.input, items))
        BY <2>1, <2>2, PrependedTells
    <2>3. PICK data \in Answers[sourceData[c.input].of] :
              data.kind = "list" /\ items = makeArray(data)
        BY <2>2 DEF IsList
    <2> QED BY <2>1, <2>2, <2>3, <2>4, TextOfList
<1>4. \A i \in DOMAIN given :
          /\ given[i] \in [value : Values \cup {Null}, text : Texts \cup {EmptyText, Null}]
          /\ given[i].text # EmptyText
    <2>1. TAKE i \in DOMAIN given
    <2>2. i = c.input
        BY <1>2
    <2> DEFINE told == TextOf(c.value, sourceData[c.input].items)
    <2>3. given[i] = [value |-> c.value, text |-> told] /\ told \in Texts \cup {Null}
        BY <1>2, <1>3, <2>2
    <2> HIDE DEF told
    <2> QED BY <2>3
<1>5. TextTyped /\ DOMAIN given \subseteq Inputs
    BY <1>2 DEF TypeOK, TextTyped
<1>6. /\ TextTyped' /\ Says'
      /\ \A i \in Inputs : shown'[i].value = IF i \in DOMAIN given THEN given[i].value
                                             ELSE shown[i].value
    BY <1>1, <1>4, <1>5, TextsGiven
<1>7. failed' \subseteq Inputs /\ failed \subseteq failed'
    BY <1>1 DEF TypeOK
<1>8. DataTyped'
    BY <1>1 DEF TypeOK, DataTyped
<1>9. InputsOrigin'
    BY <1>1 DEF InputsOrigin
<1>10. \A i \in Inputs : ~(i = c.input /\ c.goal = "show") => shown'[i].value = shown[i].value
    BY <1>2, <1>6
<1>11. c.goal = "show" => shown'[c.input].value = c.value
    <2>1. HAVE c.goal = "show"
    <2> DEFINE told == TextOf(c.value, sourceData[c.input].items)
    <2>2. c.input \in DOMAIN given /\ given[c.input] = [value |-> c.value, text |-> told]
        BY <1>2, <2>1
    <2> HIDE DEF told
    <2> QED BY <1>6, <2>2
<1> QED BY <1>1, <1>6, <1>7, <1>8, <1>9, <1>10, <1>11 DEF CallOutcome

LEMMA GivenAtOnce ==
    ASSUME TypeOK, InputsOrigin, Says, NEW c, Called(c), NEW items,
           source[c.input] \in Sources, IsList(source[c.input], items),
           Succeed(<<c>>, source[c.input], items)
    PROVE  CallOutcome(c)
<1> USE CalledIsNew, OneCall
<1> DEFINE s == source[c.input]
           batch == <<c>>
<1>1. /\ DataTyped' /\ TextTyped' /\ InputsOrigin' /\ Says' /\ failed' = failed
      /\ \A i \in Inputs :
            IF \E d \in ToSet(batch) : d.input = i THEN sourceData'[i].of = s
            ELSE sourceData'[i] = sourceData[i]
      /\ \A i \in Inputs :
            IF Showing(batch, i) = {} THEN shown'[i].value = shown[i].value
            ELSE \E k \in Showing(batch, i) : /\ \A l \in Showing(batch, i) : l <= k
                                              /\ shown'[i].value = batch[k].value
    <2>1. batch \in Seq(Call) /\ s \in Sources /\ IsList(s, items) /\ Succeed(batch, s, items)
          /\ disabled' = disabled
        OBVIOUS
    <2> HIDE DEF batch, s
    <2> QED BY <2>1, SucceedStep
<1>2. failed' \subseteq Inputs /\ failed \subseteq failed'
    BY <1>1 DEF TypeOK
<1>3. \A i \in Inputs : sourceData'[i] # Null =>
          sourceData'[i] = sourceData[i] \/ (i = c.input /\ sourceData'[i].of = source[i])
    BY <1>1
<1>4. \A i \in Inputs : ~(i = c.input /\ c.goal = "show") => shown'[i].value = shown[i].value
    BY <1>1
<1>5. c.goal = "show" => shown'[c.input].value = c.value
    BY <1>1
<1> QED BY <1>1, <1>2, <1>3, <1>4, <1>5 DEF CallOutcome

LEMMA FromPageStep ==
    ASSUME TypeOK, InputsOrigin, Says, NEW c, Called(c), FromPage(c)
    PROVE  CallOutcome(c)
<1> USE CalledIsNew, OneCall
<1> DEFINE s == source[c.input]
           data == CHOOSE d \in Answers[s] : TRUE
           items == makeArray(data)
<1>1. /\ s \in Arrays /\ s \in Sources
      /\ IF items # Null THEN Succeed(<<c>>, s, items)
         ELSE Fail(<<c>>) /\ sourceData' = [sourceData EXCEPT ![c.input] = Null]
    BY DEF FromPage, Sources
<1>2. data \in Answers[s]
    BY <1>1, SourcesAssumption
<1> HIDE DEF data, items
<1>3. CASE items # Null
    BY <1>1, <1>2, <1>3, AnswerMade, GivenAtOnce DEF items
<1>4. CASE items = Null
    <2> DEFINE batch == <<c>>
    <2>1. Fail(batch) /\ sourceData' = [sourceData EXCEPT ![c.input] = Null]
        BY <1>1, <1>4
    <2>2. batch \in Seq(Call)
        OBVIOUS
    <2>3. \A i \in Inputs : i = c.input /\ c.goal = "show" => Showing(batch, i) # {}
        OBVIOUS
    <2> HIDE DEF batch
    <2>4. /\ TextTyped' /\ Says' /\ failed' \subseteq Inputs /\ failed \subseteq failed'
          /\ \A i \in Inputs : shown'[i].value = shown[i].value
          /\ \A i \in Inputs : Showing(batch, i) # {} => i \in failed'
        BY <2>1, <2>2, FailStep
    <2>5. \A i \in Inputs : sourceData'[i] = IF i = c.input THEN Null ELSE sourceData[i]
        BY <2>1 DEF TypeOK
    <2>6. DataTyped' /\ InputsOrigin'
        BY <2>1, <2>5 DEF TypeOK, DataTyped, InputsOrigin
    <2> QED BY <2>3, <2>4, <2>5, <2>6 DEF CallOutcome
<1> QED BY <1>3, <1>4

LEMMA FromCacheStep ==
    ASSUME TypeOK, Origin, Says, NEW c, Called(c), FromCache(c)
    PROVE  CallOutcome(c)
<1> DEFINE u == source[c.input]
<1>1. u \in Urls /\ u \in Sources /\ cache[u].items # Null /\ Succeed(<<c>>, u, cache[u].items)
    BY DEF FromCache, Cached, Sources
<1>2. IsList(u, cache[u].items)
    BY <1>1 DEF Origin, CacheOrigin
<1> QED BY <1>1, <1>2, GivenAtOnce DEF Origin

LEMMA LaterStep ==
    ASSUME TypeOK, InputsOrigin, Says, NEW c, Called(c), Later(c)
    PROVE  CallOutcome(c)
<1> USE CalledIsNew
<1>1. Wait(c)
    BY DEF Later, JoinQueue, AskServer
<1>2. shown' = shown /\ isEmpty' = isEmpty /\ failed' = failed
    BY <1>1 DEF Wait, text
<1>3. \A i \in Inputs : sourceData'[i] = sourceData[i] \/ sourceData'[i] = Null
    BY <1>1 DEF Wait, TypeOK
<1>4. DataTyped'
    BY <1>1 DEF Wait, TypeOK, DataTyped
<1>5. TextTyped' /\ Says' /\ InputsOrigin'
    BY <1>2, <1>3 DEF TypeOK, TextTyped, Says, InputsOrigin
<1>6. ~AtOnce(c)
    BY <1>1, AtOnceKeeps DEF Wait
<1> QED BY <1>2, <1>3, <1>4, <1>5, <1>6 DEF CallOutcome, TypeOK

LEMMA CalledOutcome ==
    ASSUME TypeOK, Origin, Says, NEW c, Called(c)
    PROVE  CallOutcome(c)
BY AlreadyThereStep, FromPageStep, FromCacheStep, LaterStep, CalledCases DEF AtOnce, Origin

\* Where the calls are, after one: those that waited, and the new one if it has to.
LEMMA CalledQueues ==
    ASSUME TypeOK, NEW c, Called(c)
    PROVE  LET s == source[c.input]
           IN  /\ AtOnce(c) => /\ waiting' = waiting /\ requests' = requests
                               /\ \A u \in Urls : Queue(u)' = Queue(u)
               /\ JoinQueue(c) => /\ waiting' = waiting \cup {c} /\ requests' = requests
                                  /\ s \in Urls /\ cache[s].loading
                                  /\ \A u \in Urls : Queue(u)' = IF u = s THEN Append(Queue(u), c)
                                                                 ELSE Queue(u)
               /\ AskServer(c) => /\ waiting' = waiting \cup {c}
                                  /\ requests' = requests \cup {[url |-> s, call |-> c, cached |-> Cached(c)]}
                                  /\ ~Loading(c)
                                  /\ \A u \in Urls : Queue(u)' = Queue(u)
               /\ \A u \in Urls : cache'[u].items = cache[u].items
<1> USE CalledIsNew, TypesUsed
<1>1. CASE AtOnce(c)
    <2>1. UNCHANGED <<cache, requests, waiting>>
        BY <1>1, AtOnceKeeps
    <2>2. ~JoinQueue(c) /\ ~AskServer(c)
        BY <2>1 DEF JoinQueue, AskServer, Wait
    <2> QED BY <2>1, <2>2, QueuesKept
<1>2. CASE JoinQueue(c)
    <2>1. waiting' = waiting \cup {c} /\ requests' = requests
        BY <1>2 DEF JoinQueue, Wait
    <2>2. ~AtOnce(c)
        BY <2>1, AtOnceKeeps
    <2>3. ~AskServer(c)
        BY <1>2 DEF JoinQueue, AskServer
    <2> QED BY <1>2, <2>1, <2>2, <2>3, JoinQueues
<1>3. CASE AskServer(c)
    <2>1. waiting' = waiting \cup {c}
        BY <1>3 DEF AskServer, Wait
    <2>2. ~AtOnce(c)
        BY <2>1, AtOnceKeeps
    <2>3. ~JoinQueue(c) /\ ~Loading(c)
        BY <1>3 DEF JoinQueue, AskServer
    <2> QED BY <1>3, <2>1, <2>2, <2>3, AskQueues
<1> QED BY <1>1, <1>2, <1>3, CalledCases DEF Later

LEMMA CalledLists ==
    ASSUME TypeOK, Origin, Says, DataOfSource, Expected, NEW c, Called(c)
    PROVE  Origin' /\ DataOfSource' /\ Expected'
<1>1. CallOutcome(c) /\ source' = source /\ switched' = switched
    BY CalledOutcome DEF Called, options
<1>2. CacheOrigin'
    BY CalledQueues DEF Origin, CacheOrigin
<1>3. DataOfSource'
    BY <1>1 DEF CallOutcome, DataOfSource
<1>4. Expected'
    <2> USE CalledIsNew
    <2>1. CASE AtOnce(c)
        <3>1. requests' = requests /\ \A u \in Urls : Queue(u)' = Queue(u)
            BY <2>1, CalledQueues
        <3> QED BY <1>1, <3>1 DEF Expected
    <2>2. CASE JoinQueue(c)
        <3>1. /\ requests' = requests /\ source[c.input] \in Urls
              /\ \A u \in Urls : Queue(u)' = IF u = source[c.input] THEN Append(Queue(u), c)
                                             ELSE Queue(u)
            BY <2>2, CalledQueues
        <3>2. \A u \in Urls : \A k \in DOMAIN Queue(u)' :
                  \/ k \in DOMAIN Queue(u) /\ Queue(u)'[k] = Queue(u)[k]
                  \/ u = source[c.input] /\ Queue(u)'[k] = c
            <4>1. TAKE u \in Urls
            <4>2. Queue(u) \in Seq(Call)
                BY TypesUsed, QueueTyped
            <4>3. CASE u = source[c.input]
                <5>1. Queue(u)' = Append(Queue(u), c)
                    BY <3>1, <4>3
                <5> QED BY <4>2, <4>3, <5>1
            <4>4. CASE u # source[c.input]
                <5>1. Queue(u)' = Queue(u)
                    BY <3>1, <4>4
                <5> QED BY <5>1
            <4> QED BY <4>3, <4>4
        <3> QED BY <1>1, <3>1, <3>2 DEF Expected
    <2>3. CASE AskServer(c)
        <3> DEFINE r == [url |-> source[c.input], call |-> c, cached |-> Cached(c)]
        <3>1. requests' = requests \cup {r} /\ \A u \in Urls : Queue(u)' = Queue(u)
            BY <2>3, CalledQueues
        <3>2. r.url = source[c.input] /\ r.call = c
            OBVIOUS
        <3> HIDE DEF r
        <3> QED BY <1>1, <3>1, <3>2 DEF Expected
    <2> QED BY <2>1, <2>2, <2>3, CalledCases DEF Later
<1> QED BY <1>1, <1>2, <1>3, <1>4 DEF CallOutcome, Origin

\* The last to show a value stays the last when another input's call joins the queue.
LEMMA LastShowsKept ==
    ASSUME NEW i \in Inputs, NEW q \in Seq(Call), NEW c \in Call, ~(c.input = i /\ c.goal = "show")
    PROVE  /\ Showing(Append(q, c), i) = Showing(q, i)
           /\ \A k \in Showing(q, i) : Append(q, c)[k] = q[k]
<1>1. /\ DOMAIN q = 1 .. Len(q) /\ Len(q) \in Nat
      /\ DOMAIN Append(q, c) = 1 .. Len(q) + 1
      /\ \A k \in DOMAIN q : Append(q, c)[k] = q[k]
      /\ Append(q, c)[Len(q) + 1] = c
    OBVIOUS
<1> DEFINE longer == Append(q, c)
<1> HIDE DEF longer
<1>2. \A k \in DOMAIN longer : k \in DOMAIN q \/ longer[k] = c
    BY <1>1 DEF longer
<1>3. \A k \in DOMAIN q : k \in DOMAIN longer /\ longer[k] = q[k]
    BY <1>1 DEF longer
<1>4. \A k : k \in Showing(longer, i) <=> k \in Showing(q, i)
    BY <1>2, <1>3 DEF Showing
<1>5. Showing(longer, i) = Showing(q, i)
    BY <1>4
<1> QED BY <1>3, <1>5 DEF Showing, longer

LEMMA LastShowsJoins ==
    ASSUME NEW i \in Inputs, NEW q \in Seq(Call), NEW c \in Call, c.input = i, c.goal = "show"
    PROVE  LET k == Len(q) + 1
           IN  /\ k \in Showing(Append(q, c), i) /\ Append(q, c)[k] = c
               /\ \A l \in Showing(Append(q, c), i) : l <= k
               /\ ToSet(Append(q, c)) = ToSet(q) \cup {c}
<1>1. /\ DOMAIN q = 1 .. Len(q) /\ Len(q) \in Nat
      /\ DOMAIN Append(q, c) = 1 .. Len(q) + 1
      /\ \A k \in DOMAIN q : Append(q, c)[k] = q[k]
      /\ Append(q, c)[Len(q) + 1] = c
    OBVIOUS
<1>2. ToSet(Append(q, c)) = ToSet(q) \cup {c}
    <2>1. ToSet(Append(q, c)) = {Append(q, c)[k] : k \in DOMAIN Append(q, c)}
        BY DEF ToSet
    <2>2. ToSet(q) = {q[k] : k \in DOMAIN q}
        BY DEF ToSet
    <2> DEFINE longer == Append(q, c)
    <2>3. \A k \in DOMAIN longer : k \in DOMAIN q \/ k = Len(q) + 1
        BY <1>1
    <2> QED BY <1>1, <2>1, <2>2, <2>3
<1> QED BY <1>1, <1>2 DEF Showing

\* A call of another input, or for a form, joins the wait of none that shows this input.
LEMMA OthersWillShow ==
    ASSUME TypeOK, Origin, Says, WillShow, NEW c, Called(c), NEW i \in Inputs,
           ~(c.input = i /\ c.goal = "show"), i \notin overtaken' \cup failed'
    PROVE  IF ToShow(i)' = {} THEN shown'[i].value = value'[i]
           ELSE \/ \E d \in ToShow(i)' : ToShow(i)' = {d} /\ d.value = value'[i]
                \/ \E u \in Urls : ToShow(i)' \subseteq ToSet(Queue(u)') /\ LastShows(i, Queue(u))'
<1> USE CalledIsNew
<1>1. CallOutcome(c)
    BY CalledOutcome
<1>2. i \notin overtaken \cup failed
    BY <1>1 DEF CallOutcome, Called
<1>3. value'[i] = value[i] /\ shown'[i].value = shown[i].value
    BY <1>1 DEF CallOutcome, Called, TypeOK
<1>4. waiting' = waiting \/ waiting' = waiting \cup {c}
    BY CalledQueues, CalledCases DEF Later
<1>5. ToShow(i)' = ToShow(i)
    BY <1>4 DEF ToShow
<1>6. ASSUME NEW u \in Urls, ToShow(i) \subseteq ToSet(Queue(u)), LastShows(i, Queue(u))
      PROVE  ToShow(i)' \subseteq ToSet(Queue(u)') /\ LastShows(i, Queue(u))'
    <2>1. Queue(u) \in Seq(Call)
        BY TypesUsed, QueueTyped
    <2>2. Queue(u)' = Queue(u) \/ Queue(u)' = Append(Queue(u), c)
        BY CalledQueues, CalledCases DEF Later
    <2>3. CASE Queue(u)' = Queue(u)
        BY <1>3, <1>5, <1>6, <2>3 DEF LastShows, Showing
    <2>4. CASE Queue(u)' = Append(Queue(u), c)
        <3> DEFINE q == Queue(u)
                   longer == Append(q, c)
        <3>1. /\ Showing(longer, i) = Showing(q, i)
              /\ \A k \in Showing(q, i) : longer[k] = q[k]
            BY <2>1, LastShowsKept
        <3>2. ToSet(q) \subseteq ToSet(longer)
            <4>1. \A k \in DOMAIN q : k \in DOMAIN longer /\ longer[k] = q[k]
                BY <2>1
            <4> HIDE DEF longer
            <4> QED BY <4>1 DEF ToSet
        <3>3. PICK k \in Showing(q, i) : (\A l \in Showing(q, i) : l <= k) /\ q[k].value = value[i]
            BY <1>6 DEF LastShows
        <3>4. Queue(u)' = longer
            BY <2>4
        <3> HIDE DEF q, longer
        <3>5. k \in Showing(longer, i) /\ (\A l \in Showing(longer, i) : l <= k) /\ longer[k].value = value'[i]
            BY <1>3, <3>1, <3>3
        <3>6. LastShows(i, Queue(u))'
            BY <3>4, <3>5 DEF LastShows, Showing
        <3> QED BY <1>5, <1>6, <3>2, <3>4, <3>6 DEF q
    <2> QED BY <2>2, <2>3, <2>4
<1> QED BY <1>2, <1>3, <1>5, <1>6 DEF WillShow

\* What is to be shown next is shown at once, or waits behind all that is to be shown.
LEMMA NewWillShow ==
    ASSUME TypeOK, Origin, Says, NEW c, Called(c), c.goal = "show", NEW i, i = c.input,
           i \notin overtaken' \cup failed'
    PROVE  IF ToShow(i)' = {} THEN shown'[i].value = value'[i]
           ELSE \/ \E d \in ToShow(i)' : ToShow(i)' = {d} /\ d.value = value'[i]
                \/ \E u \in Urls : ToShow(i)' \subseteq ToSet(Queue(u)') /\ LastShows(i, Queue(u))'
<1> USE CalledIsNew
<1>1. CallOutcome(c)
    BY CalledOutcome
<1>2. /\ value' = [value EXCEPT ![i] = c.value]
      /\ overtaken' = IF ToShow(i) = {} THEN overtaken \ {i}
                      ELSE IF Behind(i) THEN overtaken ELSE overtaken \cup {i}
    BY DEF Called
<1>3. value'[i] = c.value
    BY <1>2 DEF TypeOK
<1>4. ToShow(i) # {} => /\ mode[i] # "uncached" /\ source[i] \in Urls /\ cache[source[i]].loading
                        /\ ~(mode[i] = "kept" /\ sourceData[i] # Null)
                        /\ ToShow(i) \subseteq ToSet(cache[source[i]].callbacks)
    BY <1>2 DEF Behind
<1>5. ToShow(i) # {} => Loading(c)
    BY <1>4 DEF Loading, Cached
<1>6. CASE AtOnce(c)
    <2>1. waiting' = waiting
        BY <1>6, CalledQueues
    <2>2. ToShow(i) = {}
        BY <1>4, <1>5, <1>6, SourcesAssumption DEF AtOnce, AlreadyThere, FromPage, FromCache
    <2>3. ToShow(i)' = {}
        BY <2>1, <2>2 DEF ToShow
    <2>4. shown'[i].value = c.value
        BY <1>1, <1>6 DEF CallOutcome
    <2> QED BY <1>3, <2>3, <2>4
<1>7. CASE Later(c)
    <2>1. waiting' = waiting \cup {c}
        BY <1>7, CalledQueues DEF Later
    <2>2. ToShow(i)' = ToShow(i) \cup {c}
        BY <2>1 DEF ToShow
    <2>3. CASE ToShow(i) = {}
        BY <1>3, <2>2, <2>3
    <2>4. CASE ToShow(i) # {}
        <3> DEFINE u == source[i]
                   q == Queue(u)
        <3>1. JoinQueue(c) /\ u \in Urls /\ ToShow(i) \subseteq ToSet(q)
            BY <1>4, <1>5, <1>7, <2>4, CalledQueues DEF Later, Queue
        <3>2. q \in Seq(Call)
            BY <3>1, TypesUsed, QueueTyped
        <3>3. \A w \in Urls : Queue(w)' = IF w = u THEN Append(Queue(w), c) ELSE Queue(w)
            BY <3>1, CalledQueues
        <3> HIDE DEF u
        <3>4. PICK w \in Urls : w = u
            BY <3>1
        <3> DEFINE longer == Append(Queue(w), c)
        <3>5. Queue(w)' = longer /\ Queue(w) \in Seq(Call) /\ ToShow(i) \subseteq ToSet(Queue(w))
            BY <3>1, <3>2, <3>3, <3>4
        <3>6. LET k == Len(Queue(w)) + 1
              IN  /\ k \in Showing(longer, i) /\ longer[k] = c
                  /\ \A l \in Showing(longer, i) : l <= k
                  /\ ToSet(longer) = ToSet(Queue(w)) \cup {c}
            BY <3>5, LastShowsJoins
        <3> HIDE DEF longer
        <3>7. LastShows(i, Queue(w))'
            BY <1>3, <3>5, <3>6 DEF LastShows, Showing
        <3>8. ToShow(i)' \subseteq ToSet(Queue(w)')
            BY <2>2, <3>5, <3>6
        <3>9. \E x \in Urls : ToShow(i)' \subseteq ToSet(Queue(x)') /\ LastShows(i, Queue(x))'
            BY <3>7, <3>8, Zenon
        <3> QED BY <2>2, <3>9
    <2> QED BY <2>3, <2>4
<1> QED BY <1>6, <1>7, CalledCases

LEMMA CalledWillShow ==
    ASSUME TypeOK, Origin, Says, WillShow, NEW c, Called(c)
    PROVE  WillShow'
<1>1. ASSUME NEW i \in Inputs, i \notin overtaken' \cup failed'
      PROVE  IF ToShow(i)' = {} THEN shown'[i].value = value'[i]
             ELSE \/ \E d \in ToShow(i)' : ToShow(i)' = {d} /\ d.value = value'[i]
                  \/ \E u \in Urls : ToShow(i)' \subseteq ToSet(Queue(u)') /\ LastShows(i, Queue(u))'
    BY <1>1, OthersWillShow, NewWillShow
<1> QED BY <1>1 DEF WillShow

\* The numbers of calls and changes, and the sets of inputs and requests.
Counts ==
    /\ calls \in 0 .. MaxCalls /\ changes \in 0 .. MaxChanges
    /\ waiting \subseteq {c \in Call : c.id <= calls}
    /\ requests \subseteq [url : Urls, call : Call, cached : BOOLEAN]
Options ==
    /\ mode \in [Inputs -> {"kept", "uncached", "function"}]
    /\ source \in [Inputs -> Sources]
    /\ value \in [Inputs -> Values \cup {Null}]
    /\ disabled \subseteq Inputs
    /\ overtaken \subseteq Inputs /\ failed \subseteq Inputs /\ switched \subseteq Inputs

LEMMA CalledKeeps ==
    ASSUME IInv, NEW c, Called(c), calls < MaxCalls
    PROVE  IInv'
<1> USE DEF IInv
<1>1. Places' /\ CacheTyped'
    BY CalledPlaces
<1>2. CallOutcome(c) /\ Origin' /\ DataOfSource' /\ Expected' /\ WillShow'
    BY CalledOutcome, CalledLists, CalledWillShow
<1>3. Counts'
    <2>1. calls \in 0 .. MaxCalls /\ MaxCalls \in Nat /\ c.id = calls + 1 /\ calls' = calls + 1
          /\ changes' = changes
        BY BoundAssumption DEF TypeOK, Called
    <2>2. waiting' = waiting \/ waiting' = waiting \cup {c}
        BY CalledQueues, CalledCases DEF Later
    <2>3. waiting' \subseteq {d \in Call : d.id <= calls'}
        <3>1. ASSUME NEW d \in waiting PROVE d \in Call /\ d.id <= calls'
            <4>1. d \in Call /\ d.id <= calls
                BY TypesUsed
            <4>2. d.id \in Nat
                BY <4>1 DEF Call
            <4> QED BY <2>1, <4>1, <4>2
        <3> QED BY <2>1, <2>2, <3>1, CalledIsNew
    <2>4. requests' \subseteq [url : Urls, call : Call, cached : BOOLEAN]
        <3>1. CASE AskServer(c)
            <4>1. /\ requests' = requests \cup {[url |-> source[c.input], call |-> c, cached |-> Cached(c)]}
                  /\ source[c.input] \in Urls
                BY <3>1, CalledQueues DEF AskServer
            <4>2. Cached(c) \in BOOLEAN
                BY DEF Cached
            <4> QED BY <4>1, <4>2, CalledIsNew DEF TypeOK
        <3>2. CASE ~AskServer(c)
            <4>1. requests' = requests
                BY <3>2, CalledQueues, CalledCases DEF Later
            <4> QED BY <4>1 DEF TypeOK
        <3> QED BY <3>1, <3>2
    <2> QED BY <2>1, <2>3, <2>4 DEF Counts, TypeOK
<1>4. Options'
    <2>1. UNCHANGED <<mode, source, disabled, switched>>
        BY DEF Called, options
    <2>2. value' \in [Inputs -> Values \cup {Null}] /\ overtaken' \subseteq Inputs
        BY CalledIsNew DEF Called, TypeOK
    <2>3. failed' \subseteq Inputs
        BY <1>2 DEF CallOutcome
    <2> QED BY <2>1, <2>2, <2>3 DEF TypeOK, Options
<1>5. TypeOK'
    BY <1>1, <1>2, <1>3, <1>4
    DEF CallOutcome, TypeOK, DataTyped, TextTyped, CacheTyped, Counts, Options
<1> QED BY <1>1, <1>2, <1>5 DEF CallOutcome

LEMMA RenderKeeps ==
    ASSUME IInv, NEW i \in Inputs, Render(i)
    PROVE  IInv'
<1> DEFINE c == [id |-> calls + 1, input |-> i, goal |-> "form", value |-> Null]
<1>1. calls \in Nat /\ calls < MaxCalls /\ MaxCalls \in Nat
    BY BoundAssumption DEF Render, IInv, TypeOK
<1>2. c \in Call
    BY <1>1 DEF Call
<1>3. Called(c)
    BY <1>2 DEF Render, Called
<1> QED BY <1>1, <1>3, CalledKeeps

LEMMA SetValueKeeps ==
    ASSUME IInv, NEW i \in Inputs, NEW v \in Values, SetValue(i, v)
    PROVE  IInv'
<1> DEFINE c == [id |-> calls + 1, input |-> i, goal |-> "show", value |-> v]
<1>1. calls \in Nat /\ calls < MaxCalls /\ MaxCalls \in Nat
    BY BoundAssumption DEF SetValue, IInv, TypeOK
<1>2. c \in Call
    BY <1>1 DEF Call
<1>3. Called(c)
    BY <1>2 DEF SetValue, Called
<1> QED BY <1>1, <1>3, CalledKeeps

-----------------------------------------------------------------------------
(* An answer, or none.                                                     *)

\* What is true after an answer for the calls of this batch: the last of them to show a
\* value of an input has it shown, or none has.
AnswerOutcome(batch) ==
    \A i \in Inputs \ failed' :
        IF Showing(batch, i) = {} THEN shown'[i].value = shown[i].value
        ELSE \E k \in Showing(batch, i) : /\ \A l \in Showing(batch, i) : l <= k
                                          /\ shown'[i].value = batch[k].value

\* The calls of a batch are those that stop to wait, and with them their queue.
LEMMA DoneWillShow ==
    ASSUME TypeOK, Places, WillShow, NEW r, Done(r), NEW items \in Seq(Made) \cup {Null},
           cache' = Loaded(r, items), failed \subseteq failed', AnswerOutcome(Batch(r))
    PROVE  WillShow'
<1> DEFINE u == r.url
           batch == Batch(r)
<1>1. /\ r \in requests /\ waiting' = waiting \ ToSet(batch)
      /\ value' = value /\ overtaken' = overtaken
    BY DEF Done
<1>2. /\ u \in Urls /\ r.call \in Call /\ CacheTyped /\ r.cached \in BOOLEAN
      /\ \A w \in Urls : Queue(w) \in Seq(Call)
    BY <1>1, TypesUsed, QueueTyped
<1>3. /\ r.cached => cache[u].loading
      /\ ToSet(batch) = {d \in Call : d = r.call \/ (r.cached /\ \E k \in DOMAIN Queue(u) : Queue(u)[k] = d)}
      /\ ToSet(batch) \subseteq waiting
      /\ batch = IF r.cached THEN Append(Queue(u), r.call) ELSE <<r.call>>
    BY <1>1, BatchCalls
<1>4. \A w \in Urls : Queue(w)' = IF r.cached /\ w = u THEN <<>> ELSE Queue(w)
    BY <1>2, <1>3, DoneQueues
<1>5. \A i : \A c \in ToSet(batch) : c.input = i /\ c.goal = "show" <=> c \in ToShow(i)
    BY <1>3 DEF ToShow
<1>6. /\ \A c \in ToSet(batch) : \E k \in DOMAIN batch : batch[k] = c
      /\ \A k \in DOMAIN batch : batch[k] \in ToSet(batch)
    BY DEF ToSet
<1>7. \A i : ToShow(i)' = ToShow(i) \ ToSet(batch)
    BY <1>1 DEF ToShow
<1> HIDE DEF u, batch
<1>8. ASSUME NEW i \in Inputs, i \notin overtaken' \cup failed'
      PROVE  IF ToShow(i)' = {} THEN shown'[i].value = value'[i]
             ELSE \/ \E d \in ToShow(i)' : ToShow(i)' = {d} /\ d.value = value'[i]
                  \/ \E w \in Urls : ToShow(i)' \subseteq ToSet(Queue(w)') /\ LastShows(i, Queue(w))'
    <2>1. i \notin overtaken \cup failed
        BY <1>1, <1>8
    <2>2. IF Showing(batch, i) = {} THEN shown'[i].value = shown[i].value
          ELSE \E k \in Showing(batch, i) : /\ \A l \in Showing(batch, i) : l <= k
                                            /\ shown'[i].value = batch[k].value
        BY <1>8 DEF AnswerOutcome, batch
    <2>3. \A k \in Showing(batch, i) : batch[k] \in ToShow(i) /\ batch[k] \in ToSet(batch)
        BY <1>5, <1>6 DEF Showing
    <2>4. Showing(batch, i) = {} => ToShow(i) \cap ToSet(batch) = {}
        BY <1>5, <1>6 DEF Showing
    <2>5. CASE ToShow(i) = {}
        BY <1>1, <1>7, <2>1, <2>2, <2>3, <2>5 DEF WillShow
    <2>6. CASE \E c \in ToShow(i) : ToShow(i) = {c} /\ c.value = value[i]
        <3>1. PICK c \in ToShow(i) : ToShow(i) = {c} /\ c.value = value[i]
            BY <2>6
        <3>2. CASE Showing(batch, i) = {}
            <4>1. ToShow(i)' = {c}
                BY <1>7, <2>4, <3>1, <3>2
            <4> QED BY <1>1, <3>1, <4>1
        <3>3. CASE Showing(batch, i) # {}
            <4>1. c \in ToSet(batch) /\ shown'[i].value = c.value
                BY <2>2, <2>3, <3>1, <3>3
            <4>2. ToShow(i)' = {}
                BY <1>7, <3>1, <4>1
            <4> QED BY <1>1, <3>1, <4>1, <4>2
        <3> QED BY <3>2, <3>3
    <2>7. CASE /\ ToShow(i) # {}
               /\ \E w \in Urls : ToShow(i) \subseteq ToSet(Queue(w)) /\ LastShows(i, Queue(w))
        <3>1. PICK w \in Urls : ToShow(i) \subseteq ToSet(Queue(w)) /\ LastShows(i, Queue(w))
            BY <2>7
        <3> DEFINE q == Queue(w)
        <3>2. q \in Seq(Call) /\ ToShow(i) \subseteq ToSet(q) /\ LastShows(i, q)
            BY <1>2, <3>1
        <3>3. \A c \in ToSet(q) : \E k \in DOMAIN q : q[k] = c
            BY DEF ToSet
        <3>4. r.call \notin ToShow(i)
            BY <1>1, <3>2, <3>3 DEF Places, Apart
        <3>5. CASE r.cached /\ w = u
            <4>1. batch = Append(q, r.call)
                BY <1>3, <3>5
            <4> HIDE DEF q
            <4>2. r.call \in ToSet(batch)
                BY <1>2, <1>3
            <4>3. ~(r.call.input = i /\ r.call.goal = "show")
                BY <1>5, <3>4, <4>2
            <4>4. /\ Showing(batch, i) = Showing(q, i)
                  /\ \A k \in Showing(q, i) : batch[k] = q[k]
                BY <1>2, <3>2, <4>1, <4>3, LastShowsKept
            <4>5. PICK k \in Showing(q, i) : (\A l \in Showing(q, i) : l <= k) /\ q[k].value = value[i]
                BY <3>2 DEF LastShows
            <4>6. PICK m \in Showing(batch, i) : /\ \A l \in Showing(batch, i) : l <= m
                                                 /\ shown'[i].value = batch[m].value
                BY <2>2, <4>4, <4>5
            <4>7. m = k
                <5>1. DOMAIN q \subseteq Nat
                    BY <3>2
                <5>2. m \in Nat /\ k \in Nat /\ m <= k /\ k <= m
                    BY <4>4, <4>5, <4>6, <5>1 DEF Showing
                <5> QED BY <5>2
            <4>8. shown'[i].value = value[i]
                BY <4>4, <4>5, <4>6, <4>7
            <4>9. ToShow(i)' = {}
                <5>1. \A c \in ToSet(q) : c \in Call
                    BY <3>2, <3>3
                <5>2. \A c \in ToSet(q) : c \in ToSet(batch)
                    BY <1>3, <3>3, <3>5, <5>1 DEF q
                <5> QED BY <1>7, <3>2, <5>2
            <4> QED BY <1>1, <4>8, <4>9
        <3>6. CASE ~(r.cached /\ w = u)
            <4>1. ToShow(i) \cap ToSet(batch) = {}
                BY <1>2, <1>3, <3>2, <3>3, <3>4, <3>6 DEF Places, Apart
            <4>2. ToShow(i)' = ToShow(i)
                BY <1>7, <4>1
            <4>3. Queue(w)' = Queue(w)
                BY <1>4, <3>6
            <4>4. LastShows(i, Queue(w))'
                BY <1>1, <3>1, <4>3 DEF LastShows, Showing
            <4> QED BY <2>7, <3>1, <4>2, <4>3, <4>4
        <3> QED BY <3>5, <3>6
    <2> QED BY <2>1, <2>5, <2>6, <2>7 DEF WillShow
<1> QED BY <1>8 DEF WillShow

\* The calls of a batch wait for the source of their input, unless it was switched.
LEMMA BatchExpected ==
    ASSUME TypeOK, Places, Expected, NEW r \in requests
    PROVE  \A i \in Inputs \ switched : \A c \in ToSet(Batch(r)) : c.input = i => r.url = source[i]
<1>1. ToSet(Batch(r)) = {d \in Call : d = r.call \/ (r.cached /\ \E k \in DOMAIN Queue(r.url) : Queue(r.url)[k] = d)}
    BY BatchCalls
<1>2. r.url \in Urls
    BY TypesUsed
<1> QED BY <1>1, <1>2 DEF Expected

\* What an answer changes, and what it leaves.
LEMMA DoneKeeps ==
    ASSUME IInv, NEW r, Done(r), NEW items \in Seq(Made) \cup {Null},
           items # Null => IsList(r.url, items), cache' = Loaded(r, items),
           DataTyped', TextTyped', InputsOrigin', Says', failed' \subseteq Inputs,
           failed \subseteq failed', AnswerOutcome(Batch(r)),
           \A i \in Inputs : sourceData'[i] # Null =>
               \/ sourceData'[i] = sourceData[i]
               \/ sourceData'[i].of = r.url /\ \E c \in ToSet(Batch(r)) : c.input = i
    PROVE  IInv'
<1> USE DEF IInv
<1>1. /\ r \in requests /\ requests' = requests \ {r} /\ waiting' = waiting \ ToSet(Batch(r))
      /\ UNCHANGED <<mode, source, disabled, value, calls, changes, overtaken, switched>>
    BY DEF Done, options
<1>2. Places'
    BY <1>1, DonePlaces
<1>3. WillShow'
    BY DoneWillShow
<1>4. /\ r.url \in Urls /\ r.cached \in BOOLEAN /\ (r.cached => cache[r.url].loading) /\ CacheTyped
    BY <1>1, TypesUsed, BatchCalls
<1>5. /\ CacheTyped'
      /\ \A w \in Urls : /\ cache'[w].items = IF r.cached /\ w = r.url THEN items ELSE cache[w].items
                         /\ Queue(w)' = IF r.cached /\ w = r.url THEN <<>> ELSE Queue(w)
    BY <1>4, DoneQueues
<1>6. CacheOrigin'
    BY <1>5 DEF Origin, CacheOrigin
<1>7. DataOfSource'
    BY <1>1, BatchExpected DEF DataOfSource
<1>8. Expected'
    <2>1. \A w \in Urls : \A k \in DOMAIN Queue(w)' : k \in DOMAIN Queue(w) /\ Queue(w)'[k] = Queue(w)[k]
        <3>1. TAKE w \in Urls
        <3>2. CASE r.cached /\ w = r.url
            <4>1. Queue(w)' = <<>>
                BY <1>5, <3>2
            <4> QED BY <4>1
        <3>3. CASE ~(r.cached /\ w = r.url)
            BY <1>5, <3>3
        <3> QED BY <3>2, <3>3
    <2> QED BY <1>1, <2>1 DEF Expected
<1>9. TypeOK'
    <2>1. Counts' /\ Options'
        BY <1>1 DEF TypeOK, Counts, Options
    <2> QED BY <1>5, <2>1 DEF TypeOK, DataTyped, TextTyped, CacheTyped, Counts, Options
<1> QED BY <1>2, <1>3, <1>6, <1>7, <1>8, <1>9 DEF Origin

LEMMA FailedBatch ==
    ASSUME IInv, NEW r, Done(r), Fail(Batch(r))
    PROVE  /\ TextTyped' /\ Says' /\ failed' \subseteq Inputs /\ failed \subseteq failed'
           /\ AnswerOutcome(Batch(r))
<1> DEFINE batch == Batch(r)
<1>1. batch \in Seq(Call) /\ disabled' = disabled /\ Fail(batch)
    BY BatchCalls DEF IInv, Done, options
<1> HIDE DEF batch
<1>2. /\ TextTyped' /\ Says' /\ failed' \subseteq Inputs /\ failed \subseteq failed'
      /\ \A i \in Inputs : shown'[i].value = shown[i].value
      /\ \A i \in Inputs : Showing(batch, i) # {} => i \in failed'
    BY <1>1, FailStep DEF IInv
<1> QED BY <1>2 DEF AnswerOutcome, batch

LEMMA FailedKeeps ==
    ASSUME IInv, NEW r, Failed(r)
    PROVE  IInv'
<1>1. Done(r) /\ cache' = Loaded(r, Null) /\ Fail(Batch(r)) /\ sourceData' = sourceData
    BY DEF Failed
<1>2. DataTyped' /\ InputsOrigin'
    BY <1>1 DEF IInv, TypeOK, DataTyped, Origin, InputsOrigin
<1>3. /\ TextTyped' /\ Says' /\ failed' \subseteq Inputs /\ failed \subseteq failed'
      /\ AnswerOutcome(Batch(r))
    BY <1>1, FailedBatch
<1> QED BY <1>1, <1>2, <1>3, DoneKeeps

LEMMA AnsweredKeeps ==
    ASSUME IInv, NEW r, Answered(r)
    PROVE  IInv'
<1>1. PICK data \in Answers[r.url] :
          LET items == makeArray(data)
          IN  /\ cache' = Loaded(r, items)
              /\ IF items # Null THEN Succeed(Batch(r), r.url, items)
                 ELSE /\ Fail(Batch(r))
                      /\ sourceData' = [sourceData EXCEPT ![r.call.input] = Null]
    BY DEF Answered
<1> DEFINE items == makeArray(data)
           batch == Batch(r)
<1>2. Done(r) /\ r \in requests /\ disabled' = disabled
    BY DEF Answered, Done, options
<1>3. r.url \in Sources /\ batch \in Seq(Call)
    BY <1>2, BatchCalls, TypesUsed DEF IInv, Sources
<1>4. items # Null => IsList(r.url, items)
    BY <1>3, AnswerMade
<1>5. items \in Seq(Made) \cup {Null}
    <2>1. CASE Inputs # {}
        BY <1>3, <1>4, <2>1, ListTyped
    <2>2. CASE Inputs = {}
        BY <1>2, <2>2, TypesUsed DEF IInv, Call
    <2> QED BY <2>1, <2>2
<1> HIDE DEF items, batch
<1>6. CASE items # Null
    <2>1. Succeed(batch, r.url, items)
        BY <1>1, <1>6 DEF items, batch
    <2>2. /\ DataTyped' /\ TextTyped' /\ InputsOrigin' /\ Says' /\ failed' = failed
          /\ \A i \in Inputs :
                IF \E c \in ToSet(batch) : c.input = i THEN sourceData'[i].of = r.url
                ELSE sourceData'[i] = sourceData[i]
          /\ \A i \in Inputs :
                IF Showing(batch, i) = {} THEN shown'[i].value = shown[i].value
                ELSE \E k \in Showing(batch, i) : /\ \A l \in Showing(batch, i) : l <= k
                                                  /\ shown'[i].value = batch[k].value
        BY <1>2, <1>3, <1>4, <1>6, <2>1, SucceedStep DEF IInv, Origin
    <2>3. AnswerOutcome(batch)
        BY <2>2 DEF AnswerOutcome
    <2>4. failed' \subseteq Inputs
        BY <2>2 DEF IInv, TypeOK
    <2>5. \A i \in Inputs : sourceData'[i] # Null =>
              \/ sourceData'[i] = sourceData[i]
              \/ sourceData'[i].of = r.url /\ \E c \in ToSet(batch) : c.input = i
        BY <2>2
    <2>6. cache' = Loaded(r, items)
        BY <1>1 DEF items
    <2> QED BY <1>2, <1>4, <1>5, <2>2, <2>3, <2>4, <2>5, <2>6, DoneKeeps DEF batch
<1>7. CASE items = Null
    <2>1. Fail(Batch(r)) /\ sourceData' = [sourceData EXCEPT ![r.call.input] = Null]
        BY <1>1, <1>7 DEF items
    <2>2. /\ TextTyped' /\ Says' /\ failed' \subseteq Inputs /\ failed \subseteq failed'
          /\ AnswerOutcome(Batch(r))
        BY <1>2, <2>1, FailedBatch
    <2>3. \A i \in Inputs : sourceData'[i] = sourceData[i] \/ sourceData'[i] = Null
        BY <2>1 DEF IInv, TypeOK
    <2>4. DataTyped' /\ InputsOrigin'
        BY <2>1, <2>3 DEF IInv, TypeOK, DataTyped, Origin, InputsOrigin
    <2>5. cache' = Loaded(r, items)
        BY <1>1 DEF items
    <2> QED BY <1>2, <1>4, <1>5, <2>2, <2>3, <2>4, <2>5, DoneKeeps
<1> QED BY <1>6, <1>7

-----------------------------------------------------------------------------
(* Values of null and options.                                             *)

\* Without a change of the value, of what is shown and of who waits, nothing that is still
\* to be shown is another.
LEMMA WillShowKept ==
    ASSUME WillShow, UNCHANGED <<value, cache, waiting, overtaken, failed>>,
           \A i \in Inputs : shown'[i].value = shown[i].value
    PROVE  WillShow'
<1>1. \A u \in Urls : Queue(u)' = Queue(u)
    BY QueuesKept
<1>2. \A i \in Inputs : ToShow(i)' = ToShow(i)
    BY DEF ToShow
<1>3. \A i \in Inputs, u \in Urls : LastShows(i, Queue(u))' <=> LastShows(i, Queue(u))
    BY <1>1 DEF LastShows, Showing
<1>4. ASSUME NEW i \in Inputs, i \notin overtaken' \cup failed'
      PROVE  IF ToShow(i)' = {} THEN shown'[i].value = value'[i]
             ELSE \/ \E d \in ToShow(i)' : ToShow(i)' = {d} /\ d.value = value'[i]
                  \/ \E u \in Urls : ToShow(i)' \subseteq ToSet(Queue(u)') /\ LastShows(i, Queue(u))'
    BY <1>1, <1>2, <1>3, <1>4 DEF WillShow
<1> QED BY <1>4 DEF WillShow

LEMMA ExpectedKept ==
    ASSUME Expected, UNCHANGED <<source, switched, cache, requests>>
    PROVE  Expected'
BY QueuesKept DEF Expected

LEMMA OriginKept ==
    ASSUME Origin, UNCHANGED <<sourceData, cache>>
    PROVE  Origin'
BY DEF Origin, InputsOrigin, CacheOrigin

LEMMA ClearKeeps ==
    ASSUME IInv, NEW i \in Inputs, Clear(i)
    PROVE  IInv'
<1> USE DEF IInv
<1> DEFINE given == [j \in {i} |-> [value |-> Null, text |-> Null]]
<1>1. /\ value' = [value EXCEPT ![i] = Null] /\ handleEmpty(given)
      /\ overtaken' = IF ToShow(i) = {} THEN overtaken \ {i} ELSE overtaken \cup {i}
      /\ changes < MaxChanges /\ changes' = changes + 1
      /\ UNCHANGED <<mode, source, disabled, sourceData, cache, requests, calls, waiting, failed, switched>>
    BY DEF Clear, Change, options
<1>2. DOMAIN given = {i} /\ given[i].value = Null /\ given[i].text = Null
      /\ given[i] \in [value : Values \cup {Null}, text : Texts \cup {EmptyText, Null}]
    OBVIOUS
<1>3. TextTyped
    BY DEF TypeOK, TextTyped
<1> HIDE DEF given
<1>4. /\ TextTyped' /\ Says'
      /\ \A j \in Inputs : shown'[j].value = IF j \in DOMAIN given THEN given[j].value
                                             ELSE shown[j].value
    <2>1. \A j \in DOMAIN given :
              /\ given[j] \in [value : Values \cup {Null}, text : Texts \cup {EmptyText, Null}]
              /\ given[j].text # EmptyText
        BY <1>2, TextAssumption
    <2> QED BY <1>1, <1>2, <1>3, <2>1, TextsGiven
<1>5. Places' /\ CacheTyped'
    BY <1>1, PlacesKept, QueuesKept, TypesUsed
<1>6. Origin' /\ Expected' /\ DataOfSource'
    BY <1>1, OriginKept, ExpectedKept DEF DataOfSource
<1>7. WillShow'
    <2>1. \A u \in Urls : Queue(u)' = Queue(u)
        BY <1>1, QueuesKept
    <2>2. \A j \in Inputs : ToShow(j)' = ToShow(j)
        BY <1>1 DEF ToShow
    <2>3. \A j \in Inputs \ {i} : value'[j] = value[j] /\ shown'[j].value = shown[j].value
        BY <1>1, <1>2, <1>4 DEF TypeOK
    <2>4. value'[i] = Null /\ shown'[i].value = Null
        BY <1>1, <1>2, <1>4 DEF TypeOK
    <2>5. \A j \in Inputs \ {i}, u \in Urls : LastShows(j, Queue(u)) => LastShows(j, Queue(u))'
        BY <2>1, <2>3 DEF LastShows, Showing
    <2>6. ASSUME NEW j \in Inputs, j \notin overtaken' \cup failed'
          PROVE  IF ToShow(j)' = {} THEN shown'[j].value = value'[j]
                 ELSE \/ \E d \in ToShow(j)' : ToShow(j)' = {d} /\ d.value = value'[j]
                      \/ \E u \in Urls : ToShow(j)' \subseteq ToSet(Queue(u)') /\ LastShows(j, Queue(u))'
        <3>1. CASE j = i
            BY <1>1, <2>2, <2>4, <2>6, <3>1
        <3>2. CASE j # i
            <4>1. j \notin overtaken \cup failed
                BY <1>1, <2>6, <3>2
            <4> QED BY <2>1, <2>2, <2>3, <2>5, <3>2, <4>1 DEF WillShow
        <3> QED BY <3>1, <3>2
    <2> QED BY <2>6 DEF WillShow
<1>8. TypeOK'
    <2>1. Counts'
        BY <1>1, BoundAssumption DEF TypeOK, Counts
    <2>2. Options'
        BY <1>1 DEF TypeOK, Options
    <2>3. DataTyped'
        BY <1>1 DEF TypeOK, DataTyped
    <2> QED BY <1>4, <1>5, <2>1, <2>2, <2>3
            DEF TypeOK, DataTyped, TextTyped, CacheTyped, Counts, Options
<1> QED BY <1>4, <1>5, <1>6, <1>7, <1>8

LEMMA SetSourceKeeps ==
    ASSUME IInv, NEW i \in Inputs, NEW s \in Sources, SetSource(i, s)
    PROVE  IInv'
<1> USE DEF IInv
<1>1. /\ source' = [source EXCEPT ![i] = s] /\ sourceData' = [sourceData EXCEPT ![i] = Null]
      /\ switched' = IF \E c \in waiting : c.input = i THEN switched \cup {i} ELSE switched \ {i}
      /\ changes < MaxChanges /\ changes' = changes + 1
      /\ UNCHANGED <<mode, disabled, value, shown, isEmpty, cache, requests, calls, waiting,
                     overtaken, failed>>
    BY DEF SetSource, Change, text
<1>2. Places' /\ CacheTyped' /\ \A u \in Urls : Queue(u)' = Queue(u)
    BY <1>1, PlacesKept, QueuesKept, TypesUsed
<1>3. WillShow' /\ Says'
    BY <1>1, WillShowKept DEF Says
<1>4. \A j \in Inputs : sourceData'[j] = IF j = i THEN Null ELSE sourceData[j]
    BY <1>1 DEF TypeOK
<1>5. \A j \in Inputs \ {i} : source'[j] = source[j] /\ (j \in switched' <=> j \in switched)
    BY <1>1 DEF TypeOK
<1>6. Origin'
    BY <1>1, <1>4 DEF Origin, InputsOrigin, CacheOrigin
<1>7. DataOfSource'
    BY <1>4, <1>5 DEF DataOfSource
<1>8. Expected'
    <2>1. ASSUME NEW j \in Inputs, j \notin switched', NEW r \in requests', r.call.input = j
          PROVE  r.url = source'[j]
        <3>1. r.call \in waiting
            BY <1>1, TypesUsed DEF Places, Waits
        <3>2. j # i
            BY <1>1, <2>1, <3>1
        <3> QED BY <1>1, <1>5, <2>1, <3>2 DEF Expected
    <2>2. ASSUME NEW j \in Inputs, j \notin switched', NEW u \in Urls, NEW k \in DOMAIN Queue(u)',
                 Queue(u)'[k].input = j
          PROVE  u = source'[j]
        <3>1. k \in DOMAIN Queue(u) /\ Queue(u)'[k] = Queue(u)[k] /\ Queue(u) \in Seq(Call)
            BY <1>2, TypesUsed, QueueTyped
        <3>2. Queue(u)[k] \in Call
            BY <3>1
        <3>3. Queue(u)[k] \in waiting
            BY <3>1, <3>2 DEF Places, Waits, Queued
        <3>4. j # i
            BY <1>1, <2>2, <3>1, <3>3
        <3> QED BY <1>5, <2>2, <3>1, <3>4 DEF Expected
    <2> QED BY <2>1, <2>2 DEF Expected
<1>9. TypeOK'
    <2>1. Counts'
        BY <1>1, BoundAssumption DEF TypeOK, Counts
    <2>2. Options'
        BY <1>1 DEF TypeOK, Options
    <2>3. DataTyped' /\ TextTyped'
        BY <1>1, <1>4 DEF TypeOK, DataTyped, TextTyped
    <2> QED BY <1>2, <2>1, <2>2, <2>3
            DEF TypeOK, DataTyped, TextTyped, CacheTyped, Counts, Options
<1> QED BY <1>2, <1>3, <1>6, <1>7, <1>8, <1>9

LEMMA SetDisabledKeeps ==
    ASSUME IInv, NEW i \in Inputs, SetDisabled(i)
    PROVE  IInv'
<1> USE DEF IInv
<1>1. /\ disabled' = SymDiff(disabled, {i})
      /\ shown' = IF i \notin isEmpty THEN shown
                  ELSE [shown EXCEPT ![i].text = IF i \in disabled THEN EmptyText ELSE Null]
      /\ changes < MaxChanges /\ changes' = changes + 1
      /\ UNCHANGED <<mode, source, value, sourceData, isEmpty, cache, requests, calls, waiting,
                     overtaken, failed, switched>>
    BY DEF SetDisabled, Change
<1>2. /\ i \in disabled' <=> i \notin disabled
      /\ \A j \in Inputs \ {i} : j \in disabled' <=> j \in disabled
      /\ disabled' \subseteq Inputs
    BY <1>1 DEF SymDiff, TypeOK
<1>3. /\ \A j \in Inputs \ {i} : shown'[j] = shown[j]
      /\ i \notin isEmpty => shown'[i] = shown[i]
      /\ i \in isEmpty => shown'[i] = [shown[i] EXCEPT !.text = IF i \in disabled THEN EmptyText ELSE Null]
    BY <1>1 DEF TypeOK
<1>4. TextTyped
    BY DEF TypeOK, TextTyped
<1>5. \A j \in Inputs : shown[j] \in [value : Values \cup {Null}, text : Texts \cup {EmptyText, Null}]
    BY <1>4 DEF TextTyped
<1>6. i \in isEmpty => /\ shown'[i].text = IF i \in disabled THEN EmptyText ELSE Null
                       /\ shown'[i].value = shown[i].value
                       /\ shown'[i] \in [value : Values \cup {Null}, text : Texts \cup {EmptyText, Null}]
    BY <1>3, <1>5
<1>7. \A j \in Inputs : shown'[j].value = shown[j].value
    BY <1>3, <1>6
<1>8. TextTyped'
    <2>1. \A j \in Inputs : shown'[j] \in [value : Values \cup {Null}, text : Texts \cup {EmptyText, Null}]
        BY <1>3, <1>5, <1>6
    <2>2. DOMAIN shown' = Inputs /\ shown' = [j \in Inputs |-> shown'[j]]
        BY <1>1, <1>4 DEF TextTyped
    <2> QED BY <1>1, <1>4, <2>1, <2>2 DEF TextTyped
<1>9. Says'
    BY <1>1, <1>2, <1>3, <1>6, TextAssumption DEF Says
<1>10. Places' /\ CacheTyped'
    BY <1>1, PlacesKept, QueuesKept, TypesUsed
<1>11. WillShow'
    BY <1>1, <1>7, WillShowKept
<1>12. Origin' /\ Expected' /\ DataOfSource'
    BY <1>1, OriginKept, ExpectedKept DEF DataOfSource
<1>13. TypeOK'
    <2>1. Counts'
        BY <1>1, BoundAssumption DEF TypeOK, Counts
    <2>2. Options'
        BY <1>1, <1>2 DEF TypeOK, Options
    <2>3. DataTyped'
        BY <1>1 DEF TypeOK, DataTyped
    <2> QED BY <1>8, <1>10, <2>1, <2>2, <2>3
            DEF TypeOK, DataTyped, TextTyped, CacheTyped, Counts, Options
<1> QED BY <1>9, <1>10, <1>11, <1>12, <1>13

-----------------------------------------------------------------------------
(* The theorems.                                                           *)

LEMMA InitHolds == Init => IInv
<1> SUFFICES ASSUME Init PROVE IInv
    OBVIOUS
<1> USE DEF Init
<1>1. \A u \in Urls : Queue(u) = <<>> /\ cache[u].items = Null /\ ~cache[u].loading
    BY DEF Queue
<1>2. Places
    <2>1. IsFiniteSet(requests)
        BY FS_EmptySet
    <2>2. \A u \in Urls : DOMAIN Queue(u) = {}
        BY <1>1
    <2> QED BY <1>1, <2>1, <2>2 DEF Places, Loads, Apart, Waits, Queued
<1>3. TypeOK
    <2>1. <<>> \in Seq(Call)
        OBVIOUS
    <2>2. CacheTyped
        BY <2>1 DEF CacheTyped
    <2>3. TextTyped
        BY ValuesAssumption DEF TextTyped
    <2>4. DataTyped
        BY DEF DataTyped
    <2>5. Counts
        BY BoundAssumption DEF Counts
    <2>6. Options
        BY ValuesAssumption DEF Options
    <2> QED BY <2>2, <2>3, <2>4, <2>5, <2>6
            DEF TypeOK, DataTyped, TextTyped, CacheTyped, Counts, Options
<1>4. Origin /\ DataOfSource
    BY <1>1 DEF Origin, InputsOrigin, CacheOrigin, DataOfSource
<1>5. Expected
    <2>1. \A u \in Urls : DOMAIN Queue(u) = {}
        BY <1>1
    <2> QED BY <2>1 DEF Expected
<1>6. Says
    BY DEF Says
<1>7. WillShow
    <2>1. \A i \in Inputs : ToShow(i) = {}
        BY DEF ToShow
    <2> QED BY <2>1 DEF WillShow
<1> QED BY <1>2, <1>3, <1>4, <1>5, <1>6, <1>7 DEF IInv

LEMMA StepKeeps == IInv /\ [Next]_vars => IInv'
<1> SUFFICES ASSUME IInv, [Next]_vars PROVE IInv'
    OBVIOUS
<1>1. ASSUME NEW i \in Inputs, Render(i) PROVE IInv'
    BY <1>1, RenderKeeps
<1>2. ASSUME NEW i \in Inputs, NEW v \in Values, SetValue(i, v) PROVE IInv'
    BY <1>2, SetValueKeeps
<1>3. ASSUME NEW i \in Inputs, Clear(i) PROVE IInv'
    BY <1>3, ClearKeeps
<1>4. ASSUME NEW i \in Inputs, NEW s \in Sources, SetSource(i, s) PROVE IInv'
    BY <1>4, SetSourceKeeps
<1>5. ASSUME NEW i \in Inputs, SetDisabled(i) PROVE IInv'
    BY <1>5, SetDisabledKeeps
<1>6. ASSUME NEW r \in requests, Answered(r) PROVE IInv'
    BY <1>6, AnsweredKeeps
<1>7. ASSUME NEW r \in requests, Failed(r) PROVE IInv'
    BY <1>7, FailedKeeps
<1>8. CASE UNCHANGED vars
    <2>1. UNCHANGED <<mode, source, disabled, value, sourceData, shown, isEmpty, cache, requests,
                      calls, changes, waiting, overtaken, failed, switched>>
        BY <1>8 DEF vars, options, text, history
    <2>2. Places'
        BY <2>1, PlacesKept DEF IInv
    <2>3. Origin' /\ Expected' /\ WillShow'
        BY <2>1, OriginKept, ExpectedKept, WillShowKept DEF IInv
    <2>4. TypeOK' /\ DataOfSource' /\ Says'
        BY <2>1 DEF IInv, TypeOK, DataOfSource, Says
    <2> QED BY <2>2, <2>3, <2>4 DEF IInv
<1> QED BY <1>1, <1>2, <1>3, <1>4, <1>5, <1>6, <1>7, <1>8 DEF Next

LEMMA SpecHolds == Spec => []IInv
<1> QED BY InitHolds, StepKeeps, PTL DEF Spec

LEMMA SaysShown == IInv => ShowsValue
<1> SUFFICES ASSUME IInv PROVE ShowsValue
    OBVIOUS
<1>1. \A i \in Inputs \ (overtaken \cup failed) : ToShow(i) = {} => shown[i].value = value[i]
    BY DEF IInv, WillShow
<1>2. \A i \in Inputs \ disabled : shown[i].text # Null
    BY TextAssumption DEF IInv, Says
<1>3. \A i \in disabled \ failed : shown[i].text # EmptyText
    BY TextAssumption DEF IInv, Says, TypeOK
<1> QED BY <1>1, <1>2, <1>3 DEF ShowsValue

\* Every option, list, text, queue and request of the list inputs keeps its form, for any
\* answers: List.onSourceReady, Editable.setValue and handleEmpty.
THEOREM ListsTyped == Spec => []TypeOK
<1>1. IInv => TypeOK
    BY DEF IInv
<1> QED BY <1>1, SpecHolds, PTL

\* Whoever waits for a list waits in exactly one place, in the queue of a url that the
\* document's cache is loading or for a request of its own: the callbacks and the loading
\* flag that inputs with one url share in List.onSourceReady.
THEOREM NoneIsLost == Spec => []NoCallLost
<1>1. IInv => NoCallLost
    BY PlacesKeepCalls DEF IInv
<1> QED BY <1>1, SpecHolds, PTL

\* The list of an input is that of its source and has the texts of the answer for exactly
\* the answer's values; what List.doPrepend puts there is there once, or twice for an input
\* that asked the server while another of its calls waited in the queue, and not in the
\* lists that inputs share: List.option, List.makeArray and Select.value2htmlFinal.
THEOREM ListsStayIntact == Spec => []ListsIntact
<1>1. IInv => ListsIntact
    BY OriginTells DEF IInv, ListsIntact
<1> QED BY <1>1, SpecHolds, PTL

\* Who waits for no list shows the value of the element, and is blank only while it is
\* disabled, unless a list failed or two values were to be shown at once and not in one
\* queue: Editable.render and handleEmpty.
THEOREM ShowsItsValue == Spec => []ShowsValue
<1>1. IInv => ShowsValue
    BY SaysShown
<1> QED BY <1>1, SpecHolds, PTL

=============================================================================
