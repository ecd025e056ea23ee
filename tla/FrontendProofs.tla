--------------------------- MODULE FrontendProofs ----------------------------
(***************************************************************************)
(* Proofs about Frontend for any navigations, hosts, lists and addresses,  *)
(* any number of threads, editions, redirects and restarts.                *)
(***************************************************************************)
EXTENDS Frontend, TLAPS

-----------------------------------------------------------------------------
(* Addresses.                                                              *)

Firsts == {"", "dashboard", "plugins", "invalidkey", "alerts", "bookmarkEditor",
           "test", "static", "error", "key", "malformed", "other"}

\* The address made of a first segment only is an address.
LEMMA ToIsPath ==
    ASSUME NEW first \in Firsts
    PROVE  to(first) \in Path /\ to(first).first = first
<1>1. 0 \in 0 .. MaxEdition
    BY BoundAssumption
<1>. QED BY <1>1 DEF Firsts, Path, to

\* A key stays an address when its edition is replaced by another there is.
LEMMA EditionIsPath ==
    ASSUME NEW p \in Path, NEW e \in 0 .. MaxEdition
    PROVE  [p EXCEPT !.edition = e] \in Path
BY DEF Path

\* Only addresses below "static" have a servlet on the white list, and only
\* keys, among the addresses Root serves, are fetched.
LEMMA WhiteIsStatic ==
    ASSUME NEW p \in Path, getServletPath(p) \in whiteUrls
    PROVE  p.first = "static"
BY DEF getServletPath, whiteUrls, Pages

-----------------------------------------------------------------------------
(* Types.                                                                  *)

Phases == Running \cup {"none", "sent", "answered", "shown", "lost", "looped"}

Modals == {NoKey} \cup {<<p>> : p \in Path}

\* A redirect keeps the types.
LEMMA RedirectTypes ==
    ASSUME TypeOK, NEW q \in Navigations, NEW p \in Path, sendRedirect(q, p),
           buckets' \subseteq Navigations
    PROVE  TypeOK'
<1>1. at' \in [Navigations -> Path]
    BY DEF sendRedirect, TypeOK
<1>2. modal' \in [Navigations -> Modals]
    <2>1. NoKey \in Modals /\ modal \in [Navigations -> Modals]
        BY DEF Modals, TypeOK
    <2>. QED BY <2>1 DEF sendRedirect
<1>3. hops' \in [Navigations -> 0 .. MaxHops]
    <2>1. hops[q] < MaxHops => hops[q] + 1 \in 0 .. MaxHops
        BY BoundAssumption DEF TypeOK
    <2>. QED BY <2>1 DEF sendRedirect, TypeOK
<1>4. phase' \in [Navigations -> Phases]
    <2>1. phase \in [Navigations -> Phases]
        BY DEF TypeOK, Phases
    <2>2. {"filter", "sent", "looped", "lost"} \subseteq Phases
        BY DEF Phases, Running
    <2>. QED BY <2>1, <2>2 DEF sendRedirect
<1>5. queue' \in Seq(Navigations)
    <2>1. Append(queue, q) \in Seq(Navigations)
        BY DEF TypeOK
    <2>. QED BY <2>1 DEF sendRedirect, TypeOK
<1>6. open' \subseteq Navigations /\ old' \subseteq Navigations
    BY DEF sendRedirect, TypeOK
<1>7. UNCHANGED <<allowedHosts, filterHosts, restarts, from, asked, latest>>
    BY DEF sendRedirect, config
<1>. QED BY <1>1, <1>2, <1>3, <1>4, <1>5, <1>6, <1>7 DEF TypeOK, Phases, Modals

\* So does the end of a response.
LEMMA DeliverTypes ==
    ASSUME TypeOK, NEW q \in Navigations, Deliver(q), buckets' \subseteq Navigations
    PROVE  TypeOK'
<1>1. phase' \in [Navigations -> Phases]
    <2>1. phase \in [Navigations -> Phases] /\ "answered" \in Phases /\ "lost" \in Phases
        BY DEF TypeOK, Phases
    <2>. QED BY <2>1 DEF Deliver
<1>. QED BY <1>1 DEF Deliver, TypeOK, Phases, config, navigation

\* And so does a thread that goes on.
LEMMA ContinueTypes ==
    ASSUME TypeOK, NEW q \in Navigations, NEW next \in Running, Continue(q, next),
           buckets' \subseteq Navigations
    PROVE  TypeOK'
<1>1. phase' \in [Navigations -> Phases]
    <2>1. phase \in [Navigations -> Phases] /\ next \in Phases
        BY DEF TypeOK, Phases
    <2>. QED BY <2>1 DEF Continue
<1>. QED BY <1>1 DEF Continue, TypeOK, Phases, config, navigation

\* The key of a dialog is an address.
LEMMA ModalIsPath ==
    ASSUME TypeOK, NEW q \in Navigations, modal[q] # NoKey
    PROVE  modal[q][1] \in Path
<1>1. PICK p \in Path : modal[q] = <<p>>
    BY DEF TypeOK
<1>. QED BY <1>1

-----------------------------------------------------------------------------
(* The steps of a handler, by how they leave the request.                  *)

\* Where a redirect leads from the current address.
LeadsTo(q, p) ==
    \/ phase[q] = "error" /\ modal[q] = NoKey /\ p = to("invalidkey")
    \/ (phase[q] = "error" \/ InRoot(q)) /\ modal[q] # NoKey /\ p = modal[q][1]
    \/ InRoot(q) /\ modal[q] = NoKey /\ at[q].first = "" /\ p = to("dashboard")
    \/ InRoot(q) /\ modal[q] = NoKey /\ at[q].first \notin {"", "key"}
         /\ p = to("invalidkey")
    \/ phase[q] = "fetching" /\ p = to("invalidkey")
    \/ phase[q] = "fetching" /\ \E e \in at[q].edition + 1 .. MaxEdition :
         p = [at[q] EXCEPT !.edition = e]

\* A thread answers with a redirect; buckets stay.
Redirects(q) ==
    /\ phase[q] \in {"error", "servlet", "fetching"}
    /\ \E p \in Path : LeadsTo(q, p) /\ sendRedirect(q, p)
    /\ buckets' = buckets

\* A thread ends with a page, and frees the bucket it may hold.
Delivers(q) ==
    /\ phase[q] \in {"servlet", "copying"}
    /\ Deliver(q)
    /\ buckets' = buckets \ (IF phase[q] = "copying" THEN {q} ELSE {})
    /\ phase[q] = "servlet" => getServletPath(at[q]) # ""

\* A thread goes on: past the filter, or because of it, to a missing file, to a
\* fetch or from it, with a bucket in the end.
Continues(q) ==
    \/ /\ phase[q] = "filter" /\ Continue(q, "servlet") /\ buckets' = buckets
       /\ unblock(q) \/ getServletPath(at[q]) \in whiteUrls
    \/ /\ phase[q] = "filter" /\ Continue(q, "error") /\ buckets' = buckets
       /\ ~unblock(q)
    \/ /\ phase[q] = "servlet" /\ Continue(q, "error") /\ buckets' = buckets
       /\ getServletPath(at[q]) = "static"
    \/ /\ phase[q] = "servlet" /\ Continue(q, "fetching") /\ buckets' = buckets
       /\ at[q].first = "key"
    \/ /\ phase[q] = "fetching" /\ Continue(q, "copying")
       /\ buckets' = buckets \cup {q}

\* Every step of a handler or of a fetch is one of these.
LEMMA HandlerForms ==
    ASSUME TypeOK, NEW q \in Navigations, Handle(q) \/ Fetched(q)
    PROVE  Redirects(q) \/ Delivers(q) \/ Continues(q) \/ IdleTimeout(q)
<1>0. at[q] \in Path
    BY DEF TypeOK
<1>1. CASE FilterPasses(q)
    BY <1>1 DEF FilterPasses, Continues
<1>2. CASE FilterBlocks(q)
    BY <1>2 DEF FilterBlocks, Continues
<1>3. CASE ErrorDispatch(q)
    BY <1>3, ToIsPath, ModalIsPath DEF ErrorDispatch, Redirects, LeadsTo, Firsts
<1>4. CASE RenderPage(q)
    BY <1>4 DEF RenderPage, Delivers, Pages
<1>5. CASE StaticResource(q)
    BY <1>5 DEF StaticResource, Delivers, Continues
<1>6. CASE RootPost(q)
    BY <1>6, ModalIsPath DEF RootPost, InRoot, Redirects, LeadsTo
<1>7. CASE RootRedirect(q)
    <2>1. to("dashboard") \in Path /\ to("invalidkey") \in Path
        BY ToIsPath DEF Firsts
    <2>. QED BY <1>7, <2>1 DEF RootRedirect, InRoot, Redirects, LeadsTo
<1>8. CASE RootFetch(q)
    BY <1>8 DEF RootFetch, InRoot, Continues
<1>9. CASE CopyResult(q)
    BY <1>9 DEF CopyResult, Delivers
<1>10. CASE FetchSucceeds(q)
    BY <1>10 DEF FetchSucceeds, Continues
<1>11. CASE FetchFindsNewer(q)
    <2>1. PICK e \in at[q].edition + 1 .. latest :
            sendRedirect(q, [at[q] EXCEPT !.edition = e])
        BY <1>11 DEF FetchFindsNewer
    <2>2. e \in 0 .. MaxEdition /\ e \in at[q].edition + 1 .. MaxEdition
        <3>1. at[q].edition \in 0 .. MaxEdition
            BY <1>0 DEF Path
        <3>2. latest \in Nat /\ latest <= MaxEdition
            BY BoundAssumption DEF TypeOK
        <3>. QED BY <2>1, <3>1, <3>2, BoundAssumption
    <2>3. [at[q] EXCEPT !.edition = e] \in Path
        BY <1>0, <2>2, EditionIsPath
    <2>4. phase[q] = "fetching" /\ phase[q] \in {"error", "servlet", "fetching"}
          /\ buckets' = buckets
        BY <1>11 DEF FetchFindsNewer
    <2>5. LeadsTo(q, [at[q] EXCEPT !.edition = e])
        BY <2>2, <2>4 DEF LeadsTo
    <2>. QED BY <2>1, <2>3, <2>4, <2>5 DEF Redirects
<1>12. CASE FetchFails(q)
    BY <1>12, ToIsPath DEF FetchFails, Redirects, LeadsTo, Firsts
<1>. QED BY <1>1, <1>2, <1>3, <1>4, <1>5, <1>6, <1>7, <1>8, <1>9, <1>10, <1>11,
            <1>12 DEF Handle, Fetched

\* Every step keeps the types.
LEMMA TypeInductive == TypeOK /\ [Next]_vars => TypeOK'
<1> SUFFICES ASSUME TypeOK, [Next]_vars
             PROVE  TypeOK'
    OBVIOUS
<1>1. ASSUME NEW q \in Navigations, Handle(q) \/ Fetched(q)
      PROVE  TypeOK'
    <2>1. CASE Redirects(q)
        BY <2>1, RedirectTypes DEF Redirects, TypeOK
    <2>2. CASE Delivers(q)
        BY <2>2, DeliverTypes DEF Delivers, TypeOK
    <2>3. CASE Continues(q)
        <3>1. buckets' \subseteq Navigations
            BY <2>3 DEF Continues, TypeOK
        <3>. QED BY <2>3, <3>1, ContinueTypes DEF Continues, Running
    <2>4. CASE IdleTimeout(q)
        BY <2>4 DEF IdleTimeout, TypeOK, config, navigation
    <2>. QED BY <1>1, <2>1, <2>2, <2>3, <2>4, HandlerForms
<1>2. ASSUME NEW q \in Navigations, NEW p \in Path,
             NEW key \in {NoKey} \cup {<<x>> : x \in Path}, Ask(q, p, key)
      PROVE  TypeOK'
    <2>1. (IF key = NoKey THEN p ELSE key[1]) \in Path
        BY DEF NoKey
    <2>2. asked' \in [Navigations -> Path] /\ at' \in [Navigations -> Path]
        BY <1>2, <2>1 DEF Ask, TypeOK
    <2>3. modal' \in [Navigations -> {NoKey} \cup {<<x>> : x \in Path}]
        <3>1. key \in Modals /\ modal \in [Navigations -> Modals]
            BY DEF Modals, TypeOK
        <3>. QED BY <1>2, <3>1 DEF Ask, Modals
    <2>4. hops' \in [Navigations -> 0 .. MaxHops]
        <3>1. 0 \in 0 .. MaxHops
            BY BoundAssumption
        <3>. QED BY <1>2, <3>1 DEF Ask, TypeOK
    <2>5. queue' \in Seq(Navigations)
        BY <1>2 DEF Ask, TypeOK
    <2>6. phase' \in [Navigations -> Phases]
        <3>1. phase \in [Navigations -> Phases] /\ "sent" \in Phases
            BY DEF TypeOK, Phases
        <3>. QED BY <1>2, <3>1 DEF Ask
    <2>. QED BY <1>2, <2>2, <2>3, <2>4, <2>5, <2>6 DEF Ask, TypeOK, Phases, config
<1>3. ASSUME NEW q \in Navigations, Abort(q) PROVE TypeOK'
    BY <1>3 DEF Abort, TypeOK, config, navigation
<1>4. ASSUME NEW q \in Navigations, Read(q) PROVE TypeOK'
    <2>1. to("") \in Path
        BY ToIsPath DEF Firsts
    <2>2. modal' \in [Navigations -> Modals]
        <3>1. NoKey \in Modals /\ modal \in [Navigations -> Modals]
            BY DEF Modals, TypeOK
        <3>. QED BY <1>4, <3>1 DEF Read
    <2>3. 0 \in 0 .. MaxHops
        BY BoundAssumption
    <2>4. phase' \in [Navigations -> Phases]
        <3>1. phase \in [Navigations -> Phases] /\ "none" \in Phases
            BY DEF TypeOK, Phases
        <3>. QED BY <1>4, <3>1 DEF Read
    <2>. QED BY <1>4, <2>1, <2>2, <2>3, <2>4 DEF Read, TypeOK, Modals, Phases, config
<1>5. CASE Accept
    <2>1. queue' \in Seq(Navigations)
        BY <1>5 DEF Accept, TypeOK
    <2>2. phase' \in [Navigations -> Phases]
        <3>1. phase \in [Navigations -> Phases] /\ "filter" \in Phases
            BY DEF TypeOK, Phases, Running
        <3>. QED BY <1>5, <3>1 DEF Accept
    <2>. QED BY <1>5, <2>1, <2>2 DEF Accept, TypeOK, Phases, config, navigation
<1>6. CASE InsertEdition
    BY <1>6, BoundAssumption DEF InsertEdition, TypeOK, config, navigation
<1>7. CASE Restart
    <2>1. restarts' \in 0 .. MaxRestarts
        BY <1>7, BoundAssumption DEF Restart, TypeOK
    <2>2. phase' \in [Navigations -> Phases]
        BY <1>7 DEF Restart, TypeOK, Phases
    <2>3. queue' \in Seq(Navigations)
        BY <1>7 DEF Restart
    <2>. QED BY <1>7, <2>1, <2>2, <2>3 DEF Restart, TypeOK, Phases, navigation
<1>8. ASSUME NEW list \in HostLists, SetAllowedHosts(list) PROVE TypeOK'
    BY <1>8 DEF SetAllowedHosts, TypeOK, navigation
<1>9. CASE UNCHANGED vars
    BY <1>9 DEF vars, config, navigation, TypeOK
<1>. QED
    <2>1. ASSUME NEW q \in Navigations, NEW p \in Asked, Ask(q, p, NoKey)
          PROVE  TypeOK'
        BY <1>2, <2>1, AskedAssumption
    <2>2. ASSUME NEW q \in Navigations, NEW key \in Keys, Ask(q, to(""), <<key>>)
          PROVE  TypeOK'
        <3>1. to("") \in Path /\ <<key>> \in {<<x>> : x \in Path}
            BY AskedAssumption, ToIsPath DEF Firsts
        <3>. QED BY <1>2, <2>2, <3>1
    <2>. QED BY <1>1, <1>3, <1>4, <1>5, <1>6, <1>7, <1>8, <1>9, <2>1, <2>2 DEF Next

-----------------------------------------------------------------------------
(* Connections that wait for a thread.                                     *)

\* The sequence s holds every navigation that is "sent", once.
Waiting(s, ph) ==
    /\ \A i, j \in 1 .. Len(s) : s[i] = s[j] => i = j
    /\ \A i \in 1 .. Len(s) : ph[s[i]] = "sent"
    /\ \A q \in Navigations : ph[q] = "sent" => \E i \in 1 .. Len(s) : s[i] = q

\* A navigation that begins to wait is put at the end.
LEMMA WaitingAppend ==
    ASSUME NEW s \in Seq(Navigations), NEW ph, DOMAIN ph = Navigations,
           NEW q \in Navigations, ph[q] # "sent", Waiting(s, ph)
    PROVE  Waiting(Append(s, q), [ph EXCEPT ![q] = "sent"])
<1> DEFINE t == Append(s, q)
           new == [ph EXCEPT ![q] = "sent"]
<1>1. /\ Len(t) = Len(s) + 1 /\ Len(s) \in Nat
      /\ t[Len(s) + 1] = q
      /\ \A i \in 1 .. Len(s) : t[i] = s[i] /\ s[i] # q /\ s[i] \in Navigations
    BY DEF Waiting
<1>2. \A i, j \in 1 .. Len(t) : t[i] = t[j] => i = j
    <2> SUFFICES ASSUME NEW i \in 1 .. Len(t), NEW j \in 1 .. Len(t), t[i] = t[j]
                 PROVE  i = j
        OBVIOUS
    <2>1. CASE i \in 1 .. Len(s) /\ j \in 1 .. Len(s)
        BY <1>1, <2>1 DEF Waiting
    <2>2. CASE i = Len(s) + 1 \/ j = Len(s) + 1
        BY <1>1, <2>2
    <2>. QED BY <1>1, <2>1, <2>2
<1>3. \A i \in 1 .. Len(t) : new[t[i]] = "sent"
    <2> SUFFICES ASSUME NEW i \in 1 .. Len(t) PROVE new[t[i]] = "sent"
        OBVIOUS
    <2>1. CASE i \in 1 .. Len(s)
        BY <1>1, <2>1 DEF Waiting
    <2>2. CASE i = Len(s) + 1
        BY <1>1, <2>2
    <2>. QED BY <1>1, <2>1, <2>2
<1>4. ASSUME NEW r \in Navigations, new[r] = "sent"
      PROVE  \E i \in 1 .. Len(t) : t[i] = r
    <2>1. CASE r = q
        BY <1>1, <2>1
    <2>2. CASE r # q
        <3>1. PICK i \in 1 .. Len(s) : s[i] = r
            BY <1>4, <2>2 DEF Waiting
        <3>. QED BY <1>1, <3>1
    <2>. QED BY <2>1, <2>2
<1>. QED BY <1>2, <1>3, <1>4 DEF Waiting

\* The first one leaves when a thread takes it.
LEMMA WaitingTail ==
    ASSUME NEW s \in Seq(Navigations), s # << >>, NEW ph, DOMAIN ph = Navigations,
           NEW x, x # "sent", Waiting(s, ph)
    PROVE  Waiting(Tail(s), [ph EXCEPT ![Head(s)] = x])
<1> DEFINE t == Tail(s)
           new == [ph EXCEPT ![Head(s)] = x]
<1>1. /\ Len(s) \in Nat /\ Len(s) >= 1
      /\ Len(t) = Len(s) - 1
      /\ Head(s) = s[1]
      /\ \A i \in 1 .. Len(t) : t[i] = s[i + 1]
      /\ \A i \in 1 .. Len(s) : s[i] \in Navigations
    OBVIOUS
<1>2. \A i, j \in 1 .. Len(t) : t[i] = t[j] => i = j
    <2> SUFFICES ASSUME NEW i \in 1 .. Len(t), NEW j \in 1 .. Len(t), t[i] = t[j]
                 PROVE  i = j
        OBVIOUS
    <2>1. i + 1 \in 1 .. Len(s) /\ j + 1 \in 1 .. Len(s) /\ s[i + 1] = s[j + 1]
        BY <1>1
    <2>2. i + 1 = j + 1
        BY <2>1 DEF Waiting
    <2>. QED BY <1>1, <2>2
<1>3. \A i \in 1 .. Len(t) : new[t[i]] = "sent"
    <2> SUFFICES ASSUME NEW i \in 1 .. Len(t) PROVE new[t[i]] = "sent"
        OBVIOUS
    <2>1. i + 1 \in 1 .. Len(s) /\ 1 \in 1 .. Len(s) /\ i + 1 # 1
        BY <1>1
    <2>2. s[i + 1] # s[1] /\ ph[s[i + 1]] = "sent"
        BY <2>1 DEF Waiting
    <2>. QED BY <1>1, <2>1, <2>2
<1>4. ASSUME NEW r \in Navigations, new[r] = "sent"
      PROVE  \E i \in 1 .. Len(t) : t[i] = r
    <2>1. r # s[1] /\ ph[r] = "sent"
        BY <1>1, <1>4
    <2>2. PICK i \in 1 .. Len(s) : s[i] = r
        BY <2>1 DEF Waiting
    <2>3. i # 1 /\ i - 1 \in 1 .. Len(t) /\ t[i - 1] = s[i]
        BY <1>1, <2>1, <2>2
    <2>. QED BY <2>2, <2>3
<1>. QED BY <1>2, <1>3, <1>4 DEF Waiting

\* Nothing changes for those who wait when another goes on.
LEMMA WaitingStays ==
    ASSUME NEW s \in Seq(Navigations), NEW ph, DOMAIN ph = Navigations,
           NEW q \in Navigations, ph[q] # "sent", NEW x, x # "sent", Waiting(s, ph)
    PROVE  Waiting(s, [ph EXCEPT ![q] = x])
<1>1. \A i \in 1 .. Len(s) : s[i] \in Navigations /\ s[i] # q
    BY DEF Waiting
<1>. QED BY <1>1 DEF Waiting

\* A thread that outlived its server is at a fetch, or has its result.
OldInv == \A q \in old : phase[q] \in {"fetching", "copying"}

QueueInv == OneThreadEach /\ OldInv

\* A connection is queued once, as long as it waits, whatever happens.
LEMMA QueueInductive == TypeOK /\ QueueInv /\ [Next]_vars => QueueInv'
<1> SUFFICES ASSUME TypeOK, QueueInv, [Next]_vars
             PROVE  QueueInv'
    OBVIOUS
<1>0. /\ queue \in Seq(Navigations) /\ DOMAIN phase = Navigations
      /\ phase \in [Navigations -> Phases]
      /\ open \subseteq Navigations /\ old \subseteq Navigations
      /\ Waiting(queue, phase) /\ old \cap open = {} /\ OldInv
    BY DEF TypeOK, QueueInv, OneThreadEach, Waiting, Phases
<1>w. ASSUME Waiting(queue, phase)', (old \cap open)' = {}, OldInv'
      PROVE  QueueInv'
    BY <1>w DEF QueueInv, OneThreadEach, Waiting
<1>1. ASSUME NEW q \in Navigations, Handle(q) \/ Fetched(q)
      PROVE  QueueInv'
    <2>1. CASE Redirects(q)
        <3>1. PICK p \in Path : sendRedirect(q, p)
            BY <2>1 DEF Redirects
        <3>2. phase[q] # "sent" /\ open' \subseteq open /\ old' = old \ {q}
            BY <2>1, <3>1 DEF Redirects, sendRedirect
        <3>3. Waiting(queue, phase)'
            <4>1. CASE /\ phase' = [phase EXCEPT ![q] = "sent"]
                       /\ queue' = Append(queue, q)
                BY <1>0, <3>2, <4>1, WaitingAppend
            <4>2. ASSUME NEW x, x # "sent", phase' = [phase EXCEPT ![q] = x],
                         UNCHANGED queue
                  PROVE  Waiting(queue, phase)'
                BY <1>0, <3>2, <4>2, WaitingStays
            <4>. QED BY <3>1, <4>1, <4>2 DEF sendRedirect
        <3>4. OldInv'
            BY <1>0, <3>1, <3>2 DEF sendRedirect, OldInv
        <3>. QED BY <1>0, <1>w, <3>2, <3>3, <3>4
    <2>2. CASE Delivers(q)
        <3>1. PICK x : x # "sent" /\ phase' = [phase EXCEPT ![q] = x]
            BY <2>2 DEF Delivers, Deliver
        <3>2. phase[q] # "sent" /\ UNCHANGED <<queue, open>> /\ old' = old \ {q}
            BY <2>2 DEF Delivers, Deliver
        <3>3. Waiting(queue, phase)'
            BY <1>0, <3>1, <3>2, WaitingStays
        <3>4. OldInv'
            BY <1>0, <3>1, <3>2 DEF OldInv
        <3>. QED BY <1>0, <1>w, <3>2, <3>3, <3>4
    <2>3. CASE Continues(q)
        <3>1. PICK x \in Running : /\ phase' = [phase EXCEPT ![q] = x]
                                   /\ phase[q] = "fetching" => x = "copying"
            BY <2>3 DEF Continues, Continue, Running
        <3>2. /\ phase[q] \notin {"sent", "copying"} /\ UNCHANGED <<queue, open>>
              /\ old' = old
            BY <2>3 DEF Continues, Continue
        <3>3. Waiting(queue, phase)'
            BY <1>0, <3>1, <3>2, WaitingStays DEF Running
        <3>4. OldInv'
            BY <1>0, <3>1, <3>2 DEF OldInv
        <3>. QED BY <1>0, <1>w, <3>2, <3>3, <3>4
    <2>4. CASE IdleTimeout(q)
        <3>1. Waiting(queue, phase)'
            BY <1>0, <2>4, WaitingStays DEF IdleTimeout
        <3>2. OldInv'
            BY <1>0, <2>4 DEF IdleTimeout, OldInv
        <3>. QED BY <1>0, <1>w, <2>4, <3>1, <3>2 DEF IdleTimeout
    <2>. QED BY <1>1, <2>1, <2>2, <2>3, <2>4, HandlerForms
<1>2. ASSUME NEW q \in Navigations, NEW p, NEW key, Ask(q, p, key)
      PROVE  QueueInv'
    <2>1. Waiting(queue, phase)'
        BY <1>0, <1>2, WaitingAppend DEF Ask
    <2>2. q \notin old
        BY <1>0, <1>2 DEF Ask, OldInv
    <2>3. OldInv' /\ (old \cap open)' = {}
        BY <1>0, <1>2, <2>2 DEF Ask, OldInv
    <2>. QED BY <1>w, <2>1, <2>3
<1>3. ASSUME NEW q \in Navigations, Abort(q) PROVE QueueInv'
    <2>1. Waiting(queue, phase)'
        <3>1. CASE phase[q] \in {"answered", "shown"}
            BY <1>0, <1>3, <3>1, WaitingStays DEF Abort
        <3>2. CASE phase[q] \notin {"answered", "shown"}
            BY <1>0, <1>3, <3>2 DEF Abort
        <3>. QED BY <3>1, <3>2
    <2>2. OldInv' /\ (old \cap open)' = {}
        BY <1>0, <1>3 DEF Abort, OldInv
    <2>. QED BY <1>w, <2>1, <2>2
<1>4. ASSUME NEW q \in Navigations, Read(q) PROVE QueueInv'
    <2>1. Waiting(queue, phase)'
        BY <1>0, <1>4, WaitingStays DEF Read
    <2>2. OldInv' /\ (old \cap open)' = {}
        BY <1>0, <1>4 DEF Read, OldInv
    <2>. QED BY <1>w, <2>1, <2>2
<1>5. CASE Accept
    <2>1. Waiting(queue, phase)'
        BY <1>0, <1>5, WaitingTail DEF Accept
    <2>2. Head(queue) \in Navigations /\ phase[Head(queue)] = "sent"
        BY <1>0, <1>5 DEF Accept, Waiting
    <2>3. OldInv' /\ (old \cap open)' = {}
        BY <1>0, <1>5, <2>2 DEF Accept, OldInv
    <2>. QED BY <1>w, <2>1, <2>3
<1>6. CASE InsertEdition
    BY <1>0, <1>6, <1>w DEF InsertEdition, OldInv, Waiting
<1>7. CASE Restart
    <2>1. Waiting(queue, phase)'
        BY <1>7 DEF Restart, Waiting
    <2>2. OldInv' /\ (old \cap open)' = {}
        BY <1>7 DEF Restart, OldInv
    <2>. QED BY <1>w, <2>1, <2>2
<1>8. ASSUME NEW list, SetAllowedHosts(list) PROVE QueueInv'
    BY <1>0, <1>8, <1>w DEF SetAllowedHosts, OldInv, Waiting
<1>9. CASE UNCHANGED vars
    BY <1>0, <1>9, <1>w DEF vars, OldInv, Waiting
<1>. QED BY <1>1, <1>2, <1>3, <1>4, <1>5, <1>6, <1>7, <1>8, <1>9 DEF Next

-----------------------------------------------------------------------------
\* A step that changes the phase of one thread only takes or frees its bucket.
LEMMA BucketsInductive ==
    TypeOK /\ QueueInv /\ BucketsFreed /\ [Next]_vars => BucketsFreed'
<1> SUFFICES ASSUME TypeOK, QueueInv, BucketsFreed, [Next]_vars
             PROVE  BucketsFreed'
    OBVIOUS
<1>0. phase \in [Navigations -> Phases] /\ queue \in Seq(Navigations)
    BY DEF TypeOK, Phases
<1>1. ASSUME NEW q \in Navigations, Handle(q) \/ Fetched(q)
      PROVE  BucketsFreed'
    <2>1. CASE Redirects(q)
        <3>1. PICK x : x # "copying" /\ phase' = [phase EXCEPT ![q] = x]
            BY <2>1 DEF Redirects, sendRedirect
        <3>. QED BY <1>0, <2>1, <3>1 DEF Redirects, BucketsFreed
    <2>2. CASE Delivers(q)
        <3>1. PICK x : x # "copying" /\ phase' = [phase EXCEPT ![q] = x]
            BY <2>2 DEF Delivers, Deliver
        <3>. QED BY <1>0, <2>2, <3>1 DEF Delivers, BucketsFreed
    <2>3. CASE Continues(q)
        BY <1>0, <2>3 DEF Continues, Continue, BucketsFreed
    <2>4. CASE IdleTimeout(q)
        BY <1>0, <2>4 DEF IdleTimeout, BucketsFreed
    <2>. QED BY <1>1, <2>1, <2>2, <2>3, <2>4, HandlerForms
<1>2. ASSUME NEW q \in Navigations, NEW p, NEW key, Ask(q, p, key)
      PROVE  BucketsFreed'
    BY <1>0, <1>2 DEF Ask, BucketsFreed
<1>3. ASSUME NEW q \in Navigations, Abort(q) PROVE BucketsFreed'
    BY <1>0, <1>3 DEF Abort, BucketsFreed
<1>4. ASSUME NEW q \in Navigations, Read(q) PROVE BucketsFreed'
    BY <1>0, <1>4 DEF Read, BucketsFreed
<1>5. CASE Accept
    <2>1. Head(queue) \in Navigations /\ phase[Head(queue)] = "sent"
        BY <1>0, <1>5 DEF Accept, QueueInv, OneThreadEach
    <2>. QED BY <1>0, <1>5, <2>1 DEF Accept, BucketsFreed
<1>6. CASE InsertEdition
    BY <1>6 DEF InsertEdition, BucketsFreed
<1>7. CASE Restart
    BY <1>0, <1>7 DEF Restart, BucketsFreed
<1>8. ASSUME NEW list, SetAllowedHosts(list) PROVE BucketsFreed'
    BY <1>8 DEF SetAllowedHosts, BucketsFreed
<1>9. CASE UNCHANGED vars
    BY <1>9 DEF vars, BucketsFreed
<1>. QED BY <1>1, <1>2, <1>3, <1>4, <1>5, <1>6, <1>7, <1>8, <1>9 DEF Next

-----------------------------------------------------------------------------
(* Who gets an answer.                                                     *)

\* Only keys are fetched.
FetchInv ==
    \A q \in Navigations : phase[q] \in {"fetching", "copying"} => at[q].first = "key"

\* A connection that is open belongs to a navigation under way.
OpenInv == \A q \in open : phase[q] \notin {"none", "lost", "looped"}

\* The error page comes to an allowed host for a file that is not there.
ErrorInv ==
    \A q \in open : phase[q] = "error" /\ unblock(q) => getServletPath(at[q]) = "static"

AnswerInv == FetchInv /\ OpenInv /\ ErrorInv /\ BlockedGetsNothing

\* Who is blocked stays outside through redirects, fetches and error pages.
LEMMA AnswersInductive ==
    TypeOK /\ QueueInv /\ AnswerInv /\ [Next]_vars => AnswerInv'
<1> SUFFICES ASSUME TypeOK, QueueInv, AnswerInv, [Next]_vars
             PROVE  AnswerInv'
    OBVIOUS
<1>0. /\ phase \in [Navigations -> Phases] /\ queue \in Seq(Navigations)
      /\ at \in [Navigations -> Path] /\ open \subseteq Navigations
    BY DEF TypeOK, Phases
<1> USE DEF AnswerInv, FetchInv, OpenInv, ErrorInv, BlockedGetsNothing, unblock
<1>1. ASSUME NEW q \in Navigations, Handle(q) \/ Fetched(q)
      PROVE  AnswerInv'
    <2>1. CASE Redirects(q)
        <3>1. PICK p \in Path : sendRedirect(q, p)
            BY <2>1 DEF Redirects
        <3>2. /\ phase'[q] \in {"filter", "sent", "looped", "lost"}
              /\ q \in open' => phase'[q] \in {"filter", "sent"}
              /\ \A r \in Navigations \ {q} :
                    phase'[r] = phase[r] /\ at'[r] = at[r] /\ (r \in open' => r \in open)
              /\ UNCHANGED <<from, filterHosts>>
            BY <1>0, <3>1 DEF sendRedirect, config
        <3>3. open' \subseteq Navigations
            BY <1>0, <3>1 DEF sendRedirect
        <3>. QED BY <1>0, <3>2, <3>3
    <2>2. CASE Delivers(q)
        <3>1. q \in open /\ phase[q] \in {"servlet", "copying"}
                => unblock(q) \/ at[q].first = "static"
            OBVIOUS
        <3>. QED BY <1>0, <2>2, <3>1 DEF Delivers, Deliver, config, navigation
    <2>3. CASE Continues(q)
        <3>1. getServletPath(at[q]) \in whiteUrls => at[q].first = "static"
            BY <1>0, WhiteIsStatic
        <3>. QED BY <1>0, <2>3, <3>1 DEF Continues, Continue, config, navigation
    <2>4. CASE IdleTimeout(q)
        BY <1>0, <2>4 DEF IdleTimeout, config, navigation
    <2>. QED BY <1>1, <2>1, <2>2, <2>3, <2>4, HandlerForms
<1>2. ASSUME NEW q \in Navigations, NEW p, NEW key, Ask(q, p, key)
      PROVE  AnswerInv'
    BY <1>0, <1>2 DEF Ask, config
<1>3. ASSUME NEW q \in Navigations, Abort(q) PROVE AnswerInv'
    BY <1>0, <1>3 DEF Abort, config, navigation
<1>4. ASSUME NEW q \in Navigations, Read(q) PROVE AnswerInv'
    BY <1>0, <1>4 DEF Read, config
<1>5. CASE Accept
    <2>1. Head(queue) \in Navigations /\ phase[Head(queue)] = "sent"
        BY <1>0, <1>5 DEF Accept, QueueInv, OneThreadEach
    <2>. QED BY <1>0, <1>5, <2>1 DEF Accept, config, navigation
<1>6. CASE InsertEdition
    BY <1>6 DEF InsertEdition, config, navigation
<1>7. CASE Restart
    BY <1>0, <1>7 DEF Restart, navigation
<1>8. ASSUME NEW list, SetAllowedHosts(list) PROVE AnswerInv'
    BY <1>8 DEF SetAllowedHosts, navigation
<1>9. CASE UNCHANGED vars
    BY <1>9 DEF vars, config, navigation
<1>. QED BY <1>1, <1>2, <1>3, <1>4, <1>5, <1>6, <1>7, <1>8, <1>9 DEF Next

-----------------------------------------------------------------------------
(* How long a chain of redirects is.                                       *)

\* What a redirect does to a navigation whose connection stays open, and to others.
LEMMA RedirectFollowed ==
    ASSUME TypeOK, NEW q \in Navigations, NEW p \in Path, sendRedirect(q, p)
    PROVE  /\ q \in open' => /\ q \in open
                             /\ at'[q] = p /\ modal'[q] = NoKey
                             /\ hops'[q] = hops[q] + 1
                             /\ phase'[q] \in {"filter", "sent"}
           /\ \A r \in Navigations \ {q} :
                /\ r \in open' <=> r \in open
                /\ at'[r] = at[r] /\ modal'[r] = modal[r] /\ hops'[r] = hops[r]
                /\ phase'[r] = phase[r]
           /\ UNCHANGED <<from, asked, filterHosts, latest>>
BY DEF sendRedirect, TypeOK, config

\* The pages redirects end at.
LEMMA EndOfRedirects ==
    /\ to("invalidkey").first = "invalidkey" /\ to("dashboard").first = "dashboard"
    /\ getServletPath(to("invalidkey")) = "invalidkey"
    /\ getServletPath(to("dashboard")) = "dashboard"
BY DEF to, getServletPath, Pages

\* What is left of the redirects that may follow the current address.
HopsLeft(q) ==
    /\ hops[q] <= MaxEdition + 2
    /\ at[q].first = "key" => hops[q] <= at[q].edition + 1
    /\ at[q].first # "key" /\ getServletPath(at[q]) \in {"", "static"} => hops[q] <= 1
    /\ modal[q] # NoKey => hops[q] = 0

HopsInv == \A q \in open : unblock(q) => HopsLeft(q)

\* A redirect of an allowed host comes closer to the end.
LEMMA RedirectCloser ==
    ASSUME TypeOK, AnswerInv, NEW q \in open, unblock(q), HopsLeft(q),
           NEW p \in Path, LeadsTo(q, p)
    PROVE  /\ hops[q] + 1 <= MaxEdition + 2
           /\ p.first = "key" => hops[q] + 1 <= p.edition + 1
           /\ p.first # "key" /\ getServletPath(p) \in {"", "static"} => hops[q] + 1 <= 1
<1>0. q \in Navigations /\ hops[q] \in Nat /\ MaxEdition \in Nat
    BY BoundAssumption DEF TypeOK
<1>a. at[q] \in Path
    BY <1>0 DEF TypeOK
<1>e. \A x \in Path : x.edition \in 0 .. MaxEdition
    BY DEF Path
<1>end. ASSUME p \in {to("invalidkey"), to("dashboard")}, hops[q] + 1 <= MaxEdition + 2
        PROVE  /\ hops[q] + 1 <= MaxEdition + 2
               /\ p.first = "key" => hops[q] + 1 <= p.edition + 1
               /\ p.first # "key" /\ getServletPath(p) \in {"", "static"}
                    => hops[q] + 1 <= 1
    <2>1. p.first \in {"invalidkey", "dashboard"}
          /\ getServletPath(p) \in {"invalidkey", "dashboard"}
        BY <1>end, EndOfRedirects
    <2>. QED BY <1>end, <2>1
<1>1. CASE phase[q] = "error" /\ p = to("invalidkey")
    <2>1. getServletPath(at[q]) = "static" /\ at[q].first # "key"
        BY <1>1 DEF AnswerInv, ErrorInv, getServletPath, Pages
    <2>2. hops[q] <= 1
        BY <2>1 DEF HopsLeft
    <2>3. hops[q] + 1 <= MaxEdition + 2
        BY <1>0, <2>2
    <2>. QED BY <1>1, <1>end, <2>3
<1>2. CASE (phase[q] = "error" \/ InRoot(q)) /\ modal[q] # NoKey /\ p = modal[q][1]
    <2>1. hops[q] = 0
        BY <1>2 DEF HopsLeft
    <2>2. p.edition \in Nat
        BY <1>0, <1>e
    <2>. QED BY <1>0, <2>1, <2>2
<1>3. CASE /\ InRoot(q) /\ modal[q] = NoKey /\ at[q].first # "key"
           /\ p \in {to("invalidkey"), to("dashboard")}
    <2>1. hops[q] <= 1
        BY <1>3 DEF HopsLeft, InRoot
    <2>2. hops[q] + 1 <= MaxEdition + 2
        BY <1>0, <2>1
    <2>. QED BY <1>3, <1>end, <2>2
<1>5. CASE phase[q] = "fetching" /\ p = to("invalidkey")
    <2>1. hops[q] <= at[q].edition + 1
        BY <1>0, <1>5 DEF HopsLeft, AnswerInv, FetchInv
    <2>2. at[q].edition \in 0 .. MaxEdition
        BY <1>a, <1>e
    <2>3. hops[q] + 1 <= MaxEdition + 2
        BY <1>0, <2>1, <2>2
    <2>. QED BY <1>5, <1>end, <2>3
<1>6. ASSUME phase[q] = "fetching", NEW e \in at[q].edition + 1 .. MaxEdition,
             p = [at[q] EXCEPT !.edition = e]
      PROVE  /\ hops[q] + 1 <= MaxEdition + 2
             /\ p.first = "key" /\ hops[q] + 1 <= p.edition + 1
    <2>1. at[q].first = "key" /\ hops[q] <= at[q].edition + 1
        BY <1>0, <1>6 DEF HopsLeft, AnswerInv, FetchInv
    <2>2. p.first = at[q].first /\ p.edition = e
        BY <1>a, <1>6 DEF Path
    <2>3. at[q].edition \in 0 .. MaxEdition
        BY <1>a, <1>e
    <2>4. e \in Nat /\ at[q].edition + 1 <= e /\ e <= MaxEdition
        BY <1>0, <1>6, <2>3
    <2>. QED BY <1>0, <2>1, <2>2, <2>3, <2>4
<1>. QED BY <1>1, <1>2, <1>3, <1>5, <1>6 DEF LeadsTo

\* Without any redirect, no bound is passed.
LEMMA NoHops == \A p \in Path : 0 <= MaxEdition + 2 /\ 0 <= p.edition + 1 /\ 0 <= 1
<1>1. MaxEdition \in Nat
    BY BoundAssumption
<1>2. \A p \in Path : p.edition \in 0 .. MaxEdition
    BY DEF Path
<1>. QED BY <1>1, <1>2

\* No chain of an allowed host is longer than its address allows.
LEMMA HopsInductive ==
    TypeOK /\ AnswerInv /\ HopsInv /\ [Next]_vars => HopsInv'
<1> SUFFICES ASSUME TypeOK, AnswerInv, HopsInv, [Next]_vars
             PROVE  HopsInv'
    OBVIOUS
<1>0. open \subseteq Navigations
    BY DEF TypeOK
<1> USE DEF HopsInv, HopsLeft, unblock
<1>1. ASSUME NEW q \in Navigations, Handle(q) \/ Fetched(q)
      PROVE  HopsInv'
    <2>1. CASE Redirects(q)
        <3>1. PICK p \in Path : LeadsTo(q, p) /\ sendRedirect(q, p)
            BY <2>1 DEF Redirects
        <3>2. ASSUME NEW r \in open', unblock(r)' PROVE HopsLeft(r)'
            <4>0. unblock(r) /\ r \in open
                BY <1>0, <3>1, <3>2, RedirectFollowed DEF sendRedirect
            <4>1. CASE r = q
                <5>1. HopsLeft(q)
                    BY <4>0, <4>1
                <5>2. /\ at'[q] = p /\ modal'[q] = NoKey /\ hops'[q] = hops[q] + 1
                    BY <3>1, <3>2, <4>1, RedirectFollowed
                <5>. QED BY <3>1, <4>0, <4>1, <5>1, <5>2, RedirectCloser
            <4>2. CASE r # q
                <5>1. HopsLeft(r)
                    BY <4>0
                <5>2. /\ at'[r] = at[r] /\ modal'[r] = modal[r] /\ hops'[r] = hops[r]
                    BY <1>0, <3>1, <4>0, <4>2, RedirectFollowed
                <5>. QED BY <5>1, <5>2
            <4>. QED BY <4>1, <4>2
        <3>. QED BY <3>2
    <2>2. CASE Delivers(q)
        BY <2>2 DEF Delivers, Deliver, config, navigation
    <2>3. CASE Continues(q)
        BY <2>3 DEF Continues, Continue, config, navigation
    <2>4. CASE IdleTimeout(q)
        BY <2>4 DEF IdleTimeout, config, navigation
    <2>. QED BY <1>1, <2>1, <2>2, <2>3, <2>4, HandlerForms
<1>2. ASSUME NEW q \in Navigations, NEW p \in Path, NEW key, Ask(q, p, key)
      PROVE  HopsInv'
    <2>1. hops'[q] = 0 /\ at'[q] = p
        BY <1>2 DEF Ask, TypeOK
    <2>2. HopsLeft(q)'
        BY <2>1, NoHops
    <2>3. ASSUME NEW r \in Navigations \ {q}, r \in open', unblock(r)' PROVE HopsLeft(r)'
        BY <1>2, <2>3 DEF Ask, TypeOK, config
    <2>. QED BY <1>0, <1>2, <2>2, <2>3 DEF Ask
<1>3. ASSUME NEW q \in Navigations, Abort(q) PROVE HopsInv'
    BY <1>3 DEF Abort, config, navigation
<1>4. ASSUME NEW q \in Navigations, Read(q) PROVE HopsInv'
    <2>1. ASSUME NEW r \in open', unblock(r)' PROVE HopsLeft(r)'
        BY <1>0, <1>4, <2>1 DEF Read, TypeOK, config
    <2>. QED BY <2>1
<1>5. CASE Accept
    BY <1>5 DEF Accept, config, navigation
<1>6. CASE InsertEdition
    BY <1>6 DEF InsertEdition, config, navigation
<1>7. CASE Restart
    BY <1>7 DEF Restart
<1>8. ASSUME NEW list, SetAllowedHosts(list) PROVE HopsInv'
    BY <1>8 DEF SetAllowedHosts, navigation
<1>9. CASE UNCHANGED vars
    BY <1>9 DEF vars, config, navigation
<1>. QED BY <1>1, <1>2, <1>3, <1>4, <1>5, <1>6, <1>7, <1>8, <1>9, AskedAssumption,
            ToIsPath DEF Next, Firsts

-----------------------------------------------------------------------------
(* Where redirects lead.                                                   *)

\* The address itself, or one that it leads to.
OnTheWay(p, a) == a = p \/ a \in GW!Landing(p)

\* The servlet path and GW!HasPage agree on which addresses have a page.
LEMMA PagesAgree ==
    ASSUME NEW p \in Path
    PROVE  /\ GW!HasPage(p) <=> getServletPath(p) \in Pages \cup {"test"}
           /\ p.first = "static" <=> getServletPath(p) = "static"
           /\ p.first \in {"", "key"} => getServletPath(p) = ""
BY DEF GW!HasPage, getServletPath, Pages

\* What the addresses are to which an address leads.
LEMMA LandingCases ==
    ASSUME NEW p \in Path, NEW a \in GW!Landing(p)
    PROVE  \/ a = p /\ (GW!HasPage(p) \/ p.first = "static")
           \/ a = to("dashboard") \/ a = to("invalidkey")
           \/ /\ p.first = "key" /\ ~GW!HasPage(p)
              /\ \E e \in p.edition .. MaxEdition : a = [p EXCEPT !.edition = e]
BY DEF GW!Landing, GW!to, to, GW!HasPage

\* Whatever an address on the way has a page, has one for the address asked for.
LEMMA WayEnds ==
    ASSUME NEW p \in Path, NEW a \in Path, OnTheWay(p, a),
           getServletPath(a) \in Pages \cup {"test", "static"}
    PROVE  a \in GW!Landing(p)
<1>1. CASE a \in GW!Landing(p)
    BY <1>1
<1>2. CASE a = p
    BY <1>2, PagesAgree DEF GW!Landing, Pages
<1>. QED BY <1>1, <1>2 DEF OnTheWay

\* Nothing but the address asked for is on the way and is Root's and no key.
LEMMA RootsOwn ==
    ASSUME NEW p \in Path, NEW a \in Path, OnTheWay(p, a),
           (getServletPath(a) = "" /\ a.first # "key") \/ a.first = "static"
    PROVE  a = p
<1>1. CASE a = to("dashboard") \/ a = to("invalidkey")
    BY <1>1, EndOfRedirects
<1>2. CASE p.first = "key" /\ \E e \in p.edition .. MaxEdition : a = [p EXCEPT !.edition = e]
    <2>1. a.first = "key"
        BY <1>2 DEF Path
    <2>. QED BY <2>1
<1>3. CASE a = p
    BY <1>3
<1>. QED BY <1>1, <1>2, <1>3, LandingCases DEF OnTheWay

\* Where Root and error pages send a request is on the way of the address asked for.
LEMMA WayOn ==
    ASSUME NEW p \in Path, NEW a \in Path, OnTheWay(p, a)
    PROVE  /\ a.first = "" => to("dashboard") \in GW!Landing(p)
           /\ getServletPath(a) = "" /\ a.first # "" => to("invalidkey") \in GW!Landing(p)
           /\ a.first = "static" => to("invalidkey") \in GW!Landing(p)
<1>1. ASSUME a.first = "" PROVE to("dashboard") \in GW!Landing(p)
    <2>1. a = p
        BY <1>1, RootsOwn, PagesAgree
    <2>. QED BY <1>1, <2>1 DEF GW!Landing, GW!HasPage, GW!to, to
<1>2. ASSUME getServletPath(a) = "", a.first \notin {"", "key"}
      PROVE  to("invalidkey") \in GW!Landing(p)
    <2>1. a = p /\ ~GW!HasPage(p)
        BY <1>2, RootsOwn, PagesAgree DEF Pages
    <2>. QED BY <1>2, <2>1 DEF GW!Landing, GW!to, to
<1>3. ASSUME a.first = "static" PROVE to("invalidkey") \in GW!Landing(p)
    <2>1. a = p /\ ~GW!HasPage(p)
        BY <1>3, RootsOwn DEF GW!HasPage
    <2>. QED BY <1>3, <2>1 DEF GW!Landing, GW!to, to
<1>4. ASSUME a.first = "key" PROVE to("invalidkey") \in GW!Landing(p)
    <2>1. p.first = "key"
        BY <1>4, LandingCases, EndOfRedirects DEF OnTheWay
    <2>2. ~GW!HasPage(p)
        BY <2>1 DEF GW!HasPage
    <2>. QED BY <2>1, <2>2 DEF GW!Landing, GW!to, to
<1>. QED BY <1>1, <1>2, <1>3, <1>4

\* A key leads to itself and its newer editions.
LEMMA KeysLead ==
    ASSUME NEW p \in Path, NEW a \in Path, OnTheWay(p, a), a.first = "key",
           NEW e \in a.edition .. MaxEdition
    PROVE  [a EXCEPT !.edition = e] \in GW!Landing(p) /\ a \in GW!Landing(p)
<1>1. p.first = "key" /\ ~GW!HasPage(p)
    BY LandingCases, EndOfRedirects DEF OnTheWay, GW!HasPage
<1>2. \A n \in p.edition .. MaxEdition : [p EXCEPT !.edition = n] \in GW!Landing(p)
    BY <1>1 DEF GW!Landing
<1>3. /\ p.edition \in 0 .. MaxEdition /\ a.edition \in 0 .. MaxEdition
      /\ MaxEdition \in Nat
    BY BoundAssumption DEF Path
<1>4. PICK n \in p.edition .. MaxEdition : a = [p EXCEPT !.edition = n]
    <2>1. CASE a = p
        <3>1. p.edition \in p.edition .. MaxEdition
            BY <1>3
        <3>2. p = [p EXCEPT !.edition = p.edition]
            BY DEF Path
        <3>. QED BY <2>1, <3>1, <3>2
    <2>2. CASE a \in GW!Landing(p)
        <3>1. a # to("dashboard") /\ a # to("invalidkey")
            BY EndOfRedirects
        <3>. QED BY <1>1, <2>2, <3>1, LandingCases
    <2>. QED BY <2>1, <2>2 DEF OnTheWay
<1>5. a.edition = n
    BY <1>4 DEF Path
<1>6. e \in p.edition .. MaxEdition
    BY <1>3, <1>4, <1>5
<1>7. [a EXCEPT !.edition = e] = [p EXCEPT !.edition = e]
    BY <1>4 DEF Path
<1>. QED BY <1>2, <1>4, <1>6, <1>7

\* An open navigation is on the way of the address asked for, or of a blocked host
\* that has been sent to the error page.
Lands(q) ==
    IF modal[q] # NoKey THEN asked[q] = modal[q][1] /\ at[q] = to("")
    ELSE OnTheWay(asked[q], at[q]) \/ (at[q] = to("invalidkey") /\ ~unblock(q))

LandingInv == \A q \in open : Lands(q)

\* A redirect stays on the way.
LEMMA RedirectLands ==
    ASSUME TypeOK, AnswerInv, NEW q \in open, Lands(q), NEW p \in Path, LeadsTo(q, p)
    PROVE  OnTheWay(asked[q], p) \/ (p = to("invalidkey") /\ ~unblock(q))
<1>0. q \in Navigations /\ at[q] \in Path /\ asked[q] \in Path
    BY DEF TypeOK
<1>1. CASE phase[q] = "error" /\ p = to("invalidkey")
    <2>1. CASE unblock(q)
        <3>1. at[q].first = "static" /\ getServletPath(at[q]) = "static"
            BY <1>0, <1>1, <2>1, PagesAgree DEF AnswerInv, ErrorInv
        <3>2. at[q] # to("") /\ at[q] # to("invalidkey")
            <4>1. to("").first = ""
                BY DEF to
            <4>. QED BY <3>1, <4>1, EndOfRedirects
        <3>3. OnTheWay(asked[q], at[q])
            BY <3>2 DEF Lands
        <3>. QED BY <1>0, <1>1, <3>1, <3>3, WayOn DEF OnTheWay
    <2>2. CASE ~unblock(q)
        BY <1>1, <2>2
    <2>. QED BY <2>1, <2>2
<1>2. CASE (phase[q] = "error" \/ InRoot(q)) /\ modal[q] # NoKey /\ p = modal[q][1]
    BY <1>2 DEF Lands, OnTheWay
<1>3. CASE InRoot(q) /\ modal[q] = NoKey /\ at[q].first # "key"
    <2>1. getServletPath(at[q]) = "" /\ OnTheWay(asked[q], at[q])
        BY <1>3, EndOfRedirects DEF InRoot, Lands
    <2>2. /\ at[q].first = "" => OnTheWay(asked[q], to("dashboard"))
          /\ at[q].first # "" => OnTheWay(asked[q], to("invalidkey"))
        BY <1>0, <2>1, WayOn DEF OnTheWay
    <2>3. \/ at[q].first = "" /\ p = to("dashboard")
          \/ at[q].first # "" /\ p = to("invalidkey")
        BY <1>3 DEF LeadsTo, InRoot
    <2>. QED BY <2>2, <2>3
<1>4. ASSUME phase[q] = "fetching"
      PROVE  at[q].first = "key" /\ OnTheWay(asked[q], at[q])
    <2>1. at[q].first = "key"
        BY <1>0, <1>4 DEF AnswerInv, FetchInv
    <2>2. to("").first = ""
        BY DEF to
    <2>. QED BY <2>1, <2>2, EndOfRedirects DEF Lands
<1>5. CASE phase[q] = "fetching" /\ p = to("invalidkey")
    <2>1. getServletPath(at[q]) = "" /\ at[q].first # ""
        BY <1>0, <1>4, <1>5, PagesAgree
    <2>. QED BY <1>0, <1>4, <1>5, <2>1, WayOn DEF OnTheWay
<1>6. ASSUME phase[q] = "fetching", NEW e \in at[q].edition + 1 .. MaxEdition,
             p = [at[q] EXCEPT !.edition = e]
      PROVE  OnTheWay(asked[q], p)
    <2>1. e \in at[q].edition .. MaxEdition
        <3>1. at[q].edition \in 0 .. MaxEdition /\ MaxEdition \in Nat
            BY <1>0, BoundAssumption DEF Path
        <3>. QED BY <3>1
    <2>2. [at[q] EXCEPT !.edition = e] \in GW!Landing(asked[q])
        BY <1>0, <1>4, <1>6, <2>1, KeysLead
    <2>. QED BY <1>6, <2>2 DEF OnTheWay
<1>. QED BY <1>1, <1>2, <1>3, <1>5, <1>6 DEF LeadsTo

\* Every navigation stays on the way of its address.
LEMMA LandingInductive ==
    TypeOK /\ AnswerInv /\ LandingInv /\ [Next]_vars => LandingInv'
<1> SUFFICES ASSUME TypeOK, AnswerInv, LandingInv, [Next]_vars
             PROVE  LandingInv'
    OBVIOUS
<1>0. open \subseteq Navigations
    BY DEF TypeOK
<1> USE DEF LandingInv, Lands, unblock
<1>1. ASSUME NEW q \in Navigations, Handle(q) \/ Fetched(q)
      PROVE  LandingInv'
    <2>1. CASE Redirects(q)
        <3>1. PICK p \in Path : LeadsTo(q, p) /\ sendRedirect(q, p)
            BY <2>1 DEF Redirects
        <3>2. ASSUME NEW r \in open' PROVE Lands(r)'
            <4>0. r \in open /\ UNCHANGED <<from, asked, filterHosts>>
                BY <1>0, <3>1, <3>2, RedirectFollowed DEF sendRedirect
            <4>1. CASE r = q
                <5>1. at'[q] = p /\ modal'[q] = NoKey
                    BY <3>1, <3>2, <4>1, RedirectFollowed
                <5>2. Lands(q)
                    BY <4>0, <4>1
                <5>3. OnTheWay(asked[q], p) \/ (p = to("invalidkey") /\ ~unblock(q))
                    BY <3>1, <4>0, <4>1, <5>2, RedirectLands
                <5>. QED BY <4>0, <4>1, <5>1, <5>3 DEF OnTheWay
            <4>2. CASE r # q
                <5>1. Lands(r)
                    BY <4>0
                <5>2. at'[r] = at[r] /\ modal'[r] = modal[r]
                    BY <1>0, <3>1, <4>0, <4>2, RedirectFollowed
                <5>. QED BY <4>0, <5>1, <5>2 DEF OnTheWay
            <4>. QED BY <4>1, <4>2
        <3>. QED BY <3>2
    <2>2. CASE Delivers(q)
        BY <2>2 DEF Delivers, Deliver, config, navigation, OnTheWay
    <2>3. CASE Continues(q)
        BY <2>3 DEF Continues, Continue, config, navigation, OnTheWay
    <2>4. CASE IdleTimeout(q)
        BY <2>4 DEF IdleTimeout, config, navigation, OnTheWay
    <2>. QED BY <1>1, <2>1, <2>2, <2>3, <2>4, HandlerForms
<1>2. ASSUME NEW q \in Navigations, NEW p \in Path, NEW key, Ask(q, p, key),
             key # NoKey => p = to("")
      PROVE  LandingInv'
    <2>1. /\ at'[q] = p /\ modal'[q] = key
          /\ asked'[q] = IF key = NoKey THEN p ELSE key[1]
        BY <1>2 DEF Ask, TypeOK
    <2>2. Lands(q)'
        BY <1>2, <2>1 DEF OnTheWay
    <2>3. ASSUME NEW r \in Navigations \ {q}, r \in open' PROVE Lands(r)'
        <3>1. Lands(r) /\ UNCHANGED <<from, filterHosts>>
            BY <1>2, <2>3 DEF Ask, config
        <3>2. at'[r] = at[r] /\ modal'[r] = modal[r] /\ asked'[r] = asked[r]
            BY <1>2, <2>3 DEF Ask, TypeOK
        <3>. QED BY <3>1, <3>2 DEF OnTheWay
    <2>. QED BY <1>0, <1>2, <2>2, <2>3 DEF Ask
<1>3. ASSUME NEW q \in Navigations, Abort(q) PROVE LandingInv'
    BY <1>3 DEF Abort, config, navigation, OnTheWay
<1>4. ASSUME NEW q \in Navigations, Read(q) PROVE LandingInv'
    <2>1. ASSUME NEW r \in open' PROVE Lands(r)'
        <3>1. r \in open /\ r # q /\ Lands(r) /\ UNCHANGED <<from, filterHosts>>
            BY <1>4, <2>1 DEF Read, config
        <3>2. at'[r] = at[r] /\ modal'[r] = modal[r] /\ asked'[r] = asked[r]
            BY <1>0, <1>4, <3>1 DEF Read, TypeOK
        <3>. QED BY <3>1, <3>2 DEF OnTheWay
    <2>. QED BY <2>1
<1>5. CASE Accept
    BY <1>5 DEF Accept, config, navigation, OnTheWay
<1>6. CASE InsertEdition
    BY <1>6 DEF InsertEdition, config, navigation, OnTheWay
<1>7. CASE Restart
    BY <1>7 DEF Restart
<1>8. ASSUME NEW list, SetAllowedHosts(list) PROVE LandingInv'
    BY <1>8 DEF SetAllowedHosts, navigation, OnTheWay
<1>9. CASE UNCHANGED vars
    BY <1>9 DEF vars, config, navigation, OnTheWay
<1>. QED
    <2>1. ASSUME NEW q \in Navigations, NEW key \in Keys, Ask(q, to(""), <<key>>)
          PROVE  LandingInv'
        <3>1. to("") \in Path
            BY ToIsPath DEF Firsts
        <3>. QED BY <1>2, <2>1, <3>1
    <2>2. ASSUME NEW q \in Navigations, NEW p \in Asked, Ask(q, p, NoKey)
          PROVE  LandingInv'
        BY <1>2, <2>2, AskedAssumption
    <2>. QED BY <1>1, <1>3, <1>4, <1>5, <1>6, <1>7, <1>8, <1>9, <2>1, <2>2 DEF Next

-----------------------------------------------------------------------------
(* The inductive invariant, and what follows from it.                      *)

IInv ==
    /\ TypeOK /\ QueueInv /\ BucketsFreed
    /\ AnswerInv /\ HopsInv /\ LandingInv

\* The server begins idle.
LEMMA InitInvariant == Init => IInv
<1> SUFFICES ASSUME Init PROVE IInv
    OBVIOUS
<1>0. queue = << >>
    BY DEF Init
<1>1. TypeOK
    <2>1. to("") \in Path
        BY ToIsPath DEF Firsts
    <2>2. 0 \in 0 .. MaxHops /\ 0 \in 0 .. MaxEdition /\ 0 \in 0 .. MaxRestarts
        BY BoundAssumption
    <2>3. modal \in [Navigations -> Modals] /\ phase \in [Navigations -> Phases]
        BY DEF Init, Modals, Phases
    <2>4. queue \in Seq(Navigations)
        BY <1>0
    <2>. QED BY <2>1, <2>2, <2>3, <2>4 DEF Init, TypeOK, Modals, Phases
<1>2. QueueInv
    <2>1. 1 .. Len(queue) = {}
        BY <1>0
    <2>2. \A q \in Navigations : phase[q] # "sent"
        BY DEF Init
    <2>. QED BY <2>1, <2>2 DEF Init, QueueInv, OneThreadEach, OldInv
<1>3. BucketsFreed
    BY DEF Init, BucketsFreed
<1>4. AnswerInv /\ HopsInv /\ LandingInv
    BY DEF Init, AnswerInv, FetchInv, OpenInv, ErrorInv, BlockedGetsNothing, HopsInv,
           LandingInv
<1>. QED BY <1>1, <1>2, <1>3, <1>4 DEF IInv

LEMMA Invariance == Spec => []IInv
<1>1. IInv /\ [Next]_vars => IInv'
    BY TypeInductive, QueueInductive, BucketsInductive, AnswersInductive,
       HopsInductive, LandingInductive DEF IInv
<1>. QED BY <1>1, InitInvariant, PTL DEF Spec

\* Every variable keeps its type: no handler sends a browser to an address, or to
\* an edition, that there is not.
THEOREM FrontendTypes == Spec => []TypeOK
<1>1. IInv => TypeOK
    BY DEF IInv
<1>. QED BY <1>1, Invariance, PTL

\* A host outside the list gets no page and no fetch, however it gets there.
THEOREM BlockedStayOutside == Spec => []BlockedGetsNothing
<1>1. IInv => BlockedGetsNothing
    BY DEF IInv, AnswerInv
<1>. QED BY <1>1, Invariance, PTL

\* The result of every fetch is freed by the thread that holds it.
THEOREM EveryBucketFreed == Spec => []BucketsFreed
<1>1. IInv => BucketsFreed
    BY DEF IInv
<1>. QED BY <1>1, Invariance, PTL

\* A connection waits for one thread, and has none left from an earlier server.
THEOREM ThreadsAreApart == Spec => []OneThreadEach
<1>1. IInv => OneThreadEach
    BY DEF IInv, QueueInv
<1>. QED BY <1>1, Invariance, PTL

\* Redirects of an allowed host end, after as many as its key has editions and two.
THEOREM RedirectsEnd == Spec => []OnlyBlockedLoop
<1>1. IInv => OnlyBlockedLoop
    BY DEF IInv, TypeOK, HopsInv, HopsLeft, OnlyBlockedLoop
<1>. QED BY <1>1, Invariance, PTL

-----------------------------------------------------------------------------
(* The front end implements the gateway.                                   *)

\* How the refinement mapping reads the state.
Hosts == {c \in Clients : Allows(filterHosts, c)}
Outcomes == [q \in Navigations |-> Outcome(q)]
Shown == [q \in Navigations |-> IF Outcome(q) = "answered" THEN at[q] ELSE to("")]

\* Navigations other than q, the hosts and what was asked for stay as they are.
Only(q) ==
    /\ \A r \in Navigations \ {q} :
        phase'[r] = phase[r] /\ at'[r] = at[r] /\ (r \in open' <=> r \in open)
    /\ UNCHANGED <<from, filterHosts>>

\* Then the outcomes and pages of others stay.
LEMMA OnlyOne ==
    ASSUME NEW q \in Navigations, Only(q)
    PROVE  /\ Outcomes' = [Outcomes EXCEPT ![q] = Outcome(q)']
           /\ Shown' = [Shown EXCEPT ![q] = IF Outcome(q)' = "answered" THEN at'[q]
                                            ELSE to("")]
           /\ UNCHANGED Hosts
<1>1. \A r \in Navigations \ {q} : Outcome(r)' = Outcome(r) /\ at'[r] = at[r]
    BY DEF Only, Outcome
<1>2. UNCHANGED Hosts
    BY DEF Only, Hosts, Allows, quietMatches
<1>. QED BY <1>1, <1>2 DEF Outcomes, Shown

\* A step that leaves the outcome, and the page there is, is a stutter.
LEMMA SameOutcome ==
    ASSUME NEW q \in Navigations, Only(q), UNCHANGED asked, Outcome(q)' = Outcome(q),
           Outcome(q) = "answered" => at'[q] = at[q]
    PROVE  UNCHANGED GW!vars
<1>1. Outcomes' = Outcomes /\ Shown' = Shown /\ Hosts' = Hosts
    BY OnlyOne DEF Outcomes, Shown
<1>. QED BY <1>1 DEF GW!vars, Outcomes, Shown, Hosts, Only

\* A connection that ends is lost.
LEMMA LosesAnswer ==
    ASSUME NEW q \in Navigations, Only(q), UNCHANGED asked,
           Outcome(q) \in {"pending", "answered"}, Outcome(q)' = "lost"
    PROVE  GW!Next
<1>1. /\ Outcomes' = [Outcomes EXCEPT ![q] = "lost"]
      /\ Shown' = [Shown EXCEPT ![q] = to("")]
      /\ Hosts' = Hosts /\ UNCHANGED <<from, asked>>
    BY OnlyOne DEF Only
<1>2. Outcomes[q] \in {"pending", "answered"}
    BY DEF Outcomes
<1>3. GW!Lose(q)
    BY <1>1, <1>2 DEF GW!Lose, Outcomes, Shown, Hosts, GW!to, to
<1>. QED BY <1>3 DEF GW!Next

\* The page a thread ends with is one the address asked for leads to.
LEMMA DeliversAnswer ==
    ASSUME IInv, NEW q \in open, Delivers(q)
    PROVE  /\ at[q] \in GW!Landing(asked[q])
           /\ unblock(q) \/ at[q].first = "static"
<1>0. q \in Navigations /\ at[q] \in Path /\ asked[q] \in Path
    BY DEF IInv, TypeOK
<1>1. unblock(q) \/ at[q].first = "static"
    BY DEF IInv, AnswerInv, BlockedGetsNothing, Delivers
<1>2. getServletPath(at[q]) # "" \/ at[q].first = "key"
    BY <1>0 DEF IInv, AnswerInv, FetchInv, Delivers
<1>3. to("").first = "" /\ getServletPath(to("")) = ""
    BY DEF to, getServletPath, Pages
<1>4. OnTheWay(asked[q], at[q])
    BY <1>1, <1>2, <1>3, EndOfRedirects DEF IInv, LandingInv, Lands
<1>5. CASE getServletPath(at[q]) # ""
    <2>1. getServletPath(at[q]) \in Pages \cup {"test", "static"}
        BY <1>5 DEF getServletPath
    <2>. QED BY <1>0, <1>1, <1>4, <2>1, WayEnds
<1>6. CASE at[q].first = "key"
    <2>1. at[q].edition \in at[q].edition .. MaxEdition
        <3>1. at[q].edition \in 0 .. MaxEdition /\ MaxEdition \in Nat
            BY <1>0, BoundAssumption DEF Path
        <3>. QED BY <3>1
    <2>. QED BY <1>0, <1>1, <1>4, <1>6, <2>1, KeysLead
<1>. QED BY <1>2, <1>5, <1>6

\* So it is an answer of the gateway.
LEMMA AnswersRefine ==
    ASSUME IInv, NEW q \in open, Delivers(q)
    PROVE  GW!Next
<1>0. q \in Navigations /\ from[q] \in Clients
    BY DEF IInv, TypeOK
<1>1. /\ Only(q) /\ UNCHANGED asked /\ Outcome(q) = "pending"
      /\ Outcome(q)' = "answered" /\ at'[q] = at[q]
    BY <1>0 DEF Delivers, Deliver, config, navigation, IInv, TypeOK, Only, Outcome
<1>2. /\ Outcomes' = [Outcomes EXCEPT ![q] = "answered"]
      /\ Shown' = [Shown EXCEPT ![q] = at[q]]
      /\ Hosts' = Hosts /\ UNCHANGED <<from, asked>>
    BY <1>0, <1>1, OnlyOne DEF Only
<1>3. Outcomes[q] = "pending" /\ (from[q] \in Hosts \/ at[q].first = "static")
    BY <1>0, <1>1, DeliversAnswer DEF Outcomes, Hosts, unblock
<1>4. PICK p \in GW!Landing(asked[q]) : p = at[q]
    BY DeliversAnswer
<1>5. GW!Answer(q, p)
    BY <1>2, <1>3, <1>4 DEF GW!Answer, Outcomes, Shown, Hosts
<1>. QED BY <1>0, <1>5 DEF GW!Next

\* Every step of a handler or of a fetch is an answer, a loss or a stutter.
LEMMA HandlersRefine ==
    ASSUME IInv, NEW q \in Navigations, Handle(q) \/ Fetched(q)
    PROVE  [GW!Next]_(GW!vars)
<1>0. TypeOK /\ (q \in open => phase[q] \notin {"none", "lost", "looped"})
    BY DEF IInv, AnswerInv, OpenInv
<1>1. CASE Redirects(q)
    <2>1. PICK p \in Path : sendRedirect(q, p)
        BY <1>1 DEF Redirects
    <2>2. Only(q) /\ UNCHANGED asked
        BY <1>0, <2>1, RedirectFollowed DEF Only
    <2>3. Outcome(q) = IF q \in open THEN "pending" ELSE "lost"
        BY <1>1 DEF Redirects, Outcome
    <2>4. Outcome(q)' = IF q \in open' THEN "pending" ELSE "lost"
        BY <1>0, <2>1 DEF sendRedirect, Outcome, TypeOK
    <2>5. q \in open' => q \in open
        BY <1>0, <2>1, RedirectFollowed
    <2>. QED BY <2>2, <2>3, <2>4, <2>5, SameOutcome, LosesAnswer
<1>2. CASE Delivers(q)
    <2>1. CASE q \in open
        BY <1>2, <2>1, AnswersRefine
    <2>2. CASE q \notin open
        <3>1. /\ Only(q) /\ UNCHANGED asked /\ Outcome(q) = "lost"
              /\ Outcome(q)' = "lost"
            BY <1>0, <1>2, <2>2 DEF Delivers, Deliver, config, navigation, TypeOK,
               Only, Outcome
        <3>. QED BY <3>1, SameOutcome
    <2>. QED BY <2>1, <2>2
<1>3. CASE Continues(q)
    <2>1. Only(q) /\ UNCHANGED asked /\ Outcome(q)' = Outcome(q) /\ at'[q] = at[q]
        BY <1>0, <1>3 DEF Continues, Continue, config, navigation, TypeOK, Only,
           Outcome
    <2>. QED BY <2>1, SameOutcome
<1>4. CASE IdleTimeout(q)
    <2>1. Only(q) /\ UNCHANGED asked /\ Outcome(q)' = Outcome(q) /\ at'[q] = at[q]
        BY <1>0, <1>4 DEF IdleTimeout, config, navigation, TypeOK, Only, Outcome
    <2>. QED BY <2>1, SameOutcome
<1>. QED BY <1>0, <1>1, <1>2, <1>3, <1>4, HandlerForms

\* A new request is the gateway's Ask.
LEMMA AskRefines ==
    ASSUME IInv, NEW q \in Navigations, NEW p \in Path, NEW key, Ask(q, p, key),
           (IF key = NoKey THEN p ELSE key[1]) \in Asked \cup Keys
    PROVE  GW!Next
<1> DEFINE a == IF key = NoKey THEN p ELSE key[1]
<1>0. TypeOK
    BY DEF IInv
<1>1. Outcome(q) = "none" /\ Outcome(q)' = "pending" /\ Only(q)
    BY <1>0 DEF Ask, Outcome, TypeOK, Only, config
<1>2. asked' = [asked EXCEPT ![q] = a] /\ UNCHANGED from
    BY DEF Ask
<1>3. Outcomes' = [Outcomes EXCEPT ![q] = "pending"] /\ Outcomes[q] = "none"
      /\ Hosts' = Hosts
    BY <1>1, OnlyOne DEF Outcomes
<1>4. Shown' = Shown
    <2>1. Shown' = [Shown EXCEPT ![q] = to("")] /\ Shown[q] = to("")
        BY <1>1, OnlyOne DEF Shown
    <2>. QED BY <2>1 DEF Shown
<1>5. GW!Ask(q, a)
    BY <1>2, <1>3, <1>4 DEF GW!Ask, Outcomes, Shown, Hosts
<1>. QED BY <1>5 DEF GW!Next

\* Every step of the front end is a step of the gateway or a stutter.
LEMMA StepRefines == IInv /\ [Next]_vars => [GW!Next]_(GW!vars)
<1> SUFFICES ASSUME IInv, [Next]_vars
             PROVE  [GW!Next]_(GW!vars)
    OBVIOUS
<1>0. /\ TypeOK /\ QueueInv
      /\ \A q \in open : phase[q] \notin {"none", "lost", "looped"}
    BY DEF IInv, AnswerInv, OpenInv
<1>1. ASSUME NEW q \in Navigations, Handle(q) \/ Fetched(q)
      PROVE  [GW!Next]_(GW!vars)
    BY <1>1, HandlersRefine
<1>2. ASSUME NEW q \in Navigations, NEW p \in Asked, Ask(q, p, NoKey)
      PROVE  GW!Next
    BY <1>2, AskedAssumption, AskRefines
<1>3. ASSUME NEW q \in Navigations, NEW key \in Keys, Ask(q, to(""), <<key>>)
      PROVE  GW!Next
    <2>1. to("") \in Path /\ <<key>> # NoKey /\ <<key>>[1] = key
        BY ToIsPath DEF Firsts, NoKey
    <2>. QED BY <1>3, <2>1, AskRefines
<1>4. ASSUME NEW q \in Navigations, Abort(q) PROVE GW!Next
    <2>1. /\ Only(q) /\ UNCHANGED asked
          /\ Outcome(q) \in {"pending", "answered"} /\ Outcome(q)' = "lost"
        BY <1>0, <1>4 DEF Abort, config, navigation, TypeOK, Only, Outcome
    <2>. QED BY <2>1, LosesAnswer
<1>5. ASSUME NEW q \in Navigations, Read(q) PROVE GW!Next
    <2>1. /\ Only(q) /\ Outcome(q) \in {"answered", "lost"} /\ Outcome(q)' = "none"
        BY <1>0, <1>5 DEF Read, config, TypeOK, Only, Outcome
    <2>2. /\ asked' = [asked EXCEPT ![q] = to("")] /\ UNCHANGED from
        BY <1>5 DEF Read
    <2>3. /\ Outcomes' = [Outcomes EXCEPT ![q] = "none"]
          /\ Shown' = [Shown EXCEPT ![q] = to("")]
          /\ Hosts' = Hosts /\ Outcomes[q] \in {"answered", "lost"}
        BY <2>1, OnlyOne DEF Outcomes
    <2>4. GW!Finish(q)
        BY <2>2, <2>3 DEF GW!Finish, Outcomes, Shown, Hosts, GW!to, to
    <2>. QED BY <2>4 DEF GW!Next
<1>6. CASE Accept
    <2>1. Head(queue) \in Navigations /\ phase[Head(queue)] = "sent"
        BY <1>0, <1>6 DEF Accept, TypeOK, QueueInv, OneThreadEach
    <2>2. PICK q \in Navigations : q = Head(queue)
        BY <2>1
    <2>3. /\ UNCHANGED <<filterHosts, from, asked, at, open>>
          /\ phase' = [phase EXCEPT ![q] = "filter"] /\ phase[q] = "sent"
        BY <1>6, <2>1, <2>2 DEF Accept, config, navigation
    <2>4. Only(q)
        BY <1>0, <2>3 DEF TypeOK, Only
    <2>5. Outcome(q)' = Outcome(q)
        BY <1>0, <2>3 DEF TypeOK, Outcome
    <2>6. at'[q] = at[q] /\ UNCHANGED asked
        BY <2>3
    <2>. QED BY <2>4, <2>5, <2>6, SameOutcome
<1>7. CASE Restart
    <2>1. \A q \in Navigations :
            /\ Outcome(q)' = IF Outcome(q) = "none" THEN "none" ELSE "lost"
            /\ Outcome(q)' # "answered"
        BY <1>0, <1>7 DEF Restart, Outcome, TypeOK, Running
    <2>2. Outcomes' = [q \in Navigations |->
                        IF Outcomes[q] = "none" THEN "none" ELSE "lost"]
        BY <2>1 DEF Outcomes
    <2>3. Shown' = [q \in Navigations |-> to("")]
        BY <2>1 DEF Shown
    <2>4. Hosts' \in SUBSET Clients /\ UNCHANGED <<from, asked>>
        BY <1>7 DEF Hosts, Restart, navigation
    <2>5. PICK allowed \in SUBSET Clients : allowed = Hosts'
        BY <2>4
    <2>6. GW!Restart(allowed)
        BY <2>2, <2>3, <2>4, <2>5 DEF GW!Restart, Outcomes, Shown, Hosts, GW!to, to
    <2>. QED BY <2>6 DEF GW!Next
<1>8. CASE UNCHANGED <<filterHosts, navigation, phase, open>>
    <2>1. Outcomes' = Outcomes /\ Shown' = Shown /\ Hosts' = Hosts
          /\ UNCHANGED <<from, asked>>
        BY <1>8 DEF Outcomes, Shown, Hosts, Outcome, navigation, Allows, quietMatches
    <2>. QED BY <2>1 DEF GW!vars, Outcomes, Shown, Hosts
<1>9. ASSUME InsertEdition \/ \E list \in HostLists : SetAllowedHosts(list)
      PROVE  UNCHANGED <<filterHosts, navigation, phase, open>>
    BY <1>9 DEF InsertEdition, SetAllowedHosts, config
<1>10. CASE UNCHANGED vars
    BY <1>8, <1>10 DEF vars, config
<1>. QED BY <1>1, <1>2, <1>3, <1>4, <1>5, <1>6, <1>7, <1>8, <1>9, <1>10 DEF Next

\* Pages go only to hosts that were allowed when the server started, and each is one
\* the address asked for leads to, through any redirects, errors and restarts.
THEOREM GatewayImplemented == Spec => ImplementsGateway
<1>1. Init => GW!Init
    <2> SUFFICES ASSUME Init PROVE GW!Init
        OBVIOUS
    <2>1. \A q \in Navigations : Outcome(q) = "none"
        BY DEF Init, Outcome
    <2>2. Hosts \in SUBSET Clients
        BY DEF Hosts
    <2>3. Outcomes = [q \in Navigations |-> "none"]
          /\ Shown = [q \in Navigations |-> to("")]
        BY <2>1 DEF Outcomes, Shown
    <2>4. from \in [Navigations -> Clients] /\ asked = [q \in Navigations |-> to("")]
        BY DEF Init
    <2>. QED BY <2>2, <2>3, <2>4 DEF GW!Init, Hosts, Outcomes, Shown, GW!to, to
<1>. QED BY <1>1, StepRefines, Invariance, PTL DEF Spec, ImplementsGateway, GW!Spec

=============================================================================
