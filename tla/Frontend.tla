------------------------------ MODULE Frontend -------------------------------
(***************************************************************************)
(* A request's way through the server: Jetty's threads, IPFilter, the      *)
(* routes, Root and the pages, error pages and redirects, and the fetching *)
(* of freesites from the node; and the list of allowed hosts, which the    *)
(* configuration may change while the filter keeps the list it began with. *)
(*                                                                         *)
(* A navigation is what a browser does for one click: a request and, as    *)
(* long as the answers are redirects, a request for the new address.       *)
(***************************************************************************)
EXTENDS Naturals, Sequences, FiniteSets

CONSTANTS
    Navigations,    \* names for the navigations under way
    Clients,        \* remote hosts
    Threads,        \* the number of threads in Jetty's pool
    MaxEdition,     \* bound: the newest edition any key will have
    Asked,          \* the addresses a user may ask for
    Keys,           \* the addresses a user may put into the "Visit Freesite" dialog
    HostLists,      \* the values a user may give the option allowedHosts
    Covers,         \* for each entry of a list that is an IPv4 or IPv6 address,
                    \* with or without a mask, the clients it matches
    Names,          \* the entries that are no address but can be resolved
    MaxRestarts,    \* bound: how often the server is restarted
    MaxHops         \* the number of redirects in a row a browser follows

\* The address of a request: its first segment, whether more follow, and for a
\* key its edition.
Path == [first : {"", "dashboard", "plugins", "invalidkey", "alerts",
                  "bookmarkEditor", "test", "static", "error", "key",
                  "malformed", "other"},
         more : BOOLEAN,
         edition : 0 .. MaxEdition]

to(first) == [first |-> first, more |-> FALSE, edition |-> 0]

ASSUME AskedAssumption == Asked \subseteq Path /\ Keys \subseteq Path
ASSUME CoversAssumption == \A e \in DOMAIN Covers : Covers[e] \subseteq Clients
ASSUME NamesAssumption == Names \cap DOMAIN Covers = {}
ASSUME BoundAssumption ==
    /\ Threads \in Nat \ {0}
    /\ MaxEdition \in Nat /\ MaxRestarts \in Nat /\ MaxHops \in Nat

VARIABLES
    allowedHosts,   \* the configuration's option
    filterHosts,    \* IPFilter.allowedHosts
    restarts,
    from,           \* the remote address of each navigation
    asked,          \* history: what the user asked for
    at,             \* the address of the current request
    modal,          \* the parameter "modal_key" of a POST, or << >>
    hops,           \* the redirects the browser has followed
    phase,          \* where the current request is
    open,           \* the navigations whose connection is open
    queue,          \* the connections waiting for a thread
    old,            \* the threads that outlived the server they belonged to
    buckets,        \* the results of fetches that have not been freed
    latest          \* the newest edition there is, at the node

navigation == <<from, asked, at, modal, hops>>
config == <<allowedHosts, filterHosts, restarts>>
vars == <<config, navigation, phase, open, queue, old, buckets, latest>>

-----------------------------------------------------------------------------
(* The option allowedHosts.                                                *)

\* InetAddress.getByName(addr) finds an address, after any mask is cut off.
isValid(entry) == entry \in DOMAIN Covers \cup Names

isHostListValid(list) == \A entry \in list : isValid(entry)

\* For a host name the matcher is null or its constructor throws: no match.
quietMatches(entry, c) == entry \in DOMAIN Covers /\ c \in Covers[entry]

Allows(list, c) == \E entry \in list : quietMatches(entry, c)

\* AllowedHosts.set: a list with an invalid entry is refused.
SetAllowedHosts(list) ==
    /\ isHostListValid(list)
    /\ allowedHosts' = list
    /\ UNCHANGED <<filterHosts, restarts, navigation, phase, open, queue, old,
                   buckets, latest>>

Running == {"filter", "servlet", "error", "fetching", "copying"}

\* The server stops and another starts, whose filter reads the list.  All
\* connections are closed.  A thread waiting for a fetch, or with its result in
\* hand, goes on; any other can do nothing without its connection.
Restart ==
    /\ restarts < MaxRestarts
    /\ restarts' = restarts + 1
    /\ filterHosts' = allowedHosts
    /\ open' = {}
    /\ queue' = << >>
    /\ old' = {q \in Navigations : phase[q] \in {"fetching", "copying"}}
    /\ phase' = [q \in Navigations |->
                    IF phase[q] \in {"none", "looped", "fetching", "copying"}
                    THEN phase[q] ELSE "lost"]
    /\ UNCHANGED <<allowedHosts, navigation, buckets, latest>>

-----------------------------------------------------------------------------
(* The browser (external), and Jetty's threads.                            *)

NoKey == << >>

\* A user asks for p, or posts a key to the page "/".
Ask(q, p, key) ==
    /\ phase[q] = "none"
    /\ asked' = [asked EXCEPT ![q] = IF key = NoKey THEN p ELSE key[1]]
    /\ at' = [at EXCEPT ![q] = p]
    /\ modal' = [modal EXCEPT ![q] = key]
    /\ hops' = [hops EXCEPT ![q] = 0]
    /\ phase' = [phase EXCEPT ![q] = "sent"]
    /\ open' = open \cup {q}
    /\ queue' = Append(queue, q)
    /\ UNCHANGED <<config, from, old, buckets, latest>>

\* The user closes the page: the server does not see that before it writes.
Abort(q) ==
    /\ q \in open
    /\ open' = open \ {q}
    /\ phase' = IF phase[q] \in {"answered", "shown"}
                THEN [phase EXCEPT ![q] = "lost"] ELSE phase
    /\ UNCHANGED <<config, navigation, queue, old, buckets, latest>>

\* The user has seen the page, or that there is none, and goes elsewhere.
Read(q) ==
    /\ phase[q] \in {"answered", "shown", "lost", "looped"}
    /\ phase' = [phase EXCEPT ![q] = "none"]
    /\ asked' = [asked EXCEPT ![q] = to("")]
    /\ at' = [at EXCEPT ![q] = to("")]
    /\ modal' = [modal EXCEPT ![q] = NoKey]
    /\ hops' = [hops EXCEPT ![q] = 0]
    /\ open' = open \ {q}
    /\ UNCHANGED <<config, from, queue, old, buckets, latest>>

Busy == {q \in Navigations : phase[q] \in Running \cup {"answered"}} \ old

\* A thread of the pool takes the next connection, for as long as it is kept.
Accept ==
    /\ queue # << >>
    /\ Cardinality(Busy) < Threads
    /\ phase' = [phase EXCEPT ![Head(queue)] = "filter"]
    /\ queue' = Tail(queue)
    /\ UNCHANGED <<config, navigation, open, old, buckets, latest>>

-----------------------------------------------------------------------------
(* Answers.  Each ends the thread's work on the request.                   *)

\* 302.  The browser follows, on the same connection, whose thread then goes on
\* with the new request, or on another; or it has followed too many redirects.
sendRedirect(q, p) ==
    /\ \/ /\ q \in open /\ hops[q] < MaxHops
          /\ at' = [at EXCEPT ![q] = p]
          /\ modal' = [modal EXCEPT ![q] = NoKey]
          /\ hops' = [hops EXCEPT ![q] = @ + 1]
          /\ \/ phase' = [phase EXCEPT ![q] = "filter"] /\ UNCHANGED queue
             \/ phase' = [phase EXCEPT ![q] = "sent"] /\ queue' = Append(queue, q)
          /\ UNCHANGED open
       \/ /\ q \in open /\ hops[q] = MaxHops
          /\ phase' = [phase EXCEPT ![q] = "looped"]
          /\ open' = open \ {q}
          /\ UNCHANGED <<at, modal, hops, queue>>
       \/ /\ q \notin open
          /\ phase' = [phase EXCEPT ![q] = "lost"]
          /\ UNCHANGED <<at, modal, hops, queue, open>>
    /\ old' = old \ {q}
    /\ UNCHANGED <<config, from, asked, latest>>

\* 200, with a page.
Deliver(q) ==
    /\ phase' = [phase EXCEPT ![q] = IF q \in open THEN "answered" ELSE "lost"]
    /\ old' = old \ {q}
    /\ UNCHANGED <<config, navigation, open, queue, latest>>

\* The idle timeout of the connector frees a thread whose browser asks no more.
IdleTimeout(q) ==
    /\ phase[q] = "answered"
    /\ phase' = [phase EXCEPT ![q] = "shown"]
    /\ UNCHANGED <<config, navigation, open, queue, old, buckets, latest>>

\* The thread goes on with the request.
Continue(q, next) ==
    /\ phase' = [phase EXCEPT ![q] = next]
    /\ UNCHANGED <<config, navigation, open, queue, old, latest>>

-----------------------------------------------------------------------------
(* The filter and the routes.                                              *)

\* The pages that match their path and everything below it, and the test page.
Pages == {"dashboard", "plugins", "invalidkey", "alerts", "bookmarkEditor"}

\* The servlet path of the servlet that serves p; Root's is "".
getServletPath(p) ==
    IF p.first \in Pages \cup {"static"} \/ (p.first = "test" /\ ~p.more)
    THEN p.first
    ELSE ""

\* Mutant: Root's servlet path added, as if that let its error redirects pass.
whiteUrlsWithRoot == {"error", "static", ""}

whiteUrls == {"error", "static"}

unblock(q) == Allows(filterHosts, from[q])

\* IPFilter.doFilter: chain.doFilter.
FilterPasses(q) ==
    /\ phase[q] = "filter"
    /\ unblock(q) \/ getServletPath(at[q]) \in whiteUrls
    /\ Continue(q, "servlet")
    /\ UNCHANGED buckets

\* IPFilter.doFilter: sendError(403).
FilterBlocks(q) ==
    /\ phase[q] = "filter"
    /\ ~unblock(q) /\ getServletPath(at[q]) \notin whiteUrls
    /\ Continue(q, "error")
    /\ UNCHANGED buckets

\* 403 and 404 are dispatched to "/error", without the filter, with the method and the
\* parameters of the request.  No page has that path, so Root serves it: doPost goes on
\* to the key of the dialog, doGet finds no key in the path.
ErrorDispatch(q) ==
    /\ phase[q] = "error"
    /\ sendRedirect(q, IF modal[q] = NoKey THEN to("invalidkey") ELSE modal[q][1])
    /\ UNCHANGED buckets

\* A page is rendered from its template.
RenderPage(q) ==
    /\ phase[q] = "servlet"
    /\ getServletPath(at[q]) \in Pages \cup {"test"}
    /\ Deliver(q)
    /\ UNCHANGED buckets

\* A file below /static is delivered, or there is none: sendError(404).
StaticResource(q) ==
    /\ phase[q] = "servlet"
    /\ getServletPath(at[q]) = "static"
    /\ Deliver(q) \/ Continue(q, "error")
    /\ UNCHANGED buckets

-----------------------------------------------------------------------------
(* Root, the servlet for every other address.                              *)

InRoot(q) == phase[q] = "servlet" /\ getServletPath(at[q]) = ""

\* Mutant: doPost goes on to doGet's default page in either case.
RootPostIgnored(q) ==
    /\ InRoot(q)
    /\ modal[q] # NoKey
    /\ sendRedirect(q, to("dashboard"))
    /\ UNCHANGED buckets

\* doPost with a key goes on to that key; without one it is doGet.
RootPost(q) ==
    /\ InRoot(q)
    /\ modal[q] # NoKey
    /\ sendRedirect(q, modal[q][1])
    /\ UNCHANGED buckets

\* Mutant: what is no key is redirected to "/error", where nothing but Root is.
RootRedirectToError(q) ==
    /\ InRoot(q)
    /\ modal[q] = NoKey
    /\ at[q].first # "key"
    /\ sendRedirect(q, to(IF at[q].first = "" THEN "dashboard" ELSE "error"))
    /\ UNCHANGED buckets

\* doGet when there is nothing to fetch: "/", a URI that does not parse after all,
\* and anything that does not begin like a key.
RootRedirect(q) ==
    /\ InRoot(q)
    /\ modal[q] = NoKey
    /\ at[q].first # "key"
    /\ sendRedirect(q, to(IF at[q].first = "" THEN "dashboard" ELSE "invalidkey"))
    /\ UNCHANGED buckets

\* filteredFetchURI: the thread waits for the node, for as long as it takes.
RootFetch(q) ==
    /\ InRoot(q)
    /\ modal[q] = NoKey
    /\ at[q].first = "key"
    /\ Continue(q, "fetching")
    /\ UNCHANGED buckets

\* The fetch succeeds, and the result is a bucket.
FetchSucceeds(q) ==
    /\ phase[q] = "fetching"
    /\ Continue(q, "copying")
    /\ buckets' = buckets \cup {q}

\* Mutant: the redirect goes to the edition after the one found.
FetchFindsNext(q) ==
    /\ phase[q] = "fetching"
    /\ at[q].edition < latest
    /\ sendRedirect(q, [at[q] EXCEPT !.edition = latest + 1])
    /\ UNCHANGED buckets

\* PERMANENT_REDIRECT: the node has found a newer edition.
FetchFindsNewer(q) ==
    /\ phase[q] = "fetching"
    /\ at[q].edition < latest
    /\ \E e \in at[q].edition + 1 .. latest :
        sendRedirect(q, [at[q] EXCEPT !.edition = e])
    /\ UNCHANGED buckets

\* Mutant: a failed fetch is tried again by a redirect to the same key.
FetchFailsRetried(q) ==
    /\ phase[q] = "fetching"
    /\ sendRedirect(q, at[q])
    /\ UNCHANGED buckets

\* Any other FetchException.
FetchFails(q) ==
    /\ phase[q] = "fetching"
    /\ sendRedirect(q, to("invalidkey"))
    /\ UNCHANGED buckets

\* Mutant: free() moved into the try block, after close().
CopyResultFreesInTry(q) ==
    /\ phase[q] = "copying"
    /\ Deliver(q)
    /\ buckets' = IF q \in open THEN buckets \ {q} ELSE buckets

\* The result is copied to the browser, or the copying fails, which is logged; in
\* both cases the bucket is freed.
CopyResult(q) ==
    /\ phase[q] = "copying"
    /\ Deliver(q)
    /\ buckets' = buckets \ {q}

\* Somebody inserts a new edition (external).
InsertEdition ==
    /\ latest < MaxEdition
    /\ latest' = latest + 1
    /\ UNCHANGED <<config, navigation, phase, open, queue, old, buckets>>

-----------------------------------------------------------------------------
Handle(q) ==
    \/ FilterPasses(q) \/ FilterBlocks(q) \/ ErrorDispatch(q) \/ RenderPage(q)
    \/ StaticResource(q) \/ RootPost(q) \/ RootRedirect(q) \/ RootFetch(q)
    \/ CopyResult(q) \/ IdleTimeout(q)

Fetched(q) == FetchSucceeds(q) \/ FetchFindsNewer(q) \/ FetchFails(q)

Init ==
    /\ allowedHosts \in {list \in HostLists : isHostListValid(list)}
    /\ filterHosts = allowedHosts
    /\ restarts = 0
    /\ from \in [Navigations -> Clients]
    /\ asked = [q \in Navigations |-> to("")]
    /\ at = [q \in Navigations |-> to("")]
    /\ modal = [q \in Navigations |-> NoKey]
    /\ hops = [q \in Navigations |-> 0]
    /\ phase = [q \in Navigations |-> "none"]
    /\ open = {}
    /\ queue = << >>
    /\ old = {}
    /\ buckets = {}
    /\ latest = 0

Next ==
    \/ \E q \in Navigations :
        \/ \E p \in Asked : Ask(q, p, NoKey)
        \/ \E key \in Keys : Ask(q, to(""), <<key>>)
        \/ Abort(q) \/ Read(q) \/ Handle(q) \/ Fetched(q)
    \/ Accept \/ InsertEdition \/ Restart
    \/ \E list \in HostLists : SetAllowedHosts(list)

Spec == Init /\ [][Next]_vars

\* Threads run, and the node ends every fetch, one way or the other, since it
\* limits its retries.  Users, publishers and the node's owner owe nothing.
FairSpec ==
    /\ Spec
    /\ WF_vars(Accept)
    /\ \A q \in Navigations : WF_vars(Handle(q)) /\ WF_vars(Fetched(q))

-----------------------------------------------------------------------------
(* Correctness.                                                            *)

TypeOK ==
    /\ allowedHosts \in HostLists /\ filterHosts \in HostLists
    /\ restarts \in 0 .. MaxRestarts
    /\ from \in [Navigations -> Clients]
    /\ asked \in [Navigations -> Path]
    /\ at \in [Navigations -> Path]
    /\ modal \in [Navigations -> {NoKey} \cup {<<p>> : p \in Path}]
    /\ hops \in [Navigations -> 0 .. MaxHops]
    /\ phase \in [Navigations -> Running \cup {"none", "sent", "answered", "shown",
                                             "lost", "looped"}]
    /\ open \subseteq Navigations
    /\ queue \in Seq(Navigations)
    /\ old \subseteq Navigations /\ buckets \subseteq Navigations
    /\ latest \in 0 .. MaxEdition

\* A host outside the list the filter began with has no page made and no key
\* fetched for it, by whatever redirects and error pages it gets there; only the
\* threads of an earlier server may still be at it.
BlockedGetsNothing ==
    \A q \in open :
        phase[q] \in {"servlet", "fetching", "copying", "answered", "shown"} =>
            unblock(q) \/ at[q].first = "static"

\* A bucket is held only by the thread that will free it, and every thread that
\* copies has one: none is lost when browsers go away or the server restarts.
BucketsFreed == buckets = {q \in Navigations : phase[q] = "copying"}

\* A connection waits in the queue once, and a thread that outlived its server has
\* none.
OneThreadEach ==
    /\ \A i, j \in 1 .. Len(queue) : queue[i] = queue[j] => i = j
    /\ \A i \in 1 .. Len(queue) : phase[queue[i]] = "sent"
    /\ \A q \in Navigations : phase[q] = "sent" => \E i \in 1 .. Len(queue) : queue[i] = q
    /\ old \cap open = {}

\* A navigation of an allowed host ends with a page, unless the connection is lost,
\* even when others wait for the network or are sent round in circles.
AllowedGetsAnswer ==
    \A q \in Navigations :
        (phase[q] = "sent" /\ unblock(q)) ~> phase[q] \in {"answered", "lost"}

\* Redirects lead an allowed host round in circles from no address: each chain is
\* as long as the editions a key has, and the two redirects to and from a key.
OnlyBlockedLoop ==
    \A q \in Navigations : unblock(q) /\ q \in open => hops[q] <= MaxEdition + 2

\* The outcome of a navigation as the browser sees it.
Outcome(q) ==
    IF phase[q] = "none" THEN "none"
    ELSE IF q \notin open THEN "lost"
    ELSE IF phase[q] \in {"answered", "shown"} THEN "answered"
    ELSE "pending"

GW == INSTANCE Gateway WITH
    Asked <- Asked \cup Keys,
    hosts <- {c \in Clients : Allows(filterHosts, c)},
    outcome <- [q \in Navigations |-> Outcome(q)],
    page <- [q \in Navigations |-> IF Outcome(q) = "answered" THEN at[q] ELSE to("")]

\* Every page shown is one the address asked for leads to, and is shown only to
\* allowed hosts, through any redirects, error pages and restarts.
ImplementsGateway == GW!Spec

\* "If remote host is blocked, its request is forwarded to an error page which
\* should be accessible and not filtered": no browser is redirected for ever.
BlockedSeesErrorPage == \A q \in Navigations : phase[q] # "looped"
=============================================================================
