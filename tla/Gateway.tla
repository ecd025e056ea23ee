------------------------------- MODULE Gateway -------------------------------
(***************************************************************************)
(* What the interface promises to browsers: a navigation, from the address *)
(* a user asks for through whatever redirects follow, is answered by a     *)
(* page that address leads to, and only for a host that is allowed; or the *)
(* connection is lost.                                                     *)
(***************************************************************************)
EXTENDS Naturals

CONSTANTS
    Navigations,    \* names for the navigations under way
    Clients,        \* remote hosts
    Asked,          \* the addresses a user may ask for
    MaxEdition      \* bound: the newest edition any key will have

VARIABLES
    hosts,          \* the hosts allowed
    from,           \* the host of each navigation
    asked,          \* what the user asked for
    outcome,        \* "none", "pending", "answered" or "lost"
    page            \* the page shown, when answered

\* The address of a request: its first segment, whether more follow, and for a
\* key its edition.
Path == [first : {"", "dashboard", "plugins", "invalidkey", "alerts",
                  "bookmarkEditor", "test", "static", "error", "key",
                  "malformed", "other"},
         more : BOOLEAN,
         edition : 0 .. MaxEdition]

to(first) == [first |-> first, more |-> FALSE, edition |-> 0]

\* The addresses that have a page of their own, among them all that are below one
\* of these, but for the test page.
HasPage(p) ==
    \/ p.first \in {"dashboard", "plugins", "invalidkey", "alerts", "bookmarkEditor"}
    \/ p.first = "test" /\ ~p.more

\* The pages that may end a navigation to p: its own, a file, the key or a newer
\* edition of it, the dashboard for "/", and the error page where there is none.
Landing(p) ==
    IF HasPage(p) THEN {p}
    ELSE IF p.first = "" THEN {to("dashboard")}
    ELSE {to("invalidkey")}
        \cup (IF p.first = "static" THEN {p} ELSE {})
        \cup (IF p.first = "key"
              THEN {[p EXCEPT !.edition = e] : e \in p.edition .. MaxEdition} ELSE {})

Init ==
    /\ hosts \in SUBSET Clients
    /\ from \in [Navigations -> Clients]
    /\ asked = [q \in Navigations |-> to("")]
    /\ outcome = [q \in Navigations |-> "none"]
    /\ page = [q \in Navigations |-> to("")]

\* The user asks for p.
Ask(q, p) ==
    /\ outcome[q] = "none"
    /\ outcome' = [outcome EXCEPT ![q] = "pending"]
    /\ asked' = [asked EXCEPT ![q] = p]
    /\ UNCHANGED <<hosts, from, page>>

\* Files are for everyone, because pages need them; all else for the allowed hosts.
Answer(q, p) ==
    /\ outcome[q] = "pending"
    /\ from[q] \in hosts \/ p.first = "static"
    /\ outcome' = [outcome EXCEPT ![q] = "answered"]
    /\ page' = [page EXCEPT ![q] = p]
    /\ UNCHANGED <<hosts, from, asked>>

\* The connection is lost.
Lose(q) ==
    /\ outcome[q] \in {"pending", "answered"}
    /\ outcome' = [outcome EXCEPT ![q] = "lost"]
    /\ page' = [page EXCEPT ![q] = to("")]
    /\ UNCHANGED <<hosts, from, asked>>

\* The browser has its answer, or knows that it gets none.
Finish(q) ==
    /\ outcome[q] \in {"answered", "lost"}
    /\ outcome' = [outcome EXCEPT ![q] = "none"]
    /\ asked' = [asked EXCEPT ![q] = to("")]
    /\ page' = [page EXCEPT ![q] = to("")]
    /\ UNCHANGED <<hosts, from>>

\* The server restarts, which loses every connection, with other hosts allowed.
Restart(allowed) ==
    /\ hosts' = allowed
    /\ outcome' = [q \in Navigations |->
                    IF outcome[q] = "none" THEN "none" ELSE "lost"]
    /\ page' = [q \in Navigations |-> to("")]
    /\ UNCHANGED <<from, asked>>

Next ==
    \/ \E q \in Navigations :
        \/ \E p \in Asked : Ask(q, p)
        \/ \E p \in Landing(asked[q]) : Answer(q, p)
        \/ Lose(q) \/ Finish(q)
    \/ \E allowed \in SUBSET Clients : Restart(allowed)

vars == <<hosts, from, asked, outcome, page>>

Spec == Init /\ [][Next]_vars
=============================================================================
