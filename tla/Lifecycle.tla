------------------------------ MODULE Lifecycle ------------------------------
(***************************************************************************)
(* The life of the web interface: WinterfacePlugin, its ServerManager, the *)
(* reload threads that Plugins.doPost starts, and, outside the repository, *)
(* the node's PluginManager, Jetty's Server and the ports of the machine.  *)
(*                                                                         *)
(* An instance is one WinterfacePlugin object.  The node loads every       *)
(* instance with a class loader of its own, so each has its own static     *)
(* fields, its own ServerManager and its own thread, which runs runPlugin. *)
(* Three kinds of thread touch an instance: its plugin thread, the reload  *)
(* threads started from its web page and the node's killPlugin callers.    *)
(***************************************************************************)
EXTENDS Naturals, Sequences

CONSTANTS
    Instances,      \* the plugin objects the node may ever create
    Hosts,          \* the addresses a connector can listen on
    BindTo,         \* getBindToHosts().split(","): the addresses to bind, in order
    Reloads,        \* the reload threads, one per POST with a "reload" parameter
    Kills,          \* the unload requests a user of the node may make
    MaxLoads,       \* bound: how often a user of the node loads the plugin
    LoadMayFail,    \* whether the node may fail to load the plugin file
    Nobody          \* no instance

ASSUME BindToAssumption == BindTo \in Seq(Hosts) /\ BindTo # << >>
ASSUME NobodyAssumption == Nobody \notin Instances
ASSUME ActorAssumption == Reloads \cap Kills = {}
ASSUME LoadAssumption == MaxLoads \in Nat /\ LoadMayFail \in BOOLEAN

VARIABLES
    loads,          \* how many loads a user of the node has made
    listed,         \* the instances in the PluginManager's list
    thread,         \* where the plugin thread of each instance is
    server,         \* the state of each instance's ServerManager.server
    opened,         \* how many connectors the start of the server has tried
    bindFailed,     \* the instances one of whose connectors failed to open
    owner,          \* the instance listening on each address, or Nobody
    interrupted,    \* the instances whose thread killPlugin interrupted
    pc,             \* where each reload thread and each kill is
    target,         \* the instance a reload thread or a kill works on
    found,          \* the reload threads that found a plugin specification
    early           \* history: instances terminated before start() was called

vars == <<loads, listed, thread, server, opened, bindFailed, owner,
          interrupted, pc, target, found, early>>

Actors == Reloads \cup Kills

Init ==
    /\ loads = 0
    /\ listed = {}
    /\ thread = [i \in Instances |-> "unborn"]
    /\ server = [i \in Instances |-> "null"]
    /\ opened = [i \in Instances |-> 0]
    /\ bindFailed = {}
    /\ owner = [h \in Hosts |-> Nobody]
    /\ interrupted = {}
    /\ pc = [a \in Actors |-> "idle"]
    /\ target = [a \in Actors |-> Nobody]
    /\ found = {}
    /\ early = {}

-----------------------------------------------------------------------------
(* The node: loading, listing and unloading plugins (external).            *)

\* startPlugin: the new object is listed and its thread begins.
StartPlugin(i) ==
    /\ thread[i] = "unborn"
    /\ thread' = [thread EXCEPT ![i] = "loaded"]
    /\ listed' = listed \cup {i}

\* A user of the node loads the plugin on the node's plugin page.
UserLoad(i) ==
    /\ loads < MaxLoads
    /\ loads' = loads + 1
    /\ StartPlugin(i)
    /\ UNCHANGED <<server, opened, bindFailed, owner, interrupted, pc, target,
                   found, early>>

\* When runPlugin has returned the node takes the instance off its list.
RemovePlugin(i) ==
    /\ thread[i] = "returned"
    /\ thread' = [thread EXCEPT ![i] = "gone"]
    /\ listed' = listed \ {i}
    /\ UNCHANGED <<loads, server, opened, bindFailed, owner, interrupted, pc,
                   target, found, early>>

\* A user of the node unloads an instance: killPlugin finds it in the list.
KillRequest(k, i) ==
    /\ pc[k] = "idle"
    /\ i \in listed
    /\ pc' = [pc EXCEPT ![k] = "killStop"]
    /\ target' = [target EXCEPT ![k] = i]
    /\ UNCHANGED <<loads, listed, thread, server, opened, bindFailed, owner,
                   interrupted, found, early>>

\* killPlugin, after terminate(): interrupt the plugin thread and wait for it,
\* 60 s at most; the instance stays listed until its thread returns.
Interrupt(a) ==
    /\ pc[a] = "interrupt"
    /\ interrupted' = interrupted \cup {target[a]}
    /\ pc' = [pc EXCEPT ![a] = "done"]
    /\ UNCHANGED <<loads, listed, thread, server, opened, bindFailed, owner,
                   target, found, early>>

-----------------------------------------------------------------------------
(* The plugin thread: runPlugin and ServerManager.startServer.             *)

Goto(i, from, to) == thread[i] = from /\ thread' = [thread EXCEPT ![i] = to]

\* runPlugin up to serverManager = new ServerManager().
RunPlugin(i) ==
    /\ Goto(i, "loaded", "managed")
    /\ UNCHANGED <<loads, listed, server, opened, bindFailed, owner,
                   interrupted, pc, target, found, early>>

\* server = new Server(), with a connector for each address of BindTo.
NewServer(i) ==
    /\ Goto(i, "managed", "created")
    /\ server' = [server EXCEPT ![i] = "new"]
    /\ UNCHANGED <<loads, listed, opened, bindFailed, owner, interrupted, pc,
                   target, found, early>>

\* server.start() takes Jetty's lifecycle lock and starts the thread pool.
BeginStart(i) ==
    /\ Goto(i, "created", "starting")
    /\ server' = [server EXCEPT ![i] = "starting"]
    /\ UNCHANGED <<loads, listed, opened, bindFailed, owner, interrupted, pc,
                   target, found, early>>

\* Mutant: a connector that cannot open is passed over in silence.
OpenConnectorSilently(i) ==
    LET h == BindTo[opened[i] + 1] IN
    /\ server[i] = "starting"
    /\ opened[i] < Len(BindTo)
    /\ opened' = [opened EXCEPT ![i] = @ + 1]
    /\ owner' = IF owner[h] = Nobody THEN [owner EXCEPT ![h] = i] ELSE owner
    /\ UNCHANGED <<loads, listed, thread, server, bindFailed, interrupted, pc,
                   target, found, early>>

\* start() tries every connector in turn, also after one has failed.
OpenConnector(i) ==
    LET h == BindTo[opened[i] + 1] IN
    /\ server[i] = "starting"
    /\ opened[i] < Len(BindTo)
    /\ opened' = [opened EXCEPT ![i] = @ + 1]
    /\ \/ /\ owner[h] = Nobody
          /\ owner' = [owner EXCEPT ![h] = i]
          /\ UNCHANGED bindFailed
       \/ /\ owner[h] # Nobody
          /\ bindFailed' = bindFailed \cup {i}
          /\ UNCHANGED owner
    /\ UNCHANGED <<loads, listed, thread, server, interrupted, pc, target,
                   found, early>>

\* start() returns and the thread goes on to server.join().
StartReturns(i) ==
    /\ opened[i] = Len(BindTo)
    /\ i \notin bindFailed
    /\ Goto(i, "starting", "joining")
    /\ server' = [server EXCEPT ![i] = "started"]
    /\ UNCHANGED <<loads, listed, opened, bindFailed, owner, interrupted, pc,
                   target, found, early>>

\* start() throws: the exception is logged and startServer returns.  Jetty
\* does not close the connectors that did open.
StartThrows(i) ==
    /\ opened[i] = Len(BindTo)
    /\ i \in bindFailed
    /\ Goto(i, "starting", "returned")
    /\ server' = [server EXCEPT ![i] = "failed"]
    /\ UNCHANGED <<loads, listed, opened, bindFailed, owner, interrupted, pc,
                   target, found, early>>

\* Mutant: startServer without its server.join().
JoinSkipped(i) ==
    /\ Goto(i, "joining", "returned")
    /\ UNCHANGED <<loads, listed, server, opened, bindFailed, owner,
                   interrupted, pc, target, found, early>>

\* Mutant: startServer starts the server again when join() ends.
JoinRestarts(i) ==
    /\ server[i] = "stopped" \/ i \in interrupted
    /\ Goto(i, "joining", "created")
    /\ server' = [server EXCEPT ![i] = "new"]
    /\ opened' = [opened EXCEPT ![i] = 0]
    /\ UNCHANGED <<loads, listed, bindFailed, owner, interrupted, pc, target,
                   found, early>>

\* join() ends when the server has stopped, or with an exception, which is
\* logged, when the thread has been interrupted.
JoinReturns(i) ==
    /\ server[i] = "stopped" \/ i \in interrupted
    /\ Goto(i, "joining", "returned")
    /\ UNCHANGED <<loads, listed, server, opened, bindFailed, owner,
                   interrupted, pc, target, found, early>>

PluginThread(i) ==
    \/ RunPlugin(i) \/ NewServer(i) \/ BeginStart(i) \/ OpenConnector(i)
    \/ StartReturns(i) \/ StartThrows(i) \/ JoinReturns(i) \/ RemovePlugin(i)

-----------------------------------------------------------------------------
(* terminate(), called by reload() itself ("stop") and by killPlugin, on   *)
(* behalf of a reload or of a user ("killStop").                           *)

Stopping == {"stop", "killStop"}
Joining  == {"join", "killJoin"}
AfterStop == [stop |-> "join", killStop |-> "killJoin"]
AfterJoin == [join |-> "load", killJoin |-> "interrupt"]

\* Terminated before there is a server: terminateServer has nothing to stop.
\* (Before there is a ServerManager terminate() throws, and killPlugin drops
\* the exception; a reload comes from a page, so it never gets here.)
TerminateNothing(a) ==
    /\ pc[a] \in Stopping
    /\ server[target[a]] = "null"
    /\ pc' = [pc EXCEPT ![a] = AfterJoin[AfterStop[@]]]
    /\ early' = early \cup {target[a]}
    /\ UNCHANGED <<loads, listed, thread, server, opened, bindFailed, owner,
                   interrupted, target, found>>

\* Mutant: terminateServer without its server.stop().
StopSkipped(a) ==
    /\ pc[a] \in Stopping
    /\ server[target[a]] \in {"started", "failed"}
    /\ pc' = [pc EXCEPT ![a] = AfterStop[@]]
    /\ UNCHANGED <<loads, listed, thread, server, opened, bindFailed, owner,
                   interrupted, target, found, early>>

\* server.stop(), which waits for a start() under way, closes the connectors.
ServerStop(a) ==
    LET i == target[a] IN
    /\ pc[a] \in Stopping
    /\ server[i] \in {"started", "failed"}
    /\ pc' = [pc EXCEPT ![a] = AfterStop[@]]
    /\ server' = [server EXCEPT ![i] = "stopped"]
    /\ owner' = [h \in Hosts |-> IF owner[h] = i THEN Nobody ELSE owner[h]]
    /\ UNCHANGED <<loads, listed, thread, opened, bindFailed, interrupted,
                   target, found, early>>

\* server.stop() on a server not yet started, or already stopped, does nothing.
StopIdle(a) ==
    /\ pc[a] \in Stopping
    /\ server[target[a]] \in {"new", "stopped"}
    /\ pc' = [pc EXCEPT ![a] = AfterStop[@]]
    /\ early' = IF server[target[a]] = "new" THEN early \cup {target[a]} ELSE early
    /\ UNCHANGED <<loads, listed, thread, server, opened, bindFailed, owner,
                   interrupted, target, found>>

\* server.join() waits while the server's thread pool runs; on a server never
\* started it throws, which is logged.
ServerJoin(a) ==
    /\ pc[a] \in Joining
    /\ server[target[a]] \in {"new", "stopped"}
    /\ pc' = [pc EXCEPT ![a] = AfterJoin[@]]
    /\ UNCHANGED <<loads, listed, thread, server, opened, bindFailed, owner,
                   interrupted, target, found, early>>

-----------------------------------------------------------------------------
(* The reload thread: Plugins.doPost and WinterfacePlugin.reload.          *)

\* doPost with the "reload" parameter, served by instance i, starts thread r.
PostReload(r, i) ==
    /\ pc[r] = "idle"
    /\ server[i] = "started"
    /\ pc' = [pc EXCEPT ![r] = "asleep"]
    /\ target' = [target EXCEPT ![r] = i]
    /\ UNCHANGED <<loads, listed, thread, server, opened, bindFailed, owner,
                   interrupted, found, early>>

\* Mutant: the thread name is returned where the file name is meant.
LookupThreadName(r) ==
    /\ pc[r] = "asleep"
    /\ found' = IF target[r] \in listed THEN found \cup {target[r]} ELSE found
    /\ pc' = [pc EXCEPT ![r] = "stop"]
    /\ UNCHANGED <<loads, listed, thread, server, opened, bindFailed, owner,
                   interrupted, target, early>>

\* Mutant: the names compared never match.
LookupMisses(r) ==
    /\ pc[r] = "asleep"
    /\ pc' = [pc EXCEPT ![r] = "stop"]
    /\ UNCHANGED <<loads, listed, thread, server, opened, bindFailed, owner,
                   interrupted, target, found, early>>

\* Mutant: reload() without its own terminate(), which leaves it to killPlugin.
LookupThenLoad(r) ==
    /\ pc[r] = "asleep"
    /\ found' = IF target[r] \in listed THEN found \cup {r} ELSE found
    /\ pc' = [pc EXCEPT ![r] = "load"]
    /\ UNCHANGED <<loads, listed, thread, server, opened, bindFailed, owner,
                   interrupted, target, early>>

\* After the sleep: getPluginSpecification, null when i is no longer listed.
LookupSpecification(r) ==
    /\ pc[r] = "asleep"
    /\ found' = IF target[r] \in listed THEN found \cup {r} ELSE found
    /\ pc' = [pc EXCEPT ![r] = "stop"]
    /\ UNCHANGED <<loads, listed, thread, server, opened, bindFailed, owner,
                   interrupted, target, early>>

\* startPluginAuto(fn, true) creates a new instance.
LoadReplacement(r, i) ==
    /\ pc[r] = "load"
    /\ r \in found
    /\ StartPlugin(i)
    /\ pc' = [pc EXCEPT ![r] = "find"]
    /\ UNCHANGED <<loads, server, opened, bindFailed, owner, interrupted,
                   target, found, early>>

\* startPluginAuto returns null: the plugin file could not be loaded.
LoadFails(r) ==
    /\ LoadMayFail
    /\ pc[r] = "load"
    /\ r \in found
    /\ pc' = [pc EXCEPT ![r] = "find"]
    /\ UNCHANGED <<loads, listed, thread, server, opened, bindFailed, owner,
                   interrupted, target, found, early>>

\* startPluginAuto(null, true) throws and ends the reload thread.
NullSpecification(r) ==
    /\ pc[r] = "load"
    /\ r \notin found
    /\ pc' = [pc EXCEPT ![r] = "dead"]
    /\ UNCHANGED <<loads, listed, thread, server, opened, bindFailed, owner,
                   interrupted, target, found, early>>

\* killPlugin(winterface_thread_name, 60 s, true) looks for the old instance.
FindOldPlugin(r) ==
    /\ pc[r] = "find"
    /\ pc' = [pc EXCEPT ![r] = IF target[r] \in listed THEN "killStop" ELSE "done"]
    /\ UNCHANGED <<loads, listed, thread, server, opened, bindFailed, owner,
                   interrupted, target, found, early>>

ReloadThread(r) ==
    \/ LookupSpecification(r) \/ NullSpecification(r) \/ LoadFails(r)
    \/ FindOldPlugin(r)
    \/ \E i \in Instances : LoadReplacement(r, i)

Terminator(a) ==
    \/ TerminateNothing(a) \/ ServerStop(a) \/ StopIdle(a) \/ ServerJoin(a)
    \/ Interrupt(a)

-----------------------------------------------------------------------------
Next ==
    \/ \E i \in Instances : UserLoad(i) \/ PluginThread(i)
    \/ \E i \in Instances : \E k \in Kills : KillRequest(k, i)
    \/ \E i \in Instances : \E r \in Reloads : PostReload(r, i)
    \/ \E r \in Reloads : ReloadThread(r)
    \/ \E a \in Actors : Terminator(a)

\* Threads that can run do run.  Users need not do anything, and nothing makes
\* a load succeed: LoadMayFail says whether it can fail.
Fairness ==
    /\ \A i \in Instances : WF_vars(PluginThread(i))
    /\ \A r \in Reloads : WF_vars(ReloadThread(r))
    /\ \A a \in Actors : WF_vars(Terminator(a))

Spec == Init /\ [][Next]_vars
FairSpec == Spec /\ Fairness

-----------------------------------------------------------------------------
(* Correctness.                                                            *)

Serving(i) == server[i] = "started"

\* Every variable keeps its type.
TypeOK ==
    /\ loads \in 0 .. MaxLoads
    /\ listed \subseteq Instances
    /\ thread \in [Instances -> {"unborn", "loaded", "managed", "created",
                                 "starting", "joining", "returned", "gone"}]
    /\ server \in [Instances -> {"null", "new", "starting", "started", "failed",
                                 "stopped"}]
    /\ opened \in [Instances -> 0 .. Len(BindTo)]
    /\ bindFailed \subseteq Instances
    /\ owner \in [Hosts -> Instances \cup {Nobody}]
    /\ interrupted \subseteq Instances
    /\ pc \in [Actors -> {"idle", "asleep", "stop", "join", "load", "find",
                          "killStop", "killJoin", "interrupt", "done", "dead"}]
    /\ target \in [Actors -> Instances \cup {Nobody}]
    /\ found \subseteq Reloads
    /\ early \subseteq Instances

\* However loads, reloads and kills overlap, two servers never serve at once:
\* a browser is never answered by two instances of the plugin in turn.
AtMostOneServing == \A i, j \in Instances : Serving(i) /\ Serving(j) => i = j

\* reload() loads the replacement only after the old instance has let go of
\* every address, also of those a server that failed to start still held.
OldPortsFreed ==
    \A r \in Reloads : pc[r] = "load" => \A h \in Hosts : owner[h] # target[r]

\* A server outlives its plugin thread, out of the node's reach, only if the
\* plugin was terminated before its server.start() was called.
OrphanOnlyIfEarly ==
    \A i \in Instances :
        Serving(i) /\ thread[i] \in {"returned", "gone"} => i \in early

\* A reload thread that finds no specification, and so loads nothing, is one
\* that came second: another reload of the same instance found it, or a user
\* has asked the node to unload that instance.
NoReloadLost ==
    \A r \in Reloads : pc[r] = "dead" =>
        \E q \in found \cup Kills : target[q] = target[r]

\* A reload of a serving instance leads to another instance that serves, unless a
\* user of the node unloads an instance meanwhile, or unloaded this one, in vain,
\* before its server was started.
KillUnderWay == \E k \in Kills : pc[k] \notin {"idle", "done"}

OtherServes(r) == \E i \in Instances : i # target[r] /\ Serving(i)

ReloadRestores ==
    \A r \in Reloads :
        (pc[r] = "asleep" /\ Serving(target[r]) /\ target[r] \notin early
            /\ ~KillUnderWay)
        ~> (OtherServes(r) \/ KillUnderWay)

\* plugins.vm: "You will be automatically redirected back to Winterface when
\* everything is set up."  The same of every reload, whatever came before it.
EveryReloadRestores ==
    \A r \in Reloads :
        (pc[r] = "asleep" /\ Serving(target[r]) /\ ~KillUnderWay)
            ~> (OtherServes(r) \/ KillUnderWay)

\* A reload thread always ends; it is never stuck joining a server.
ReloadEnds == \A r \in Reloads : pc[r] = "asleep" ~> pc[r] \in {"done", "dead"}

\* An unload the node has begun always ends, unless it came before the server
\* was started: stop() then did nothing and join() waits for the server that
\* starts afterwards.
KillEnds ==
    \A k \in Kills : pc[k] = "killStop" ~> (pc[k] = "done" \/ target[k] \in early)

\* No thread of a reload or an unload is stuck for ever.
ThreadsEnd == ReloadEnds /\ KillEnds

\* The life cycle implements the abstract service: a server is up from the end
\* of its start() to its stop().
WS == INSTANCE WebService WITH
    phase <- [i \in Instances |->
                IF server[i] = "started" THEN "up"
                ELSE IF server[i] \in {"failed", "stopped"} THEN "over"
                ELSE "waiting"]
ImplementsWebService == WS!Spec
=============================================================================
