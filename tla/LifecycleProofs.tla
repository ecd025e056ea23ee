--------------------------- MODULE LifecycleProofs ---------------------------
(***************************************************************************)
(* Proofs about Lifecycle for any instances, addresses, reloads and kills. *)
(***************************************************************************)
EXTENDS Lifecycle, TLAPS

-----------------------------------------------------------------------------
(* The inductive invariant, in parts.                                      *)

\* A thread that is not idle works on an instance.
TargetInv ==
    \A a \in Actors : IF pc[a] = "idle" THEN target[a] = Nobody
                                        ELSE target[a] \in Instances

\* Where the plugin thread is tells what its server can be, and what start()
\* has done so far.
ThreadInv ==
    \A i \in Instances :
        /\ thread[i] \in {"unborn", "loaded", "managed"} <=> server[i] = "null"
        /\ thread[i] = "created" <=> server[i] = "new"
        /\ thread[i] = "starting" <=> server[i] = "starting"
        /\ thread[i] = "joining" => server[i] \in {"started", "stopped"}
        /\ server[i] \in {"null", "new"} => opened[i] = 0 /\ i \notin bindFailed
        /\ server[i] = "started" => opened[i] = Len(BindTo) /\ i \notin bindFailed

\* A server none of whose connectors has failed owns every address it tried, and
\* only a server that is not stopped owns an address.
OwnerInv ==
    /\ \A i \in Instances :
          server[i] \in {"starting", "started"} /\ i \notin bindFailed =>
              \A n \in 1 .. opened[i] : owner[BindTo[n]] = i
    /\ \A h \in Hosts : \A i \in Instances :
          owner[h] = i => server[i] \in {"starting", "started", "failed"}

\* A reload works on a server that was started; after its terminate() that server
\* is stopped.  A kill never takes the steps of reload().
ReloadInv ==
    /\ \A r \in Reloads :
          /\ pc[r] \in {"asleep", "stop"} => server[target[r]] \in {"started", "stopped"}
          /\ pc[r] \in {"join", "load", "find", "killStop", "killJoin"} =>
                server[target[r]] = "stopped"
    /\ \A k \in Kills : pc[k] \in {"idle", "killStop", "killJoin", "interrupt", "done"}

\* Past the stop of killPlugin the server is stopped, or was not yet started then.
OrphanInv ==
    /\ \A a \in Actors : pc[a] \in {"killJoin", "interrupt"} =>
          server[target[a]] = "stopped" \/ target[a] \in early
    /\ \A i \in interrupted : server[i] = "stopped" \/ i \in early
    /\ OrphanOnlyIfEarly

\* Some reload that found the specification, or some kill, has instance i for
\* its target.
Claimed(i) == \E q \in found \cup Kills : target[q] = i

\* An instance is stopped, interrupted or gone from the list only once some such
\* thread has claimed it.
ClaimInv ==
    /\ \A i \in Instances :
          /\ i \in interrupted \/ server[i] = "stopped" => Claimed(i)
          /\ thread[i] \in {"returned", "gone"} /\ server[i] = "started" =>
                i \in interrupted
          /\ thread[i] \notin {"unborn", "gone"} => i \in listed
    /\ \A r \in Reloads :
          /\ pc[r] \in {"stop", "join", "load", "dead"} /\ r \notin found =>
                Claimed(target[r])
          /\ pc[r] \in {"find", "killStop", "killJoin", "interrupt"} => r \in found

-----------------------------------------------------------------------------
\* Every step keeps the types, given that busy threads have a target.
LEMMA TypeInductive ==
    TypeOK /\ TargetInv /\ [Next]_vars => TypeOK'
<1> SUFFICES ASSUME TypeOK, TargetInv, [Next]_vars
             PROVE  TypeOK'
    OBVIOUS
<1> USE DEF TypeOK, TargetInv
<1>1. ASSUME NEW i \in Instances, UserLoad(i) PROVE TypeOK'
    BY <1>1, LoadAssumption DEF UserLoad, StartPlugin
<1>2. ASSUME NEW i \in Instances, RunPlugin(i) PROVE TypeOK'
    BY <1>2 DEF RunPlugin, Goto
<1>3. ASSUME NEW i \in Instances, NewServer(i) PROVE TypeOK'
    BY <1>3 DEF NewServer, Goto
<1>4. ASSUME NEW i \in Instances, BeginStart(i) PROVE TypeOK'
    BY <1>4 DEF BeginStart, Goto
<1>5. ASSUME NEW i \in Instances, OpenConnector(i) PROVE TypeOK'
    <2>1. opened' \in [Instances -> 0 .. Len(BindTo)]
        <3>1. Len(BindTo) \in Nat
            BY BindToAssumption
        <3>2. opened[i] + 1 \in 0 .. Len(BindTo)
            BY <1>5, <3>1 DEF OpenConnector
        <3>. QED BY <1>5, <3>2 DEF OpenConnector
    <2>2. bindFailed' \subseteq Instances /\ owner' \in [Hosts -> Instances \cup {Nobody}]
        BY <1>5 DEF OpenConnector
    <2>. QED BY <1>5, <2>1, <2>2 DEF OpenConnector
<1>6. ASSUME NEW i \in Instances, StartReturns(i) PROVE TypeOK'
    BY <1>6 DEF StartReturns, Goto
<1>7. ASSUME NEW i \in Instances, StartThrows(i) PROVE TypeOK'
    BY <1>7 DEF StartThrows, Goto
<1>8. ASSUME NEW i \in Instances, JoinReturns(i) PROVE TypeOK'
    BY <1>8 DEF JoinReturns, Goto
<1>9. ASSUME NEW i \in Instances, RemovePlugin(i) PROVE TypeOK'
    BY <1>9 DEF RemovePlugin
<1>10. ASSUME NEW k \in Kills, NEW i \in Instances, KillRequest(k, i) PROVE TypeOK'
    BY <1>10 DEF KillRequest, Actors
<1>11. ASSUME NEW r \in Reloads, NEW i \in Instances, PostReload(r, i) PROVE TypeOK'
    BY <1>11 DEF PostReload, Actors
<1>12. ASSUME NEW r \in Reloads, LookupSpecification(r) PROVE TypeOK'
    BY <1>12 DEF LookupSpecification, Actors
<1>13. ASSUME NEW r \in Reloads, NEW i \in Instances, LoadReplacement(r, i) PROVE TypeOK'
    BY <1>13 DEF LoadReplacement, StartPlugin, Actors
<1>14. ASSUME NEW r \in Reloads, LoadFails(r) PROVE TypeOK'
    BY <1>14 DEF LoadFails, Actors
<1>15. ASSUME NEW r \in Reloads, NullSpecification(r) PROVE TypeOK'
    BY <1>15 DEF NullSpecification, Actors
<1>16. ASSUME NEW r \in Reloads, FindOldPlugin(r) PROVE TypeOK'
    BY <1>16 DEF FindOldPlugin, Actors
<1>17. ASSUME NEW a \in Actors, TerminateNothing(a) PROVE TypeOK'
    BY <1>17 DEF TerminateNothing, Stopping, AfterStop, AfterJoin
<1>18. ASSUME NEW a \in Actors, ServerStop(a) PROVE TypeOK'
    BY <1>18 DEF ServerStop, Stopping, AfterStop
<1>19. ASSUME NEW a \in Actors, StopIdle(a) PROVE TypeOK'
    BY <1>19 DEF StopIdle, Stopping, AfterStop
<1>20. ASSUME NEW a \in Actors, ServerJoin(a) PROVE TypeOK'
    BY <1>20 DEF ServerJoin, Joining, AfterJoin
<1>21. ASSUME NEW a \in Actors, Interrupt(a) PROVE TypeOK'
    BY <1>21 DEF Interrupt
<1>22. CASE UNCHANGED vars
    BY <1>22 DEF vars
<1>. QED BY <1>1, <1>2, <1>3, <1>4, <1>5, <1>6, <1>7, <1>8, <1>9, <1>10,
        <1>11, <1>12, <1>13, <1>14, <1>15, <1>16, <1>17, <1>18, <1>19, <1>20,
        <1>21, <1>22 DEF Next, PluginThread, ReloadThread, Terminator

\* Every step keeps the targets: a target is set when its thread leaves idle.
LEMMA TargetInductive ==
    TypeOK /\ TargetInv /\ [Next]_vars => TargetInv'
<1> SUFFICES ASSUME TypeOK, TargetInv, [Next]_vars
             PROVE  TargetInv'
    OBVIOUS
<1> USE DEF TypeOK, TargetInv
<1>1. ASSUME NEW i \in Instances, UserLoad(i) PROVE TargetInv'
    BY <1>1 DEF UserLoad, StartPlugin
<1>2. ASSUME NEW i \in Instances, RunPlugin(i) PROVE TargetInv'
    BY <1>2 DEF RunPlugin, Goto
<1>3. ASSUME NEW i \in Instances, NewServer(i) PROVE TargetInv'
    BY <1>3 DEF NewServer, Goto
<1>4. ASSUME NEW i \in Instances, BeginStart(i) PROVE TargetInv'
    BY <1>4 DEF BeginStart, Goto
<1>5. ASSUME NEW i \in Instances, OpenConnector(i) PROVE TargetInv'
    BY <1>5 DEF OpenConnector
<1>6. ASSUME NEW i \in Instances, StartReturns(i) PROVE TargetInv'
    BY <1>6 DEF StartReturns, Goto
<1>7. ASSUME NEW i \in Instances, StartThrows(i) PROVE TargetInv'
    BY <1>7 DEF StartThrows, Goto
<1>8. ASSUME NEW i \in Instances, JoinReturns(i) PROVE TargetInv'
    BY <1>8 DEF JoinReturns, Goto
<1>9. ASSUME NEW i \in Instances, RemovePlugin(i) PROVE TargetInv'
    BY <1>9 DEF RemovePlugin
<1>10. ASSUME NEW k \in Kills, NEW i \in Instances, KillRequest(k, i) PROVE TargetInv'
    BY <1>10 DEF KillRequest, Actors
<1>11. ASSUME NEW r \in Reloads, NEW i \in Instances, PostReload(r, i) PROVE TargetInv'
    BY <1>11 DEF PostReload, Actors
<1>12. ASSUME NEW r \in Reloads, LookupSpecification(r) PROVE TargetInv'
    BY <1>12 DEF LookupSpecification, Actors
<1>13. ASSUME NEW r \in Reloads, NEW i \in Instances, LoadReplacement(r, i) PROVE TargetInv'
    BY <1>13 DEF LoadReplacement, StartPlugin, Actors
<1>14. ASSUME NEW r \in Reloads, LoadFails(r) PROVE TargetInv'
    BY <1>14 DEF LoadFails, Actors
<1>15. ASSUME NEW r \in Reloads, NullSpecification(r) PROVE TargetInv'
    BY <1>15 DEF NullSpecification, Actors
<1>16. ASSUME NEW r \in Reloads, FindOldPlugin(r) PROVE TargetInv'
    BY <1>16 DEF FindOldPlugin, Actors
<1>17. ASSUME NEW a \in Actors, TerminateNothing(a) PROVE TargetInv'
    BY <1>17 DEF TerminateNothing, Stopping, AfterStop, AfterJoin
<1>18. ASSUME NEW a \in Actors, ServerStop(a) PROVE TargetInv'
    BY <1>18 DEF ServerStop, Stopping, AfterStop
<1>19. ASSUME NEW a \in Actors, StopIdle(a) PROVE TargetInv'
    BY <1>19 DEF StopIdle, Stopping, AfterStop
<1>20. ASSUME NEW a \in Actors, ServerJoin(a) PROVE TargetInv'
    BY <1>20 DEF ServerJoin, Joining, AfterJoin
<1>21. ASSUME NEW a \in Actors, Interrupt(a) PROVE TargetInv'
    BY <1>21 DEF Interrupt
<1>22. CASE UNCHANGED vars
    BY <1>22 DEF vars
<1>. QED BY <1>1, <1>2, <1>3, <1>4, <1>5, <1>6, <1>7, <1>8, <1>9, <1>10,
        <1>11, <1>12, <1>13, <1>14, <1>15, <1>16, <1>17, <1>18, <1>19, <1>20,
        <1>21, <1>22 DEF Next, PluginThread, ReloadThread, Terminator

\* Every step keeps a plugin thread and its server in step.
LEMMA ThreadInductive ==
    TypeOK /\ TargetInv /\ ThreadInv /\ [Next]_vars => ThreadInv'
<1> SUFFICES ASSUME TypeOK, TargetInv, ThreadInv, [Next]_vars
             PROVE  ThreadInv'
    OBVIOUS
<1> USE DEF TypeOK, TargetInv, ThreadInv
<1>1. ASSUME NEW i \in Instances, UserLoad(i) PROVE ThreadInv'
    BY <1>1 DEF UserLoad, StartPlugin
<1>2. ASSUME NEW i \in Instances, RunPlugin(i) PROVE ThreadInv'
    BY <1>2 DEF RunPlugin, Goto
<1>3. ASSUME NEW i \in Instances, NewServer(i) PROVE ThreadInv'
    BY <1>3 DEF NewServer, Goto
<1>4. ASSUME NEW i \in Instances, BeginStart(i) PROVE ThreadInv'
    BY <1>4 DEF BeginStart, Goto
<1>5. ASSUME NEW i \in Instances, OpenConnector(i) PROVE ThreadInv'
    BY <1>5 DEF OpenConnector
<1>6. ASSUME NEW i \in Instances, StartReturns(i) PROVE ThreadInv'
    BY <1>6 DEF StartReturns, Goto
<1>7. ASSUME NEW i \in Instances, StartThrows(i) PROVE ThreadInv'
    BY <1>7 DEF StartThrows, Goto
<1>8. ASSUME NEW i \in Instances, JoinReturns(i) PROVE ThreadInv'
    BY <1>8 DEF JoinReturns, Goto
<1>9. ASSUME NEW i \in Instances, RemovePlugin(i) PROVE ThreadInv'
    BY <1>9 DEF RemovePlugin
<1>10. ASSUME NEW k \in Kills, NEW i \in Instances, KillRequest(k, i) PROVE ThreadInv'
    BY <1>10 DEF KillRequest, Actors
<1>11. ASSUME NEW r \in Reloads, NEW i \in Instances, PostReload(r, i) PROVE ThreadInv'
    BY <1>11 DEF PostReload, Actors
<1>12. ASSUME NEW r \in Reloads, LookupSpecification(r) PROVE ThreadInv'
    BY <1>12 DEF LookupSpecification, Actors
<1>13. ASSUME NEW r \in Reloads, NEW i \in Instances, LoadReplacement(r, i) PROVE ThreadInv'
    BY <1>13 DEF LoadReplacement, StartPlugin, Actors
<1>14. ASSUME NEW r \in Reloads, LoadFails(r) PROVE ThreadInv'
    BY <1>14 DEF LoadFails, Actors
<1>15. ASSUME NEW r \in Reloads, NullSpecification(r) PROVE ThreadInv'
    BY <1>15 DEF NullSpecification, Actors
<1>16. ASSUME NEW r \in Reloads, FindOldPlugin(r) PROVE ThreadInv'
    BY <1>16 DEF FindOldPlugin, Actors
<1>17. ASSUME NEW a \in Actors, TerminateNothing(a) PROVE ThreadInv'
    BY <1>17 DEF TerminateNothing, Stopping, AfterStop, AfterJoin
<1>18. ASSUME NEW a \in Actors, ServerStop(a) PROVE ThreadInv'
    BY <1>18 DEF ServerStop, Stopping, AfterStop
<1>19. ASSUME NEW a \in Actors, StopIdle(a) PROVE ThreadInv'
    BY <1>19 DEF StopIdle, Stopping, AfterStop
<1>20. ASSUME NEW a \in Actors, ServerJoin(a) PROVE ThreadInv'
    BY <1>20 DEF ServerJoin, Joining, AfterJoin
<1>21. ASSUME NEW a \in Actors, Interrupt(a) PROVE ThreadInv'
    BY <1>21 DEF Interrupt
<1>22. CASE UNCHANGED vars
    BY <1>22 DEF vars
<1>. QED BY <1>1, <1>2, <1>3, <1>4, <1>5, <1>6, <1>7, <1>8, <1>9, <1>10,
        <1>11, <1>12, <1>13, <1>14, <1>15, <1>16, <1>17, <1>18, <1>19, <1>20,
        <1>21, <1>22 DEF Next, PluginThread, ReloadThread, Terminator

\* Every step keeps the addresses with the servers that opened them.
LEMMA OwnerInductive ==
    TypeOK /\ TargetInv /\ ThreadInv /\ OwnerInv /\ [Next]_vars => OwnerInv'
<1> SUFFICES ASSUME TypeOK, TargetInv, ThreadInv, OwnerInv, [Next]_vars
             PROVE  OwnerInv'
    OBVIOUS
<1> USE DEF TypeOK, TargetInv, ThreadInv, OwnerInv
<1>1. ASSUME NEW i \in Instances, UserLoad(i) PROVE OwnerInv'
    BY <1>1 DEF UserLoad, StartPlugin
<1>2. ASSUME NEW i \in Instances, RunPlugin(i) PROVE OwnerInv'
    BY <1>2 DEF RunPlugin, Goto
<1>3. ASSUME NEW i \in Instances, NewServer(i) PROVE OwnerInv'
    BY <1>3 DEF NewServer, Goto
<1>4. ASSUME NEW i \in Instances, BeginStart(i) PROVE OwnerInv'
    BY <1>4 DEF BeginStart, Goto
<1>5. ASSUME NEW i \in Instances, OpenConnector(i) PROVE OwnerInv'
    BY <1>5, BindToAssumption, NobodyAssumption DEF OpenConnector
<1>6. ASSUME NEW i \in Instances, StartReturns(i) PROVE OwnerInv'
    BY <1>6 DEF StartReturns, Goto
<1>7. ASSUME NEW i \in Instances, StartThrows(i) PROVE OwnerInv'
    BY <1>7 DEF StartThrows, Goto
<1>8. ASSUME NEW i \in Instances, JoinReturns(i) PROVE OwnerInv'
    BY <1>8 DEF JoinReturns, Goto
<1>9. ASSUME NEW i \in Instances, RemovePlugin(i) PROVE OwnerInv'
    BY <1>9 DEF RemovePlugin
<1>10. ASSUME NEW k \in Kills, NEW i \in Instances, KillRequest(k, i) PROVE OwnerInv'
    BY <1>10 DEF KillRequest, Actors
<1>11. ASSUME NEW r \in Reloads, NEW i \in Instances, PostReload(r, i) PROVE OwnerInv'
    BY <1>11 DEF PostReload, Actors
<1>12. ASSUME NEW r \in Reloads, LookupSpecification(r) PROVE OwnerInv'
    BY <1>12 DEF LookupSpecification, Actors
<1>13. ASSUME NEW r \in Reloads, NEW i \in Instances, LoadReplacement(r, i) PROVE OwnerInv'
    BY <1>13 DEF LoadReplacement, StartPlugin, Actors
<1>14. ASSUME NEW r \in Reloads, LoadFails(r) PROVE OwnerInv'
    BY <1>14 DEF LoadFails, Actors
<1>15. ASSUME NEW r \in Reloads, NullSpecification(r) PROVE OwnerInv'
    BY <1>15 DEF NullSpecification, Actors
<1>16. ASSUME NEW r \in Reloads, FindOldPlugin(r) PROVE OwnerInv'
    BY <1>16 DEF FindOldPlugin, Actors
<1>17. ASSUME NEW a \in Actors, TerminateNothing(a) PROVE OwnerInv'
    BY <1>17 DEF TerminateNothing, Stopping, AfterStop, AfterJoin
<1>18. ASSUME NEW a \in Actors, ServerStop(a) PROVE OwnerInv'
    <2>1. ASSUME NEW j \in Instances, server'[j] \in {"starting", "started"},
                 j \notin bindFailed', NEW n \in 1 .. opened'[j]
          PROVE  owner'[BindTo[n]] = j
        <3>1. j # target[a] /\ server[j] = server'[j] /\ n \in 1 .. Len(BindTo)
            BY <1>18, <2>1, BindToAssumption DEF ServerStop
        <3>2. owner[BindTo[n]] = j /\ BindTo[n] \in Hosts
            BY <1>18, <2>1, <3>1, BindToAssumption DEF ServerStop
        <3>. QED BY <1>18, <3>1, <3>2 DEF ServerStop
    <2>2. ASSUME NEW h \in Hosts, NEW j \in Instances, owner'[h] = j
          PROVE  server'[j] \in {"starting", "started", "failed"}
        BY <1>18, <2>2, NobodyAssumption DEF ServerStop
    <2>. QED BY <2>1, <2>2
<1>19. ASSUME NEW a \in Actors, StopIdle(a) PROVE OwnerInv'
    BY <1>19 DEF StopIdle, Stopping, AfterStop
<1>20. ASSUME NEW a \in Actors, ServerJoin(a) PROVE OwnerInv'
    BY <1>20 DEF ServerJoin, Joining, AfterJoin
<1>21. ASSUME NEW a \in Actors, Interrupt(a) PROVE OwnerInv'
    BY <1>21 DEF Interrupt
<1>22. CASE UNCHANGED vars
    BY <1>22 DEF vars
<1>. QED BY <1>1, <1>2, <1>3, <1>4, <1>5, <1>6, <1>7, <1>8, <1>9, <1>10,
        <1>11, <1>12, <1>13, <1>14, <1>15, <1>16, <1>17, <1>18, <1>19, <1>20,
        <1>21, <1>22 DEF Next, PluginThread, ReloadThread, Terminator

\* Every step keeps what a reload knows of the server it replaces.
LEMMA ReloadInductive ==
    TypeOK /\ TargetInv /\ ThreadInv /\ ReloadInv /\ [Next]_vars => ReloadInv'
<1> SUFFICES ASSUME TypeOK, TargetInv, ThreadInv, ReloadInv, [Next]_vars
             PROVE  ReloadInv'
    OBVIOUS
<1> USE DEF TypeOK, TargetInv, ThreadInv, ReloadInv
<1>1. ASSUME NEW i \in Instances, UserLoad(i) PROVE ReloadInv'
    BY <1>1 DEF UserLoad, StartPlugin
<1>2. ASSUME NEW i \in Instances, RunPlugin(i) PROVE ReloadInv'
    BY <1>2 DEF RunPlugin, Goto
<1>3. ASSUME NEW i \in Instances, NewServer(i) PROVE ReloadInv'
    BY <1>3 DEF NewServer, Goto
<1>4. ASSUME NEW i \in Instances, BeginStart(i) PROVE ReloadInv'
    BY <1>4 DEF BeginStart, Goto
<1>5. ASSUME NEW i \in Instances, OpenConnector(i) PROVE ReloadInv'
    BY <1>5 DEF OpenConnector
<1>6. ASSUME NEW i \in Instances, StartReturns(i) PROVE ReloadInv'
    BY <1>6 DEF StartReturns, Goto
<1>7. ASSUME NEW i \in Instances, StartThrows(i) PROVE ReloadInv'
    BY <1>7 DEF StartThrows, Goto
<1>8. ASSUME NEW i \in Instances, JoinReturns(i) PROVE ReloadInv'
    BY <1>8 DEF JoinReturns, Goto
<1>9. ASSUME NEW i \in Instances, RemovePlugin(i) PROVE ReloadInv'
    BY <1>9 DEF RemovePlugin
<1>10. ASSUME NEW k \in Kills, NEW i \in Instances, KillRequest(k, i) PROVE ReloadInv'
    BY <1>10, ActorAssumption DEF KillRequest, Actors
<1>11. ASSUME NEW r \in Reloads, NEW i \in Instances, PostReload(r, i) PROVE ReloadInv'
    BY <1>11, ActorAssumption DEF PostReload, Actors
<1>12. ASSUME NEW r \in Reloads, LookupSpecification(r) PROVE ReloadInv'
    BY <1>12, ActorAssumption DEF LookupSpecification, Actors
<1>13. ASSUME NEW r \in Reloads, NEW i \in Instances, LoadReplacement(r, i) PROVE ReloadInv'
    BY <1>13, ActorAssumption DEF LoadReplacement, StartPlugin, Actors
<1>14. ASSUME NEW r \in Reloads, LoadFails(r) PROVE ReloadInv'
    BY <1>14, ActorAssumption DEF LoadFails, Actors
<1>15. ASSUME NEW r \in Reloads, NullSpecification(r) PROVE ReloadInv'
    BY <1>15, ActorAssumption DEF NullSpecification, Actors
<1>16. ASSUME NEW r \in Reloads, FindOldPlugin(r) PROVE ReloadInv'
    BY <1>16, ActorAssumption DEF FindOldPlugin, Actors
<1>17. ASSUME NEW a \in Actors, TerminateNothing(a) PROVE ReloadInv'
    BY <1>17 DEF TerminateNothing, Stopping, AfterStop, AfterJoin
<1>18. ASSUME NEW a \in Actors, ServerStop(a) PROVE ReloadInv'
    BY <1>18 DEF ServerStop, Stopping, AfterStop
<1>19. ASSUME NEW a \in Actors, StopIdle(a) PROVE ReloadInv'
    BY <1>19 DEF StopIdle, Stopping, AfterStop
<1>20. ASSUME NEW a \in Actors, ServerJoin(a) PROVE ReloadInv'
    BY <1>20 DEF ServerJoin, Joining, AfterJoin
<1>21. ASSUME NEW a \in Actors, Interrupt(a) PROVE ReloadInv'
    BY <1>21 DEF Interrupt
<1>22. CASE UNCHANGED vars
    BY <1>22 DEF vars
<1>. QED BY <1>1, <1>2, <1>3, <1>4, <1>5, <1>6, <1>7, <1>8, <1>9, <1>10,
        <1>11, <1>12, <1>13, <1>14, <1>15, <1>16, <1>17, <1>18, <1>19, <1>20,
        <1>21, <1>22 DEF Next, PluginThread, ReloadThread, Terminator

\* Every step keeps the servers that outlive their thread among the early ones.
LEMMA OrphanInductive ==
    TypeOK /\ TargetInv /\ ThreadInv /\ ReloadInv /\ OrphanInv /\ [Next]_vars => OrphanInv'
<1> SUFFICES ASSUME TypeOK, TargetInv, ThreadInv, ReloadInv, OrphanInv, [Next]_vars
             PROVE  OrphanInv'
    OBVIOUS
<1> USE DEF TypeOK, TargetInv, ThreadInv, ReloadInv, OrphanInv, OrphanOnlyIfEarly, Serving
<1>1. ASSUME NEW i \in Instances, UserLoad(i) PROVE OrphanInv'
    BY <1>1 DEF UserLoad, StartPlugin
<1>2. ASSUME NEW i \in Instances, RunPlugin(i) PROVE OrphanInv'
    BY <1>2 DEF RunPlugin, Goto
<1>3. ASSUME NEW i \in Instances, NewServer(i) PROVE OrphanInv'
    BY <1>3 DEF NewServer, Goto
<1>4. ASSUME NEW i \in Instances, BeginStart(i) PROVE OrphanInv'
    BY <1>4 DEF BeginStart, Goto
<1>5. ASSUME NEW i \in Instances, OpenConnector(i) PROVE OrphanInv'
    BY <1>5 DEF OpenConnector
<1>6. ASSUME NEW i \in Instances, StartReturns(i) PROVE OrphanInv'
    BY <1>6 DEF StartReturns, Goto
<1>7. ASSUME NEW i \in Instances, StartThrows(i) PROVE OrphanInv'
    BY <1>7 DEF StartThrows, Goto
<1>8. ASSUME NEW i \in Instances, JoinReturns(i) PROVE OrphanInv'
    BY <1>8 DEF JoinReturns, Goto
<1>9. ASSUME NEW i \in Instances, RemovePlugin(i) PROVE OrphanInv'
    BY <1>9 DEF RemovePlugin
<1>10. ASSUME NEW k \in Kills, NEW i \in Instances, KillRequest(k, i) PROVE OrphanInv'
    BY <1>10 DEF KillRequest, Actors
<1>11. ASSUME NEW r \in Reloads, NEW i \in Instances, PostReload(r, i) PROVE OrphanInv'
    BY <1>11 DEF PostReload, Actors
<1>12. ASSUME NEW r \in Reloads, LookupSpecification(r) PROVE OrphanInv'
    BY <1>12 DEF LookupSpecification, Actors
<1>13. ASSUME NEW r \in Reloads, NEW i \in Instances, LoadReplacement(r, i) PROVE OrphanInv'
    BY <1>13 DEF LoadReplacement, StartPlugin, Actors
<1>14. ASSUME NEW r \in Reloads, LoadFails(r) PROVE OrphanInv'
    BY <1>14 DEF LoadFails, Actors
<1>15. ASSUME NEW r \in Reloads, NullSpecification(r) PROVE OrphanInv'
    BY <1>15 DEF NullSpecification, Actors
<1>16. ASSUME NEW r \in Reloads, FindOldPlugin(r) PROVE OrphanInv'
    BY <1>16, ActorAssumption DEF FindOldPlugin, Actors
<1>17. ASSUME NEW a \in Actors, TerminateNothing(a) PROVE OrphanInv'
    BY <1>17 DEF TerminateNothing, Stopping, AfterStop, AfterJoin
<1>18. ASSUME NEW a \in Actors, ServerStop(a) PROVE OrphanInv'
    BY <1>18 DEF ServerStop, Stopping, AfterStop
<1>19. ASSUME NEW a \in Actors, StopIdle(a) PROVE OrphanInv'
    BY <1>19 DEF StopIdle, Stopping, AfterStop
<1>20. ASSUME NEW a \in Actors, ServerJoin(a) PROVE OrphanInv'
    BY <1>20 DEF ServerJoin, Joining, AfterJoin
<1>21. ASSUME NEW a \in Actors, Interrupt(a) PROVE OrphanInv'
    BY <1>21 DEF Interrupt
<1>22. CASE UNCHANGED vars
    BY <1>22 DEF vars
<1>. QED BY <1>1, <1>2, <1>3, <1>4, <1>5, <1>6, <1>7, <1>8, <1>9, <1>10,
        <1>11, <1>12, <1>13, <1>14, <1>15, <1>16, <1>17, <1>18, <1>19, <1>20,
        <1>21, <1>22 DEF Next, PluginThread, ReloadThread, Terminator

\* Every step that stops, interrupts or unlists an instance has a claim on it.
LEMMA ClaimInductive ==
    TypeOK /\ TargetInv /\ ThreadInv /\ ReloadInv /\ ClaimInv /\ [Next]_vars => ClaimInv'
<1> SUFFICES ASSUME TypeOK, TargetInv, ThreadInv, ReloadInv, ClaimInv, [Next]_vars
             PROVE  ClaimInv'
    OBVIOUS
<1> USE DEF TypeOK, TargetInv, ThreadInv, ReloadInv, ClaimInv, Claimed
<1>1. ASSUME NEW i \in Instances, UserLoad(i) PROVE ClaimInv'
    BY <1>1 DEF UserLoad, StartPlugin
<1>2. ASSUME NEW i \in Instances, RunPlugin(i) PROVE ClaimInv'
    BY <1>2 DEF RunPlugin, Goto
<1>3. ASSUME NEW i \in Instances, NewServer(i) PROVE ClaimInv'
    BY <1>3 DEF NewServer, Goto
<1>4. ASSUME NEW i \in Instances, BeginStart(i) PROVE ClaimInv'
    BY <1>4 DEF BeginStart, Goto
<1>5. ASSUME NEW i \in Instances, OpenConnector(i) PROVE ClaimInv'
    BY <1>5 DEF OpenConnector
<1>6. ASSUME NEW i \in Instances, StartReturns(i) PROVE ClaimInv'
    BY <1>6 DEF StartReturns, Goto
<1>7. ASSUME NEW i \in Instances, StartThrows(i) PROVE ClaimInv'
    BY <1>7 DEF StartThrows, Goto
<1>8. ASSUME NEW i \in Instances, JoinReturns(i) PROVE ClaimInv'
    BY <1>8 DEF JoinReturns, Goto
<1>9. ASSUME NEW i \in Instances, RemovePlugin(i) PROVE ClaimInv'
    BY <1>9 DEF RemovePlugin
<1>10. ASSUME NEW k \in Kills, NEW i \in Instances, KillRequest(k, i) PROVE ClaimInv'
    <2>1. \A j \in Instances : Claimed(j) => Claimed(j)'
        BY <1>10, NobodyAssumption DEF KillRequest, Actors
    <2>. QED BY <1>10, <2>1, ActorAssumption DEF KillRequest, Actors
<1>11. ASSUME NEW r \in Reloads, NEW i \in Instances, PostReload(r, i) PROVE ClaimInv'
    <2>1. \A j \in Instances : Claimed(j) => Claimed(j)'
        BY <1>11, NobodyAssumption DEF PostReload, Actors
    <2>. QED BY <1>11, <2>1 DEF PostReload, Actors
<1>12. ASSUME NEW r \in Reloads, LookupSpecification(r) PROVE ClaimInv'
    BY <1>12 DEF LookupSpecification, Actors
<1>13. ASSUME NEW r \in Reloads, NEW i \in Instances, LoadReplacement(r, i) PROVE ClaimInv'
    <2>1. \A j \in Instances : Claimed(j) => Claimed(j)'
        BY <1>13 DEF LoadReplacement
    <2>2. UNCHANGED <<server, interrupted, target, found>> /\ r \in found
        BY <1>13 DEF LoadReplacement
    <2>3. ASSUME NEW j \in Instances
          PROVE  /\ thread'[j] \in {"returned", "gone"} => thread[j] = thread'[j]
                 /\ thread'[j] \notin {"unborn", "gone"} => j \in listed'
        BY <1>13 DEF LoadReplacement, StartPlugin
    <2>4. \A q \in Reloads : q # r => pc'[q] = pc[q]
        BY <1>13 DEF LoadReplacement
    <2>5. pc'[r] = "find"
        BY <1>13 DEF LoadReplacement, Actors
    <2>6. \A j \in Instances :
             /\ j \in interrupted' \/ server'[j] = "stopped" => Claimed(j)'
             /\ thread'[j] \in {"returned", "gone"} /\ server'[j] = "started" =>
                   j \in interrupted'
        BY <2>1, <2>2, <2>3
    <2>7. \A q \in Reloads :
             /\ pc'[q] \in {"stop", "join", "load", "dead"} /\ q \notin found' =>
                   Claimed(target[q])'
             /\ pc'[q] \in {"find", "killStop", "killJoin", "interrupt"} =>
                   q \in found'
        BY <2>2, <2>4, <2>5
    <2>. QED BY <2>3, <2>6, <2>7, <2>2
<1>14. ASSUME NEW r \in Reloads, LoadFails(r) PROVE ClaimInv'
    BY <1>14 DEF LoadFails, Actors
<1>15. ASSUME NEW r \in Reloads, NullSpecification(r) PROVE ClaimInv'
    BY <1>15 DEF NullSpecification, Actors
<1>16. ASSUME NEW r \in Reloads, FindOldPlugin(r) PROVE ClaimInv'
    BY <1>16 DEF FindOldPlugin, Actors
<1>17. ASSUME NEW a \in Actors, TerminateNothing(a) PROVE ClaimInv'
    BY <1>17 DEF TerminateNothing, Stopping, AfterStop, AfterJoin
<1>18. ASSUME NEW a \in Actors, ServerStop(a) PROVE ClaimInv'
    <2>1. \A j \in Instances : Claimed(j) => Claimed(j)'
        BY <1>18 DEF ServerStop
    <2>2. Claimed(target[a])'
        <3>1. CASE a \in Kills \cup found
            BY <1>18, <3>1 DEF ServerStop
        <3>2. CASE a \in Reloads \ found
            BY <1>18, <2>1, <3>2 DEF ServerStop, Stopping
        <3>. QED BY <3>1, <3>2 DEF Actors
    <2>. QED BY <1>18, <2>1, <2>2 DEF ServerStop, Stopping, AfterStop
<1>19. ASSUME NEW a \in Actors, StopIdle(a) PROVE ClaimInv'
    BY <1>19 DEF StopIdle, Stopping, AfterStop
<1>20. ASSUME NEW a \in Actors, ServerJoin(a) PROVE ClaimInv'
    BY <1>20 DEF ServerJoin, Joining, AfterJoin
<1>21. ASSUME NEW a \in Actors, Interrupt(a) PROVE ClaimInv'
    <2>1. \A j \in Instances : Claimed(j) => Claimed(j)'
        BY <1>21 DEF Interrupt
    <2>2. Claimed(target[a])'
        BY <1>21 DEF Interrupt, Actors
    <2>. QED BY <1>21, <2>1, <2>2 DEF Interrupt
<1>22. CASE UNCHANGED vars
    BY <1>22 DEF vars
<1>. QED BY <1>1, <1>2, <1>3, <1>4, <1>5, <1>6, <1>7, <1>8, <1>9, <1>10,
        <1>11, <1>12, <1>13, <1>14, <1>15, <1>16, <1>17, <1>18, <1>19, <1>20,
        <1>21, <1>22 DEF Next, PluginThread, ReloadThread, Terminator

-----------------------------------------------------------------------------
(* The theorems.                                                           *)

IInv ==
    TypeOK /\ TargetInv /\ ThreadInv /\ OwnerInv /\ ReloadInv /\ OrphanInv /\ ClaimInv

\* The initial states satisfy the inductive invariant.
LEMMA InitInvariant == Init => IInv
<1> SUFFICES ASSUME Init PROVE IInv
    OBVIOUS
<1> USE DEF Init
<1>1. TypeOK
    <2>1. Len(BindTo) \in Nat /\ MaxLoads \in Nat
        BY BindToAssumption, LoadAssumption
    <2>. QED BY <2>1 DEF TypeOK
<1>2. TargetInv /\ ThreadInv /\ ReloadInv
    BY DEF TargetInv, ThreadInv, ReloadInv, Actors
<1>3. OwnerInv
    BY NobodyAssumption DEF OwnerInv
<1>4. OrphanInv /\ ClaimInv
    BY DEF OrphanInv, OrphanOnlyIfEarly, Serving, ClaimInv, Claimed, Actors
<1>. QED BY <1>1, <1>2, <1>3, <1>4 DEF IInv

\* Every state of every behaviour satisfies the inductive invariant.
LEMMA Invariance == Spec => []IInv
<1>1. Init => IInv
    BY InitInvariant
<1>2. IInv /\ [Next]_vars => IInv'
    BY TypeInductive, TargetInductive, ThreadInductive, OwnerInductive,
       ReloadInductive, OrphanInductive, ClaimInductive DEF IInv
<1>. QED BY <1>1, <1>2, PTL DEF Spec

\* Every variable keeps its type.
THEOREM TypeCorrect == Spec => []TypeOK
<1>1. IInv => TypeOK
    BY DEF IInv
<1>. QED BY <1>1, Invariance, PTL

\* Two servers never serve at once: each would own the first address of BindTo.
THEOREM ServingExclusive == Spec => []AtMostOneServing
<1>1. IInv => AtMostOneServing
    <2> SUFFICES ASSUME IInv, NEW i \in Instances, NEW j \in Instances,
                        Serving(i), Serving(j)
                 PROVE  i = j
        BY DEF AtMostOneServing
    <2>1. Len(BindTo) \in Nat /\ Len(BindTo) >= 1
        BY BindToAssumption
    <2>2. ASSUME NEW x \in Instances, Serving(x) PROVE owner[BindTo[1]] = x
        BY <2>1, <2>2 DEF IInv, ThreadInv, OwnerInv, Serving
    <2>. QED BY <2>2
<1>. QED BY <1>1, Invariance, PTL

\* A reload loads the replacement after the old instance gave up its addresses.
THEOREM ReplacementAfterRelease == Spec => []OldPortsFreed
<1>1. IInv => OldPortsFreed
    <2> SUFFICES ASSUME IInv, NEW r \in Reloads, pc[r] = "load", NEW h \in Hosts
                 PROVE  owner[h] # target[r]
        BY DEF OldPortsFreed
    <2>1. target[r] \in Instances
        BY DEF IInv, TargetInv, Actors
    <2>2. server[target[r]] = "stopped"
        BY DEF IInv, ReloadInv
    <2>. QED BY <2>1, <2>2 DEF IInv, OwnerInv
<1>. QED BY <1>1, Invariance, PTL

\* Only a termination before the start leaves a server without its thread.
THEOREM OrphansAreEarly == Spec => []OrphanOnlyIfEarly
<1>1. IInv => OrphanOnlyIfEarly
    BY DEF IInv, OrphanInv
<1>. QED BY <1>1, Invariance, PTL

\* A reload gives up only if another thread has the reload, or unload, in hand.
THEOREM ReloadsAreClaimed == Spec => []NoReloadLost
<1>1. IInv => NoReloadLost
    <2> SUFFICES ASSUME IInv, NEW r \in Reloads, pc[r] = "dead", r \notin found
                 PROVE  Claimed(target[r])
        BY DEF NoReloadLost, Claimed
    <2>. QED BY DEF IInv, ClaimInv
<1>. QED BY <1>1, Invariance, PTL

-----------------------------------------------------------------------------
(* The life cycle implements the abstract service.                         *)

\* How the refinement mapping reads the servers.
Phases ==
    [i \in Instances |->
        IF server[i] = "started" THEN "up"
        ELSE IF server[i] \in {"failed", "stopped"} THEN "over"
        ELSE "waiting"]

\* The end of a successful start() is ComeUp: the other servers cannot be up,
\* for this one owns the first address of BindTo.
LEMMA StartRefines ==
    ASSUME IInv, NEW i \in Instances, StartReturns(i)
    PROVE  WS!ComeUp(i)
<1>1. Len(BindTo) \in Nat /\ Len(BindTo) >= 1
    BY BindToAssumption
<1>2. server[i] = "starting" /\ i \notin bindFailed /\ opened[i] = Len(BindTo)
    BY DEF IInv, ThreadInv, StartReturns, Goto
<1>3. owner[BindTo[1]] = i
    BY <1>1, <1>2 DEF IInv, OwnerInv
<1>4. ASSUME NEW j \in Instances, server[j] = "started" PROVE FALSE
    <2>1. owner[BindTo[1]] = j
        BY <1>1, <1>4 DEF IInv, ThreadInv, OwnerInv
    <2>. QED BY <1>2, <1>3, <1>4, <2>1
<1>5. Phases[i] = "waiting" /\ \A j \in Instances : Phases[j] # "up"
    BY <1>2, <1>4 DEF Phases
<1>6. Phases' = [Phases EXCEPT ![i] = "up"]
    BY DEF StartReturns, Phases, IInv, TypeOK
<1>. QED BY <1>5, <1>6 DEF WS!ComeUp, Phases

\* Every step of the life cycle is a step of the service or a stutter.
LEMMA StepRefines == IInv /\ [Next]_vars => [WS!Next]_Phases
<1> SUFFICES ASSUME IInv, [Next]_vars
             PROVE  [WS!Next]_Phases
    OBVIOUS
<1> USE DEF IInv, TypeOK
<1>1. CASE UNCHANGED server
    BY <1>1 DEF Phases
<1>2. ASSUME NEW i \in Instances, NewServer(i) \/ BeginStart(i)
      PROVE  UNCHANGED Phases
    <2>1. server[i] \in {"null", "new"} /\ server'[i] \in {"new", "starting"}
        BY <1>2 DEF ThreadInv, NewServer, BeginStart, Goto
    <2>2. \A j \in Instances : j # i => server'[j] = server[j]
        BY <1>2 DEF NewServer, BeginStart
    <2>. QED BY <2>1, <2>2 DEF Phases
<1>3. ASSUME NEW i \in Instances, StartReturns(i) PROVE WS!Next
    BY <1>3, StartRefines DEF WS!Next
<1>4. ASSUME NEW i \in Instances, StartThrows(i) PROVE WS!Next
    <2>1. server[i] = "starting"
        BY <1>4 DEF ThreadInv, StartThrows, Goto
    <2>2. Phases' = [Phases EXCEPT ![i] = "over"] /\ Phases[i] = "waiting"
        BY <1>4, <2>1 DEF StartThrows, Phases
    <2>. QED BY <2>2 DEF WS!Next, WS!Finish, Phases
<1>5. ASSUME NEW a \in Actors, ServerStop(a) PROVE [WS!Next]_Phases
    <2>1. target[a] \in Instances
        BY <1>5 DEF TargetInv, ServerStop, Stopping
    <2>2. Phases' = [Phases EXCEPT ![target[a]] = "over"]
        BY <1>5 DEF ServerStop, Phases
    <2>3. CASE server[target[a]] = "started"
        <3>1. Phases[target[a]] = "up"
            BY <2>1, <2>3 DEF Phases
        <3>. QED BY <2>1, <2>2, <3>1 DEF WS!Next, WS!Finish, Phases
    <2>4. CASE server[target[a]] = "failed"
        <3>1. \A j \in Instances : Phases'[j] = Phases[j]
            BY <1>5, <2>1, <2>4 DEF ServerStop, Phases
        <3>2. Phases' = Phases
            BY <3>1 DEF Phases
        <3>. QED BY <3>2
    <2>. QED BY <1>5, <2>3, <2>4 DEF ServerStop
<1>6. CASE UNCHANGED vars
    BY <1>1, <1>6 DEF vars
<1>7. ASSUME NEW i \in Instances,
             \/ UserLoad(i) \/ RunPlugin(i) \/ OpenConnector(i) \/ JoinReturns(i)
             \/ RemovePlugin(i)
             \/ \E k \in Kills : KillRequest(k, i)
             \/ \E r \in Reloads : PostReload(r, i) \/ LoadReplacement(r, i)
      PROVE  UNCHANGED server
    BY <1>7 DEF UserLoad, RunPlugin, OpenConnector, JoinReturns, RemovePlugin,
        KillRequest, PostReload, LoadReplacement
<1>8. ASSUME NEW a \in Actors,
             \/ LookupSpecification(a) \/ NullSpecification(a) \/ LoadFails(a)
             \/ FindOldPlugin(a) \/ TerminateNothing(a) \/ StopIdle(a)
             \/ ServerJoin(a) \/ Interrupt(a)
      PROVE  UNCHANGED server
    BY <1>8 DEF LookupSpecification, NullSpecification, LoadFails, FindOldPlugin,
        TerminateNothing, StopIdle, ServerJoin, Interrupt
<1>. QED BY <1>1, <1>2, <1>3, <1>4, <1>5, <1>6, <1>7, <1>8
         DEF Next, PluginThread, ReloadThread, Terminator, Actors

\* The life cycle implements the service: at most one interface is up, and none
\* comes up twice.
THEOREM ServiceImplemented == Spec => ImplementsWebService
<1>1. Init => WS!Init
    BY DEF Init, WS!Init
<1>2. IInv /\ [Next]_vars => [WS!Next]_Phases
    BY StepRefines
<1>. QED BY <1>1, <1>2, Invariance, PTL DEF Spec, ImplementsWebService, WS!Spec, Phases
=============================================================================
