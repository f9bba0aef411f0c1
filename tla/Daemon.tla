------------------------------- MODULE Daemon -------------------------------
(***************************************************************************)
(* The daemon as its machine sees it: the aibus commands, the service        *)
(* manager that starts the service and brings it back, a daemon in the       *)
(* foreground beside it, and the dashboards' sockets while one of them       *)
(* serves.                                                                   *)
(***************************************************************************)
EXTENDS Startup, WebSocketHub

vars == <<installation, startup, hub>>

Init == InstallationInit /\ StartupInit /\ HubInit

\* Nothing of the other two changes.
OnlyInstall == UNCHANGED <<startup, hub>>

-----------------------------------------------------------------------------
(* The service manager (external). *)

\* The process stops in order, when there is one.
StopService ==
    /\ Goes("service", "off")
    /\ cut' = cut \cup (IF Seeding("service") THEN {db["service"]} ELSE {})
    /\ UNCHANGED <<db, env, columns, contents, together, crashes>>
    /\ IF at["service"] = "serving" THEN HubGone ELSE UNCHANGED hub

Launchable(u) == u.python = python

\* A process of the unit is started.
StartService(u) ==
    /\ LoadConfig("service", Serviced(u), Launchable(u))
    /\ UNCHANGED hub

\* A running one is replaced by a new one.
RenewService(u) ==
    /\ env' = [env EXCEPT !["service"] = Serviced(u)]
    /\ cut' = cut \cup (IF Seeding("service") THEN {db["service"]} ELSE {})
    /\ IF ConfigRaises(Serviced(u)) \/ ~Launchable(u)
         THEN Goes("service", "dead") /\ UNCHANGED db
         ELSE /\ Goes("service", "connect")
              /\ db' = [db EXCEPT !["service"] =
                           ResolveDb(Serviced(u), {d \in Databases : schema[d] # {}})]
    /\ UNCHANGED <<columns, contents, together, crashes>>
    /\ IF at["service"] = "serving" THEN HubGone ELSE UNCHANGED hub

\* Mutant: the unit has no Restart line.
Supervise_Not ==
    /\ at["service"] = "dead" /\ loaded # None /\ setup.os = "darwin"
    /\ StartService(loaded)
    /\ UNCHANGED installation
\* Restart=on-failure, KeepAlive: one that died is started again.
Supervise ==
    /\ at["service"] = "dead" /\ loaded # None
    /\ StartService(loaded)
    /\ UNCHANGED installation

-----------------------------------------------------------------------------
(* The aibus commands with what they do to the service. *)

Command ==
    \/ (Begin \/ WriteConfig \/ BuildHelper \/ WriteUnit \/ Unlink \/ Interrupt)
       /\ OnlyInstall
    \/ \E done \in BOOLEAN :
          /\ Enable(done)
          /\ IF done /\ ~Up("service") THEN StartService(unit) ELSE OnlyInstall
    \/ Unload /\ IF Up("service") THEN StopService ELSE OnlyInstall
    \/ Load /\ StartService(unit)
    \/ \E done \in BOOLEAN :
          /\ Disable(done)
          /\ IF done THEN StopService ELSE OnlyInstall
    \/ \E done \in BOOLEAN :
          /\ Restart(done)
          /\ IF done THEN RenewService(IF loaded = None THEN unit ELSE loaded) ELSE OnlyInstall

\* --purge deletes the database beside the configuration; here nobody uses it.
PurgeAll ==
    /\ Purge
    /\ LET d == DefaultDir(Shell)
       IN  /\ \A p \in Procs : Up(p) => db[p] # d
           /\ schema' = [schema EXCEPT ![d] = {}]
           /\ knowledge' = [knowledge EXCEPT ![d] = {}]
           /\ agents' = [agents EXCEPT ![d] = {}]
           /\ rules' = [rules EXCEPT ![d] = {}]
           /\ cut' = cut \ {d} /\ together' = together \ {d}
    /\ UNCHANGED <<process, crashes, hub>>

-----------------------------------------------------------------------------
(* The processes. *)

\* The user starts one in the foreground, with --dev or without.
Foreground ==
    /\ setup.foreground /\ at["foreground"] = "off"
    /\ \E dev \in setup.dev :
          LoadConfig("foreground", [Shell EXCEPT !.dev = Shell.dev \/ dev], TRUE)
    /\ UNCHANGED <<installation, hub>>

\* Ctrl-C, or SIGTERM: shutdown in order, which neither manager counts as failed
\* but launchd.
Shutdown(p) ==
    /\ at[p] = "serving" /\ setup.shutdown
    /\ at' = [at EXCEPT ![p] = IF p = "service" /\ setup.os = "darwin" THEN "dead" ELSE "off"]
    /\ HubGone
    /\ UNCHANGED <<installation, next, db, env, columns, contents, cut, together, crashes>>

Proceed(p) == Start(p) /\ UNCHANGED <<installation, hub>>

CrashOf(p) ==
    /\ Crash(p)
    /\ IF at[p] = "serving" THEN HubGone ELSE UNCHANGED hub
    /\ UNCHANGED installation

Serves == \E p \in Procs : at[p] = "serving"

\* The dashboards of a setup, as far as its bounds go.
Dashboards == Clients /\ _counter' <= setup.MaxSockets /\ Cardinality(closed') <= setup.MaxClosed

Hub == Serves /\ (Dashboards \/ \E b \in setup.broadcasts \cap Broadcasts : Broadcast(b))
       /\ UNCHANGED <<installation, startup>>

Send(b) == Sent(b) /\ UNCHANGED <<installation, startup>>

Rests ==
    /\ command = NoCommand
    /\ \A p \in Procs : at[p] \in {"off", "dead", "serving"}
    /\ UNCHANGED vars

Next ==
    \/ Command \/ PurgeAll \/ Supervise
    \/ EditFiles /\ OnlyInstall
    \/ Foreground
    \/ \E p \in Procs : Shutdown(p) \/ Proceed(p) \/ CrashOf(p)
    \/ Hub \/ \E b \in Broadcasts : Send(b)
    \/ Rests

Spec == Init /\ [][Next]_vars

\* A process that starts goes on, the service manager brings back what died, and
\* a send comes to an end. Nobody need type a command.
FairSpec ==
    /\ Spec
    /\ \A p \in Procs : WF_vars(Proceed(p))
    /\ WF_vars(Supervise)
    /\ \A b \in Broadcasts : WF_vars(Send(b))
=============================================================================
