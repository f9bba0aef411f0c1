----------------------------- MODULE MCDaemon -----------------------------
(* The instance of Daemon that TLC checks. *)
EXTENDS DaemonProperties, TLC

SomeFacts  == <<"system.hostname", "system.distro", "system.log_tools">>
SomeAgents == <<"General Assistant", "Terminal Helper">>
SomeRules  == <<"user.*", "terminal.*">>

\* Nothing; a version without the tool loop's columns, memories and reactive
\* agents; one without the lane, too; and a database of this version.
Now     == Complete
Before  == {<<"table", t>> : t \in {"events", "agents", "event_assignments"}}
           \cup {<<"column", "trace_id">>, <<"column", "lane">>,
                 <<"index", "trace_id">>, <<"index", "lane">>}
Ancient == Before \ {<<"column", "lane">>, <<"index", "lane">>}

\* A table has room for two entries at first, for four when it is made for more than
\* one: as CPython's for five and ten.
SomeUsable == [n \in 0 .. 3 |-> IF n < 2 THEN 2 ELSE 4]

At(d, x) == [e \in Databases |-> IF e = d THEN x ELSE {}]
Every(x) == [d \in Databases |-> x]
Mine     == {<<"mine", "user">>}
NoFiles  == [d \in Directories |-> Missing]

\* A shell that exports nothing of the daemon's.
Plain(xdg) == [config |-> None, db |-> None, xdg |-> xdg, dev |-> FALSE]

Idle == [os |-> "linux", manager |-> TRUE, shell |-> Plain("home"), yaml |-> NoFiles,
         schema |-> Every(Now), knowledge |-> Every({SomeFacts[i] : i \in 1 .. 3}),
         agents |-> Every(Mine), seed_defaults |-> TRUE, commands |-> {}, dev |-> {FALSE},
         foreground |-> FALSE, shutdown |-> FALSE, broadcasts |-> {},
         MaxCommands |-> 0, MaxEdits |-> 0, MaxCrashes |-> 0, MaxSockets |-> 0, MaxClosed |-> 0]

\* Commands on four machines, with edits and a crash.
Machines ==
    {[Idle EXCEPT !.os = m[1], !.manager = m[2], !.shell = Plain(m[3]),
                  !.yaml = [NoFiles EXCEPT !["xdg"] = m[4], !["cwd"] = None],
                  !.commands = {"install", "uninstall", "purge", "restart"},
                  !.MaxCommands = 2, !.MaxEdits = 1, !.MaxCrashes = 1, !.shutdown = TRUE] :
        m \in {<<"linux", TRUE, "xdg", Missing>>, <<"linux", TRUE, "xdg", "custom">>,
               <<"linux", FALSE, "home", Missing>>, <<"darwin", TRUE, "xdg", Missing>>}}

\* Shells that export the daemon's variables, for other files and for the same.
Exports ==
    {[Idle EXCEPT !.os = os, !.shell = e, !.yaml = [NoFiles EXCEPT !["cwd"] = None],
                  !.commands = {"install"}, !.MaxCommands = 1, !.MaxEdits = 1,
                  !.foreground = TRUE] :
        os \in {"linux", "darwin"},
        e \in {[Plain("xdg") EXCEPT !.config = "cwd"], [Plain("xdg") EXCEPT !.dev = TRUE],
               [Plain("xdg") EXCEPT !.config = "xdg", !.db = "custom"],
               [Plain("xdg") EXCEPT !.config = "home", !.db = "home"]}}

\* The service and a daemon in the foreground start on an old or a new database.
Starts ==
    {[Idle EXCEPT !.schema = At("home", s), !.knowledge = Every({}),
                  !.agents = IF s = {} THEN Every({}) ELSE At("home", Mine),
                  !.seed_defaults = seeds,
                  !.commands = {"install"}, !.MaxCommands = 1, !.foreground = f,
                  !.MaxCrashes = 1] :
        s \in {{}, Before, Ancient}, f \in BOOLEAN, seeds \in BOOLEAN}

\* One daemon with dashboards: b sends at once, n sockets, c of which close. The
\* third socket makes the table move.
Sockets ==
    {[Idle EXCEPT !.foreground = TRUE, !.dev = {TRUE}, !.broadcasts = m[1],
                  !.MaxSockets = m[2], !.MaxClosed = m[3]] :
        m \in {<<Broadcasts, 2, 2>>, <<Broadcasts, 3, 1>>, <<{CHOOSE b \in Broadcasts : TRUE}, 3, 3>>}}

AllSetups == Machines \cup Exports \cup Starts \cup Sockets
=============================================================================
