---------------------------- MODULE Installation ----------------------------
(***************************************************************************)
(* Where the daemon and the command line look for their files, and what      *)
(* "aibus install", "uninstall" and "restart" do to the configuration, the   *)
(* helper, the unit file and the service manager. The configuration and the  *)
(* database of a directory go by its name. One aibus command runs at a time; *)
(* it can be interrupted between any two of its steps.                       *)
(***************************************************************************)
EXTENDS Naturals, FiniteSets

CONSTANTS
    None, Missing,
    Setups          \* machines, and what happens on them: [os, manager, shell, yaml,
                    \*  schema, knowledge, agents, seed_defaults, commands, dev,
                    \*  foreground, shutdown, broadcasts, and the bounds
                    \*  MaxCommands, MaxEdits, MaxCrashes, MaxSockets, MaxClosed]

Directories == {"home", "xdg", "cwd"}
Databases   == Directories \cup {"custom"}

\* What a config.yaml can be: not there; no YAML, no mapping, or with a section
\* that its dataclass does not take; one that open() refuses; a document without
\* a database.path, or with one.
Yamls == {Missing, "broken", "unreadable", None} \cup Databases

\* The variables of an environment: AIVENTBUS_CONFIG, AIVENTBUS_DB, the XDG
\* directories, AIVENTBUS_DEV.
Environments == [config : Directories \cup {None}, db : Databases \cup {None},
                 xdg : Directories, dev : BOOLEAN]

\* The commands, and their steps.
Names == {"install", "uninstall", "purge", "restart"}
Steps == {"none", "config", "helper", "unit", "enable", "unload", "load", "disable",
          "unlink", "purge", "restart"}

ASSUME InstallationAssumption ==
    /\ None \notin Databases \cup {Missing, "broken", "unreadable"}
    /\ Missing \notin Databases \cup {"broken", "unreadable"}
    /\ None \notin [config : Directories, db : Directories, python : Nat]
    /\ \A s \in Setups : /\ s.shell \in Environments /\ s.yaml \in [Directories -> Yamls]
                          /\ s.commands \subseteq Names /\ s.dev \subseteq BOOLEAN

VARIABLES
    setup,
    yaml,           \* config.yaml of each directory: Missing, or its database.path
    helper,         \* the macOS helper in helper_install_dir
    python,         \* environment: the interpreter that is there (or the bundle)
    unit,           \* the unit file, or the plist
    loaded,         \* the unit as the service manager knows it
    command,        \* the aibus command that runs, and its step
    commands, edits

files        == <<yaml, helper, python, unit, loaded>>
installation == <<setup, files, command, commands, edits>>

NoCommand == [name |-> "none", step |-> "none"]

InstallationInit ==
    /\ setup \in Setups
    /\ yaml = setup.yaml
    /\ helper = "none" /\ python = 1
    /\ unit = None /\ loaded = None
    /\ command = NoCommand
    /\ commands = 0 /\ edits = 0

-----------------------------------------------------------------------------
(* The resolvers. *)

\* The environment of the user's shell, with what the user exports, and the one
\* a service manager makes: only the pinned variables are set in it.
Shell == setup.shell
Serviced(u) == [config |-> u.config, db |-> u.db, xdg |-> "home", dev |-> FALSE]

\* config_dir and data_dir. macOS knows no XDG.
DefaultDir(env) == IF setup.os = "darwin" THEN "home" ELSE env.xdg

ResolveConfig(env) ==
    CASE env.config # None -> env.config
      [] env.config = None /\ env.dev /\ yaml["cwd"] # Missing -> "cwd"
      [] OTHER -> IF yaml[DefaultDir(env)] # Missing THEN DefaultDir(env) ELSE None

\* load_config raises on an explicit path that cannot be opened, and on every
\* document that it does not accept.
ConfigRaises(env) ==
    LET path == ResolveConfig(env)
    IN  path # None /\ \/ yaml[path] = "broken"
                       \/ env.config # None /\ yaml[path] \in {Missing, "unreadable"}

\* The database.path: a file that cannot be opened counts as an empty one.
YamlDb(env) == LET path == ResolveConfig(env)
               IN  IF path # None /\ yaml[path] \in Databases THEN yaml[path] ELSE None

\* Of the databases, created are there.
ResolveDb(env, created) ==
    CASE env.db # None -> env.db
      [] env.db = None /\ YamlDb(env) # None -> YamlDb(env)
      [] OTHER -> IF env.dev /\ "cwd" \in created THEN "cwd" ELSE DefaultDir(env)

-----------------------------------------------------------------------------
(* The commands. What they do to the daemon's process is in module Daemon. *)

\* Mutant: the database is left to the daemon's own resolver.
RenderUnit_NoDb == [config |-> DefaultDir(Shell), db |-> None, python |-> python]
\* The unit: the paths as the installing shell sees them, and its interpreter.
RenderUnit == [config |-> DefaultDir(Shell), db |-> DefaultDir(Shell), python |-> python]

StepTo(step) == command' = [command EXCEPT !.step = step]

Running(name, step) == command.name = name /\ command.step = step

First(name) == CASE name = "install" -> "config"
                 [] name = "uninstall" -> "disable"
                 [] name = "purge" -> "disable"
                 [] name = "restart" -> "restart"

\* The commands are those of cli.py; install has options for the helper.
Begin ==
    /\ command = NoCommand /\ commands < setup.MaxCommands
    /\ \E name \in setup.commands : command' = [name |-> name, step |-> First(name)]
    /\ commands' = commands + 1
    /\ UNCHANGED <<setup, files, edits>>

\* The directories, and a minimal config.yaml unless there is one.
WriteConfig ==
    /\ Running("install", "config")
    /\ yaml' = [yaml EXCEPT ![DefaultDir(Shell)] = IF @ = Missing THEN None ELSE @]
    /\ StepTo(IF setup.os = "darwin" THEN "helper" ELSE "unit")
    /\ UNCHANGED <<setup, helper, python, unit, loaded, commands, edits>>

\* --build-helper: the sources, swift or the build may fail, and with them the
\* whole command. The old one is unlinked, the new one copied, or with --dev
\* linked. Without the option nothing is built.
BuildHelper ==
    /\ Running("install", "helper")
    /\ \/ helper' \in {"copy", "link"} /\ StepTo("unit")
       \/ UNCHANGED helper /\ command' = NoCommand
       \/ UNCHANGED helper /\ StepTo("unit")
    /\ UNCHANGED <<setup, yaml, python, unit, loaded, commands, edits>>

WriteUnit ==
    /\ Running("install", "unit")
    /\ unit' = RenderUnit
    /\ IF ~setup.manager THEN command' = NoCommand
       ELSE StepTo(IF setup.os = "darwin" THEN "unload" ELSE "enable")
    /\ UNCHANGED <<setup, yaml, helper, python, loaded, commands, edits>>

\* Linux: daemon-reload, enable --now, which may both fail and nobody looks.
Enable(done) ==
    /\ Running("install", "enable")
    /\ loaded' = IF done THEN unit ELSE loaded
    /\ command' = NoCommand
    /\ UNCHANGED <<setup, yaml, helper, python, unit, commands, edits>>

\* macOS: launchctl unload, then load.
Unload ==
    /\ Running("install", "unload")
    /\ loaded' = None
    /\ StepTo("load")
    /\ UNCHANGED <<setup, yaml, helper, python, unit, commands, edits>>

Load ==
    /\ Running("install", "load")
    /\ loaded' = unit
    /\ command' = NoCommand
    /\ UNCHANGED <<setup, yaml, helper, python, unit, commands, edits>>

\* systemctl disable --now; launchctl unload, when there is a plist. Without a
\* unit neither does anything.
Disable(done) ==
    /\ command.name \in {"uninstall", "purge"} /\ command.step = "disable"
    /\ done <=> unit # None /\ setup.manager
    /\ loaded' = IF done THEN None ELSE loaded
    /\ StepTo("unlink")
    /\ UNCHANGED <<setup, yaml, helper, python, unit, commands, edits>>

Unlink ==
    /\ command.name \in {"uninstall", "purge"} /\ command.step = "unlink"
    /\ unit' = None
    /\ helper' = "none"
    /\ IF command.name = "purge" THEN StepTo("purge") ELSE command' = NoCommand
    /\ UNCHANGED <<setup, yaml, python, loaded, commands, edits>>

\* _purge_dirs: the configuration, and (in Daemon) the database beside it.
Purge ==
    /\ Running("purge", "purge")
    /\ yaml' = [yaml EXCEPT ![DefaultDir(Shell)] = Missing]
    /\ command' = NoCommand
    /\ UNCHANGED <<setup, helper, python, unit, loaded, commands, edits>>

\* systemctl restart; kickstart, with a bootstrap when the agent is not loaded.
\* Without a unit, or a manager, it raises.
Restart(done) ==
    /\ Running("restart", "restart")
    /\ done <=> unit # None /\ setup.manager
    /\ loaded' = IF done /\ loaded = None THEN unit ELSE loaded
    /\ command' = NoCommand
    /\ UNCHANGED <<setup, yaml, helper, python, unit, commands, edits>>

\* Ctrl-C.
Interrupt ==
    /\ command # NoCommand
    /\ command' = NoCommand
    /\ UNCHANGED <<setup, files, commands, edits>>

-----------------------------------------------------------------------------
(* The user: a config.yaml is edited, spoilt or deleted, the interpreter moves. *)

EditFiles ==
    /\ edits < setup.MaxEdits /\ edits' = edits + 1
    /\ \/ /\ \E d \in Directories, to \in Yamls \ Directories :
                yaml[d] # to /\ yaml[d] # Missing /\ yaml' = [yaml EXCEPT ![d] = to]
          /\ UNCHANGED python
       \/ UNCHANGED yaml /\ python' = python + 1
    /\ UNCHANGED <<setup, helper, unit, loaded, command, commands>>
=============================================================================
