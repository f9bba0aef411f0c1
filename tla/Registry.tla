------------------------------ MODULE Registry ------------------------------
(***************************************************************************)
(* The registry of producers and the capability layer that gates them: what *)
(* each producer needs, what a machine offers, and which backend a producer *)
(* gets there. A machine is its OS, the programs and services found on it,  *)
(* and the settings without which a factory builds nothing.                 *)
(***************************************************************************)
EXTENDS FiniteSets

\* _cap_*: what the machine h can do. The portable ones are always there.
Portable == {"file_watch", "terminal_history", "shell_hook", "webhook", "cron"}

ClipboardTools(h) ==
    h.has \cap (CASE h.os = "darwin" -> {"pbpaste"}
                  [] h.os = "linux"  -> {"xclip", "wl-paste"}
                  [] OTHER           -> {})

LogTools(h) ==
    h.has \cap (CASE h.os = "darwin" -> {"log"}
                  [] h.os = "linux"  -> {"journalctl"}
                  [] OTHER           -> {})

DesktopSources(h) ==
    h.has \cap (CASE h.os = "darwin" -> {"mac_helper"}
                  [] h.os = "linux"  -> {"session_bus"}
                  [] OTHER           -> {})

Capabilities(h) ==
    Portable
        \cup {c \in {"clipboard"} : ClipboardTools(h) # {}}
        \cup {c \in {"system_log"} : LogTools(h) # {}}
        \cup {c \in {"session_state"} : DesktopSources(h) # {}}
        \cup {c \in {"app_lifecycle"} : "mac_helper" \in DesktopSources(h)}
        \cup {c \in {"notifications_received"} : "session_bus" \in DesktopSources(h)}

\* A producer with one capability, which it requires.
Needs(c) == [capabilities |-> {c}, required |-> {c},
             platforms |-> {"linux", "darwin", "windows"}]

REGISTRY ==
    [ clipboard        |-> Needs("clipboard"),
      file_watcher     |-> Needs("file_watch"),
      terminal_monitor |-> Needs("terminal_history"),
      webhook          |-> Needs("webhook"),
      cron             |-> Needs("cron"),
      system_log       |-> [Needs("system_log") EXCEPT !.platforms = {"linux", "darwin"}],
      desktop_events   |->
          [capabilities |-> {"session_state", "app_lifecycle", "notifications_received"},
           required |-> {}, platforms |-> {"linux", "darwin"}] ]

Names == DOMAIN REGISTRY

\* _runnable_reason is None.
Runnable(n, h) ==
    LET spec == REGISTRY[n]
    IN  /\ h.os \in spec.platforms
        /\ spec.required \subseteq Capabilities(h)
        /\ spec.required = {} => spec.capabilities \cap Capabilities(h) # {}

\* The factory returns a producer: the file watcher's needs its paths.
Buildable(n, h) == n = "file_watcher" => "watch_paths" \in h.has

\* desktop_events is D-Bus on Linux and the helper, a subprocess, on macOS.
DBus(n, h) == n = "desktop_events" /\ h.os = "linux"
Streams(n, h) == n = "system_log" \/ (n = "desktop_events" /\ h.os = "darwin")
=============================================================================
