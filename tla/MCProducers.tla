---------------------------- MODULE MCProducers ----------------------------
(* The instance of Producers that TLC checks. Each deployment is a machine  *)
(* and the producer used on it. The configuration lists a job that is no    *)
(* schedule between two of one name.                                        *)
EXTENDS ProducersProperties

Linux == [os |-> "linux", has |-> {"journalctl", "session_bus", "wl-paste", "watch_paths"}]
Mac   == [os |-> "darwin", has |-> {"log", "pbpaste", "mac_helper"}]

On(h, n) == [host |-> h, names |-> {n}]

MCDeployments ==
    {On(Linux, n) : n \in Names} \cup {On(Mac, "desktop_events"), On(Mac, "file_watcher")}

MCConfigJobs ==
    << [name |-> "digest", valid |-> TRUE, at |-> 1],
       [name |-> "digest", valid |-> TRUE, at |-> 2],
       [name |-> "digest", valid |-> FALSE, at |-> 3] >>
=============================================================================
