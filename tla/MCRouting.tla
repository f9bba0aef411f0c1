------------------------------ MODULE MCRouting ------------------------------
(* The instance of Routing that TLC checks. *)
EXTENDS RoutingProperties

CONSTANTS a1, a2, a3, user, logs, bus, fact

\* A user's query, a log line, a query that is not urgent, a system event.
EventShapes == {[topic |-> user, kind |-> fact, level |-> 2],
                [topic |-> logs, kind |-> None, level |-> 0],
                [topic |-> user, kind |-> None, level |-> 1],
                [topic |-> bus,  kind |-> None, level |-> 3]}

\* Agent a1 twice, and one agent more than the fan-out limit for the first
\* shape; no rule for the second.
Table == << [agent |-> a1, topics |-> {user}, kinds |-> None, level |-> 1],
            [agent |-> a1, topics |-> {user}, kinds |-> None, level |-> None],
            [agent |-> a2, topics |-> None, kinds |-> {fact}, level |-> None],
            [agent |-> a3, topics |-> {user}, kinds |-> None, level |-> 2] >>
=============================================================================
