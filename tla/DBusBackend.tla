---------------------------- MODULE DBusBackend ----------------------------
(***************************************************************************)
(* The D-Bus backend of desktop_events: one connection that monitors        *)
(* notifications and one for the session's signals, opened one after the    *)
(* other by a loop that then only sleeps. A message waits in its            *)
(* connection's socket until the event loop reads it; a task of its own     *)
(* publishes it. stop() neither waits for these tasks nor cancels them, and *)
(* disconnect() shuts the socket down: what is in it already is still read, *)
(* and the handlers do not look at _running. Left out: a message that is    *)
(* read ahead of its connection's handler, which is nobody's, and the       *)
(* connection of a connect() that stop() cancels, which is never assigned   *)
(* nor given a handler.                                                     *)
(***************************************************************************)
EXTENDS Happenings

Connections == {"monitor", "signal"}

VARIABLES
    open,       \* each instance: _dbus_conn, _signal_conn are connected
    handlers    \* each instance: the connections with a message handler

dbus == <<open, handlers>>

DBusInit ==
    /\ open = [i \in Instances |-> {}]
    /\ handlers = [i \in Instances |-> {}]

\* _listen_loop: "connect" -> "monitor" -> "session" -> "match" -> "listen".
Connect(i, at, c, next) ==
    /\ Resumes(i, at)
    /\ open' = [open EXCEPT ![i] = @ \cup {c}]
    /\ Go(i, next)
    /\ UNCHANGED <<name, running, cancelled, errors, handlers, happenings>>

\* Behind BecomeMonitor, whose failure is logged only, or behind AddMatch.
Handle(i, at, c, next) ==
    /\ Resumes(i, at)
    /\ handlers' = [handlers EXCEPT ![i] = @ \cup {c}]
    /\ Go(i, next)
    /\ UNCHANGED <<name, running, cancelled, errors, open, happenings>>

\* The loop ends with _running set; a connection that is open stays open.
ListenRaises(i) ==
    /\ \E at \in {"connect", "session", "match"} : Resumes(i, at)
    /\ Raises
    /\ Go(i, "done")
    /\ UNCHANGED <<name, running, cancelled, dbus, happenings>>

\* The session bus sends a message to a connection that is open.
Message(i) ==
    /\ open[i] \cap handlers[i] # {}
    /\ TakeIn(i, "noticed")
    /\ UNCHANGED <<base, dbus>>

\* The event loop reads it, behind disconnect() too, and the handler creates the
\* task that publishes it.
Handed(i) ==
    /\ \E o \in Noticed(i) : Becomes({o}, "taken")
    /\ UNCHANGED <<base, dbus>>

\* A connection that was shut down need not give up all that it had.
LostWithIt(i) ==
    /\ handlers[i] # {} /\ ~(handlers[i] \subseteq open[i])
    /\ \E o \in Noticed(i) : Becomes({o}, "dropped")
    /\ UNCHANGED <<base, dbus>>

MessagePublished(i) ==
    /\ \E o \in InHand(i) : Becomes({o}, "published")
    /\ UNCHANGED <<base, dbus>>

MessageRaises(i) ==
    /\ Raises
    /\ \E o \in InHand(i) : Becomes({o}, "dropped")
    /\ UNCHANGED <<name, running, task, cancelled, dbus>>

\* Mutant: the session's connection is forgotten.
Disconnect_Monitor(i) == open' = [open EXCEPT ![i] = @ \ {"monitor"}]
Disconnect(i) == open' = [open EXCEPT ![i] = {}]

DBusStop(i) ==
    /\ running' = [running EXCEPT ![i] = FALSE]
    /\ Disconnect(i)
    /\ cancelled' = [cancelled EXCEPT ![i] = TRUE]
    /\ UNCHANGED <<name, task, errors, handlers, happenings>>

DBusLoop(i) ==
    /\ name[i] = "desktop_events"
    /\ \/ Connect(i, "connect", "monitor", "monitor")
       \/ Handle(i, "monitor", "monitor", "session")
       \/ Connect(i, "session", "signal", "match")
       \/ Handle(i, "match", "signal", "listen")
       \/ ListenRaises(i)
       \/ Handed(i) \/ LostWithIt(i)
       \/ MessagePublished(i) \/ MessageRaises(i)
       \/ Unwind(i) /\ UNCHANGED <<dbus, happenings>>
=============================================================================
