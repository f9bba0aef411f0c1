--------------------------- MODULE StreamProducer ---------------------------
(***************************************************************************)
(* A producer that reads the lines of a subprocess: system_log (journalctl, *)
(* log stream) and the macOS helper of desktop_events. _stream_loop spawns  *)
(* the child, publishes its lines and spawns it again when it dies; stop()  *)
(* terminates the child it holds and cancels the loop. A dead child's       *)
(* buffered lines can still be read, and signalling a child whose exit      *)
(* asyncio has been told of raises ProcessLookupError.                      *)
(***************************************************************************)
EXTENDS BaseProducer

CONSTANTS
    MaxExits,       \* bound: children that die on their own
    MaxLines        \* bound: lines printed

StreamNames == {"system_log", "desktop_events"}

\* The one whose loop ends when its binary is missing.
HelperNames == {"desktop_events"}

\* At most one for every instance, every death and every error.
Children == 1 .. MaxStarts + MaxExits + MaxErrors

StreamAssumption ==
    {MaxExits, MaxLines} \subseteq Nat

VARIABLES
    held,           \* each instance: self._proc
    reading,        \* each instance: the child whose stdout it iterates
    owner, child, lines,    \* each child: instance, process, unread lines
    late, unsafe,   \* history: publishes after stop(), why a child may survive
    exits, printed  \* environment

process == <<held, reading, owner, child, lines>>
stream  == <<process, late, unsafe, exits, printed>>

StreamInit ==
    /\ held = [i \in Instances |-> None]
    /\ reading = [i \in Instances |-> None]
    /\ owner = [c \in Children |-> None]
    /\ child = [c \in Children |-> "none"]
    /\ lines = [c \in Children |-> 0]
    /\ late = [i \in Instances |-> 0]
    /\ unsafe = [i \in Instances |-> FALSE]
    /\ exits = 0 /\ printed = 0

\* "up", "asked" to terminate, "dead", and "reaped": asyncio has learnt of the
\* exit and closed the transport.
Lives(c) == child[c] \in {"up", "asked"}

NextChild == CHOOSE c \in Children : /\ child[c] = "none"
                                     /\ \A d \in 1 .. c - 1 : child[d] # "none"

Spawn(i) ==
    /\ Resumes(i, "spawn")
    /\ \E c \in Children : child[c] = "none"
    /\ held' = [held EXCEPT ![i] = NextChild]
    /\ reading' = [reading EXCEPT ![i] = NextChild]
    /\ owner' = [owner EXCEPT ![NextChild] = i]
    /\ child' = [child EXCEPT ![NextChild] = "up"]
    /\ Go(i, "read")
    /\ UNCHANGED <<name, running, cancelled, errors, lines, late, unsafe,
                   exits, printed>>

\* FileNotFoundError ends the helper's loop, with _running still set.
SpawnRaises(i) ==
    /\ Resumes(i, "spawn")
    /\ \/ Fails(i)
       \/ /\ name[i] \in HelperNames /\ errors < MaxErrors
          /\ errors' = errors + 1
          /\ Go(i, "done")
    /\ UNCHANGED <<name, running, cancelled, stream>>

\* The next line: dropped by the parser or the priority gate, or published.
TakeLine(i) ==
    /\ Resumes(i, "read") /\ lines[reading[i]] > 0
    /\ lines' = [lines EXCEPT ![reading[i]] = @ - 1]
    /\ IF running[i] THEN Go(i, "read") \/ Go(i, "publish") ELSE Go(i, "done")
    /\ UNCHANGED <<name, running, cancelled, errors, held, reading, owner, child,
                   late, unsafe, exits, printed>>

Published(i) ==
    /\ Resumes(i, "publish")
    /\ late' = [late EXCEPT ![i] = IF running[i] THEN @ ELSE @ + 1]
    /\ Go(i, "read")
    /\ UNCHANGED <<name, running, cancelled, errors, process, unsafe, exits,
                   printed>>

\* A line that cannot be normalised, or a publish() that raises: the loop
\* leaves the child it reads, alive or not, with what that has printed, and will
\* spawn another.
LineRaises(i) ==
    /\ Resumes(i, "publish")
    /\ Fails(i)
    /\ unsafe' = [unsafe EXCEPT ![i] = @ \/ Lives(reading[i])]
    /\ lines' = [lines EXCEPT ![reading[i]] = 0]
    /\ UNCHANGED <<name, running, cancelled, held, reading, owner, child, late, exits,
                   printed>>

\* Mutant: the loop ends with its child.
Eof_Ends(i) ==
    /\ Resumes(i, "read") /\ ~Lives(reading[i]) /\ lines[reading[i]] = 0
    /\ Go(i, "done")
    /\ UNCHANGED <<name, running, cancelled, errors, stream>>

Eof(i) ==
    /\ Resumes(i, "read") /\ ~Lives(reading[i]) /\ lines[reading[i]] = 0
    /\ Go(i, IF running[i] THEN "sleep" ELSE "done")
    /\ UNCHANGED <<name, running, cancelled, errors, stream>>

StreamLoop(i) ==
    /\ name[i] \in StreamNames
    /\ \/ Spawn(i) \/ SpawnRaises(i) \/ TakeLine(i) \/ Published(i)
       \/ LineRaises(i) \/ Eof(i)
       \/ (Wake(i, "spawn") \/ Unwind(i)) /\ UNCHANGED stream

-----------------------------------------------------------------------------
(* The subprocesses. *)

\* What a child prints that no loop iterates any more is left out.
Emit(c) ==
    /\ Lives(c) /\ task[owner[c]] \in {"read", "publish"}
    /\ reading[owner[c]] = c /\ printed < MaxLines
    /\ lines' = [lines EXCEPT ![c] = @ + 1] /\ printed' = printed + 1
    /\ UNCHANGED <<base, held, reading, owner, child, late, unsafe, exits>>

\* A child dies on its own, or of the SIGTERM it got.
Exit(c) ==
    /\ \/ child[c] = "up" /\ exits < MaxExits /\ exits' = exits + 1
       \/ child[c] = "asked" /\ UNCHANGED exits
    /\ child' = [child EXCEPT ![c] = "dead"]
    /\ UNCHANGED <<base, held, reading, owner, lines, late, unsafe, printed>>

\* asyncio closes the transport; the lines it has read stay readable. Only a
\* stop() that signals the child can tell, so one no producer holds is left out.
Reap(c) ==
    /\ child[c] = "dead" /\ held[owner[c]] = c
    /\ child' = [child EXCEPT ![c] = "reaped"]
    /\ UNCHANGED <<base, held, reading, owner, lines, late, unsafe, exits,
                   printed>>

-----------------------------------------------------------------------------
(* stop(), in the steps between its awaits. *)

Stopping(i) ==
    /\ running' = [running EXCEPT ![i] = FALSE]
    /\ unsafe' = [unsafe EXCEPT ![i] = @ \/ (held[i] # None /\ task[i] = "spawn")]

\* terminate() reaches the child it holds.
Terminate(i) ==
    /\ held[i] # None /\ child[held[i]] # "reaped"
    /\ Stopping(i)
    /\ child' = [child EXCEPT ![held[i]] = IF @ = "up" THEN "asked" ELSE @]
    /\ UNCHANGED <<name, task, cancelled, errors, held, reading, owner, lines,
                   late, exits, printed>>

\* terminate() raises, and so does the kill() that handles it.
StopRaises(i) ==
    /\ held[i] # None /\ child[held[i]] = "reaped"
    /\ Stopping(i)
    /\ UNCHANGED <<name, task, cancelled, errors, process, late, exits, printed>>

\* No child yet: only the loop is cancelled.
StopUnspawned(i) ==
    /\ held[i] = None
    /\ Stopping(i)
    /\ cancelled' = [cancelled EXCEPT ![i] = TRUE]
    /\ UNCHANGED <<name, task, errors, process, late, exits, printed>>

\* The child asked to terminate has gone.
Waited(i, c) ==
    /\ ~Lives(c)
    /\ held' = [held EXCEPT ![i] = None]
    /\ cancelled' = [cancelled EXCEPT ![i] = TRUE]
    /\ UNCHANGED <<name, running, task, errors, reading, owner, child, lines,
                   late, unsafe, exits, printed>>

\* Mutant: the timeout is swallowed without a kill().
Kill_Forgotten(i, c) ==
    /\ Lives(c) /\ child[held[i]] # "reaped"
    /\ held' = [held EXCEPT ![i] = None]
    /\ cancelled' = [cancelled EXCEPT ![i] = TRUE]
    /\ UNCHANGED <<name, running, task, errors, reading, owner, child, lines,
                   late, unsafe, exits, printed>>

\* It has not within three seconds: kill() the child now held.
Kill(i, c) ==
    /\ Lives(c) /\ child[held[i]] # "reaped"
    /\ child' = [child EXCEPT ![held[i]] = "dead"]
    /\ held' = [held EXCEPT ![i] = None]
    /\ cancelled' = [cancelled EXCEPT ![i] = TRUE]
    /\ UNCHANGED <<name, running, task, errors, reading, owner, lines, late,
                   unsafe, exits, printed>>

KillRaises(i, c) ==
    /\ Lives(c) /\ child[held[i]] = "reaped"
    /\ UNCHANGED <<base, stream>>
=============================================================================
