---------------------------- MODULE BaseProducer ----------------------------
(***************************************************************************)
(* What every producer with a loop shares: the _running flag, the asyncio   *)
(* task of its loop, and the cancellation that stop() sends that task. The  *)
(* manager builds a new instance for every enable() and never reuses one;   *)
(* instances are numbered in the order they are built.                      *)
(***************************************************************************)
EXTENDS Registry, Naturals, Sequences

CONSTANTS
    None,
    MaxStarts,      \* bound: instances built
    MaxErrors       \* bound: calls inside a loop that raise

Instances == 1 .. MaxStarts

VARIABLES
    name,           \* each instance: the producer it was built for
    running,        \* each instance: self._running
    task,           \* each instance: where the coroutine of self._task is
    cancelled,      \* each instance: self._task.cancel() was called
    errors          \* environment

base == <<name, running, task, cancelled, errors>>

BaseAssumption ==
    /\ {MaxStarts, MaxErrors} \subseteq Nat
    /\ None \notin Names /\ None \notin Nat

BaseInit ==
    /\ name = [i \in Instances |-> None]
    /\ running = [i \in Instances |-> FALSE]
    /\ task = [i \in Instances |-> "none"]
    /\ cancelled = [i \in Instances |-> FALSE]
    /\ errors = 0

Loops(i) == task[i] \notin {"none", "done"}

Go(i, to) == task' = [task EXCEPT ![i] = to]

\* The coroutine goes on behind its await; a cancelled one only unwinds.
Resumes(i, at) == task[i] = at /\ ~cancelled[i]

\* CancelledError at whatever the loop awaits: it ends. A subprocess that was
\* just being spawned is closed by asyncio.
Unwind(i) ==
    /\ Loops(i) /\ cancelled[i]
    /\ Go(i, "done")
    /\ UNCHANGED <<name, running, cancelled, errors>>

\* Exception inside the loop's try. Every loop logs it and sleeps, and looks
\* at _running before the next round.
Fails(i) ==
    /\ errors < MaxErrors
    /\ errors' = errors + 1
    /\ Go(i, IF running[i] THEN "sleep" ELSE "done")

Wake(i, top) ==
    /\ Resumes(i, "sleep")
    /\ Go(i, IF running[i] THEN top ELSE "done")
    /\ UNCHANGED <<name, running, cancelled, errors>>
=============================================================================
