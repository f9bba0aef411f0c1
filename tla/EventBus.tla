------------------------------ MODULE EventBus ------------------------------
(***************************************************************************)
(* The publish pipeline of the event bus: ingest, dedupe, chain limits,     *)
(* persist, broadcast and the hand-over to the router.                      *)
(*                                                                          *)
(* Every call of EventBus.publish is a coroutine on one asyncio loop, so    *)
(* calls interleave exactly at their awaits; one action below is one stretch*)
(* of code that ends at a database statement, at a broadcast, or at return. *)
(* The loops of get_chain_depth and count_descendants await one query per   *)
(* iteration and are therefore one action per iteration.  Reads of columns  *)
(* that never change after INSERT (parent_event, trace_id) are merged with  *)
(* the step that uses them.                                                 *)
(***************************************************************************)
EXTENDS Naturals, FiniteSets

CONSTANTS
    Publishers,  \* slots for concurrent publish() calls (API, producers, agents)
    MaxEvents,   \* bound of the model: rows the events table can hold
    MaxDepth,    \* config.bus.max_chain_depth
    MaxBudget,   \* config.bus.max_chain_budget
    Keys,        \* dedupe keys
    Traces,      \* trace ids callers make up
    None,        \* the absent (NULL) key, trace or parent
    Requests,    \* the shapes of EventCreate a caller may submit
    DayLength,   \* length of a day, in dedupe windows
    MaxTime,     \* bound: how many dedupe windows the run lasts
    MaxCrashes   \* bound: how often the daemon dies

Ids    == 1 .. MaxEvents
Ghost  == 0          \* an event id that names no row
Parents == Ids \cup {Ghost, None}

ASSUME BusAssumption ==
    /\ IsFiniteSet(Publishers)
    /\ MaxEvents \in Nat \ {0}
    /\ MaxDepth \in Nat \ {0}
    /\ MaxBudget \in Nat \ {0}
    /\ DayLength \in Nat \ {0}
    /\ MaxTime \in Nat
    /\ MaxCrashes \in Nat
    /\ None \notin Keys \cup Traces \cup Nat
    /\ Requests \subseteq [key : Keys \cup {None},
                           trace : Traces \cup {None},
                           repeats : BOOLEAN,
                           lasting : BOOLEAN]

(***************************************************************************)
(* events is the Event object built for an id; status is the column of its  *)
(* row: "absent" before INSERT, "live" for received, routed, assigned and    *)
(* processing, which the bus and the expiry sweep treat alike (a completed  *)
(* row is one whose expires_at the model lets never pass).                  *)
(* verdict is a history variable: how publish() disposed of the event.      *)
(* rank is one too: the true length of the parent chain above the row.      *)
(***************************************************************************)
VARIABLES
    events, status, dedupe_count, next,      \* the events table
    pc, cur, hit, at, steps, seen, frontier, \* locals of each publish() call
    tasks,                                   \* scheduled _route_event tasks
    verdict, rank, handed, dropped,          \* history
    now, crashes                             \* environment: time, in windows

table  == <<events, status, dedupe_count, next>>
locals == <<pc, cur, hit, at, steps, seen, frontier>>
past   == <<verdict, rank, handed, dropped>>
clock  == <<now, crashes>>
vars   == <<table, locals, tasks, past, clock>>

Verdicts == {"none", "accepted", "deduped", "limited", "system"}
Statuses == {"absent", "live", "deduped", "expired", "failed"}
Phases   == {"idle", "lookup", "count", "persist_dup", "depth", "scan",
             "refuse", "report", "persist", "broadcast"}

\* A trace generated for event e is named by e: uuid4 never repeats.  given: the
\* caller supplied the trace, be it one of his own or one he was shown.
Event == [system : BOOLEAN, parent : Parents, key : Keys \cup {None},
          trace : Traces \cup Ids \cup {None}, given : BOOLEAN,
          slot : Nat, lasting : BOOLEAN]
Unbuilt == [system |-> FALSE, parent |-> None, key |-> None,
            trace |-> None, given |-> FALSE, slot |-> 0, lasting |-> TRUE]

Persisted   == {e \in Ids : status[e] # "absent"}
Children(e) == {c \in Persisted : events[c].parent = e}
Busy        == {p \in Publishers : pc[p] # "idle"}

\* PRAGMA foreign_keys=ON: a row may only name a parent that has a row.
ForeignKeyHolds(e) == events[e].parent \in Persisted \cup {None}
RankBelow(e) == IF events[e].parent = None THEN 0
                                           ELSE rank[events[e].parent] + 1

Init ==
    /\ events = [e \in Ids |-> Unbuilt]
    /\ status = [e \in Ids |-> "absent"]
    /\ dedupe_count = [e \in Ids |-> 1]
    /\ next = 1
    /\ pc = [p \in Publishers |-> "idle"]
    /\ cur = [p \in Publishers |-> 1]
    /\ hit = [p \in Publishers |-> 1]
    /\ at = [p \in Publishers |-> None]
    /\ steps = [p \in Publishers |-> 0]
    /\ seen = [p \in Publishers |-> {}]
    /\ frontier = [p \in Publishers |-> {}]
    /\ tasks = {}
    /\ verdict = [e \in Ids |-> "none"]
    /\ rank = [e \in Ids |-> 0]
    /\ handed = {}
    /\ dropped = {}
    /\ now = 1 /\ crashes = 0

-----------------------------------------------------------------------------
(* Control: move p to a phase with the locals the next phase starts from.   *)

GoTo(p, phase) ==
    /\ pc' = [pc EXCEPT ![p] = phase]
    /\ UNCHANGED <<cur, hit, at, steps, seen, frontier>>

\* The call is over: it returned or raised, and its locals are gone.
Return(p) ==
    /\ pc' = [pc EXCEPT ![p] = "idle"]
    /\ at' = [at EXCEPT ![p] = None]
    /\ steps' = [steps EXCEPT ![p] = 0]
    /\ seen' = [seen EXCEPT ![p] = {}]
    /\ cur' = [cur EXCEPT ![p] = 1]
    /\ hit' = [hit EXCEPT ![p] = 1]
    /\ frontier' = [frontier EXCEPT ![p] = {}]

\* Where an event that is not a duplicate goes: chain checks only for children.
AfterDedupe(parent) == IF parent = None THEN "persist" ELSE "depth"

\* INSERT of e with the given first status; rank is filled in as history.
Insert(e, first, how) ==
    /\ status' = [status EXCEPT ![e] = first]
    /\ verdict' = [verdict EXCEPT ![e] = how]
    /\ rank' = [rank EXCEPT ![e] = RankBelow(e)]

\* The INSERT raises IntegrityError out of publish(): nothing is stored.
InsertRaises(p) ==
    /\ ~ ForeignKeyHolds(cur[p])
    /\ events' = [events EXCEPT ![cur[p]] = Unbuilt]
    /\ Return(p)
    /\ UNCHANGED <<status, dedupe_count, next, tasks, past, clock>>

-----------------------------------------------------------------------------
(* publish() resolves the trace and builds the Event.  The last conjunct of *)
(* the guard is the bound: every call in flight may need a row for a        *)
(* system.chain_limit event besides its own.                                *)

\* Mutant: the trace is kept between calls instead of read from the parent.
Inherited_Leaked(trace, parent) ==
    IF trace # None THEN trace
    ELSE IF next > 1 /\ events[next - 1].trace # None
         THEN events[next - 1].trace ELSE next

Inherited(trace, parent) ==
    IF trace # None THEN trace
    ELSE IF parent \in Persisted /\ events[parent].trace # None
         THEN events[parent].trace
         ELSE next

\* A caller sends the trace of his request, or repeats that of an event he can read.
Supplied(r) == IF r.repeats THEN {events[e].trace : e \in Persisted} ELSE {r.trace}

Submit(p) ==
    /\ pc[p] = "idle"
    /\ next + Cardinality(Busy) < MaxEvents
    /\ \E r \in Requests, parent \in Persisted \cup {Ghost, None} :
       \E trace \in Supplied(r) :
          /\ events' = [events EXCEPT ![next] =
                [system |-> FALSE, parent |-> parent, key |-> r.key,
                 trace |-> Inherited(trace, parent), given |-> trace # None,
                 slot |-> now, lasting |-> r.lasting]]
          /\ at' = [at EXCEPT ![p] = parent]
          /\ pc' = [pc EXCEPT ![p] = IF r.key # None THEN "lookup"
                                                     ELSE AfterDedupe(parent)]
    /\ cur' = [cur EXCEPT ![p] = next]
    /\ next' = next + 1
    /\ UNCHANGED <<status, dedupe_count, hit, steps, seen, frontier,
                   tasks, past, clock>>

(* find_by_dedupe_key compares an ISO timestamp ("2025-01-02T03:...") with  *)
(* datetime('now', '-60 seconds') ("2025-01-02 03:..."): 'T' sorts after    *)
(* ' ', so every row created on the cutoff's calendar day or later matches. *)
(* now and slot count whole windows; the cutoff lies one window back.       *)

Day(t) == t \div DayLength

\* Mutants: the event is stored before the lookup; only later days match.
Matches_Self(k) == {e \in 1 .. next - 1 : events[e].key = k}
Matches_Strict(k) == {e \in Persisted : /\ events[e].key = k
                                        /\ status[e] # "expired"
                                        /\ Day(events[e].slot) > Day(now - 1)}

Matches(k) == {e \in Persisted : /\ events[e].key = k
                                 /\ status[e] # "expired"
                                 /\ Day(events[e].slot) >= Day(now - 1)}

FindDuplicate(p) ==
    /\ pc[p] = "lookup"
    /\ LET found == Matches(events[cur[p]].key)
       IN \/ /\ found = {}
             /\ GoTo(p, AfterDedupe(events[cur[p]].parent))
          \/ \E newest \in found :
                /\ \A e \in found : e <= newest
                /\ pc' = [pc EXCEPT ![p] = "count"]
                /\ hit' = [hit EXCEPT ![p] = newest]
                /\ UNCHANGED <<cur, at, steps, seen, frontier>>
    /\ UNCHANGED <<table, tasks, past, clock>>

\* Mutant: the count is written back from the row read at the lookup.
CountDuplicate_Stale(p) ==
    /\ pc[p] = "count"
    /\ dedupe_count' = [dedupe_count EXCEPT ![hit[p]] = 2]
    /\ GoTo(p, "persist_dup")
    /\ UNCHANGED <<events, status, next, tasks, past, clock>>

\* increment_dedupe: one UPDATE, so concurrent increments add up.
CountDuplicate(p) ==
    /\ pc[p] = "count"
    /\ dedupe_count' = [dedupe_count EXCEPT ![hit[p]] = @ + 1]
    /\ GoTo(p, "persist_dup")
    /\ UNCHANGED <<events, status, next, tasks, past, clock>>

\* Mutant: no return after the duplicate is stored.
PersistDuplicate_FallsThrough(p) ==
    /\ pc[p] = "persist_dup"
    /\ ForeignKeyHolds(cur[p])
    /\ Insert(cur[p], "deduped", "deduped")
    /\ GoTo(p, "broadcast")
    /\ UNCHANGED <<events, dedupe_count, next, tasks, handed, dropped, clock>>

PersistDuplicate(p) ==
    /\ pc[p] = "persist_dup"
    /\ \/ InsertRaises(p)
       \/ /\ ForeignKeyHolds(cur[p])
          /\ Insert(cur[p], "deduped", "deduped")
          /\ Return(p)
          /\ UNCHANGED <<events, dedupe_count, next, tasks, handed, dropped,
                         clock>>

-----------------------------------------------------------------------------
(* get_chain_depth walks from the parent to the root; count_descendants is  *)
(* a breadth-first count below the PARENT (publish() calls it root_event).  *)

\* Mutant: the depth limit is tested with > instead of >=.
TooDeep_OffByOne(n) == n > MaxDepth

TooDeep(n)    == n >= MaxDepth
OverBudget(n) == n >= MaxBudget

MoreAbove(p) == /\ at[p] \in Persisted \ seen[p]
                /\ events[at[p]].parent # None

WalkUp(p) ==
    /\ pc[p] = "depth"
    /\ MoreAbove(p)
    /\ seen' = [seen EXCEPT ![p] = @ \cup {at[p]}]
    /\ steps' = [steps EXCEPT ![p] = @ + 1]
    /\ at' = [at EXCEPT ![p] = events[at[p]].parent]
    /\ UNCHANGED <<table, pc, cur, hit, frontier, tasks, past, clock>>

\* Mutant: an event that is not too deep needs no budget.
CheckDepth_NoBudget(p) ==
    /\ pc[p] = "depth"
    /\ ~ MoreAbove(p)
    /\ pc' = [pc EXCEPT ![p] = IF TooDeep(steps[p]) THEN "refuse" ELSE "persist"]
    /\ at' = [at EXCEPT ![p] = None]
    /\ UNCHANGED <<table, cur, hit, steps, seen, frontier, tasks, past, clock>>

CheckDepth(p) ==
    /\ pc[p] = "depth"
    /\ ~ MoreAbove(p)
    /\ pc' = [pc EXCEPT ![p] = IF TooDeep(steps[p]) THEN "refuse" ELSE "scan"]
    /\ frontier' = [frontier EXCEPT ![p] = {events[cur[p]].parent}]
    /\ steps' = [steps EXCEPT ![p] = 0]
    /\ seen' = [seen EXCEPT ![p] = {}]
    /\ at' = [at EXCEPT ![p] = None]
    /\ UNCHANGED <<table, cur, hit, tasks, past, clock>>

\* One query of count_descendants; the budget test follows the last one.
ScanChildren(p) ==
    /\ pc[p] = "scan"
    /\ \E e \in frontier[p] :
          LET new   == IF e \in seen[p] THEN {} ELSE Children(e)
              rest  == (frontier[p] \ {e}) \cup new
              count == steps[p] + Cardinality(new)
          IN /\ frontier' = [frontier EXCEPT ![p] = rest]
             /\ steps' = [steps EXCEPT ![p] = count]
             /\ pc' = [pc EXCEPT ![p] = IF rest # {} THEN "scan"
                                        ELSE IF OverBudget(count) THEN "refuse"
                                        ELSE "persist"]
             /\ seen' = [seen EXCEPT ![p] = @ \cup {e}]
    /\ UNCHANGED <<table, cur, hit, at, tasks, past, clock>>

Refuse(p) ==
    /\ pc[p] = "refuse"
    /\ \/ InsertRaises(p)
       \/ /\ ForeignKeyHolds(cur[p])
          /\ Insert(cur[p], "failed", "limited")
          /\ GoTo(p, "report")
          /\ UNCHANGED <<events, dedupe_count, next, tasks, handed, dropped,
                         clock>>

\* _emit_system_event: a row with no parent, key or trace; never routed.
ReportLimit(p) ==
    /\ pc[p] = "report"
    /\ next <= MaxEvents
    /\ events' = [events EXCEPT ![next] =
                    [Unbuilt EXCEPT !.system = TRUE, !.slot = now]]
    /\ status' = [status EXCEPT ![next] = "live"]
    /\ verdict' = [verdict EXCEPT ![next] = "system"]
    /\ next' = next + 1
    /\ Return(p)
    /\ UNCHANGED <<dedupe_count, tasks, rank, handed, dropped, clock>>

-----------------------------------------------------------------------------
(* An accepted event is stored, announced and scheduled for routing.        *)

\* Mutant: the event is stored and never announced or scheduled.
Persist_Only(p) ==
    /\ pc[p] = "persist"
    /\ ForeignKeyHolds(cur[p])
    /\ Insert(cur[p], "live", "accepted")
    /\ Return(p)
    /\ UNCHANGED <<events, dedupe_count, next, tasks, handed, dropped, clock>>

Persist(p) ==
    /\ pc[p] = "persist"
    /\ \/ InsertRaises(p)
       \/ /\ ForeignKeyHolds(cur[p])
          /\ Insert(cur[p], "live", "accepted")
          /\ GoTo(p, "broadcast")
          /\ UNCHANGED <<events, dedupe_count, next, tasks, handed, dropped,
                         clock>>

Broadcast(p) ==
    /\ pc[p] = "broadcast"
    /\ tasks' = tasks \cup {cur[p]}
    /\ Return(p)
    /\ UNCHANGED <<table, past, clock>>

\* WebSocketHub.broadcast iterates its live dict across awaits: a client that
\* connects or leaves meanwhile makes it raise, and publish() never gets to
\* create_task.  The row stays.
BroadcastRaises(p) ==
    /\ pc[p] = "broadcast"
    /\ dropped' = dropped \cup {cur[p]}
    /\ Return(p)
    /\ UNCHANGED <<table, tasks, verdict, rank, handed, clock>>

\* _route_event runs the router (module Routing), which finishes by writing
\* "routed" or "assigned" over whatever the row holds, or raises and writes none.
Route(e) ==
    /\ e \in tasks
    /\ tasks' = tasks \ {e}
    /\ handed' = handed \cup {e}
    /\ status' \in {status, [status EXCEPT ![e] = "live"]}
    /\ UNCHANGED <<events, dedupe_count, next, locals, verdict, rank, dropped,
                   clock>>

-----------------------------------------------------------------------------
(* What the rest of the daemon and the clock do to the table.               *)

Expirable == {e \in Persisted : /\ ~ events[e].lasting
                                /\ status[e] \notin {"expired", "failed"}}

\* One pass of LifecycleManager._expiry_loop; due are the rows whose
\* expires_at has gone by.
ExpireSweep ==
    /\ \E due \in (SUBSET Expirable) \ {{}} :
          status' = [e \in Ids |-> IF e \in due THEN "expired" ELSE status[e]]
    /\ UNCHANGED <<events, dedupe_count, next, locals, tasks, past, clock>>

\* A window goes by; a publish() call is shorter than that.
Tick ==
    /\ now < MaxTime
    /\ \A p \in Busy : events[cur[p]].slot = now
    /\ now' = now + 1
    /\ UNCHANGED <<table, locals, tasks, past, crashes>>

\* The process dies: rows stay, calls and route tasks are gone, and nothing at
\* startup looks for events that were never routed.
Crash ==
    /\ crashes < MaxCrashes
    /\ crashes' = crashes + 1
    /\ dropped' = dropped \cup tasks
                  \cup {e \in Ids : \E p \in Publishers :
                                       pc[p] = "broadcast" /\ cur[p] = e}
    /\ events' = [e \in Ids |-> IF e \in Persisted THEN events[e] ELSE Unbuilt]
    /\ tasks' = {}
    /\ pc' = [p \in Publishers |-> "idle"]
    /\ cur' = [p \in Publishers |-> 1]
    /\ hit' = [p \in Publishers |-> 1]
    /\ at' = [p \in Publishers |-> None]
    /\ steps' = [p \in Publishers |-> 0]
    /\ seen' = [p \in Publishers |-> {}]
    /\ frontier' = [p \in Publishers |-> {}]
    /\ UNCHANGED <<status, dedupe_count, next, verdict, rank, handed, now>>

\* Nothing in flight: the daemon may sit idle forever.
Quiescent ==
    /\ Busy = {} /\ tasks = {}
    /\ UNCHANGED vars

Continue(p) ==
    \/ FindDuplicate(p) \/ CountDuplicate(p) \/ PersistDuplicate(p)
    \/ WalkUp(p) \/ CheckDepth(p) \/ ScanChildren(p)
    \/ Refuse(p) \/ ReportLimit(p)
    \/ Persist(p) \/ Broadcast(p) \/ BroadcastRaises(p)

Next ==
    \/ \E p \in Publishers : Submit(p) \/ Continue(p)
    \/ \E e \in Ids : Route(e)
    \/ ExpireSweep \/ Tick \/ Crash \/ Quiescent

Spec == Init /\ [][Next]_vars

\* The loop runs every ready coroutine and aiosqlite answers every query;
\* nobody is obliged to publish, and no row is obliged to expire.
Fairness ==
    /\ \A p \in Publishers : WF_vars(Continue(p))
    /\ \A e \in Ids : WF_vars(Route(e))

FairSpec == Spec /\ Fairness
=============================================================================
