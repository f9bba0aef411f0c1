---------------------------- MODULE AgentRuntime ----------------------------
(***************************************************************************)
(* One agent's consumers: the run loop with its wake event and semaphore,   *)
(* the claim queue with its priority lanes, the tasks the loop spawns, and  *)
(* the AgentManager calls that start, stop, replace and disable consumers.  *)
(* What a task does with an assignment is module ToolLoop; here it starts,  *)
(* works and ends in one of the states ToolLoop leaves a row in.            *)
(*                                                                          *)
(* Every start_agent builds a new consumer with its own loop, wake event    *)
(* and semaphore; consumers are numbered in the order they are built, and   *)
(* assignments in the order the router creates them.                        *)
(***************************************************************************)
EXTENDS Naturals, FiniteSets

CONSTANTS
    Lanes,          \* the lanes in use
    None,
    MaxTasks,       \* bound: tasks alive at once
    MaxAdmins,      \* bound: calls of the agents API in flight at once
    Scenarios       \* bound: the agents, and what may befall each of them

\* concurrent is agent.max_concurrent. The rest are bounds: assignments created,
\* calls of the agents API, retries and drains, suspensions (which
\* max_tool_iterations limits), database errors and broadcasts that raise, and
\* deaths of the daemon.
Scenario == [concurrent : Nat \ {0}, work : Nat, calls : Nat, retries : Nat,
             asks : Nat, errors : Nat, crashes : Nat]

ASSUME RuntimeAssumption ==
    /\ {MaxTasks, MaxAdmins} \subseteq Nat
    /\ Scenarios \subseteq Scenario
    /\ Lanes \subseteq {"interactive", "critical", "ambient"}
    /\ None \notin Nat

Tasks  == 1 .. MaxTasks
Admins == 1 .. MaxAdmins
Work   == UNION {1 .. s.work : s \in Scenarios}
\* The first consumer, and at most one for every call and every restart.
Consumers == UNION {1 .. 1 + s.calls + s.crashes : s \in Scenarios}

VARIABLES
    status, lane, created,            \* event_assignments
    agent_status,                     \* the agent's row
    loop, wake, free, running, got,   \* each consumer: its loop and semaphore
    reserve,                          \* each consumer: claim interactive only
    registry, notifier, built,        \* AgentManager, AssignmentManager
    tpc, job, boss,                   \* tasks
    apc, old, after,                  \* locals of the agents API calls
    leaked, overlap, defied,          \* history
    scenario, calls, retried, asked, errors, crashes   \* environment

board    == <<status, lane, created>>
consumer == <<loop, wake, free, running, got, reserve>>
manager  == <<registry, notifier, built>>
task     == <<tpc, job, boss>>
admin    == <<apc, old, after>>
past     == <<leaked, overlap, defied>>
spent    == <<calls, retried, asked, errors, crashes>>
env      == <<scenario, spent>>
vars     == <<board, agent_status, consumer, manager, task, admin, past, env>>

Claimable == {"pending", "resumable"}
Live      == {"pending", "claimed", "running", "waiting_confirmation",
              "resumable"}
Drainable == Live \ {"running"}

Init ==
    /\ status = [w \in Work |-> "absent"]
    /\ lane = [w \in Work |-> "ambient"]
    /\ created = 0
    /\ agent_status = "idle"
    /\ loop = [g \in Consumers |-> IF g = 1 THEN "wait" ELSE "unbuilt"]
    /\ wake = [g \in Consumers |-> FALSE]
    /\ scenario \in Scenarios
    /\ free = [g \in Consumers |-> scenario.concurrent]
    /\ running = [g \in Consumers |-> g = 1]
    /\ got = [g \in Consumers |-> None]
    /\ reserve = [g \in Consumers |-> FALSE]
    /\ registry = 1 /\ notifier = 1 /\ built = 1
    /\ tpc = [t \in Tasks |-> "idle"]
    /\ job = [t \in Tasks |-> None]
    /\ boss = [t \in Tasks |-> None]
    /\ apc = [c \in Admins |-> "idle"]
    /\ old = [c \in Admins |-> None]
    /\ after = [c \in Admins |-> "idle"]
    /\ leaked = [g \in Consumers |-> 0]
    /\ overlap = FALSE /\ defied = FALSE
    /\ calls = 0 /\ retried = 0 /\ asked = 0 /\ errors = 0 /\ crashes = 0

Mishap == errors < scenario.errors /\ errors' = errors + 1

\* Slots for tasks and calls are interchangeable: the lowest idle one is taken.
Spare(i, pc) == pc[i] = "idle" /\ \A j \in 1 .. i - 1 : pc[j] # "idle"

\* notify() sets the wake event of the consumer, if there is one to be told.
Notify(g) == wake' = IF g = None THEN wake ELSE [wake EXCEPT ![g] = TRUE]

-----------------------------------------------------------------------------
(* The run loop of consumer g.  stop() cancels it at the await it is in; a  *)
(* cancelled loop takes no further step of its own.                         *)

WakeUp(g) ==
    /\ running[g] /\ loop[g] = "wait" /\ wake[g]
    /\ wake' = [wake EXCEPT ![g] = FALSE]
    /\ loop' = [loop EXCEPT ![g] = "acquire"]
    /\ UNCHANGED <<board, agent_status, free, running, got, reserve, manager,
                   task, admin, past, env>>

\* Mutant: the reservation looks at the slots before it takes one.
Acquire_OffByOne(g) ==
    /\ running[g] /\ loop[g] = "acquire" /\ free[g] > 0
    /\ free' = [free EXCEPT ![g] = @ - 1]
    /\ reserve' = [reserve EXCEPT ![g] = scenario.concurrent > 1 /\ free[g] = 0]
    /\ loop' = [loop EXCEPT ![g] = "claim"]
    /\ UNCHANGED <<board, agent_status, wake, running, got, manager, task, admin,
                   past, env>>

\* Whoever takes the last of several slots keeps it for the interactive lane.
Acquire(g) ==
    /\ running[g] /\ loop[g] = "acquire" /\ free[g] > 0
    /\ free' = [free EXCEPT ![g] = @ - 1]
    /\ reserve' = [reserve EXCEPT ![g] = scenario.concurrent > 1 /\ free[g] = 1]
    /\ loop' = [loop EXCEPT ![g] = "claim"]
    /\ UNCHANGED <<board, agent_status, wake, running, got, manager, task, admin,
                   past, env>>

LaneRank(w) == CASE lane[w] = "interactive" -> 0
                 [] lane[w] = "critical"    -> 1
                 [] OTHER                   -> 2

Before(v, w) == \/ LaneRank(v) < LaneRank(w)
                \/ LaneRank(v) = LaneRank(w) /\ v < w

\* Mutant: the subquery also finds rows that are claimed already.
Candidates_Stale(g) == {w \in Work : /\ status[w] \in Claimable \cup {"claimed"}
                                     /\ reserve[g] => lane[w] = "interactive"}

Candidates(g) == {w \in Work : /\ status[w] \in Claimable
                               /\ reserve[g] => lane[w] = "interactive"}

\* The row the UPDATE of claim_next picks, and what it writes.
First(g) == {w \in Candidates(g) :
                \A v \in Candidates(g) \ {w} : Before(w, v)}

Claimed(w) == status' = [status EXCEPT ![w] = "claimed"]

\* Back to the outer loop, which sleeps until the next notification.
GiveUp(g) ==
    /\ free' = [free EXCEPT ![g] = @ + 1]
    /\ loop' = [loop EXCEPT ![g] = "wait"]

\* The claim takes that row, or finds none.
Claim(g) ==
    /\ running[g] /\ loop[g] = "claim"
    /\ \/ /\ \E w \in First(g) : Claimed(w) /\ got' = [got EXCEPT ![g] = w]
          /\ loop' = [loop EXCEPT ![g] = "fetch"]
          /\ UNCHANGED free
       \/ Candidates(g) = {} /\ GiveUp(g) /\ UNCHANGED <<status, got>>
    /\ UNCHANGED <<lane, created, agent_status, wake, running, reserve, manager,
                   task, admin, past, env>>

\* Mutant: a claim that came to nothing keeps its slot.
Fetch_Leaks(g) ==
    /\ running[g] /\ loop[g] = "fetch"
    /\ got' = [got EXCEPT ![g] = None]
    /\ \/ /\ status[got[g]] = "claimed"
          /\ \E t \in Tasks :
                /\ Spare(t, tpc)
                /\ tpc' = [tpc EXCEPT ![t] = "start"]
                /\ job' = [job EXCEPT ![t] = got[g]]
                /\ boss' = [boss EXCEPT ![t] = g]
          /\ loop' = [loop EXCEPT ![g] = "acquire"]
       \/ /\ status[got[g]] # "claimed"
          /\ loop' = [loop EXCEPT ![g] = "wait"]
          /\ UNCHANGED task
    /\ UNCHANGED <<board, agent_status, free, wake, running, reserve, manager,
                   admin, past, env>>

\* Its SELECT, and the task for the row, unless a drain came in between.
Fetch(g) ==
    /\ running[g] /\ loop[g] = "fetch"
    /\ got' = [got EXCEPT ![g] = None]
    /\ \/ /\ status[got[g]] = "claimed"
          /\ \E t \in Tasks :
                /\ Spare(t, tpc)
                /\ tpc' = [tpc EXCEPT ![t] = "start"]
                /\ job' = [job EXCEPT ![t] = got[g]]
                /\ boss' = [boss EXCEPT ![t] = g]
          /\ loop' = [loop EXCEPT ![g] = "acquire"]
          /\ UNCHANGED free
       \/ status[got[g]] # "claimed" /\ GiveUp(g) /\ UNCHANGED task
    /\ UNCHANGED <<board, agent_status, wake, running, reserve, manager, admin,
                   past, env>>

\* A database error: the loop catches it and waits for the next wake-up, and
\* the slot it had acquired is never released.
ClaimRaises(g) ==
    /\ running[g] /\ loop[g] \in {"claim", "fetch"}
    /\ Mishap
    /\ loop' = [loop EXCEPT ![g] = "wait"]
    /\ got' = [got EXCEPT ![g] = None]
    /\ leaked' = [leaked EXCEPT ![g] = @ + 1]
    /\ UNCHANGED <<board, agent_status, wake, free, running, reserve, manager,
                   task, admin, overlap, defied, scenario, calls, retried,
                   asked, crashes>>

Loop(g) == WakeUp(g) \/ Acquire(g) \/ Claim(g) \/ Fetch(g) \/ ClaimRaises(g)

-----------------------------------------------------------------------------
(* The tasks.  Nothing cancels them: a task outlives its consumer.          *)

\* The task is over and gives its slot back to the consumer that spawned it.
Release(t) ==
    /\ free' = [free EXCEPT ![boss[t]] = @ + 1]
    /\ tpc' = [tpc EXCEPT ![t] = "idle"]
    /\ job' = [job EXCEPT ![t] = None]
    /\ boss' = [boss EXCEPT ![t] = None]

\* If the broadcast raises the row stays running, outside any try.
Begin(t) ==
    /\ tpc[t] = "start"
    /\ status' = [status EXCEPT ![job[t]] = "running"]
    /\ agent_status' = "processing"
    /\ \/ tpc' = [tpc EXCEPT ![t] = "work"] /\ UNCHANGED <<free, job, boss, errors>>
       \/ Mishap /\ Release(t)
    /\ UNCHANGED <<lane, created, loop, wake, running, got, reserve, manager,
                   admin, past, scenario, calls, retried, asked, crashes>>

Finish(t) ==
    /\ tpc[t] = "work"
    /\ \E s \in {"completed", "failed", "waiting_confirmation"} :
          /\ status' = [status EXCEPT ![job[t]] = s]
          /\ IF s = "waiting_confirmation" THEN asked < scenario.asks /\ asked' = asked + 1
                                           ELSE UNCHANGED asked
    /\ tpc' = [tpc EXCEPT ![t] = "close"]
    /\ UNCHANGED <<lane, created, agent_status, consumer, manager, job, boss,
                   admin, past, scenario, calls, retried, errors, crashes>>

\* The finally clause: the agent is idle again when nothing is live.
Close(t) ==
    /\ tpc[t] = "close"
    /\ agent_status' = IF \E w \in Work : status[w] \in Live THEN agent_status
                                                             ELSE "idle"
    /\ Release(t)
    /\ UNCHANGED <<board, loop, wake, running, got, reserve, manager, admin,
                   past, env>>

-----------------------------------------------------------------------------
(* What happens to assignments elsewhere.                                   *)

\* Mutant: a new assignment is announced to nobody.
Create_Quiet ==
    /\ created < scenario.work
    /\ created' = created + 1
    /\ status' = [status EXCEPT ![created'] = "pending"]
    /\ \E l \in Lanes : lane' = [lane EXCEPT ![created'] = l]
    /\ UNCHANGED <<agent_status, consumer, manager, task, admin, past, env>>

\* The router creates an assignment and wakes the agent's notifier.
Create ==
    /\ created < scenario.work
    /\ created' = created + 1
    /\ status' = [status EXCEPT ![created'] = "pending"]
    /\ \E l \in Lanes : lane' = [lane EXCEPT ![created'] = l]
    /\ Notify(notifier)
    /\ UNCHANGED <<agent_status, loop, free, running, got, reserve, manager,
                   task, admin, past, env>>

\* resume_assignment wakes the registered consumer.
Resume(w) ==
    /\ status[w] = "waiting_confirmation"
    /\ status' = [status EXCEPT ![w] = "resumable"]
    /\ Notify(registry)
    /\ UNCHANGED <<lane, created, agent_status, loop, free, running, got,
                   reserve, manager, task, admin, past, env>>

\* The retry sweep wakes nobody.
Retry(w) ==
    /\ status[w] = "failed"
    /\ retried < scenario.retries /\ retried' = retried + 1
    /\ status' = [status EXCEPT ![w] = "pending"]
    /\ UNCHANGED <<lane, created, agent_status, consumer, manager, task, admin,
                   past, scenario, calls, asked, errors, crashes>>

Drain ==
    /\ retried < scenario.retries /\ retried' = retried + 1
    /\ status' = [w \in Work |-> IF status[w] \in Drainable THEN "failed"
                                                            ELSE status[w]]
    /\ UNCHANGED <<lane, created, agent_status, consumer, manager, task, admin,
                   past, scenario, calls, asked, errors, crashes>>

-----------------------------------------------------------------------------
(* The agents API and AgentManager.  old is the consumer being stopped and   *)
(* after says where the call goes once stop_agent returns.                  *)

Enter(c, phase, next) ==
    /\ Spare(c, apc)
    /\ calls < scenario.calls /\ calls' = calls + 1
    /\ apc' = [apc EXCEPT ![c] = phase]
    /\ after' = [after EXCEPT ![c] = next]

Enable(c) ==
    /\ Enter(c, "check", "idle")
    /\ agent_status' = "idle"
    /\ UNCHANGED <<board, consumer, manager, task, old, past, scenario, retried,
                   asked, errors, crashes>>

Disable(c) ==
    /\ Enter(c, "stop", "idle")
    /\ agent_status' = "disabled"
    /\ UNCHANGED <<board, consumer, manager, task, old, past, scenario, retried,
                   asked, errors, crashes>>

\* PUT writes what it is given, a status included, which no one tells the manager.
Update(c) ==
    /\ Enter(c, "reread", "check")
    /\ \E s \in {agent_status, "idle", "disabled"} :
          /\ agent_status' = s
          /\ defied' = (defied \/ (s = "disabled" /\ registry # None))
    /\ UNCHANGED <<board, consumer, manager, task, old, leaked, overlap, scenario,
                   retried, asked, errors, crashes>>

\* DELETE stops the consumer first and then fails on the foreign key of the
\* agent's assignments.
Delete(c) ==
    /\ created > 0
    /\ Enter(c, "stop", "idle")
    /\ UNCHANGED <<board, agent_status, consumer, manager, task, old, past,
                   scenario, retried, asked, errors, crashes>>

\* Some other call is between looking at the registry and writing it.
Racing(c) == \E d \in Admins \ {c} : apc[d] \in {"build", "stopping"}

\* start_agent, up to its query.
Check(c) ==
    /\ apc[c] = "check"
    /\ apc' = [apc EXCEPT ![c] = IF registry # None THEN "idle" ELSE "build"]
    /\ overlap' = (overlap \/ (registry = None /\ Racing(c)))
    /\ UNCHANGED <<board, agent_status, consumer, manager, task, old, after,
                   leaked, defied, env>>

\* The consumer is born waiting, with no wake-up for what is already pending.
Raised(g) ==
    /\ loop' = [loop EXCEPT ![g] = "wait"]
    /\ running' = [running EXCEPT ![g] = TRUE]
    /\ registry' = g /\ notifier' = g /\ built' = g

Build(c) ==
    /\ apc[c] = "build"
    /\ apc' = [apc EXCEPT ![c] = "idle"]
    /\ IF agent_status = "disabled" THEN UNCHANGED <<loop, running, manager>>
       ELSE Raised(built + 1)
    /\ UNCHANGED <<board, agent_status, wake, free, got, reserve, task, old,
                   after, past, env>>

\* stop_agent pops the consumer, if there is one, and cancels its loop.
TakeOut(c) ==
    /\ registry # None
    /\ apc' = [apc EXCEPT ![c] = "stopping"]
    /\ old' = [old EXCEPT ![c] = registry]
    /\ running' = [running EXCEPT ![registry] = FALSE]
    /\ registry' = None
    /\ overlap' = (overlap \/ Racing(c))
    /\ defied' = FALSE

Stop(c) ==
    /\ apc[c] = "stop"
    /\ \/ TakeOut(c)
       \/ /\ registry = None
          /\ apc' = [apc EXCEPT ![c] = after[c]]
          /\ UNCHANGED <<registry, running, old, overlap, defied>>
    /\ UNCHANGED <<board, agent_status, loop, wake, free, got, reserve, notifier,
                   built, task, after, leaked, env>>

\* PUT reads the row again and restarts the consumer of an agent that is running
\* and not disabled by now.
Reread(c) ==
    /\ apc[c] = "reread"
    /\ \/ agent_status # "disabled" /\ TakeOut(c)
       \/ /\ registry = None \/ agent_status = "disabled"
          /\ apc' = [apc EXCEPT ![c] = "idle"]
          /\ UNCHANGED <<registry, running, old, overlap, defied>>
    /\ UNCHANGED <<board, agent_status, loop, wake, free, got, reserve, notifier,
                   built, task, after, leaked, env>>

\* Mutant: the notifier is not unregistered.
Stopped_KeepsNotifier(c) ==
    /\ apc[c] = "stopping"
    /\ loop' = [loop EXCEPT ![old[c]] = "dead"]
    /\ apc' = [apc EXCEPT ![c] = after[c]]
    /\ old' = [old EXCEPT ![c] = None]
    /\ UNCHANGED <<board, agent_status, wake, free, running, reserve, got,
                   manager, task, after, past, env>>

\* The loop is gone and the agent's notifier, whosever it is by now, with it.
\* A row whose claim was under way stays claimed; nobody will fetch it.
Stopped(c) ==
    /\ apc[c] = "stopping"
    /\ LET g == old[c]
       IN /\ loop' = [loop EXCEPT ![g] = "dead"]
          /\ \/ UNCHANGED status
             \/ loop[g] = "claim" /\ \E w \in First(g) : Claimed(w)
          /\ got' = [got EXCEPT ![g] = None]
    /\ notifier' = None
    /\ apc' = [apc EXCEPT ![c] = after[c]]
    /\ old' = [old EXCEPT ![c] = None]
    /\ UNCHANGED <<lane, created, agent_status, wake, free, running, reserve,
                   registry, built, task, after, past, env>>

Manage(c) == Check(c) \/ Build(c) \/ Stop(c) \/ Reread(c) \/ Stopped(c)

\* The daemon dies and comes back: start_all builds a consumer unless the
\* agent is disabled, and nothing looks at claimed or running rows.
Crash ==
    /\ crashes < scenario.crashes /\ crashes' = crashes + 1
    /\ tpc' = [t \in Tasks |-> "idle"]
    /\ job' = [t \in Tasks |-> None]
    /\ boss' = [t \in Tasks |-> None]
    /\ apc' = [c \in Admins |-> "idle"]
    /\ old' = [c \in Admins |-> None]
    /\ after' = [c \in Admins |-> "idle"]
    /\ got' = [g \in Consumers |-> None]
    /\ LET up == IF agent_status = "disabled" THEN None ELSE built + 1
       IN /\ registry' = up /\ notifier' = up
          /\ built' = IF up = None THEN built ELSE up
          /\ loop' = [g \in Consumers |-> IF g <= built THEN "dead"
                                          ELSE IF g = up THEN "wait"
                                          ELSE "unbuilt"]
          /\ running' = [g \in Consumers |-> g = up]
    /\ defied' = FALSE
    /\ UNCHANGED <<board, agent_status, wake, free, reserve, leaked, overlap,
                   scenario, calls, retried, asked, errors>>

\* Every loop sleeps or waits for a slot, no call is in flight, and the tasks there
\* are hang: the agent may stay so.
Quiescent ==
    /\ \A g \in Consumers :
          running[g] => \/ loop[g] = "wait" /\ ~ wake[g]
                        \/ loop[g] = "acquire" /\ free[g] = 0
    /\ \A t \in Tasks : tpc[t] \in {"idle", "work"}
    /\ \A c \in Admins : apc[c] = "idle"
    /\ UNCHANGED vars

Next ==
    \/ \E g \in Consumers : Loop(g)
    \/ \E t \in Tasks : Begin(t) \/ Finish(t) \/ Close(t)
    \/ Create \/ (\E w \in Work : Resume(w) \/ Retry(w)) \/ Drain
    \/ \E c \in Admins : \/ Enable(c) \/ Disable(c) \/ Update(c) \/ Delete(c)
                         \/ Manage(c)
    \/ Crash \/ Quiescent

Spec == Init /\ [][Next]_vars

\* The event loop runs the coroutines that can run; nobody has to create, resume,
\* retry or call anything, and what a task awaits in the executor may never come.
Fairness == /\ WF_vars(\E g \in Consumers : Loop(g))
            /\ \A t \in Tasks : WF_vars(Begin(t) \/ Close(t))
            /\ WF_vars(\E c \in Admins : Manage(c))

FairSpec == Spec /\ Fairness
=============================================================================
