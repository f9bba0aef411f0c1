----------------------- MODULE AgentRuntimeProperties -----------------------
(* What one agent's consumers must keep, whatever order their loops, tasks, *)
(* the router, the sweeps and the agents API take their steps in.           *)
EXTENDS AgentRuntime

\* The rows, the consumers' locals, the manager's tables and the bounds hold
\* what they should; a task has a row and a consumer while it is alive.
TypeOK ==
    /\ status \in [Work -> Live \cup {"absent", "completed", "failed"}]
    /\ lane \in [Work -> Lanes \cup {"ambient"}] /\ created \in Nat
    /\ agent_status \in {"idle", "processing", "disabled"}
    /\ loop \in [Consumers -> {"unbuilt", "wait", "acquire", "claim", "fetch", "dead"}]
    /\ wake \in [Consumers -> BOOLEAN] /\ running \in [Consumers -> BOOLEAN]
    /\ reserve \in [Consumers -> BOOLEAN]
    /\ free \in [Consumers -> Nat] /\ leaked \in [Consumers -> Nat]
    /\ got \in [Consumers -> Work \cup {None}]
    /\ registry \in Consumers \cup {None} /\ notifier \in Consumers \cup {None}
    /\ built \in Consumers
    /\ tpc \in [Tasks -> {"idle", "start", "work", "close"}]
    /\ job \in [Tasks -> Work \cup {None}] /\ boss \in [Tasks -> Consumers \cup {None}]
    /\ apc \in [Admins -> {"idle", "check", "build", "stop", "reread", "stopping"}]
    /\ old \in [Admins -> Consumers \cup {None}]
    /\ after \in [Admins -> {"idle", "check"}]
    /\ overlap \in BOOLEAN /\ defied \in BOOLEAN /\ scenario \in Scenarios
    /\ calls \in Nat /\ retried \in Nat /\ asked \in Nat /\ errors \in Nat
    /\ crashes \in Nat

TasksOf(g) == {t \in Tasks : boss[t] = g}
InClaim(g) == loop[g] \in {"claim", "fetch"}

Slots(g) == free[g] + Cardinality(TasksOf(g)) + (IF InClaim(g) THEN 1 ELSE 0)
                    + leaked[g]

\* Every slot of a consumer's semaphore is free, or held by one of its tasks,
\* or held by its loop during a claim, or was lost to a claim that raised: the
\* releases of _process_with_semaphore and of an empty claim match the
\* acquires of _run_loop one for one, whatever cancels or raises.
SlotsAccounted ==
    \A g \in Consumers : loop[g] # "dead" => Slots(g) = scenario.concurrent

Background(w) == lane[w] # "interactive"

AtBackground(g) == {t \in TasksOf(g) : Background(job[t])}

\* One consumer never has all its slots at work in the background: the last of
\* several is kept for the interactive lane, although the loop looks at the
\* semaphore before the claim and tasks come and go in between.
ReservedForInteractive ==
    \A g \in Consumers :
        scenario.concurrent > 1 /\ loop[g] # "dead" =>
            Cardinality(AtBackground(g))
                + (IF got[g] # None /\ Background(got[g]) THEN 1 ELSE 0)
                    < scenario.concurrent

Holders(w) == {t \in Tasks : job[t] = w /\ tpc[t] \in {"start", "work"}}
Fetching(w) == {g \in Consumers : got[g] = w}

\* An assignment is never worked on twice at once: claim_next hands it to one
\* loop, and replaced consumers, tasks that outlive theirs, errors and crashes
\* do not give it to a second one.  Only a drain or a stale retry, which take a
\* row from under its task, can.
OneHolder ==
    retried = 0 => \A w \in Work :
        Cardinality(Holders(w)) + Cardinality(Fetching(w)) <= 1

\* Between calls of the agents API the registered consumer is the one that runs
\* and the one the router wakes, unless two calls overlapped: start_agent and
\* stop_agent look at the registry and write it on different sides of an await,
\* under no lock. And a disabled agent has none, unless it was disabled by a PUT,
\* which leaves the consumer at work (api/agents.py:59).
ManagerConsistent ==
    (\A c \in Admins : apc[c] = "idle") =>
        /\ ~ overlap => /\ notifier = registry
                        /\ \A g \in Consumers : running[g] <=> g = registry
                        /\ registry # None => loop[registry] # "dead"
        /\ agent_status = "disabled" /\ ~ defied => registry = None

-----------------------------------------------------------------------------
\* Nobody has touched the agent, and nothing has gone wrong.
Undisturbed == calls = 0 /\ retried = 0 /\ errors = 0 /\ crashes = 0

\* What a query may have to wait for: with several slots, interactive work only.
InTheWay(t) == tpc[t] = "work" /\ (scenario.concurrent > 1 => ~ Background(job[t]))

\* A user's query is served: as long as other queries come to an end, an
\* interactive assignment is claimed, however much background work is ahead of it
\* and although that may hang in the executor, where nothing bounds it (the
\* notification, the priority of claim_next and the reserved slot together). An
\* agent with one slot has none to reserve: there all work has to end.
InteractiveIsServed ==
    LET query == \E w \in Work : status[w] = "pending" /\ ~ Background(w)
    IN  (\A t \in Tasks : InTheWay(t) ~> ~ InTheWay(t))
        => (query ~> (~ query \/ ~ Undisturbed))

AtRest == \A t \in Tasks : tpc[t] = "idle"

\* assignments.py:3-4 says that agents claim assignments when they are ready:
\* pending work of an agent at rest with every slot free does not stay pending.
PendingIsClaimed ==
    \A w \in Work :
        status[w] = "pending" /\ AtRest
            ~> (status[w] # "pending" \/ ~ AtRest \/ ~ Undisturbed)
-----------------------------------------------------------------------------
(* The inductive invariant behind the safety properties above.              *)

Calling == {c \in Admins : apc[c] # "idle"}

\* Every consumer built is the first one, or was built by a call or a restart,
\* and no call builds two.
BuiltInv ==
    /\ calls <= scenario.calls /\ crashes <= scenario.crashes
    /\ built + Cardinality(Calling) <= 1 + calls + crashes
    /\ \A g \in Consumers : loop[g] = "unbuilt" <=> g > built

\* A task is alive with a row and the consumer that spawned it, a loop has a
\* row between the two statements of its claim, a call that stops a consumer
\* knows which, and the rows held are among those created.
TaskHolds(t) ==
    IF tpc[t] = "idle" THEN job[t] = None /\ boss[t] = None
    ELSE /\ job[t] \in Work /\ job[t] <= created
         /\ boss[t] \in Consumers /\ boss[t] <= built

LoopHolds(g) ==
    IF loop[g] = "fetch" THEN got[g] \in Work /\ got[g] <= created
    ELSE got[g] = None

HoldsInv ==
    /\ \A t \in Tasks : TaskHolds(t)
    /\ \A g \in Consumers : LoopHolds(g)
    /\ \A w \in Work : w > created => status[w] = "absent"
    /\ \A c \in Admins :
          apc[c] = "stopping" => old[c] \in Consumers /\ old[c] <= built
    /\ registry # None => registry <= built

\* What the reservation was decided on still holds when the claim ends: only
\* the loop itself takes slots, and a reserved claim took interactive work.
ReserveHolds(g) ==
    scenario.concurrent > 1 /\ InClaim(g) =>
        /\ ~ reserve[g] => free[g] > 0
        /\ reserve[g] /\ loop[g] = "fetch" => ~ Background(got[g])

ReserveInv == \A g \in Consumers : ReserveHolds(g)

Holds(t) == tpc[t] \in {"start", "work"}

\* The status of a row that a loop or a task holds keeps others away from it,
\* until a drain or a retry writes over it.
OwnerInv ==
    retried = 0 =>
        /\ \A g \in Consumers : got[g] # None => status[got[g]] = "claimed"
        /\ \A t \in Tasks : tpc[t] = "start" => status[job[t]] = "claimed"
        /\ \A t \in Tasks : tpc[t] = "work" => status[job[t]] = "running"
        /\ \A t, u \in Tasks : Holds(t) /\ Holds(u) /\ t # u => job[t] # job[u]
        /\ \A t \in Tasks, g \in Consumers : Holds(t) /\ got[g] # None => job[t] # got[g]
        /\ \A g, h \in Consumers : got[g] # None /\ g # h => got[g] # got[h]

Race(c) == apc[c] \in {"build", "stopping"}

\* As long as no two calls overlapped: one at most is between its look at the
\* registry and its write, and it finds the registry as it left it.
ManagerInv ==
    ~ overlap =>
        /\ \A c, d \in Admins : Race(c) /\ Race(d) => c = d
        /\ \A g \in Consumers : running[g] <=> g = registry
        /\ registry # None => /\ notifier = registry /\ loop[registry] # "dead"
                              /\ \A c \in Admins : ~ Race(c)
        /\ registry = None /\ (\A c \in Admins : apc[c] # "stopping") => notifier = None

\* Who is disabled and registered nevertheless is about to be stopped, or was
\* disabled by a PUT.
DisabledInv ==
    agent_status = "disabled" /\ registry # None =>
        defied \/ \E c \in Admins : apc[c] = "stop"

AgentInv == /\ BuiltInv /\ HoldsInv /\ ReserveInv /\ OwnerInv /\ ManagerInv
            /\ DisabledInv /\ SlotsAccounted /\ ReservedForInteractive

=============================================================================
