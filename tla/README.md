# Verification of AI Event Bus

AI Event Bus is a local daemon: producers and API clients publish events,
routing rules turn events into assignments for LLM agents, and agents run a
tool loop whose actions a policy executes, refuses or puts before a human. It
is one Python process on one asyncio loop over one SQLite connection. So there
is no preemption, but every `await` is a point where another coroutine may run,
and almost every database statement is followed by one. That is where the
hazards of this code are, and the grain of these models: an action is a stretch
of code that ends at a database statement, a broadcast, an LLM call or a return.

## The system and its parts

| Part | Source | State | Operations | Module |
|---|---|---|---|---|
| Event bus | `core/bus.py`, `EventRepository` | `events`; locals of each `publish()`; route tasks | publish: trace, dedupe, chain depth, chain budget, persist, broadcast, hand over | `EventBus` |
| WebSocket hub | `core/bus.py` `WebSocketHub`, `api/ws.py` | subscribers with their channels; the iterator of each broadcast | register, change channels, unregister, broadcast | `WebSocketHub` |
| Router | `core/assignments.py`, `RoutingRuleRepository`, `ai/classifier.py` | `routing_rules`, `agents.status`, `event_assignments`; locals of each route task | match rules, ask the classifier, create rows, set the event's status | `Routing` |
| Run loop | `consumers/llm_agent.py` 100-172, `claim_next` | wake event, semaphore, loop position | notify, acquire, reserve, claim, spawn, release | `AgentRuntime` |
| Agent manager | `main.py` `AgentManager`, `api/agents.py` | registry of consumers, notifiers | start, stop, replace, enable, disable, delete, restart of the daemon | `AgentRuntime` |
| Tool loop | `consumers/llm_agent.py` 174-633 | assignment row: status, iteration, conversation, waiting action; loop state; turns of the transcript | think, act, suspend, restore, fold, complete, fail | `ToolLoop` |
| Approvals, drain | `api/actions.py`, `api/assignments.py` | `pending_actions` and the assignments | approve, execute, record, deny, resume; cancel-pending | `ToolLoop`, `AgentRuntime` |
| Lifecycle sweeps | `core/lifecycle.py` | the same tables | expire events, retry assignments | `EventBus`, `Routing`, `ToolLoop`, `AgentRuntime` |
| Context engine | `ai/context_engine.py`, memory and knowledge repositories and APIs | knowledge, memories with their full-text index, transcript; the prompt so far | scan, search, touch, recall, fit to the budget; edits by the API | `ContextEngine` |
| Parser, policy, executor | `ai/output_parser.py`, `core/policy.py`, `core/executor.py`, `consumers/llm_agent.py` 488-633 | one action on its way; the program it runs | parse, lift, evaluate, ask, run, time out, kill | `ActionGate` |
| Browser tool | `tools/playwright_backend.py`, `tools/__init__.py` | driver, browser, page | start on first use, call | `PlaywrightBackend` |
| Producer manager, registry | `producers/manager.py`, `registry.py`, `platform.py`, `api/producers.py` | `_producers`, the instance of each name | capabilities, enable, disable, stop_all | `Registry`, `Producers` |
| System log, macOS helper | `system_log/`, `backends/mac_helper.py` | `_proc`, `_task`, `_running`, the child | start, stop, spawn, read, publish, respawn | `StreamProducer` |
| Terminal monitor, clipboard | `terminal_monitor.py`, `clipboard.py` | size and line count; the last hash | start, stop, poll | `TerminalMonitor`, `Clipboard` |
| File watcher, D-Bus, webhook, cron | `file_watcher.py`, `backends/dbus.py`, `webhook.py`, `cron.py` and their endpoints | what came in and is not published yet; connections; jobs | start, stop, take in, publish; add and remove jobs | `FileWatcher`, `DBusBackend`, `WebhookProducer`, `CronProducer` |
| Installation, configuration | `install.py`, `config.py`, `cli.py`, `platform.py` | config.yaml, helper, unit file, loaded unit | install, uninstall, purge, restart; resolve paths | `Installation` |
| Database, seeding, start | `storage/db.py`, `storage/seed_defaults.py`, `main.py` `lifespan` | schema and seeded rows of each database; place of each process | connect, migrate, seed, serve, crash | `Startup` |

How they interact: each producer runs a loop, or a task per message, that calls
`publish()`; the producers API calls the manager, which builds an instance per
`enable()` and stops it on `disable()`. `publish()` stores and broadcasts the
event and schedules `route_event` as a task; `route_event` writes assignment rows and
calls the agent's notifier; the notifier sets the consumer's wake event; the run
loop claims a row and spawns a task; the task has the context engine build a prompt
and runs the tool loop: parser, policy, executor, or a suspension of the row on a
row of `pending_actions`; an approval executes the action, marks the assignment
resumable and wakes the consumer again. The sweeps and the agents API write the
same tables without asking anyone. There is no lock anywhere; correctness rests
on the conditions in the SQL statements. Around all this, the service manager
starts the process from a unit that `aibus install` wrote, and the process
migrates and seeds the database before it serves.

What makes each part correct:

* bus: a suppressed event has an original; no duplicate is left uncounted;
  depth and budget bound a chain; a trace follows the chain of parents unless a caller supplies one; every accepted
  event is routed;
* hub: a broadcast that returns tried everyone who was there from beginning to end;
* router: one row per event and agent, in priority order up to the fan-out
  limit, never to an agent that was down all along, statuses that tell of rows;
* run loop: every slot accounted for, one reserved, interactive work served, no
  row worked on twice;
* manager: registry, notifier and running loop agree;
* tool loop and approvals: no action of a batch skipped or repeated, the LLM is
  told what happened, one turn in the transcript per attempt, assignments follow
  their lifecycle, decisions resume;
* a turn: the event has room in the prompt, the knowledge shown is consistent, what is
  on the blocklist never runs, what runs is answered, one browser;
* producers: nobody runs whom the manager cannot reach, a stopped producer falls
  silent and takes its child along, a stream comes back after its child dies,
  commands are published once and in order, nothing taken in is forgotten;
* daemon: who serves has the whole schema and seed, service and command line look
  at the same files, a service that died comes back.

## Modules

Seven systems are checked and proved about, each a module with a `...Properties` module
that states what it must keep and the inductive invariant behind it, an `MC...` module
with the definitions its `.cfg` files need, and a `...Proofs` module: `EventBus`, `Routing`,
`AgentRuntime`, `ToolLoop`, `AgentTurn` (which composes `ContextEngine`, `ActionGate` and
`PlaywrightBackend`), `Producers` (which composes a module per producer), and `Daemon`
(which composes `Installation`, `Startup` and `WebSocketHub`). Where one system needs several
configurations, they are records in a constant (`Scenarios`, `Worlds`,
`Deployments`, `Setups`) of which `Init` chooses one; bounds that differ between
them are fields of the record.

**EventBus.** `Publishers` are slots for concurrent `publish()` calls; `pc`,
`cur`, `hit`, `at`, `steps`, `seen`, `frontier` are their locals. The loops of
`get_chain_depth` and `count_descendants` await one query per round and are one
action per round (`WalkUp`, `ScanChildren`). Time passes in dedupe windows
(`Tick`); a day is `DayLength` of them, which is what `find_by_dedupe_key`
really compares. `verdict` (how `publish()` disposed of an event), `rank` (true
depth), `handed` and `dropped` are history variables. An event whose parent has
no row makes the INSERT raise (`InsertRaises`, the foreign key). `Route` is
abstracted here to what the bus can see of it; module `Routing` has the rest.

**EventLedger** is what `publish()` promises, in five actions and two variables:
one final verdict per event, depth bounded, duplicates with originals, accepted
events handed over once. `EventBus` implements it (`KeepsTheLedger`).

**Routing.** `pc`, `todo`, `offered`, `picks` are the locals of `route_event`
for each event. `List` reads the rules once; `Match` is one round of the loop
over them, with the read of the agent; `Offer` and `Answer` are the two ends of
the classifier call; `Create` is one round of the loop over matches. Rules and
agents change in between. What a rule matches is the conjunction of
`_rule_matches` over sets of topics and kinds instead of `fnmatch` patterns.
`flaky` (agents ever disabled or deleted) and `ever` (agents up at some time
since the rules were read) are history.

**AgentRuntime.** One agent. Consumers are numbered as they are built; each has
`loop`, `wake`, `free` (the semaphore), `running`, `reserve`, and `got`, the row
between the UPDATE and the SELECT of `claim_next`. Tasks are slots with the row
they work on and the consumer that spawned them; nothing cancels them. Calls of
the agents API are slots too; `start_agent` is `Check` and `Build`, `stop_agent`
is `Stop` and `Stopped`, with their await between. What a task does is reduced
to `Begin`, `Finish`, `Close`; one that never finishes hangs. `PUT` keeps `max_concurrent`
as it was, but may write the status (`Update`), and restarts the consumer of an agent that
is not disabled (`Reread`). `leaked`
(slots lost to a claim that raised), `overlap` (two API calls were in flight at
once) and `defied` (a PUT disabled the agent over its consumer) are history. `Scenarios` lists the agents' lives that are looked at.

**ToolLoop.** Assignments of one agent, the tasks working on them, the calls of
the approvals and drain endpoints, and the retry sweep. A batch is a sequence
of actions that are run at once, put to a human, or refused; `mem` is the loop
state that `_persist_state` saves and `_init_loop_state` restores, the flag
`user_turn_persisted` included. An action the loop runs by itself leaves a row too, which
`Approve` takes like any other. `answers`, `effects` and a row's `runs` and `approvals` are history; `turns` counts
what each assignment added to the transcript. An execution ends whenever it ends, or
never (`Executing`, `Quiescent`). What a prompt contains and what
becomes of one action is module `AgentTurn`; response records are left out.

**ContextEngine** is `build_prompt`, one action per query: `Pin`, a `ScanPrefix` for
each of the prefixes of `_get_relevant_knowledge`, `Search`, `Touch`, `Remember`.
Texts are token counts and the words a query can match; a key is the sequence of
its parts. `used_tokens` is the sum the code compares with a share of the budget.
The score by which hits are ranked (BM25, importance, scope, age, use) is a free
choice among the hits. `kept` (keys nobody wrote since the turn began) is history.
**ActionGate** takes one proposed action from the LLM's reply to its answer:
`Parse` with its three attempts, `Lift` of nested parameters, `Gate` (passive
agents, bus actions, unknown types, `Evaluate`), a human's `Decide`, and the
handlers. A shell's child is `up`, `gone`, or `held`: gone, with a descendant that
keeps its pipe open; `ShellTimeout` kills and `Drain` is the second, unbounded
`communicate()`. The timeout of a shell is a number (the LLM's or the configured one), null,
or text, on which `wait_for` raises. What answers when it does, the LLM, a server or the
browser's driver, is in `Hear`; a file call holds up the thread (`Blocked`), and no turn
goes on until it returns. Commands are model values, and which of them the policy's
patterns match are constants. `ran` is history. **PlaywrightBackend** is the lazy
start of the one shared browser, with an await between driver, browser and page;
`overlapped` is history. **AgentTurn** runs whole turns of several agents over these
three, with the API's edits in between.

**Producers** is `ProducerManager` and extends a module for each producer of the
registry. **Registry** has the pure part: what a machine is capable of
(`Capabilities`), what a producer needs (`REGISTRY`, `Runnable`), and whether its
factory builds one. **BaseProducer** has what they share: `running`, the place of
the loop's task, its cancellation. **StreamProducer** is the loop that spawns a
subprocess, publishes its lines and spawns again, with the `stop()` that
terminates, waits, kills and cancels. A child is `up`, `asked` (SIGTERM sent),
`dead`, or `reaped`: asyncio knows that it is dead (followed for the child `_proc` holds only), and from then on
`terminate()` and `kill()` raise `ProcessLookupError` although lines may still be
buffered. **TerminalMonitor** is the poll of the history file, with the shell
that appends and shortens it between `stat` and `read`. **Clipboard** polls, and
remembers a text before it publishes it. **Happenings** is what the four others
share, things that come in and are `noticed`, `taken`, then `published` or
`dropped`: **FileWatcher** publishes a batch one await at a time, **DBusBackend**
opens two connections and publishes each message in a task of its own, also a
message that was still in the socket when `disconnect()` shut it down,
**WebhookProducer** is the request with its await for the body, **CronProducer** is
the list of jobs beside the scheduler, which knows one job per name. `enable()`
runs without a suspension and is one action per outcome; `disable()` is `TakeOut`
with the first part of `stop()`, then `WaitEnds`, then `Join`. `stop_all()` is one
call that disables name after name. `late` (lines published after `stop()` began),
`unsafe` (instances whose loop left a live child behind), `published` and `shown` are
history. Delays, the parsing of a line and blank lines are left out.
`Deployments` pairs a machine with the producers used on it.

**Installation** has the files and commands of the `aibus` command line: the
resolvers of `config.py` and `platform.py` as operators of an environment (the user's shell, with
whatever it exports, or the service manager's) and of what each config.yaml is, documents
that `load_config` raises on included (`ConfigRaises`), and `install`, `uninstall`, `--purge` and `restart` step by
step, interruptible between steps. **Startup** extends it with the start of a process:
`connect()` one statement at a time (`SCHEMA_SQL`, then the migrations, each with
the `PRAGMA` result it decides on), then the seeds row by row. A database is the
set of tables, columns, indexes and triggers it has. **WebSocketHub** numbers
subscribers by the id `register` gives them; the dict is CPython's table of
entries, with a hole for each that was removed, replaced by one without holes when it is
full (`Insert`, `InsertAnew`). A broadcast is one action per send, and its iterator a
place in that table, which raises when the dict's size has changed (`Advance`) and goes on when
the table has. `cut`, `together`, `sent`, `owed` and `moved` are history. **Daemon** composes the three: what a command does to the
service, the service manager that brings a dead process back, a second daemon in
the foreground, crashes, and dashboards while one serves.

**AssignmentLifecycle** is the abstract life of an assignment; `ToolLoop`
implements it (`KeepsTheLifecycle`).

## Runs

| Run | Instance | Shows |
|---|---|---|
| `BusDedupe` | 2 calls, 4 rows, 1 key, 1 trace made up by callers or any they were shown, 3 windows, days of 2, 1 crash | `SuppressedHasOriginal`, `CountsCoverDuplicates`, `DedupeRaceBound`, `TraceFollowsTheChain`, `KeepsTheLedger` |
| `BusChain` | 2 calls, 5 rows, depth 2, budget 1, 1 crash | `ChainDepthBounded`, `SiblingBudget`, `AcceptedIsRouted` |
| `ToolLoop` | 1 assignment, 2 tasks, 2 calls, 4 rows of `pending_actions`, a batch that pauses in the middle and one that is refused, 1 retry, 1 raising broadcast, 1 crash | `BatchAccounted`, `ToldOnlyWhatHappened`, `OncePerAttempt`, `TurnsPerAttempt`, `KeepsTheLifecycle`, `DecisionResumes` |
| `Agents` | 4 lives: 2 slots, a suspension, and 3 assignments with a retry or drain or 2 with a database error; 1 slot, 2 assignments, 2 overlapping API calls; the same with 1 assignment, a suspension and a restart | `SlotsAccounted`, `ReservedForInteractive`, `OneHolder`, `ManagerConsistent`, `InteractiveIsServed` |
| `Routing` | 1 event of 4 shapes, 3 agents, 4 overlapping rules, fan-out 2, answers of up to 3 names, 3 changes of agents or rules, 1 error | `OneRowPerAgent`, `AgentWasUp`, `PriorityWins`, `StatusTellsOfRows` |
| `AgentTurn` | 2 turns: prompts under edits (1 edit), every action and reply shape of a reactive and a passive agent, one browser whose page may close once beside a file call; budgets 8192, 1600 and the default 4096 | `RoomForTheEvent`, `KnowledgeIsConsistent`, `NothingBlockedRuns`, `BrowserIsShared`, `RunsAreAnswered` |
| `Producers` | each producer on its machine, 2 starts, 1 `disable()` in flight, 1 raising call; 2 lines, 1 exit; 3 commands with 2 per check, 1 shortened file; 2 texts; 2 happenings; 3 configured jobs, 2 edits | `ManagerOwnsRunning`, `StopTakesTheChild`, `OnceInOrder`, `QuietAfterStop`, `NothingTakenIsLost`, `Respawns`, `DisableReturns`, `NewestIsPublished` |
| `Daemon` | 4 machines with 2 commands, 1 edit, 1 crash; starts on a new, an older and an ancient database, with and without a second daemon and seeding, 1 crash; 4 shells that export variables on 2 systems, 1 command, 1 edit; 2 broadcasts over 2 or 3 dashboards, 1 over 3 that all close, 1 channel, tables of 2 and 4 entries | `ServesWhole`, `SameFiles`, `NobodyIsSkipped`, `Recovers` |
| `BusWindow` | 1 call | **violated**: `DedupeWithinWindow` |
| `LostDecision` | as `ToolLoop` | **violated**: `NeverWaitsOnADecidedAction` |
| `DoubleApproval` | as `ToolLoop` | **violated**: `ExecutesOnlyWhatAwaits` |
| `LostWakeup` | 2 slots, 2 assignments, nothing goes wrong | **violated**: `PendingIsClaimed` |

Why the bounds are enough. A race of `publish()` needs two calls, a chain of
duplicates three rows and an original, a walk of several rounds a depth of two,
and a window that spans midnight two days. A batch that pauses in the middle has
three actions; two tasks meet on one assignment after a drain and a retry, so
one of each is needed, and one raising broadcast or crash per behaviour places
it after every step. The reserved slot matters from two slots up, and a third
assignment is what waits for it. Two API calls are what races; a consumer that
is replaced twice adds nothing a consumer replaced once and a restart do not
show. At most two tasks of an agent are alive at once (`MaxTasks`).

Producers share nothing but the manager's table, so each deployment has one of
them; two starts let a new instance meet the `stop()` of the old one; one `disable()`
in flight is enough, since a second finds no entry unless a new instance was
built. Two lines, texts or happenings are one that is being published and one
that waits, three commands overflow a batch of two, and one exit, one error and
one shortened file per behaviour are placed after every step. Two jobs of one
name and one that is no schedule are configured, and two edits add and remove
one.

Turns meet in the stores: two turns and one edit place the edit, or the other
turn's `set_knowledge`, between any two scans. What becomes of an action depends
on no other turn, so those worlds have one turn, for every action type, the
blocked, allowed and unlisted commands, every kind of timeout, both kinds of agents, and overrides that allow the shell and
deny HTTP. The token counts are those of the code's own prompts (694 and 502 for
the system prompt) and texts of a usual length; `RecallLimit` is 1 instead of 5,
with two memories, so that the limit cuts. Two calls are what races for the browser.

On a machine two commands are one interrupted and one that follows it, one edit
and one crash fall between their steps. Two processes are what races for a
database, and two broadcasts over two dashboards let one iterate while the other
unregisters. A third dashboard fills a table with a hole in it: `Usable` gives the table
two entries, then four, where CPython's has five, then ten; the shape is the same, and
`HubInvariant` is proved for any sizes. One channel does, as a dashboard has
it or has left it. `BusDedupe` uses the symmetry of publishers, and checks no
liveness. Deadlock is checked in every run: each module says in an action of its
own (`Quiescent`, `Resting`, `Rests`) when the system may rest.

### What the violated properties say of the code

* `DedupeWithinWindow`: `repositories.py:130` compares an ISO timestamp, which
  has a `T`, with `datetime('now', ...)`, which has a blank. Every row of the
  cutoff's calendar day matches, so a window of 60 seconds lasts up to a day.
* `NeverWaitsOnADecidedAction`: an action is visible in the approvals queue
  before its assignment is suspended on it. A decision in between resumes
  nobody, and the assignment waits for good. A drain that denies the action of
  an assignment just being suspended does the same.
* `ExecutesOnlyWhatAwaits`: `approve` returns the row whether it was waiting or
  not, so a second click executes again, a denied action can be executed, and an
  action that the loop has run by itself can be run once more.
* `PendingIsClaimed`: with two slots, background work that meets the reserved slot
  waits for the next notification; a task that ends gives none.

### What the exceptions in the properties that hold say

A property that needs an exception names it, and the run reaches it.

* `ServesWhole`: seeding commits row by row, and the first row decides that
  nothing need be done; a crash in between leaves the rest missing for good
  (`cut`), and two daemons that start on a new database seed everything twice
  (`together`). Two daemons that migrate together add one column twice, and the second dies.
* `Recovers`: `SCHEMA_SQL` creates an index on `lane` and one on `trace_id` before
  the migrations add these columns (`db.py:41`, `db.py:117`), so a database from
  before either fails at every start (`TooOld`), although
  `docs/developer-guide.md:106` says that migrations run for existing databases.
  With a config.yaml that `load_config` does not accept it fails at every start as well
  (`config.py:269`, `277`, `288-301`).
* `SameFiles`: the unit pins `AIVENTBUS_DB`, which overrides `database.path` of
  config.yaml for the service only, where `docs/macos-notes.md:19` promises no
  split-brain. `install` pins the platform's default paths (`install.py:211-212`, `293-294`)
  whatever `AIVENTBUS_CONFIG`, `AIVENTBUS_DB` or `AIVENTBUS_DEV` the user exports as
  `docs/macos-notes.md:37` suggests, so that the command line of that shell and the
  service work on different files (`OtherConfig`, `OtherDb`). A deleted config.yaml
  keeps the service from starting.
* `NobodyIsSkipped`: `broadcast` iterates over the live dict across its sends. A
  dashboard that leaves and one that connects while a send is awaited keep the size of the dict;
  when the new one also fills the table, the entries behind the hole move up and the
  iterator passes over one of them without an error (`moved`). Otherwise a
  dashboard that connects or leaves meanwhile makes it raise into `publish()`, and sockets it had
  found dead stay registered; so do those whose endpoint raised on a message
  that is JSON but no object.
* `RunsAreAnswered`: the timeout of a shell command kills the shell, not its
  descendants; one that holds the pipe keeps `communicate()` and the agent's slot. The LLM
  may ask for no timeout (`executor.py:159`), notifiers and openers have none, the one of
  HTTP is for each read, Playwright's own does not bound the driver or `page.evaluate()`
  (`playwright_backend.py:198`), and a file that is a pipe holds up the whole daemon. The
  property says: who waits for such an outsider for a time only is answered
  (`AwaitsOutside`).
* `BrowserIsShared`: the docstring of `playwright_backend.py:3-5` speaks of a
  singleton, but two overlapping first calls launch two browsers and forget one.
  A call during the launch fails, and a failed launch leaves the tool broken
  until the daemon restarts.
* `QuietAfterStop`: what reached a producer before `stop()` began may still be
  published after it: the line of a stream that is being published, and the D-Bus
  messages in the sockets, whose handlers do not look at `_running`. Only what comes
  later is ruled out.
* `StopTakesTheChild`: a line whose handling raises, or a `stop()` that comes
  while a child is being replaced, leaves a live child behind (`unsafe`).
* `NothingTakenIsLost`: the clipboard remembers a text before it is published, so
  a failed publish loses it; an exception ends the file watcher's loop and leaves
  `_running` set.
* `OncePerAttempt`: the approvals API executes a row's action as often as it is
  approved, whoever ran it before; the loop itself repeats an action on a retry only.
* `DecisionResumes`: `approve` awaits the execution before it resumes the
  assignment, and no handler of the executor has a timeout of its own but the shell.
* `ManagerConsistent`: two overlapping API calls of one agent (`overlap`), and a PUT
  whose body says "disabled", which leaves the consumer claiming (`agents.py:59`, `defied`).
* `InteractiveIsServed`: the other interactive tasks come to an end; with a single slot,
  which reserves nothing, all tasks do. A task may hang with its slot, as the executor may.
* `TurnsPerAttempt`: a completed run whose last broadcast raises is failed and
  retried, and answered twice in the transcript; hence per attempt.

Divergences that no run needs, because reading shows them: `bus.py:181` counts
the descendants of the parent, not of the root that `repositories.py:183`
speaks of, so events per root are bounded only by depth and siblings; with the default budget of 4096
tokens the system prompt alone exceeds the 12% at which recalled experience is
left out, so it is never shown (README.md:32 and 276 advertise it); `search_for_event`
passes a finished query through `_fts_query` again, so OR becomes a word to match;
the backoff of a stream starts anew with every child that could be
spawned, so a helper that exits at once is respawned at the shortest delay, where
`mac_helper.py:13-14` speaks of exponential backoff; `agents.py:54-55` says that an
update takes effect immediately, but turns in flight keep the agent they began with; a
user's query of critical priority goes to the critical lane, which `claim_next`
ranks below the interactive one (`assignments.py:228`).

## Fairness

`EventBus`, `ToolLoop` and `AgentRuntime` state weak fairness of the steps of
coroutines that are already running: asyncio runs every coroutine that is ready
(as long as no file call holds up its thread, which `AgentTurn` looks into)
and aiosqlite answers every query. Neither the LLM (whose timeout is for each read of a
stream) nor the executor is fair: a task may work forever, in `ToolLoop`, in
`AgentRuntime` (`Finish`) or for an approval, so `ToolLoop` is fair to the calls of the API
only. Nothing outside is fair: nobody has to
publish, approve, retry, or call the agents API, and `ToolLoop` does not assume
that a claim ever comes. `AgentTurn` is fair to each turn's own steps, timeouts
included, unless a file call holds up the thread; nobody has to decide, no program has to exit, nobody has to
close a pipe, and no LLM, server, page or file has to answer. `Producers` is fair to the loops, to what follows an await of `disable()`, and to
asyncio learning of a dead child; no child has to print, exit or obey SIGTERM (the
`kill()` after three seconds is what `DisableReturns` needs), and nobody has to type
or to call the API. `Daemon` is fair to a process that starts, to the service
manager (systemd's `Restart=on-failure`, launchd's `KeepAlive`) and to a send under
way; nobody has to type a command. Liveness properties that a raising broadcast or a crash
really breaks name that exception (`AcceptedIsRouted` with `dropped`,
`DecisionResumes` with `faults` and `crashes`, `InteractiveIsServed` with
`Undisturbed`). Suspensions are bounded in `AgentRuntime` (the scenario's `asks`): an
interactive assignment that asks for approval again and again would come before
another for as long as it does, and `max_tool_iterations` is what ends that.

## Proofs

Every safety invariant that a run checks, the action property `QuietAfterStop` and both
refinements are theorems, for every value of the constants that the named assumptions
allow: any number of publishers, events, agents, rules, tasks, assignments, turns,
producers, processes and subscribers. Each module of proofs has an inductive invariant (in
`...Properties`, in named parts), a lemma per action and part, and theorems that combine
them with PTL. The inductive invariants were checked by TLC on the runs' instances before they were proved; the
theorems keep them, so no run does.

| Property | Theorem |
|---|---|
| `ChainDepthBounded`, `SuppressedHasOriginal` | `EventBusProofs`: `DepthIsBounded`, `DuplicatesHaveOriginals` |
| `CountsCoverDuplicates`, `DedupeRaceBound` | `DuplicatesAreCounted`, `RaceIsBounded` |
| `TraceFollowsTheChain`, `SiblingBudget` | `TracesFollowChains`, `SiblingsAreBounded` |
| `KeepsTheLedger` | `ImplementsLedger` |
| `SlotsAccounted`, `ReservedForInteractive` | `AgentRuntimeProofs`: `SlotsAreAccounted`, `InteractiveHasRoom` |
| `OneHolder`, `ManagerConsistent` | `OneHolderAtATime`, `ManagerAgrees` |
| `OneRowPerAgent`, `AgentWasUp` | `RoutingProofs`: `RowsAreSingle`, `RowsAreForAgentsUp` |
| `PriorityWins`, `StatusTellsOfRows` | `EarlierRulesWin`, `StatusIsTrue` |
| `BatchAccounted`, `ToldOnlyWhatHappened` | `ToolLoopProofs`: `BatchesAreAccounted`, `OnlyWhatHappened` |
| `OncePerAttempt`, `TurnsPerAttempt` | `ActionsRunOnce`, `TurnsAreSaidOnce` |
| `KeepsTheLifecycle` | `ImplementsLifecycle` |
| `RoomForTheEvent`, `KnowledgeIsConsistent` | `AgentTurnProofs`: `EventHasRoom`, `KnowledgeIsTrue` |
| `NothingBlockedRuns`, `BrowserIsShared` | `BlocklistHolds`, `OneBrowser` |
| `ManagerOwnsRunning`, `StopTakesTheChild` | `ProducersProofs`: `ManagerHasWhatRuns`, `ChildIsTaken` |
| `OnceInOrder`, `QuietAfterStop` | `CommandsInOrder`, `IsQuiet` |
| `SameFiles`, `NobodyIsSkipped`, `ServesWhole` | `DaemonProofs`: `SamePathsResolve`, `EveryoneIsTried`, `ServesTheWhole` |

Type correctness (`TypeOK`) is a theorem of the bus, `Routing`, `AgentRuntime`, `ToolLoop`
and `AgentTurn`; in `Producers` and `Daemon` it is part of the inductive invariants.

### Why each invariant is needed

**EventBusProofs** (`BusAssumption`). `ChainDepthBounded` is not inductive: an event is
stored long after its depth was measured, so the invariant must say what a call knows in
every phase. `BusInv` does: a row has a verdict and an older parent with a rank one less
(`RowsInv`); each call in flight owns its event, which has no verdict before its INSERT
(`OwnEvent`); in the walk, the steps taken and the rank of the row reached add up to the
rank of the parent, which is `get_chain_depth`'s loop invariant, and rows seen are younger
than the row reached, so the walk never meets one twice (`WalkSoFar`); once measured, the
parent's rank stays below the limit because ranks never change; the row found by the lookup
keeps its key (`KnowsOriginal`); and tasks are accepted events not handed over yet
(`HandoverInv`). The refinement of `EventLedger` adds no invariant: each action is an
action of the ledger or leaves it alone.

The races need counting, with a part each. `CountInv`: duplicates stored and duplicates
counted but not yet stored are together no more than were counted. `BudgetInv`: the
children stored below an event and the calls already let through to store one are
together at most the budget and the other publishers; `ScanInv` says that a scan which has
left its first row has counted every child of it. `RaceInv`: once one event of a key and a
day is stored, no later lookup of that day misses it, so those stored and those whose lookup
came before are no more than the publishers. `TraceInv` needs no more than that an
event has its trace before it is stored, and a parent with a row (or none that will ever
have one); it assumes nothing of the trace ids callers send.

**AgentRuntimeProofs** (`RuntimeAssumption`). The slot equation `SlotsAccounted` is
inductive beside what holds between acquire and claim: that a consumer's loop and its tasks
know their rows (`HoldsInv`), and that nobody but the loop takes slots, so that what the
reservation was decided on still holds when the claim ends (`ReserveInv`). `OwnerInv`:
the status of a row keeps others away from whoever holds it, until a drain or retry wrote over it
(`retried`). `ManagerInv`: as long as no two API calls overlapped, one at most is
between its look at the registry and its write. `DisabledInv` needs no such condition:
who is disabled and registered is about to be stopped, or a PUT did it. `BuiltInv` counts consumers, so that a
call or restart never runs out of them.

**RoutingProofs** (`RoutingAssumption`). `RoutingInv` says, event by event, what a routing
task has written in each phase (`Staged`), that rows of one event are of different agents
(`Distinct`), where the agents offered and picked come from (`Recorded`), and for
`PriorityWins` that picks come before what is still to match (`InOrder`) and that an agent
whom a rule wants is not passed over by the rows of a later one (`Served`).

**ToolLoopProofs** (`LoopAssumption`). A batch is whole wherever it is: in the memory of each
task and in every saved conversation (`BatchInv`), with the answer that it belongs to. What happens once is proved by
counting chances: what was done, the one chance of an assignment that is waiting, with the
loop state that is saved, and a chance for each task that has it, are together no more than
one and the retries (`RunsInv` for actions, `UserInv` and `AssistantInv` for the
transcript). The retry sweep is the one step that adds a chance, and raises the bound
with it. Approvals are counted the same way: the runs of a row and the calls about to run
it are together no more than its approvals and, if it needed none, one (`ApprovalInv`). A task that has fetched an assignment counts with the state it will restore.
`ImplementsLifecycle` goes action by action, calls and sweeps included.

**AgentTurnProofs** (`GateAssumption`, `ContextAssumption`, `JobAssumption`,
`ProposalAssumption`, `PlaywrightAssumption`). Three parts of the state that do not meet:
`PromptInv` (what a prompt has listed after each scan, and that what is ahead of the
transcript is the system prompt or within a fifth of the budget), `CommandInv` (a
command that waits for a human or its shell has passed the blocklist), `LaunchInv` (unless two
calls met in the start of the driver, one at most is launching, and the browser is the only one).
Keys and memories are finite, as the rows of a table are: what a prompt lists is counted.

**ProducersProofs** (`ProducersAssumption`). A step is first put into the terms of the
manager: an instance is built, stopped, or its loop goes on (`Builds`, `Stops`, `LoopsOn`). `ManagerInv`: what the table
has under a name is of that name, and what a call stops is out of the table and not
running. `LoopsInv`: a loop that `stop()` always cancels goes on only while its producer
runs. `ChildInv`: a child that lives is the one its producer holds and reads and runs or
is being waited for (`Attended`), or the reason is on record. `TerminalInv`: the file has the lines
typed last, and what a monitor has still to publish comes behind everything published, in order
(`Ahead`). `ToldInv`: a producer that is told of things runs. `JobsInv`, on top of these,
says that cron's list and its scheduler agree. The list is built and filtered with
`FoldLeft`, whose value is found by an induction on the prefixes of the list
(`FoldExists`, `AddedInTurn`, `TakenOutInTurn`), with the smallest counterexample
(`Smallest`, `UpTo`) in place of an induction rule.

**DaemonProofs** (`InstallationAssumption`, `StartupAssumption`, `HubAssumption`). Three
invariants over three parts. `UnitInv`: a unit that is written, enabled or loaded has the
paths of the shell that installed it, and there is one before anything starts. `HubInv`: a
broadcast owes its message only to registered subscribers of its channel and has tried those at the
places of the table it has passed (`InStep`); the place of an entry never changes while the
table is the same one, and from the moment the table is replaced under the broadcast nothing of this
is left (`moved`). `ServiceInv`: where a start has come to, everything before it is done, whoever else
works on the database (`StartInv`), and a part of the seed is whole, has somebody still seeding
it, or was cut short (`DatabaseInv`).

### What is assumed of the constants

Beside types and bounds that are numbers: `None` is none of the values it stands beside
(NULL is no id); publishers, tasks, keys and memories are finite in number where they are counted;
the limits of the bus and the fan-out are not 0; a batch is not empty and no
longer than `MaxBatch`; a rule is for one of the agents, and rules are numbered in the order that the query
gives them, priority and id; a proposal has the fields that its handler reads, and
`set_knowledge` one of the keys. Of the database that a start finds, `StartupAssumption`
asks that the first fact is there only with all the others, and that agents in it are a
user's. `HubAssumption` asks of CPython's dict that a new table has room for more entries than
it was made for. What a crash leaves of a seed is no state to start from, but
one that the run and the theorem reach (`cut`).

### Only model-checked

* Liveness: `AcceptedIsRouted`, `InteractiveIsServed`, `DecisionResumes`,
  `RunsAreAnswered`, `NothingTakenIsLost`, `Respawns`, `DisableReturns`,
  `NewestIsPublished` and `Recovers`. Fairness means ENABLED, of which the prover knows nothing.
* That the system rests only where its module says so (TLC's check for deadlock), which is ENABLED as well.
* The four properties that are violated: a counterexample is what there is to show.

## Not modelled

* The read-only and thin APIs, the rest of the command line (HTTP clients of the
  API), models and telemetry: each is one query, one call of a modelled operation,
  or data that appears as the records of the modules.
* The text of prompts, replies, log lines, D-Bus messages and cron expressions: control
  depends on the outcome, which is kept (a reply parses or not, a line is published
  or dropped, an expression is a schedule or not). The classifier's answer is the
  sequence of agents it names. Log backends are command lines and parsers without
  state.
* HTTP, files and the LLM server: an answer or an error. SQLite: one statement is
  atomic.
* Packaging, launcher, dashboard, widget and the Swift helper: build scripts and
  user interfaces; the helper is the external child of `StreamProducer`.
* A `publish()` cancelled half-way by a producer's `stop()` stores its event or does
  not (`TerminalStop`, `Cancelled`); `EventBus` has no cancellation yet, which would leave
  a stored event unrouted. D-Bus connections that a cancelled `connect()` leaves
  half open, and a clipboard child left unkilled by a timeout, have no further effect.
* A config.yaml that `load_config` accepts and that fails later in the start (a port that is no
  number), another program on the port, and commands typed in shells that export
  different variables.
* A purge while a process has the database open. Which lane an event's rows get is
  free in `AgentRuntime`. Pinned facts, which nothing writes. Lost delivery or
  reordering between processes: there is one process.

## Plan

1. Done: `EventBus` with `EventLedger` and its proofs; `ToolLoop` with
   `AssignmentLifecycle`; `AgentRuntime`; `Routing`; `Producers` with all seven
   producers; `AgentTurn`; `Daemon`.
2. Done: every safety invariant, the action property and the refinements as theorems.
3. Models to come: the cancellation of a `publish()`; the lane of an event
   together with the run loop.
