-------------------------- MODULE DaemonProperties --------------------------
(* What an installed daemon must keep across starts, crashes and commands. *)
EXTENDS Daemon

\* A database from before its lane or its trace_id column.
TooOld(d) == \/ <<"table", "events">> \in schema[d] /\ <<"column", "trace_id">> \notin schema[d]
             \/ /\ <<"table", "event_assignments">> \in schema[d]
                /\ <<"column", "lane">> \notin schema[d]

Seeded(d) ==
    /\ ToSet(Facts) \subseteq knowledge[d]
    /\ setup.seed_defaults =>
          \/ \E a \in agents[d] : a[2] = "user"
          \/ /\ ToSet(DefaultAgents) = {a[1] : a \in agents[d]}
             /\ ToSet(DefaultRules) = {r[1] : r \in rules[d]}

\* A daemon that serves has the whole schema, from whatever version it migrated
\* and wherever it crashed before, and the whole seed, each agent once: unless a
\* crash or another daemon's failure cut the seeding short, which no later start
\* repairs, another one is still seeding, or two of them seeded at once
\* (_run_migrations, seed_system_facts, seed_defaults: each row commits alone).
ServesWhole ==
    \A p \in Procs :
        at[p] = "serving" =>
            /\ schema[db[p]] = Complete
            /\ \/ Seeded(db[p])
               \/ db[p] \in cut
               \/ \E q \in Procs : Seeding(q) /\ db[q] = db[p]
            /\ \/ db[p] \in together
               \/ \A a, b \in agents[db[p]] : a[1] = b[1] => a = b

\* What the user's shell points elsewhere than the installer does, which pins the
\* platform's default paths whatever that shell exports.
OtherConfig == IF Shell.config # None THEN Shell.config # DefaultDir(Shell)
               ELSE Shell.dev /\ yaml["cwd"] # Missing
OtherDb     == IF Shell.db # None THEN Shell.db # DefaultDir(Shell)
               ELSE YamlDb(Shell) # None \/ (Shell.dev /\ schema["cwd"] # {})

\* The service resolves the same configuration and database as the command line
\* of the user who installed it, whatever the manager's environment lacks, unless
\* config.yaml is gone or not accepted (the service cannot start), names a
\* database (which the pinned AIVENTBUS_DB overrides for the service alone), or
\* the shell exports AIVENTBUS_CONFIG, AIVENTBUS_DB or AIVENTBUS_DEV for other
\* files, which install ignores (docs/macos-notes.md:19 promises "no
\* split-brain").
SameFiles ==
    loaded # None =>
        LET e == Serviced(loaded)
            created == {d \in Databases : schema[d] # {}}
        IN  \/ ConfigRaises(e)
            \/ /\ ResolveConfig(e) = ResolveConfig(Shell) \/ OtherConfig
               /\ ResolveDb(e, created) = ResolveDb(Shell, created) \/ OtherDb

\* A broadcast that returns has tried every dashboard that was subscribed to its
\* channel from beginning to end, and unregistered those it could not reach,
\* whoever came, went or changed channels during its sends; otherwise the
\* iteration raised, or the dict was moved into a new table without the holes that
\* others had left, under an iterator that goes by the place
\* (WebSocketHub.broadcast).
NobodyIsSkipped ==
    \A b \in Broadcasts :
        sending[b] = "returned" =>
            /\ owed[b] \subseteq sent[b] \/ b \in moved
            /\ failed[b] \cap _subscribers = {}

\* An installed service that died serves again, unless it was unloaded, its
\* config.yaml is gone or is one that load_config does not accept, its interpreter
\* is gone, the port is taken, or its database is too old (Restart=on-failure and
\* KeepAlive; SCHEMA_SQL before _run_migrations).
Recovers ==
    (at["service"] = "dead" /\ loaded # None)
    ~> \/ at["service"] = "serving"
       \/ loaded = None
       \/ ConfigRaises(Serviced(loaded))
       \/ ~Launchable(loaded)
       \/ at["foreground"] = "serving"
       \/ db["service"] # None /\ TooOld(db["service"])

-----------------------------------------------------------------------------
(* The inductive invariants behind the safety properties above.             *)

\* The unit is rendered before it is enabled or loaded, with the paths that the
\* installing shell resolves; between unload and load there is no agent loaded.
UnitInv ==
    /\ setup \in Setups
    /\ yaml \in [Directories -> Yamls] /\ python \in Nat
    /\ \A u \in {unit, loaded} \ {None} :
          u.config = DefaultDir(Shell) /\ u.db = DefaultDir(Shell)
    /\ command \in [name : {"none"} \cup Names, step : Steps]
    /\ command.step \in {"enable", "unload", "load"} => unit # None
    /\ command.step = "load" => loaded = None

\* Broadcast b owes its message to registered subscribers of its channel only, and
\* has tried, or tries now, those at the places it has passed.
InStep(b) ==
    /\ \A i \in owed[b] : i \in _subscribers /\ about[b] \in channels[i]
    /\ \A k \in 1 .. Len(entries) :
          k < place[b] /\ entries[k] \in owed[b] => entries[k] \in sent[b] \cup {to[b]}

\* Ids are given once. A broadcast is in step with the table until it is moved.
HubInv ==
    /\ _counter \in 0 .. MaxSubscribers
    /\ entries \in Seq(0 .. _counter)
    /\ channels \in [Ids -> SUBSET Channels]
    /\ sending \in [Broadcasts -> {"idle", "sending", "returned", "raised"}]
    /\ \A b \in Broadcasts :
          /\ failed[b] \subseteq 1 .. _counter
          /\ sending[b] = "idle" => failed[b] = {}
          /\ sending[b] = "sending" =>
                /\ to[b] \in 1 .. _counter /\ place[b] \in Nat
                /\ b \notin moved => InStep(b)
          /\ sending[b] = "returned" =>
                /\ owed[b] \subseteq sent[b] \/ b \in moved
                /\ failed[b] \cap _subscribers = {}

SeedsFacts(p, d) == at[p] = "facts" /\ next[p] > 1 /\ db[p] = d
SeedsRows(p, d)  == ((at[p] = "agents" /\ next[p] > 1) \/ at[p] = "rules") /\ db[p] = d

\* The facts are whole, or whoever seeds them is still there, or was cut short.
FactsInv(d) ==
    \/ Facts[1] \notin knowledge[d] \/ ToSet(Facts) \subseteq knowledge[d]
    \/ d \in cut \/ \E p \in Procs : SeedsFacts(p, d)

\* The same of the agents and rules, unless the agents are the user's.
RowsInv(d) ==
    \/ agents[d] = {} \/ \E a \in agents[d] : a[2] = "user"
    \/ /\ ToSet(DefaultAgents) = {a[1] : a \in agents[d]}
       /\ ToSet(DefaultRules) = {r[1] : r \in rules[d]}
    \/ d \in cut \/ \E p \in Procs : SeedsRows(p, d)

\* A database is never more than complete; the agents of one name are one, or two
\* seeded them at once.
DatabaseInv(d) ==
    /\ schema[d] \subseteq Complete
    /\ FactsInv(d)
    /\ \A a \in agents[d] : /\ a = <<a[1], a[2]>>
                            /\ a[2] = "user" \/ a[1] \in ToSet(DefaultAgents)
    /\ \A r \in rules[d] : r[1] \in ToSet(DefaultRules)
    /\ RowsInv(d)
    /\ d \in together \/ \A a, b \in agents[d] : a[1] = b[1] => a = b

\* After a statement the database has what it brings.
Did(s, has) == s[1] # "inspect" => s \in has

\* Where a start has come to, everything before it is done, whoever else works
\* on the database; the first PRAGMA is the sixth statement.
StartInv(p) ==
    LET d == db[p] IN
    /\ at[p] \in {"connect", "facts", "look", "agents", "rules", "bind", "serving"} =>
          d \in Databases
    /\ at[p] = "connect" =>
          /\ next[p] \in 1 .. Len(Statements)
          /\ \A j \in 1 .. next[p] - 1 : Did(Statements[j], schema[d])
          /\ next[p] > 6 => columns[p] \subseteq schema[d]
    /\ at[p] \in {"facts", "look", "agents", "rules", "bind", "serving"} =>
          schema[d] = Complete
    /\ at[p] = "facts" =>
          /\ next[p] \in 1 .. Len(Facts)
          /\ \A j \in 1 .. next[p] - 1 : Facts[j] \in knowledge[d]
    /\ at[p] \in {"look", "agents", "rules", "bind", "serving"} => Facts[1] \in knowledge[d]
    /\ at[p] = "agents" =>
          /\ next[p] \in 1 .. Len(DefaultAgents)
          /\ \A j \in 1 .. next[p] - 1 : DefaultAgents[j] \in {a[1] : a \in agents[d]}
          /\ d \in together \/ \A a \in agents[d] : a[2] = p
          /\ \A q \in Procs \ {p} : at[q] = "agents" /\ db[q] = d => d \in together
    /\ at[p] = "rules" =>
          /\ next[p] \in 1 .. Len(DefaultRules)
          /\ ToSet(DefaultAgents) \subseteq {a[1] : a \in agents[d]}
          /\ \A j \in 1 .. next[p] - 1 : DefaultRules[j] \in {r[1] : r \in rules[d]}
    /\ at[p] \in {"bind", "serving"} /\ setup.seed_defaults => agents[d] # {}

ProcessType ==
    /\ at \in [Procs -> {"off", "dead", "connect", "facts", "look", "agents", "rules",
                         "bind", "serving"}]
    /\ next \in [Procs -> Nat] /\ db \in [Procs -> Databases \cup {None}]
    /\ columns = [p \in Procs |-> columns[p]]
    /\ \A table \in {schema, knowledge, agents, rules} :
          table = [d \in Databases |-> table[d]]

ServiceInv == /\ ProcessType
              /\ command.step = "load" => ~Up("service")
              /\ \A d \in Databases : DatabaseInv(d)
              /\ \A p \in Procs : StartInv(p)
=============================================================================
