------------------------------ MODULE Startup ------------------------------
(***************************************************************************)
(* The start of a daemon up to the moment it serves: the database is opened, *)
(* its schema created and migrated, the system's facts and the default       *)
(* agents are seeded. Every statement commits by itself, and the process can *)
(* die after any of them. The service and a daemon in the foreground may     *)
(* start on the same database at once.                                       *)
(***************************************************************************)
EXTENDS Installation, SequencesExt

CONSTANTS Facts, DefaultAgents, DefaultRules    \* sequences, in seeding order

-----------------------------------------------------------------------------
(* The schema: SCHEMA_SQL, then _run_migrations. A database is the set of the *)
(* tables, columns, indexes and triggers that it has.                        *)

\* The columns that CREATE TABLE brings and that older versions lack.
ColumnsOf(table) ==
    CASE table = "events" -> {"trace_id"}
      [] table = "agents" -> {"reactive"}
      [] table = "event_assignments" -> {"lane", "conversation", "iteration",
                                         "waiting_action_id"}
      [] OTHER -> {}

Creates(table) == {<<"table", table>>} \cup {<<"column", c>> : c \in ColumnsOf(table)}

\* The two indexes stand before the migrations that add their columns.
SCHEMA_SQL ==
    <<<<"table", "events">>, <<"index", "trace_id">>, <<"table", "agents">>,
      <<"table", "event_assignments">>, <<"index", "lane">>>>

Migrations ==
    <<<<"inspect", "event_assignments">>, <<"column", "lane">>,
      <<"inspect", "events">>, <<"column", "trace_id">>,
      <<"table", "memories">>, <<"trigger", "memories_fts">>,
      <<"inspect", "event_assignments">>, <<"column", "conversation">>,
      <<"column", "iteration">>, <<"column", "waiting_action_id">>,
      <<"inspect", "agents">>, <<"column", "reactive">>>>

Statements == SCHEMA_SQL \o Migrations

Complete == (UNION {Creates(t) : t \in {"events", "agents", "event_assignments", "memories"}})
            \cup {<<"index", "trace_id">>, <<"index", "lane">>,
                  <<"trigger", "memories_fts">>}

\* In the databases that are there at first the facts were seeded whole, if at
\* all, and the agents are the user's.
ASSUME StartupAssumption ==
    /\ \A list \in {Facts, DefaultAgents, DefaultRules} :
          list \in Seq(ToSet(list)) /\ list # << >>
    /\ \A s \in Setups :
          /\ s.schema \in [Databases -> SUBSET Complete]
          /\ s.knowledge \in [Databases -> SUBSET ToSet(Facts)]
          /\ s.agents = [d \in Databases |-> s.agents[d]]
          /\ \A d \in Databases :
                /\ Facts[1] \in s.knowledge[d] => ToSet(Facts) \subseteq s.knowledge[d]
                /\ \A a \in s.agents[d] : a = <<a[1], "user">>

-----------------------------------------------------------------------------
VARIABLES
    at,             \* each process: where it is
    next,           \* each process: the statement, fact or row that is next
    db,             \* each process: its database
    env,            \* each process: its environment
    columns,        \* each process: what PRAGMA table_info told
    schema,         \* each database: tables, columns, indexes
    knowledge,      \* each database: facts stored
    agents, rules,  \* each database: rows, and who wrote them
    cut,            \* history: databases whose seeding was cut short
    together,       \* history: databases two processes seeded at once
    crashes

process  == <<at, next, db, env, columns>>
contents == <<schema, knowledge, agents, rules>>
startup  == <<process, contents, cut, together, crashes>>

Procs == {"service", "foreground"}

StartupInit ==
    /\ at = [p \in Procs |-> "off"]
    /\ next = [p \in Procs |-> 1]
    /\ db = [p \in Procs |-> None]
    /\ env = [p \in Procs |-> Shell]
    /\ columns = [p \in Procs |-> {}]
    /\ schema = setup.schema
    /\ knowledge = setup.knowledge
    /\ agents = setup.agents
    /\ rules = [d \in Databases |-> {}]
    /\ cut = {} /\ together = {} /\ crashes = 0

-----------------------------------------------------------------------------
Goes(p, to) == /\ at' = [at EXCEPT ![p] = to]
               /\ next' = [next EXCEPT ![p] = 1]

Proceeds(p, last, to) ==
    IF next[p] = last THEN Goes(p, to)
    ELSE next' = [next EXCEPT ![p] = @ + 1] /\ UNCHANGED at

\* Mutant: one look decides on the three columns of the tool loop.
Lacks_First(p, c) ==
    <<"column", IF c \in {"iteration", "waiting_action_id"} THEN "conversation" ELSE c>>
        \notin columns[p]
\* The column is missing, as far as the last PRAGMA told.
Lacks(p, c) == <<"column", c>> \notin columns[p]

\* The database refuses: there is no such column, or there is one already.
Refused(p, s) ==
    \/ s[1] = "index" /\ s \notin schema[db[p]] /\ <<"column", s[2]>> \notin schema[db[p]]
    \/ s[1] = "column" /\ Lacks(p, s[2]) /\ s \in schema[db[p]]

\* What it has after the statement.
Result(p, s, has) ==
    CASE s[1] = "table" -> IF s \in has THEN has ELSE has \cup Creates(s[2])
      [] s[1] = "column" -> IF Lacks(p, s[2]) THEN has \cup {s} ELSE has
      [] s[1] = "inspect" -> has
      [] OTHER -> has \cup {s}

\* Some rows of a seeding are there and some are not.
Seeding(p) == (at[p] \in {"facts", "agents"} /\ next[p] > 1) \/ at[p] = "rules"

\* The process ends with an error.
Dies(p) ==
    /\ Goes(p, "dead")
    /\ cut' = cut \cup (IF Seeding(p) THEN {db[p]} ELSE {})
    /\ UNCHANGED <<db, env, columns, contents, together>>

-----------------------------------------------------------------------------
(* The steps of a start. *)

\* load_config, by the command that starts it and again in lifespan, which may
\* raise; the service needs its interpreter.
LoadConfig(p, e, there) ==
    /\ env' = [env EXCEPT ![p] = e]
    /\ IF ConfigRaises(e) \/ ~there
         THEN Goes(p, "dead") /\ UNCHANGED db
         ELSE /\ Goes(p, "connect")
              /\ db' = [db EXCEPT ![p] = ResolveDb(e, {d \in Databases : schema[d] # {}})]
    /\ UNCHANGED <<columns, contents, cut, together, crashes>>

\* One statement of connect().
Connect(p) ==
    /\ at[p] = "connect"
    /\ LET s == Statements[next[p]]
       IN  IF Refused(p, s) THEN Dies(p)
           ELSE /\ schema' = [schema EXCEPT ![db[p]] = Result(p, s, @)]
                /\ columns' = [columns EXCEPT
                                  ![p] = IF s[1] = "inspect" THEN schema[db[p]] ELSE @]
                /\ Proceeds(p, Len(Statements), "facts")
                /\ UNCHANGED <<db, env, knowledge, agents, rules, cut, together>>
    /\ UNCHANGED crashes

AfterFacts == IF setup.seed_defaults THEN "look" ELSE "bind"

\* seed_system_facts: nothing is done when the first of them is there.
SeedFact(p) ==
    /\ at[p] = "facts"
    /\ IF next[p] = 1 /\ Facts[1] \in knowledge[db[p]]
         THEN Goes(p, AfterFacts) /\ UNCHANGED knowledge
         ELSE /\ knowledge' = [knowledge EXCEPT ![db[p]] = @ \cup {Facts[next[p]]}]
              /\ Proceeds(p, Len(Facts), AfterFacts)
    /\ UNCHANGED <<db, env, columns, schema, agents, rules, cut, together, crashes>>

\* seed_defaults: nothing is done when there is any agent.
LookForAgents(p) ==
    /\ at[p] = "look"
    /\ Goes(p, IF agents[db[p]] # {} THEN "bind" ELSE "agents")
    /\ together' = together \cup
           {d \in {db[p]} : agents[d] = {} /\ \E q \in Procs \ {p} : at[q] = "agents" /\ db[q] = d}
    /\ UNCHANGED <<db, env, columns, contents, cut, crashes>>

SeedAgent(p) ==
    /\ at[p] = "agents"
    /\ agents' = [agents EXCEPT ![db[p]] = @ \cup {<<DefaultAgents[next[p]], p>>}]
    /\ Proceeds(p, Len(DefaultAgents), "rules")
    /\ UNCHANGED <<db, env, columns, schema, knowledge, rules, cut, together, crashes>>

\* A rule names the row of its agent.
SeedRule(p) ==
    /\ at[p] = "rules"
    /\ rules' = [rules EXCEPT ![db[p]] = @ \cup {<<DefaultRules[next[p]], p>>}]
    /\ Proceeds(p, Len(DefaultRules), "bind")
    /\ UNCHANGED <<db, env, columns, schema, knowledge, agents, cut, together, crashes>>

\* The rest of lifespan; then the server takes the port, if nobody has it.
Bind(p) ==
    /\ at[p] = "bind"
    /\ IF \E q \in Procs : at[q] = "serving" THEN Dies(p)
       ELSE Goes(p, "serving") /\ UNCHANGED <<db, env, columns, contents, cut, together>>
    /\ UNCHANGED crashes

Start(p) == \/ Connect(p) \/ SeedFact(p) \/ LookForAgents(p) \/ SeedAgent(p)
            \/ SeedRule(p) \/ Bind(p)

Up(p) == at[p] \notin {"off", "dead"}

Crash(p) ==
    /\ Up(p) /\ crashes < setup.MaxCrashes
    /\ crashes' = crashes + 1
    /\ Dies(p)
=============================================================================
