------------------------------- MODULE Routing -------------------------------
(***************************************************************************)
(* AssignmentManager.route_event: from an accepted event to its rows in     *)
(* event_assignments.  Every event is routed by a task of its own, which    *)
(* reads the rules once, then asks for one agent at a time, then perhaps    *)
(* waits for the classifier's model, then writes one row at a time; agents, *)
(* rules, workers and the expiry sweep go on meanwhile.                     *)
(***************************************************************************)
EXTENDS Naturals, Sequences, FiniteSets, SequencesExt, FiniteSetsExt

CONSTANTS
    Events, Agents,
    Shapes,              \* topic, kind (semantic type) and level (priority 0 .. 3)
    RuleTable,           \* rules in priority order: agent, topics, kinds, level
    SystemTopics,        \* the topics that start with "system."
    UseClassifier,       \* config.classifier.enabled
    MaxFanOut,           \* config.bus.max_fan_out
    None,
    MaxAnswer,           \* bound: agents the classifier's model names
    MaxToggles,          \* bound: agents enabled, disabled or deleted
    MaxErrors            \* bound: broadcasts that raise

Rules == DOMAIN RuleTable

ASSUME RoutingAssumption ==
    /\ MaxFanOut \in Nat \ {0}
    /\ {MaxAnswer, MaxToggles, MaxErrors} \subseteq Nat
    /\ UseClassifier \in BOOLEAN
    /\ Rules \subseteq Nat /\ None \notin Rules
    /\ \A r \in Rules : RuleTable[r].agent \in Agents

VARIABLES
    shape,                    \* each event's shape
    agents, up, rules,        \* the tables agents (up: not disabled) and rules
    status,                   \* events.status
    rows,                     \* event_assignments
    unmatched,                \* the events system.unmatched was emitted for
    pc, todo, offered, picks, \* the routing tasks' locals
    flaky, ever,              \* history: agents ever down; agents up meanwhile
    toggles, errors           \* environment

tables == <<shape, agents, up, rules>>
locals == <<pc, todo, offered, picks>>
past   == <<flaky, ever>>
vars   == <<tables, status, rows, unmatched, locals, past, toggles, errors>>

Init ==
    /\ shape \in [Events -> Shapes]
    /\ agents = Agents /\ up = Agents /\ rules = Rules
    /\ status = [e \in Events |-> "received"]
    /\ rows = <<>> /\ unmatched = {}
    /\ pc = [e \in Events |-> "new"]
    /\ todo = [e \in Events |-> {}]
    /\ offered = [e \in Events |-> {}]
    /\ picks = [e \in Events |-> <<>>]
    /\ flaky = {} /\ ever = [e \in Events |-> {}]
    /\ toggles = 0 /\ errors = 0

Goto(e, label) == pc' = [pc EXCEPT ![e] = label]

\* All the conditions a rule specifies hold; None is a condition left out.
RuleMatches(r, e) ==
    LET rule == RuleTable[r]
        event == shape[e]
    IN /\ rule.topics # None => event.topic \in rule.topics
       /\ rule.kinds # None => event.kind # None /\ event.kind \in rule.kinds
       /\ rule.level # None => event.level >= rule.level

-----------------------------------------------------------------------------
(* The static rules.                                                        *)

\* The one reading of the rules; what they match is settled with it.
List(e) ==
    /\ pc[e] = "new"
    /\ IF shape[e].topic \in SystemTopics
       THEN Goto(e, "done") /\ UNCHANGED <<todo, ever>>
       ELSE /\ Goto(e, "match")
            /\ todo' = [todo EXCEPT ![e] = {r \in rules : RuleMatches(r, e)}]
            /\ ever' = [ever EXCEPT ![e] = up]
    /\ UNCHANGED <<tables, status, rows, unmatched, offered, picks, flaky,
                   toggles, errors>>

Picked(e, a) == \E i \in DOMAIN picks[e] : picks[e][i].agent = a

Full(e) == Len(picks[e]) >= MaxFanOut

\* Mutant: rules are taken in no particular order.
NextRule_Any(e) == Max(todo[e])
NextRule(e) == Min(todo[e])

Usable(a) == a \in agents /\ a \in up

\* One rule: its agent is read, and picked unless it is down, picked already
\* or one too many, which ends the matching.
Match(e) ==
    /\ pc[e] = "match" /\ todo[e] # {}
    /\ LET r == NextRule(e)
           a == RuleTable[r].agent
           new == Usable(a) /\ ~ Picked(e, a)
       IN /\ todo' = [todo EXCEPT ![e] = IF new /\ Full(e) THEN {} ELSE @ \ {r}]
          /\ picks' = IF new /\ ~ Full(e)
                      THEN [picks EXCEPT ![e] =
                                Append(@, [agent |-> a, rule |-> r])]
                      ELSE picks
    /\ UNCHANGED <<tables, status, rows, unmatched, pc, offered, past, toggles,
                   errors>>

Fallback(e) == picks[e] = <<>> /\ UseClassifier

Matched(e) ==
    /\ pc[e] = "match" /\ todo[e] = {}
    /\ Goto(e, IF Fallback(e) THEN "offer"
               ELSE IF picks[e] = <<>> THEN "unmatched" ELSE "create")
    /\ UNCHANGED <<tables, status, rows, unmatched, todo, offered, picks, past,
                   toggles, errors>>

-----------------------------------------------------------------------------
(* The classifier, and the event nobody wants.                              *)

\* Mutant: disabled agents are offered too.
Active_All == agents
Active == agents \cap up

Offer(e) ==
    /\ pc[e] = "offer"
    /\ offered' = [offered EXCEPT ![e] = Active]
    /\ Goto(e, IF Active = {} THEN "unmatched" ELSE "ask")
    /\ UNCHANGED <<tables, status, rows, unmatched, todo, picks, past, toggles,
                   errors>>

Upto(n) == UNION {[1 .. k -> Agents] : k \in 0 .. n}

\* The model names agents it was offered, perhaps one of them twice; none at
\* all stands for no_op, an answer nobody can parse, and an error.
Answer(e) ==
    /\ pc[e] = "ask"
    /\ \E s \in Upto(MaxAnswer) :
          /\ ToSet(s) \subseteq offered[e]
          /\ picks' = [picks EXCEPT ![e] = @ \o
                [i \in 1 .. Min({Len(s), MaxFanOut}) |->
                    [agent |-> s[i], rule |-> None]]]
          /\ Goto(e, IF s = <<>> THEN "unmatched" ELSE "create")
    /\ UNCHANGED <<tables, status, rows, unmatched, todo, offered, past, toggles,
                   errors>>

\* Mutant: the event stays as it was received.
Unmatched_Silent(e) ==
    /\ pc[e] = "unmatched"
    /\ unmatched' = unmatched \cup {e}
    /\ Goto(e, "done")
    /\ UNCHANGED <<tables, status, rows, todo, offered, picks, past, toggles,
                   errors>>

\* A broadcast that raises after the update loses system.unmatched.
Unmatched(e) ==
    /\ pc[e] = "unmatched"
    /\ status' = [status EXCEPT ![e] = "routed"]
    /\ \/ unmatched' = unmatched \cup {e} /\ Goto(e, "done") /\ UNCHANGED errors
       \/ /\ errors < MaxErrors /\ errors' = errors + 1
          /\ Goto(e, "aborted") /\ UNCHANGED unmatched
    /\ UNCHANGED <<tables, rows, todo, offered, picks, past, toggles>>

-----------------------------------------------------------------------------
(* The rows.                                                                *)

RowsOf(e) == {i \in DOMAIN rows : rows[i].event = e}

\* Mutant: nobody looks whether there is a row already.
Exists_Never(e, a) == FALSE
Exists(e, a) == \E i \in RowsOf(e) : rows[i].agent = a

\* One pick: a row, unless there is one; the foreign key of a deleted agent
\* ends the routing of the event where it is.
Create(e) ==
    /\ pc[e] = "create" /\ picks[e] # <<>>
    /\ LET p == Head(picks[e])
       IN IF Exists(e, p.agent)
          THEN picks' = [picks EXCEPT ![e] = Tail(@)] /\ UNCHANGED <<rows, pc>>
          ELSE IF p.agent \notin agents
          THEN Goto(e, "aborted") /\ UNCHANGED <<rows, picks>>
          ELSE /\ rows' = Append(rows, [event |-> e, agent |-> p.agent,
                                        rule |-> p.rule, state |-> "pending"])
               /\ picks' = [picks EXCEPT ![e] = Tail(@)]
               /\ UNCHANGED pc
    /\ UNCHANGED <<tables, status, unmatched, todo, offered, past, toggles,
                   errors>>

\* Whatever the agents, woken already, have made of the event by now.
Assigned(e) ==
    /\ pc[e] = "create" /\ picks[e] = <<>>
    /\ status' = [status EXCEPT ![e] = "assigned"]
    /\ Goto(e, "done")
    /\ UNCHANGED <<tables, rows, unmatched, todo, offered, picks, past, toggles,
                   errors>>

Route(e) == \/ List(e) \/ Match(e) \/ Matched(e) \/ Offer(e) \/ Answer(e)
            \/ Unmatched(e) \/ Create(e) \/ Assigned(e)

-----------------------------------------------------------------------------
(* Meanwhile.                                                               *)

\* A consumer takes a row, and finishes it; each time the event follows.
Begin(i) ==
    /\ rows[i].state = "pending"
    /\ rows' = [rows EXCEPT ![i].state = "running"]
    /\ status' = [status EXCEPT ![rows[i].event] = "processing"]
    /\ UNCHANGED <<tables, unmatched, locals, past, toggles, errors>>

Finish(i) ==
    /\ rows[i].state = "running"
    /\ \E s \in {"completed", "failed"} :
          /\ rows' = [rows EXCEPT ![i].state = s]
          /\ status' = [status EXCEPT ![rows[i].event] = s]
    /\ UNCHANGED <<tables, unmatched, locals, past, toggles, errors>>

\* The expiry sweep, for an event that has outlived its expires_at.
Expire(e) ==
    /\ status[e] \notin {"expired", "completed", "failed"}
    /\ status' = [status EXCEPT ![e] = "expired"]
    /\ UNCHANGED <<tables, rows, unmatched, locals, past, toggles, errors>>

Toggle == toggles < MaxToggles /\ toggles' = toggles + 1

Disable(a) ==
    /\ a \in agents \cap up /\ Toggle
    /\ up' = up \ {a} /\ flaky' = flaky \cup {a}
    /\ UNCHANGED <<shape, agents, rules, status, rows, unmatched, locals, ever,
                   errors>>

Enable(a) ==
    /\ a \in agents \ up /\ Toggle
    /\ up' = up \cup {a}
    /\ ever' = [e \in Events |-> ever[e] \cup {a}]
    /\ UNCHANGED <<shape, agents, rules, status, rows, unmatched, locals, flaky,
                   errors>>

DeleteRule(r) ==
    /\ r \in rules /\ Toggle
    /\ rules' = rules \ {r}
    /\ UNCHANGED <<shape, agents, up, status, rows, unmatched, locals, past,
                   errors>>

\* The foreign keys keep an agent that a rule or an assignment refers to.
DeleteAgent(a) ==
    /\ a \in agents /\ Toggle
    /\ \A r \in rules : RuleTable[r].agent # a
    /\ \A i \in DOMAIN rows : rows[i].agent # a
    /\ agents' = agents \ {a} /\ flaky' = flaky \cup {a}
    /\ UNCHANGED <<shape, up, rules, status, rows, unmatched, locals, ever,
                   errors>>

Resting ==
    /\ \A e \in Events : pc[e] \in {"done", "aborted"}
    /\ UNCHANGED vars

Next == \/ \E e \in Events : Route(e) \/ Expire(e)
        \/ \E i \in DOMAIN rows : Begin(i) \/ Finish(i)
        \/ \E a \in Agents : Disable(a) \/ Enable(a) \/ DeleteAgent(a)
        \/ \E r \in Rules : DeleteRule(r)
        \/ Resting

Spec == Init /\ [][Next]_vars
=============================================================================
