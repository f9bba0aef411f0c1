-------------------------- MODULE RoutingProperties --------------------------
(* What routing must keep while agents, rules and workers change under it.  *)
EXTENDS Routing

\* The tables, the routing tasks' locals and the histories hold what they should.
Row  == [event : Events, agent : Agents, rule : Rules \cup {None},
         state : {"pending", "running", "completed", "failed"}]
Pick == [agent : Agents, rule : Rules \cup {None}]

TypeOK ==
    /\ shape \in [Events -> Shapes]
    /\ agents \subseteq Agents /\ up \subseteq Agents /\ rules \subseteq Rules
    /\ status \in [Events -> {"received", "routed", "assigned", "processing",
                              "completed", "failed", "expired"}]
    /\ rows \in Seq(Row) /\ unmatched \subseteq Events
    /\ pc \in [Events -> {"new", "match", "offer", "ask", "unmatched", "create",
                          "done", "aborted"}]
    /\ todo \in [Events -> SUBSET Rules]
    /\ offered \in [Events -> SUBSET Agents]
    /\ picks \in [Events -> Seq(Pick)]
    /\ flaky \subseteq Agents /\ ever \in [Events -> SUBSET Agents]
    /\ toggles \in Nat /\ errors \in Nat

Routed(e) == {rows[i].agent : i \in RowsOf(e)}

\* An event becomes at most one row per agent, whoever picked the agent: rules
\* that name it twice are caught while matching, a model that names it twice
\* only by the look at event_assignments before the INSERT.
OneRowPerAgent ==
    \A e \in Events : Cardinality(RowsOf(e)) = Cardinality(Routed(e))

\* No row for an agent that was disabled all the time the event was routed: a
\* rule's agent is read when the rule's turn comes and the classifier is
\* offered active agents only, though either may be disabled again by the time
\* its row is written.
AgentWasUp == \A e \in Events : Routed(e) \subseteq ever[e]

\* The fan-out limit cuts from the end of the priority order: when an event got
\* a row by one rule, an agent that was up throughout has one too if an earlier
\* rule that still stands names it.
PriorityWins ==
    \A e \in Events : \A i \in RowsOf(e) : \A r \in rules :
        pc[e] = "done" /\ rows[i].rule # None /\ r < rows[i].rule
        /\ RuleMatches(r, e) /\ RuleTable[r].agent \notin flaky
            => RuleTable[r].agent \in Routed(e)

\* What an event's status says of its rows, however workers and the expiry
\* sweep raced the router for it: one that work was done on has rows, one that
\* was only routed has none, and none that was routed to the end is left as it
\* was received.
StatusTells(e) ==
    /\ status[e] \in {"assigned", "processing", "completed", "failed"}
           => RowsOf(e) # {}
    /\ status[e] = "routed" => RowsOf(e) = {}
    /\ pc[e] = "done" /\ shape[e].topic \notin SystemTopics
           => /\ status[e] # "received"
              /\ e \in unmatched <=> RowsOf(e) = {}

StatusTellsOfRows == \A e \in Events : StatusTells(e)

-----------------------------------------------------------------------------
(* The inductive invariant behind the properties above.                     *)

Choosing == {"match", "offer", "ask"}

\* An event has rows only once its picks are being written; the picks are gone
\* when they are; and only an event that ended without rows is called routed.
Staged(e) ==
    /\ pc[e] \in Choosing \cup {"new", "unmatched"} => RowsOf(e) = {}
    /\ pc[e] \in {"new", "offer", "ask", "unmatched", "done"} => picks[e] = <<>>
    /\ pc[e] = "create" => picks[e] # <<>> \/ RowsOf(e) # {}
    /\ e \in unmatched => pc[e] = "done" /\ RowsOf(e) = {}
    /\ status[e] = "routed" => pc[e] \in {"done", "aborted"} /\ RowsOf(e) = {}

\* No two rows of an event are for the same agent.
Distinct(e) == \A i, j \in RowsOf(e) : rows[i].agent = rows[j].agent => i = j

\* Whoever is up while agents are chosen for an event goes into its history, and
\* only from there come the agents offered, picked and given a row.
Recorded(e) ==
    /\ pc[e] \in Choosing => up \subseteq ever[e]
    /\ pc[e] = "ask" => offered[e] \subseteq ever[e]
    /\ \A i \in DOMAIN picks[e] : picks[e][i].agent \in ever[e]
    /\ Routed(e) \subseteq ever[e]

\* A rule of the event that still stands, for an agent that was always up.
Wants(r, e) == r \in rules /\ RuleMatches(r, e) /\ RuleTable[r].agent \notin flaky

\* While the rules are matched: what is picked comes before what is to do, and a
\* rule that is dealt with was picked, or came too late for the fan-out limit.
InOrder(e) ==
    pc[e] = "match" =>
        /\ \A i \in DOMAIN picks[e] : picks[e][i].rule # None
        /\ \A i \in DOMAIN picks[e] : \A r \in todo[e] : picks[e][i].rule < r
        /\ \A r \in Rules : Wants(r, e) =>
              \/ r \in todo[e]
              \/ Picked(e, RuleTable[r].agent)
              \/ todo[e] = {} /\ \A i \in DOMAIN picks[e] : picks[e][i].rule < r

Later(rule, r) == rule # None /\ r < rule

\* While the rows are written: an agent that a rule wants has a row or is still
\* picked if a later rule has a row or is still picked.
Served(e) ==
    \A r \in Rules :
        /\ pc[e] \in {"create", "done"} /\ Wants(r, e)
        /\ \/ \E i \in RowsOf(e) : Later(rows[i].rule, r)
           \/ \E i \in DOMAIN picks[e] : Later(picks[e][i].rule, r)
        => RuleTable[r].agent \in Routed(e) \/ Picked(e, RuleTable[r].agent)

RoutingInv ==
    /\ Agents \ flaky \subseteq agents \cap up
    /\ \A e \in Events : Staged(e) /\ Distinct(e) /\ Recorded(e)
    /\ \A e \in Events : InOrder(e) /\ Served(e)
    /\ StatusTellsOfRows
=============================================================================
