---------------------------- MODULE RoutingProofs ----------------------------
(***************************************************************************)
(* Proofs about AssignmentManager.route_event for any number of events,     *)
(* agents and rules.  The invariant speaks of each event by itself, so a    *)
(* step is of one of two kinds: one of the event's own task, with a lemma   *)
(* per action, and any other, of another event's task, a worker, the sweep  *)
(* or an operator, which leaves the event Untouched.                        *)
(***************************************************************************)
EXTENDS RoutingProperties, FiniteSetTheorems, WellFoundedInduction, TLAPS

-----------------------------------------------------------------------------
(* The constants, and the operators of the libraries.                       *)

LEMMA SmallestExists ==
    ASSUME NEW S \in SUBSET Nat, S # {}
    PROVE  Min(S) \in S /\ \A n \in S : Min(S) <= n
<1>1. PICK m \in S : \A n \in S : <<n, m>> \notin OpToRel(<, Nat)
  BY NatLessThanWellFounded, WFMin
<1>2. \A n \in S : m <= n
  <2> SUFFICES ASSUME NEW n \in S, n < m PROVE FALSE
    OBVIOUS
  <2>1. <<n, m>> \in Nat \X Nat /\ <<n, m>>[1] < <<n, m>>[2]
    OBVIOUS
  <2>2. <<n, m>> \in OpToRel(<, Nat)
    BY <2>1 DEF OpToRel
  <2> QED BY <1>1, <2>2
<1> QED BY <1>1, <1>2 DEF Min

LEMMA SmallerOf ==
    ASSUME NEW a \in Nat, NEW b \in Nat
    PROVE  /\ Min({a, b}) \in Nat /\ Min({a, b}) <= a /\ Min({a, b}) <= b
           /\ a > 0 /\ b > 0 => Min({a, b}) > 0
<1>1. Min({a, b}) \in {a, b} /\ \A n \in {a, b} : Min({a, b}) <= n
  BY SmallestExists
<1> QED BY <1>1

LEMMA RuleNumbers ==
    /\ Rules \subseteq Nat /\ None \notin Rules
    /\ \A r \in Rules : RuleTable[r].agent \in Agents
BY RoutingAssumption DEF RoutingAssumption

LEMMA NextIsFirst ==
    ASSUME TypeOK, NEW e \in Events, todo[e] # {}
    PROVE  /\ NextRule(e) \in todo[e] /\ NextRule(e) \in Rules
           /\ \A r \in todo[e] \ {NextRule(e)} : NextRule(e) < r
<1>1. todo[e] \in SUBSET Rules /\ todo[e] \subseteq Nat
  BY RuleNumbers DEF TypeOK
<1>2. NextRule(e) \in todo[e] /\ \A r \in todo[e] : NextRule(e) <= r
  BY <1>1, SmallestExists DEF NextRule
<1> QED BY <1>1, <1>2

\* What the classifier's answer adds to the picks, which were none.
LEMMA AnswersAre ==
    ASSUME TypeOK, NEW e \in Events, picks[e] = <<>>, Answer(e)
    PROVE  \E s \in Seq(Pick) :
              /\ picks' = [picks EXCEPT ![e] = s]
              /\ \A i \in DOMAIN s : s[i].agent \in offered[e] /\ s[i].rule = None
              /\ IF s = <<>> THEN Goto(e, "unmatched") ELSE Goto(e, "create")
<1>1. PICK s \in Upto(MaxAnswer) :
         /\ ToSet(s) \subseteq offered[e]
         /\ picks' = [picks EXCEPT ![e] = @ \o
                [i \in 1 .. Min({Len(s), MaxFanOut}) |->
                    [agent |-> s[i], rule |-> None]]]
         /\ Goto(e, IF s = <<>> THEN "unmatched" ELSE "create")
  BY DEF Answer
<1>2. PICK k \in Nat : s \in [1 .. k -> Agents]
  BY <1>1, RoutingAssumption DEF Upto, RoutingAssumption
<1>3. s \in Seq(Agents) /\ Len(s) = k /\ DOMAIN s = 1 .. k
  BY <1>2
<1> DEFINE m == Min({Len(s), MaxFanOut})
           f == [i \in 1 .. m |-> [agent |-> s[i], rule |-> None]]
<1>4. m \in Nat /\ m <= k /\ (k > 0 => m > 0)
  BY <1>3, SmallerOf, RoutingAssumption DEF RoutingAssumption
<1> HIDE DEF m
<1>5. \A i \in 1 .. m : s[i] \in Agents /\ s[i] \in offered[e]
  BY <1>1, <1>2, <1>3, <1>4 DEF ToSet
<1>6. f \in Seq(Pick) /\ Len(f) = m
  BY <1>4, <1>5 DEF Pick
<1>7. picks[e] \o f = f
  BY <1>6
<1>8. picks' = [picks EXCEPT ![e] = f]
  BY <1>1, <1>7 DEF m
<1>9. s = <<>> <=> f = <<>>
  BY <1>3, <1>4, <1>6
<1> QED BY <1>1, <1>5, <1>6, <1>8, <1>9

-----------------------------------------------------------------------------
(* Rows as they are written, and as work is done on them.                   *)

\* A step that changes no row, or only the state of one.
Worked == /\ DOMAIN rows' = DOMAIN rows
          /\ \A i \in DOMAIN rows : /\ rows'[i].event = rows[i].event
                                    /\ rows'[i].agent = rows[i].agent
                                    /\ rows'[i].rule = rows[i].rule

LEMMA WorkedRows ==
    ASSUME Worked, NEW e
    PROVE  RowsOf(e)' = RowsOf(e) /\ Routed(e)' = Routed(e)
BY DEF Worked, RowsOf, Routed

LEMMA WorkIsWorked ==
    ASSUME TypeOK, UNCHANGED rows \/ (\E i \in DOMAIN rows : Begin(i) \/ Finish(i))
    PROVE  Worked
<1>1. CASE UNCHANGED rows BY <1>1 DEF Worked
<1>2. ASSUME NEW i \in DOMAIN rows, Begin(i) \/ Finish(i) PROVE Worked
  <2>1. PICK s \in {"running", "completed", "failed"} :
           rows' = [rows EXCEPT ![i].state = s]
    BY <1>2 DEF Begin, Finish
  <2>2. rows \in Seq(Row) BY DEF TypeOK
  <2> QED BY <2>1, <2>2 DEF Worked, Row
<1> QED BY <1>1, <1>2

LEMMA NewRow ==
    ASSUME TypeOK, NEW row \in Row, rows' = Append(rows, row), NEW e
    PROVE  /\ RowsOf(e)' = RowsOf(e) \cup (IF row.event = e THEN {Len(rows) + 1} ELSE {})
           /\ Routed(e)' = Routed(e) \cup (IF row.event = e THEN {row.agent} ELSE {})
           /\ rows'[Len(rows) + 1] = row
           /\ Len(rows) + 1 \notin RowsOf(e)
           /\ \A i \in RowsOf(e) : rows'[i] = rows[i]
<1>1. /\ rows \in Seq(Row) /\ Len(rows) \in Nat /\ DOMAIN rows = 1 .. Len(rows)
      /\ DOMAIN rows' = 1 .. Len(rows) + 1
      /\ rows'[Len(rows) + 1] = row /\ \A i \in 1 .. Len(rows) : rows'[i] = rows[i]
  BY DEF TypeOK
<1>2. RowsOf(e)' = RowsOf(e) \cup (IF row.event = e THEN {Len(rows) + 1} ELSE {})
  BY <1>1 DEF RowsOf
<1>3. Len(rows) + 1 \notin RowsOf(e) /\ \A i \in RowsOf(e) : rows'[i] = rows[i]
  BY <1>1 DEF RowsOf
<1>4. Routed(e)' = Routed(e) \cup (IF row.event = e THEN {row.agent} ELSE {})
  <2>1. CASE row.event = e
    <3>1. RowsOf(e)' = RowsOf(e) \cup {Len(rows) + 1} BY <1>2, <2>1
    <3>2. Routed(e)' = {rows'[i].agent : i \in RowsOf(e) \cup {Len(rows) + 1}}
      BY <3>1 DEF Routed
    <3>3. Routed(e)' = {rows[i].agent : i \in RowsOf(e)} \cup {row.agent}
      BY <1>1, <1>3, <3>2
    <3> QED BY <2>1, <3>3 DEF Routed
  <2>2. CASE row.event # e
    <3>1. RowsOf(e)' = RowsOf(e) BY <1>2, <2>2
    <3>2. Routed(e)' = Routed(e) BY <1>3, <3>1 DEF Routed
    <3> QED BY <2>2, <3>2
  <2> QED BY <2>1, <2>2
<1> QED BY <1>1, <1>2, <1>3, <1>4

\* The first pick of an event is written, skipped or in the way.
LEMMA CreateSteps ==
    ASSUME TypeOK, NEW e \in Events, Create(e)
    PROVE  LET p == Head(picks[e])
           IN /\ p \in Pick /\ p = picks[e][1] /\ 1 \in DOMAIN picks[e]
              /\ \A f \in Events \ {e} : pc'[f] = pc[f] /\ picks'[f] = picks[f]
              /\ \/ /\ \E i \in RowsOf(e) : rows[i].agent = p.agent
                    /\ picks'[e] = Tail(picks[e]) /\ UNCHANGED <<rows, pc>>
                 \/ pc'[e] = "aborted" /\ UNCHANGED <<rows, picks>>
                 \/ /\ \A i \in RowsOf(e) : rows[i].agent # p.agent
                    /\ picks'[e] = Tail(picks[e]) /\ UNCHANGED pc
                    /\ \E row \in Row : /\ row.event = e /\ row.agent = p.agent
                                        /\ row.rule = p.rule
                                        /\ rows' = Append(rows, row)
<1> DEFINE p == Head(picks[e])
<1>1. p \in Pick /\ p = picks[e][1] /\ 1 \in DOMAIN picks[e]
  BY DEF Create, TypeOK
<1>2. \A f \in Events \ {e} : pc'[f] = pc[f] /\ picks'[f] = picks[f]
  BY DEF Create, Goto, TypeOK
<1>3. CASE Exists(e, p.agent)
  BY <1>1, <1>3 DEF Create, Exists, TypeOK
<1>4. CASE ~ Exists(e, p.agent) /\ p.agent \notin agents
  BY <1>1, <1>4 DEF Create, Goto, TypeOK
<1>5. CASE ~ Exists(e, p.agent) /\ p.agent \in agents
  <2>1. /\ rows' = Append(rows, [event |-> e, agent |-> p.agent, rule |-> p.rule, state |-> "pending"])
        /\ picks'[e] = Tail(picks[e]) /\ UNCHANGED pc
    BY <1>5 DEF Create, TypeOK
  <2>2. [event |-> e, agent |-> p.agent, rule |-> p.rule, state |-> "pending"] \in Row
    BY <1>1 DEF Row, Pick
  <2> QED BY <1>1, <1>2, <1>5, <2>1, <2>2 DEF Exists
<1> QED BY <1>1, <1>2, <1>3, <1>4, <1>5

LEMMA TailOf ==
    ASSUME NEW s \in Seq(Pick), s # <<>>
    PROVE  /\ Tail(s) \in Seq(Pick)
           /\ \A i \in DOMAIN Tail(s) : i + 1 \in DOMAIN s /\ Tail(s)[i] = s[i + 1]
           /\ \A i \in DOMAIN s : i = 1 \/ (i - 1 \in DOMAIN Tail(s) /\ Tail(s)[i - 1] = s[i])
OBVIOUS

-----------------------------------------------------------------------------
(* Type correctness.                                                        *)

LEMMA TypeInit == Init => TypeOK
BY DEF Init, TypeOK

LEMMA RouteType ==
    ASSUME TypeOK, NEW e \in Events, Staged(e), Route(e)
    PROVE  TypeOK'
<1> USE DEF tables, past, Goto
<1>1. CASE List(e)
  <2>1. {r \in rules : RuleMatches(r, e)} \in SUBSET Rules BY DEF TypeOK
  <2> QED BY <1>1, <2>1 DEF List, TypeOK
<1>2. CASE Match(e)
  <2>1. NextRule(e) \in Rules /\ RuleTable[NextRule(e)].agent \in Agents
    BY <1>2, NextIsFirst, RuleNumbers DEF Match
  <2>2. [agent |-> RuleTable[NextRule(e)].agent, rule |-> NextRule(e)] \in Pick
    BY <2>1 DEF Pick
  <2>3. picks' \in [Events -> Seq(Pick)]
    BY <1>2, <2>2 DEF Match, TypeOK
  <2>4. todo' \in [Events -> SUBSET Rules]
    BY <1>2 DEF Match, TypeOK
  <2> QED BY <1>2, <2>3, <2>4 DEF Match, TypeOK
<1>3. CASE Matched(e) BY <1>3 DEF Matched, TypeOK
<1>4. CASE Offer(e)
  <2>1. Active \subseteq Agents BY DEF Active, TypeOK
  <2> QED BY <1>4, <2>1 DEF Offer, TypeOK
<1>5. CASE Answer(e)
  <2>1. picks[e] = <<>> BY <1>5 DEF Answer, Staged
  <2>2. PICK s \in Seq(Pick) : /\ picks' = [picks EXCEPT ![e] = s]
                               /\ IF s = <<>> THEN Goto(e, "unmatched") ELSE Goto(e, "create")
    BY <1>5, <2>1, AnswersAre
  <2>3. UNCHANGED <<tables, status, rows, unmatched, todo, offered, past, toggles, errors>>
    BY <1>5 DEF Answer
  <2> QED BY <2>2, <2>3 DEF TypeOK
<1>6. CASE Unmatched(e)
  <2>1. \E label \in {"done", "aborted"} : Goto(e, label)
    BY <1>6 DEF Unmatched
  <2>2. unmatched' \subseteq Events /\ errors' \in Nat
    BY <1>6 DEF Unmatched, TypeOK
  <2>3. status' = [status EXCEPT ![e] = "routed"]
    BY <1>6 DEF Unmatched
  <2>4. UNCHANGED <<tables, rows, todo, offered, picks, past, toggles>>
    BY <1>6 DEF Unmatched
  <2> QED BY <2>1, <2>2, <2>3, <2>4 DEF TypeOK
<1>7. CASE Create(e)
  <2>1. pc' \in [Events -> {"new", "match", "offer", "ask", "unmatched", "create", "done", "aborted"}]
    BY <1>7 DEF Create, TypeOK
  <2>2. picks' \in [Events -> Seq(Pick)]
    <3>1. picks \in [Events -> Seq(Pick)] /\ picks[e] # <<>>
      BY <1>7 DEF Create, TypeOK
    <3>2. picks' = picks \/ picks' = [picks EXCEPT ![e] = Tail(picks[e])]
      BY <1>7 DEF Create
    <3>3. Tail(picks[e]) \in Seq(Pick) BY <3>1, TailOf
    <3> QED BY <3>1, <3>2, <3>3
  <2>3. rows' \in Seq(Row)
    <3>1. rows \in Seq(Row) BY DEF TypeOK
    <3>2. CASE UNCHANGED rows BY <3>1, <3>2
    <3>3. ASSUME NEW row \in Row, rows' = Append(rows, row) PROVE rows' \in Seq(Row)
      BY <3>1, <3>3
    <3> QED BY <1>7, <3>2, <3>3, CreateSteps
  <2> QED BY <1>7, <2>1, <2>2, <2>3 DEF Create, TypeOK
<1>8. CASE Assigned(e) BY <1>8 DEF Assigned, TypeOK
<1> QED BY <1>1, <1>2, <1>3, <1>4, <1>5, <1>6, <1>7, <1>8 DEF Route

LEMMA TypeNext ==
    ASSUME TypeOK, \A e \in Events : Staged(e), [Next]_vars PROVE TypeOK'
<1> USE DEF tables, locals, past
<1>1. ASSUME NEW e \in Events, Expire(e) PROVE TypeOK'
  BY <1>1 DEF Expire, TypeOK
<1>2. ASSUME NEW i \in DOMAIN rows, Begin(i) \/ Finish(i) PROVE TypeOK'
  <2>1. PICK s \in {"running", "completed", "failed"}, t \in {"processing", "completed", "failed"} :
           /\ rows' = [rows EXCEPT ![i].state = s]
           /\ status' = [status EXCEPT ![rows[i].event] = t]
    BY <1>2 DEF Begin, Finish
  <2>2. rows' \in Seq(Row)
    <3>1. rows \in Seq(Row) /\ rows[i] \in Row BY DEF TypeOK
    <3>2. [rows[i] EXCEPT !.state = s] \in Row BY <3>1 DEF Row
    <3>3. rows' = [rows EXCEPT ![i] = [rows[i] EXCEPT !.state = s]] BY <2>1
    <3> QED BY <3>1, <3>2, <3>3
  <2>3. status' \in [Events -> {"received", "routed", "assigned", "processing",
                                "completed", "failed", "expired"}]
    BY <2>1 DEF TypeOK
  <2> QED BY <1>2, <2>2, <2>3 DEF Begin, Finish, TypeOK
<1>3. ASSUME NEW a \in Agents, Disable(a) \/ Enable(a) \/ DeleteAgent(a) PROVE TypeOK'
  BY <1>3 DEF Disable, Enable, DeleteAgent, Toggle, TypeOK
<1>4. ASSUME NEW r \in Rules, DeleteRule(r) PROVE TypeOK'
  BY <1>4 DEF DeleteRule, Toggle, TypeOK
<1>5. CASE Resting \/ UNCHANGED vars
  BY <1>5 DEF Resting, vars, TypeOK
<1> QED BY <1>1, <1>2, <1>3, <1>4, <1>5, RouteType DEF Next

-----------------------------------------------------------------------------
(* What a step leaves of an event it is not about.                          *)

EventInv(e) == /\ Staged(e) /\ Distinct(e) /\ Recorded(e)
               /\ InOrder(e) /\ Served(e) /\ StatusTells(e)

\* The event's task and rows stay; its status may expire or follow a row; what
\* stands and is up throughout shrinks, its history grows.
Untouched(e) ==
    /\ pc'[e] = pc[e] /\ todo'[e] = todo[e]
    /\ offered'[e] = offered[e] /\ picks'[e] = picks[e]
    /\ RowsOf(e)' = RowsOf(e)
    /\ \A i \in RowsOf(e) : rows'[i].agent = rows[i].agent /\ rows'[i].rule = rows[i].rule
    /\ e \in unmatched' <=> e \in unmatched
    /\ \/ status'[e] \in {status[e], "expired"}
       \/ status'[e] \in {"processing", "completed", "failed"} /\ RowsOf(e) # {}
    /\ shape' = shape /\ rules' \subseteq rules /\ flaky \subseteq flaky'
    /\ ever[e] \subseteq ever'[e]
    /\ pc[e] \in Choosing => up' \subseteq ever'[e]

LEMMA SameWants ==
    ASSUME shape' = shape, rules' \subseteq rules, flaky \subseteq flaky',
           NEW r, NEW e, Wants(r, e)'
    PROVE  Wants(r, e)
BY DEF Wants, RuleMatches

LEMMA UntouchedKept ==
    ASSUME NEW e \in Events, EventInv(e), Untouched(e)
    PROVE  EventInv(e)'
<1>1. RowsOf(e)' = RowsOf(e) /\ Routed(e)' = Routed(e)
  BY DEF Untouched, Routed
<1>2. \A a : Picked(e, a)' <=> Picked(e, a)
  BY DEF Untouched, Picked
<1>3. \A r : Wants(r, e)' => Wants(r, e)
  BY SameWants DEF Untouched
<1>4. Staged(e)'
  BY <1>1 DEF Untouched, EventInv, Staged, Choosing
<1>5. Distinct(e)'
  BY <1>1 DEF Untouched, EventInv, Distinct
<1>6. Recorded(e)'
  BY <1>1 DEF Untouched, EventInv, Recorded
<1>7. InOrder(e)'
  BY <1>2, <1>3 DEF Untouched, EventInv, InOrder
<1>8. Served(e)'
  BY <1>1, <1>2, <1>3 DEF Untouched, EventInv, Served
<1>9. StatusTells(e)'
  BY <1>1 DEF Untouched, EventInv, StatusTells
<1> QED BY <1>4, <1>5, <1>6, <1>7, <1>8, <1>9 DEF EventInv

LEMMA RouteLeavesTables ==
    ASSUME NEW e \in Events, Route(e)
    PROVE  UNCHANGED <<shape, agents, up, rules, flaky>>
BY DEF Route, List, Match, Matched, Offer, Answer, Unmatched, Create, Assigned,
       tables, past

LEMMA RouteLeavesOthers ==
    ASSUME TypeOK, NEW e \in Events, Route(e), NEW f \in Events \ {e}, EventInv(f)
    PROVE  Untouched(f)
<1> USE DEF tables, past, Goto
<1>0. UNCHANGED <<shape, agents, up, rules, flaky>>
  BY RouteLeavesTables
<1>1. pc'[f] = pc[f]
  BY DEF Route, List, Match, Matched, Offer, Answer, Unmatched, Create, Assigned, TypeOK
<1>2. todo'[f] = todo[f]
  BY DEF Route, List, Match, Matched, Offer, Answer, Unmatched, Create, Assigned, TypeOK
<1>3. offered'[f] = offered[f]
  BY DEF Route, List, Match, Matched, Offer, Answer, Unmatched, Create, Assigned, TypeOK
<1>4. picks'[f] = picks[f]
  BY DEF Route, List, Match, Matched, Offer, Answer, Unmatched, Create, Assigned, TypeOK
<1>5. status'[f] = status[f]
  BY DEF Route, List, Match, Matched, Offer, Answer, Unmatched, Create, Assigned, TypeOK
<1>6. ever'[f] = ever[f]
  BY DEF Route, List, Match, Matched, Offer, Answer, Unmatched, Create, Assigned, TypeOK
<1>7. f \in unmatched' <=> f \in unmatched
  BY DEF Route, List, Match, Matched, Offer, Answer, Unmatched, Create, Assigned
<1>8. RowsOf(f)' = RowsOf(f) /\ \A i \in RowsOf(f) : rows'[i] = rows[i]
  <2>1. CASE UNCHANGED rows BY <2>1 DEF RowsOf
  <2>2. ASSUME NEW row \in Row, row.event = e, rows' = Append(rows, row)
        PROVE  RowsOf(f)' = RowsOf(f) /\ \A i \in RowsOf(f) : rows'[i] = rows[i]
    <3>1. row.event # f BY <2>2
    <3>2. /\ RowsOf(f)' = RowsOf(f) \cup (IF row.event = f THEN {Len(rows) + 1} ELSE {})
          /\ \A i \in RowsOf(f) : rows'[i] = rows[i]
      BY <2>2, NewRow
    <3> QED BY <3>1, <3>2
  <2>3. CASE Create(e) BY <2>1, <2>2, <2>3, CreateSteps
  <2>4. CASE ~ Create(e)
    <3>1. UNCHANGED rows
      BY <2>4 DEF Route, List, Match, Matched, Offer, Answer, Unmatched, Assigned
    <3> QED BY <2>1, <3>1
  <2> QED BY <2>3, <2>4
<1>9. pc[f] \in Choosing => up' \subseteq ever'[f]
  BY <1>0, <1>6 DEF EventInv, Recorded
<1> QED BY <1>0, <1>1, <1>2, <1>3, <1>4, <1>5, <1>6, <1>7, <1>8, <1>9 DEF Untouched

Meanwhile == \/ \E e \in Events : Expire(e)
             \/ \E i \in DOMAIN rows : Begin(i) \/ Finish(i)
             \/ \E a \in Agents : Disable(a) \/ Enable(a) \/ DeleteAgent(a)
             \/ \E r \in Rules : DeleteRule(r)
             \/ Resting
             \/ UNCHANGED vars

LEMMA MeanwhileLeaves ==
    ASSUME TypeOK, Meanwhile, NEW e \in Events, EventInv(e)
    PROVE  Untouched(e)
<1> USE DEF tables, locals, past
<1>1. UNCHANGED <<shape, unmatched, pc, todo, offered, picks>>
  BY DEF Meanwhile, Expire, Begin, Finish, Disable, Enable, DeleteAgent, DeleteRule,
         Resting, vars
<1>2. rules' \subseteq rules /\ flaky \subseteq flaky'
  BY DEF Meanwhile, Expire, Begin, Finish, Disable, Enable, DeleteAgent, DeleteRule,
         Resting, vars
<1>3. Worked
  <2>1. UNCHANGED rows \/ (\E i \in DOMAIN rows : Begin(i) \/ Finish(i))
    BY DEF Meanwhile, Expire, Disable, Enable, DeleteAgent, DeleteRule, Resting, vars
  <2> QED BY <2>1, WorkIsWorked
<1>4. /\ RowsOf(e)' = RowsOf(e)
      /\ \A i \in RowsOf(e) : rows'[i].agent = rows[i].agent /\ rows'[i].rule = rows[i].rule
  BY <1>3, WorkedRows DEF Worked, RowsOf
<1>5. \/ UNCHANGED ever /\ up' \subseteq up
      \/ \E a \in Agents : /\ up' = up \cup {a}
                          /\ ever[e] \subseteq ever'[e] /\ a \in ever'[e]
  <2>1. ASSUME NEW a \in Agents, Enable(a)
        PROVE  up' = up \cup {a} /\ ever[e] \subseteq ever'[e] /\ a \in ever'[e]
    BY <2>1 DEF Enable
  <2>2. CASE ~ \E a \in Agents : Enable(a)
    BY <2>2 DEF Meanwhile, Expire, Begin, Finish, Disable, DeleteAgent, DeleteRule,
                Resting, vars
  <2> QED BY <2>1, <2>2
<1>6. pc[e] \in Choosing => up' \subseteq ever'[e]
  BY <1>5 DEF EventInv, Recorded
<1>7. \/ status'[e] \in {status[e], "expired"}
      \/ status'[e] \in {"processing", "completed", "failed"} /\ RowsOf(e) # {}
  <2>1. ASSUME NEW f \in Events, Expire(f) PROVE status'[e] \in {status[e], "expired"}
    BY <2>1 DEF Expire, TypeOK
  <2>2. ASSUME NEW i \in DOMAIN rows, Begin(i) \/ Finish(i)
        PROVE  \/ status'[e] = status[e]
               \/ status'[e] \in {"processing", "completed", "failed"} /\ RowsOf(e) # {}
    <3>1. PICK t \in {"processing", "completed", "failed"} :
             status' = [status EXCEPT ![rows[i].event] = t]
      BY <2>2 DEF Begin, Finish
    <3>2. CASE rows[i].event = e BY <3>1, <3>2 DEF RowsOf, TypeOK
    <3>3. CASE rows[i].event # e BY <3>1, <3>3 DEF TypeOK
    <3> QED BY <3>2, <3>3
  <2>3. UNCHANGED status \/ (\E f \in Events : Expire(f))
                         \/ (\E i \in DOMAIN rows : Begin(i) \/ Finish(i))
    BY DEF Meanwhile, Disable, Enable, DeleteAgent, DeleteRule, Resting, vars
  <2> QED BY <2>1, <2>2, <2>3
<1> QED BY <1>1, <1>2, <1>4, <1>5, <1>6, <1>7 DEF Untouched

-----------------------------------------------------------------------------
(* What a step of an event's task keeps of the event.                       *)

LEMMA SameRows ==
    ASSUME UNCHANGED rows, NEW e
    PROVE  RowsOf(e)' = RowsOf(e) /\ Routed(e)' = Routed(e)
BY DEF RowsOf, Routed

LEMMA NoRows == ASSUME NEW e, RowsOf(e) = {} PROVE Routed(e) = {}
BY DEF Routed

LEMMA ListKeeps ==
    ASSUME TypeOK, NEW e \in Events, EventInv(e), List(e)
    PROVE  EventInv(e)'
<1>0. /\ UNCHANGED <<shape, up, rules, flaky, status, rows, unmatched, picks>>
      /\ pc[e] = "new" /\ RowsOf(e) = {} /\ Routed(e) = {} /\ picks[e] = <<>>
      /\ RowsOf(e)' = {} /\ Routed(e)' = {} /\ picks'[e] = <<>>
      /\ e \notin unmatched /\ status[e] # "routed"
  <2>1. UNCHANGED <<shape, up, rules, flaky, status, rows, unmatched, picks>> /\ pc[e] = "new"
    BY DEF List, tables
  <2>2. RowsOf(e) = {} /\ picks[e] = <<>> /\ e \notin unmatched /\ status[e] # "routed"
    BY <2>1 DEF EventInv, Staged
  <2> QED BY <2>1, <2>2, SameRows, NoRows
<1>1. CASE shape[e].topic \in SystemTopics
  <2>1. pc'[e] = "done" BY <1>1 DEF List, Goto, TypeOK
  <2>2. Staged(e)' BY <1>0, <2>1 DEF Staged, Choosing
  <2>3. Distinct(e)' /\ Recorded(e)' /\ InOrder(e)' /\ Served(e)'
    BY <1>0, <2>1 DEF Distinct, Recorded, InOrder, Served, Choosing
  <2>4. StatusTells(e)' BY <1>0, <1>1, <2>1 DEF EventInv, StatusTells
  <2> QED BY <2>2, <2>3, <2>4 DEF EventInv
<1>2. CASE shape[e].topic \notin SystemTopics
  <2>1. /\ pc'[e] = "match" /\ ever'[e] = up
        /\ todo'[e] = {r \in rules : RuleMatches(r, e)}
    BY <1>2 DEF List, Goto, TypeOK
  <2>2. Staged(e)' BY <1>0, <2>1 DEF Staged, Choosing
  <2>3. Distinct(e)' /\ Recorded(e)' /\ Served(e)'
    BY <1>0, <2>1 DEF Distinct, Recorded, Served, Choosing
  <2>4. InOrder(e)'
    <3>1. \A r \in Rules : Wants(r, e)' => r \in todo'[e]
      BY <1>0, <2>1 DEF Wants, RuleMatches
    <3> QED BY <1>0, <3>1 DEF InOrder
  <2>5. StatusTells(e)' BY <1>0, <2>1 DEF EventInv, StatusTells
  <2> QED BY <2>2, <2>3, <2>4, <2>5 DEF EventInv
<1> QED BY <1>1, <1>2

LEMMA MatchKeeps ==
    ASSUME TypeOK, Agents \ flaky \subseteq agents \cap up,
           NEW e \in Events, EventInv(e), Match(e)
    PROVE  EventInv(e)'
<1> DEFINE r0 == NextRule(e)
           a == RuleTable[r0].agent
           new == Usable(a) /\ ~ Picked(e, a)
<1>0. /\ UNCHANGED <<shape, up, rules, flaky, ever, status, rows, unmatched, pc, offered>>
      /\ pc[e] = "match" /\ RowsOf(e) = {} /\ RowsOf(e)' = {} /\ Routed(e)' = {}
      /\ e \notin unmatched /\ status[e] # "routed"
  <2>1. /\ UNCHANGED <<shape, up, rules, flaky, ever, status, rows, unmatched, pc, offered>>
        /\ pc[e] = "match"
    BY DEF Match, tables, past
  <2>2. RowsOf(e) = {} /\ e \notin unmatched /\ status[e] # "routed"
    BY <2>1 DEF EventInv, Staged, Choosing
  <2> QED BY <2>1, <2>2, SameRows, NoRows
<1>1. /\ r0 \in todo[e] /\ r0 \in Rules /\ a \in Agents /\ r0 # None /\ r0 \in Nat
      /\ \A r \in todo[e] \ {r0} : r0 < r
  <2>1. todo[e] # {} BY DEF Match
  <2> QED BY <2>1, NextIsFirst, RuleNumbers
<1>2. todo'[e] = IF new /\ Full(e) THEN {} ELSE todo[e] \ {r0}
  BY DEF Match, TypeOK
<1>3. picks'[e] = IF new /\ ~ Full(e) THEN Append(picks[e], [agent |-> a, rule |-> r0])
                                      ELSE picks[e]
  BY DEF Match, TypeOK
<1>4. picks[e] \in Seq(Pick) /\ todo[e] \subseteq Rules BY DEF TypeOK
<1>5. Staged(e)' BY <1>0 DEF EventInv, Staged, Choosing
<1>6. Distinct(e)' /\ Served(e)' /\ StatusTells(e)'
  BY <1>0 DEF EventInv, Distinct, Served, StatusTells
<1>7. CASE ~ new \/ Full(e)
  <2>1. picks'[e] = picks[e] BY <1>3, <1>7
  <2>2. Recorded(e)' BY <1>0, <2>1 DEF EventInv, Recorded, Choosing
  <2>3. InOrder(e)'
    <3>1. \A i \in DOMAIN picks[e] : picks[e][i].rule # None
      BY <1>0 DEF EventInv, InOrder
    <3>2. \A i \in DOMAIN picks[e] : \A r \in todo[e] : picks[e][i].rule < r
      BY <1>0 DEF EventInv, InOrder
    <3>3. ASSUME NEW r \in Rules, Wants(r, e)'
          PROVE  \/ r \in todo'[e] \/ Picked(e, RuleTable[r].agent)
                 \/ todo'[e] = {} /\ \A i \in DOMAIN picks[e] : picks[e][i].rule < r
      <4>1. Wants(r, e) BY <1>0, <3>3, SameWants
      <4>2. \/ r \in todo[e] \/ Picked(e, RuleTable[r].agent)
            \/ todo[e] = {} /\ \A i \in DOMAIN picks[e] : picks[e][i].rule < r
        BY <1>0, <4>1 DEF EventInv, InOrder
      <4>3. CASE new /\ Full(e) BY <1>1, <1>2, <3>2, <4>2, <4>3
      <4>4. CASE ~ new
        <5>1. r = r0 => Picked(e, RuleTable[r].agent)
          BY <1>1, <4>1, <4>4 DEF Wants, Usable
        <5> QED BY <1>1, <1>2, <4>2, <4>4, <5>1
      <4> QED BY <1>7, <4>3, <4>4
    <3>4. \A b : Picked(e, b)' <=> Picked(e, b) BY <2>1 DEF Picked
    <3>5. todo'[e] \subseteq todo[e] BY <1>2
    <3> QED BY <2>1, <3>1, <3>2, <3>3, <3>4, <3>5 DEF InOrder
  <2> QED BY <1>5, <1>6, <2>2, <2>3 DEF EventInv
<1>8. CASE new /\ ~ Full(e)
  <2>1. /\ todo'[e] = todo[e] \ {r0}
        /\ picks'[e] = Append(picks[e], [agent |-> a, rule |-> r0])
    BY <1>2, <1>3, <1>8
  <2>2. /\ DOMAIN picks[e] = 1 .. Len(picks[e]) /\ Len(picks[e]) \in Nat
        /\ DOMAIN picks'[e] = 1 .. Len(picks[e]) + 1
        /\ \A i \in DOMAIN picks[e] : picks'[e][i] = picks[e][i]
        /\ picks'[e][Len(picks[e]) + 1] = [agent |-> a, rule |-> r0]
    BY <1>4, <2>1
  <2> HIDE DEF r0, a, new
  <2>3. \A i \in DOMAIN picks'[e] :
           \/ i \in DOMAIN picks[e] /\ picks'[e][i] = picks[e][i]
           \/ picks'[e][i].agent = a /\ picks'[e][i].rule = r0
    BY <2>2
  <2>4. \A b : b = a \/ Picked(e, b) => Picked(e, b)'
    <3>1. \A i \in DOMAIN picks[e] : i \in DOMAIN picks'[e] BY <2>2
    <3>2. Len(picks[e]) + 1 \in DOMAIN picks'[e] BY <2>2
    <3> QED BY <2>2, <3>1, <3>2 DEF Picked
  <2>5. Recorded(e)'
    <3>1. a \in ever[e]
      BY <1>0, <1>8 DEF EventInv, Recorded, Choosing, Usable, new
    <3>2. \A i \in DOMAIN picks'[e] : picks'[e][i].agent \in ever'[e]
      BY <1>0, <2>3, <3>1 DEF EventInv, Recorded
    <3> QED BY <1>0, <3>2 DEF EventInv, Recorded, Choosing
  <2>6. InOrder(e)'
    <3>1. \A i \in DOMAIN picks'[e] : picks'[e][i].rule # None
      BY <1>0, <1>1, <2>3 DEF EventInv, InOrder
    <3>2. \A i \in DOMAIN picks'[e] : \A r \in todo'[e] : picks'[e][i].rule < r
      BY <1>0, <1>1, <2>1, <2>3 DEF EventInv, InOrder
    <3>3. ASSUME NEW r \in Rules, Wants(r, e)'
          PROVE  r \in todo'[e] \/ Picked(e, RuleTable[r].agent)'
      <4>1. Wants(r, e) BY <1>0, <3>3, SameWants
      <4>2. \/ r \in todo[e] \/ Picked(e, RuleTable[r].agent)
            \/ todo[e] = {}
        BY <1>0, <4>1 DEF EventInv, InOrder
      <4> QED BY <1>1, <2>1, <2>4, <4>2 DEF a
    <3> QED BY <3>1, <3>2, <3>3 DEF InOrder, Picked
  <2> QED BY <1>5, <1>6, <2>5, <2>6 DEF EventInv
<1> QED BY <1>7, <1>8

LEMMA MatchedKeeps ==
    ASSUME TypeOK, NEW e \in Events, EventInv(e), Matched(e)
    PROVE  EventInv(e)'
<1>0. /\ UNCHANGED <<shape, up, rules, flaky, ever, status, rows, unmatched, offered, picks>>
      /\ pc[e] = "match" /\ todo[e] = {} /\ RowsOf(e) = {} /\ RowsOf(e)' = {} /\ Routed(e)' = {}
      /\ e \notin unmatched /\ status[e] # "routed"
  <2>1. /\ UNCHANGED <<shape, up, rules, flaky, ever, status, rows, unmatched, offered, picks>>
        /\ pc[e] = "match" /\ todo[e] = {}
    BY DEF Matched, tables, past
  <2>2. RowsOf(e) = {} /\ e \notin unmatched /\ status[e] # "routed"
    BY <2>1 DEF EventInv, Staged, Choosing
  <2> QED BY <2>1, <2>2, SameRows, NoRows
<1>1. IF picks[e] = <<>> THEN pc'[e] \in {"offer", "unmatched"} ELSE pc'[e] = "create"
  BY DEF Matched, Goto, Fallback, TypeOK
<1>2. Staged(e)' BY <1>0, <1>1 DEF EventInv, Staged, Choosing
<1>3. Distinct(e)' /\ InOrder(e)' /\ StatusTells(e)'
  BY <1>0, <1>1 DEF EventInv, Distinct, InOrder, StatusTells
<1>4. Recorded(e)' BY <1>0, <1>1 DEF EventInv, Recorded, Choosing
<1>5. Served(e)'
  <2> SUFFICES ASSUME NEW r \in Rules, Wants(r, e)', NEW i \in DOMAIN picks[e],
                      Later(picks[e][i].rule, r)
               PROVE  Picked(e, RuleTable[r].agent)'
    BY <1>0 DEF Served
  <2>1. Wants(r, e) BY <1>0, SameWants
  <2>2. Picked(e, RuleTable[r].agent) \/ picks[e][i].rule < r
    BY <1>0, <2>1 DEF EventInv, InOrder
  <2>3. picks[e][i].rule \in Nat /\ r \in Nat /\ r < picks[e][i].rule
    <3>1. picks[e] \in Seq(Pick) BY DEF TypeOK
    <3>2. picks[e][i] \in Pick BY <3>1
    <3> QED BY <3>2, RuleNumbers DEF Pick, Later
  <2> QED BY <1>0, <2>2, <2>3 DEF Picked
<1> QED BY <1>2, <1>3, <1>4, <1>5 DEF EventInv

LEMMA OfferKeeps ==
    ASSUME TypeOK, NEW e \in Events, EventInv(e), Offer(e)
    PROVE  EventInv(e)'
<1>0. /\ UNCHANGED <<shape, up, rules, flaky, ever, status, rows, unmatched, todo, picks>>
      /\ pc[e] = "offer" /\ picks[e] = <<>> /\ RowsOf(e) = {} /\ RowsOf(e)' = {} /\ Routed(e)' = {}
      /\ e \notin unmatched /\ status[e] # "routed"
  <2>1. /\ UNCHANGED <<shape, up, rules, flaky, ever, status, rows, unmatched, todo, picks>>
        /\ pc[e] = "offer"
    BY DEF Offer, tables, past
  <2>2. RowsOf(e) = {} /\ picks[e] = <<>> /\ e \notin unmatched /\ status[e] # "routed"
    BY <2>1 DEF EventInv, Staged, Choosing
  <2> QED BY <2>1, <2>2, SameRows, NoRows
<1>1. pc'[e] \in {"ask", "unmatched"} /\ offered'[e] \subseteq up
  BY DEF Offer, Goto, Active, TypeOK
<1>2. Staged(e)' BY <1>0, <1>1 DEF EventInv, Staged, Choosing
<1>3. Distinct(e)' /\ InOrder(e)' /\ StatusTells(e)' /\ Served(e)'
  BY <1>0, <1>1 DEF EventInv, Distinct, InOrder, StatusTells, Served
<1>4. Recorded(e)' BY <1>0, <1>1 DEF EventInv, Recorded, Choosing
<1> QED BY <1>2, <1>3, <1>4 DEF EventInv

LEMMA AnswerKeeps ==
    ASSUME TypeOK, NEW e \in Events, EventInv(e), Answer(e)
    PROVE  EventInv(e)'
<1>0. /\ UNCHANGED <<shape, up, rules, flaky, ever, status, rows, unmatched, todo, offered>>
      /\ pc[e] = "ask" /\ picks[e] = <<>> /\ RowsOf(e) = {} /\ RowsOf(e)' = {} /\ Routed(e)' = {}
      /\ e \notin unmatched /\ status[e] # "routed"
  <2>1. /\ UNCHANGED <<shape, up, rules, flaky, ever, status, rows, unmatched, todo, offered>>
        /\ pc[e] = "ask"
    BY DEF Answer, tables, past
  <2>2. RowsOf(e) = {} /\ picks[e] = <<>> /\ e \notin unmatched /\ status[e] # "routed"
    BY <2>1 DEF EventInv, Staged, Choosing
  <2> QED BY <2>1, <2>2, SameRows, NoRows
<1>1. PICK s \in Seq(Pick) :
         /\ picks' = [picks EXCEPT ![e] = s]
         /\ \A i \in DOMAIN s : s[i].agent \in offered[e] /\ s[i].rule = None
         /\ IF s = <<>> THEN Goto(e, "unmatched") ELSE Goto(e, "create")
  BY <1>0, AnswersAre
<1>2. picks'[e] = s /\ pc'[e] = IF s = <<>> THEN "unmatched" ELSE "create"
  BY <1>1 DEF Goto, TypeOK
<1>3. Staged(e)' BY <1>0, <1>2 DEF EventInv, Staged, Choosing
<1>4. Distinct(e)' /\ InOrder(e)' /\ StatusTells(e)'
  BY <1>0, <1>2 DEF EventInv, Distinct, InOrder, StatusTells
<1>5. Served(e)' BY <1>0, <1>1, <1>2 DEF Served, Later
<1>6. Recorded(e)' BY <1>0, <1>1, <1>2 DEF EventInv, Recorded, Choosing
<1> QED BY <1>3, <1>4, <1>5, <1>6 DEF EventInv

LEMMA UnmatchedKeeps ==
    ASSUME TypeOK, NEW e \in Events, EventInv(e), Unmatched(e)
    PROVE  EventInv(e)'
<1>0. /\ UNCHANGED <<shape, up, rules, flaky, ever, rows, todo, offered, picks>>
      /\ pc[e] = "unmatched" /\ picks[e] = <<>> /\ picks'[e] = <<>>
      /\ RowsOf(e) = {} /\ RowsOf(e)' = {} /\ Routed(e)' = {}
      /\ e \notin unmatched
  <2>1. /\ UNCHANGED <<shape, up, rules, flaky, ever, rows, todo, offered, picks>>
        /\ pc[e] = "unmatched"
    BY DEF Unmatched, tables, past
  <2>2. RowsOf(e) = {} /\ picks[e] = <<>> /\ e \notin unmatched
    BY <2>1 DEF EventInv, Staged, Choosing
  <2> QED BY <2>1, <2>2, SameRows, NoRows
<1>1. /\ status'[e] = "routed"
      /\ \/ pc'[e] = "done" /\ e \in unmatched'
         \/ pc'[e] = "aborted" /\ e \notin unmatched'
  BY <1>0 DEF Unmatched, Goto, TypeOK
<1>2. Staged(e)' BY <1>0, <1>1 DEF Staged, Choosing
<1>3. Distinct(e)' /\ InOrder(e)' /\ Served(e)' /\ StatusTells(e)'
  BY <1>0, <1>1 DEF Distinct, InOrder, Served, StatusTells
<1>4. Recorded(e)' BY <1>0, <1>1 DEF Recorded, Choosing
<1> QED BY <1>2, <1>3, <1>4 DEF EventInv

LEMMA AssignedKeeps ==
    ASSUME TypeOK, NEW e \in Events, EventInv(e), Assigned(e)
    PROVE  EventInv(e)'
<1>0. /\ UNCHANGED <<shape, up, rules, flaky, ever, rows, unmatched, todo, offered, picks>>
      /\ pc[e] = "create" /\ picks[e] = <<>> /\ pc'[e] = "done" /\ status'[e] = "assigned"
  BY DEF Assigned, Goto, tables, past, TypeOK
<1>1. RowsOf(e) # {} /\ e \notin unmatched
  BY <1>0 DEF EventInv, Staged
<1>2. RowsOf(e)' = RowsOf(e) /\ Routed(e)' = Routed(e)
  BY <1>0, SameRows
<1>3. Staged(e)' BY <1>0, <1>1, <1>2 DEF Staged, Choosing
<1>4. Distinct(e)' /\ InOrder(e)' /\ StatusTells(e)'
  BY <1>0, <1>1, <1>2 DEF EventInv, Distinct, InOrder, StatusTells
<1>5. Recorded(e)' BY <1>0, <1>2 DEF EventInv, Recorded, Choosing
<1>6. Served(e)'
  <2>1. \A r : Wants(r, e)' => Wants(r, e) BY <1>0, SameWants
  <2> QED BY <1>0, <1>2, <2>1 DEF EventInv, Served, Picked
<1> QED BY <1>3, <1>4, <1>5, <1>6 DEF EventInv

LEMMA CreateKeeps ==
    ASSUME TypeOK, NEW e \in Events, EventInv(e), Create(e)
    PROVE  EventInv(e)'
<1> DEFINE p == Head(picks[e])
<1>0. /\ UNCHANGED <<shape, up, rules, flaky, ever, status, unmatched, todo, offered>>
      /\ pc[e] = "create" /\ picks[e] \in Seq(Pick) /\ picks[e] # <<>>
      /\ e \notin unmatched /\ status[e] # "routed"
  <2>1. /\ UNCHANGED <<shape, up, rules, flaky, ever, status, unmatched, todo, offered>>
        /\ pc[e] = "create" /\ picks[e] # <<>>
    BY DEF Create, tables, past
  <2> QED BY <2>1 DEF EventInv, Staged, TypeOK
<1>1. /\ p \in Pick /\ p = picks[e][1] /\ 1 \in DOMAIN picks[e]
      /\ \/ /\ \E i \in RowsOf(e) : rows[i].agent = p.agent
            /\ picks'[e] = Tail(picks[e]) /\ UNCHANGED <<rows, pc>>
         \/ pc'[e] = "aborted" /\ UNCHANGED <<rows, picks>>
         \/ /\ \A i \in RowsOf(e) : rows[i].agent # p.agent
            /\ picks'[e] = Tail(picks[e]) /\ UNCHANGED pc
            /\ \E row \in Row : /\ row.event = e /\ row.agent = p.agent
                                /\ row.rule = p.rule
                                /\ rows' = Append(rows, row)
  BY CreateSteps
<1> HIDE DEF p
<1>2. \A r : Wants(r, e)' => Wants(r, e)
  BY <1>0, SameWants
<1>3. /\ \A i \in DOMAIN Tail(picks[e]) :
            i + 1 \in DOMAIN picks[e] /\ Tail(picks[e])[i] = picks[e][i + 1]
      /\ \A i \in DOMAIN picks[e] :
            i = 1 \/ (i - 1 \in DOMAIN Tail(picks[e]) /\ Tail(picks[e])[i - 1] = picks[e][i])
  BY <1>0, TailOf
<1>4. p.agent \in ever[e]
  BY <1>1 DEF EventInv, Recorded
<1>5. CASE UNCHANGED <<rows, pc>> /\ picks'[e] = Tail(picks[e])
           /\ \E i \in RowsOf(e) : rows[i].agent = p.agent
  <2>1. /\ RowsOf(e)' = RowsOf(e) /\ Routed(e)' = Routed(e)
        /\ p.agent \in Routed(e) /\ RowsOf(e) # {}
    BY <1>5, SameRows DEF Routed
  <2>2. Staged(e)' BY <1>0, <1>5, <2>1 DEF Staged, Choosing
  <2>3. Distinct(e)' /\ InOrder(e)' /\ StatusTells(e)'
    BY <1>0, <1>5, <2>1 DEF EventInv, Distinct, InOrder, StatusTells
  <2>4. Recorded(e)' BY <1>0, <1>3, <1>5, <2>1 DEF EventInv, Recorded, Choosing
  <2>5. Served(e)'
    <3> SUFFICES ASSUME NEW r \in Rules, Wants(r, e),
                        \/ \E i \in RowsOf(e) : Later(rows[i].rule, r)
                        \/ \E i \in DOMAIN Tail(picks[e]) : Later(Tail(picks[e])[i].rule, r)
                 PROVE  RuleTable[r].agent \in Routed(e) \/ Picked(e, RuleTable[r].agent)'
      BY <1>2, <1>5, <2>1 DEF Served
    <3>1. RuleTable[r].agent \in Routed(e) \/ Picked(e, RuleTable[r].agent)
      BY <1>0, <1>3 DEF EventInv, Served
    <3>2. ASSUME NEW i \in DOMAIN picks[e], picks[e][i].agent = RuleTable[r].agent
          PROVE  RuleTable[r].agent \in Routed(e) \/ Picked(e, RuleTable[r].agent)'
      BY <1>1, <1>3, <1>5, <2>1, <3>2 DEF Picked
    <3> QED BY <3>1, <3>2 DEF Picked
  <2> QED BY <2>2, <2>3, <2>4, <2>5 DEF EventInv
<1>6. CASE pc'[e] = "aborted" /\ UNCHANGED <<rows, picks>>
  <2>1. RowsOf(e)' = RowsOf(e) /\ Routed(e)' = Routed(e)
    BY <1>6, SameRows
  <2>2. Staged(e)' BY <1>0, <1>6 DEF Staged, Choosing
  <2>3. Distinct(e)' /\ InOrder(e)' /\ StatusTells(e)' /\ Served(e)'
    BY <1>0, <1>6, <2>1 DEF EventInv, Distinct, InOrder, StatusTells, Served
  <2>4. Recorded(e)' BY <1>0, <1>6, <2>1 DEF EventInv, Recorded, Choosing
  <2> QED BY <2>2, <2>3, <2>4 DEF EventInv
<1>7. ASSUME NEW row \in Row, row.event = e, row.agent = p.agent, row.rule = p.rule,
             rows' = Append(rows, row), UNCHANGED pc, picks'[e] = Tail(picks[e]),
             \A i \in RowsOf(e) : rows[i].agent # p.agent
      PROVE  EventInv(e)'
  <2> DEFINE n == Len(rows) + 1
  <2>1. /\ RowsOf(e)' = RowsOf(e) \cup {n} /\ Routed(e)' = Routed(e) \cup {p.agent}
        /\ rows'[n].agent = p.agent /\ rows'[n].rule = p.rule
        /\ \A i \in RowsOf(e) : rows'[i] = rows[i]
    <3>1. /\ RowsOf(e)' = RowsOf(e) \cup (IF row.event = e THEN {n} ELSE {})
          /\ Routed(e)' = Routed(e) \cup (IF row.event = e THEN {row.agent} ELSE {})
          /\ rows'[n] = row
          /\ \A i \in RowsOf(e) : rows'[i] = rows[i]
      BY <1>7, NewRow
    <3> QED BY <1>7, <3>1
  <2> HIDE DEF n
  <2>2. Staged(e)' BY <1>0, <1>7, <2>1 DEF Staged, Choosing
  <2>3. Distinct(e)'
    <3>1. \A i, j \in RowsOf(e) : rows[i].agent = rows[j].agent => i = j
      BY DEF EventInv, Distinct
    <3> SUFFICES ASSUME NEW i \in RowsOf(e) \cup {n}, NEW j \in RowsOf(e) \cup {n},
                        rows'[i].agent = rows'[j].agent
                 PROVE  i = j
      BY <2>1 DEF Distinct
    <3>2. CASE i \in RowsOf(e) /\ j \in RowsOf(e) BY <2>1, <3>1, <3>2
    <3>3. CASE i = n BY <1>7, <2>1, <3>3
    <3>4. CASE j = n BY <1>7, <2>1, <3>4
    <3> QED BY <3>2, <3>3, <3>4
  <2>4. InOrder(e)' BY <1>0, <1>7 DEF InOrder
  <2>5. StatusTells(e)' BY <1>0, <1>7, <2>1 DEF StatusTells
  <2>6. Recorded(e)' BY <1>0, <1>3, <1>4, <1>7, <2>1 DEF EventInv, Recorded, Choosing
  <2>7. Served(e)'
    <3> SUFFICES ASSUME NEW r \in Rules, Wants(r, e),
                        \/ \E i \in RowsOf(e) \cup {n} : Later(rows'[i].rule, r)
                        \/ \E i \in DOMAIN Tail(picks[e]) : Later(Tail(picks[e])[i].rule, r)
                 PROVE  \/ RuleTable[r].agent \in Routed(e) \cup {p.agent}
                        \/ Picked(e, RuleTable[r].agent)'
      BY <1>2, <1>7, <2>1 DEF Served
    <3>1. \/ \E i \in RowsOf(e) : Later(rows[i].rule, r)
          \/ \E i \in DOMAIN picks[e] : Later(picks[e][i].rule, r)
      <4>1. CASE \E i \in RowsOf(e) : Later(rows'[i].rule, r) BY <2>1, <4>1
      <4>2. CASE Later(rows'[n].rule, r) BY <1>1, <2>1, <4>2
      <4>3. CASE \E i \in DOMAIN Tail(picks[e]) : Later(Tail(picks[e])[i].rule, r)
        BY <1>3, <4>3
      <4> QED BY <4>1, <4>2, <4>3
    <3>2. RuleTable[r].agent \in Routed(e) \/ Picked(e, RuleTable[r].agent)
      BY <1>0, <3>1 DEF EventInv, Served
    <3>3. ASSUME NEW i \in DOMAIN picks[e], picks[e][i].agent = RuleTable[r].agent
          PROVE  \/ RuleTable[r].agent \in Routed(e) \cup {p.agent}
                 \/ Picked(e, RuleTable[r].agent)'
      <4>1. CASE i = 1 BY <1>1, <3>3, <4>1
      <4>2. CASE i # 1
        <5>1. i - 1 \in DOMAIN Tail(picks[e]) /\ Tail(picks[e])[i - 1] = picks[e][i]
          BY <1>3, <4>2
        <5>2. i - 1 \in DOMAIN picks'[e] /\ picks'[e][i - 1].agent = RuleTable[r].agent
          BY <1>7, <3>3, <5>1
        <5> QED BY <5>2 DEF Picked
      <4> QED BY <4>1, <4>2
    <3> QED BY <3>2, <3>3 DEF Picked
  <2> QED BY <2>2, <2>3, <2>4, <2>5, <2>6, <2>7 DEF EventInv
<1> QED BY <1>1, <1>5, <1>6, <1>7

LEMMA RouteKeeps ==
    ASSUME TypeOK, Agents \ flaky \subseteq agents \cap up,
           NEW e \in Events, EventInv(e), Route(e)
    PROVE  EventInv(e)'
BY ListKeeps, MatchKeeps, MatchedKeeps, OfferKeeps, AnswerKeeps, UnmatchedKeeps,
   CreateKeeps, AssignedKeeps DEF Route

-----------------------------------------------------------------------------
(* The invariant of routing.                                                *)

LEMMA EventByEvent ==
    RoutingInv <=> /\ Agents \ flaky \subseteq agents \cap up
                   /\ \A e \in Events : EventInv(e)
BY DEF RoutingInv, EventInv, StatusTellsOfRows

LEMMA RoutingInit == Init => RoutingInv
<1> SUFFICES ASSUME Init PROVE RoutingInv
  OBVIOUS
<1>1. Agents \ flaky \subseteq agents \cap up BY DEF Init
<1>2. ASSUME NEW e \in Events PROVE EventInv(e)
  <2>1. /\ pc[e] = "new" /\ todo[e] = {} /\ offered[e] = {} /\ picks[e] = <<>>
        /\ status[e] = "received" /\ e \notin unmatched /\ RowsOf(e) = {}
    BY DEF Init, RowsOf
  <2>2. Routed(e) = {} BY <2>1, NoRows
  <2> QED BY <2>1, <2>2 DEF EventInv, Staged, Distinct, Recorded, InOrder, Served,
                            StatusTells, Choosing
<1> QED BY <1>1, <1>2, EventByEvent

LEMMA UpUnlessFlaky ==
    ASSUME TypeOK, Agents \ flaky \subseteq agents \cap up, [Next]_vars
    PROVE  Agents \ flaky' \subseteq agents' \cap up'
<1>1. ASSUME NEW e \in Events, Route(e)
      PROVE  Agents \ flaky' \subseteq agents' \cap up'
  BY <1>1, RouteLeavesTables
<1>2. CASE Meanwhile
  BY <1>2 DEF Meanwhile, Expire, Begin, Finish, Disable, Enable, DeleteAgent,
              DeleteRule, Resting, vars, tables, past
<1> QED BY <1>1, <1>2 DEF Next, Meanwhile

LEMMA RoutingStep ==
    ASSUME TypeOK, RoutingInv, [Next]_vars PROVE RoutingInv'
<1>1. Agents \ flaky \subseteq agents \cap up /\ \A e \in Events : EventInv(e)
  BY EventByEvent
<1>2. Agents \ flaky' \subseteq agents' \cap up'
  BY <1>1, UpUnlessFlaky
<1>3. ASSUME NEW e \in Events, Route(e), NEW f \in Events PROVE EventInv(f)'
  <2>1. CASE f = e BY <1>1, <1>3, <2>1, RouteKeeps
  <2>2. CASE f # e BY <1>1, <1>3, <2>2, RouteLeavesOthers, UntouchedKept
  <2> QED BY <2>1, <2>2
<1>4. ASSUME Meanwhile, NEW f \in Events PROVE EventInv(f)'
  BY <1>1, <1>4, MeanwhileLeaves, UntouchedKept
<1>5. \A f \in Events : EventInv(f)'
  BY <1>3, <1>4 DEF Next, Meanwhile
<1> QED BY <1>2, <1>5 DEF RoutingInv, EventInv, StatusTellsOfRows

LEMMA RoutingInductive == Spec => [](TypeOK /\ RoutingInv)
<1>1. Init => TypeOK /\ RoutingInv BY TypeInit, RoutingInit
<1>2. TypeOK /\ RoutingInv /\ [Next]_vars => TypeOK' /\ RoutingInv'
  BY TypeNext, RoutingStep DEF RoutingInv
<1> QED BY <1>1, <1>2, PTL DEF Spec

-----------------------------------------------------------------------------
(* The theorems.                                                            *)

\* The tables, every routing task's locals and the histories keep their types,
\* whatever order the tasks, the workers and the operator's changes take.
THEOREM TypeCorrect == Spec => []TypeOK
BY RoutingInductive, PTL

\* What AssignmentManager.route_event keeps between any two of its statements,
\* of all events at once and while agents, rules and rows change under it.
THEOREM RoutingInvariant == Spec => []RoutingInv
BY RoutingInductive, PTL

\* However often rules or the model name an agent for an event, and whatever the
\* other routing tasks write, event_assignments gets one row for the two.
THEOREM RowsAreSingle == Spec => []OneRowPerAgent
<1>1. TypeOK /\ RoutingInv => OneRowPerAgent
  <2> SUFFICES ASSUME TypeOK, RoutingInv, NEW e \in Events
               PROVE  Cardinality(RowsOf(e)) = Cardinality(Routed(e))
    BY DEF OneRowPerAgent
  <2>1. IsFiniteSet(RowsOf(e))
    <3>1. DOMAIN rows = 1 .. Len(rows) /\ Len(rows) \in Nat BY DEF TypeOK
    <3>2. IsFiniteSet(DOMAIN rows) BY <3>1, FS_Interval
    <3> QED BY <3>2, FS_Subset DEF RowsOf
  <2> DEFINE f == [i \in RowsOf(e) |-> rows[i].agent]
  <2>2. f \in Bijection(RowsOf(e), Routed(e))
    BY DEF RoutingInv, Distinct, Routed, Bijection, Injection, Surjection, IsInjective
  <2>3. ExistsBijection(RowsOf(e), Routed(e))
    BY <2>2 DEF ExistsBijection
  <2> QED BY <2>1, <2>3, FS_Bijection
<1> QED BY <1>1, RoutingInductive, PTL

\* An agent gets a row for an event only when it was up at some time between the
\* reading of the rules and the last row.
THEOREM RowsAreForAgentsUp == Spec => []AgentWasUp
<1>1. RoutingInv => AgentWasUp BY DEF RoutingInv, Recorded, AgentWasUp
<1> QED BY <1>1, RoutingInductive, PTL

\* The fan-out limit and the looks at the agents never let a later rule win over
\* an earlier one that still stands and whose agent was up all the time.
THEOREM EarlierRulesWin == Spec => []PriorityWins
<1>1. TypeOK /\ RoutingInv => PriorityWins
  <2> SUFFICES ASSUME TypeOK, RoutingInv, NEW e \in Events, NEW i \in RowsOf(e),
                      NEW r \in rules, pc[e] = "done", rows[i].rule # None,
                      r < rows[i].rule, RuleMatches(r, e), RuleTable[r].agent \notin flaky
               PROVE  RuleTable[r].agent \in Routed(e)
    BY DEF PriorityWins
  <2>1. r \in Rules /\ Wants(r, e) /\ Later(rows[i].rule, r)
    BY DEF TypeOK, Wants, Later
  <2>2. picks[e] = <<>> BY DEF RoutingInv, Staged
  <2>3. RuleTable[r].agent \in Routed(e) \/ Picked(e, RuleTable[r].agent)
    BY <2>1 DEF RoutingInv, Served
  <2> QED BY <2>2, <2>3 DEF Picked
<1> QED BY <1>1, RoutingInductive, PTL

\* Whatever the workers and the expiry sweep wrote over events.status since, it
\* never says that work was done on an event without rows, nor the reverse.
THEOREM StatusIsTrue == Spec => []StatusTellsOfRows
<1>1. RoutingInv => StatusTellsOfRows BY DEF RoutingInv
<1> QED BY <1>1, RoutingInductive, PTL
=============================================================================
