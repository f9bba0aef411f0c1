--------------------------- MODULE EventBusProofs ---------------------------
(***************************************************************************)
(* Proofs about EventBus for every number of publishers and events and for  *)
(* every limit: type correctness, the inductive invariant, the depth bound, *)
(* the original behind every duplicate, the refinement of EventLedger, and  *)
(* what concurrent calls can do to each other.                              *)
(***************************************************************************)
EXTENDS EventBusProperties, FiniteSetTheorems, TLAPS

USE DEF Ids, Ghost, Parents

-----------------------------------------------------------------------------
(* Cardinalities the actions compute.                                       *)

LEMMA BusyIsFinite == Cardinality(Busy) \in Nat
<1>1. IsFiniteSet(Busy)
  BY BusAssumption, FS_Subset DEF Busy
<1> QED BY <1>1, FS_CardinalityType

LEMMA ChildrenAreFinite ==
    ASSUME NEW e PROVE Cardinality(Children(e)) \in Nat
<1>1. IsFiniteSet(Ids) BY BusAssumption, FS_Interval
<1>2. Children(e) \subseteq Ids BY DEF Children, Persisted
<1>3. IsFiniteSet(Children(e)) BY <1>1, <1>2, FS_Subset
<1> QED BY <1>3, FS_CardinalityType

-----------------------------------------------------------------------------
(* Type correctness.                                                        *)

LEMMA TypeInit == Init => TypeOK
<1> SUFFICES ASSUME Init PROVE TypeOK
  OBVIOUS
<1> USE BusAssumption DEF Init
<1>1. TableType BY DEF TableType, Event, Unbuilt, Statuses
<1>2. CallType BY DEF CallType, Phases
<1>3. HistoryType BY DEF HistoryType, Verdicts
<1> QED BY <1>1, <1>2, <1>3 DEF TypeOK

LEMMA ReturnType ==
    ASSUME NEW p \in Publishers, CallType, Return(p) PROVE CallType'
BY BusAssumption DEF Return, CallType, Phases

LEMMA GoToType ==
    ASSUME NEW p \in Publishers, NEW phase \in Phases, CallType, GoTo(p, phase)
    PROVE  CallType'
BY DEF GoTo, CallType

LEMMA RankType ==
    ASSUME TypeOK, NEW e \in Ids, ForeignKeyHolds(e) PROVE RankBelow(e) \in Nat
BY DEF ForeignKeyHolds, RankBelow, Persisted, TypeOK, HistoryType, TableType

LEMMA InsertType ==
    ASSUME TypeOK, NEW e \in Ids, NEW first \in Statuses, NEW how \in Verdicts,
           ForeignKeyHolds(e), Insert(e, first, how)
    PROVE  /\ status' \in [Ids -> Statuses]
           /\ verdict' \in [Ids -> Verdicts]
           /\ rank' \in [Ids -> Nat]
BY RankType DEF Insert, TypeOK, HistoryType, TableType

LEMMA InsertRaisesType ==
    ASSUME TypeOK, NEW p \in Publishers, InsertRaises(p) PROVE TypeOK'
<1> USE DEF InsertRaises, TypeOK
<1>1. TableType' BY BusAssumption DEF TableType, CallType, Event, Unbuilt
<1>2. CallType' BY ReturnType
<1>3. HistoryType' BY DEF HistoryType, past, clock
<1> QED BY <1>1, <1>2, <1>3

LEMMA ParentType ==
    ASSUME TypeOK, NEW e \in Ids PROVE events[e].parent \in Parents
BY DEF TypeOK, TableType, Event

LEMMA TypeNext == TypeOK /\ [Next]_vars => TypeOK'
<1>0. SUFFICES ASSUME TypeOK, [Next]_vars PROVE TypeOK'
  OBVIOUS
<1> USE BusAssumption DEF table, locals, past, clock
<1>1. ASSUME TypeOK, NEW p \in Publishers, Submit(p) PROVE TypeOK'
  <2>1. next \in Ids /\ next' \in 1 .. MaxEvents + 1
    BY <1>1, BusyIsFinite DEF Submit, TypeOK, TableType
  <2>2. PICK r \in Requests, parent \in Persisted \cup {Ghost, None} :
          Submit(p)!3!(r, parent)
    BY <1>1 DEF Submit
  <2>3. PICK trace \in Supplied(r) : Submit(p)!3!(r, parent)!(trace)
    BY <2>2
  <2>4. trace \in Traces \cup Ids \cup {None}
    BY <1>1 DEF Supplied, Persisted, TypeOK, TableType, Event
  <2>5. Inherited(trace, parent) \in Traces \cup Ids \cup {None}
    BY <1>1, <2>1, <2>4 DEF Inherited, Persisted, TypeOK, TableType, Event
  <2>6. events' \in [Ids -> Event]
    BY <1>1, <2>1, <2>3, <2>5
       DEF TypeOK, TableType, HistoryType, Event, Persisted
  <2>7. TableType' BY <1>1, <2>1, <2>6 DEF Submit, TypeOK, TableType
  <2>8. CallType'
    BY <1>1, <2>1, <2>3
       DEF Submit, TypeOK, CallType, Phases, AfterDedupe, Persisted
  <2>9. HistoryType' BY <1>1 DEF Submit, TypeOK, HistoryType
  <2> QED BY <2>7, <2>8, <2>9 DEF TypeOK
<1>2. ASSUME TypeOK, NEW p \in Publishers, FindDuplicate(p) PROVE TypeOK'
  <2>1. CallType'
    BY <1>2 DEF FindDuplicate, GoTo, TypeOK, CallType, Phases, AfterDedupe,
                Matches, Persisted
  <2>2. TableType' /\ HistoryType'
    BY <1>2 DEF FindDuplicate, TypeOK, TableType, HistoryType
  <2> QED BY <2>1, <2>2 DEF TypeOK
<1>3. ASSUME TypeOK, NEW p \in Publishers, CountDuplicate(p) PROVE TypeOK'
  <2>1. CallType' BY <1>3, GoToType DEF CountDuplicate, TypeOK, Phases
  <2>2. TableType' BY <1>3 DEF CountDuplicate, TypeOK, TableType, CallType
  <2>3. HistoryType' BY <1>3 DEF CountDuplicate, TypeOK, HistoryType
  <2> QED BY <2>1, <2>2, <2>3 DEF TypeOK
<1>4. ASSUME TypeOK, NEW p \in Publishers, PersistDuplicate(p) PROVE TypeOK'
  <2>1. CASE InsertRaises(p) BY <1>4, <2>1, InsertRaisesType
  <2>2. CASE ~ InsertRaises(p)
    <3>1. cur[p] \in Ids BY <1>4 DEF TypeOK, CallType
    <3>2. CallType' BY <1>4, <2>2, ReturnType DEF PersistDuplicate, TypeOK
    <3>3. TableType' /\ HistoryType'
      BY <1>4, <2>2, <3>1, InsertType
         DEF PersistDuplicate, TypeOK, TableType, HistoryType, Statuses, Verdicts
    <3> QED BY <3>2, <3>3 DEF TypeOK
  <2> QED BY <2>1, <2>2
<1>5. ASSUME TypeOK, NEW p \in Publishers, WalkUp(p) PROVE TypeOK'
  <2>0. at[p] \in Ids BY <1>5 DEF WalkUp, MoreAbove, Persisted
  <2>1. CallType'
    BY <1>5, <2>0, ParentType DEF WalkUp, TypeOK, CallType
  <2>2. TableType' /\ HistoryType'
    BY <1>5 DEF WalkUp, TypeOK, TableType, HistoryType
  <2> QED BY <2>1, <2>2 DEF TypeOK
<1>6. ASSUME TypeOK, NEW p \in Publishers, CheckDepth(p) PROVE TypeOK'
  <2>1. events[cur[p]].parent \in Parents
    BY <1>6, ParentType DEF TypeOK, CallType
  <2>2. CallType' BY <1>6, <2>1 DEF CheckDepth, TypeOK, CallType, Phases
  <2>3. TableType' /\ HistoryType'
    BY <1>6 DEF CheckDepth, TypeOK, TableType, HistoryType
  <2> QED BY <2>2, <2>3 DEF TypeOK
<1>7. ASSUME TypeOK, NEW p \in Publishers, ScanChildren(p) PROVE TypeOK'
  <2>1. PICK e \in frontier[p] : ScanChildren(p)!2!(e)
    BY <1>7 DEF ScanChildren
  <2> DEFINE new == IF e \in seen[p] THEN {} ELSE Children(e)
  <2>2. new \subseteq Parents /\ Cardinality(new) \in Nat
    <3>1. CASE e \in seen[p] BY <3>1, FS_EmptySet
    <3>2. CASE e \notin seen[p]
      BY <3>2, ChildrenAreFinite DEF Children, Persisted
    <3> QED BY <3>1, <3>2
  <2>3. /\ frontier' = [frontier EXCEPT ![p] = (@ \ {e}) \cup new]
        /\ steps' = [steps EXCEPT ![p] = @ + Cardinality(new)]
        /\ seen' = [seen EXCEPT ![p] = @ \cup {e}]
        /\ \E phase \in Phases : pc' = [pc EXCEPT ![p] = phase]
    BY <1>7, <2>1 DEF TypeOK, CallType, Phases
  <2> HIDE DEF new
  <2>4. CallType'
    <3>1. e \in Parents BY <1>7, <2>1 DEF TypeOK, CallType
    <3>2. frontier' \in [Publishers -> SUBSET Parents]
      BY <1>7, <2>2, <2>3 DEF TypeOK, CallType
    <3>3. steps' \in [Publishers -> Nat]
      BY <1>7, <2>2, <2>3 DEF TypeOK, CallType
    <3>4. seen' \in [Publishers -> SUBSET Parents]
      BY <1>7, <2>3, <3>1 DEF TypeOK, CallType
    <3>5. pc' \in [Publishers -> Phases] BY <1>7, <2>3 DEF TypeOK, CallType
    <3> QED BY <1>7, <3>2, <3>3, <3>4, <3>5 DEF ScanChildren, TypeOK, CallType
  <2>5. TableType' /\ HistoryType'
    BY <1>7 DEF ScanChildren, TypeOK, TableType, HistoryType
  <2> QED BY <2>4, <2>5 DEF TypeOK
<1>8. ASSUME TypeOK, NEW p \in Publishers, Refuse(p) PROVE TypeOK'
  <2>1. CASE InsertRaises(p) BY <1>8, <2>1, InsertRaisesType
  <2>2. CASE ~ InsertRaises(p)
    <3>1. cur[p] \in Ids BY <1>8 DEF TypeOK, CallType
    <3>2. CallType' BY <1>8, <2>2, GoToType DEF Refuse, TypeOK, Phases
    <3>3. TableType' /\ HistoryType'
      BY <1>8, <2>2, <3>1, InsertType
         DEF Refuse, TypeOK, TableType, HistoryType, Statuses, Verdicts
    <3> QED BY <3>2, <3>3 DEF TypeOK
  <2> QED BY <2>1, <2>2
<1>9. ASSUME TypeOK, NEW p \in Publishers, ReportLimit(p) PROVE TypeOK'
  <2>1. CallType' BY <1>9, ReturnType DEF ReportLimit, TypeOK
  <2>2. TableType'
    <3>1. [Unbuilt EXCEPT !.system = TRUE, !.slot = now] \in Event
      BY <1>9 DEF TypeOK, HistoryType, Event, Unbuilt
    <3> QED BY <1>9, <3>1 DEF ReportLimit, TypeOK, TableType, Statuses
  <2>3. HistoryType' BY <1>9 DEF ReportLimit, TypeOK, HistoryType, Verdicts
  <2> QED BY <2>1, <2>2, <2>3 DEF TypeOK
<1>10. ASSUME TypeOK, NEW p \in Publishers, Persist(p) PROVE TypeOK'
  <2>1. CASE InsertRaises(p) BY <1>10, <2>1, InsertRaisesType
  <2>2. CASE ~ InsertRaises(p)
    <3>1. cur[p] \in Ids BY <1>10 DEF TypeOK, CallType
    <3>2. CallType' BY <1>10, <2>2, GoToType DEF Persist, TypeOK, Phases
    <3>3. TableType' /\ HistoryType'
      BY <1>10, <2>2, <3>1, InsertType
         DEF Persist, TypeOK, TableType, HistoryType, Statuses, Verdicts
    <3> QED BY <3>2, <3>3 DEF TypeOK
  <2> QED BY <2>1, <2>2
<1>11. ASSUME TypeOK, NEW p \in Publishers, Broadcast(p) \/ BroadcastRaises(p)
       PROVE TypeOK'
  <2>1. CallType'
    BY <1>11, ReturnType DEF Broadcast, BroadcastRaises, TypeOK
  <2>2. cur[p] \in Ids BY <1>11 DEF TypeOK, CallType
  <2>3. TableType'
    BY <1>11 DEF Broadcast, BroadcastRaises, table, TypeOK, TableType
  <2>4. HistoryType'
    BY <1>11, <2>2 DEF Broadcast, BroadcastRaises, past, clock, TypeOK,
                       HistoryType
  <2> QED BY <2>1, <2>3, <2>4 DEF TypeOK
<1>12. ASSUME TypeOK, NEW e \in Ids, Route(e) PROVE TypeOK'
  BY <1>12 DEF Route, TypeOK, TableType, CallType, HistoryType, Statuses
<1>13. ASSUME TypeOK, ExpireSweep PROVE TypeOK'
  <2>0. UNCHANGED <<events, dedupe_count, next, locals, tasks, past, clock>>
    BY <1>13 DEF ExpireSweep
  <2>1. PICK due : status' = [e \in Ids |-> IF e \in due THEN "expired"
                                           ELSE status[e]]
    BY <1>13 DEF ExpireSweep
  <2>2. status' \in [Ids -> Statuses]
    BY <1>13, <2>1 DEF TypeOK, TableType, Statuses
  <2>3. TableType' BY <1>13, <2>0, <2>2 DEF TypeOK, TableType
  <2>4. CallType' BY <1>13, <2>0 DEF TypeOK, CallType, locals
  <2>5. HistoryType' BY <1>13, <2>0 DEF TypeOK, HistoryType, past, clock
  <2> QED BY <2>3, <2>4, <2>5 DEF TypeOK
<1>14. ASSUME TypeOK, Tick PROVE TypeOK'
  <2>1. TableType' /\ CallType'
    BY <1>14 DEF Tick, TypeOK, TableType, CallType
  <2>2. HistoryType' BY <1>14 DEF Tick, TypeOK, HistoryType
  <2> QED BY <2>1, <2>2 DEF TypeOK
<1>15. ASSUME TypeOK, Crash PROVE TypeOK'
  <2>1. CallType' BY <1>15 DEF Crash, CallType, Phases
  <2>2. TableType'
    BY <1>15 DEF Crash, TypeOK, TableType, Event, Unbuilt
  <2>3. HistoryType'
    <3>1. dropped' \in SUBSET Ids BY <1>15 DEF Crash, TypeOK, HistoryType
    <3> QED BY <1>15, <3>1 DEF Crash, TypeOK, HistoryType
  <2> QED BY <2>1, <2>2, <2>3 DEF TypeOK
<1>16. ASSUME TypeOK, UNCHANGED vars PROVE TypeOK'
  BY <1>16 DEF vars, TypeOK, TableType, CallType, HistoryType
<1> QED
  BY <1>0, <1>1, <1>2, <1>3, <1>4, <1>5, <1>6, <1>7, <1>8, <1>9, <1>10, <1>11,
     <1>12, <1>13, <1>14, <1>15, <1>16 DEF Next, Continue, Quiescent

\* Every reachable state is well typed, whatever the constants.
THEOREM TypeCorrect == Spec => []TypeOK
BY TypeInit, TypeNext, PTL DEF Spec

-----------------------------------------------------------------------------
(* The inductive invariant.  SafeTable is the part of it that speaks of the *)
(* table and of the hand-over only, and not of the calls in flight.         *)

SafeTable == /\ RowsInv /\ HandoverInv
             /\ ChainDepthBounded /\ SuppressedHasOriginal

IndInv == TypeOK /\ BusInv

LEMMA InvInit == Init => BusInv
<1> SUFFICES ASSUME Init PROVE BusInv
  OBVIOUS
<1> USE BusAssumption DEF Init
<1>1. Persisted = {} BY DEF Persisted
<1>2. RowsInv BY DEF RowsInv, Unbuilt
<1>3. CallsInv BY DEF CallsInv, OwnEvent, KnowsOriginal, WalkSoFar
<1>7. HandoverInv BY DEF HandoverInv
<1>8. ChainDepthBounded BY DEF ChainDepthBounded
<1>9. SuppressedHasOriginal BY DEF SuppressedHasOriginal
<1> QED BY <1>2, <1>3, <1>7, <1>8, <1>9 DEF BusInv

\* A step that leaves the table and the hand-over alone leaves what is said of
\* them alone.
LEMMA TableFrame ==
    ASSUME SafeTable,
           UNCHANGED <<events, status, next, verdict, rank, tasks, handed>>
    PROVE  SafeTable' /\ Persisted' = Persisted
<1>1. Persisted' = Persisted BY DEF Persisted
<1>2. RowsInv' BY <1>1 DEF SafeTable, RowsInv, RankBelow
<1>3. HandoverInv' BY DEF SafeTable, HandoverInv
<1>4. ChainDepthBounded' BY DEF SafeTable, ChainDepthBounded
<1>5. SuppressedHasOriginal' BY DEF SafeTable, SuppressedHasOriginal
<1> QED BY <1>1, <1>2, <1>3, <1>4, <1>5 DEF SafeTable

LEMMA CallFacts ==
    ASSUME IndInv, NEW p \in Publishers, pc[p] # "idle"
    PROVE  /\ cur[p] \in Ids /\ cur[p] < next
           /\ events[cur[p]].parent \in Persisted \cup {Ghost, None}
           /\ pc[p] \notin {"broadcast", "report"} => verdict[cur[p]] = "none"
           /\ \A q \in Publishers :
                 pc[q] # "idle" /\ cur[q] = cur[p] => q = p
BY DEF IndInv, TypeOK, CallType, BusInv, CallsInv, OwnEvent

\* The INSERT of a call's event adds one row at the end of a chain.
LEMMA InsertStep ==
    ASSUME IndInv, NEW p \in Publishers, pc[p] # "idle",
           verdict[cur[p]] = "none", ForeignKeyHolds(cur[p]),
           NEW first \in Statuses \ {"absent"},
           NEW how \in {"accepted", "deduped", "limited"},
           how = "limited" => events[cur[p]].parent # None,
           Insert(cur[p], first, how), UNCHANGED <<events, next>>
    PROVE  /\ Persisted' = Persisted \cup {cur[p]}
           /\ RowsInv'
           /\ rank'[cur[p]] = RankBelow(cur[p])
           /\ \A e \in Ids \ {cur[p]} : /\ verdict'[e] = verdict[e]
                                      /\ rank'[e] = rank[e]
           /\ verdict'[cur[p]] = how
<1> DEFINE n == cur[p]
<1>1. n \in Ids /\ n < next BY CallFacts
<1>2. /\ status \in [Ids -> Statuses] /\ verdict \in [Ids -> Verdicts]
      /\ rank \in [Ids -> Nat] /\ next \in Nat
  BY BusAssumption DEF IndInv, TypeOK, TableType, HistoryType
<1>3. Persisted' = Persisted \cup {n}
  BY <1>1, <1>2 DEF Insert, Persisted
<1>4. \A e \in Ids \ {n} : /\ verdict'[e] = verdict[e]
                          /\ rank'[e] = rank[e] /\ status'[e] = status[e]
  BY <1>1, <1>2 DEF Insert
<1>5. /\ verdict'[n] = how /\ rank'[n] = RankBelow(n) /\ status'[n] = first
  BY <1>1, <1>2 DEF Insert
<1>6. n \notin Persisted
  BY <1>1 DEF IndInv, BusInv, RowsInv, Persisted
<1>7. /\ events[n].parent \in Persisted \cup {None}
      /\ events[n].parent \in Ids => events[n].parent < n
  BY DEF ForeignKeyHolds, IndInv, BusInv, CallsInv, OwnEvent
<1>8. ASSUME NEW e \in Ids, verdict'[e] # "none"
      PROVE  /\ events[e].parent \in Persisted \cup {None}
             /\ events[e].parent # None => events[e].parent < e
             /\ rank'[e] = RankBelow(e) /\ RankBelow(e)' = RankBelow(e)
  <2>1. events[e].parent \in Persisted \cup {None}
    BY <1>4, <1>7, <1>8 DEF IndInv, BusInv, RowsInv
  <2>2. events[e].parent # None => events[e].parent < e
    BY <1>4, <1>7, <1>8, <2>1 DEF IndInv, BusInv, RowsInv, Persisted
  <2>3. RankBelow(e)' = RankBelow(e)
    BY <1>4, <1>6, <2>1 DEF RankBelow, Persisted
  <2>4. rank'[e] = RankBelow(e)
    BY <1>4, <1>5, <1>8 DEF IndInv, BusInv, RowsInv
  <2> QED BY <2>1, <2>2, <2>3, <2>4
<1>9. RowsInv'
  <2>1. ASSUME NEW e \in Ids
        PROVE  /\ status'[e] = "absent" <=> verdict'[e] = "none"
               /\ e >= next' => verdict'[e] = "none"
               /\ verdict'[e] = "none" => rank'[e] = 0
               /\ verdict'[e] = "system" =>
                     events[e].parent = None /\ events[e].key = None
               /\ verdict'[e] = "limited" => events[e].parent # None
    BY <1>1, <1>2, <1>4, <1>5, <2>1 DEF IndInv, BusInv, RowsInv
  <2> QED BY <1>3, <1>8, <2>1 DEF RowsInv
<1> QED BY <1>3, <1>4, <1>5, <1>9

\* A call that does not move keeps its part of the invariant, as long as the
\* rows and its own event stay and nobody else takes its event.
LEMMA OtherCall ==
    ASSUME IndInv, NEW q \in Publishers,
           pc'[q] = pc[q], cur'[q] = cur[q], hit'[q] = hit[q],
           at'[q] = at[q], steps'[q] = steps[q], seen'[q] = seen[q],
           next' \in Nat, next <= next', Persisted \subseteq Persisted',
           \A e \in Persisted : events'[e] = events[e] /\ rank'[e] = rank[e],
           pc[q] # "idle" =>
              /\ events'[cur[q]] = events[cur[q]]
              /\ verdict'[cur[q]] = verdict[cur[q]]
              /\ cur[q] \notin tasks \cup handed => cur[q] \notin (tasks \cup handed)'
              /\ \A r \in Publishers : pc'[r] # "idle" /\ cur'[r] = cur[q] => r = q
    PROVE  OwnEvent(q)' /\ KnowsOriginal(q)' /\ WalkSoFar(q)'
<1> USE DEF IndInv, BusInv, CallsInv
<1>1. next \in Nat /\ cur[q] \in Ids
  BY BusAssumption DEF TypeOK, TableType, CallType
<1>2. OwnEvent(q)' BY <1>1, BusAssumption DEF OwnEvent
<1>3. KnowsOriginal(q)' BY DEF KnowsOriginal, OwnEvent, Persisted
<1>4. WalkSoFar(q)'
  <2>1. CASE pc[q] = "idle" BY <2>1 DEF WalkSoFar
  <2>2. CASE pc[q] # "idle"
    <3>1. events'[cur'[q]].parent = events[cur[q]].parent BY <2>2
    <3>2. events[cur[q]].parent \in Persisted' =>
             events[cur[q]].parent \in Persisted
      BY <2>2, BusAssumption DEF OwnEvent, Persisted
    <3> QED BY <2>2, <3>1, <3>2 DEF WalkSoFar
  <2> QED BY <2>1, <2>2
<1> QED BY <1>2, <1>3, <1>4

-----------------------------------------------------------------------------
(* Steps of one call that leave the table alone.                            *)

\* Such a step only has to re-establish what is known of the call itself.
LEMMA LocalStep ==
    ASSUME IndInv, TypeOK', NEW p \in Publishers, pc[p] # "idle",
           UNCHANGED <<events, status, next, cur, verdict, rank, tasks, handed>>,
           \A q \in Publishers \ {p} :
              /\ pc'[q] = pc[q] /\ hit'[q] = hit[q] /\ at'[q] = at[q]
              /\ steps'[q] = steps[q] /\ seen'[q] = seen[q],
           pc[p] \notin {"broadcast", "report"},
           pc'[p] \notin {"idle", "broadcast", "report"},
           KnowsOriginal(p)', WalkSoFar(p)'
    PROVE  BusInv'
<1> USE DEF IndInv, BusInv
<1>1. SafeTable' /\ Persisted' = Persisted
  BY TableFrame DEF SafeTable
<1>2. OwnEvent(p)'
  <2>1. OwnEvent(p) BY DEF CallsInv
  <2>2. \A q \in Publishers : pc'[q] # "idle" => pc[q] # "idle"
    OBVIOUS
  <2> QED BY <1>1, <2>1, <2>2 DEF OwnEvent
<1>3. ASSUME NEW q \in Publishers \ {p}
      PROVE  OwnEvent(q)' /\ KnowsOriginal(q)' /\ WalkSoFar(q)'
  <2>1. next \in Nat BY BusAssumption DEF TypeOK, TableType
  <2>2. ASSUME pc[q] # "idle", NEW r \in Publishers, pc'[r] # "idle",
               cur'[r] = cur[q]
        PROVE  r = q
    BY <2>2 DEF CallsInv, OwnEvent
  <2> QED BY <1>1, <2>1, <2>2, OtherCall
<1>4. CallsInv' BY <1>2, <1>3 DEF CallsInv
<1> QED BY <1>1, <1>4 DEF SafeTable

LEMMA FindDuplicateInv ==
    ASSUME IndInv, TypeOK', NEW p \in Publishers, FindDuplicate(p)
    PROVE  BusInv'
<1> DEFINE parent == events[cur[p]].parent
<1> USE DEF FindDuplicate, table, past, clock
<1>1. pc[p] = "lookup" OBVIOUS
<1>2. /\ events[cur[p]].key # None /\ at[p] = parent /\ steps[p] = 0
      /\ seen[p] = {} /\ parent \in Persisted \cup {Ghost, None}
  BY <1>1 DEF IndInv, BusInv, CallsInv, OwnEvent, KnowsOriginal, WalkSoFar
<1>3. pc \in [Publishers -> Phases] /\ rank \in [Ids -> Nat]
      /\ hit \in [Publishers -> Ids]
  BY DEF IndInv, TypeOK, CallType, HistoryType
<1>4. CASE GoTo(p, AfterDedupe(parent))
  <2>1. pc'[p] = IF parent = None THEN "persist" ELSE "depth"
    BY <1>3, <1>4 DEF GoTo, AfterDedupe
  <2>2. KnowsOriginal(p)' BY <2>1 DEF KnowsOriginal
  <2>3. WalkSoFar(p)'
    BY <1>2, <1>3, <1>4, <2>1, BusAssumption DEF WalkSoFar, GoTo, Persisted
  <2> QED BY <1>1, <1>3, <1>4, <2>1, <2>2, <2>3, LocalStep DEF GoTo
<1>5. CASE \E newest \in Matches(events[cur[p]].key) :
             /\ pc' = [pc EXCEPT ![p] = "count"]
             /\ hit' = [hit EXCEPT ![p] = newest]
             /\ UNCHANGED <<cur, at, steps, seen, frontier>>
  <2>1. pc'[p] = "count" BY <1>3, <1>5
  <2>2. hit'[p] \in Matches(events[cur[p]].key) BY <1>3, <1>5
  <2>3. KnowsOriginal(p)'
    BY <1>2, <1>5, <2>1, <2>2 DEF KnowsOriginal, Matches, Persisted
  <2>4. WalkSoFar(p)' BY <2>1 DEF WalkSoFar
  <2> QED BY <1>1, <1>3, <1>5, <2>1, <2>3, <2>4, LocalStep
<1> QED BY <1>4, <1>5

LEMMA CountDuplicateInv ==
    ASSUME IndInv, TypeOK', NEW p \in Publishers, CountDuplicate(p)
    PROVE  BusInv'
<1> USE DEF CountDuplicate, GoTo, past, clock
<1>1. pc[p] = "count" /\ pc'[p] = "persist_dup"
  BY DEF IndInv, TypeOK, CallType
<1>2. \A q \in Publishers \ {p} : pc'[q] = pc[q]
  BY DEF IndInv, TypeOK, CallType
<1>3. KnowsOriginal(p)'
  BY <1>1 DEF KnowsOriginal, IndInv, BusInv, CallsInv, Persisted
<1>4. WalkSoFar(p)' BY <1>1 DEF WalkSoFar
<1> QED BY <1>1, <1>2, <1>3, <1>4, LocalStep

\* One more step up the chain keeps steps + rank of the row reached.
LEMMA WalkUpInv ==
    ASSUME IndInv, TypeOK', NEW p \in Publishers, WalkUp(p)
    PROVE  BusInv'
<1> DEFINE parent == events[cur[p]].parent
           above  == events[at[p]].parent
<1> USE DEF WalkUp, table, past, clock
<1>1. pc[p] = "depth" /\ pc'[p] = "depth" OBVIOUS
<1>2. /\ at \in [Publishers -> Parents] /\ steps \in [Publishers -> Nat]
      /\ seen \in [Publishers -> SUBSET Parents] /\ rank \in [Ids -> Nat]
  BY DEF IndInv, TypeOK, CallType, HistoryType
<1>3. /\ at'[p] = above /\ steps'[p] = steps[p] + 1
      /\ seen'[p] = seen[p] \cup {at[p]}
  BY <1>2
<1>4. at[p] \in Ids /\ at[p] \in Persisted /\ above # None
  BY DEF MoreAbove, Persisted
<1>5. /\ parent \in Persisted /\ rank[parent] = steps[p] + rank[at[p]]
      /\ parent # None /\ \A e \in seen[p] : e \in Ids /\ at[p] < e
  BY <1>1, <1>4 DEF IndInv, BusInv, CallsInv, WalkSoFar, Persisted
<1>6. /\ above \in Persisted /\ above < at[p]
      /\ rank[at[p]] = rank[above] + 1
  BY <1>4 DEF IndInv, BusInv, RowsInv, RankBelow, Persisted
<1>7. WalkSoFar(p)'
  <2>1. above \in Ids /\ parent \in Ids BY <1>5, <1>6 DEF Persisted
  <2>2. rank[parent] = (steps[p] + 1) + rank[above]
    <3>1. steps[p] \in Nat /\ rank[above] \in Nat BY <1>2, <2>1
    <3> HIDE DEF parent, above
    <3> QED BY <1>5, <1>6, <3>1
  <2>3. \A e \in seen'[p] : e \in Ids /\ above < e
    BY <1>3, <1>4, <1>5, <1>6, <2>1, BusAssumption
  <2>4. Persisted' = Persisted BY DEF Persisted
  <2> QED BY <1>1, <1>3, <1>5, <1>6, <2>2, <2>3, <2>4 DEF WalkSoFar
<1>8. KnowsOriginal(p)' BY <1>1 DEF KnowsOriginal
<1> QED BY <1>1, <1>2, <1>7, <1>8, LocalStep

\* Where the walk ends the rank is 0, so steps is the rank of the parent.
LEMMA CheckDepthInv ==
    ASSUME IndInv, TypeOK', NEW p \in Publishers, CheckDepth(p)
    PROVE  BusInv'
<1> DEFINE parent == events[cur[p]].parent
<1> USE DEF CheckDepth, table, past, clock
<1>1. pc[p] = "depth" OBVIOUS
<1>2. /\ at \in [Publishers -> Parents] /\ steps \in [Publishers -> Nat]
      /\ seen \in [Publishers -> SUBSET Parents] /\ rank \in [Ids -> Nat]
      /\ pc \in [Publishers -> Phases]
  BY DEF IndInv, TypeOK, CallType, HistoryType
<1>3. pc'[p] = IF TooDeep(steps[p]) THEN "refuse" ELSE "scan" BY <1>2
<1>4. parent # None BY <1>1 DEF IndInv, BusInv, CallsInv, WalkSoFar
<1>5. ASSUME parent \in Persisted PROVE steps[p] = rank[parent]
  <2>1. parent \in Ids /\ parent # Ghost
    BY <1>5, BusAssumption DEF Persisted
  <2>2. /\ at[p] \in Persisted /\ rank[parent] = steps[p] + rank[at[p]]
        /\ \A e \in seen[p] : e \in Ids /\ at[p] < e
    BY <1>1, <2>1 DEF IndInv, BusInv, CallsInv, WalkSoFar
  <2>3. at[p] \in Ids /\ at[p] \notin seen[p]
    BY <2>2, BusAssumption DEF Persisted
  <2>4. events[at[p]].parent = None BY <2>2, <2>3 DEF MoreAbove
  <2>5. rank[at[p]] = 0
    BY <2>2, <2>4 DEF IndInv, BusInv, RowsInv, RankBelow, Persisted
  <2> QED BY <1>2, <2>2, <2>5
<1>6. WalkSoFar(p)'
  BY <1>2, <1>3, <1>4, <1>5, BusAssumption DEF WalkSoFar, TooDeep, Persisted
<1>7. KnowsOriginal(p)' BY <1>3 DEF KnowsOriginal
<1> QED BY <1>1, <1>2, <1>3, <1>6, <1>7, LocalStep

LEMMA ScanChildrenInv ==
    ASSUME IndInv, TypeOK', NEW p \in Publishers, ScanChildren(p)
    PROVE  BusInv'
<1> USE DEF ScanChildren, table, past, clock
<1>1. pc[p] = "scan" OBVIOUS
<1>2. /\ steps \in [Publishers -> Nat] /\ pc \in [Publishers -> Phases]
      /\ seen \in [Publishers -> SUBSET Parents]
  BY DEF IndInv, TypeOK, CallType
<1>3. /\ pc'[p] \in {"scan", "refuse", "persist"}
      /\ \A q \in Publishers \ {p} :
            pc'[q] = pc[q] /\ steps'[q] = steps[q] /\ seen'[q] = seen[q]
  BY <1>2
<1>4. WalkSoFar(p)'
  BY <1>1, <1>3 DEF WalkSoFar, IndInv, BusInv, CallsInv, Persisted
<1>5. KnowsOriginal(p)' BY <1>3 DEF KnowsOriginal
<1> QED BY <1>1, <1>3, <1>4, <1>5, LocalStep

-----------------------------------------------------------------------------
(* Steps that change the table.                                             *)

\* Whatever keeps the stored rows keeps what is said of them.
LEMMA RowsFrame ==
    ASSUME IndInv, next' \in Nat, next <= next', UNCHANGED <<verdict, rank>>,
           \A e \in Ids : status'[e] = "absent" <=> status[e] = "absent",
           \A e \in Persisted : events'[e] = events[e]
    PROVE  /\ Persisted' = Persisted
           /\ RowsInv' /\ ChainDepthBounded' /\ SuppressedHasOriginal'
<1> USE DEF IndInv, BusInv
<1>1. Persisted' = Persisted BY DEF Persisted
<1>2. \A e \in Ids : verdict[e] # "none" => e \in Persisted
  BY DEF RowsInv, Persisted
<1>3. \A e \in Persisted : RankBelow(e)' = RankBelow(e)
  BY DEF RankBelow
<1>4. next \in Nat BY BusAssumption DEF TypeOK, TableType
<1>5. RowsInv' BY <1>1, <1>2, <1>3, <1>4 DEF RowsInv
<1>6. ChainDepthBounded' BY DEF ChainDepthBounded
<1>7. SuppressedHasOriginal' BY <1>2 DEF SuppressedHasOriginal
<1> QED BY <1>1, <1>5, <1>6, <1>7

\* An idle call has nothing to keep.
LEMMA IdleCall ==
    ASSUME NEW p \in Publishers, pc'[p] = "idle", steps'[p] = 0, seen'[p] = {}
    PROVE  OwnEvent(p)' /\ KnowsOriginal(p)' /\ WalkSoFar(p)'
BY DEF OwnEvent, KnowsOriginal, WalkSoFar

LEMMA ReturnFacts ==
    ASSUME IndInv, NEW p \in Publishers, Return(p)
    PROVE  /\ pc'[p] = "idle" /\ steps'[p] = 0 /\ seen'[p] = {}
           /\ \A q \in Publishers \ {p} :
                 /\ pc'[q] = pc[q] /\ cur'[q] = cur[q] /\ hit'[q] = hit[q]
                 /\ at'[q] = at[q] /\ steps'[q] = steps[q]
                 /\ seen'[q] = seen[q]
BY DEF Return, IndInv, TypeOK, CallType

\* A call that returns leaves the others to themselves, as long as the rows
\* and the events of the others stay.
LEMMA ReturnStep ==
    ASSUME IndInv, NEW p \in Publishers, pc[p] # "idle", Return(p),
           next' \in Nat, next <= next', Persisted \subseteq Persisted',
           \A e \in Persisted : events'[e] = events[e] /\ rank'[e] = rank[e],
           \A q \in Publishers \ {p} : pc[q] # "idle" =>
              /\ events'[cur[q]] = events[cur[q]]
              /\ verdict'[cur[q]] = verdict[cur[q]]
              /\ cur[q] \notin tasks \cup handed => cur[q] \notin (tasks \cup handed)'
    PROVE  CallsInv'
<1>1. OwnEvent(p)' /\ KnowsOriginal(p)' /\ WalkSoFar(p)'
  BY ReturnFacts, IdleCall
<1>2. ASSUME NEW q \in Publishers \ {p}
      PROVE  OwnEvent(q)' /\ KnowsOriginal(q)' /\ WalkSoFar(q)'
  <2>1. ASSUME pc[q] # "idle", NEW r \in Publishers, pc'[r] # "idle",
               cur'[r] = cur[q]
        PROVE  r = q
    <3>1. r # p BY <2>1, ReturnFacts
    <3> QED BY <2>1, <3>1, ReturnFacts, CallFacts
  <2> QED BY <2>1, ReturnFacts, OtherCall
<1> QED BY <1>1, <1>2 DEF CallsInv

LEMMA InsertRaisesInv ==
    ASSUME IndInv, NEW p \in Publishers, pc[p] # "idle", InsertRaises(p),
           pc[p] \notin {"broadcast", "report"}
    PROVE  BusInv'
<1> USE DEF InsertRaises, past, clock
<1>1. cur[p] \in Ids /\ cur[p] \notin Persisted
  BY CallFacts DEF IndInv, BusInv, RowsInv, Persisted
<1>2. \A e \in Ids \ {cur[p]} : events'[e] = events[e]
  BY DEF IndInv, TypeOK, TableType
<1>3. next \in Nat BY BusAssumption DEF IndInv, TypeOK, TableType
<1>4. /\ Persisted' = Persisted
      /\ RowsInv' /\ ChainDepthBounded' /\ SuppressedHasOriginal'
  BY <1>1, <1>2, <1>3, RowsFrame DEF Persisted
<1>5. HandoverInv' BY DEF HandoverInv, IndInv, BusInv
<1>6. \A q \in Publishers \ {p} :
         pc[q] # "idle" => events'[cur[q]] = events[cur[q]]
  BY <1>2, CallFacts
<1>7. CallsInv'
  BY <1>1, <1>2, <1>3, <1>4, <1>6, ReturnStep DEF Persisted
<1> QED BY <1>4, <1>5, <1>7 DEF BusInv

LEMMA SubmitInv ==
    ASSUME IndInv, TypeOK', NEW p \in Publishers, Submit(p)
    PROVE  BusInv'
<1> USE DEF past, clock
<1>1. next \in Ids /\ next' = next + 1
  BY BusyIsFinite, BusAssumption DEF Submit, IndInv, TypeOK, TableType
<1>2. /\ UNCHANGED <<status, hit, steps, seen, tasks, verdict, rank, handed>>
      /\ pc[p] = "idle"
  BY DEF Submit
<1>3. PICK r \in Requests, parent \in Persisted \cup {Ghost, None} :
        Submit(p)!3!(r, parent)
  BY DEF Submit
<1>4. /\ \A e \in Ids \ {next} : events'[e] = events[e]
      /\ events'[next].parent = parent /\ events'[next].key = r.key
      /\ events'[next].parent \in Ids => parent < next
  <2>1. parent \in Ids => parent < next
    BY <1>1, <1>3, BusAssumption DEF IndInv, BusInv, RowsInv, Persisted
  <2> QED BY <1>1, <1>3, <2>1 DEF IndInv, TypeOK, TableType
<1>5. next \notin Persisted
  <2>1. RowsInv BY DEF IndInv, BusInv
  <2>2. verdict[next] = "none"
    <3>1. next >= next BY BusAssumption DEF IndInv, TypeOK, TableType
    <3> QED BY <1>1, <2>1, <3>1 DEF RowsInv
  <2> QED BY <1>1, <2>1, <2>2 DEF RowsInv, Persisted
<1>6. /\ Persisted' = Persisted
      /\ RowsInv' /\ ChainDepthBounded' /\ SuppressedHasOriginal'
  BY <1>1, <1>2, <1>4, <1>5, RowsFrame DEF Persisted
<1>7. HandoverInv' BY <1>2 DEF HandoverInv, IndInv, BusInv
<1>8. /\ cur'[p] = next /\ at'[p] = parent
      /\ pc'[p] = IF r.key # None THEN "lookup" ELSE AfterDedupe(parent)
      /\ \A q \in Publishers \ {p} :
            pc'[q] = pc[q] /\ cur'[q] = cur[q] /\ at'[q] = at[q]
  BY <1>3 DEF Submit, IndInv, TypeOK, CallType
<1>9. pc'[p] \in {"lookup", "persist", "depth"} BY <1>8 DEF AfterDedupe
<1>10. OwnEvent(p)'
  <2>1. \A q \in Publishers : pc'[q] # "idle" /\ cur'[q] = cur'[p] => q = p
    BY <1>1, <1>8, CallFacts
  <2>2. verdict[next] = "none"
    BY <1>1 DEF IndInv, BusInv, RowsInv
  <2> QED BY <1>1, <1>2, <1>4, <1>6, <1>8, <1>9, <2>1, <2>2 DEF OwnEvent
<1>11. KnowsOriginal(p)'
  BY <1>4, <1>8, <1>9 DEF KnowsOriginal, AfterDedupe
<1>12. WalkSoFar(p)'
  <2>1. steps'[p] = 0 /\ seen'[p] = {}
    BY <1>2 DEF IndInv, BusInv, CallsInv, WalkSoFar
  <2>2. parent # None => pc'[p] # "persist"
    BY <1>8 DEF AfterDedupe
  <2>3. pc'[p] = "depth" => parent # None BY <1>8 DEF AfterDedupe
  <2>4. None \notin Persisted BY BusAssumption DEF Persisted
  <2>5. parent \in Persisted => rank[parent] = 0 + rank[parent]
    BY DEF IndInv, TypeOK, HistoryType, Persisted
  <2> QED
    BY <1>2, <1>3, <1>4, <1>6, <1>8, <1>9, <2>1, <2>2, <2>3, <2>4, <2>5
       DEF WalkSoFar
<1>13. ASSUME NEW q \in Publishers \ {p}
       PROVE  OwnEvent(q)' /\ KnowsOriginal(q)' /\ WalkSoFar(q)'
  <2>1. pc[q] # "idle" => cur[q] \in Ids /\ cur[q] # next
    BY <1>1, CallFacts
  <2>2. ASSUME pc[q] # "idle", NEW s \in Publishers, pc'[s] # "idle",
               cur'[s] = cur[q]
        PROVE  s = q
    BY <1>8, <2>1, <2>2, CallFacts
  <2>3. \A e \in Persisted : events'[e] = events[e] /\ rank'[e] = rank[e]
    BY <1>2, <1>4, <1>5 DEF Persisted
  <2>4. next' \in Nat /\ next <= next' BY <1>1
  <2> QED BY <1>2, <1>4, <1>6, <1>8, <2>1, <2>2, <2>3, <2>4, OtherCall
<1>14. CallsInv' BY <1>10, <1>11, <1>12, <1>13 DEF CallsInv
<1> QED BY <1>6, <1>7, <1>14 DEF BusInv

-----------------------------------------------------------------------------
(* The three INSERTs of publish().                                          *)

\* An INSERT keeps the table safe if an accepted event is not too deep and a
\* suppressed one has an original.
LEMMA InsertSafe ==
    ASSUME IndInv, NEW p \in Publishers, pc[p] \notin {"idle", "broadcast", "report"},
           ForeignKeyHolds(cur[p]),
           NEW first \in Statuses \ {"absent"},
           NEW how \in {"accepted", "deduped", "limited"},
           how = "limited" => events[cur[p]].parent # None,
           how = "accepted" => RankBelow(cur[p]) <= MaxDepth,
           how = "deduped" =>
               \E o \in Ids : /\ verdict[o] \in {"accepted", "limited"}
                             /\ events[o].key = events[cur[p]].key,
           Insert(cur[p], first, how), UNCHANGED <<events, next, tasks, handed>>
    PROVE  SafeTable'
<1>1. verdict[cur[p]] = "none" /\ cur[p] \in Ids BY CallFacts
<1>2. /\ RowsInv' /\ rank'[cur[p]] = RankBelow(cur[p])
      /\ \A e \in Ids \ {cur[p]} : verdict'[e] = verdict[e] /\ rank'[e] = rank[e]
      /\ verdict'[cur[p]] = how
  BY <1>1, InsertStep
<1>3. ChainDepthBounded'
  BY <1>2 DEF ChainDepthBounded, IndInv, BusInv
<1>4. SuppressedHasOriginal'
  <2>1. ASSUME NEW e \in Ids, verdict'[e] = "deduped"
        PROVE  \E o \in Ids : /\ verdict[o] \in {"accepted", "limited"}
                             /\ events[o].key = events[e].key
    BY <1>2, <2>1 DEF SuppressedHasOriginal, IndInv, BusInv
  <2>2. \A o \in Ids : verdict[o] \in {"accepted", "limited"}
                          => verdict'[o] = verdict[o]
    BY <1>1, <1>2
  <2> QED BY <2>1, <2>2 DEF SuppressedHasOriginal
<1>5. HandoverInv'
  <2>1. tasks \cup handed \subseteq Ids BY DEF IndInv, TypeOK, HistoryType
  <2>2. \A e \in tasks \cup handed : verdict[e] = "accepted"
    BY DEF IndInv, BusInv, HandoverInv
  <2>3. \A e \in tasks \cup handed : verdict'[e] = "accepted"
    BY <1>1, <1>2, <2>1, <2>2
  <2> QED BY <2>3 DEF HandoverInv, IndInv, BusInv
<1> QED BY <1>2, <1>3, <1>4, <1>5 DEF SafeTable

\* An INSERT does not concern the calls of others.
LEMMA InsertOthers ==
    ASSUME IndInv, NEW p \in Publishers, pc[p] \notin {"idle", "broadcast", "report"},
           ForeignKeyHolds(cur[p]),
           NEW first \in Statuses \ {"absent"},
           NEW how \in {"accepted", "deduped", "limited"},
           how = "limited" => events[cur[p]].parent # None,
           Insert(cur[p], first, how), UNCHANGED <<events, next, tasks, handed>>
    PROVE  /\ next' \in Nat /\ next <= next'
           /\ Persisted \subseteq Persisted'
           /\ \A e \in Persisted : events'[e] = events[e] /\ rank'[e] = rank[e]
           /\ \A q \in Publishers \ {p} : pc[q] # "idle" =>
                 /\ events'[cur[q]] = events[cur[q]]
                 /\ verdict'[cur[q]] = verdict[cur[q]]
                 /\ cur[q] \notin tasks \cup handed
                       => cur[q] \notin (tasks \cup handed)'
<1>1. verdict[cur[p]] = "none" /\ cur[p] \in Ids BY CallFacts
<1>2. /\ Persisted' = Persisted \cup {cur[p]}
      /\ \A e \in Ids \ {cur[p]} : verdict'[e] = verdict[e] /\ rank'[e] = rank[e]
  BY <1>1, InsertStep
<1>3. cur[p] \notin Persisted
  BY <1>1 DEF IndInv, BusInv, RowsInv, Persisted
<1>4. next \in Nat BY BusAssumption DEF IndInv, TypeOK, TableType
<1>5. \A q \in Publishers \ {p} :
         pc[q] # "idle" => cur[q] \in Ids /\ cur[q] # cur[p]
  BY CallFacts
<1> QED BY <1>2, <1>3, <1>4, <1>5 DEF Persisted

\* A suppressed event: its hit is an original, or has one.
LEMMA PersistDuplicateInv ==
    ASSUME IndInv, TypeOK', NEW p \in Publishers, PersistDuplicate(p)
    PROVE  BusInv'
<1>1. pc[p] = "persist_dup" BY DEF PersistDuplicate
<1>2. CASE InsertRaises(p) BY <1>1, <1>2, InsertRaisesInv
<1>3. CASE /\ ForeignKeyHolds(cur[p])
           /\ Insert(cur[p], "deduped", "deduped")
           /\ Return(p)
           /\ UNCHANGED <<events, next, tasks, handed>>
  <2>1. /\ hit[p] \in Persisted
        /\ events[hit[p]].key = events[cur[p]].key
        /\ events[cur[p]].key # None
    BY <1>1 DEF IndInv, BusInv, CallsInv, KnowsOriginal
  <2>2. verdict[hit[p]] \in {"accepted", "deduped", "limited"}
    <3>1. verdict[hit[p]] \in Verdicts /\ hit[p] \in Ids
      BY DEF IndInv, TypeOK, HistoryType, CallType
    <3>2. verdict[hit[p]] \notin {"none", "system"}
      BY <2>1, <3>1 DEF IndInv, BusInv, RowsInv, Persisted
    <3> QED BY <3>1, <3>2 DEF Verdicts
  <2>3. \E o \in Ids : /\ verdict[o] \in {"accepted", "limited"}
                      /\ events[o].key = events[cur[p]].key
    BY <2>1, <2>2 DEF IndInv, BusInv, SuppressedHasOriginal, Persisted
  <2>4. SafeTable' BY <1>1, <1>3, <2>3, InsertSafe DEF Statuses
  <2>5. CallsInv'
    <3> HIDE DEF Ids
    <3>1. "deduped" \in Statuses \ {"absent"} BY DEF Statuses
    <3> QED BY <1>1, <1>3, <3>1, InsertOthers, ReturnStep
  <2> QED BY <2>4, <2>5 DEF SafeTable, BusInv
<1> QED BY <1>2, <1>3 DEF PersistDuplicate

\* A call that stores its event and goes on to tell somebody.
LEMMA StoredCall ==
    ASSUME IndInv, NEW p \in Publishers, pc[p] \notin {"idle", "broadcast", "report"},
           ForeignKeyHolds(cur[p]),
           NEW first \in Statuses \ {"absent"},
           NEW how \in {"accepted", "limited"},
           how = "limited" => events[cur[p]].parent # None,
           NEW phase \in {"broadcast", "report"},
           phase = "broadcast" <=> how = "accepted",
           Insert(cur[p], first, how), GoTo(p, phase),
           UNCHANGED <<events, next, tasks, handed>>
    PROVE  CallsInv'
<1>1. verdict[cur[p]] = "none" /\ cur[p] \in Ids BY CallFacts
<1>2. /\ Persisted' = Persisted \cup {cur[p]}
      /\ verdict'[cur[p]] = how
  BY <1>1, InsertStep
<1>3. /\ pc'[p] = phase
      /\ \A q \in Publishers \ {p} : pc'[q] = pc[q]
      /\ UNCHANGED <<cur, hit, at, steps, seen>>
  BY DEF GoTo, IndInv, TypeOK, CallType
<1>4. cur[p] \notin tasks \cup handed
  BY <1>1 DEF IndInv, BusInv, HandoverInv
<1>5. OwnEvent(p)'
  <2>1. OwnEvent(p) BY DEF IndInv, BusInv, CallsInv
  <2>2. \A q \in Publishers : pc'[q] # "idle" => pc[q] # "idle" BY <1>3
  <2> QED BY <1>2, <1>3, <1>4, <2>1, <2>2 DEF OwnEvent
<1>6. KnowsOriginal(p)' /\ WalkSoFar(p)'
  BY <1>3 DEF KnowsOriginal, WalkSoFar
<1>7. ASSUME NEW q \in Publishers \ {p}
      PROVE  OwnEvent(q)' /\ KnowsOriginal(q)' /\ WalkSoFar(q)'
  <2>1. ASSUME pc[q] # "idle", NEW r \in Publishers, pc'[r] # "idle",
               cur'[r] = cur[q]
        PROVE  r = q
    BY <1>3, <2>1, CallFacts
  <2>2. /\ next' \in Nat /\ next <= next'
        /\ Persisted \subseteq Persisted'
        /\ \A e \in Persisted : events'[e] = events[e] /\ rank'[e] = rank[e]
        /\ pc[q] # "idle" =>
              /\ events'[cur[q]] = events[cur[q]]
              /\ verdict'[cur[q]] = verdict[cur[q]]
              /\ cur[q] \notin tasks \cup handed
                    => cur[q] \notin (tasks \cup handed)'
    BY InsertOthers
  <2> QED BY <1>3, <2>1, <2>2, OtherCall
<1> QED BY <1>5, <1>6, <1>7 DEF CallsInv

LEMMA RefuseInv ==
    ASSUME IndInv, TypeOK', NEW p \in Publishers, Refuse(p)
    PROVE  BusInv'
<1>1. pc[p] = "refuse" BY DEF Refuse
<1>2. CASE InsertRaises(p) BY <1>1, <1>2, InsertRaisesInv
<1>3. CASE /\ ForeignKeyHolds(cur[p])
           /\ Insert(cur[p], "failed", "limited")
           /\ GoTo(p, "report")
           /\ UNCHANGED <<events, next, tasks, handed>>
  <2>1. events[cur[p]].parent # None
    BY <1>1 DEF IndInv, BusInv, CallsInv, WalkSoFar
  <2>2. "failed" \in Statuses \ {"absent"} BY DEF Statuses
  <2>3. SafeTable' BY <1>1, <1>3, <2>1, <2>2, InsertSafe
  <2>4. CallsInv' BY <1>1, <1>3, <2>1, <2>2, StoredCall
  <2> QED BY <2>3, <2>4 DEF SafeTable, BusInv
<1> QED BY <1>2, <1>3 DEF Refuse

\* The depth that get_chain_depth measured still holds when the row is stored.
LEMMA PersistInv ==
    ASSUME IndInv, TypeOK', NEW p \in Publishers, Persist(p)
    PROVE  BusInv'
<1>1. pc[p] = "persist" BY DEF Persist
<1>2. CASE InsertRaises(p) BY <1>1, <1>2, InsertRaisesInv
<1>3. CASE /\ ForeignKeyHolds(cur[p])
           /\ Insert(cur[p], "live", "accepted")
           /\ GoTo(p, "broadcast")
           /\ UNCHANGED <<events, next, tasks, handed>>
  <2>1. RankBelow(cur[p]) <= MaxDepth
    <3>1. CASE events[cur[p]].parent = None
      BY <3>1, BusAssumption DEF RankBelow
    <3>2. CASE events[cur[p]].parent \in Persisted /\ events[cur[p]].parent # None
      <4>1. rank[events[cur[p]].parent] < MaxDepth
        BY <1>1, <3>2 DEF IndInv, BusInv, CallsInv, WalkSoFar
      <4>2. rank[events[cur[p]].parent] \in Nat
        BY <3>2 DEF IndInv, TypeOK, HistoryType, Persisted
      <4> QED BY <3>2, <4>1, <4>2, BusAssumption DEF RankBelow
    <3> QED BY <1>3, <3>1, <3>2 DEF ForeignKeyHolds
  <2>2. "live" \in Statuses \ {"absent"} BY DEF Statuses
  <2>3. SafeTable' BY <1>1, <1>3, <2>1, <2>2, InsertSafe
  <2>4. CallsInv' BY <1>1, <1>3, <2>2, StoredCall
  <2> QED BY <2>3, <2>4 DEF SafeTable, BusInv
<1> QED BY <1>2, <1>3 DEF Persist

\* The system event becomes the newest row; it has no parent and no key.
LEMMA ReportLimitInv ==
    ASSUME IndInv, TypeOK', NEW p \in Publishers, ReportLimit(p)
    PROVE  BusInv'
<1>1. next \in Ids /\ next' = next + 1
  BY BusAssumption DEF ReportLimit, IndInv, TypeOK, TableType
<1>2. verdict[next] = "none" /\ next \notin Persisted /\ rank[next] = 0
  BY <1>1 DEF IndInv, BusInv, RowsInv, Persisted
<1>3. /\ \A e \in Ids \ {next} : /\ events'[e] = events[e]
                                /\ status'[e] = status[e]
                                /\ verdict'[e] = verdict[e]
      /\ events'[next].parent = None /\ events'[next].key = None
      /\ status'[next] = "live" /\ verdict'[next] = "system"
  BY <1>1 DEF ReportLimit, IndInv, TypeOK, TableType, HistoryType, Unbuilt
<1>4. rank' = rank /\ tasks' = tasks /\ handed' = handed BY DEF ReportLimit
<1>5. Persisted' = Persisted \cup {next} BY <1>1, <1>3 DEF Persisted
<1>6. RowsInv'
  <2>1. RowsInv BY DEF IndInv, BusInv
  <2>2. ASSUME NEW e \in Ids \ {next}, verdict[e] # "none"
        PROVE  /\ events'[e].parent \in Persisted' \cup {None}
               /\ events'[e].parent # None => events'[e].parent < e
               /\ rank'[e] = RankBelow(e)'
    <3>1. /\ events[e].parent \in Persisted \cup {None}
          /\ events[e].parent # None => events[e].parent < e
          /\ rank[e] = RankBelow(e)
      BY <2>1, <2>2 DEF RowsInv
    <3>2. events'[e] = events[e] BY <1>3
    <3>3. RankBelow(e)' = RankBelow(e) BY <1>4, <3>2 DEF RankBelow
    <3>4. rank'[e] = RankBelow(e)' BY <1>4, <3>1, <3>3
    <3> QED BY <1>5, <3>1, <3>2, <3>4
  <2>3. ASSUME NEW e \in Ids, e = next PROVE RankBelow(e)' = 0
    BY <1>3, <2>3 DEF RankBelow
  <2>4. ASSUME NEW e \in Ids
        PROVE  /\ status'[e] = "absent" <=> verdict'[e] = "none"
               /\ e >= next' => verdict'[e] = "none"
               /\ verdict'[e] = "none" => rank'[e] = 0
               /\ verdict'[e] = "system" =>
                     events'[e].parent = None /\ events'[e].key = None
               /\ verdict'[e] = "limited" => events'[e].parent # None
    BY <1>1, <1>3, <1>4, <2>1 DEF RowsInv
  <2>5. ASSUME NEW e \in Ids, verdict'[e] # "none"
        PROVE  /\ events'[e].parent \in Persisted' \cup {None}
               /\ events'[e].parent # None => events'[e].parent < e
               /\ rank'[e] = RankBelow(e)'
    <3>1. CASE e = next
      <4>1. rank'[e] = 0 BY <1>2, <1>4, <3>1
      <4>2. events'[e].parent = None BY <1>3, <3>1
      <4> QED BY <2>3, <3>1, <4>1, <4>2
    <3>2. CASE e # next
      <4>1. verdict[e] # "none" BY <1>3, <2>5, <3>2
      <4> QED BY <2>2, <3>2, <4>1
    <3> QED BY <3>1, <3>2
  <2> QED BY <2>4, <2>5 DEF RowsInv
<1>7. ChainDepthBounded'
  BY <1>3, <1>4 DEF ChainDepthBounded, IndInv, BusInv
<1>8. SuppressedHasOriginal'
  BY <1>2, <1>3 DEF SuppressedHasOriginal, IndInv, BusInv
<1>9. HandoverInv'
  <2>1. tasks \cup handed \subseteq Ids BY DEF IndInv, TypeOK, HistoryType
  <2> QED BY <1>2, <1>3, <1>4, <2>1 DEF HandoverInv, IndInv, BusInv
<1>10. CallsInv'
  <2>1. \A q \in Publishers \ {p} :
           pc[q] # "idle" => cur[q] \in Ids /\ cur[q] # next
    BY <1>1, CallFacts
  <2>2. next' \in Nat /\ next <= next' BY <1>1
  <2>3. \A e \in Persisted : events'[e] = events[e] /\ rank'[e] = rank[e]
    BY <1>2, <1>3, <1>4 DEF Persisted
  <2>4. pc[p] # "idle" /\ Return(p) BY DEF ReportLimit
  <2> QED BY <1>3, <1>4, <1>5, <2>1, <2>2, <2>3, <2>4, ReturnStep
<1> QED BY <1>6, <1>7, <1>8, <1>9, <1>10 DEF BusInv

-----------------------------------------------------------------------------
(* The end of a call, the router and the environment.                       *)

\* The event a call announces is its own, so the new task is a new event.
LEMMA BroadcastInv ==
    ASSUME IndInv, TypeOK', NEW p \in Publishers,
           Broadcast(p) \/ BroadcastRaises(p)
    PROVE  BusInv'
<1> USE DEF Broadcast, BroadcastRaises, table, past, clock
<1>1. /\ pc[p] = "broadcast" /\ Return(p)
      /\ UNCHANGED <<events, status, next, verdict, rank, handed>>
      /\ tasks' \subseteq tasks \cup {cur[p]}
  OBVIOUS
<1>2. verdict[cur[p]] = "accepted" /\ cur[p] \notin handed
  BY <1>1 DEF IndInv, BusInv, CallsInv, OwnEvent
<1>3. next \in Nat BY BusAssumption DEF IndInv, TypeOK, TableType
<1>4. /\ Persisted' = Persisted
      /\ RowsInv' /\ ChainDepthBounded' /\ SuppressedHasOriginal'
  BY <1>1, <1>3, RowsFrame
<1>5. HandoverInv' BY <1>1, <1>2 DEF HandoverInv, IndInv, BusInv
<1>6. \A q \in Publishers \ {p} : pc[q] # "idle" => cur[q] # cur[p]
  BY <1>1, CallFacts
<1>7. CallsInv' BY <1>1, <1>3, <1>4, <1>6, ReturnStep
<1> QED BY <1>4, <1>5, <1>7 DEF BusInv

\* Steps of the router and of the environment leave every call alone.
LEMMA CallsFrame ==
    ASSUME IndInv, Persisted' = Persisted,
           UNCHANGED <<events, next, pc, cur, hit, at, steps, seen, verdict,
                       rank>>,
           tasks' \cup handed' \subseteq tasks \cup handed
    PROVE  CallsInv'
<1>1. next \in Nat BY BusAssumption DEF IndInv, TypeOK, TableType
<1>2. ASSUME NEW q \in Publishers
      PROVE  OwnEvent(q)' /\ KnowsOriginal(q)' /\ WalkSoFar(q)'
  <2>1. ASSUME pc[q] # "idle", NEW r \in Publishers, pc'[r] # "idle",
               cur'[r] = cur[q]
        PROVE  r = q
    BY <2>1, CallFacts
  <2> QED BY <1>1, <2>1, OtherCall
<1> QED BY <1>2 DEF CallsInv

LEMMA RouteInv ==
    ASSUME IndInv, TypeOK', NEW e \in Ids, Route(e)
    PROVE  BusInv'
<1> USE DEF Route, locals
<1>1. next \in Nat BY BusAssumption DEF IndInv, TypeOK, TableType
<1>2. verdict[e] = "accepted" BY DEF IndInv, BusInv, HandoverInv
<1>3. status[e] # "absent" BY <1>2 DEF IndInv, BusInv, RowsInv
<1>4. \A d \in Ids : status'[d] = "absent" <=> status[d] = "absent"
  BY <1>3 DEF IndInv, TypeOK, TableType
<1>5. /\ Persisted' = Persisted
      /\ RowsInv' /\ ChainDepthBounded' /\ SuppressedHasOriginal'
  BY <1>1, <1>4, RowsFrame
<1>6. HandoverInv' BY <1>2 DEF HandoverInv, IndInv, BusInv
<1>7. CallsInv' BY <1>5, CallsFrame
<1> QED BY <1>5, <1>6, <1>7 DEF BusInv

LEMMA EnvironmentInv ==
    ASSUME IndInv, TypeOK', ExpireSweep \/ Tick \/ UNCHANGED vars
    PROVE  BusInv'
<1> USE DEF ExpireSweep, Tick, vars, table, locals, past, clock
<1>1. next \in Nat BY BusAssumption DEF IndInv, TypeOK, TableType
<1>2. UNCHANGED <<events, next, pc, cur, hit, at, steps, seen, verdict, rank,
                  tasks, handed>>
  OBVIOUS
<1>3. \A d \in Ids : status'[d] = "absent" <=> status[d] = "absent"
  BY DEF Expirable, Persisted
<1>4. /\ Persisted' = Persisted
      /\ RowsInv' /\ ChainDepthBounded' /\ SuppressedHasOriginal'
  BY <1>1, <1>2, <1>3, RowsFrame
<1>5. HandoverInv' BY <1>2 DEF HandoverInv, IndInv, BusInv
<1>6. CallsInv' BY <1>2, <1>4, CallsFrame
<1> QED BY <1>4, <1>5, <1>6 DEF BusInv

\* A crash ends every call; what is stored stays as it was.
LEMMA CrashInv ==
    ASSUME IndInv, TypeOK', Crash
    PROVE  BusInv'
<1> USE DEF Crash
<1>1. next \in Nat BY BusAssumption DEF IndInv, TypeOK, TableType
<1>2. \A e \in Persisted : events'[e] = events[e] BY DEF Persisted
<1>3. /\ Persisted' = Persisted
      /\ RowsInv' /\ ChainDepthBounded' /\ SuppressedHasOriginal'
  BY <1>1, <1>2, RowsFrame
<1>4. HandoverInv' BY DEF HandoverInv, IndInv, BusInv
<1>5. CallsInv' BY IdleCall DEF CallsInv
<1> QED BY <1>3, <1>4, <1>5 DEF BusInv

LEMMA InvNext == IndInv /\ TypeOK' /\ [Next]_vars => BusInv'
<1>0. SUFFICES ASSUME IndInv, TypeOK', [Next]_vars PROVE BusInv'
  OBVIOUS
<1>1. ASSUME NEW p \in Publishers, Submit(p) \/ Continue(p) PROVE BusInv'
  BY <1>0, <1>1, SubmitInv, FindDuplicateInv, CountDuplicateInv,
     PersistDuplicateInv, WalkUpInv, CheckDepthInv, ScanChildrenInv,
     RefuseInv, ReportLimitInv, PersistInv, BroadcastInv
     DEF Continue
<1>2. ASSUME NEW e \in Ids, Route(e) PROVE BusInv'
  BY <1>0, <1>2, RouteInv
<1>3. CASE ExpireSweep \/ Tick \/ UNCHANGED vars BY <1>0, <1>3, EnvironmentInv
<1>4. CASE Crash BY <1>0, <1>4, CrashInv
<1> QED BY <1>0, <1>1, <1>2, <1>3, <1>4 DEF Next, Quiescent

\* The inductive invariant holds of every reachable state.
THEOREM BusInvariant == Spec => []BusInv
<1>1. Init => IndInv BY TypeInit, InvInit DEF IndInv
<1>2. IndInv /\ [Next]_vars => IndInv' BY TypeNext, InvNext DEF IndInv
<1>3. IndInv => BusInv BY DEF IndInv
<1> QED BY <1>1, <1>2, <1>3, PTL DEF Spec

\* No accepted event lies deeper below its root than max_chain_depth, however
\* many calls walk the chain while others extend it.
THEOREM DepthIsBounded == Spec => []ChainDepthBounded
<1>1. BusInv => ChainDepthBounded BY DEF BusInv
<1> QED BY <1>1, BusInvariant, PTL

\* Every suppressed event has an original with its key.
THEOREM DuplicatesHaveOriginals == Spec => []SuppressedHasOriginal
<1>1. BusInv => SuppressedHasOriginal BY DEF BusInv
<1> QED BY <1>1, BusInvariant, PTL

-----------------------------------------------------------------------------
(* The bus implements the ledger.                                           *)

\* A step that gives no verdict and hands nothing over is a stutter.
LEMMA SameBook ==
    ASSUME IndInv, UNCHANGED <<verdict, rank, handed>>,
           \A e \in Persisted : events'[e] = events[e]
    PROVE  UNCHANGED Ledger!ledger
<1>1. ASSUME NEW e \in Ids PROVE Entry(e)' = Entry(e)
  <2>1. verdict[e] # "none" => e \in Persisted
    BY DEF IndInv, BusInv, RowsInv, Persisted
  <2> QED BY <2>1 DEF Entry
<1> QED BY <1>1 DEF Ledger!ledger

\* An INSERT enters one event below a parent that is in the book.
LEMMA EnterStep ==
    ASSUME NEW n \in Ids, verdict[n] = "none", verdict'[n] # "none",
           handed' = handed,
           \A e \in Ids \ {n} : Entry(e)' = Entry(e),
           \/ events'[n].parent = None /\ rank'[n] = 0
           \/ /\ events'[n].parent \in Ids /\ verdict[events'[n].parent] # "none"
              /\ rank'[n] = rank[events'[n].parent] + 1
    PROVE  Ledger!Enter(n, verdict'[n], events'[n].parent, events'[n].key, rank'[n])
<1>1. Entry(n)' = [verdict |-> verdict'[n], parent |-> events'[n].parent,
                   key |-> events'[n].key, rank |-> rank'[n]]
  BY DEF Entry
<1>2. /\ Entry(n).verdict = "none"
      /\ \A e \in Ids : verdict[e] # "none" =>
            Entry(e).verdict = verdict[e] /\ Entry(e).rank = rank[e]
  BY DEF Entry
<1>3. [e \in Ids |-> Entry(e)]'
        = [[e \in Ids |-> Entry(e)] EXCEPT ![n] = Entry(n)']
  OBVIOUS
<1> QED BY <1>1, <1>2, <1>3 DEF Ledger!Enter, Ledger!Recorded

\* Any of the three INSERTs, seen from the ledger; n is the event stored.
LEMMA InsertEnters ==
    ASSUME IndInv, NEW p \in Publishers, pc[p] \notin {"idle", "broadcast", "report"},
           ForeignKeyHolds(cur[p]), NEW n \in Ids, n = cur[p],
           NEW first \in Statuses \ {"absent"},
           NEW how \in {"accepted", "deduped", "limited"},
           how = "limited" => events[n].parent # None,
           Insert(cur[p], first, how), UNCHANGED <<events, next, tasks, handed>>
    PROVE  /\ Entry(n)' = [verdict |-> how, parent |-> events[n].parent,
                           key |-> events[n].key, rank |-> rank'[n]]
           /\ rank'[n] = RankBelow(n)
           /\ Ledger!Enter(n, how, events[n].parent, events[n].key, rank'[n])
<1>1. verdict[n] = "none" BY CallFacts
<1>2. /\ rank'[n] = RankBelow(n)
      /\ \A e \in Ids \ {n} : verdict'[e] = verdict[e] /\ rank'[e] = rank[e]
      /\ verdict'[n] = how
  BY <1>1, InsertStep
<1>3. ASSUME NEW e \in Ids \ {n} PROVE Entry(e)' = Entry(e)
  BY <1>2 DEF Entry
<1>4. \/ events'[n].parent = None /\ rank'[n] = 0
      \/ /\ events'[n].parent \in Ids /\ verdict[events'[n].parent] # "none"
         /\ rank'[n] = rank[events'[n].parent] + 1
  BY <1>2 DEF ForeignKeyHolds, RankBelow, Persisted, IndInv, BusInv, RowsInv
<1>5. verdict'[n] # "none" BY <1>2
<1>6. Ledger!Enter(n, verdict'[n], events'[n].parent, events'[n].key, rank'[n])
  BY <1>1, <1>3, <1>4, <1>5, EnterStep
<1>7. Entry(n)' = [verdict |-> how, parent |-> events[n].parent,
                   key |-> events[n].key, rank |-> rank'[n]]
  BY <1>2 DEF Entry
<1> QED BY <1>2, <1>6, <1>7

\* An accepted event: the bound on its rank is part of the invariant after it.
LEMMA PersistRefines ==
    ASSUME IndInv, IndInv', NEW p \in Publishers, Persist(p), ~ InsertRaises(p)
    PROVE  Ledger!Next
<1>1. PICK n \in Ids : n = cur[p] BY DEF IndInv, TypeOK, CallType
<1>2. /\ pc[p] = "persist" /\ ForeignKeyHolds(cur[p])
      /\ Insert(cur[p], "live", "accepted")
      /\ UNCHANGED <<events, next, tasks, handed>>
  BY DEF Persist
<1>3. "live" \in Statuses \ {"absent"} BY DEF Statuses
<1>4. /\ Entry(n)' = [verdict |-> "accepted", parent |-> events[n].parent,
                      key |-> events[n].key, rank |-> rank'[n]]
      /\ Ledger!Enter(n, "accepted", events[n].parent, events[n].key, rank'[n])
  BY <1>1, <1>2, <1>3, InsertEnters
<1>5. verdict'[n] = "accepted" BY <1>4 DEF Entry
<1>6. rank'[n] <= MaxDepth
  BY <1>5 DEF IndInv, BusInv, ChainDepthBounded
<1>7. Ledger!Record(n)
  BY <1>4, <1>6 DEF Ledger!Record, Ledger!Accept
<1> QED BY <1>7 DEF Ledger!Next

\* A suppressed event: the invariant names the original.
LEMMA PersistDuplicateRefines ==
    ASSUME IndInv, IndInv', NEW p \in Publishers, PersistDuplicate(p),
           ~ InsertRaises(p)
    PROVE  Ledger!Next
<1>1. PICK n \in Ids : n = cur[p] BY DEF IndInv, TypeOK, CallType
<1>2. /\ pc[p] = "persist_dup" /\ ForeignKeyHolds(cur[p])
      /\ Insert(cur[p], "deduped", "deduped")
      /\ UNCHANGED <<events, next, tasks, handed>>
  BY DEF PersistDuplicate
<1>3. "deduped" \in Statuses \ {"absent"} BY DEF Statuses
<1>4. /\ Entry(n)' = [verdict |-> "deduped", parent |-> events[n].parent,
                      key |-> events[n].key, rank |-> rank'[n]]
      /\ Ledger!Enter(n, "deduped", events[n].parent, events[n].key, rank'[n])
  BY <1>1, <1>2, <1>3, InsertEnters
<1>5. verdict'[n] = "deduped" BY <1>4 DEF Entry
<1>6. PICK o \in Ids : /\ verdict'[o] \in {"accepted", "limited"}
                       /\ events[o].key = events[n].key
  BY <1>2, <1>5 DEF IndInv, BusInv, SuppressedHasOriginal
<1>7. verdict[o] = verdict'[o]
  <2>1. o # n BY <1>5, <1>6
  <2> QED BY <1>1, <1>2, <1>3, <2>1, CallFacts, InsertStep
<1>8. /\ [e \in Ids |-> Entry(e)][o].verdict \in {"accepted", "limited"}
      /\ [e \in Ids |-> Entry(e)][o].key = events[n].key
  BY <1>6, <1>7 DEF Entry
<1>9. Ledger!Suppress(n, events[n].parent, events[n].key, rank'[n])
  BY <1>4, <1>8 DEF Ledger!Suppress
<1>10. Ledger!Record(n) BY <1>4, <1>9 DEF Ledger!Record
<1> QED BY <1>10 DEF Ledger!Next

\* A refused event is a child.
LEMMA RefuseRefines ==
    ASSUME IndInv, IndInv', NEW p \in Publishers, Refuse(p), ~ InsertRaises(p)
    PROVE  Ledger!Next
<1>1. PICK n \in Ids : n = cur[p] BY DEF IndInv, TypeOK, CallType
<1>2. /\ pc[p] = "refuse" /\ ForeignKeyHolds(cur[p])
      /\ Insert(cur[p], "failed", "limited")
      /\ UNCHANGED <<events, next, tasks, handed>>
  BY DEF Refuse
<1>3. "failed" \in Statuses \ {"absent"} BY DEF Statuses
<1>4. events[n].parent # None
  BY <1>1, <1>2 DEF IndInv, BusInv, CallsInv, WalkSoFar
<1>5. /\ Entry(n)' = [verdict |-> "limited", parent |-> events[n].parent,
                      key |-> events[n].key, rank |-> rank'[n]]
      /\ Ledger!Enter(n, "limited", events[n].parent, events[n].key, rank'[n])
  BY <1>1, <1>2, <1>3, <1>4, InsertEnters
<1>6. Ledger!Record(n)
  BY <1>4, <1>5 DEF Ledger!Record, Ledger!Limit
<1> QED BY <1>6 DEF Ledger!Next

LEMMA ReportLimitRefines ==
    ASSUME IndInv, IndInv', NEW p \in Publishers, ReportLimit(p)
    PROVE  Ledger!Next
<1>1. PICK n \in Ids : n = next
  BY BusAssumption DEF ReportLimit, IndInv, TypeOK, TableType
<1>2. verdict[n] = "none" /\ rank[n] = 0
  BY <1>1 DEF IndInv, BusInv, RowsInv, TypeOK, TableType
<1>3. /\ \A e \in Ids \ {n} : events'[e] = events[e] /\ verdict'[e] = verdict[e]
      /\ events'[n].parent = None /\ events'[n].key = None
      /\ verdict'[n] = "system" /\ rank' = rank /\ handed' = handed
  BY <1>1 DEF ReportLimit, IndInv, TypeOK, TableType, HistoryType, Unbuilt
<1>4. \A e \in Ids \ {n} : Entry(e)' = Entry(e) BY <1>3 DEF Entry
<1>5. Ledger!Enter(n, verdict'[n], events'[n].parent, events'[n].key, rank'[n])
  BY <1>2, <1>3, <1>4, EnterStep
<1>6. Ledger!Report(n) BY <1>2, <1>3, <1>5 DEF Ledger!Report
<1>7. Ledger!Record(n) BY <1>6 DEF Ledger!Record
<1> QED BY <1>7 DEF Ledger!Next

LEMMA RouteRefines ==
    ASSUME IndInv, NEW e \in Ids, Route(e)
    PROVE  Ledger!Next
<1>1. verdict[e] = "accepted" /\ e \notin handed
  BY DEF Route, IndInv, BusInv, HandoverInv
<1>2. UNCHANGED <<events, verdict, rank>> BY DEF Route
<1>3. \A d \in Ids : Entry(d)' = Entry(d) BY <1>2 DEF Entry
<1>4. [d \in Ids |-> Entry(d)][e].verdict = "accepted" BY <1>1 DEF Entry
<1>5. Ledger!Hand(e) BY <1>1, <1>3, <1>4 DEF Ledger!Hand, Route
<1> QED BY <1>5 DEF Ledger!Next

LEMMA StepRefines ==
    IndInv /\ IndInv' /\ [Next]_vars => [Ledger!Next]_(Ledger!ledger)
<1>0. SUFFICES ASSUME IndInv, IndInv', [Next]_vars
               PROVE  Ledger!Next \/ UNCHANGED Ledger!ledger
  OBVIOUS
<1> USE DEF table, locals, past, clock
<1>1. ASSUME NEW p \in Publishers, InsertRaises(p), pc[p] \notin {"idle", "broadcast", "report"}
      PROVE  UNCHANGED Ledger!ledger
  <2>1. cur[p] \in Ids /\ cur[p] \notin Persisted
    BY <1>0, <1>1, CallFacts DEF IndInv, BusInv, RowsInv, Persisted
  <2>2. \A e \in Persisted : events'[e] = events[e]
    BY <1>0, <1>1, <2>1 DEF InsertRaises, IndInv, TypeOK, TableType, Persisted
  <2> QED BY <1>0, <1>1, <2>2, SameBook DEF InsertRaises
<1>2. ASSUME NEW p \in Publishers, Submit(p) PROVE UNCHANGED Ledger!ledger
  <2>0. next + Cardinality(Busy) < MaxEvents BY <1>2 DEF Submit
  <2>1. next \in Ids /\ next \notin Persisted
    BY <1>0, <2>0, BusyIsFinite, BusAssumption
       DEF IndInv, BusInv, RowsInv, TypeOK, TableType, Persisted
  <2>2. PICK r \in Requests, parent \in Persisted \cup {Ghost, None} :
          Submit(p)!3!(r, parent)
    BY <1>2 DEF Submit
  <2>3. \A e \in Persisted : events'[e] = events[e]
    BY <1>0, <2>1, <2>2 DEF IndInv, TypeOK, TableType, Persisted
  <2> QED BY <1>0, <1>2, <2>3, SameBook DEF Submit
<1>3. ASSUME NEW p \in Publishers,
             \/ FindDuplicate(p) \/ CountDuplicate(p) \/ WalkUp(p)
             \/ CheckDepth(p) \/ ScanChildren(p)
             \/ Broadcast(p) \/ BroadcastRaises(p)
      PROVE  UNCHANGED Ledger!ledger
  <2>1. UNCHANGED <<events, verdict, rank, handed>>
    BY <1>3 DEF FindDuplicate, CountDuplicate, WalkUp, CheckDepth, ScanChildren,
                Broadcast, BroadcastRaises
  <2> QED BY <1>0, <2>1, SameBook
<1>4. CASE ExpireSweep \/ Tick \/ Crash \/ UNCHANGED vars
  <2>1. UNCHANGED <<verdict, rank, handed>>
    BY <1>4 DEF ExpireSweep, Tick, Crash, vars
  <2>2. \A e \in Persisted : events'[e] = events[e]
    BY <1>4 DEF ExpireSweep, Tick, Crash, vars, Persisted
  <2> QED BY <1>0, <2>1, <2>2, SameBook
<1>5. ASSUME NEW p \in Publishers, Continue(p)
      PROVE  Ledger!Next \/ UNCHANGED Ledger!ledger
  <2>1. CASE PersistDuplicate(p) \/ Refuse(p) \/ Persist(p)
    <3>1. pc[p] \notin {"idle", "broadcast", "report"}
      BY <2>1 DEF PersistDuplicate, Refuse, Persist
    <3> QED BY <1>0, <1>1, <2>1, <3>1, PersistRefines,
               PersistDuplicateRefines, RefuseRefines
  <2>2. CASE ReportLimit(p) BY <1>0, <2>2, ReportLimitRefines
  <2> QED BY <1>3, <1>5, <2>1, <2>2 DEF Continue
<1>6. ASSUME NEW e \in Ids, Route(e) PROVE Ledger!Next
  BY <1>0, <1>6, RouteRefines
<1> QED BY <1>0, <1>2, <1>4, <1>5, <1>6 DEF Next, Quiescent

\* Whatever publish() does, its callers see a ledger: verdicts are final, the
\* depth is bounded, duplicates have originals and the router is handed each
\* accepted event at most once.
THEOREM ImplementsLedger == Spec => KeepsTheLedger
<1>1. Init => Ledger!Init
  <2> SUFFICES ASSUME Init PROVE Ledger!Init
    OBVIOUS
  <2> QED BY DEF Init, Ledger!Init, Ledger!Blank, Entry
<1>2. IndInv /\ IndInv' /\ [Next]_vars => [Ledger!Next]_(Ledger!ledger)
  BY StepRefines
<1>3. Spec => []IndInv BY TypeCorrect, BusInvariant, PTL DEF IndInv
<1> QED BY <1>1, <1>2, <1>3, PTL DEF Spec, KeepsTheLedger, Ledger!Spec

-----------------------------------------------------------------------------
(* What concurrent publish() calls can do to each other: how far the        *)
(* sibling budget and the dedupe check are overshot, that no duplicate is   *)
(* left uncounted, and that a generated trace names one tree.               *)

-----------------------------------------------------------------------------
(* What a step of one call does to the rows and to the other calls.         *)

\* The other calls keep their locals, and those in flight their event.
Alone(p) ==
    \A q \in Publishers \ {p} :
        /\ pc'[q] = pc[q] /\ cur'[q] = cur[q] /\ steps'[q] = steps[q]
        /\ seen'[q] = seen[q] /\ frontier'[q] = frontier[q]
        /\ pc[q] # "idle" => events'[cur[q]] = events[cur[q]]

\* A verdict is final, as is the event it is about.
Final == \A e \in Ids : verdict[e] # "none" =>
             verdict'[e] = verdict[e] /\ events'[e] = events[e]

\* A call that is at phase gives its own event the verdict how and goes on.
Decides(p, e, phase, how, then) ==
    /\ e = cur[p] /\ pc[p] = phase /\ pc'[p] = then
    /\ events' = events /\ verdict' = [verdict EXCEPT ![e] = how]

\* Only a call about to store an event accepts or suppresses one.
OwnVerdict(p) ==
    \A e \in Ids : verdict[e] = "none" =>
        /\ verdict'[e] = "accepted" => Decides(p, e, "persist", "accepted", "broadcast")
        /\ verdict'[e] = "deduped" => Decides(p, e, "persist_dup", "deduped", "idle")

LEMMA EffectsOfSubmit ==
    ASSUME IndInv, NEW p \in Publishers, Submit(p)
    PROVE  Alone(p) /\ Final /\ OwnVerdict(p)
<1> USE BusAssumption DEF IndInv, TypeOK
<1>1. next \in Nat /\ pc[p] = "idle" BY DEF Submit, TableType
<1>2. /\ verdict' = verdict /\ UNCHANGED <<steps, seen, frontier>>
      /\ cur' = [cur EXCEPT ![p] = next]
      /\ \A e \in Ids \ {next} : events'[e] = events[e]
      /\ \A q \in Publishers \ {p} : pc'[q] = pc[q]
  BY DEF Submit, past, TableType, CallType
<1>3. \A q \in Publishers : pc[q] # "idle" => cur[q] \in Ids /\ cur[q] < next
  BY CallFacts
<1>4. Alone(p) BY <1>1, <1>2, <1>3 DEF Alone, CallType
<1>5. Final BY <1>1, <1>2 DEF Final, BusInv, RowsInv
<1>6. OwnVerdict(p) BY <1>2 DEF OwnVerdict
<1> QED BY <1>4, <1>5, <1>6

LEMMA EffectsOfLocal ==
    ASSUME IndInv, NEW p \in Publishers,
           \/ FindDuplicate(p) \/ CountDuplicate(p) \/ WalkUp(p) \/ CheckDepth(p)
           \/ ScanChildren(p) \/ Broadcast(p) \/ BroadcastRaises(p)
    PROVE  Alone(p) /\ Final /\ OwnVerdict(p)
<1> USE DEF IndInv, TypeOK, CallType
<1>1. verdict' = verdict /\ events' = events
  BY DEF FindDuplicate, CountDuplicate, WalkUp, CheckDepth, ScanChildren, Broadcast,
         BroadcastRaises, past, table
<1>2. ASSUME NEW q \in Publishers \ {p}
      PROVE  /\ pc'[q] = pc[q] /\ cur'[q] = cur[q] /\ steps'[q] = steps[q]
             /\ seen'[q] = seen[q] /\ frontier'[q] = frontier[q]
  <2>1. CASE FindDuplicate(p) BY <2>1 DEF FindDuplicate, GoTo
  <2>2. CASE CountDuplicate(p) BY <2>2 DEF CountDuplicate, GoTo
  <2>3. CASE WalkUp(p) BY <2>3 DEF WalkUp
  <2>4. CASE CheckDepth(p) BY <2>4 DEF CheckDepth
  <2>5. CASE ScanChildren(p) BY <2>5 DEF ScanChildren
  <2>6. CASE Broadcast(p) \/ BroadcastRaises(p)
    BY <2>6 DEF Broadcast, BroadcastRaises, Return
  <2> QED BY <2>1, <2>2, <2>3, <2>4, <2>5, <2>6
<1> QED BY <1>1, <1>2 DEF Alone, Final, OwnVerdict

LEMMA EffectsOfRaise ==
    ASSUME IndInv, NEW p \in Publishers, InsertRaises(p),
           pc[p] \in {"persist_dup", "refuse", "persist"}
    PROVE  Alone(p) /\ Final /\ OwnVerdict(p) /\ pc'[p] = "idle"
<1> USE DEF IndInv, TypeOK, CallType
<1>1. /\ verdict' = verdict /\ pc'[p] = "idle"
      /\ events' = [events EXCEPT ![cur[p]] = Unbuilt]
  BY DEF InsertRaises, Return, past
<1>2. \A q \in Publishers \ {p} :
         /\ pc'[q] = pc[q] /\ cur'[q] = cur[q] /\ steps'[q] = steps[q]
         /\ seen'[q] = seen[q] /\ frontier'[q] = frontier[q]
  BY DEF InsertRaises, Return
<1>3. /\ verdict[cur[p]] = "none"
      /\ \A q \in Publishers : pc[q] # "idle" /\ cur[q] = cur[p] => q = p
  BY CallFacts
<1>4. \A e \in Ids \ {cur[p]} : events'[e] = events[e] BY <1>1 DEF TableType
<1> QED BY <1>1, <1>2, <1>3, <1>4 DEF Alone, Final, OwnVerdict

LEMMA EffectsOfInsert ==
    ASSUME IndInv, NEW p \in Publishers,
           NEW phase, NEW how, NEW then, NEW first,
           <<phase, how, then>> \in {<<"persist_dup", "deduped", "idle">>,
                                     <<"refuse", "limited", "report">>,
                                     <<"persist", "accepted", "broadcast">>},
           pc[p] = phase, Insert(cur[p], first, how), UNCHANGED events,
           GoTo(p, then) \/ (Return(p) /\ then = "idle")
    PROVE  Alone(p) /\ Final /\ OwnVerdict(p) /\ pc'[p] = then
<1> USE DEF IndInv, TypeOK, CallType
<1>1. /\ verdict' = [verdict EXCEPT ![cur[p]] = how] /\ pc'[p] = then
  BY DEF Insert, GoTo, Return
<1>2. \A q \in Publishers \ {p} :
         /\ pc'[q] = pc[q] /\ cur'[q] = cur[q] /\ steps'[q] = steps[q]
         /\ seen'[q] = seen[q] /\ frontier'[q] = frontier[q]
  BY DEF GoTo, Return
<1>3. verdict[cur[p]] = "none" /\ cur[p] \in Ids BY CallFacts
<1>4. /\ verdict'[cur[p]] = how
      /\ \A e \in Ids \ {cur[p]} : verdict'[e] = verdict[e]
  BY <1>1, <1>3 DEF HistoryType
<1>5. Alone(p) /\ Final BY <1>2, <1>3, <1>4 DEF Alone, Final
<1>6. OwnVerdict(p) BY <1>1, <1>4 DEF OwnVerdict, Decides
<1> QED BY <1>1, <1>5, <1>6

LEMMA EffectsOfReport ==
    ASSUME IndInv, NEW p \in Publishers, ReportLimit(p)
    PROVE  Alone(p) /\ Final /\ OwnVerdict(p)
<1> USE BusAssumption DEF IndInv, TypeOK
<1>1. next \in Ids /\ next \in Nat BY DEF ReportLimit, TableType
<1>2. /\ \A e \in Ids \ {next} : events'[e] = events[e] /\ verdict'[e] = verdict[e]
      /\ verdict'[next] = "system" /\ verdict[next] = "none"
  BY <1>1 DEF ReportLimit, TableType, HistoryType, BusInv, RowsInv
<1>3. \A q \in Publishers \ {p} :
         /\ pc'[q] = pc[q] /\ cur'[q] = cur[q] /\ steps'[q] = steps[q]
         /\ seen'[q] = seen[q] /\ frontier'[q] = frontier[q]
  BY DEF ReportLimit, Return, CallType
<1>4. \A q \in Publishers : pc[q] # "idle" => cur[q] \in Ids /\ cur[q] < next
  BY CallFacts
<1>5. Alone(p) BY <1>1, <1>2, <1>3, <1>4 DEF Alone, TableType
<1>6. Final BY <1>2 DEF Final
<1>7. OwnVerdict(p) BY <1>2 DEF OwnVerdict
<1> QED BY <1>5, <1>6, <1>7

LEMMA Effects ==
    ASSUME IndInv, NEW p \in Publishers, Submit(p) \/ Continue(p)
    PROVE  Alone(p) /\ Final /\ OwnVerdict(p)
<1>1. CASE PersistDuplicate(p)
  <2>1. CASE InsertRaises(p) BY <1>1, <2>1, EffectsOfRaise DEF PersistDuplicate
  <2>2. CASE ~ InsertRaises(p)
    <3>1. /\ pc[p] = "persist_dup" /\ Insert(cur[p], "deduped", "deduped")
          /\ Return(p) /\ UNCHANGED events
      BY <1>1, <2>2 DEF PersistDuplicate
    <3> QED BY <3>1, EffectsOfInsert
  <2> QED BY <2>1, <2>2
<1>2. CASE Refuse(p)
  <2>1. CASE InsertRaises(p) BY <1>2, <2>1, EffectsOfRaise DEF Refuse
  <2>2. CASE ~ InsertRaises(p)
    <3>1. /\ pc[p] = "refuse" /\ Insert(cur[p], "failed", "limited")
          /\ GoTo(p, "report") /\ UNCHANGED events
      BY <1>2, <2>2 DEF Refuse
    <3> QED BY <3>1, EffectsOfInsert
  <2> QED BY <2>1, <2>2
<1>3. CASE Persist(p)
  <2>1. CASE InsertRaises(p) BY <1>3, <2>1, EffectsOfRaise DEF Persist
  <2>2. CASE ~ InsertRaises(p)
    <3>1. /\ pc[p] = "persist" /\ Insert(cur[p], "live", "accepted")
          /\ GoTo(p, "broadcast") /\ UNCHANGED events
      BY <1>3, <2>2 DEF Persist
    <3> QED BY <3>1, EffectsOfInsert
  <2> QED BY <2>1, <2>2
<1> QED
  BY <1>1, <1>2, <1>3, EffectsOfSubmit, EffectsOfLocal, EffectsOfReport DEF Continue

\* The rest of the daemon and the clock leave verdicts and rows alone; a crash
\* ends the calls and forgets the events they had not stored.
LEMMA EffectsOfOthers ==
    ASSUME IndInv,
           \/ (\E e \in Ids : Route(e)) \/ ExpireSweep \/ Tick \/ Crash \/ UNCHANGED vars
    PROVE  /\ verdict' = verdict
           /\ \A e \in Ids : verdict[e] # "none" => events'[e] = events[e]
           /\ \/ events' = events /\ UNCHANGED locals
              \/ /\ Crash
                 /\ \A p \in Publishers : pc'[p] = "idle"
                 /\ \A e \in Ids : events'[e] \in {events[e], Unbuilt}
<1>1. CASE Crash
  BY <1>1 DEF Crash, IndInv, BusInv, RowsInv, Persisted
<1>2. CASE ~ Crash
  BY <1>2 DEF Route, ExpireSweep, Tick, table, past, vars
<1> QED BY <1>1, <1>2

LEMMA StepEffects ==
    ASSUME IndInv, [Next]_vars
    PROVE  \/ \E p \in Publishers : Submit(p) \/ Continue(p)
           \/ (\E e \in Ids : Route(e)) \/ ExpireSweep \/ Tick \/ Crash \/ UNCHANGED vars
BY DEF Next, Quiescent

LEMMA RowsStay ==
    ASSUME IndInv, IndInv', [Next]_vars
    PROVE  Final /\ Persisted \subseteq Persisted'
<1>1. Final
  <2>1. CASE \E p \in Publishers : Submit(p) \/ Continue(p) BY <2>1, Effects
  <2>2. CASE \/ (\E e \in Ids : Route(e)) \/ ExpireSweep \/ Tick \/ Crash
             \/ UNCHANGED vars
    BY <2>2, EffectsOfOthers DEF Final
  <2> QED BY <2>1, <2>2, StepEffects
<1>2. ASSUME NEW e \in Ids, status[e] # "absent" PROVE status'[e] # "absent"
  <2>1. verdict[e] # "none" BY <1>2 DEF IndInv, BusInv, RowsInv
  <2>2. verdict'[e] # "none" BY <1>1, <2>1 DEF Final
  <2> QED BY <2>2 DEF IndInv, BusInv, RowsInv
<1> QED BY <1>1, <1>2 DEF Persisted

-----------------------------------------------------------------------------
(* The trace follows the chain of parents.                                  *)

LEMMA TraceInit == Init => TraceInv
<1> SUFFICES ASSUME Init, NEW e \in Ids PROVE TraceInv!(e)
  BY DEF TraceInv
<1>1. events[e] = Unbuilt BY DEF Init
<1>2. events[e].parent = None /\ events[e].trace = None BY <1>1 DEF Unbuilt
<1>3. None \notin Persisted /\ None \notin Ids BY BusAssumption DEF Persisted
<1> QED BY <1>2, <1>3 DEF OfItsTree, TraceAbove

\* What TraceInv says of one event.
InItsPlace(e) == /\ events[e].parent \in Persisted \cup {Ghost, None}
                 /\ OfItsTree(e)

\* An event with no trace and no parent, or one that stays, stays in its tree.
LEMMA TraceStays ==
    ASSUME IndInv, TraceInv, Final, Persisted \subseteq Persisted', NEW e \in Ids,
           \/ events'[e] = events[e]
           \/ events'[e].trace = None /\ events'[e].parent = None
    PROVE  InItsPlace(e)'
<1> USE BusAssumption DEF InItsPlace
<1>0. None \notin Persisted /\ None \notin Persisted' /\ None \notin Ids
  BY DEF Persisted
<1>1. CASE events'[e].trace = None /\ events'[e].parent = None
  BY <1>0, <1>1 DEF OfItsTree, TraceAbove
<1>2. CASE events'[e] = events[e] /\ events[e].parent \in Persisted
  <2> DEFINE parent == events[e].parent
  <2>1. /\ parent \in Persisted'
        /\ events'[parent] = events[parent]
    BY <1>2 DEF Final, Persisted, IndInv, BusInv, RowsInv
  <2>2. TraceAbove(e)' = TraceAbove(e) BY <1>2, <2>1 DEF TraceAbove
  <2> QED BY <1>2, <2>1, <2>2 DEF TraceInv, OfItsTree
<1>3. CASE events'[e] = events[e] /\ events[e].parent \notin Persisted
  <2>1. events[e].parent \in {Ghost, None} BY <1>3 DEF TraceInv
  <2>2. events[e].parent \notin Persisted' BY <2>1 DEF Persisted, Ghost
  <2>3. TraceAbove(e)' = TraceAbove(e) BY <1>3, <2>2 DEF TraceAbove
  <2> QED BY <1>3, <2>1, <2>3 DEF TraceInv, OfItsTree
<1> QED BY <1>1, <1>2, <1>3

\* A trace is supplied, or inherited from a parent that has one, or the event's own.
LEMMA TraceOfSubmit ==
    ASSUME IndInv, IndInv', NEW p \in Publishers, Submit(p), NEW e \in Ids, e = next
    PROVE  InItsPlace(e)'
<1> USE BusAssumption DEF InItsPlace
<1>1. Persisted' = Persisted BY DEF Submit, Persisted
<1>2. PICK r \in Requests, parent \in Persisted \cup {Ghost, None} :
         \E trace \in Supplied(r) :
         events' = [events EXCEPT ![e] =
                [system |-> FALSE, parent |-> parent, key |-> r.key,
                 trace |-> Inherited(trace, parent), given |-> trace # None,
                 slot |-> now, lasting |-> r.lasting]]
  BY DEF Submit
<1>3. PICK trace \in Supplied(r) :
         events' = [events EXCEPT ![e] =
                [system |-> FALSE, parent |-> parent, key |-> r.key,
                 trace |-> Inherited(trace, parent), given |-> trace # None,
                 slot |-> now, lasting |-> r.lasting]]
  BY <1>2
<1> DEFINE t == Inherited(trace, parent)
<1>4. /\ events'[e].parent = parent /\ events'[e].trace = t
      /\ events'[e].given = (trace # None)
  BY <1>3 DEF IndInv, TypeOK, TableType
<1>5. ASSUME parent \in Persisted PROVE events'[parent] = events[parent]
  <2>1. parent # e /\ parent \in Ids
    BY <1>5 DEF Persisted, IndInv, BusInv, RowsInv, TypeOK, TableType
  <2> QED BY <1>3, <2>1 DEF IndInv, TypeOK, TableType
<1>6. TraceAbove(e)' = IF parent \in Persisted THEN events[parent].trace ELSE None
  BY <1>1, <1>4, <1>5 DEF TraceAbove
<1>7. trace = None => t = IF TraceAbove(e)' # None THEN TraceAbove(e)' ELSE e
  BY <1>6 DEF Inherited
<1> HIDE DEF t
<1>8. OfItsTree(e)' BY <1>4, <1>7 DEF OfItsTree
<1> QED BY <1>1, <1>4, <1>8

LEMMA TraceNext == IndInv /\ IndInv' /\ TraceInv /\ [Next]_vars => TraceInv'
<1> SUFFICES ASSUME IndInv, IndInv', TraceInv, [Next]_vars, NEW e \in Ids
             PROVE  InItsPlace(e)'
  BY DEF TraceInv, InItsPlace
<1>1. Final /\ Persisted \subseteq Persisted' BY RowsStay
<1>2. CASE \E p \in Publishers : Submit(p)
  <2>1. CASE e = next BY <1>2, <2>1, TraceOfSubmit
  <2>2. CASE e # next
    <3>1. events'[e] = events[e] BY <1>2, <2>2 DEF Submit, IndInv, TypeOK, TableType
    <3> QED BY <1>1, <3>1, TraceStays
  <2> QED BY <2>1, <2>2
<1>3. CASE \E p \in Publishers : Continue(p)
  <2>1. PICK p \in Publishers : Continue(p) BY <1>3
  <2>2. \/ UNCHANGED events \/ InsertRaises(p) \/ ReportLimit(p)
    BY <2>1 DEF Continue, FindDuplicate, CountDuplicate, PersistDuplicate, WalkUp,
                CheckDepth, ScanChildren, Refuse, Persist, Broadcast,
                BroadcastRaises, table
  <2>3. events \in [Ids -> Event] BY DEF IndInv, TypeOK, TableType
  <2>4. CASE InsertRaises(p)
    <3>1. events' = [events EXCEPT ![cur[p]] = Unbuilt] BY <2>4 DEF InsertRaises
    <3>2. events'[e] \in {events[e], Unbuilt} BY <2>3, <3>1
    <3> QED BY <1>1, <3>2, TraceStays DEF Unbuilt
  <2>5. CASE ReportLimit(p)
    <3> DEFINE row == [Unbuilt EXCEPT !.system = TRUE, !.slot = now]
    <3>1. events' = [events EXCEPT ![next] = row] BY <2>5 DEF ReportLimit
    <3>2. row.trace = None /\ row.parent = None BY DEF Unbuilt
    <3> HIDE DEF row
    <3>3. events'[e] \in {events[e], row} BY <2>3, <3>1
    <3> QED BY <1>1, <3>2, <3>3, TraceStays
  <2> QED BY <1>1, <2>2, <2>4, <2>5, TraceStays
<1>4. CASE \/ (\E o \in Ids : Route(o)) \/ ExpireSweep \/ Tick \/ Crash \/ UNCHANGED vars
  <2>1. \/ events'[e] = events[e]
        \/ events'[e].trace = None /\ events'[e].parent = None
    BY <1>4, EffectsOfOthers DEF Unbuilt
  <2> QED BY <1>1, <2>1, TraceStays
<1> QED BY <1>2, <1>3, <1>4, StepEffects

\* An event whose caller gave it no trace is in the trace of its parent, and bears
\* no generated trace id but its own or its parent's, whatever traces the callers
\* make up or repeat for other events.
THEOREM TracesFollowChains == Spec => []TraceFollowsTheChain
<1>1. TraceInv => TraceFollowsTheChain
  BY DEF TraceInv, TraceFollowsTheChain, Persisted
<1>2. Spec => []TraceInv
  BY TraceInit, TraceNext, TypeCorrect, BusInvariant, PTL DEF Spec, IndInv
<1> QED BY <1>1, <1>2, PTL

-----------------------------------------------------------------------------
(* Every duplicate is counted.                                              *)

LEMMA CallsAreFinite ==
    ASSUME NEW S \in SUBSET Publishers
    PROVE  /\ IsFiniteSet(S) /\ Cardinality(S) \in Nat
           /\ Cardinality(S) <= Cardinality(Publishers)
           /\ Cardinality(Publishers) \in Nat
BY BusAssumption, FS_Subset, FS_CardinalityType

LEMMA EventsAreFinite ==
    ASSUME NEW S \in SUBSET Ids
    PROVE  IsFiniteSet(S) /\ Cardinality(S) \in Nat
<1>1. IsFiniteSet(Ids) BY BusAssumption, FS_Interval
<1> QED BY <1>1, FS_Subset, FS_CardinalityType

LEMMA CountInit == Init => CountInv
<1> SUFFICES ASSUME Init PROVE CountInv
  OBVIOUS
<1>1. Suppressed = {} /\ Counting = {} BY DEF Init, Suppressed, Counting
<1>2. Counted = {}
  <2>1. \A e \in Ids : {e} \X (2 .. dedupe_count[e]) = {} BY DEF Init
  <2> QED BY <2>1 DEF Counted
<1> QED BY <1>1, <1>2, FS_EmptySet DEF CountInv

\* A step that suppresses nothing and counts nothing.
LEMMA CountStays ==
    ASSUME CountInv, dedupe_count' = dedupe_count, Suppressed' \subseteq Suppressed,
           Counting' \subseteq Counting
    PROVE  CountInv'
<1>1. Counted' = Counted BY DEF Counted
<1>2. /\ IsFiniteSet(Suppressed) /\ Cardinality(Suppressed) \in Nat
      /\ IsFiniteSet(Counting) /\ Cardinality(Counting) \in Nat
  BY EventsAreFinite, CallsAreFinite DEF Suppressed, Counting
<1>3. Cardinality(Suppressed') <= Cardinality(Suppressed) /\ Cardinality(Suppressed') \in Nat
  BY <1>2, FS_Subset, FS_CardinalityType
<1>4. Cardinality(Counting') <= Cardinality(Counting) /\ Cardinality(Counting') \in Nat
  BY <1>2, FS_Subset, FS_CardinalityType
<1>5. Cardinality(Counted) \in Nat BY FS_CardinalityType DEF CountInv
<1> QED BY <1>1, <1>2, <1>3, <1>4, <1>5 DEF CountInv

\* One more is counted, and a call knows of it.
LEMMA CountOfDuplicate ==
    ASSUME TypeOK, CountInv, NEW p \in Publishers, CountDuplicate(p)
    PROVE  CountInv'
<1> DEFINE h == hit[p]
           n == dedupe_count[h] + 1
<1>1. /\ h \in Ids /\ dedupe_count \in [Ids -> Nat \ {0}] /\ pc[p] = "count"
      /\ dedupe_count' = [dedupe_count EXCEPT ![h] = n]
      /\ verdict' = verdict /\ pc' = [pc EXCEPT ![p] = "persist_dup"]
      /\ pc \in [Publishers -> Phases]
  BY DEF CountDuplicate, GoTo, past, TypeOK, TableType, CallType
<1>2. Counted' = Counted \cup {<<h, n>>} /\ <<h, n>> \notin Counted
  <2>1. Counted' = UNION {{e} \X (2 .. dedupe_count'[e]) : e \in Ids} BY DEF Counted
  <2>2. \A e \in Ids : dedupe_count'[e] = IF e = h THEN n ELSE dedupe_count[e]
    BY <1>1
  <2>3. {h} \X (2 .. n) = ({h} \X (2 .. dedupe_count[h])) \cup {<<h, n>>}
    <3>1. n \in Nat /\ n >= 2 /\ dedupe_count[h] \in Nat BY <1>1
    <3>2. 2 .. n = (2 .. dedupe_count[h]) \cup {n} BY <3>1
    <3> QED BY <3>2
  <2>4. Counted' = Counted \cup {<<h, n>>} BY <1>1, <2>1, <2>2, <2>3 DEF Counted
  <2>5. <<h, n>> \notin Counted BY <1>1 DEF Counted
  <2> QED BY <2>4, <2>5
<1>3. Suppressed' = Suppressed BY <1>1 DEF Suppressed
<1>4. Counting' = Counting \cup {p} /\ p \notin Counting BY <1>1 DEF Counting
<1>5. /\ IsFiniteSet(Counted') /\ Cardinality(Counted') = Cardinality(Counted) + 1
      /\ Cardinality(Counted) \in Nat
  BY <1>2, FS_AddElement, FS_CardinalityType DEF CountInv
<1>6. Cardinality(Counting') = Cardinality(Counting) + 1 /\ Cardinality(Counting) \in Nat
  BY <1>4, FS_AddElement, CallsAreFinite DEF Counting
<1>7. Cardinality(Suppressed) \in Nat BY EventsAreFinite DEF Suppressed
<1> QED BY <1>3, <1>5, <1>6, <1>7 DEF CountInv

\* A counted duplicate is stored; its call is over.
LEMMA CountOfStored ==
    ASSUME IndInv, CountInv, NEW p \in Publishers, PersistDuplicate(p), Alone(p),
           NEW e \in Ids, Decides(p, e, "persist_dup", "deduped", "idle")
    PROVE  CountInv'
<1>1. Counted' = Counted
  BY DEF PersistDuplicate, InsertRaises, Counted
<1>2. Suppressed' = Suppressed \cup {e}
  BY DEF Suppressed, Decides, IndInv, TypeOK, HistoryType
<1>3. Counting' = Counting \ {p} /\ p \in Counting BY DEF Counting, Decides, Alone
<1>4. Cardinality(Suppressed') <= Cardinality(Suppressed) + 1
      /\ Cardinality(Suppressed) \in Nat /\ Cardinality(Suppressed') \in Nat
  <2>1. /\ Suppressed \in SUBSET Ids /\ Suppressed' \in SUBSET Ids /\ e \notin Suppressed
    BY DEF Suppressed, Decides, OwnVerdict, IndInv, BusInv, CallsInv, OwnEvent
  <2>2. IsFiniteSet(Suppressed) /\ Cardinality(Suppressed) \in Nat BY <2>1, EventsAreFinite
  <2>3. Cardinality(Suppressed') = Cardinality(Suppressed) + 1
    BY <1>2, <2>1, <2>2, FS_AddElement
  <2> QED BY <2>2, <2>3
<1>5. Cardinality(Counting') = Cardinality(Counting) - 1 /\ Cardinality(Counting) \in Nat
  BY <1>3, FS_RemoveElement, CallsAreFinite DEF Counting
<1>6. Cardinality(Counted) \in Nat BY FS_CardinalityType DEF CountInv
<1> QED BY <1>1, <1>4, <1>5, <1>6 DEF CountInv

LEMMA CountNext == IndInv /\ IndInv' /\ CountInv /\ [Next]_vars => CountInv'
<1> SUFFICES ASSUME IndInv, IndInv', CountInv, [Next]_vars PROVE CountInv'
  OBVIOUS
<1>1. ASSUME NEW p \in Publishers, Submit(p) \/ Continue(p) PROVE CountInv'
  <2>1. Alone(p) /\ Final /\ OwnVerdict(p) BY <1>1, Effects
  <2>2. CASE CountDuplicate(p) BY <2>2, CountOfDuplicate DEF IndInv
  <2>3. CASE \E e \in Ids : Decides(p, e, "persist_dup", "deduped", "idle")
    <3>1. pc[p] = "persist_dup" BY <2>3 DEF Decides
    <3>2. PersistDuplicate(p)
      BY <1>1, <3>1 DEF Submit, Continue, FindDuplicate, CountDuplicate, WalkUp, CheckDepth,
                    ScanChildren, Refuse, ReportLimit, Persist, Broadcast, BroadcastRaises
    <3> QED BY <2>1, <2>3, <3>2, CountOfStored
  <2>4. CASE ~ CountDuplicate(p) /\ ~ \E e \in Ids : Decides(p, e, "persist_dup", "deduped", "idle")
    <3>1. Suppressed' \subseteq Suppressed
      BY <2>1, <2>4 DEF Suppressed, OwnVerdict, Final
    <3>2. UNCHANGED dedupe_count /\ pc'[p] # "persist_dup"
      BY <1>1, <2>4 DEF Submit, AfterDedupe, Continue, FindDuplicate, PersistDuplicate, WalkUp,
               CheckDepth, ScanChildren, Refuse, ReportLimit, Persist, Broadcast,
               BroadcastRaises, InsertRaises, table, GoTo, Return, IndInv, TypeOK, CallType
    <3>3. Counting' \subseteq Counting BY <2>1, <3>2 DEF Alone, Counting
    <3> QED BY <3>1, <3>2, <3>3, CountStays
  <2> QED BY <2>2, <2>3, <2>4
<1>2. CASE \/ (\E o \in Ids : Route(o)) \/ ExpireSweep \/ Tick \/ Crash \/ UNCHANGED vars
  <2>1. UNCHANGED dedupe_count BY <1>2 DEF Route, ExpireSweep, Tick, Crash, vars, table
  <2>2. Suppressed' = Suppressed BY <1>2, EffectsOfOthers DEF Suppressed
  <2>3. Counting' \subseteq Counting BY <1>2, EffectsOfOthers DEF Counting, locals
  <2> QED BY <2>1, <2>2, <2>3, CountStays
<1> QED BY <1>1, <1>2, StepEffects

\* No duplicate goes uncounted, however the lookups and increments of concurrent
\* calls interleave and whatever fails between counting and storing.
THEOREM DuplicatesAreCounted == Spec => []CountsCoverDuplicates
<1>1. CountInv => CountsCoverDuplicates
  <2> SUFFICES ASSUME CountInv PROVE CountsCoverDuplicates
    OBVIOUS
  <2>1. Cardinality(Suppressed) \in Nat BY EventsAreFinite DEF Suppressed
  <2>2. Cardinality(Counting) \in Nat BY CallsAreFinite DEF Counting
  <2>3. Cardinality(Counted) \in Nat BY FS_CardinalityType DEF CountInv
  <2> QED BY <2>1, <2>2, <2>3 DEF CountInv, CountsCoverDuplicates
<1>2. Spec => []CountInv
  BY CountInit, CountNext, TypeCorrect, BusInvariant, PTL DEF Spec, IndInv
<1> QED BY <1>1, <1>2, PTL

-----------------------------------------------------------------------------
(* The sibling budget.                                                      *)

\* Sets that are compared through their cardinalities.
LEMMA Fewer ==
    ASSUME NEW E1 \in SUBSET Ids, NEW E2 \in SUBSET Ids,
           NEW P1 \in SUBSET Publishers, NEW P2 \in SUBSET Publishers,
           NEW bound \in Int, Cardinality(E1) + Cardinality(P1) <= bound,
           E2 \subseteq E1, P2 \subseteq P1
    PROVE  Cardinality(E2) + Cardinality(P2) <= bound
<1>1. Cardinality(E2) <= Cardinality(E1) BY EventsAreFinite, FS_Subset
<1>2. Cardinality(P2) <= Cardinality(P1) BY CallsAreFinite, FS_Subset
<1> QED BY <1>1, <1>2, EventsAreFinite, CallsAreFinite

\* An event takes the place its call had.
LEMMA Replaced ==
    ASSUME NEW E1 \in SUBSET Ids, NEW E2 \in SUBSET Ids,
           NEW P1 \in SUBSET Publishers, NEW P2 \in SUBSET Publishers,
           NEW bound \in Int, Cardinality(E1) + Cardinality(P1) <= bound,
           NEW e, E2 \subseteq E1 \cup {e}, NEW p \in P1, P2 \subseteq P1 \ {p}
    PROVE  Cardinality(E2) + Cardinality(P2) <= bound
<1>1. /\ IsFiniteSet(E1 \cup {e}) /\ Cardinality(E1) \in Nat
      /\ Cardinality(E1 \cup {e}) <= Cardinality(E1) + 1
  <2>1. IsFiniteSet(E1) /\ Cardinality(E1) \in Nat BY EventsAreFinite
  <2>2. /\ IsFiniteSet(E1 \cup {e})
        /\ Cardinality(E1 \cup {e}) = IF e \in E1 THEN Cardinality(E1)
                                                  ELSE Cardinality(E1) + 1
    BY <2>1, FS_AddElement, Zenon
  <2> QED BY <2>1, <2>2
<1>2. Cardinality(E2) <= Cardinality(E1) + 1 /\ Cardinality(E2) \in Nat
  <2>1. Cardinality(E2) <= Cardinality(E1 \cup {e}) BY <1>1, FS_Subset
  <2>2. Cardinality(E2) \in Nat BY EventsAreFinite
  <2>3. Cardinality(E1 \cup {e}) \in Nat BY <1>1, FS_CardinalityType
  <2> QED BY <1>1, <2>1, <2>2, <2>3
<1>3. /\ IsFiniteSet(P1 \ {p}) /\ Cardinality(P1) \in Nat
      /\ Cardinality(P1 \ {p}) = Cardinality(P1) - 1
  BY CallsAreFinite, FS_RemoveElement
<1>4. Cardinality(P2) <= Cardinality(P1) - 1 /\ Cardinality(P2) \in Nat
  BY <1>3, CallsAreFinite, FS_Subset
<1> QED BY <1>1, <1>2, <1>3, <1>4

LEMMA BudgetBound ==
    MaxBudget + Cardinality(Publishers) - 1 \in Int
BY BusAssumption, CallsAreFinite

LEMMA BudgetInit == Init => BudgetInv
<1> SUFFICES ASSUME Init, NEW q \in Ids PROVE BudgetFits(q) /\ ScanInv
  BY BusAssumption DEF BudgetInv
<1>1. Siblings(q) = {} /\ Admitted(q) = {} BY DEF Init, Siblings, Admitted
<1>2. ScanInv BY DEF Init, ScanInv
<1> QED BY <1>1, <1>2, FS_EmptySet, BudgetBound, BusAssumption, CallsAreFinite DEF BudgetFits

LEMMA BudgetStays ==
    ASSUME NEW q, BudgetFits(q), Siblings(q)' \subseteq Siblings(q),
           Admitted(q)' \subseteq Admitted(q)
    PROVE  BudgetFits(q)'
<1> DEFINE E1 == Siblings(q)
           E2 == Siblings(q)'
           P1 == Admitted(q)
           P2 == Admitted(q)'
<1>1. /\ E1 \in SUBSET Ids /\ E2 \in SUBSET Ids
      /\ P1 \in SUBSET Publishers /\ P2 \in SUBSET Publishers
  BY DEF Siblings, Admitted
<1>2. E2 \subseteq E1 /\ P2 \subseteq P1 OBVIOUS
<1>3. Cardinality(E1) + Cardinality(P1) <= MaxBudget + Cardinality(Publishers) - 1
  BY DEF BudgetFits
<1> HIDE DEF E1, E2, P1, P2
<1>4. Cardinality(E2) + Cardinality(P2) <= MaxBudget + Cardinality(Publishers) - 1
  BY <1>1, <1>2, <1>3, BudgetBound, Fewer
<1> QED BY <1>4 DEF BudgetFits, E2, P2

\* Who does not touch what p knows of q: another call.
LEMMA OthersAdmitted ==
    ASSUME IndInv, NEW p \in Publishers, Alone(p), NEW q \in Ids
    PROVE  Admitted(q)' \ {p} \subseteq Admitted(q)
BY DEF Alone, Admitted

\* A call that comes to look at the children of q finds those that are stored,
\* and goes on only if they are fewer than the budget.
LEMMA BudgetOfScan ==
    ASSUME IndInv, BudgetInv, NEW p \in Publishers, ScanChildren(p), NEW q \in Ids
    PROVE  BudgetFits(q)'
<1> USE DEF IndInv, TypeOK, CallType
<1>1. PICK e \in frontier[p] : ScanChildren(p)!2!(e) BY DEF ScanChildren
<1> DEFINE new == IF e \in seen[p] THEN {} ELSE Children(e)
           count == steps[p] + Cardinality(new)
<1>2. /\ pc[p] = "scan" /\ UNCHANGED <<verdict, events, cur>>
      /\ steps'[p] = count /\ seen'[p] = seen[p] \cup {e}
      /\ pc'[p] = "persist" => ~ OverBudget(count) /\ frontier[p] \subseteq {e}
  BY <1>1 DEF ScanChildren, table, past
<1>3. Cardinality(new) \in Nat BY ChildrenAreFinite, FS_EmptySet
<1> HIDE DEF new
<1>4. Siblings(q)' = Siblings(q) BY <1>2 DEF Siblings
<1>5. Admitted(q)' \ {p} \subseteq Admitted(q) BY Effects, OthersAdmitted DEF Continue
<1>6. CASE p \in Admitted(q) \/ p \notin Admitted(q)'
  BY <1>4, <1>5, <1>6, BudgetStays DEF BudgetInv
<1>7. CASE p \notin Admitted(q) /\ p \in Admitted(q)'
  <2>1. /\ events[cur[p]].parent = q /\ ~ OverBudget(count)
        /\ q \in seen[p] \cup {e}
    <3>1. events[cur[p]].parent = q BY <1>2, <1>7 DEF Admitted
    <3>2. CASE pc'[p] = "persist"
      <4>1. q \in seen[p] \/ frontier[p] = {q} BY <1>2, <3>1 DEF BudgetInv, ScanInv
      <4> QED BY <1>1, <1>2, <3>1, <3>2, <4>1
    <3>3. CASE pc'[p] = "scan" BY <1>2, <1>7, <3>1, <3>3 DEF Admitted, OverBudget
    <3> QED BY <1>7, <3>2, <3>3 DEF Admitted
  <2>2. count < MaxBudget /\ steps[p] \in Nat
    BY <1>3, <2>1, BusAssumption DEF OverBudget
  <2>3. q \notin seen[p]
    BY <1>2, <1>3, <1>7, <2>1, <2>2, BusAssumption DEF Admitted, OverBudget
  <2>4. new = Children(q) BY <2>1, <2>3 DEF new
  <2>5. Siblings(q)' \subseteq new /\ IsFiniteSet(new)
    <3>1. Siblings(q) \subseteq Children(q)
      BY DEF Siblings, Children, Persisted, BusInv, RowsInv
    <3>2. Children(q) \in SUBSET Ids BY DEF Children, Persisted
    <3> QED BY <1>4, <2>4, <3>1, <3>2, EventsAreFinite
  <2>6. Cardinality(Siblings(q)') <= Cardinality(new) /\ Cardinality(Siblings(q)') \in Nat
    BY <2>5, FS_Subset, FS_CardinalityType
  <2>7. /\ Cardinality(Admitted(q)') <= Cardinality(Publishers)
        /\ Cardinality(Admitted(q)') \in Nat /\ Cardinality(Publishers) \in Nat
    <3>1. Admitted(q)' \in SUBSET Publishers BY DEF Admitted
    <3> QED BY <3>1, CallsAreFinite
  <2>8. MaxBudget \in Nat BY BusAssumption
  <2> HIDE DEF count
  <2>9. Cardinality(Siblings(q)') < MaxBudget
    <3>1. Cardinality(new) <= count BY <1>3, <2>2 DEF count
    <3>2. count \in Nat BY <1>3, <2>2 DEF count
    <3> QED BY <1>3, <2>2, <2>6, <2>8, <3>1, <3>2
  <2> QED BY <2>6, <2>7, <2>8, <2>9 DEF BudgetFits
<1> QED BY <1>6, <1>7

\* A call that was let through takes its place among the siblings.
LEMMA BudgetOfStored ==
    ASSUME IndInv, BudgetInv, NEW p \in Publishers, Alone(p), Final, NEW q \in Ids,
           NEW e \in Ids, Decides(p, e, "persist", "accepted", "broadcast")
    PROVE  BudgetFits(q)'
<1>1. Admitted(q)' \subseteq Admitted(q) \ {p}
  BY OthersAdmitted DEF Decides, Admitted
<1>2. \A o \in Ids \ {e} : verdict'[o] = verdict[o]
  BY DEF Decides, IndInv, TypeOK, HistoryType
<1>3. CASE events[e].parent # q
  <2>1. Siblings(q)' \subseteq Siblings(q) BY <1>2, <1>3 DEF Siblings, Decides
  <2> QED BY <1>1, <2>1, BudgetStays DEF BudgetInv
<1>4. CASE events[e].parent = q
  <2> DEFINE E1 == Siblings(q)
             E2 == Siblings(q)'
             P1 == Admitted(q)
             P2 == Admitted(q)'
  <2>1. /\ E1 \in SUBSET Ids /\ E2 \in SUBSET Ids
        /\ P1 \in SUBSET Publishers /\ P2 \in SUBSET Publishers
    BY DEF Siblings, Admitted
  <2>2. E2 \subseteq E1 \cup {e} BY <1>2 DEF Siblings, Decides
  <2>3. p \in P1 BY <1>4 DEF Admitted, Decides
  <2>4. P2 \subseteq P1 \ {p} BY <1>1
  <2>5. Cardinality(E1) + Cardinality(P1) <= MaxBudget + Cardinality(Publishers) - 1
    BY DEF BudgetInv, BudgetFits
  <2> HIDE DEF E1, E2, P1, P2
  <2>6. Cardinality(E2) + Cardinality(P2) <= MaxBudget + Cardinality(Publishers) - 1
    BY <2>1, <2>2, <2>3, <2>4, <2>5, BudgetBound, Replaced
  <2> QED BY <2>6 DEF BudgetFits, E2, P2
<1> QED BY <1>3, <1>4

\* A scan starts at the parent of the event and remembers where it has been.
LEMMA ScanNext ==
    ASSUME IndInv, BudgetInv, NEW p \in Publishers, Submit(p) \/ Continue(p), Alone(p)
    PROVE  ScanInv'
<1> USE DEF IndInv, TypeOK, CallType
<1>1. ASSUME NEW q \in Publishers \ {p}, pc'[q] = "scan"
      PROVE  \/ events'[cur'[q]].parent \in seen'[q]
             \/ frontier'[q] = {events'[cur'[q]].parent}
  BY <1>1 DEF Alone, BudgetInv, ScanInv
<1>2. ASSUME pc'[p] = "scan" PROVE CheckDepth(p) \/ ScanChildren(p)
  BY <1>2 DEF Submit, AfterDedupe, Continue, FindDuplicate, CountDuplicate, PersistDuplicate,
              WalkUp, Refuse, ReportLimit, Persist, Broadcast, BroadcastRaises,
              InsertRaises, GoTo, Return
<1>3. CASE CheckDepth(p)
  <2>1. frontier'[p] = {events'[cur'[p]].parent} BY <1>3 DEF CheckDepth, table
  <2> QED BY <1>1, <2>1 DEF ScanInv
<1>4. CASE ScanChildren(p)
  <2>1. PICK e \in frontier[p] : seen' = [seen EXCEPT ![p] = @ \cup {e}]
    BY <1>4 DEF ScanChildren
  <2>2. seen'[p] = seen[p] \cup {e} BY <2>1
  <2>3. pc[p] = "scan" /\ UNCHANGED <<events, cur>> BY <1>4 DEF ScanChildren, table
  <2>4. events'[cur'[p]].parent \in seen'[p] BY <2>1, <2>2, <2>3 DEF BudgetInv, ScanInv
  <2> QED BY <1>1, <2>4 DEF ScanInv
<1>5. CASE pc'[p] # "scan" BY <1>1, <1>5 DEF ScanInv
<1> QED BY <1>2, <1>3, <1>4, <1>5

LEMMA BudgetNext == IndInv /\ IndInv' /\ BudgetInv /\ [Next]_vars => BudgetInv'
<1> SUFFICES ASSUME IndInv, IndInv', BudgetInv, [Next]_vars, NEW q \in Ids
             PROVE  ScanInv' /\ BudgetFits(q)'
  BY BusAssumption DEF BudgetInv
<1>1. ASSUME NEW p \in Publishers, Submit(p) \/ Continue(p)
      PROVE  ScanInv' /\ BudgetFits(q)'
  <2>1. Alone(p) /\ Final /\ OwnVerdict(p) BY <1>1, Effects
  <2>2. ScanInv' BY <1>1, <2>1, ScanNext
  <2>3. CASE ScanChildren(p) BY <2>2, <2>3, BudgetOfScan
  <2>4. CASE \E e \in Ids : Decides(p, e, "persist", "accepted", "broadcast")
    BY <2>1, <2>2, <2>4, BudgetOfStored
  <2>5. CASE /\ ~ ScanChildren(p)
             /\ ~ \E e \in Ids : Decides(p, e, "persist", "accepted", "broadcast")
    <3>1. Siblings(q)' \subseteq Siblings(q)
      BY <2>1, <2>5 DEF Siblings, OwnVerdict, Final
    <3>2. p \notin Admitted(q)'
      <4> USE DEF IndInv, TypeOK, CallType, OverBudget
      <4>1. CASE Submit(p)
        <5>1. pc'[p] = "persist" => events'[cur'[p]].parent = None
          <6>1. next \in Ids BY <4>1, BusAssumption, BusyIsFinite DEF Submit, TableType
          <6> QED BY <4>1, <6>1, BusAssumption DEF Submit, AfterDedupe, TableType
        <5>2. pc'[p] # "scan" BY <4>1 DEF Submit, AfterDedupe
        <5> QED BY <5>1, <5>2, BusAssumption DEF Admitted
      <4>2. CASE FindDuplicate(p)
        <5>1. pc'[p] = "persist" => events'[cur'[p]].parent = None
          BY <4>2 DEF FindDuplicate, GoTo, AfterDedupe, table
        <5>2. pc'[p] # "scan" BY <4>2 DEF FindDuplicate, GoTo, AfterDedupe
        <5> QED BY <5>1, <5>2, BusAssumption DEF Admitted
      <4>3. CASE CheckDepth(p)
        <5>1. pc'[p] # "persist" /\ seen'[p] = {} BY <4>3 DEF CheckDepth
        <5> QED BY <5>1 DEF Admitted
      <4>4. CASE ~ Submit(p) /\ ~ FindDuplicate(p) /\ ~ CheckDepth(p)
        <5>1. pc'[p] \notin {"scan", "persist"}
          BY <1>1, <2>5, <4>4 DEF Continue, CountDuplicate, PersistDuplicate, WalkUp,
             Refuse, ReportLimit, Persist, Broadcast, BroadcastRaises, InsertRaises,
             GoTo, Return
        <5> QED BY <5>1 DEF Admitted
      <4> QED BY <4>1, <4>2, <4>3, <4>4
    <3>3. Admitted(q)' \subseteq Admitted(q) BY <2>1, <3>2, OthersAdmitted
    <3> QED BY <2>2, <3>1, <3>3, BudgetStays DEF BudgetInv
  <2> QED BY <2>3, <2>4, <2>5
<1>2. CASE \/ (\E o \in Ids : Route(o)) \/ ExpireSweep \/ Tick \/ Crash \/ UNCHANGED vars
  <2>1. Siblings(q)' \subseteq Siblings(q) BY <1>2, EffectsOfOthers DEF Siblings
  <2>2. Admitted(q)' \subseteq Admitted(q) BY <1>2, EffectsOfOthers DEF Admitted, locals
  <2>3. ScanInv' BY <1>2, EffectsOfOthers DEF BudgetInv, ScanInv, locals
  <2> QED BY <2>1, <2>2, <2>3, BudgetStays DEF BudgetInv
<1> QED BY <1>1, <1>2, StepEffects

\* The children accepted below one event overshoot max_chain_budget by no more
\* than the other calls that were in flight.
THEOREM SiblingsAreBounded == Spec => []SiblingBudget
<1>1. BudgetInv => SiblingBudget
  <2> SUFFICES ASSUME BudgetInv, NEW q \in Ids
               PROVE  Cardinality(Siblings(q)) <= MaxBudget + Cardinality(Publishers) - 1
    BY DEF SiblingBudget
  <2>1. Cardinality(Siblings(q)) \in Nat BY EventsAreFinite DEF Siblings
  <2>2. Cardinality(Admitted(q)) \in Nat BY CallsAreFinite DEF Admitted
  <2> QED BY <2>1, <2>2, BudgetBound DEF BudgetInv, BudgetFits
<1>2. Spec => []BudgetInv
  BY BudgetInit, BudgetNext, TypeCorrect, BusInvariant, PTL DEF Spec, IndInv
<1> QED BY <1>1, <1>2, PTL

-----------------------------------------------------------------------------
(* The race of the dedupe check.                                            *)

LEMMA CallBound == Cardinality(Publishers) \in Int
BY CallsAreFinite

LEMMA DayGrows ==
    ASSUME NEW a \in Nat, NEW b \in Nat, a <= b PROVE Day(a) <= Day(b)
BY BusAssumption DEF Day

LEMMA RaceInit == Init => RaceInv
<1> SUFFICES ASSUME Init PROVE RaceInv
  OBVIOUS
<1>1. \A e \in Ids : status[e] # "expired" BY DEF Init
<1>2. Busy = {} BY DEF Init, Busy
<1>3. \A k \in Keys : \A d : RaceFits(k, d) BY DEF Init, RaceFits, Stored
<1> QED BY <1>1, <1>2, <1>3 DEF RaceInv

\* On the other days there is nothing stored.
LEMMA RaceEveryDay ==
    ASSUME RaceInv, NEW k \in Keys, NEW d PROVE RaceFits(k, d)
<1>1. CASE d \in {Day(events[e].slot) : e \in Ids} BY <1>1 DEF RaceInv
<1>2. CASE d \notin {Day(events[e].slot) : e \in Ids}
  BY <1>2 DEF RaceFits, Stored, OfDay
<1> QED BY <1>1, <1>2

LEMMA RaceStays ==
    ASSUME NEW k, NEW d, RaceFits(k, d), Stored(k, d)' \subseteq Stored(k, d),
           Racing(k, d)' \subseteq Racing(k, d)
    PROVE  RaceFits(k, d)'
<1> DEFINE E1 == Stored(k, d)
           E2 == Stored(k, d)'
           P1 == Racing(k, d)
           P2 == Racing(k, d)'
<1>1. /\ E1 \in SUBSET Ids /\ E2 \in SUBSET Ids
      /\ P1 \in SUBSET Publishers /\ P2 \in SUBSET Publishers
  BY DEF Stored, Racing
<1>2. E2 \subseteq E1 /\ P2 \subseteq P1 OBVIOUS
<1>3. E1 # {} => Cardinality(E1) + Cardinality(P1) <= Cardinality(Publishers)
  BY DEF RaceFits
<1> HIDE DEF E1, E2, P1, P2
<1>4. ASSUME E2 # {} PROVE Cardinality(E2) + Cardinality(P2) <= Cardinality(Publishers)
  <2> DEFINE bound == Cardinality(Publishers)
  <2>1. bound \in Int BY CallBound
  <2>2. Cardinality(E1) + Cardinality(P1) <= bound BY <1>2, <1>3, <1>4
  <2> HIDE DEF bound
  <2>3. Cardinality(E2) + Cardinality(P2) <= bound
    BY <1>1, <1>2, <2>1, <2>2, Fewer
  <2> QED BY <2>3 DEF bound
<1> QED BY <1>4 DEF RaceFits, E2, P2

LEMMA OthersRacing ==
    ASSUME IndInv, NEW p \in Publishers, Alone(p), NEW k, NEW d
    PROVE  Racing(k, d)' \ {p} \subseteq Racing(k, d)
BY DEF Alone, Racing, OfDay

\* A call that finds nothing looked before anything of its key and day was
\* stored for good: what is stored on the call's day is within the window.
LEMMA NothingYet ==
    ASSUME IndInv, RaceInv, NEW p \in Publishers, pc[p] = "lookup",
           Matches(events[cur[p]].key) = {}
    PROVE  Stored(events[cur[p]].key, Day(events[cur[p]].slot)) = {}
<1> DEFINE mine == events[cur[p]]
<1> SUFFICES ASSUME NEW e \in Stored(mine.key, Day(mine.slot)) PROVE FALSE
  OBVIOUS
<1>1. /\ e \in Ids /\ verdict[e] = "accepted" /\ events[e].key = mine.key
      /\ events[e].lasting /\ Day(events[e].slot) = Day(mine.slot)
  BY DEF Stored, OfDay
<1>2. e \in Persisted /\ status[e] # "expired"
  BY <1>1 DEF IndInv, BusInv, RowsInv, Persisted, RaceInv
<1>3. Day(mine.slot) >= Day(now - 1)
  <2>1. now <= mine.slot + 1 BY DEF RaceInv, Busy
  <2>2. cur[p] \in Ids BY CallFacts
  <2>3. mine.slot \in Nat BY <2>2 DEF IndInv, TypeOK, TableType, Event
  <2>4. now \in Nat \ {0} BY DEF IndInv, TypeOK, HistoryType
  <2> HIDE DEF mine
  <2>5. now - 1 \in Nat /\ now - 1 <= mine.slot BY <2>1, <2>3, <2>4
  <2> QED BY <2>3, <2>5, DayGrows
<1>4. e \in Matches(mine.key) BY <1>1, <1>2, <1>3 DEF Matches
<1> QED BY <1>4

LEMMA RaceOfLookup ==
    ASSUME IndInv, RaceInv, NEW p \in Publishers, FindDuplicate(p), Alone(p),
           NEW k \in Keys, NEW d
    PROVE  RaceFits(k, d)'
<1> DEFINE mine == events[cur[p]]
<1>1. UNCHANGED <<verdict, events, cur>> /\ pc[p] = "lookup"
  BY DEF FindDuplicate, GoTo, table, past
<1>2. Stored(k, d)' = Stored(k, d) BY <1>1 DEF Stored, OfDay
<1>3. CASE p \notin Racing(k, d)'
  <2>1. Racing(k, d)' \subseteq Racing(k, d) BY <1>3, OthersRacing
  <2> QED BY <1>2, <2>1, RaceStays, RaceEveryDay
<1>4. CASE p \in Racing(k, d)'
  <2>1. k = mine.key /\ d = Day(mine.slot) /\ pc'[p] \in {"depth", "scan", "persist"}
    BY <1>1, <1>4 DEF Racing, OfDay
  <2>2. Matches(mine.key) = {}
    BY <2>1 DEF FindDuplicate, IndInv, TypeOK, CallType
  <2>3. Stored(k, d) = {} BY <1>1, <2>1, <2>2, NothingYet
  <2> QED BY <1>2, <2>3 DEF RaceFits
<1> QED BY <1>3, <1>4

LEMMA RaceOfStored ==
    ASSUME IndInv, RaceInv, NEW p \in Publishers, Alone(p), NEW k \in Keys, NEW d,
           NEW e \in Ids, Decides(p, e, "persist", "accepted", "broadcast")
    PROVE  RaceFits(k, d)'
<1>1. Racing(k, d)' \subseteq Racing(k, d) \ {p}
  BY OthersRacing DEF Decides, Racing
<1>2. \A o \in Ids \ {e} : verdict'[o] = verdict[o]
  BY DEF Decides, IndInv, TypeOK, HistoryType
<1>3. CASE ~ OfDay(e, k, d)
  <2>1. Stored(k, d)' \subseteq Stored(k, d)
    BY <1>2, <1>3 DEF Stored, OfDay, Decides
  <2> QED BY <1>1, <2>1, RaceStays, RaceEveryDay
<1>4. CASE OfDay(e, k, d)
  <2> DEFINE E1 == Stored(k, d)
             E2 == Stored(k, d)'
             P1 == IF E1 = {} THEN Publishers ELSE Racing(k, d)
             P2 == Racing(k, d)'
  <2>1. /\ E1 \in SUBSET Ids /\ E2 \in SUBSET Ids
        /\ P1 \in SUBSET Publishers /\ P2 \in SUBSET Publishers
    BY DEF Stored, Racing
  <2>2. E2 \subseteq E1 \cup {e} BY <1>2 DEF Stored, OfDay, Decides
  <2>3. p \in P1 BY <1>4 DEF Racing, Decides
  <2>4. P2 \subseteq P1 \ {p} BY <1>1 DEF Racing
  <2>5. Cardinality(E1) + Cardinality(P1) <= Cardinality(Publishers)
    <3>1. CASE E1 = {} BY <3>1, FS_EmptySet, CallsAreFinite
    <3>2. CASE E1 # {} BY <3>2, RaceEveryDay DEF RaceFits
    <3> QED BY <3>1, <3>2
  <2> HIDE DEF E1, E2, P1, P2
  <2>6. Cardinality(E2) + Cardinality(P2) <= Cardinality(Publishers)
    <3> DEFINE bound == Cardinality(Publishers)
    <3>1. bound \in Int BY CallBound
    <3>2. Cardinality(E1) + Cardinality(P1) <= bound BY <2>5
    <3> HIDE DEF bound
    <3>3. Cardinality(E2) + Cardinality(P2) <= bound
      BY <2>1, <2>2, <2>3, <2>4, <3>1, <3>2, Replaced, ZenonT(40)
    <3> QED BY <3>3 DEF bound
  <2> QED BY <2>6 DEF RaceFits, E2, P2
<1> QED BY <1>3, <1>4

LEMMA RaceOfCall ==
    ASSUME IndInv, RaceInv, NEW p \in Publishers, Submit(p) \/ Continue(p),
           NEW k \in Keys, NEW d
    PROVE  RaceFits(k, d)'
<1>1. Alone(p) /\ Final /\ OwnVerdict(p) BY Effects
<1>2. CASE FindDuplicate(p) BY <1>1, <1>2, RaceOfLookup
<1>3. CASE \E e \in Ids : Decides(p, e, "persist", "accepted", "broadcast")
  BY <1>1, <1>3, RaceOfStored
<1>4. CASE /\ ~ FindDuplicate(p)
           /\ ~ \E e \in Ids : Decides(p, e, "persist", "accepted", "broadcast")
  <2>1. Stored(k, d)' \subseteq Stored(k, d)
    BY <1>1, <1>4 DEF Stored, OfDay, OwnVerdict, Final
  <2>2. p \in Racing(k, d)' => p \in Racing(k, d)
    <3> USE DEF IndInv, TypeOK, CallType
    <3>1. CASE Submit(p)
      <4>1. next \in Ids BY <3>1, BusAssumption, BusyIsFinite DEF Submit, TableType
      <4>2. pc'[p] \in {"depth", "persist"} => events'[cur'[p]].key = None
        BY <3>1, <4>1, BusAssumption DEF Submit, AfterDedupe, TableType
      <4>3. pc'[p] # "scan" BY <3>1 DEF Submit, AfterDedupe
      <4> QED BY <4>2, <4>3, BusAssumption DEF Racing, OfDay
    <3>2. CASE WalkUp(p) \/ CheckDepth(p) \/ ScanChildren(p)
      BY <3>2 DEF WalkUp, CheckDepth, ScanChildren, table, Racing, OfDay
    <3>3. CASE ~ Submit(p) /\ ~ WalkUp(p) /\ ~ CheckDepth(p) /\ ~ ScanChildren(p)
      <4>1. pc'[p] \notin {"depth", "scan", "persist"}
        BY <1>4, <3>3 DEF Continue, CountDuplicate, PersistDuplicate,
           Refuse, ReportLimit, Persist, Broadcast, BroadcastRaises, InsertRaises,
           GoTo, Return
      <4> QED BY <4>1 DEF Racing
    <3> QED BY <3>1, <3>2, <3>3
  <2>3. Racing(k, d)' \subseteq Racing(k, d) BY <1>1, <2>2, OthersRacing
  <2> QED BY <2>1, <2>3, RaceStays, RaceEveryDay
<1> QED BY <1>2, <1>3, <1>4

\* A row that expires was not to last.
LEMMA ExpiredNext ==
    ASSUME IndInv, IndInv', RaceInv, [Next]_vars, NEW e \in Ids, status'[e] = "expired"
    PROVE  ~ events'[e].lasting
<1> USE DEF IndInv, TypeOK, TableType, CallType
<1>1. status[e] = "expired" \/ (ExpireSweep /\ e \in Expirable)
  <2>1. CASE ExpireSweep BY <2>1 DEF ExpireSweep
  <2>2. CASE Route(e) BY <2>2 DEF Route
  <2>3. CASE \E o \in Ids : o # e /\ Route(o) BY <2>3 DEF Route
  <2>4. CASE Tick \/ Crash \/ UNCHANGED vars BY <2>4 DEF Tick, Crash, vars, table
  <2>5. ASSUME NEW p \in Publishers, Submit(p) \/ Continue(p)
        PROVE  status[e] = "expired"
    BY <2>5 DEF Submit, Continue, FindDuplicate, CountDuplicate, PersistDuplicate, WalkUp,
       CheckDepth, ScanChildren, Refuse, ReportLimit, Persist, Broadcast, BroadcastRaises,
       InsertRaises, Insert, table
  <2> QED BY <2>1, <2>2, <2>3, <2>4, <2>5, StepEffects
<1>2. ~ events[e].lasting BY <1>1 DEF RaceInv, Expirable
<1>3. verdict[e] # "none"
  BY <1>1 DEF Expirable, Persisted, BusInv, RowsInv
<1>4. events'[e] = events[e] BY <1>3, RowsStay DEF Final
<1> QED BY <1>2, <1>4

\* A call is never more than one window old.
LEMMA SlotNext ==
    ASSUME IndInv, IndInv', RaceInv, [Next]_vars, NEW q \in Publishers, pc'[q] # "idle"
    PROVE  now' <= events'[cur'[q]].slot + 1
<1> USE DEF IndInv, TypeOK
<1>1. now \in Nat BY DEF HistoryType
<1>2. ASSUME pc[q] # "idle" PROVE now <= events[cur[q]].slot + 1
  BY <1>2 DEF RaceInv, Busy
<1>3. ASSUME NEW p \in Publishers, Submit(p) \/ Continue(p)
      PROVE  now' <= events'[cur'[q]].slot + 1
  <2>1. Alone(p) BY <1>3, Effects
  <2>2. now' = now
    BY <1>3 DEF Submit, Continue, FindDuplicate, CountDuplicate, PersistDuplicate, WalkUp,
       CheckDepth, ScanChildren, Refuse, ReportLimit, Persist, Broadcast, BroadcastRaises,
       InsertRaises, clock
  <2>3. CASE q # p BY <1>2, <2>1, <2>2, <2>3 DEF Alone
  <2>4. CASE q = p /\ Submit(p)
    <3>1. next \in Ids BY <2>4, BusAssumption, BusyIsFinite DEF Submit, TableType
    <3>2. events'[cur'[p]].slot = now BY <2>4, <3>1 DEF Submit, TableType, CallType
    <3> QED BY <1>1, <2>2, <2>4, <3>2
  <2>5. CASE q = p /\ Continue(p)
    <3>1. pc[p] # "idle"
      BY <2>5 DEF Continue, FindDuplicate, CountDuplicate, PersistDuplicate, WalkUp,
       CheckDepth, ScanChildren, Refuse, ReportLimit, Persist, Broadcast, BroadcastRaises
    <3>2. UNCHANGED <<events, cur>>
      BY <2>5 DEF Continue, FindDuplicate, CountDuplicate, PersistDuplicate, WalkUp,
       CheckDepth, ScanChildren, Refuse, ReportLimit, Persist, Broadcast, BroadcastRaises,
       InsertRaises, GoTo, Return, table, CallType
    <3> QED BY <1>2, <2>2, <2>5, <3>1, <3>2
  <2> QED BY <1>3, <2>3, <2>4, <2>5
<1>4. CASE Tick
  <2>1. pc[q] # "idle" /\ UNCHANGED <<events, cur>> /\ now' = now + 1
    BY <1>4 DEF Tick, table, locals
  <2>2. events[cur[q]].slot = now BY <1>4, <2>1 DEF Tick, Busy
  <2> QED BY <1>1, <2>1, <2>2
<1>5. CASE (\E o \in Ids : Route(o)) \/ ExpireSweep \/ UNCHANGED vars
  <2>1. UNCHANGED <<now, events, cur, pc>>
    BY <1>5 DEF Route, ExpireSweep, vars, table, locals, clock
  <2> QED BY <1>2, <2>1
<1>6. CASE Crash BY <1>6, EffectsOfOthers DEF Crash
<1> QED BY <1>3, <1>4, <1>5, <1>6, StepEffects

LEMMA RaceNext == IndInv /\ IndInv' /\ RaceInv /\ [Next]_vars => RaceInv'
<1> SUFFICES ASSUME IndInv, IndInv', RaceInv, [Next]_vars PROVE RaceInv'
  OBVIOUS
<1>1. \A e \in Ids : status'[e] = "expired" => ~ events'[e].lasting BY ExpiredNext
<1>2. \A q \in Busy' : now' <= events'[cur'[q]].slot + 1 BY SlotNext DEF Busy
<1>3. ASSUME NEW k \in Keys, NEW d PROVE RaceFits(k, d)'
  <2>1. CASE \E p \in Publishers : Submit(p) \/ Continue(p) BY <2>1, RaceOfCall
  <2>2. CASE \/ (\E o \in Ids : Route(o)) \/ ExpireSweep \/ Tick \/ Crash
             \/ UNCHANGED vars
    <3>1. Stored(k, d)' \subseteq Stored(k, d)
      BY <2>2, EffectsOfOthers DEF Stored, OfDay
    <3>2. Racing(k, d)' \subseteq Racing(k, d)
      BY <2>2, EffectsOfOthers DEF Racing, OfDay, locals
    <3> QED BY <3>1, <3>2, RaceStays, RaceEveryDay
  <2> QED BY <2>1, <2>2, StepEffects
<1> QED BY <1>1, <1>2, <1>3 DEF RaceInv

\* Of a day's events with one key, if all of them last, no more are accepted
\* than calls can be in flight together.
THEOREM RaceIsBounded == Spec => []DedupeRaceBound
<1>1. TypeOK /\ RaceInv => DedupeRaceBound
  <2> SUFFICES ASSUME TypeOK, RaceInv, NEW e \in Ids, events[e].key # None
               PROVE  LET same == {o \in Ids : /\ verdict[o] = "accepted"
                                               /\ events[o].key = events[e].key
                                               /\ Day(events[o].slot) = Day(events[e].slot)}
                      IN (\A o \in same : events[o].lasting)
                         => Cardinality(same) <= Cardinality(Publishers)
    BY DEF DedupeRaceBound
  <2> DEFINE k == events[e].key
             d == Day(events[e].slot)
             same == {o \in Ids : /\ verdict[o] = "accepted" /\ events[o].key = k
                                  /\ Day(events[o].slot) = d}
  <2> SUFFICES ASSUME \A o \in same : events[o].lasting
               PROVE  Cardinality(same) <= Cardinality(Publishers)
    OBVIOUS
  <2>1. same = Stored(k, d) BY DEF Stored, OfDay
  <2>2. k \in Keys BY DEF TypeOK, TableType, Event
  <2> HIDE DEF same, k, d
  <2>3. RaceFits(k, d) BY <2>2, RaceEveryDay
  <2>4. Cardinality(Stored(k, d)) \in Nat BY EventsAreFinite DEF Stored
  <2>5. Cardinality(Racing(k, d)) \in Nat BY CallsAreFinite DEF Racing
  <2>6. CASE same = {} BY <2>6, FS_EmptySet, CallsAreFinite
  <2>7. CASE same # {} BY <2>1, <2>3, <2>4, <2>5, <2>7, CallsAreFinite DEF RaceFits
  <2> QED BY <2>6, <2>7
<1>2. Spec => []RaceInv
  BY RaceInit, RaceNext, TypeCorrect, BusInvariant, PTL DEF Spec, IndInv
<1> QED BY <1>1, <1>2, TypeCorrect, PTL
=============================================================================
