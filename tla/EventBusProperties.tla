------------------------- MODULE EventBusProperties -------------------------
(***************************************************************************)
(* What EventBus.publish must and must not do, whatever the interleaving of *)
(* concurrent calls, the expiry sweep and a crash.                          *)
(***************************************************************************)
EXTENDS EventBus

TableType ==
    /\ events \in [Ids -> Event]
    /\ status \in [Ids -> Statuses]
    /\ dedupe_count \in [Ids -> Nat \ {0}]
    /\ next \in 1 .. MaxEvents + 1

CallType ==
    /\ pc \in [Publishers -> Phases]
    /\ cur \in [Publishers -> Ids]
    /\ hit \in [Publishers -> Ids]
    /\ at \in [Publishers -> Parents]
    /\ steps \in [Publishers -> Nat]
    /\ seen \in [Publishers -> SUBSET Parents]
    /\ frontier \in [Publishers -> SUBSET Parents]

HistoryType ==
    /\ tasks \in SUBSET Ids
    /\ verdict \in [Ids -> Verdicts]
    /\ rank \in [Ids -> Nat]
    /\ handed \in SUBSET Ids
    /\ dropped \in SUBSET Ids
    /\ now \in Nat \ {0}
    /\ crashes \in Nat

\* The columns, the locals of the calls and the history hold what they should.
TypeOK == TableType /\ CallType /\ HistoryType

\* A suppressed event repeats one that was itself accepted or refused: a chain
\* of duplicates matching duplicates (the lookup returns the newest row, often
\* a deduped one) never loses sight of an original, even when an INSERT fails
\* or the daemon dies between counting a duplicate and storing it.
SuppressedHasOriginal ==
    \A e \in Ids : verdict[e] = "deduped" =>
        \E o \in Ids : /\ verdict[o] \in {"accepted", "limited"}
                       /\ events[o].key = events[e].key

\* What has been counted: dedupe_count starts at 1, so a row counted n has n - 1
\* duplicates.  No count of a duplicate is lost, however the lookups and the increments of
\* concurrent calls interleave; a failed INSERT or a crash in between leaves the
\* counts too high, never too low.
Suppressed == {e \in Ids : verdict[e] = "deduped"}
Counted    == UNION {{e} \X (2 .. dedupe_count[e]) : e \in Ids}

CountsCoverDuplicates == Cardinality(Suppressed) <= Cardinality(Counted)

\* The lookup and the INSERT of publish() are separate awaits, so two calls can
\* both miss each other; but one day's accepted events of a key are never more
\* than the calls that can be in flight together, unless one of them could
\* expire: the router writes "assigned" over "expired", so the status does not
\* tell afterwards.
DedupeRaceBound ==
    \A e \in Ids :
        LET same == {o \in Ids : /\ verdict[o] = "accepted"
                                 /\ events[o].key = events[e].key
                                 /\ Day(events[o].slot) = Day(events[e].slot)}
        IN events[e].key # None /\ (\A o \in same : events[o].lasting)
           => Cardinality(same) <= Cardinality(Publishers)

\* get_chain_depth walks the parent chain one awaited query at a time; what it
\* counts is the true depth, so no accepted event lies deeper than the limit.
ChainDepthBounded ==
    \A e \in Ids : verdict[e] = "accepted" => rank[e] <= MaxDepth

\* The budget is tested against a count taken some awaits before the INSERT:
\* siblings published concurrently overshoot it, but by no more than the other
\* calls in flight.
Siblings(q) == {e \in Ids : verdict[e] = "accepted" /\ events[e].parent = q}

SiblingBudget ==
    \A q \in Ids :
        Cardinality(Siblings(q)) <= MaxBudget + Cardinality(Publishers) - 1

\* A trace follows the chain of parents: an event whose caller gave it none is in
\* the trace of its parent, and one that bears a generated trace id, bears its own
\* or its parent's.  So trees mix in a trace only where a caller, who may give an
\* event any trace_id, repeats one he was shown.
TraceAbove(e) == IF events[e].parent \in Persisted
                 THEN events[events[e].parent].trace ELSE None

OfItsTree(e) == ~ events[e].given =>
    /\ TraceAbove(e) # None => events[e].trace = TraceAbove(e)
    /\ events[e].trace \in Ids => events[e].trace \in {e, TraceAbove(e)}

TraceFollowsTheChain == \A e \in Persisted : OfItsTree(e)

\* Every accepted event is routed, unless the daemon died or the announcement
\* of the event raised.
AcceptedIsRouted ==
    \A e \in Ids : verdict[e] = "accepted" ~> e \in handed \cup dropped

\* The bus implements the ledger: verdicts are final, depth is bounded,
\* duplicates have originals, and the router is handed accepted events only,
\* never the same one twice.
Entry(e) ==
    IF verdict[e] = "none"
    THEN [verdict |-> "none", parent |-> None, key |-> None, rank |-> 0]
    ELSE [verdict |-> verdict[e], parent |-> events[e].parent,
          key |-> events[e].key, rank |-> rank[e]]

Ledger == INSTANCE EventLedger WITH
              book <- [e \in Ids |-> Entry(e)], routed <- handed

KeepsTheLedger == Ledger!Spec

-----------------------------------------------------------------------------
(* The inductive invariant behind the safety properties above.              *)

\* The table: a row is stored exactly when the event has a verdict, its parent
\* is an older row, and its rank continues its parent's.
RowsInv ==
    \A e \in Ids :
        /\ status[e] = "absent" <=> verdict[e] = "none"
        /\ e >= next => verdict[e] = "none"
        /\ verdict[e] = "none" => rank[e] = 0
        /\ verdict[e] # "none" =>
              /\ events[e].parent \in Persisted \cup {None}
              /\ events[e].parent # None => events[e].parent < e
              /\ rank[e] = RankBelow(e)
        /\ verdict[e] = "system" => events[e].parent = None /\ events[e].key = None
        /\ verdict[e] = "limited" => events[e].parent # None

\* A call in flight works on an event of its own, which has no verdict until
\* its INSERT, and whose parent was there before it.
OwnEvent(p) ==
    pc[p] # "idle" =>
        /\ cur[p] < next
        /\ \A q \in Publishers : pc[q] # "idle" /\ cur[q] = cur[p] => q = p
        /\ events[cur[p]].parent \in Persisted \cup {Ghost, None}
        /\ events[cur[p]].parent \in Ids => events[cur[p]].parent < cur[p]
        /\ pc[p] = "broadcast" => /\ verdict[cur[p]] = "accepted"
                                  /\ cur[p] \notin tasks \cup handed
        /\ pc[p] = "report" => verdict[cur[p]] = "limited"
        /\ pc[p] \notin {"broadcast", "report"} => verdict[cur[p]] = "none"

\* What a call knows of the row it found to be the original.
KnowsOriginal(p) ==
    /\ pc[p] \in {"lookup", "count", "persist_dup"} => events[cur[p]].key # None
    /\ pc[p] \in {"count", "persist_dup"} =>
          /\ hit[p] \in Persisted
          /\ events[hit[p]].key = events[cur[p]].key

\* The loop invariant of get_chain_depth: the steps taken so far and the rank
\* of the row reached add up to the rank of the parent.
WalkSoFar(p) ==
    LET parent == events[cur[p]].parent
    IN /\ pc[p] \in {"idle", "lookup"} => steps[p] = 0 /\ seen[p] = {}
       /\ pc[p] = "lookup" => at[p] = parent
       /\ pc[p] \in {"depth", "scan", "refuse"} => parent # None
       /\ pc[p] = "depth" =>
             \/ parent = Ghost /\ at[p] = Ghost /\ steps[p] = 0
             \/ /\ parent \in Persisted /\ at[p] \in Persisted
                /\ rank[parent] = steps[p] + rank[at[p]]
                /\ \A e \in seen[p] : e \in Ids /\ at[p] < e
       /\ pc[p] \in {"scan", "persist"} /\ parent \in Persisted =>
             rank[parent] < MaxDepth

CallsInv == \A p \in Publishers : OwnEvent(p) /\ KnowsOriginal(p) /\ WalkSoFar(p)

\* Only accepted events reach the router, and none is scheduled again.
HandoverInv ==
    /\ \A e \in tasks \cup handed : verdict[e] = "accepted"
    /\ tasks \cap handed = {}

BusInv == /\ RowsInv /\ CallsInv /\ HandoverInv
          /\ ChainDepthBounded /\ SuppressedHasOriginal

-----------------------------------------------------------------------------
(* What the races between concurrent calls add to it.                       *)

\* An event has its trace, as its row will, from the moment it is built.
TraceInv == \A e \in Ids : /\ events[e].parent \in Persisted \cup {Ghost, None}
                           /\ OfItsTree(e)

\* A duplicate is counted before it is stored.
Counting == {p \in Publishers : pc[p] = "persist_dup"}

CountInv == /\ IsFiniteSet(Counted)
            /\ Cardinality(Suppressed) + Cardinality(Counting) <= Cardinality(Counted)

\* A scan starts at the parent.  The calls that have counted the children of q
\* and may still be let through have a place each beside the children stored.
ScanInv == \A p \in Publishers : pc[p] = "scan" =>
               \/ events[cur[p]].parent \in seen[p]
               \/ frontier[p] = {events[cur[p]].parent}

Admitted(q) == {p \in Publishers :
                    /\ events[cur[p]].parent = q
                    /\ \/ pc[p] = "persist"
                       \/ pc[p] = "scan" /\ q \in seen[p] /\ ~ OverBudget(steps[p])}

BudgetFits(q) == Cardinality(Siblings(q)) + Cardinality(Admitted(q))
                     <= MaxBudget + Cardinality(Publishers) - 1

BudgetInv == ScanInv /\ \A q \in Ids : BudgetFits(q)

\* What is stored of a key on a day for good, and the calls that looked for it in
\* vain: once the first of them is stored, no lookup of the day misses it.
OfDay(e, k, d) == /\ events[e].key = k /\ events[e].lasting
                  /\ Day(events[e].slot) = d

Stored(k, d) == {e \in Ids : verdict[e] = "accepted" /\ OfDay(e, k, d)}
Racing(k, d) == {p \in Publishers : /\ pc[p] \in {"depth", "scan", "persist"}
                                    /\ OfDay(cur[p], k, d)}

RaceFits(k, d) == Stored(k, d) # {} =>
    Cardinality(Stored(k, d)) + Cardinality(Racing(k, d)) <= Cardinality(Publishers)

RaceInv ==
    /\ \A e \in Ids : status[e] = "expired" => ~ events[e].lasting
    /\ \A p \in Busy : now <= events[cur[p]].slot + 1
    /\ \A k \in Keys : \A d \in {Day(events[e].slot) : e \in Ids} : RaceFits(k, d)

-----------------------------------------------------------------------------
(* Statements of the repository that the code does not keep.                *)

\* docs/developer-guide.md:43 places the dedupe check "within time window" and
\* config.py:63 makes the window dedupe_window_seconds: an event is suppressed
\* only in favour of a row at most one window old.
DedupeWithinWindow ==
    [][\A p \in Publishers : pc[p] = "lookup" /\ pc'[p] = "count"
            => events[hit'[p]].slot >= now - 1]_vars
=============================================================================
