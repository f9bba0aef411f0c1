----------------------------- MODULE EventLedger -----------------------------
(***************************************************************************)
(* What the event bus promises its callers, without any of its steps: a     *)
(* ledger in which every recorded event has one verdict that never changes, *)
(* an accepted event sits at most MaxDepth below its root, a suppressed one *)
(* repeats an event that was not itself suppressed, and only accepted events*)
(* are handed to the router, each at most once.                             *)
(***************************************************************************)
EXTENDS Naturals

CONSTANTS Ids, MaxDepth, None

VARIABLES
    book,    \* book[e] = [verdict, parent, key, rank] of every event
    routed   \* the events handed to the router

ledger == <<book, routed>>

Blank == [verdict |-> "none", parent |-> None, key |-> None, rank |-> 0]

Recorded(e) == book[e].verdict # "none"

Init == book = [e \in Ids |-> Blank] /\ routed = {}

\* e becomes the last entry of the book, below a parent already in it.
Enter(e, verdict, parent, key, rank) ==
    /\ ~ Recorded(e)
    /\ \/ parent = None /\ rank = 0
       \/ parent \in Ids /\ Recorded(parent) /\ rank = book[parent].rank + 1
    /\ book' = [book EXCEPT ![e] = [verdict |-> verdict, parent |-> parent,
                                    key |-> key, rank |-> rank]]
    /\ UNCHANGED routed

Accept(e, parent, key, rank) ==
    /\ rank <= MaxDepth
    /\ Enter(e, "accepted", parent, key, rank)

Suppress(e, parent, key, rank) ==
    /\ \E o \in Ids : /\ book[o].verdict \in {"accepted", "limited"}
                      /\ book[o].key = key
    /\ Enter(e, "deduped", parent, key, rank)

\* Only a child can exceed a chain limit.
Limit(e, parent, key, rank) ==
    /\ parent # None
    /\ Enter(e, "limited", parent, key, rank)

Report(e) == Enter(e, "system", None, None, 0)

Hand(e) ==
    /\ book[e].verdict = "accepted"
    /\ e \notin routed
    /\ routed' = routed \cup {e}
    /\ UNCHANGED book

Record(e) ==
    LET new == book'[e]
    IN \/ Accept(e, new.parent, new.key, new.rank)
       \/ Suppress(e, new.parent, new.key, new.rank)
       \/ Limit(e, new.parent, new.key, new.rank)
       \/ Report(e)

Next == \E e \in Ids : Record(e) \/ Hand(e)

Spec == Init /\ [][Next]_ledger
=============================================================================
