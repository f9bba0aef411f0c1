----------------------------- MODULE Happenings -----------------------------
(***************************************************************************)
(* What the producers that are told of things take in: a change of a file,  *)
(* a D-Bus message, a webhook request, a scheduled job that falls due. Each *)
(* is held by a coroutine until its publish() is over.                      *)
(***************************************************************************)
EXTENDS BaseProducer

CONSTANT MaxHappenings      \* bound: things that happen while a producer listens

AllHappenings == 1 .. MaxHappenings

VARIABLES
    fate,       \* each: "none" | "noticed" | "taken" | "published" | "dropped"
    taker       \* each: the instance it came to

happenings == <<fate, taker>>

HappeningsAssumption == MaxHappenings \in Nat

HappeningsInit ==
    /\ fate = [o \in AllHappenings |-> "none"]
    /\ taker = [o \in AllHappenings |-> None]

\* What came to i, and what it still has to publish.
CameTo(i) == {o \in AllHappenings : taker[o] = i}
Noticed(i) == {o \in CameTo(i) : fate[o] = "noticed"}
InHand(i)  == {o \in CameTo(i) : fate[o] = "taken"}
Open(i)    == Noticed(i) \cup InHand(i)

\* The next thing happens, and i gets to know of it.
TakeIn(i, as) ==
    \E o \in AllHappenings :
        /\ fate[o] = "none" /\ \A p \in 1 .. o - 1 : fate[p] # "none"
        /\ fate' = [fate EXCEPT ![o] = as]
        /\ taker' = [taker EXCEPT ![o] = i]

Becomes(S, what) ==
    /\ fate' = [o \in AllHappenings |-> IF o \in S THEN what ELSE fate[o]]
    /\ UNCHANGED taker

\* The coroutines of i are cancelled. A publish() that has begun has stored its
\* event by then, or never will.
Cancelled(i, begun) ==
    \E S \in SUBSET begun :
        /\ fate' = [o \in AllHappenings |-> CASE o \in S -> "published"
                                              [] o \in Open(i) \ S -> "dropped"
                                              [] OTHER -> fate[o]]
        /\ UNCHANGED taker

Raises ==
    /\ errors < MaxErrors
    /\ errors' = errors + 1
=============================================================================
