----------------------------- MODULE MCEventBus -----------------------------
(* The instance of EventBus that TLC checks. *)
EXTENDS EventBusProperties, TLC

CONSTANTS k1, t1

PublisherSymmetry == Permutations(Publishers)

\* Chains: plain events, told apart by their parents only.
ChainRequests ==
    {[key |-> None, trace |-> None, repeats |-> FALSE, lasting |-> TRUE]}

\* Duplicates: events with the same key, one shape with a trace of its own, one
\* that repeats a trace and one with an expires_at.
DedupeRequests ==
    {[key |-> k1, trace |-> t1, repeats |-> FALSE, lasting |-> TRUE],
     [key |-> k1, trace |-> None, repeats |-> TRUE, lasting |-> TRUE],
     [key |-> k1, trace |-> None, repeats |-> FALSE, lasting |-> FALSE]}
=============================================================================
