--------------------------- MODULE MCAgentRuntime ---------------------------
(* The instances of AgentRuntime that TLC checks: an agent with two slots   *)
(* whose work is retried or drained; one whose work meets an error; one     *)
(* with one slot that two overlapping calls enable, disable, update or      *)
(* delete over two assignments; and one managed so while the daemon dies.   *)
EXTENDS AgentRuntimeProperties

Busy == [concurrent |-> 2, work |-> 3, calls |-> 0, retries |-> 1, asks |-> 1,
         errors |-> 0, crashes |-> 0]

Failing == [Busy EXCEPT !.work = 2, !.retries = 0, !.errors = 1]

Managed == [concurrent |-> 1, work |-> 2, calls |-> 2, retries |-> 0, asks |-> 0,
            errors |-> 0, crashes |-> 0]

Restarted == [Managed EXCEPT !.work = 1, !.asks = 1, !.crashes = 1]

Quiet == [Busy EXCEPT !.work = 2, !.retries = 0]

MCScenarios   == {Busy, Failing, Managed, Restarted}
QuietScenario == {Quiet}
=============================================================================
