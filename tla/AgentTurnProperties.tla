------------------------ MODULE AgentTurnProperties ------------------------
(* What an agent's turn must keep, whatever the other turns and the API do. *)
EXTENDS AgentTurn

\* The stores, the prompts being built, the actions and the browser hold what
\* they should.
Turn == [role : {"user", "assistant"}, of : Turns]

Scannable == UNION {ToSet(ScannedPrefixes(j)) : j \in world.jobs}

StoresTypeOK ==
    /\ world \in Worlds
    /\ knowledge \in [Keys -> Values \cup {None}]
    /\ memories \subseteq Memories /\ unborn \subseteq Memories
    /\ expired \subseteq Memories
    /\ access_count \in [Memories -> Nat]
    /\ transcript \in [Conversations -> Seq(Turn)]
    /\ edits \in Nat

PromptTypeOK ==
    /\ job \in [Turns -> world.jobs \cup {None}]
    /\ step \in [Turns -> {"new", "scan", "search", "touch", "recent", "built"}]
    /\ left \in [Turns -> Seq(Scannable)]
    /\ known \in [Turns -> SUBSET (Keys \X Values)]
    /\ recalled \in [Turns -> SUBSET Memories]
    /\ recent \in [Turns -> Seq(Turn)]
    /\ sections \in [Turns -> SUBSET {"knowledge", "recalled", "related"}]
    /\ used_tokens \in [Turns -> Nat]
    /\ kept \in [Turns -> SUBSET Keys]

Parsed == Proposals \cup {Lift(a) : a \in Proposals}

GateTypeOK ==
    /\ phase \in [Turns -> {"prompt", "reply", "proposed", "waiting", "run",
                            "communicate", "drain", "file", "request", "tool",
                            "answered", "done"}]
    /\ action \in [Turns -> {NoAction} \cup Parsed]
    /\ outcome \in [Turns -> {None, "unparsed", "passive", "denied", "unknown",
                              "executed", "error"}]
    /\ offered \in [Turns -> SUBSET (Handlers \cup BusActions)]
    /\ child \in [Turns -> {"none", "up", "held", "gone"}]
    /\ ran \subseteq {a.command : a \in Parsed}

BrowserTypeOK ==
    /\ _playwright \in Users \cup {Nothing}
    /\ _browser \in Users \cup {Nothing}
    /\ _page \in Users \cup {Nothing}
    /\ page_closed \subseteq Users /\ browsers \subseteq Users
    /\ shows \in [Users -> Users \cup {Nothing}]
    /\ at \in [Users -> {"out", "driver", "launch", "page", "use", "over", "raised"}]
    /\ page \in [Users -> Users \cup {Nothing}]
    /\ overlapped \in BOOLEAN

TypeOK == StoresTypeOK /\ PromptTypeOK /\ GateTypeOK /\ BrowserTypeOK

\* The optional sections never crowd out the event: when the system prompt takes
\* at most half of the budget, everything ahead of the event stays within 80% of
\* it (build_prompt, whose limits are on the sum so far, not on the section).
HasRoom(t) ==
    step[t] = "built" /\ 2 * (SystemTokens[job[t].reactive] + job[t].prompt)
                            <= Budget(job[t])
    => 100 * used_tokens[t] <= 80 * Budget(job[t])

RoomForTheEvent == \A t \in Turns : HasRoom(t)

\* The knowledge section shows every key that nobody touched while the prompt
\* was built, with its value, and no key twice, whatever was written between the
\* scans and however the prefixes overlap (_get_relevant_knowledge).
KnowledgeIsConsistent ==
    \A t \in Turns :
        "knowledge" \in sections[t] =>
            /\ \A e, f \in known[t] : e[1] = f[1] => e = f
            /\ \A k \in kept[t] :
                  (/\ knowledge[k] # None
                   /\ \E p \in ToSet(ScannedPrefixes(job[t])) : IsStrictPrefix(p, k))
                  => <<k, knowledge[k]>> \in known[t]

\* No shell is ever started for a command on the blocklist: not by an override,
\* not by an approval, not with the command nested in "params" (Lift before
\* Evaluate, and Evaluate's order).
NothingBlockedRuns == ran \cap Blocklisted = {}

\* The agents share one browser, unless two first calls meet in the start of the
\* driver: then each launches one, and close() knows the last only
\* (_ensure_page; its docstring calls the browser a singleton).
BrowserIsShared == overlapped \/ Cardinality(browsers) <= 1

\* Every action that runs is answered, and the assignment's slot comes free,
\* unless it waits for good for somebody outside: a notifier, an opener or a shell
\* without a timeout that does not exit, what a killed shell left behind with its
\* output open, a server that trickles, a page that hangs, a file that is a pipe
\* (the handlers of executor.py). A shell that has a timeout need not exit.
RunsAreAnswered ==
    \A t \in Turns :
        (AwaitsOutside(t) ~> ~AwaitsOutside(t))
        => (phase[t] \in {"run", "communicate", "drain", "file", "request", "tool"}
              ~> phase[t] = "done")

-----------------------------------------------------------------------------
(* The inductive invariants behind the safety properties above, each about   *)
(* its own part of the state.                                                *)

\* A turn past its beginning has a job, and prefixes left just while it scans.
Scanning(t) ==
    /\ step[t] # "new" => job[t] \in world.jobs
    /\ step[t] = "new" => known[t] = {} /\ sections[t] = {}
    /\ step[t] = "scan" => left[t] # <<>> /\ sections[t] = {}
    /\ step[t] \notin {"new", "scan"} => left[t] = <<>>

\* Nothing is listed twice, and what nobody touched is listed as it is: every
\* such key below a prefix that has been scanned.
Listed(t) ==
    /\ \A e, f \in known[t] : e[1] = f[1] => e = f
    /\ \A e \in known[t] : e[1] \in kept[t] => e[2] = knowledge[e[1]]
    /\ step[t] # "new" =>
          \A k \in kept[t], p \in ToSet(ScannedPrefixes(job[t])) \ ToSet(left[t]) :
              knowledge[k] # None /\ IsStrictPrefix(p, k)
                  => <<k, knowledge[k]>> \in known[t]

\* What is ahead of the transcript is the system prompt, or within its limit.
Ahead(t) ==
    step[t] \in {"scan", "search", "touch", "recent"} =>
        \/ used_tokens[t] <= SystemTokens[job[t].reactive] + job[t].prompt
        \/ 100 * used_tokens[t] <= 20 * Budget(job[t])

PromptInv(t) == Scanning(t) /\ Listed(t) /\ Ahead(t) /\ HasRoom(t)

\* What the gate reads is as it was parsed, and a command that waits for a human
\* or for its shell passed the blocklist.
CommandInv ==
    /\ \A t \in Turns : phase[t] = "proposed" => action[t] \in Proposals
    /\ \A t \in Turns :
          phase[t] \in {"run", "waiting"} /\ action[t].type = "shell_exec"
              => action[t].command \notin Blocklisted
    /\ NothingBlockedRuns

\* Unless two calls met in the start of the driver, one call at most is in the
\* start of the driver or of the browser, and there is no other browser then.
LaunchInv ==
    ~overlapped =>
        /\ \A u, v \in Users : {at[u], at[v]} \subseteq {"driver", "launch"} => u = v
        /\ \A u \in Users : at[u] = "driver" => _playwright = Nothing
        /\ \A u \in Users : at[u] = "launch" => _playwright # Nothing
        /\ _playwright = Nothing \/ (\E u \in Users : at[u] = "launch") => browsers = {}
        /\ \A b, c \in browsers : b = c

TurnInv == (\A t \in Turns : PromptInv(t)) /\ CommandInv /\ LaunchInv
=============================================================================
