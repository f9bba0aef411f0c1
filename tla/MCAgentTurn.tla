---------------------------- MODULE MCAgentTurn ----------------------------
(* The instance of AgentTurn that TLC checks. *)
EXTENDS AgentTurnProperties, TLC

CONSTANTS m1, m2, ls, rm, vim, v1, v2

\* A reactive agent, with room for recalled experience, and an event whose topic
\* is a prefix that is scanned anyway; and a passive one with little room.
Job(agent, scope, topic, budget, reactive, refs) ==
    [agent |-> agent, scope |-> scope, topic |-> topic, token_budget |-> budget,
     reactive |-> reactive, prompt |-> 16, refs |-> refs]

TwoJobs == {Job("a", "agent", <<"user", "query">>, 8192, TRUE, 0),
            Job("b", "chat", <<"clipboard">>, 1600, FALSE, 6)}

ThreeKeys == {<<"system", "host">>, <<"user", "lang">>, <<"agent", "a", "note">>}
TwoRows   == (m1 :> [scope |-> "user", words |-> {"query"}])
             @@ (m2 :> [scope |-> "global", words |-> {"or"}])
Prompts   == (TRUE :> 694) @@ (FALSE :> 502)

Shell(c, nested, timeout) ==
    [type |-> "shell_exec", command |-> IF nested THEN None ELSE c,
     nested |-> IF nested THEN c ELSE None, timeout |-> timeout]
Plain(x) == [type |-> x, command |-> None, nested |-> None, topic |-> None,
             key |-> <<"user", "lang">>, value |-> v2]

Actions == {Shell(rm, TRUE, "number"), Shell(rm, FALSE, "number"),
            Shell(ls, FALSE, "number"), Shell(ls, FALSE, "null"),
            Shell(ls, FALSE, "text"), Shell(vim, TRUE, "number")}
           \cup {Plain(x) : x \in {"emit_event", "alert", "notify", "http_request",
                                   "file_read",
                                   "set_knowledge", "get_knowledge", "tool_call",
                                   "make_coffee"}}

\* The object alone, in a code block after one that is not JSON, behind a JSON
\* block the schema refuses (found by its braces, or not), and prose.
Answer(a) == [whole |-> a, blocks |-> <<>>, braces |-> a]
Odd == {[whole |-> Text, blocks |-> <<Text, Plain("alert")>>, braces |-> Text],
        [whole |-> Text, blocks |-> <<Foreign, Plain("log")>>, braces |-> Plain("log")],
        [whole |-> Text, blocks |-> <<Foreign>>, braces |-> Text]}

ShellIsAuto == [t \in {"shell_exec"} |-> "auto"]
NoHttp      == [t \in {"http_request"} |-> "deny"]

World(turns, jobs, replies, overrides, browser_on, keys, rows, edited, closed) ==
    [turns |-> turns, jobs |-> jobs, replies |-> replies, trust_overrides |-> overrides,
     playwright_enabled |-> browser_on, desktop |-> {"notify"}, keys |-> keys,
     memories |-> rows, MaxEdits |-> edited, MaxCloses |-> closed]

\* Two prompts built while the stores are edited; every action of one agent and
\* another; and two agents with one browser.
AllWorlds ==
    {World(Turns, TwoJobs, {Answer(Plain("set_knowledge"))}, NoHttp, FALSE, keys, rows, 1, 0) :
        keys \in {ThreeKeys \ {<<"user", "lang">>}}, rows \in {{m1, m2}, {m2}}}
    \cup {World({CHOOSE t \in Turns : TRUE}, {j}, {Answer(a) : a \in Actions} \cup Odd, o, FALSE, {}, {}, 0, 0) :
             j \in TwoJobs, o \in {ShellIsAuto, NoHttp}}
    \cup {World(Turns, {Job("a", "agent", <<"x">>, None, TRUE, 0)},
                {Answer(Plain("tool_call")), Answer(Plain("file_read"))}, NoHttp, TRUE, {}, {}, 0, 1)}
=============================================================================
