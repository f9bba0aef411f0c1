----------------------------- MODULE ActionGate -----------------------------
(***************************************************************************)
(* What becomes of one action an LLM proposes: the output parser, the        *)
(* restriction of passive agents, the policy engine, a human's approval,     *)
(* the executor and its handlers. The loop around it is module ToolLoop.     *)
(* A command is a model value; what the policy's patterns say of it is a     *)
(* constant set.                                                             *)
(***************************************************************************)
EXTENDS ContextEngine, PlaywrightBackend

CONSTANTS
    Commands, Blocklisted, Allowlisted      \* what the two tables match

ASSUME GateAssumption ==
    /\ Users = Turns
    /\ Blocklisted \subseteq Commands /\ Allowlisted \subseteq Commands

VARIABLES
    phase,          \* each turn: where its action is
    action,         \* each turn: the action, once parsed
    outcome,        \* each turn: what the LLM is told
    offered,        \* each turn: the action types its prompt lists
    child,          \* each turn: the program its action runs
    ran             \* history: commands a shell was started for

gate == <<phase, action, outcome, offered, child, ran>>

NoAction == [type |-> "none"]

GateInit ==
    /\ phase = [t \in Turns |-> "prompt"]
    /\ action = [t \in Turns |-> NoAction]
    /\ outcome = [t \in Turns |-> None]
    /\ offered = [t \in Turns |-> {}]
    /\ child = [t \in Turns |-> "none"]
    /\ ran = {}

Phase(t, to) == phase' = [phase EXCEPT ![t] = to]

Answered(t, told) ==
    /\ Phase(t, "answered")
    /\ outcome' = [outcome EXCEPT ![t] = told]

-----------------------------------------------------------------------------
(* The output parser. A reply is the JSON object its text is, those in its   *)
(* code blocks, and the one from its first to its last brace. Text is not    *)
(* JSON, Foreign is JSON that the schema refuses.                            *)

Text    == [type |-> "text"]
Foreign == [type |-> "foreign"]

\* Fields are filled in and unknown ones ignored; only a foreign value fails.
Validate(found) == IF found \in {Text, Foreign} THEN None ELSE found

\* The first code block that is JSON decides, valid or not.
ExtractCodeBlock(blocks) ==
    LET json == SelectSeq(blocks, LAMBDA b : b # Text)
    IN  IF json = <<>> THEN None ELSE Validate(Head(json))

Parse(reply) ==
    LET tries == <<Validate(reply.whole), ExtractCodeBlock(reply.blocks),
                   Validate(reply.braces)>>
        good  == SelectSeq(tries, LAMBDA r : r # None)
    IN  IF good = <<>> THEN None ELSE Head(good)

Proposals == {Parse(r) : r \in UNION {w.replies : w \in Worlds}} \ {None}

\* What set_knowledge is given, it stores under the key as it is.
ASSUME ProposalAssumption ==
    \A a \in Proposals :
        /\ "type" \in DOMAIN a
        /\ a.type = "shell_exec" => a.timeout \in {"number", "null", "text"}
        /\ a.type = "set_knowledge" => /\ {"key", "value"} \subseteq DOMAIN a
                                       /\ a.key \in Keys /\ a.value \in Values

-----------------------------------------------------------------------------
(* The action types. *)

Builtins == {"shell_exec", "file_read", "file_write", "file_delete", "notify",
             "open_app", "http_request", "tool_call"}

\* main registers two more.
Handlers == Builtins \cup {"set_knowledge", "get_knowledge"}

BusActions == {"emit_event", "log", "alert"}

PassiveAllowed == {"emit_event", "log", "alert"}

\* list_available_actions, and of those what _build_action_docs shows a passive
\* agent. tool_call is listed with the tools, when there are any.
ActionDocs(reactive) ==
    LET listed == (Handlers \ {"tool_call"}) \cup BusActions
                  \cup IF world.playwright_enabled THEN {"tool_call"} ELSE {}
    IN  IF reactive THEN listed ELSE listed \cap {"emit_event", "log", "alert"}

-----------------------------------------------------------------------------
(* The policy engine. Of the types in its table, those without a handler never
   get to it. *)

DefaultTrust(type) ==
    CASE type \in {"notify", "file_read", "get_knowledge", "set_knowledge",
                   "http_request"} -> "auto"
      [] OTHER -> "confirm"

\* Mutant: the configuration has the first word.
Evaluate_OverrideFirst(a) ==
    CASE a.type \in DOMAIN world.trust_overrides -> world.trust_overrides[a.type]
      [] a.type = "shell_exec" /\ a.command \in Blocklisted -> "deny"
      [] a.type = "shell_exec" /\ a.command \in Allowlisted -> "auto"
      [] OTHER -> DefaultTrust(a.type)

\* Blocklist, allowlist, the configuration, the defaults.
Evaluate(a) ==
    IF a.type = "shell_exec" /\ a.command \in Blocklisted THEN "deny"
    ELSE IF a.type = "shell_exec" /\ a.command \in Allowlisted THEN "auto"
    ELSE IF a.type \in DOMAIN world.trust_overrides THEN world.trust_overrides[a.type]
    ELSE DefaultTrust(a.type)

\* Parameters nested in "params" are lifted to the top level unless they are
\* there already: the command the policy reads is the one the handler runs.
Lift(a) == IF a.nested = None THEN a
           ELSE [a EXCEPT !.command = IF @ = None THEN a.nested ELSE @,
                          !.nested = None]

-----------------------------------------------------------------------------
(* _execute_action. *)

\* The LLM sees the prompt and replies.
Reply(t) ==
    /\ phase[t] = "reply"
    /\ \E r \in world.replies :
          IF Parse(r) = None THEN Answered(t, "unparsed") /\ UNCHANGED action
          ELSE /\ action' = [action EXCEPT ![t] = Parse(r)]
               /\ Phase(t, "proposed")
               /\ UNCHANGED outcome
    /\ UNCHANGED <<offered, child, ran, browser>>

\* Each case is an early return; an emit_event without a topic is refused, too.
Gate(t) ==
    /\ phase[t] = "proposed"
    /\ LET a == Lift(action[t])
       IN  /\ action' = [action EXCEPT ![t] = a]
           /\ CASE ~job[t].reactive /\ a.type \notin PassiveAllowed ->
                     Answered(t, "passive")
                [] a.type \in BusActions ->
                     Answered(t, IF a.type = "emit_event" /\ a.topic = None
                                   THEN "denied" ELSE "executed")
                [] a.type \notin Handlers ->
                     Answered(t, "unknown")
                [] Evaluate(a) = "deny" ->
                     Answered(t, "denied")
                [] Evaluate(a) = "auto" ->
                     Phase(t, "run") /\ UNCHANGED outcome
                [] OTHER ->
                     Phase(t, "waiting") /\ UNCHANGED outcome
    /\ UNCHANGED <<offered, child, ran, browser>>

\* The API: what was recorded is executed, or the agent is told of the denial.
Decide(t) ==
    /\ phase[t] = "waiting"
    /\ \/ Phase(t, "run") /\ UNCHANGED outcome
       \/ Answered(t, "denied")
    /\ UNCHANGED <<action, offered, child, ran, browser>>

-----------------------------------------------------------------------------
(* The executor. A handler that raises is an answer like any other. *)

Child(t, is) == child' = [child EXCEPT ![t] = is]

Programs == {"shell_exec", "notify", "open_app"}

\* A shell, a notifier or an opener is started; or cannot be, for want of a
\* program, a directory or memory. A timeout that is no number makes wait_for
\* raise, and nobody waits for that shell.
Spawn(t) ==
    /\ phase[t] = "run" /\ action[t].type \in Programs
    /\ \/ /\ action[t].type \in {"shell_exec"} \cup world.desktop
          /\ Child(t, "up")
          /\ ran' = ran \cup (IF action[t].type = "shell_exec"
                                THEN {action[t].command} ELSE {})
          /\ IF action[t].type = "shell_exec" /\ action[t].timeout = "text"
               THEN Answered(t, "error")
               ELSE Phase(t, "communicate") /\ UNCHANGED outcome
       \/ Answered(t, "error") /\ UNCHANGED <<child, ran>>
    /\ UNCHANGED <<action, offered, browser>>

\* It exits. What a shell left in the background keeps its output open.
ExitChild(t) ==
    /\ child[t] = "up"
    /\ \/ Child(t, "gone")
       \/ action[t].type = "shell_exec" /\ Child(t, "held")
    /\ UNCHANGED <<phase, action, outcome, offered, ran, browser>>

LetGo(t) ==
    /\ child[t] = "held"
    /\ Child(t, "gone")
    /\ UNCHANGED <<phase, action, outcome, offered, ran, browser>>

\* communicate() returns when nobody holds the output.
Communicate(t) ==
    /\ phase[t] = "communicate" /\ child[t] = "gone"
    /\ Answered(t, "executed")
    /\ UNCHANGED <<action, offered, child, ran, browser>>

\* Mutant: the shell is waited for, and not killed.
ShellTimeout_NoKill(t) ==
    /\ phase[t] = "communicate" /\ action[t].type = "shell_exec"
    /\ action[t].timeout = "number"
    /\ child[t] \in {"up", "held"}
    /\ Phase(t, "drain")
    /\ UNCHANGED <<action, outcome, offered, child, ran, browser>>

\* Only a shell has a timeout, the LLM's or the configured one, unless the LLM
\* said null: it is killed, and then waited for.
ShellTimeout(t) ==
    /\ phase[t] = "communicate" /\ action[t].type = "shell_exec"
    /\ action[t].timeout = "number"
    /\ child[t] \in {"up", "held"}
    /\ \/ child[t] = "up" /\ Child(t, "gone")
       \/ Child(t, "held")
    /\ Phase(t, "drain")
    /\ UNCHANGED <<action, outcome, offered, ran, browser>>

Drain(t) ==
    /\ phase[t] = "drain" /\ child[t] = "gone"
    /\ Answered(t, "error")
    /\ UNCHANGED <<action, offered, child, ran, browser>>

\* The calls that go out: to the file system, synchronously, and to a server.
GoOut(t) ==
    /\ phase[t] = "run"
    /\ \/ action[t].type \in {"file_read", "file_write", "file_delete"}
          /\ Phase(t, "file")
       \/ action[t].type = "http_request" /\ Phase(t, "request")
    /\ UNCHANGED <<action, outcome, offered, child, ran, browser>>

Back(t) ==
    /\ \E told \in {"executed", "error"} : Answered(t, told)
    /\ UNCHANGED <<action, offered, child, ran, browser>>

FileReturns(t) == phase[t] = "file" /\ Back(t)

\* The timeout is for each read: the server answers, refuses, falls silent, or
\* goes on.
Response(t) == phase[t] = "request" /\ Back(t)

\* A file that is a pipe, say, holds up the thread, and with it everybody.
Blocked == \E t \in Turns : phase[t] = "file"

\* ToolRegistry.call: an unknown tool or method is an error.
CallTool(t) ==
    /\ phase[t] = "run" /\ action[t].type = "tool_call"
    /\ \/ /\ world.playwright_enabled
          /\ Phase(t, "tool") /\ UNCHANGED outcome
       \/ Answered(t, "error")
    /\ UNCHANGED <<action, offered, child, ran, browser>>

ToolReturns(t) ==
    /\ phase[t] = "tool" /\ at[t] \in {"over", "raised"}
    /\ \E told \in {"executed", "error"} :
          (at[t] = "raised" => told = "error") /\ Answered(t, told)
    /\ UNCHANGED <<action, offered, child, ran, browser>>

UseTool(t) == phase[t] = "tool" /\ EnsurePage(t) /\ UNCHANGED gate

Driver(t) == phase[t] = "tool" /\ Driven(t) /\ UNCHANGED gate

Consume(t) ==
    \/ Gate(t) \/ Spawn(t) \/ Communicate(t) \/ ShellTimeout(t) \/ Drain(t)
    \/ GoOut(t) \/ CallTool(t) \/ ToolReturns(t) \/ UseTool(t)

\* What comes from outside, if it comes: the LLM streams, a server and the browser
\* answer when they do.
Hear(t) == Reply(t) \/ Response(t) \/ Driver(t)

\* The turn waits for somebody outside whom no timeout bounds.
AwaitsOutside(t) ==
    \/ phase[t] = "communicate" /\ child[t] # "gone"
          /\ (action[t].type = "shell_exec" => action[t].timeout = "null")
    \/ phase[t] = "drain" /\ child[t] = "held"
    \/ phase[t] \in {"reply", "request"}
    \/ phase[t] = "tool" /\ at[t] \in {"driver", "launch", "page", "use"}
    \/ Blocked
=============================================================================
