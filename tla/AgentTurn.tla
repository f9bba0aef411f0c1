----------------------------- MODULE AgentTurn -----------------------------
(***************************************************************************)
(* A whole turn of an agent: the prompt is built from the stores, the LLM    *)
(* replies, and its action passes the gate and is executed. Turns of several *)
(* agents and the API's calls interleave; they meet in the knowledge, the    *)
(* transcripts, the distilled memories and the browser.                      *)
(***************************************************************************)
EXTENDS ActionGate

vars == <<context, gate, browser>>

Init == ContextInit /\ GateInit /\ PlaywrightInit

Build(t) == BuildPrompt(t) /\ UNCHANGED <<gate, browser>>

\* The prompt lists the actions on offer; the event becomes the user's turn.
\* The agent is the one the consumer was built with, here as in Gate.
StartLoop(t) ==
    /\ phase[t] = "prompt" /\ step[t] = "built"
    /\ offered' = [offered EXCEPT ![t] = ActionDocs(job[t].reactive)]
    /\ AppendTurn(t, "user")
    /\ Phase(t, "reply")
    /\ UNCHANGED <<world, knowledge, memories, unborn, access_count, expired, edits, job,
                   step, left, prompt, kept, action, outcome,
                   child, ran, browser>>

Work(t) == Consume(t) /\ UNCHANGED context

Heard(t) == Hear(t) /\ UNCHANGED context

Await(t) == Decide(t) /\ UNCHANGED context

\* The handlers that main registers: an entry is stored, or looked up by key.
HandleKnowledge(t) ==
    /\ phase[t] = "run"
    /\ \/ /\ action[t].type = "set_knowledge"
          /\ SetKnowledge(action[t].key, action[t].value)
          /\ Answered(t, "executed")
       \/ /\ action[t].type = "get_knowledge"
          /\ Answered(t, IF knowledge[action[t].key] = None THEN "error"
                           ELSE "executed")
          /\ UNCHANGED <<knowledge, kept>>
    /\ UNCHANGED <<world, memories, unborn, access_count, expired, transcript, edits, job,
                   step, left, prompt, action, offered, child,
                   ran, browser>>

\* The loop ends with the reply as the assistant's turn, or fails in the LLM or
\* a broadcast before that.
Finish(t) ==
    /\ phase[t] = "answered"
    /\ AppendTurn(t, "assistant") \/ UNCHANGED transcript
    /\ Phase(t, "done")
    /\ UNCHANGED <<world, knowledge, memories, unborn, access_count, expired, edits, job,
                   step, left, prompt, kept, action, outcome,
                   offered, child, ran, browser>>

Environment ==
    \/ world.MaxCloses > Cardinality(page_closed) /\ ClosePage /\ UNCHANGED <<context, gate>>
    \/ \E t \in Turns : (ExitChild(t) \/ LetGo(t)) /\ UNCHANGED context

\* The turns are over, or wait for a human or somebody else outside.
Rests ==
    /\ \A t \in world.turns : phase[t] \in {"done", "waiting"} \/ AwaitsOutside(t)
    /\ UNCHANGED vars

\* What the turn's coroutine does when it is resumed.
Resumes(t) ==
    Build(t) \/ StartLoop(t) \/ Work(t) \/ HandleKnowledge(t) \/ Finish(t)

Next ==
    \/ ~Blocked /\ \E t \in Turns : Resumes(t) \/ Heard(t) \/ Await(t)
    \/ ~Blocked /\ Api /\ UNCHANGED <<gate, browser>>
    \/ \E t \in Turns : FileReturns(t) /\ UNCHANGED context
    \/ Environment
    \/ Rests

Spec == Init /\ [][Next]_vars

\* The event loop resumes whoever need not wait, unless its thread is held up.
\* Timeouts pass. Nobody outside has to decide, answer, exit or close a pipe.
FairSpec ==
    /\ Spec
    /\ \A t \in Turns : WF_vars(~Blocked /\ Resumes(t))
=============================================================================
