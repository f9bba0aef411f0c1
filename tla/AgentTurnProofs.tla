--------------------------- MODULE AgentTurnProofs ---------------------------
(***************************************************************************)
(* Proofs about an agent's turn for any number of turns, agents, keys and    *)
(* memories. The turns meet in three parts of the state that no step mixes:  *)
(* the stores with the prompts built from them, the actions at the gate, and *)
(* the browser. Each part has its own steps, types and invariants.           *)
(***************************************************************************)
EXTENDS AgentTurnProperties, FiniteSetTheorems, WellFoundedInduction, TLAPS

-----------------------------------------------------------------------------
(* A step, as each part sees it.                                            *)

BrowserStep == ClosePage \/ \E u \in Users : Browse(u)

LEMMA BrowserSees ==
    ASSUME [Next]_vars
    PROVE  BrowserStep \/ UNCHANGED browser
BY GateAssumption
   DEF GateAssumption, BrowserStep, Next, vars, Build, StartLoop, Work, Consume, Reply, Gate,
       Spawn, Communicate, ShellTimeout, Drain, GoOut, Back, FileReturns, Response,
       CallTool, ToolReturns, UseTool, Driver, Browse, Hear, Heard, Resumes,
       HandleKnowledge, Await, Decide, Finish, Environment, ExitChild, LetGo, Rests

GateStep ==
    \E t \in Turns :
        \/ StartLoop(t) \/ Finish(t) \/ HandleKnowledge(t) \/ Decide(t)
        \/ Reply(t) \/ Gate(t) \/ Spawn(t) \/ Communicate(t) \/ ShellTimeout(t)
        \/ Drain(t) \/ GoOut(t) \/ FileReturns(t) \/ Response(t) \/ CallTool(t)
        \/ ToolReturns(t) \/ ExitChild(t) \/ LetGo(t)

LEMMA GateSees ==
    ASSUME [Next]_vars
    PROVE  GateStep \/ UNCHANGED gate
BY DEF GateStep, Next, vars, Build, Work, Consume, UseTool, Driver, Hear, Heard, Resumes,
       Await, Environment, Rests

ContextStep ==
    \/ \E t \in Turns : BuildPrompt(t) \/ StartLoop(t) \/ HandleKnowledge(t) \/ Finish(t)
    \/ Api

LEMMA ContextSees ==
    ASSUME [Next]_vars
    PROVE  ContextStep \/ UNCHANGED context
BY DEF ContextStep, Next, vars, Build, Work, Heard, Resumes, Await, Environment, Rests

-----------------------------------------------------------------------------
(* The browser.                                                             *)

LEMMA BrowserInit == Init => BrowserTypeOK /\ LaunchInv
BY DEF Init, PlaywrightInit, BrowserTypeOK, LaunchInv

LEMMA BrowserTypes ==
    ASSUME BrowserTypeOK, BrowserStep PROVE BrowserTypeOK'
<1> USE DEF BrowserTypeOK, attributes, At, Raised
<1>1. CASE ClosePage BY <1>1 DEF ClosePage
<1>2. ASSUME NEW u \in Users, EnsurePage(u) PROVE BrowserTypeOK'
  <2>1. overlapped' \in BOOLEAN BY <1>2 DEF EnsurePage, Overlaps
  <2>2. at' \in [Users -> {"out", "driver", "launch", "page", "use", "over", "raised"}]
    BY <1>2 DEF EnsurePage
  <2>3. page' \in [Users -> Users \cup {Nothing}] BY <1>2 DEF EnsurePage
  <2> QED BY <1>2, <2>1, <2>2, <2>3 DEF EnsurePage
<1>3. ASSUME NEW u \in Users, StartDriver(u) PROVE BrowserTypeOK'
  BY <1>3 DEF StartDriver
<1>4. ASSUME NEW u \in Users, Launch(u) PROVE BrowserTypeOK'
  BY <1>4 DEF Launch
<1>5. ASSUME NEW u \in Users, OpenPage(u) PROVE BrowserTypeOK'
  BY <1>5 DEF OpenPage
<1>6. ASSUME NEW u \in Users, Use(u) PROVE BrowserTypeOK'
  BY <1>6 DEF Use
<1> QED BY <1>1, <1>2, <1>3, <1>4, <1>5, <1>6 DEF BrowserStep, Browse, Driven

LEMMA LaunchKept ==
    ASSUME BrowserTypeOK, LaunchInv, BrowserStep PROVE LaunchInv'
<1> USE DEF attributes, At, Raised
<1>0. at \in [Users -> {"out", "driver", "launch", "page", "use", "over", "raised"}]
  BY DEF BrowserTypeOK
<1>1. CASE ClosePage BY <1>1 DEF ClosePage, LaunchInv
<1>2. ASSUME NEW u \in Users, EnsurePage(u), ~ overlapped' PROVE LaunchInv'
  <2>1. ~ overlapped /\ ~ Overlaps BY <1>2 DEF EnsurePage
  <2>2. /\ \E to \in {"use", "driver", "page", "raised"} :
              at' = [at EXCEPT ![u] = to] /\ (to = "driver" => _playwright = Nothing)
        /\ at[u] = "out"
    BY <1>2 DEF EnsurePage
  <2>3. UNCHANGED <<_playwright, browsers>> BY <1>2 DEF EnsurePage
  <2>4. PICK to \in {"use", "driver", "page", "raised"} :
           at' = [at EXCEPT ![u] = to] /\ (to = "driver" => _playwright = Nothing)
    BY <2>2
  <2>5. at'[u] = to /\ \A v \in Users \ {u} : at'[v] = at[v] BY <1>0, <2>4
  <2>6. to = "driver" => \A v \in Users \ {u} : at[v] \notin {"driver", "launch"}
    <3>1. to = "driver" => \A v \in Users \ {u} : at'[v] # "driver"
      BY <2>1, <2>5 DEF Overlaps
    <3> QED BY <2>1, <2>4, <2>5, <3>1 DEF LaunchInv
  <2> QED BY <2>1, <2>3, <2>4, <2>5, <2>6 DEF LaunchInv
<1>3. ASSUME NEW u \in Users, StartDriver(u), ~ overlapped' PROVE LaunchInv'
  <2>1. /\ ~ overlapped /\ at[u] = "driver" /\ UNCHANGED browsers
        /\ \/ _playwright' = u /\ at' = [at EXCEPT ![u] = "launch"]
           \/ UNCHANGED _playwright /\ at' = [at EXCEPT ![u] = "raised"]
    BY <1>3 DEF StartDriver
  <2>2. u # Nothing BY PlaywrightAssumption DEF PlaywrightAssumption
  <2>3. /\ browsers = {} /\ _playwright = Nothing
        /\ \A v \in Users \ {u} : at[v] \notin {"driver", "launch"}
    BY <2>1 DEF LaunchInv
  <2> QED BY <1>0, <2>1, <2>2, <2>3 DEF LaunchInv
<1>4. ASSUME NEW u \in Users, Launch(u), ~ overlapped' PROVE LaunchInv'
  <2>1. /\ ~ overlapped /\ at[u] = "launch" /\ UNCHANGED _playwright
        /\ \/ browsers' = browsers \cup {u} /\ at' = [at EXCEPT ![u] = "page"]
           \/ UNCHANGED browsers /\ at' = [at EXCEPT ![u] = "raised"]
    BY <1>4 DEF Launch
  <2>2. /\ browsers = {} /\ _playwright # Nothing
        /\ \A v \in Users \ {u} : at[v] \notin {"driver", "launch"}
    BY <2>1 DEF LaunchInv
  <2> QED BY <1>0, <2>1, <2>2 DEF LaunchInv
<1>5. ASSUME NEW u \in Users, OpenPage(u) PROVE LaunchInv'
  BY <1>0, <1>5 DEF OpenPage, LaunchInv
<1>6. ASSUME NEW u \in Users, Use(u) PROVE LaunchInv'
  BY <1>0, <1>6 DEF Use, LaunchInv
<1>7. overlapped' => LaunchInv' BY DEF LaunchInv
<1> QED BY <1>1, <1>2, <1>3, <1>4, <1>5, <1>6, <1>7 DEF BrowserStep, Browse, Driven

LEMMA BrowserNext ==
    ASSUME BrowserTypeOK, LaunchInv, [Next]_vars
    PROVE  BrowserTypeOK' /\ LaunchInv'
<1>1. CASE UNCHANGED browser
  BY <1>1 DEF browser, attributes, BrowserTypeOK, LaunchInv
<1> QED BY <1>1, BrowserSees, BrowserTypes, LaunchKept

-----------------------------------------------------------------------------
(* The gate.                                                                *)

LEMMA GateInitially == Init => GateTypeOK /\ CommandInv
BY DEF Init, GateInit, GateTypeOK, CommandInv, NothingBlockedRuns

\* An answer moves the turn on and tells the agent.
LEMMA AnsweredTypes ==
    ASSUME GateTypeOK, NEW t \in Turns,
           NEW told \in {"unparsed", "passive", "denied", "unknown", "executed", "error"},
           Answered(t, told)
    PROVE  /\ phase' \in [Turns -> {"prompt", "reply", "proposed", "waiting", "run",
                                    "communicate", "drain", "file", "request", "tool",
                                    "answered", "done"}]
           /\ outcome' \in [Turns -> {None, "unparsed", "passive", "denied", "unknown",
                                      "executed", "error"}]
BY DEF GateTypeOK, Answered, Phase

LEMMA GateTypes ==
    ASSUME GateTypeOK, CommandInv, world \in Worlds, GateStep PROVE GateTypeOK'
<1> USE DEF Phase, Child
<1>1. ASSUME NEW t \in Turns, StartLoop(t) PROVE GateTypeOK'
  <2>1. ActionDocs(job[t].reactive) \subseteq Handlers \cup BusActions
    BY DEF ActionDocs, Handlers, Builtins
  <2> QED BY <1>1, <2>1 DEF StartLoop, GateTypeOK
<1>2. ASSUME NEW t \in Turns, Finish(t) PROVE GateTypeOK'
  BY <1>2 DEF Finish, GateTypeOK
<1>3. ASSUME NEW t \in Turns, HandleKnowledge(t) PROVE GateTypeOK'
  <2>1. UNCHANGED <<action, offered, child, ran>> BY <1>3 DEF HandleKnowledge
  <2>2. \E told \in {"executed", "error"} : Answered(t, told)
    BY <1>3 DEF HandleKnowledge, Answered
  <2> QED BY <2>1, <2>2, AnsweredTypes DEF GateTypeOK
<1>4. ASSUME NEW t \in Turns, Decide(t) PROVE GateTypeOK'
  <2>1. UNCHANGED <<action, offered, child, ran>> BY <1>4 DEF Decide
  <2>2. CASE Answered(t, "denied") BY <2>1, <2>2, AnsweredTypes DEF GateTypeOK
  <2>3. CASE Phase(t, "run") /\ UNCHANGED outcome BY <2>1, <2>3 DEF GateTypeOK
  <2> QED BY <1>4, <2>2, <2>3 DEF Decide
<1>5. ASSUME NEW t \in Turns, Reply(t) PROVE GateTypeOK'
  <2>1. PICK r \in world.replies :
          IF Parse(r) = None THEN Answered(t, "unparsed") /\ UNCHANGED action
          ELSE /\ action' = [action EXCEPT ![t] = Parse(r)]
               /\ Phase(t, "proposed")
               /\ UNCHANGED outcome
    BY <1>5 DEF Reply
  <2>2. UNCHANGED <<offered, child, ran>> BY <1>5 DEF Reply
  <2>3. Parse(r) # None => Parse(r) \in Parsed
    BY DEF Proposals, Parsed
  <2>4. CASE Parse(r) = None BY <2>1, <2>2, <2>4, AnsweredTypes DEF GateTypeOK
  <2>5. CASE Parse(r) # None BY <2>1, <2>2, <2>3, <2>5 DEF GateTypeOK
  <2> QED BY <2>4, <2>5
<1>6. ASSUME NEW t \in Turns, Gate(t) PROVE GateTypeOK'
  <2>1. UNCHANGED <<offered, child, ran>> BY <1>6 DEF Gate
  <2>2. action' = [action EXCEPT ![t] = Lift(action[t])] BY <1>6 DEF Gate
  <2>3. action[t] \in Proposals BY <1>6 DEF Gate, CommandInv
  <2>4. action' \in [Turns -> {NoAction} \cup Parsed]
    BY <2>2, <2>3 DEF GateTypeOK, Parsed
  <2>5. \/ \E told \in {"passive", "denied", "executed", "unknown"} : Answered(t, told)
        \/ \E to \in {"run", "waiting"} : Phase(t, to) /\ UNCHANGED outcome
    BY <1>6 DEF Gate
  <2>6. CASE \E told \in {"passive", "denied", "executed", "unknown"} : Answered(t, told)
    BY <2>1, <2>4, <2>6, AnsweredTypes DEF GateTypeOK
  <2>7. CASE \E to \in {"run", "waiting"} : Phase(t, to) /\ UNCHANGED outcome
    BY <2>1, <2>4, <2>7 DEF GateTypeOK
  <2> QED BY <2>5, <2>6, <2>7
<1>7. ASSUME NEW t \in Turns, Spawn(t) PROVE GateTypeOK'
  <2>1. UNCHANGED <<action, offered>> BY <1>7 DEF Spawn
  <2>2. CASE Answered(t, "error") /\ UNCHANGED <<child, ran>>
    BY <2>1, <2>2, AnsweredTypes DEF GateTypeOK
  <2>3. CASE /\ Child(t, "up")
             /\ Answered(t, "error") \/ (Phase(t, "communicate") /\ UNCHANGED outcome)
             /\ ran' = ran \cup (IF action[t].type = "shell_exec"
                                   THEN {action[t].command} ELSE {})
    <3>1. action[t] \in {NoAction} \cup Parsed
      BY DEF GateTypeOK
    <3>2. action[t].type = "shell_exec" => action[t].command \in {a.command : a \in Parsed}
      BY <3>1 DEF NoAction
    <3>3. ran' \subseteq {a.command : a \in Parsed}
      BY <2>3, <3>2 DEF GateTypeOK
    <3>4. child' \in [Turns -> {"none", "up", "held", "gone"}]
      BY <2>3 DEF GateTypeOK
    <3>5. CASE Answered(t, "error")
      BY <2>1, <3>3, <3>4, <3>5, AnsweredTypes DEF GateTypeOK
    <3>6. CASE Phase(t, "communicate") /\ UNCHANGED outcome
      BY <2>1, <3>3, <3>4, <3>6 DEF GateTypeOK
    <3> QED BY <2>3, <3>5, <3>6
  <2> QED BY <1>7, <2>2, <2>3 DEF Spawn
<1>8. ASSUME NEW t \in Turns, \/ Communicate(t) \/ Drain(t) \/ FileReturns(t)
                             \/ Response(t) \/ ToolReturns(t)
      PROVE  GateTypeOK'
  <2>1. UNCHANGED <<action, offered, child, ran>>
    BY <1>8 DEF Communicate, Drain, FileReturns, Response, Back, ToolReturns
  <2>2. \E told \in {"executed", "error"} : Answered(t, told)
    BY <1>8 DEF Communicate, Drain, FileReturns, Response, Back, ToolReturns, Answered
  <2> QED BY <2>1, <2>2, AnsweredTypes DEF GateTypeOK
<1>9. ASSUME NEW t \in Turns, CallTool(t) PROVE GateTypeOK'
  <2>1. UNCHANGED <<action, offered, child, ran>> BY <1>9 DEF CallTool
  <2>2. CASE Answered(t, "error") BY <2>1, <2>2, AnsweredTypes DEF GateTypeOK
  <2>3. CASE Phase(t, "tool") /\ UNCHANGED outcome BY <2>1, <2>3 DEF GateTypeOK
  <2> QED BY <1>9, <2>2, <2>3 DEF CallTool
<1>10. ASSUME NEW t \in Turns, ShellTimeout(t) \/ ExitChild(t) \/ LetGo(t) PROVE GateTypeOK'
  <2>1. UNCHANGED <<action, outcome, offered, ran>>
    BY <1>10 DEF ShellTimeout, ExitChild, LetGo
  <2>2. UNCHANGED phase \/ phase' = [phase EXCEPT ![t] = "drain"]
    BY <1>10 DEF ShellTimeout, ExitChild, LetGo
  <2>3. \E is \in {"gone", "held"} : Child(t, is)
    BY <1>10 DEF ShellTimeout, ExitChild, LetGo
  <2> QED BY <2>1, <2>2, <2>3 DEF GateTypeOK
<1>11. ASSUME NEW t \in Turns, GoOut(t) PROVE GateTypeOK'
  <2>1. UNCHANGED <<action, outcome, offered, child, ran>> BY <1>11 DEF GoOut
  <2>2. \E to \in {"file", "request"} : phase' = [phase EXCEPT ![t] = to]
    BY <1>11 DEF GoOut
  <2> QED BY <2>1, <2>2 DEF GateTypeOK
<1> QED BY <1>1, <1>2, <1>3, <1>4, <1>5, <1>6, <1>7, <1>8, <1>9, <1>10, <1>11 DEF GateStep

\* A step that does not bring a turn before a human or to its executor, and
\* starts no shell.
LEMMA CommandSame ==
    ASSUME CommandInv, UNCHANGED <<action, ran>>,
           \A t \in Turns : phase'[t] \in {"proposed", "run", "waiting"}
                                => \/ phase'[t] = phase[t]
                                   \/ phase[t] = "waiting" /\ phase'[t] = "run"
    PROVE  CommandInv'
BY DEF CommandInv, NothingBlockedRuns

LEMMA CommandKept ==
    ASSUME GateTypeOK, CommandInv, world \in Worlds, GateStep PROVE CommandInv'
<1> USE DEF Phase
<1>0. phase = [t \in Turns |-> phase[t]] /\ action = [t \in Turns |-> action[t]]
  BY DEF GateTypeOK
<1>1. ASSUME NEW t \in Turns, Reply(t) PROVE CommandInv'
  <2>1. PICK r \in world.replies :
          IF Parse(r) = None THEN Answered(t, "unparsed") /\ UNCHANGED action
          ELSE /\ action' = [action EXCEPT ![t] = Parse(r)]
               /\ Phase(t, "proposed")
               /\ UNCHANGED outcome
    BY <1>1 DEF Reply
  <2>2. UNCHANGED ran BY <1>1 DEF Reply
  <2>3. Parse(r) # None => Parse(r) \in Proposals BY DEF Proposals
  <2>4. CASE Parse(r) = None BY <1>0, <2>1, <2>2, <2>4, CommandSame DEF Answered
  <2>5. CASE Parse(r) # None
    <3>1. phase'[t] = "proposed" /\ action'[t] = Parse(r)
      BY <1>0, <2>1, <2>5
    <3>2. \A u \in Turns \ {t} : phase'[u] = phase[u] /\ action'[u] = action[u]
      BY <1>0, <2>1, <2>5
    <3>3. \A u \in Turns : phase'[u] = "proposed" => action'[u] \in Proposals
      BY <2>3, <2>5, <3>1, <3>2 DEF CommandInv
    <3>4. \A u \in Turns :
             phase'[u] \in {"run", "waiting"} /\ action'[u].type = "shell_exec"
                 => action'[u].command \notin Blocklisted
      BY <3>1, <3>2 DEF CommandInv
    <3> QED BY <2>2, <3>3, <3>4 DEF CommandInv, NothingBlockedRuns
  <2> QED BY <2>4, <2>5
<1>2. ASSUME NEW t \in Turns, Gate(t) PROVE CommandInv'
  <2> DEFINE a == Lift(action[t])
  <2>1. UNCHANGED ran /\ action' = [action EXCEPT ![t] = a] BY <1>2 DEF Gate
  <2>2. \/ phase' = [phase EXCEPT ![t] = "answered"]
        \/ /\ Evaluate(a) # "deny"
           /\ \E to \in {"run", "waiting"} : phase' = [phase EXCEPT ![t] = to]
    BY <1>2 DEF Gate, Answered
  <2>3. Evaluate(a) # "deny" /\ a.type = "shell_exec" => a.command \notin Blocklisted
    BY DEF Evaluate
  <2>4. action'[t] = a /\ \A u \in Turns \ {t} : action'[u] = action[u]
    BY <1>0, <2>1
  <2>5. phase'[t] # "proposed" /\ \A u \in Turns \ {t} : phase'[u] = phase[u]
    BY <1>0, <2>2
  <2>6. phase'[t] \in {"run", "waiting"} => Evaluate(a) # "deny"
    BY <1>0, <2>2
  <2> HIDE DEF a
  <2> QED BY <2>1, <2>3, <2>4, <2>5, <2>6 DEF CommandInv, NothingBlockedRuns
<1>3. ASSUME NEW t \in Turns, Spawn(t) PROVE CommandInv'
  <2>1. UNCHANGED action /\ phase[t] = "run" BY <1>3 DEF Spawn
  <2>2. \A u \in Turns : phase'[u] = phase[u] \/ phase'[u] \in {"answered", "communicate"}
    BY <1>0, <1>3 DEF Spawn, Answered
  <2>3. ran' \subseteq ran \cup (IF action[t].type = "shell_exec"
                                   THEN {action[t].command} ELSE {})
    BY <1>3 DEF Spawn
  <2> QED BY <2>1, <2>2, <2>3 DEF CommandInv, NothingBlockedRuns
<1>4. ASSUME NEW t \in Turns,
             \/ StartLoop(t) \/ Finish(t) \/ HandleKnowledge(t) \/ Decide(t)
             \/ Communicate(t) \/ ShellTimeout(t) \/ Drain(t) \/ GoOut(t)
             \/ FileReturns(t) \/ Response(t) \/ CallTool(t) \/ ToolReturns(t)
             \/ ExitChild(t) \/ LetGo(t)
      PROVE  CommandInv'
  <2>1. UNCHANGED <<action, ran>>
    BY <1>4 DEF StartLoop, Finish, HandleKnowledge, Decide, Communicate, ShellTimeout,
                Drain, GoOut, FileReturns, Response, Back, CallTool, ToolReturns,
                ExitChild, LetGo
  <2>2. \/ UNCHANGED phase
        \/ \E to \in {"reply", "done", "answered", "drain", "file", "request", "tool"} :
              phase' = [phase EXCEPT ![t] = to]
        \/ phase[t] = "waiting" /\ phase' = [phase EXCEPT ![t] = "run"]
    BY <1>4 DEF StartLoop, Finish, HandleKnowledge, Decide, Communicate, ShellTimeout,
                Drain, GoOut, FileReturns, Response, Back, CallTool, ToolReturns,
                ExitChild, LetGo, Answered
  <2>3. \A u \in Turns : phase'[u] \in {"proposed", "run", "waiting"}
                            => \/ phase'[u] = phase[u]
                               \/ phase[u] = "waiting" /\ phase'[u] = "run"
    BY <1>0, <2>2
  <2> QED BY <2>1, <2>3, CommandSame
<1> QED BY <1>1, <1>2, <1>3, <1>4 DEF GateStep

LEMMA GateNext ==
    ASSUME GateTypeOK, CommandInv, world \in Worlds, [Next]_vars
    PROVE  GateTypeOK' /\ CommandInv'
<1>1. CASE UNCHANGED gate
  BY <1>1 DEF gate, GateTypeOK, CommandInv, NothingBlockedRuns
<1> QED BY <1>1, GateSees, GateTypes, CommandKept

-----------------------------------------------------------------------------
(* The operators that build_prompt is made of.                               *)

LEMMA Numbers ==
    /\ DEFAULT_TOKEN_BUDGET \in Nat /\ EntryTokens \in Nat /\ MemoryTokens \in Nat
    /\ RefTokens \in Nat /\ UserTokens \in Nat /\ ReplyTokens \in Nat
    /\ RecallLimit \in Nat /\ RecentLimit \in Nat
    /\ IsFiniteSet(Keys) /\ IsFiniteSet(Memories) /\ Values # {} /\ None \notin Values
BY ContextAssumption DEF ContextAssumption

LEMMA JobNumbers ==
    ASSUME world \in Worlds, NEW j \in world.jobs
    PROVE  /\ Budget(j) \in Nat /\ SystemTokens[j.reactive] \in Nat
           /\ j.prompt \in Nat /\ j.refs \in Nat
BY Numbers, ContextAssumption, JobAssumption
   DEF ContextAssumption, JobAssumption, Budget

LEMMA LargestExists ==
    ASSUME NEW N \in Nat, NEW S \in SUBSET (0 .. N), S # {}
    PROVE  Max(S) \in S
<1> DEFINE T == {N - n : n \in S}
<1>1. T \subseteq Nat /\ T # {}
  <2>1. \A n \in S : n \in Nat /\ n <= N OBVIOUS
  <2>2. \A n \in S : N - n \in Nat BY <2>1
  <2> QED BY <2>2
<1>2. PICK m \in T : \A n \in T : <<n, m>> \notin OpToRel(<, Nat)
  BY <1>1, NatLessThanWellFounded, WFMin
<1>3. PICK k \in S : m = N - k OBVIOUS
<1>4. \A n \in S : k >= n
  <2> SUFFICES ASSUME NEW n \in S, k < n PROVE FALSE
    OBVIOUS
  <2>1. N - n \in T /\ N - n \in Nat /\ m \in Nat /\ N - n < m BY <1>3
  <2>2. <<N - n, m>> \in Nat \X Nat /\ <<N - n, m>>[1] < <<N - n, m>>[2]
    BY <2>1
  <2>3. <<N - n, m>> \in OpToRel(<, Nat)
    BY <2>2 DEF OpToRel
  <2> QED BY <1>2, <2>1, <2>3
<1>5. \E x \in S : \A n \in S : x >= n
  BY <1>4
<1> QED BY <1>5 DEF Max

LEMMA TokensAre ==
    ASSUME NEW turns \in Seq(Turn)
    PROVE  Tokens(turns) \in Nat /\ (turns = <<>> => Tokens(turns) = 0)
<1> DEFINE Of(role) == {i \in DOMAIN turns : turns[i].role = role}
<1>1. \A role : Of(role) \subseteq 1 .. Len(turns)
  OBVIOUS
<1>2. \A role : IsFiniteSet(Of(role)) /\ Cardinality(Of(role)) \in Nat
  <2>1. IsFiniteSet(1 .. Len(turns)) BY FS_Interval
  <2> HIDE DEF Of
  <2>2. \A role : IsFiniteSet(Of(role)) BY <1>1, <2>1, FS_Subset
  <2> QED BY <2>2, FS_CardinalityType
<1>3. turns = <<>> => \A role : Of(role) = {}
  OBVIOUS
<1>4. turns = <<>> => \A role : Cardinality(Of(role)) = 0
  BY <1>3, FS_EmptySet
<1>5. Tokens(turns) = UserTokens * Cardinality(Of("user"))
                      + ReplyTokens * Cardinality(Of("assistant"))
  BY DEF Tokens
<1> HIDE DEF Of
<1>6. /\ UserTokens * Cardinality(Of("user")) \in Nat
      /\ ReplyTokens * Cardinality(Of("assistant")) \in Nat
  BY <1>2, Numbers
<1> QED BY <1>4, <1>5, <1>6, Numbers

LEMMA LastAre ==
    ASSUME NEW s \in Seq(Turn), NEW n \in 0 .. Len(s)
    PROVE  LastOf(n, s) \in Seq(Turn) /\ (n = 0 => LastOf(n, s) = <<>>)
BY DEF LastOf

\* The transcript section takes at most 30% of the budget, whatever there is.
LEMMA RecentFits ==
    ASSUME StoresTypeOK, NEW j \in world.jobs
    PROVE  /\ Recent(j) \in Seq(Turn) /\ Tokens(Recent(j)) \in Nat
           /\ 100 * Tokens(Recent(j)) <= 30 * Budget(j)
<1> DEFINE all == transcript[<<j.agent, j.scope>>]
           room == {n \in 0 .. Len(all) :
                       /\ n <= RecentLimit
                       /\ Tokens(LastOf(n, all)) <= (30 * Budget(j)) \div 100}
<1>1. all \in Seq(Turn) BY DEF StoresTypeOK, Conversations
<1>2. Budget(j) \in Nat BY JobNumbers DEF StoresTypeOK
<1>3. /\ (30 * Budget(j)) \div 100 \in Nat
      /\ 100 * ((30 * Budget(j)) \div 100) <= 30 * Budget(j)
  BY <1>2
<1> HIDE DEF all
<1>4. Len(all) \in Nat /\ 0 \in 0 .. Len(all) BY <1>1
<1>5. Tokens(LastOf(0, all)) = 0 BY <1>1, <1>4, LastAre, TokensAre
<1>6. 0 \in room BY <1>3, <1>4, <1>5, Numbers
<1>7. Max(room) \in room BY <1>4, <1>6, LargestExists
<1> DEFINE n == Max(room)
<1>8. Recent(j) = LastOf(n, all) BY DEF Recent, all
<1> HIDE DEF n
<1>9. n \in 0 .. Len(all) /\ Tokens(LastOf(n, all)) <= (30 * Budget(j)) \div 100
  BY <1>7 DEF n
<1>10. LastOf(n, all) \in Seq(Turn) /\ Tokens(LastOf(n, all)) \in Nat
  BY <1>1, <1>9, LastAre, TokensAre
<1> QED BY <1>2, <1>3, <1>8, <1>9, <1>10

LEMMA ScannedAre ==
    ASSUME NEW j
    PROVE  /\ ScannedPrefixes(j) \in Seq(ToSet(ScannedPrefixes(j)))
           /\ ScannedPrefixes(j) # <<>>
<1>1. ASSUME NEW a, NEW b, NEW c, NEW d
      PROVE  /\ <<a>> \o <<>> \o <<c, d>> \in Seq({a, b, c, d}) \ {<<>>}
             /\ <<a>> \o <<b>> \o <<c, d>> \in Seq({a, b, c, d}) \ {<<>>}
  OBVIOUS
<1> DEFINE S == {<<"system">>, <<Head(j.topic)>>, <<"agent", j.agent>>, <<"user">>}
<1>2. ASSUME Head(j.topic) = "system"
      PROVE  ScannedPrefixes(j) \in Seq(S) \ {<<>>}
  <2>1. ScannedPrefixes(j) = <<<<"system">>>> \o <<>> \o <<<<"agent", j.agent>>, <<"user">>>>
    BY <1>2 DEF ScannedPrefixes
  <2> QED BY <1>1, <2>1
<1>3. ASSUME Head(j.topic) # "system"
      PROVE  ScannedPrefixes(j) \in Seq(S) \ {<<>>}
  <2>1. ScannedPrefixes(j) = <<<<"system">>>> \o <<<<Head(j.topic)>>>>
                                \o <<<<"agent", j.agent>>, <<"user">>>>
    BY <1>3 DEF ScannedPrefixes
  <2> QED BY <1>1, <2>1
<1>4. ScannedPrefixes(j) \in Seq(S) \ {<<>>}
  BY <1>2, <1>3
<1> HIDE DEF S
<1>5. ScannedPrefixes(j) \in Seq(ToSet(ScannedPrefixes(j)))
  BY <1>4 DEF ToSet
<1> QED BY <1>4, <1>5

LEMMA ScanIs ==
    ASSUME StoresTypeOK, NEW prefix
    PROVE  /\ Scan(prefix) \subseteq Keys \X Values
           /\ \A e \in Scan(prefix) : e[2] = knowledge[e[1]]
           /\ \A k \in Keys : knowledge[k] # None /\ IsStrictPrefix(prefix, k)
                                 => <<k, knowledge[k]>> \in Scan(prefix)
BY DEF Scan, StoresTypeOK

LEMMA ParsedKnowledge ==
    ASSUME NEW a \in {NoAction} \cup Parsed, a.type = "set_knowledge"
    PROVE  a.key \in Keys /\ a.value \in Values
<1>1. a # NoAction BY DEF NoAction
<1>2. CASE a \in Proposals BY <1>2, ProposalAssumption DEF ProposalAssumption
<1>3. ASSUME NEW b \in Proposals, a = Lift(b) PROVE a.key \in Keys /\ a.value \in Values
  <2>1. CASE b.nested = None
    BY <1>3, <2>1, ProposalAssumption DEF ProposalAssumption, Lift
  <2>2. CASE b.nested # None
    <3>1. a.type = b.type
      BY <1>3, <2>2, ProposalAssumption DEF ProposalAssumption, Lift
    <3>2. {"key", "value"} \subseteq DOMAIN b /\ b.key \in Keys /\ b.value \in Values
      BY <3>1, ProposalAssumption DEF ProposalAssumption
    <3>3. a.key = b.key /\ a.value = b.value
      BY <1>3, <2>2, <3>2 DEF Lift
    <3> QED BY <3>2, <3>3
  <2> QED BY <2>1, <2>2
<1> QED BY <1>1, <1>2, <1>3 DEF Parsed

-----------------------------------------------------------------------------
(* The stores and the prompts.                                              *)

\* What no step of a prompt or of the API changes.
LEMMA SameWorld ==
    ASSUME ContextStep
    PROVE  world' = world
BY DEF ContextStep, BuildPrompt, Pin, ScanPrefix, Search, Touch, Remember, StartLoop,
       HandleKnowledge, Finish, Api, EditKnowledge, EditMemories, ClearTranscript, stores

LEMMA AppendTypes ==
    ASSUME StoresTypeOK, NEW t \in Turns, NEW role \in {"user", "assistant"},
           AppendTurn(t, role)
    PROVE  transcript' \in [Conversations -> Seq(Turn)]
<1> DEFINE c == <<job[t].agent, job[t].scope>>
           turn == [role |-> role, of |-> t]
<1>1. turn \in Turn BY DEF Turn
<1>2. transcript' = [transcript EXCEPT ![c] = Append(transcript[c], turn)]
  BY DEF AppendTurn
<1>3. transcript \in [Conversations -> Seq(Turn)] BY DEF StoresTypeOK
<1>4. CASE c \in Conversations
  <2>1. Append(transcript[c], turn) \in Seq(Turn) BY <1>1, <1>3, <1>4
  <2> HIDE DEF c, turn
  <2> QED BY <1>2, <1>3, <2>1
<1>5. CASE c \notin Conversations
  <2> HIDE DEF c, turn
  <2> QED BY <1>2, <1>3, <1>5
<1> QED BY <1>4, <1>5

LEMMA StoresTypes ==
    ASSUME StoresTypeOK, GateTypeOK, ContextStep PROVE StoresTypeOK'
<1>0. world' = world /\ Conversations' = Conversations
  BY SameWorld DEF Conversations
<1> USE DEF stores
<1>1. ASSUME NEW t \in Turns, Pin(t) \/ ScanPrefix(t) \/ Search(t) \/ Remember(t)
      PROVE  StoresTypeOK'
  <2>1. UNCHANGED stores BY <1>1 DEF Pin, ScanPrefix, Search, Remember
  <2> QED BY <1>0, <2>1 DEF StoresTypeOK
<1>2. ASSUME NEW t \in Turns, Touch(t) PROVE StoresTypeOK'
  <2>1. access_count' \in [Memories -> Nat]
    BY <1>2 DEF Touch, TouchRows, StoresTypeOK
  <2>2. UNCHANGED <<knowledge, memories, unborn, expired, transcript, edits>>
    BY <1>2 DEF Touch
  <2> QED BY <1>0, <2>1, <2>2 DEF StoresTypeOK
<1>3. ASSUME NEW t \in Turns, StartLoop(t) \/ Finish(t) PROVE StoresTypeOK'
  <2>1. UNCHANGED <<knowledge, memories, unborn, expired, access_count, edits>>
    BY <1>3 DEF StartLoop, Finish
  <2>2. UNCHANGED transcript \/ AppendTurn(t, "user") \/ AppendTurn(t, "assistant")
    BY <1>3 DEF StartLoop, Finish
  <2>3. transcript' \in [Conversations -> Seq(Turn)]
    BY <2>2, AppendTypes DEF StoresTypeOK
  <2> QED BY <1>0, <2>1, <2>3 DEF StoresTypeOK
<1>4. ASSUME NEW t \in Turns, HandleKnowledge(t) PROVE StoresTypeOK'
  <2>1. UNCHANGED <<memories, unborn, expired, access_count, transcript, edits>>
    BY <1>4 DEF HandleKnowledge
  <2>2. CASE UNCHANGED knowledge BY <1>0, <2>1, <2>2 DEF StoresTypeOK
  <2>3. CASE /\ action[t].type = "set_knowledge"
             /\ knowledge' = [knowledge EXCEPT ![action[t].key] = action[t].value]
    <3>1. action[t].value \in Values
      BY <2>3, ParsedKnowledge DEF GateTypeOK
    <3>2. knowledge' \in [Keys -> Values \cup {None}]
      BY <2>3, <3>1 DEF StoresTypeOK
    <3> QED BY <1>0, <2>1, <3>2 DEF StoresTypeOK
  <2> QED BY <1>4, <2>2, <2>3 DEF HandleKnowledge, SetKnowledge
<1>5. CASE EditKnowledge
  <2>1. UNCHANGED <<memories, unborn, expired, access_count, transcript>>
    BY <1>5 DEF EditKnowledge
  <2>2. edits' \in Nat BY <1>5 DEF EditKnowledge, Edit, StoresTypeOK
  <2>3. PICK k \in Keys, v \in Values \cup {None} : knowledge' = [knowledge EXCEPT ![k] = v]
    BY <1>5 DEF EditKnowledge, SetKnowledge
  <2>4. knowledge' \in [Keys -> Values \cup {None}]
    BY <2>3 DEF StoresTypeOK
  <2> QED BY <1>0, <2>1, <2>2, <2>4 DEF StoresTypeOK
<1>6. CASE EditMemories
  <2>1. UNCHANGED <<knowledge, access_count, transcript>> BY <1>6 DEF EditMemories
  <2>2. edits' \in Nat BY <1>6 DEF EditMemories, Edit, StoresTypeOK
  <2>3. memories' \subseteq Memories /\ unborn' \subseteq Memories /\ expired' \subseteq Memories
    BY <1>6 DEF EditMemories, StoresTypeOK
  <2> QED BY <1>0, <2>1, <2>2, <2>3 DEF StoresTypeOK
<1>7. CASE ClearTranscript
  <2>1. UNCHANGED <<knowledge, memories, unborn, expired, access_count>>
    BY <1>7 DEF ClearTranscript
  <2>2. edits' \in Nat BY <1>7 DEF ClearTranscript, Edit, StoresTypeOK
  <2>3. transcript' \in [Conversations -> Seq(Turn)]
    BY <1>7 DEF ClearTranscript, StoresTypeOK
  <2> QED BY <1>0, <2>1, <2>2, <2>3 DEF StoresTypeOK
<1> QED BY <1>1, <1>2, <1>3, <1>4, <1>5, <1>6, <1>7 DEF ContextStep, BuildPrompt, Api

LEMMA HeadAndTail ==
    ASSUME NEW S, NEW s \in Seq(S), s # <<>>
    PROVE  /\ Head(s) \in S /\ Tail(s) \in Seq(S)
           /\ Len(s) > 1 <=> Tail(s) # <<>>
           /\ ToSet(s) = ToSet(Tail(s)) \cup {Head(s)}
<1>1. /\ Head(s) \in S /\ Tail(s) \in Seq(S)
      /\ Len(Tail(s)) = Len(s) - 1 /\ Len(s) \in Nat /\ Len(s) >= 1
  OBVIOUS
<1>2. Len(s) > 1 <=> Tail(s) # <<>>
  <2>1. ASSUME NEW u \in Seq(S) PROVE Len(u) = 0 <=> u = <<>>
    OBVIOUS
  <2>2. Len(Tail(s)) = 0 <=> Tail(s) = <<>> BY <1>1, <2>1
  <2> QED BY <1>1, <2>2
<1>3. \A i \in DOMAIN Tail(s) : i + 1 \in DOMAIN s /\ Tail(s)[i] = s[i + 1]
  OBVIOUS
<1>4. \A i \in DOMAIN s : i = 1 \/ (i - 1 \in DOMAIN Tail(s) /\ Tail(s)[i - 1] = s[i])
  OBVIOUS
<1>5. 1 \in DOMAIN s /\ Head(s) = s[1]
  OBVIOUS
<1>6. ASSUME NEW i \in DOMAIN s PROVE s[i] \in ToSet(Tail(s)) \cup {Head(s)}
  BY <1>4, <1>5 DEF ToSet
<1>7. ASSUME NEW i \in DOMAIN Tail(s) PROVE Tail(s)[i] \in ToSet(s)
  BY <1>3 DEF ToSet
<1>8. Head(s) \in ToSet(s)
  BY <1>5 DEF ToSet
<1>9. ToSet(s) = ToSet(Tail(s)) \cup {Head(s)}
  <2>1. ToSet(s) \subseteq ToSet(Tail(s)) \cup {Head(s)} BY <1>6 DEF ToSet
  <2>2. ToSet(Tail(s)) \subseteq ToSet(s) BY <1>7 DEF ToSet
  <2> QED BY <1>8, <2>1, <2>2
<1> QED BY <1>1, <1>2, <1>9

\* What the scan of one more prefix makes of the list.
LEMMA AddedAre ==
    ASSUME StoresTypeOK, PromptTypeOK, NEW t \in Turns, Listed(t), NEW prefix
    PROVE  LET new == AddScan(t, Scan(prefix))
           IN  /\ new \subseteq Keys \X Values /\ known[t] \subseteq new
               /\ \A e, f \in new : e[1] = f[1] => e = f
               /\ \A e \in new : e[1] \in kept[t] => e[2] = knowledge[e[1]]
               /\ \A k \in kept[t] : knowledge[k] # None /\ IsStrictPrefix(prefix, k)
                                        => <<k, knowledge[k]>> \in new
               /\ EntryTokens * Cardinality(new) \in Nat
<1> DEFINE new == AddScan(t, Scan(prefix))
<1>1. /\ known[t] \subseteq Keys \X Values /\ kept[t] \subseteq Keys
      /\ Scan(prefix) \subseteq Keys \X Values
      /\ \A e \in Scan(prefix) : e[2] = knowledge[e[1]]
      /\ \A k \in Keys : knowledge[k] # None /\ IsStrictPrefix(prefix, k)
                            => <<k, knowledge[k]>> \in Scan(prefix)
  BY ScanIs DEF PromptTypeOK
<1>2. new = known[t] \cup {e \in Scan(prefix) : \A f \in known[t] : f[1] # e[1]}
  BY DEF AddScan
<1> HIDE DEF new
<1>3. new \subseteq Keys \X Values /\ known[t] \subseteq new
  BY <1>1, <1>2
<1>4. \A e \in Keys \X Values : e = <<e[1], e[2]>> /\ e[1] \in Keys
  OBVIOUS
<1>5. \A e \in new : e \in known[t] \/ (e \in Scan(prefix) /\ e[2] = knowledge[e[1]])
  BY <1>1, <1>2
<1>6. \A e, f \in known[t] : e[1] = f[1] => e = f
  BY DEF Listed
<1>7. \A e, f \in Scan(prefix) : e[1] = f[1] => e = f
  <2> SUFFICES ASSUME NEW e \in Scan(prefix), NEW f \in Scan(prefix), e[1] = f[1]
               PROVE  e = f
    OBVIOUS
  <2>1. e[2] = f[2] BY <1>1
  <2>2. e = <<e[1], e[2]>> /\ f = <<f[1], f[2]>> BY <1>1, <1>4
  <2> QED BY <2>1, <2>2
<1>8. \A e, f \in new : e[1] = f[1] => e = f
  BY <1>2, <1>6, <1>7
<1>9. \A e \in new : e[1] \in kept[t] => e[2] = knowledge[e[1]]
  BY <1>5 DEF Listed
<1>10. ASSUME NEW k \in kept[t], knowledge[k] # None, IsStrictPrefix(prefix, k)
       PROVE  <<k, knowledge[k]>> \in new
  <2>1. <<k, knowledge[k]>> \in Scan(prefix) BY <1>1, <1>10
  <2>2. CASE \A f \in known[t] : f[1] # k BY <1>2, <2>1, <2>2
  <2>3. ASSUME NEW f \in known[t], f[1] = k PROVE <<k, knowledge[k]>> \in new
    <3>1. f[2] = knowledge[k] BY <2>3 DEF Listed
    <3>2. f = <<k, knowledge[k]>> BY <1>1, <1>4, <2>3, <3>1
    <3> QED BY <1>3, <3>2
  <2> QED BY <2>2, <2>3
<1>11. EntryTokens * Cardinality(new) \in Nat
  <2> DEFINE f == [e \in new |-> e[1]]
  <2>1. f \in Injection(new, Keys)
    BY <1>3, <1>4, <1>8 DEF Injection, IsInjective
  <2>2. IsFiniteSet(new) BY <2>1, Numbers, FS_Injection
  <2>3. Cardinality(new) \in Nat BY <2>2, FS_CardinalityType
  <2> QED BY <2>3, Numbers
<1> QED BY <1>3, <1>8, <1>9, <1>10, <1>11 DEF new

\* Where one turn is with its prompt, and what it has made of it.
Own(t) == <<job[t], step[t], left[t], known[t], recalled[t], recent[t], sections[t],
            used_tokens[t]>>

LEMMA OthersPrompts ==
    ASSUME PromptTypeOK, NEW t \in Turns, BuildPrompt(t), NEW u \in Turns \ {t}
    PROVE  Own(u)' = Own(u) /\ kept'[u] = kept[u]
<1> USE DEF stores, Goes, Section
<1>1. job'[u] = job[u] /\ kept'[u] = kept[u]
  BY DEF PromptTypeOK, BuildPrompt, Pin, ScanPrefix, Search, Touch, Remember, prompt
<1>2. step'[u] = step[u]
  BY DEF PromptTypeOK, BuildPrompt, Pin, ScanPrefix, Search, Touch, Remember, prompt
<1>3. left'[u] = left[u] /\ known'[u] = known[u]
  BY DEF PromptTypeOK, BuildPrompt, Pin, ScanPrefix, Search, Touch, Remember, prompt
<1>4. recalled'[u] = recalled[u] /\ recent'[u] = recent[u]
  BY DEF PromptTypeOK, BuildPrompt, Pin, ScanPrefix, Search, Touch, Remember, prompt
<1>5. sections'[u] = sections[u]
  BY DEF PromptTypeOK, BuildPrompt, Pin, ScanPrefix, Search, Touch, Remember, prompt
<1>6. used_tokens'[u] = used_tokens[u]
  BY DEF PromptTypeOK, BuildPrompt, Pin, ScanPrefix, Search, Touch, Remember, prompt
<1> QED BY <1>1, <1>2, <1>3, <1>4, <1>5, <1>6 DEF Own

\* A turn keeps its invariant while others build, and while knowledge is edited:
\* an edited key is not kept.
LEMMA OwnKept ==
    ASSUME NEW t \in Turns, PromptInv(t), world' = world, Own(t)' = Own(t),
           kept'[t] \subseteq kept[t], \A k \in kept'[t] : knowledge'[k] = knowledge[k]
    PROVE  PromptInv(t)'
<1>1. /\ job'[t] = job[t] /\ step'[t] = step[t] /\ left'[t] = left[t]
      /\ known'[t] = known[t] /\ sections'[t] = sections[t]
      /\ used_tokens'[t] = used_tokens[t]
  BY DEF Own
<1>2. Scanning(t)' BY <1>1 DEF PromptInv, Scanning
<1>3. Listed(t)'
  <2>1. ScannedPrefixes(job[t])' = ScannedPrefixes(job[t]) BY <1>1 DEF ScannedPrefixes
  <2>2. ToSet(left[t])' = ToSet(left[t]) BY <1>1 DEF ToSet
  <2> QED BY <1>1, <2>1, <2>2 DEF PromptInv, Listed
<1>4. Ahead(t)' BY <1>1 DEF PromptInv, Ahead, Budget
<1>5. HasRoom(t)' BY <1>1 DEF PromptInv, HasRoom, Budget
<1> QED BY <1>2, <1>3, <1>4, <1>5 DEF PromptInv

LEMMA PinKeeps ==
    ASSUME StoresTypeOK, PromptTypeOK, NEW t \in Turns, PromptInv(t), Pin(t)
    PROVE  PromptTypeOK' /\ PromptInv(t)'
<1>1. PICK j \in world.jobs :
         /\ job' = [job EXCEPT ![t] = j]
         /\ left' = [left EXCEPT ![t] = ScannedPrefixes(j)]
         /\ used_tokens' = [used_tokens EXCEPT ![t] = SystemTokens[j.reactive] + j.prompt]
  BY DEF Pin
<1>2. /\ step' = [step EXCEPT ![t] = "scan"] /\ kept' = [kept EXCEPT ![t] = Keys]
      /\ UNCHANGED <<world, knowledge, known, recalled, recent, sections>>
      /\ step[t] = "new"
  BY DEF Pin, Goes, stores
<1>3. ScannedPrefixes(j) \in Seq(Scannable) /\ ScannedPrefixes(j) # <<>>
  <2>1. ToSet(ScannedPrefixes(j)) \subseteq Scannable BY DEF Scannable
  <2> QED BY <2>1, ScannedAre
<1>4. Scannable' = Scannable BY <1>2 DEF Scannable, ScannedPrefixes
<1>5. SystemTokens[j.reactive] + j.prompt \in Nat
  BY JobNumbers DEF StoresTypeOK
<1>6. PromptTypeOK'
  <2>1. job' \in [Turns -> world.jobs \cup {None}] BY <1>1 DEF PromptTypeOK
  <2>2. left' \in [Turns -> Seq(Scannable)] BY <1>1, <1>3 DEF PromptTypeOK
  <2>3. used_tokens' \in [Turns -> Nat] BY <1>1, <1>5 DEF PromptTypeOK
  <2>4. kept' \in [Turns -> SUBSET Keys] BY <1>2 DEF PromptTypeOK
  <2>5. step' \in [Turns -> {"new", "scan", "search", "touch", "recent", "built"}]
    BY <1>2 DEF PromptTypeOK
  <2> QED BY <1>2, <1>4, <2>1, <2>2, <2>3, <2>4, <2>5 DEF PromptTypeOK
<1>7. /\ job'[t] = j /\ left'[t] = ScannedPrefixes(j) /\ step'[t] = "scan"
      /\ used_tokens'[t] = SystemTokens[j.reactive] + j.prompt
      /\ known'[t] = {} /\ sections'[t] = {}
  BY <1>1, <1>2 DEF PromptTypeOK, PromptInv, Scanning
<1>8. Scanning(t)' BY <1>2, <1>3, <1>7 DEF Scanning
<1>9. Listed(t)'
  <2>1. \A p : p \in ToSet(ScannedPrefixes(job[t]))' => p \in ToSet(left[t])'
    BY <1>7 DEF ToSet, ScannedPrefixes
  <2> QED BY <1>7, <2>1 DEF Listed
<1>10. Ahead(t)' BY <1>5, <1>7 DEF Ahead
<1>11. HasRoom(t)' BY <1>7 DEF HasRoom
<1> QED BY <1>6, <1>8, <1>9, <1>10, <1>11 DEF PromptInv

LEMMA ScanKeeps ==
    ASSUME StoresTypeOK, PromptTypeOK, NEW t \in Turns, PromptInv(t), ScanPrefix(t)
    PROVE  PromptTypeOK' /\ PromptInv(t)'
<1> DEFINE prefix == Head(left[t])
           new == AddScan(t, Scan(prefix))
           tokens == EntryTokens * Cardinality(new)
<1>1. /\ step[t] = "scan" /\ left[t] # <<>> /\ job[t] \in world.jobs /\ sections[t] = {}
      /\ left[t] \in Seq(Scannable)
  BY DEF ScanPrefix, PromptInv, Scanning, PromptTypeOK
<1>2. /\ left' = [left EXCEPT ![t] = Tail(left[t])]
      /\ known' = [known EXCEPT ![t] = new]
      /\ UNCHANGED <<world, knowledge, job, recalled, recent, kept>>
  BY DEF ScanPrefix, stores
<1>3. \/ Len(left[t]) > 1 /\ UNCHANGED <<step, sections, used_tokens>>
      \/ /\ ~ Len(left[t]) > 1 /\ step' = [step EXCEPT ![t] = "search"]
         /\ \/ UNCHANGED <<sections, used_tokens>>
            \/ /\ Fits(t, used_tokens[t], tokens, 20)
               /\ sections' = [sections EXCEPT ![t] = sections[t] \cup {"knowledge"}]
               /\ used_tokens' = [used_tokens EXCEPT ![t] = used_tokens[t] + tokens]
  BY DEF ScanPrefix, Goes, Section
<1>4. /\ Tail(left[t]) \in Seq(Scannable)
      /\ Len(left[t]) > 1 <=> Tail(left[t]) # <<>>
      /\ ToSet(left[t]) = ToSet(Tail(left[t])) \cup {prefix}
  BY <1>1, HeadAndTail
<1>5. /\ new \subseteq Keys \X Values /\ known[t] \subseteq new
      /\ \A e, f \in new : e[1] = f[1] => e = f
      /\ \A e \in new : e[1] \in kept[t] => e[2] = knowledge[e[1]]
      /\ \A k \in kept[t] : knowledge[k] # None /\ IsStrictPrefix(prefix, k)
                               => <<k, knowledge[k]>> \in new
      /\ tokens \in Nat
  BY AddedAre DEF PromptInv
<1> HIDE DEF prefix, new, tokens
<1>6. Scannable' = Scannable BY <1>2 DEF Scannable, ScannedPrefixes
<1>7. PromptTypeOK'
  <2>1. left' \in [Turns -> Seq(Scannable)] BY <1>2, <1>4 DEF PromptTypeOK
  <2>2. known' \in [Turns -> SUBSET (Keys \X Values)] BY <1>2, <1>5 DEF PromptTypeOK
  <2>3. step' \in [Turns -> {"new", "scan", "search", "touch", "recent", "built"}]
    <3>1. step \in [Turns -> {"new", "scan", "search", "touch", "recent", "built"}]
      BY DEF PromptTypeOK
    <3> QED BY <1>3, <3>1
  <2>4. sections' \in [Turns -> SUBSET {"knowledge", "recalled", "related"}]
    <3> DEFINE S == {"knowledge", "recalled", "related"}
    <3>1. sections \in [Turns -> SUBSET S] /\ sections[t] \cup {"knowledge"} \in SUBSET S
      BY DEF PromptTypeOK
    <3> HIDE DEF S
    <3>2. sections' \in [Turns -> SUBSET S] BY <1>3, <3>1
    <3> QED BY <3>2 DEF S
  <2>5. used_tokens' \in [Turns -> Nat]
    <3>1. used_tokens \in [Turns -> Nat] BY DEF PromptTypeOK
    <3>2. used_tokens[t] + tokens \in Nat BY <1>5, <3>1
    <3> QED BY <1>3, <3>1, <3>2
  <2> QED BY <1>2, <1>6, <2>1, <2>2, <2>3, <2>4, <2>5 DEF PromptTypeOK
<1>8. left'[t] = Tail(left[t]) /\ known'[t] = new /\ job'[t] = job[t] /\ kept'[t] = kept[t]
  BY <1>2 DEF PromptTypeOK
<1>9. IF Len(left[t]) > 1 THEN step'[t] = "scan" /\ sections'[t] = {}
                          ELSE step'[t] = "search"
  BY <1>1, <1>3 DEF PromptTypeOK
<1>10. Scanning(t)' BY <1>1, <1>2, <1>4, <1>8, <1>9 DEF Scanning
<1>11. Listed(t)'
  <2>1. ScannedPrefixes(job[t])' = ScannedPrefixes(job[t]) BY <1>8 DEF ScannedPrefixes
  <2>2. ToSet(left[t])' = ToSet(Tail(left[t])) BY <1>8 DEF ToSet
  <2>3. ASSUME NEW k \in kept[t], NEW p \in ToSet(ScannedPrefixes(job[t])),
               p \notin ToSet(Tail(left[t])), knowledge[k] # None, IsStrictPrefix(p, k)
        PROVE  <<k, knowledge[k]>> \in new
    <3>1. CASE p = prefix BY <1>5, <2>3, <3>1
    <3>2. CASE p # prefix
      <4>1. p \in ToSet(ScannedPrefixes(job[t])) \ ToSet(left[t])
        BY <1>4, <2>3, <3>2
      <4>2. <<k, knowledge[k]>> \in known[t]
        BY <1>1, <2>3, <4>1 DEF PromptInv, Listed
      <4> QED BY <1>5, <4>2
    <3> QED BY <3>1, <3>2
  <2> QED BY <1>2, <1>5, <1>8, <2>1, <2>2, <2>3 DEF Listed
<1>12. Ahead(t)'
  <2>1. \/ used_tokens'[t] = used_tokens[t]
        \/ 100 * used_tokens'[t] <= 20 * Budget(job[t])
    <3>1. used_tokens[t] \in Nat /\ Budget(job[t]) \in Nat
      BY <1>1, JobNumbers DEF PromptTypeOK, StoresTypeOK
    <3>2. Fits(t, used_tokens[t], tokens, 20) =>
             100 * (used_tokens[t] + tokens) <= 20 * Budget(job[t])
      BY <1>5, <3>1 DEF Fits
    <3> QED BY <1>3, <3>2 DEF PromptTypeOK
  <2> QED BY <1>1, <1>8, <2>1 DEF PromptInv, Ahead, Budget
<1>13. HasRoom(t)' BY <1>9 DEF HasRoom
<1> QED BY <1>7, <1>10, <1>11, <1>12, <1>13 DEF PromptInv

LEMMA SearchKeeps ==
    ASSUME StoresTypeOK, PromptTypeOK, NEW t \in Turns, PromptInv(t), Search(t)
    PROVE  PromptTypeOK' /\ PromptInv(t)'
<1>1. step[t] = "search" /\ job[t] \in world.jobs /\ left[t] = <<>>
  BY DEF Search, PromptInv, Scanning
<1>2. UNCHANGED <<world, knowledge, job, left, known, recent, kept>>
  BY DEF Search, stores
<1>3. PICK best \in Best(Hits(job[t])) :
         LET tokens == MemoryTokens * Cardinality(best)
         IN  \/ /\ Fits(t, used_tokens[t], tokens, 12)
                /\ sections' = [sections EXCEPT ![t] = sections[t] \cup {"recalled"}]
                /\ used_tokens' = [used_tokens EXCEPT ![t] = used_tokens[t] + tokens]
                /\ recalled' = [recalled EXCEPT ![t] = best]
                /\ step' = [step EXCEPT ![t] = "touch"]
             \/ /\ UNCHANGED <<sections, used_tokens, recalled>>
                /\ step' = [step EXCEPT ![t] = "recent"]
  BY DEF Search, Section, Goes
<1> DEFINE tokens == MemoryTokens * Cardinality(best)
<1>4. best \subseteq Memories
  BY DEF Best, Hits, StoresTypeOK
<1>5. tokens \in Nat
  <2>1. Cardinality(best) \in Nat BY <1>4, Numbers, FS_Subset, FS_CardinalityType
  <2> QED BY <2>1, Numbers
<1> HIDE DEF tokens
<1>6. \/ /\ Fits(t, used_tokens[t], tokens, 12)
         /\ sections' = [sections EXCEPT ![t] = sections[t] \cup {"recalled"}]
         /\ used_tokens' = [used_tokens EXCEPT ![t] = used_tokens[t] + tokens]
         /\ recalled' = [recalled EXCEPT ![t] = best]
         /\ step' = [step EXCEPT ![t] = "touch"]
      \/ /\ UNCHANGED <<sections, used_tokens, recalled>>
         /\ step' = [step EXCEPT ![t] = "recent"]
  BY <1>3 DEF tokens
<1>7. Scannable' = Scannable BY <1>2 DEF Scannable, ScannedPrefixes
<1>8. PromptTypeOK'
  <2>1. recalled' \in [Turns -> SUBSET Memories]
    <3>1. recalled \in [Turns -> SUBSET Memories] BY DEF PromptTypeOK
    <3> QED BY <1>4, <1>6, <3>1
  <2>2. step' \in [Turns -> {"new", "scan", "search", "touch", "recent", "built"}]
    <3>1. step \in [Turns -> {"new", "scan", "search", "touch", "recent", "built"}]
      BY DEF PromptTypeOK
    <3> QED BY <1>6, <3>1
  <2>3. sections' \in [Turns -> SUBSET {"knowledge", "recalled", "related"}]
    <3> DEFINE S == {"knowledge", "recalled", "related"}
    <3>1. sections \in [Turns -> SUBSET S] /\ sections[t] \cup {"recalled"} \in SUBSET S
      BY DEF PromptTypeOK
    <3> HIDE DEF S
    <3>2. sections' \in [Turns -> SUBSET S] BY <1>6, <3>1
    <3> QED BY <3>2 DEF S
  <2>4. used_tokens' \in [Turns -> Nat]
    <3>1. used_tokens \in [Turns -> Nat] BY DEF PromptTypeOK
    <3>2. used_tokens[t] + tokens \in Nat BY <1>5, <3>1
    <3> QED BY <1>6, <3>1, <3>2
  <2> QED BY <1>2, <1>7, <2>1, <2>2, <2>3, <2>4 DEF PromptTypeOK
<1>9. step'[t] \in {"touch", "recent"}
  BY <1>6 DEF PromptTypeOK
<1>10. Scanning(t)' BY <1>1, <1>2, <1>9 DEF Scanning
<1>11. Listed(t)'
  <2>1. ScannedPrefixes(job[t])' = ScannedPrefixes(job[t]) BY <1>2 DEF ScannedPrefixes
  <2>2. ToSet(left[t])' = ToSet(left[t]) BY <1>2 DEF ToSet
  <2> QED BY <1>1, <1>2, <2>1, <2>2 DEF PromptInv, Listed
<1>12. Ahead(t)'
  <2>1. \/ used_tokens'[t] = used_tokens[t]
        \/ 100 * used_tokens'[t] <= 20 * Budget(job[t])
    <3>1. used_tokens[t] \in Nat /\ Budget(job[t]) \in Nat
      BY <1>1, JobNumbers DEF PromptTypeOK, StoresTypeOK
    <3>2. Fits(t, used_tokens[t], tokens, 12) =>
             100 * (used_tokens[t] + tokens) <= 20 * Budget(job[t])
      BY <1>5, <3>1 DEF Fits
    <3> QED BY <1>6, <3>2 DEF PromptTypeOK
  <2> QED BY <1>1, <1>2, <2>1 DEF PromptInv, Ahead, Budget
<1>13. HasRoom(t)' BY <1>9 DEF HasRoom
<1> QED BY <1>8, <1>10, <1>11, <1>12, <1>13 DEF PromptInv

LEMMA TouchKeeps ==
    ASSUME PromptTypeOK, NEW t \in Turns, PromptInv(t), Touch(t)
    PROVE  PromptTypeOK' /\ PromptInv(t)'
<1>1. /\ step[t] = "touch" /\ step' = [step EXCEPT ![t] = "recent"]
      /\ UNCHANGED <<world, knowledge, job, left, known, recalled, recent, sections,
                     used_tokens, kept>>
  BY DEF Touch, Goes, prompt
<1>2. Scannable' = Scannable BY <1>1 DEF Scannable, ScannedPrefixes
<1>3. step' \in [Turns -> {"new", "scan", "search", "touch", "recent", "built"}]
  <2>1. step \in [Turns -> {"new", "scan", "search", "touch", "recent", "built"}]
    BY DEF PromptTypeOK
  <2> QED BY <1>1, <2>1
<1>4. PromptTypeOK' BY <1>1, <1>2, <1>3 DEF PromptTypeOK
<1>5. step'[t] = "recent" BY <1>1 DEF PromptTypeOK
<1>6. Scanning(t)' BY <1>1, <1>5 DEF PromptInv, Scanning
<1>7. Listed(t)'
  <2>1. ScannedPrefixes(job[t])' = ScannedPrefixes(job[t]) BY <1>1 DEF ScannedPrefixes
  <2>2. ToSet(left[t])' = ToSet(left[t]) BY <1>1 DEF ToSet
  <2> QED BY <1>1, <2>1, <2>2 DEF PromptInv, Listed
<1>8. Ahead(t)' BY <1>1 DEF PromptInv, Ahead, Budget
<1>9. HasRoom(t)' BY <1>5 DEF HasRoom
<1> QED BY <1>4, <1>6, <1>7, <1>8, <1>9 DEF PromptInv

LEMMA RememberKeeps ==
    ASSUME StoresTypeOK, PromptTypeOK, NEW t \in Turns, PromptInv(t), Remember(t)
    PROVE  PromptTypeOK' /\ PromptInv(t)'
<1> DEFINE turns == Recent(job[t])
           used  == used_tokens[t] + Tokens(turns)
           refs  == RefTokens * IF job[t].refs < 5 THEN job[t].refs ELSE 5
           show  == job[t].refs > 0 /\ Fits(t, used, refs, 80)
<1>1. /\ step[t] = "recent" /\ step' = [step EXCEPT ![t] = "built"]
      /\ recent' = [recent EXCEPT ![t] = turns]
      /\ used_tokens' = [used_tokens EXCEPT ![t] = used + IF show THEN refs ELSE 0]
      /\ sections' = [sections EXCEPT ![t] = sections[t] \cup IF show THEN {"related"} ELSE {}]
      /\ UNCHANGED <<world, knowledge, job, left, known, recalled, kept>>
  BY DEF Remember, Goes, stores
<1>2. job[t] \in world.jobs /\ left[t] = <<>>
  BY <1>1 DEF PromptInv, Scanning
<1>3. /\ Budget(job[t]) \in Nat /\ SystemTokens[job[t].reactive] \in Nat
      /\ job[t].prompt \in Nat /\ job[t].refs \in Nat /\ used_tokens[t] \in Nat
  BY <1>2, JobNumbers DEF StoresTypeOK, PromptTypeOK
<1>4. /\ turns \in Seq(Turn) /\ Tokens(turns) \in Nat
      /\ 100 * Tokens(turns) <= 30 * Budget(job[t])
  BY <1>2, RecentFits
<1>5. refs \in Nat
  <2>1. (IF job[t].refs < 5 THEN job[t].refs ELSE 5) \in Nat BY <1>3
  <2> QED BY <2>1, Numbers
<1> HIDE DEF turns
<1>6. used \in Nat BY <1>3, <1>4
<1>7. show => 100 * (used + refs) < 80 * Budget(job[t])
  BY DEF Fits
<1>8. \/ used_tokens[t] <= SystemTokens[job[t].reactive] + job[t].prompt
      \/ 100 * used_tokens[t] <= 20 * Budget(job[t])
  BY <1>1 DEF PromptInv, Ahead
<1>9. 2 * (SystemTokens[job[t].reactive] + job[t].prompt) <= Budget(job[t])
         => 100 * used <= 80 * Budget(job[t])
  <2>1. ASSUME NEW u \in Nat, NEW base \in Nat, NEW b \in Nat, NEW x \in Nat,
               100 * x <= 30 * b, u <= base \/ 100 * u <= 20 * b, 2 * base <= b
        PROVE  100 * (u + x) <= 80 * b
    BY <2>1
  <2>2. SystemTokens[job[t].reactive] + job[t].prompt \in Nat BY <1>3
  <2> QED BY <1>3, <1>4, <1>8, <2>1, <2>2
<1> HIDE DEF used, refs, show
<1>10. Scannable' = Scannable BY <1>1 DEF Scannable, ScannedPrefixes
<1>11. PromptTypeOK'
  <2>1. recent' \in [Turns -> Seq(Turn)]
    <3>1. recent \in [Turns -> Seq(Turn)] BY DEF PromptTypeOK
    <3> QED BY <1>1, <1>4, <3>1
  <2>2. step' \in [Turns -> {"new", "scan", "search", "touch", "recent", "built"}]
    <3>1. step \in [Turns -> {"new", "scan", "search", "touch", "recent", "built"}]
      BY DEF PromptTypeOK
    <3> QED BY <1>1, <3>1
  <2>3. sections' \in [Turns -> SUBSET {"knowledge", "recalled", "related"}]
    <3> DEFINE S == {"knowledge", "recalled", "related"}
    <3>1. /\ sections \in [Turns -> SUBSET S]
          /\ sections[t] \cup (IF show THEN {"related"} ELSE {}) \in SUBSET S
      BY DEF PromptTypeOK
    <3> HIDE DEF S
    <3>2. sections' \in [Turns -> SUBSET S] BY <1>1, <3>1
    <3> QED BY <3>2 DEF S
  <2>4. used_tokens' \in [Turns -> Nat]
    <3>1. used + (IF show THEN refs ELSE 0) \in Nat BY <1>5, <1>6
    <3>2. used_tokens \in [Turns -> Nat] BY DEF PromptTypeOK
    <3> QED BY <1>1, <3>1, <3>2
  <2> QED BY <1>1, <1>10, <2>1, <2>2, <2>3, <2>4 DEF PromptTypeOK
<1>12. step'[t] = "built" /\ used_tokens'[t] = used + IF show THEN refs ELSE 0
  BY <1>1 DEF PromptTypeOK
<1>13. Scanning(t)' BY <1>1, <1>2, <1>12 DEF Scanning
<1>14. Listed(t)'
  <2>1. ScannedPrefixes(job[t])' = ScannedPrefixes(job[t]) BY <1>1 DEF ScannedPrefixes
  <2>2. ToSet(left[t])' = ToSet(left[t]) BY <1>1 DEF ToSet
  <2> QED BY <1>1, <2>1, <2>2 DEF PromptInv, Listed
<1>15. Ahead(t)' BY <1>12 DEF Ahead
<1>16. HasRoom(t)'
  <2>1. 2 * (SystemTokens[job[t].reactive] + job[t].prompt) <= Budget(job[t])
           => 100 * used_tokens'[t] <= 80 * Budget(job[t])
    BY <1>3, <1>5, <1>6, <1>7, <1>9, <1>12
  <2> QED BY <1>1, <2>1 DEF HasRoom, Budget
<1> QED BY <1>11, <1>13, <1>14, <1>15, <1>16 DEF PromptInv

\* A step that builds no prompt keeps each turn's own state, and of the kept keys
\* leaves the values.
LEMMA EditsLeave ==
    ASSUME ContextStep, ~ \E t \in Turns : BuildPrompt(t)
    PROVE  /\ UNCHANGED <<job, step, left, known, recalled, recent, sections, used_tokens>>
           /\ \/ UNCHANGED <<knowledge, kept>>
              \/ \E k, v : SetKnowledge(k, v)
<1>1. ASSUME NEW t \in Turns, StartLoop(t) \/ Finish(t)
      PROVE  UNCHANGED <<job, step, left, prompt, knowledge, kept>>
  BY <1>1 DEF StartLoop, Finish
<1>2. ASSUME NEW t \in Turns, HandleKnowledge(t)
      PROVE  /\ UNCHANGED <<job, step, left, prompt>>
             /\ UNCHANGED <<knowledge, kept>> \/ \E k, v : SetKnowledge(k, v)
  BY <1>2 DEF HandleKnowledge
<1>3. CASE EditKnowledge
  <2>1. UNCHANGED <<job, step, left, prompt>> BY <1>3 DEF EditKnowledge
  <2>2. \E k, v : SetKnowledge(k, v) BY <1>3 DEF EditKnowledge
  <2> QED BY <2>1, <2>2 DEF prompt
<1>4. CASE EditMemories \/ ClearTranscript
  BY <1>4 DEF EditMemories, ClearTranscript, prompt
<1> QED BY <1>1, <1>2, <1>3, <1>4 DEF ContextStep, Api, prompt

LEMMA EditsKeep ==
    ASSUME StoresTypeOK, PromptTypeOK, \A t \in Turns : PromptInv(t),
           world' = world,
           UNCHANGED <<job, step, left, known, recalled, recent, sections, used_tokens>>,
           UNCHANGED <<knowledge, kept>> \/ \E k, v : SetKnowledge(k, v)
    PROVE  PromptTypeOK' /\ \A t \in Turns : PromptInv(t)'
<1>1. kept' \in [Turns -> SUBSET Keys] /\ \A t \in Turns : kept'[t] \subseteq kept[t]
  <2>1. kept \in [Turns -> SUBSET Keys] BY DEF PromptTypeOK
  <2> QED BY <2>1 DEF SetKnowledge
<1>2. \A t \in Turns : \A k \in kept'[t] : knowledge'[k] = knowledge[k]
  <2>1. knowledge = [k \in Keys |-> knowledge[k]] BY DEF StoresTypeOK
  <2>2. ASSUME NEW k, NEW v, SetKnowledge(k, v), NEW t \in Turns, NEW q \in kept'[t]
        PROVE  knowledge'[q] = knowledge[q]
    <3>1. q # k /\ q \in Keys BY <1>1, <2>2 DEF SetKnowledge
    <3> QED BY <2>1, <2>2, <3>1 DEF SetKnowledge
  <2> QED BY <2>2
<1>3. Scannable' = Scannable BY DEF Scannable, ScannedPrefixes
<1>4. PromptTypeOK' BY <1>1, <1>3 DEF PromptTypeOK
<1>5. \A t \in Turns : Own(t)' = Own(t) BY DEF Own
<1> QED BY <1>1, <1>2, <1>4, <1>5, OwnKept

LEMMA PromptsNext ==
    ASSUME TypeOK, \A t \in Turns : PromptInv(t), [Next]_vars
    PROVE  PromptTypeOK' /\ \A t \in Turns : PromptInv(t)'
<1>0. StoresTypeOK /\ PromptTypeOK BY DEF TypeOK
<1>1. CASE UNCHANGED context
  BY <1>0, <1>1, EditsKeep DEF context, stores, prompt
<1>2. ASSUME NEW t \in Turns, BuildPrompt(t)
      PROVE  PromptTypeOK' /\ \A u \in Turns : PromptInv(u)'
  <2>1. PromptTypeOK' /\ PromptInv(t)'
    BY <1>0, <1>2, PinKeeps, ScanKeeps, SearchKeeps, TouchKeeps, RememberKeeps
       DEF BuildPrompt
  <2>2. UNCHANGED <<world, knowledge>>
    BY <1>2 DEF BuildPrompt, Pin, ScanPrefix, Search, Touch, Remember, stores
  <2>3. \A u \in Turns \ {t} : PromptInv(u)'
    BY <1>0, <1>2, <2>2, OthersPrompts, OwnKept
  <2> QED BY <2>1, <2>3
<1>3. CASE ContextStep /\ ~ \E t \in Turns : BuildPrompt(t)
  BY <1>0, <1>3, EditsLeave, SameWorld, EditsKeep
<1> QED BY <1>1, <1>2, <1>3, ContextSees

LEMMA StoresNext ==
    ASSUME TypeOK, [Next]_vars PROVE StoresTypeOK'
<1>1. CASE UNCHANGED context
  BY <1>1 DEF TypeOK, context, stores, StoresTypeOK, Conversations
<1> QED BY <1>1, ContextSees, StoresTypes DEF TypeOK

-----------------------------------------------------------------------------
(* The invariant of a turn, and the theorems.                               *)

LEMMA ContextInitially == Init => StoresTypeOK /\ PromptTypeOK /\ \A t \in Turns : PromptInv(t)
<1> SUFFICES ASSUME Init PROVE StoresTypeOK /\ PromptTypeOK /\ \A t \in Turns : PromptInv(t)
  OBVIOUS
<1> USE DEF Init, ContextInit
<1>1. StoresTypeOK
  <2>1. (CHOOSE v \in Values : TRUE) \in Values BY Numbers
  <2>2. world.memories \subseteq Memories BY JobAssumption DEF JobAssumption
  <2> QED BY <2>1, <2>2 DEF StoresTypeOK
<1>2. PromptTypeOK BY DEF PromptTypeOK
<1>3. \A t \in Turns : PromptInv(t)
  BY DEF PromptInv, Scanning, Listed, Ahead, HasRoom
<1> QED BY <1>1, <1>2, <1>3

LEMMA TurnInductive == Spec => [](TypeOK /\ TurnInv)
<1>1. Init => TypeOK /\ TurnInv
  <2> SUFFICES ASSUME Init PROVE TypeOK /\ TurnInv
    OBVIOUS
  <2>1. StoresTypeOK /\ PromptTypeOK /\ \A t \in Turns : PromptInv(t)
    BY ContextInitially
  <2>2. GateTypeOK /\ CommandInv BY GateInitially
  <2>3. BrowserTypeOK /\ LaunchInv BY BrowserInit
  <2> QED BY <2>1, <2>2, <2>3 DEF TypeOK, TurnInv
<1>2. TypeOK /\ TurnInv /\ [Next]_vars => TypeOK' /\ TurnInv'
  <2> SUFFICES ASSUME TypeOK, TurnInv, [Next]_vars PROVE TypeOK' /\ TurnInv'
    OBVIOUS
  <2>1. world \in Worlds BY DEF TypeOK, StoresTypeOK
  <2>2. StoresTypeOK' BY StoresNext
  <2>3. PromptTypeOK' /\ \A t \in Turns : PromptInv(t)'
    BY PromptsNext DEF TurnInv
  <2>4. GateTypeOK' /\ CommandInv' BY <2>1, GateNext DEF TypeOK, TurnInv
  <2>5. BrowserTypeOK' /\ LaunchInv' BY BrowserNext DEF TypeOK, TurnInv
  <2> QED BY <2>2, <2>3, <2>4, <2>5 DEF TypeOK, TurnInv
<1> QED BY <1>1, <1>2, PTL DEF Spec

\* The stores, the prompts, the actions and the browser's attributes keep their
\* types whatever the turns and the API do between two of a turn's awaits.
THEOREM TypeCorrect == Spec => []TypeOK
BY TurnInductive, PTL

\* What the three parts keep for the theorems below: of each turn's prompt, of
\* each action between gate and executor, and of the starts of a browser.
THEOREM TurnInvariant == Spec => []TurnInv
BY TurnInductive, PTL

\* build_prompt leaves the event a fifth of the budget, for every size of system
\* prompt up to half of it, of entries, memories, transcripts and references.
THEOREM EventHasRoom == Spec => []RoomForTheEvent
<1>1. TurnInv => RoomForTheEvent BY DEF TurnInv, PromptInv, RoomForTheEvent
<1> QED BY <1>1, TurnInductive, PTL

\* _get_relevant_knowledge lists no key twice and misses or misquotes none that
\* was left alone, whatever is written between its scans.
THEOREM KnowledgeIsTrue == Spec => []KnowledgeIsConsistent
<1>1. TypeOK /\ TurnInv => KnowledgeIsConsistent
  <2> SUFFICES ASSUME TypeOK, TurnInv, NEW t \in Turns, "knowledge" \in sections[t]
               PROVE  /\ \A e, f \in known[t] : e[1] = f[1] => e = f
                      /\ \A k \in kept[t] :
                            (/\ knowledge[k] # None
                             /\ \E p \in ToSet(ScannedPrefixes(job[t])) : IsStrictPrefix(p, k))
                            => <<k, knowledge[k]>> \in known[t]
    BY DEF KnowledgeIsConsistent
  <2>1. Scanning(t) /\ Listed(t) BY DEF TurnInv, PromptInv
  <2>2. step[t] # "new" /\ ToSet(left[t]) = {} BY <2>1 DEF Scanning, ToSet
  <2> QED BY <2>1, <2>2 DEF Listed
<1> QED BY <1>1, TurnInductive, PTL

\* The policy engine's blocklist holds for every shell that is started, by an
\* approved action as by one that runs at once, however its command was nested.
THEOREM BlocklistHolds == Spec => []NothingBlockedRuns
<1>1. TurnInv => NothingBlockedRuns BY DEF TurnInv, CommandInv
<1> QED BY <1>1, TurnInductive, PTL

\* However many agents share the backend, and whatever raises, _ensure_page
\* launches a second browser only after two calls met in the driver's start.
THEOREM OneBrowser == Spec => []BrowserIsShared
<1>1. TypeOK /\ TurnInv => BrowserIsShared
  <2> SUFFICES ASSUME TypeOK, TurnInv, ~ overlapped PROVE Cardinality(browsers) <= 1
    BY DEF BrowserIsShared, TypeOK, BrowserTypeOK
  <2>1. \A b, c \in browsers : b = c BY DEF TurnInv, LaunchInv
  <2>2. CASE browsers = {} BY <2>2, FS_EmptySet
  <2>3. ASSUME NEW b \in browsers PROVE Cardinality(browsers) <= 1
    <3>1. browsers = {b} BY <2>1
    <3>2. Cardinality({b}) = 1 BY FS_Singleton
    <3> QED BY <3>1, <3>2
  <2> QED BY <2>2, <2>3
<1> QED BY <1>1, TurnInductive, PTL
=============================================================================
