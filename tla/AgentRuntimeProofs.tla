------------------------- MODULE AgentRuntimeProofs -------------------------
(***************************************************************************)
(* Proofs about AgentRuntime for every number of tasks, calls, consumers    *)
(* and slots: type correctness, the inductive invariant, the accounting of  *)
(* the semaphore, the slot kept for the interactive lane, one holder for    *)
(* each assignment, and the agreement of the manager's tables.              *)
(***************************************************************************)
EXTENDS AgentRuntimeProperties, FiniteSetTheorems, TLAPS

-----------------------------------------------------------------------------
(* The constants, and the cardinalities the invariant counts.               *)

LEMMA Bounds ==
    /\ Scenarios \subseteq Scenario
    /\ Work \subseteq Nat \ {0} /\ Consumers \subseteq Nat \ {0}
    /\ None \notin Work /\ None \notin Consumers
    /\ Tasks \subseteq Nat /\ Admins \subseteq Nat
    /\ IsFiniteSet(Tasks) /\ IsFiniteSet(Admins)
<1> USE RuntimeAssumption DEF RuntimeAssumption
<1>1. Work \subseteq Nat \ {0}
  BY DEF Work, Scenario
<1>2. Consumers \subseteq Nat \ {0}
  BY DEF Consumers, Scenario
<1>3. IsFiniteSet(Tasks) /\ IsFiniteSet(Admins)
  BY FS_Interval DEF Tasks, Admins
<1>4. None \notin Work /\ None \notin Consumers
  BY <1>1, <1>2
<1>5. Tasks \subseteq Nat /\ Admins \subseteq Nat
  BY DEF Tasks, Admins
<1> QED BY <1>1, <1>2, <1>3, <1>4, <1>5

LEMMA Subsets ==
    ASSUME NEW S, NEW T, IsFiniteSet(T), S \subseteq T
    PROVE  IsFiniteSet(S) /\ Cardinality(S) \in Nat /\ Cardinality(S) <= Cardinality(T)
BY FS_Subset, FS_CardinalityType

LEMMA Growth ==
    ASSUME NEW S, NEW x, IsFiniteSet(S), x \notin S
    PROVE  Cardinality(S \cup {x}) = Cardinality(S) + 1
BY FS_AddElement

LEMMA Consumed ==
    ASSUME NEW n \in Nat \ {0}, NEW s \in Scenarios, n <= 1 + s.calls + s.crashes
    PROVE  n \in Consumers
BY Bounds DEF Consumers, Scenario

LEMMA TypeInit == Init => TypeOK
<1> SUFFICES ASSUME Init PROVE TypeOK
  OBVIOUS
<1>1. scenario \in Scenarios /\ scenario.concurrent \in Nat
  BY Bounds DEF Init, Scenario
<1>2. 1 \in Consumers
  BY <1>1, Bounds, Consumed DEF Scenario
<1> QED BY <1>1, <1>2, Bounds DEF Init, TypeOK, Live

-----------------------------------------------------------------------------
(* Type correctness.                                                        *)

LEMMA LoopType ==
    ASSUME TypeOK, NEW g \in Consumers, Loop(g)
    PROVE  TypeOK'
<1> USE Bounds DEF TypeOK, board, manager, task, admin, past, env, spent
<1>1. CASE WakeUp(g) BY <1>1 DEF WakeUp
<1>2. CASE Acquire(g) BY <1>2 DEF Acquire
<1>3. CASE Claim(g)
  BY <1>3 DEF Claim, GiveUp, First, Candidates, Claimed, Live
<1>4. CASE Fetch(g) BY <1>4 DEF Fetch, GiveUp
<1>5. CASE ClaimRaises(g) BY <1>5 DEF ClaimRaises, Mishap
<1> QED BY <1>1, <1>2, <1>3, <1>4, <1>5 DEF Loop

LEMMA ReleaseType ==
    ASSUME TypeOK, HoldsInv, NEW t \in Tasks, tpc[t] # "idle", Release(t)
    PROVE  /\ free' \in [Consumers -> Nat]
           /\ tpc' \in [Tasks -> {"idle", "start", "work", "close"}]
           /\ job' \in [Tasks -> Work \cup {None}]
           /\ boss' \in [Tasks -> Consumers \cup {None}]
<1>1. boss[t] \in Consumers BY DEF HoldsInv, TaskHolds
<1> QED BY <1>1 DEF Release, TypeOK

LEMMA TaskType ==
    ASSUME TypeOK, HoldsInv, NEW t \in Tasks, Begin(t) \/ Finish(t) \/ Close(t)
    PROVE  TypeOK'
<1> USE DEF TypeOK, board, consumer, manager, admin, past, env, spent
<1>1. CASE Begin(t)
  <2>1. status' \in [Work -> Live \cup {"absent", "completed", "failed"}]
    BY <1>1 DEF Begin, Live
  <2>2. CASE Release(t) /\ Mishap
    BY <1>1, <2>1, <2>2, ReleaseType DEF Begin, Mishap
  <2>3. CASE tpc' = [tpc EXCEPT ![t] = "work"] /\ UNCHANGED <<free, job, boss, errors>>
    BY <1>1, <2>1, <2>3 DEF Begin
  <2> QED BY <1>1, <2>2, <2>3 DEF Begin
<1>2. CASE Finish(t)
  <2>1. PICK s \in {"completed", "failed", "waiting_confirmation"} :
           /\ status' = [status EXCEPT ![job[t]] = s]
           /\ asked' \in {asked, asked + 1}
    BY <1>2 DEF Finish
  <2>2. s \in Live \cup {"absent", "completed", "failed"}
    BY DEF Live
  <2>3. status' \in [Work -> Live \cup {"absent", "completed", "failed"}]
    BY <2>1, <2>2
  <2>4. tpc' \in [Tasks -> {"idle", "start", "work", "close"}]
    BY <1>2 DEF Finish
  <2> QED BY <1>2, <2>1, <2>3, <2>4 DEF Finish
<1>3. CASE Close(t) BY <1>3, ReleaseType DEF Close
<1> QED BY <1>1, <1>2, <1>3

LEMMA BoardType ==
    ASSUME TypeOK, Create \/ (\E w \in Work : Resume(w) \/ Retry(w)) \/ Drain
    PROVE  TypeOK'
<1> USE Bounds DEF TypeOK, consumer, manager, task, admin, past, env, spent
<1>0. {"pending", "resumable", "failed"} \subseteq Live \cup {"absent", "completed", "failed"}
  BY DEF Live
<1>1. CASE Create
  <2>1. created' \in Nat BY <1>1 DEF Create
  <2>2. lane' \in [Work -> Lanes \cup {"ambient"}]
    <3>1. PICK l \in Lanes : lane' = [lane EXCEPT ![created'] = l]
      BY <1>1 DEF Create
    <3>2. lane \in [Work -> Lanes \cup {"ambient"}]
      OBVIOUS
    <3> HIDE DEF TypeOK
    <3> QED BY <3>1, <3>2
  <2>3. status' \in [Work -> Live \cup {"absent", "completed", "failed"}]
    BY <1>0, <1>1 DEF Create
  <2>4. wake' \in [Consumers -> BOOLEAN] BY <1>1 DEF Create, Notify
  <2> QED BY <1>1, <2>1, <2>2, <2>3, <2>4 DEF Create
<1>2. ASSUME NEW w \in Work, Resume(w) PROVE TypeOK'
  BY <1>0, <1>2 DEF Resume, Notify
<1>3. ASSUME NEW w \in Work, Retry(w) PROVE TypeOK'
  BY <1>0, <1>3 DEF Retry
<1>4. CASE Drain BY <1>0, <1>4 DEF Drain
<1> QED BY <1>1, <1>2, <1>3, <1>4

\* The consumer that a call or a restart builds is one of Consumers: each call
\* that is in flight still has its own to build.
LEMMA RoomToBuild ==
    ASSUME TypeOK, BuiltInv, NEW c \in Admins, apc[c] # "idle"
    PROVE  built + 1 \in Consumers
<1>1. Cardinality(Calling) \in Nat \ {0}
  <2>1. IsFiniteSet(Calling) BY Bounds, Subsets DEF Calling
  <2>2. Calling # {} BY DEF Calling
  <2> QED BY <2>1, <2>2, FS_CardinalityType, FS_EmptySet
<1>2. scenario.calls \in Nat /\ scenario.crashes \in Nat
  BY Bounds DEF TypeOK, Scenario
<1>3. built \in Nat \ {0} /\ calls \in Nat /\ crashes \in Nat
  BY Bounds DEF TypeOK
<1>4. built + 1 <= 1 + scenario.calls + scenario.crashes
  BY <1>1, <1>2, <1>3 DEF BuiltInv
<1> QED BY <1>3, <1>4, Consumed DEF TypeOK

LEMMA RoomToRestart ==
    ASSUME TypeOK, BuiltInv, crashes < scenario.crashes
    PROVE  built + 1 \in Consumers
<1>1. Cardinality(Calling) \in Nat
  BY Bounds, Subsets DEF Calling
<1>2. scenario.calls \in Nat /\ scenario.crashes \in Nat
  BY Bounds DEF TypeOK, Scenario
<1>3. built \in Nat \ {0} /\ calls \in Nat /\ crashes \in Nat
  BY Bounds DEF TypeOK
<1>4. built + 1 <= 1 + scenario.calls + scenario.crashes
  BY <1>1, <1>2, <1>3 DEF BuiltInv
<1> QED BY <1>3, <1>4, Consumed DEF TypeOK

\* stop_agent is entered by a call that stops and by a PUT that restarts: it takes
\* the consumer out, or there is none and the call goes on.
LEMMA Halts ==
    ASSUME TypeOK, NEW c \in Admins, Stop(c) \/ Reread(c)
    PROVE  /\ apc[c] \in {"stop", "reread"}
           /\ UNCHANGED <<status, lane, created, agent_status, loop, wake, free, got,
                          reserve, notifier, built, tpc, job, boss, after, leaked,
                          scenario, calls, retried, asked, errors, crashes>>
           /\ \/ TakeOut(c)
              \/ /\ \E next \in {"idle", "check"} : apc' = [apc EXCEPT ![c] = next]
                 /\ UNCHANGED <<registry, running, old, overlap, defied>>
BY DEF TypeOK, Stop, Reread, board, task, env, spent

LEMMA AdminType ==
    ASSUME TypeOK, BuiltInv, NEW c \in Admins,
           Enable(c) \/ Disable(c) \/ Update(c) \/ Delete(c) \/ Manage(c)
    PROVE  TypeOK'
<1> USE Bounds DEF TypeOK, board, consumer, manager, task, past, env, spent, Enter, Live
<1>1. CASE Enable(c) BY <1>1 DEF Enable
<1>2. CASE Disable(c) BY <1>2 DEF Disable
<1>3. CASE Update(c) BY <1>3 DEF Update
<1>4. CASE Delete(c) BY <1>4 DEF Delete
<1>5. CASE Check(c) BY <1>5 DEF Check, Racing
<1>6. CASE Build(c)
  <2>1. Raised(built + 1) =>
           /\ loop' \in [Consumers -> {"unbuilt", "wait", "acquire", "claim", "fetch", "dead"}]
           /\ running' \in [Consumers -> BOOLEAN]
           /\ registry' \in Consumers /\ notifier' \in Consumers /\ built' \in Consumers
    BY <1>6, RoomToBuild DEF Build, Raised
  <2> QED BY <1>6, <2>1 DEF Build
<1>7. CASE Stop(c) \/ Reread(c)
  <2>1. CASE TakeOut(c)
    <3>1. apc' \in [Admins -> {"idle", "check", "build", "stop", "reread", "stopping"}]
      BY <2>1 DEF TakeOut
    <3>2. old' \in [Admins -> Consumers \cup {None}]
      BY <2>1 DEF TakeOut
    <3>3. running' \in [Consumers -> BOOLEAN] /\ registry' = None
      BY <2>1 DEF TakeOut
    <3>4. overlap' \in BOOLEAN /\ defied' \in BOOLEAN
      BY <2>1 DEF TakeOut
    <3>5. UNCHANGED <<status, lane, created, agent_status, loop, wake, free, got,
                      reserve, notifier, built, tpc, job, boss, after, leaked,
                      scenario, calls, retried, asked, errors, crashes>>
      BY <1>7, Halts
    <3> QED BY <3>1, <3>2, <3>3, <3>4, <3>5
  <2>2. CASE ~ TakeOut(c)
    <3>1. PICK next \in {"idle", "check"} : apc' = [apc EXCEPT ![c] = next]
      BY <1>7, <2>2, Halts
    <3>2. apc' \in [Admins -> {"idle", "check", "build", "stop", "reread", "stopping"}]
      BY <3>1
    <3>3. UNCHANGED <<registry, running, old, overlap, defied>>
      BY <1>7, <2>2, Halts
    <3>4. /\ running' \in [Consumers -> BOOLEAN] /\ registry' \in Consumers \cup {None}
          /\ old' \in [Admins -> Consumers \cup {None}]
      BY <3>3
    <3>5. overlap' \in BOOLEAN /\ defied' \in BOOLEAN
      BY <3>3
    <3> QED BY <1>7, <3>2, <3>4, <3>5, Halts
  <2> QED BY <2>1, <2>2
<1>8. CASE Stopped(c)
  <2>1. status' \in [Work -> Live \cup {"absent", "completed", "failed"}]
    BY <1>8 DEF Stopped, First, Candidates, Claimed
  <2> QED BY <1>8, <2>1 DEF Stopped
<1> QED BY <1>1, <1>2, <1>3, <1>4, <1>5, <1>6, <1>7, <1>8 DEF Manage

LEMMA CrashType ==
    ASSUME TypeOK, BuiltInv, Crash PROVE TypeOK'
<1>1. built + 1 \in Consumers BY RoomToRestart DEF Crash
<1>2. /\ registry' \in Consumers \cup {None} /\ notifier' \in Consumers \cup {None}
      /\ built' \in Consumers
  BY <1>1 DEF TypeOK, Crash
<1>3. /\ loop' \in [Consumers -> {"unbuilt", "wait", "acquire", "claim", "fetch", "dead"}]
      /\ running' \in [Consumers -> BOOLEAN] /\ got' \in [Consumers -> Work \cup {None}]
  BY DEF Crash
<1>4. /\ tpc' \in [Tasks -> {"idle", "start", "work", "close"}]
      /\ job' \in [Tasks -> Work \cup {None}] /\ boss' \in [Tasks -> Consumers \cup {None}]
      /\ apc' \in [Admins -> {"idle", "check", "build", "stop", "reread", "stopping"}]
      /\ old' \in [Admins -> Consumers \cup {None}]
      /\ after' \in [Admins -> {"idle", "check"}]
  BY DEF Crash
<1>5. overlap' \in BOOLEAN /\ defied' \in BOOLEAN
  BY DEF TypeOK, Crash
<1>6. /\ UNCHANGED <<status, lane, created, agent_status, wake, free, reserve, leaked,
                     scenario, calls, retried, asked, errors>>
      /\ crashes' = crashes + 1
  BY DEF Crash, board
<1> QED BY <1>2, <1>3, <1>4, <1>5, <1>6 DEF TypeOK

LEMMA TypeNext ==
    ASSUME TypeOK, BuiltInv, HoldsInv, [Next]_vars PROVE TypeOK'
<1>1. CASE UNCHANGED vars
  BY <1>1 DEF TypeOK, vars, board, consumer, manager, task, admin, past, env, spent
<1>2. CASE Quiescent BY <1>1, <1>2 DEF Quiescent
<1> QED BY <1>1, <1>2, LoopType, TaskType, BoardType, AdminType, CrashType DEF Next

-----------------------------------------------------------------------------
(* Consumers are built one at a time, each by a call or a restart.          *)

LEMMA BuiltInit == Init => BuiltInv
<1> SUFFICES ASSUME Init PROVE BuiltInv
  OBVIOUS
<1>1. Calling = {} BY DEF Init, Calling
<1>2. scenario.calls \in Nat /\ scenario.crashes \in Nat
  BY Bounds DEF Init, Scenario
<1> QED BY <1>1, <1>2, Bounds, FS_EmptySet DEF Init, BuiltInv

\* A step that builds nothing, and starts no call.
LEMMA BuiltKept ==
    ASSUME TypeOK, BuiltInv, UNCHANGED <<built, scenario, calls, crashes>>,
           Calling' \subseteq Calling,
           \A g \in Consumers : loop'[g] = "unbuilt" <=> loop[g] = "unbuilt"
    PROVE  BuiltInv'
<1>1. /\ Cardinality(Calling) \in Nat /\ Cardinality(Calling') \in Nat
      /\ Cardinality(Calling') <= Cardinality(Calling)
  <2>1. IsFiniteSet(Calling) BY Bounds, Subsets DEF Calling
  <2> QED BY <2>1, FS_CardinalityType, Subsets
<1>2. built \in Nat /\ calls \in Nat /\ crashes \in Nat
  BY Bounds DEF TypeOK
<1> QED BY <1>1, <1>2 DEF BuiltInv

LEMMA BuiltEnter ==
    ASSUME TypeOK, BuiltInv, NEW c \in Admins, NEW phase \in {"check", "stop", "reread"},
           NEW next, Enter(c, phase, next),
           UNCHANGED <<loop, built, scenario, crashes>>
    PROVE  BuiltInv'
<1>1. c \notin Calling /\ Calling' = Calling \cup {c}
  BY DEF Calling, Enter, Spare, TypeOK
<1>2. Cardinality(Calling) \in Nat /\ Cardinality(Calling') = Cardinality(Calling) + 1
  <2>1. IsFiniteSet(Calling) BY Bounds, Subsets DEF Calling
  <2> QED BY <1>1, <2>1, FS_CardinalityType, Growth
<1>3. /\ built \in Nat /\ calls \in Nat /\ crashes \in Nat
      /\ scenario.calls \in Nat
  BY Bounds DEF TypeOK, Scenario
<1> QED BY <1>2, <1>3 DEF BuiltInv, Enter

LEMMA BuiltNext ==
    ASSUME TypeOK, BuiltInv, HoldsInv, [Next]_vars PROVE BuiltInv'
<1> USE DEF board, consumer, manager, task, admin, past, env, spent
<1>1. ASSUME NEW g \in Consumers, Loop(g) PROVE BuiltInv'
  <2> USE <1>1 DEF Calling, TypeOK
  <2>1. CASE WakeUp(g) BY <2>1, BuiltKept DEF WakeUp
  <2>2. CASE Acquire(g) BY <2>2, BuiltKept DEF Acquire
  <2>3. CASE Claim(g) BY <2>3, BuiltKept DEF Claim, GiveUp
  <2>4. CASE Fetch(g) BY <2>4, BuiltKept DEF Fetch, GiveUp
  <2>5. CASE ClaimRaises(g) BY <2>5, BuiltKept DEF ClaimRaises
  <2> QED BY <2>1, <2>2, <2>3, <2>4, <2>5 DEF Loop
<1>2. ASSUME NEW t \in Tasks, Begin(t) \/ Finish(t) \/ Close(t) PROVE BuiltInv'
  BY <1>2, BuiltKept DEF Calling, Begin, Finish, Close
<1>3. ASSUME Create \/ (\E w \in Work : Resume(w) \/ Retry(w)) \/ Drain PROVE BuiltInv'
  BY <1>3, BuiltKept DEF Calling, Create, Resume, Retry, Drain
<1>4. ASSUME NEW c \in Admins, Enable(c) \/ Disable(c) \/ Update(c) \/ Delete(c)
      PROVE  BuiltInv'
  BY <1>4, BuiltEnter DEF Enable, Disable, Update, Delete
<1>5. ASSUME NEW c \in Admins, Manage(c) PROVE BuiltInv'
  <2>1. CASE Check(c) BY <2>1, BuiltKept DEF Check, Calling, TypeOK
  <2>2. CASE Build(c)
    <3>1. CASE agent_status = "disabled"
      BY <2>2, <3>1, BuiltKept DEF Build, Calling, TypeOK
    <3>2. CASE agent_status # "disabled"
      <4>1. c \in Calling /\ Calling' = Calling \ {c}
        BY <2>2 DEF Build, Calling, TypeOK
      <4>2. Cardinality(Calling) \in Nat /\ Cardinality(Calling') = Cardinality(Calling) - 1
        <5>1. IsFiniteSet(Calling) BY Bounds, Subsets DEF Calling
        <5> QED BY <4>1, <5>1, FS_CardinalityType, FS_RemoveElement
      <4>3. built \in Nat /\ calls \in Nat /\ crashes \in Nat
        BY Bounds DEF TypeOK
      <4>4. built' + Cardinality(Calling') <= 1 + calls' + crashes'
        BY <2>2, <3>2, <4>2, <4>3 DEF Build, Raised, BuiltInv
      <4>5. built + 1 \in Consumers
        BY <2>2, RoomToBuild DEF Build
      <4>6. ASSUME NEW g \in Consumers PROVE loop'[g] = "unbuilt" <=> g > built'
        BY <2>2, <3>2, <4>3, <4>5, Bounds DEF Build, Raised, BuiltInv, TypeOK
      <4> QED BY <2>2, <4>4, <4>6 DEF Build, BuiltInv
    <3> QED BY <3>1, <3>2
  <2>3. CASE Stop(c) \/ Reread(c)
    <3>1. c \in Calling BY <2>3, Halts DEF Calling
    <3>2. Calling' \subseteq Calling \cup {c}
      BY <2>3, Halts DEF Calling, TakeOut, TypeOK
    <3> QED BY <2>3, <3>1, <3>2, Halts, BuiltKept
  <2>4. CASE Stopped(c)
    <3>1. old[c] \in Consumers /\ old[c] <= built
      BY <2>4 DEF Stopped, HoldsInv
    <3>2. old[c] \in Nat /\ built \in Nat
      BY <3>1, Bounds DEF TypeOK
    <3>3. loop[old[c]] # "unbuilt"
      BY <3>1, <3>2 DEF BuiltInv
    <3> QED BY <2>4, <3>1, <3>3, BuiltKept DEF Stopped, Calling, TypeOK
  <2> QED BY <1>5, <2>1, <2>2, <2>3, <2>4 DEF Manage
<1>6. CASE Crash
  <2>1. Calling' = {} /\ Cardinality(Calling') = 0
    BY <1>6, FS_EmptySet DEF Crash, Calling
  <2>2. /\ built \in Nat /\ calls \in Nat /\ crashes \in Nat
        /\ scenario.crashes \in Nat /\ Cardinality(Calling) \in Nat
    BY Bounds, Subsets DEF TypeOK, Scenario, Calling
  <2>3. built' + Cardinality(Calling') <= 1 + calls' + crashes'
    BY <1>6, <2>1, <2>2 DEF Crash, BuiltInv
  <2>4. None \notin Nat
    BY RuntimeAssumption DEF RuntimeAssumption
  <2>5. ASSUME NEW g \in Consumers PROVE loop'[g] = "unbuilt" <=> g > built'
    BY <1>6, <2>2, <2>4, Bounds DEF Crash
  <2>6. calls' <= scenario.calls' /\ crashes' <= scenario.crashes'
    BY <1>6, <2>2 DEF Crash, BuiltInv
  <2> QED BY <2>3, <2>5, <2>6 DEF BuiltInv
<1>7. CASE Quiescent \/ UNCHANGED vars
  BY <1>7, BuiltKept DEF Quiescent, vars, Calling
<1> QED BY <1>1, <1>2, <1>3, <1>4, <1>5, <1>6, <1>7 DEF Next

-----------------------------------------------------------------------------
(* What tasks, loops and calls hold exists.                                 *)

LEMMA HoldsInit == Init => HoldsInv
BY Bounds DEF Init, HoldsInv, TaskHolds, LoopHolds

\* Nobody takes hold of anything, and what is held stays.
LEMMA StillBelow ==
    ASSUME NEW S \in SUBSET Nat, NEW n \in S, NEW a \in Nat, NEW b \in Nat,
           n <= a, b >= a
    PROVE  n <= b
OBVIOUS

LEMMA HoldsKept ==
    ASSUME TypeOK, HoldsInv, created' >= created, built' >= built,
           created' \in Nat, built' \in Nat,
           UNCHANGED <<tpc, job, boss>>, registry' \in {registry, None, built'},
           \A g \in Consumers : LoopHolds(g)',
           \A w \in Work : w > created' => status[w] = "absent" /\ status'[w] = status[w],
           \A c \in Admins : apc'[c] = "stopping" => apc[c] = "stopping" /\ old'[c] = old[c]
    PROVE  HoldsInv'
<1>0. created \in Nat /\ built \in Nat /\ Work \subseteq Nat /\ Consumers \subseteq Nat
  BY Bounds DEF TypeOK
<1>1. ASSUME NEW t \in Tasks PROVE TaskHolds(t)'
  <2>1. TaskHolds(t) BY DEF HoldsInv
  <2> QED BY <1>0, <2>1, StillBelow DEF TaskHolds
<1>2. ASSUME NEW c \in Admins, apc'[c] = "stopping"
      PROVE old'[c] \in Consumers /\ old'[c] <= built'
  <2>1. old'[c] = old[c] /\ old[c] \in Consumers /\ old[c] <= built
    BY <1>2 DEF HoldsInv
  <2> QED BY <1>0, <2>1, StillBelow
<1>3. registry' # None => registry' <= built'
  BY <1>0 DEF HoldsInv, TypeOK
<1> QED BY <1>1, <1>2, <1>3 DEF HoldsInv

\* A step of a loop that touches neither rows nor tasks.
LEMMA HoldsSame ==
    ASSUME HoldsInv, \A g \in Consumers : LoopHolds(g)',
           UNCHANGED <<status, created, built, registry, tpc, job, boss, apc, old>>
    PROVE  HoldsInv'
<1>1. \A t \in Tasks : TaskHolds(t)'
  BY DEF HoldsInv, TaskHolds
<1> QED BY <1>1 DEF HoldsInv

LEMMA CandidatesExist ==
    ASSUME TypeOK, HoldsInv, NEW g \in Consumers, NEW w \in First(g)
    PROVE  w \in Work /\ w \in Nat /\ w <= created /\ created \in Nat /\ status[w] \in Claimable
<1>1. w \in Work /\ w \in Nat /\ created \in Nat /\ status[w] \in Claimable
  BY Bounds DEF First, Candidates, TypeOK
<1> QED BY <1>1 DEF HoldsInv, Claimable

LEMMA HoldsLoop ==
    ASSUME TypeOK, BuiltInv, HoldsInv, NEW g \in Consumers, Loop(g)
    PROVE  HoldsInv'
<1> USE DEF board, manager, task, admin, past, env, spent
<1>0. created \in Nat /\ built \in Nat /\ Work \subseteq Nat /\ Consumers \subseteq Nat
  BY Bounds DEF TypeOK
<1>a. /\ loop \in [Consumers -> {"unbuilt", "wait", "acquire", "claim", "fetch", "dead"}]
      /\ got \in [Consumers -> Work \cup {None}]
  BY DEF TypeOK
<1>1. CASE WakeUp(g)
  <2>1. \A h \in Consumers : LoopHolds(h)'
    BY <1>1, <1>a DEF WakeUp, HoldsInv, LoopHolds
  <2> QED BY <1>1, <2>1, HoldsSame DEF WakeUp
<1>2. CASE Acquire(g)
  <2>1. \A h \in Consumers : LoopHolds(h)'
    BY <1>2, <1>a DEF Acquire, HoldsInv, LoopHolds
  <2> QED BY <1>2, <2>1, HoldsSame DEF Acquire
<1>3. CASE Claim(g)
  <2>1. CASE Candidates(g) = {} /\ GiveUp(g) /\ UNCHANGED <<status, got>>
    <3>1. \A h \in Consumers : LoopHolds(h)'
      BY <1>3, <1>a, <2>1 DEF Claim, GiveUp, HoldsInv, LoopHolds
    <3>2. UNCHANGED <<status, created, built, registry, tpc, job, boss, apc, old>>
      BY <1>3, <2>1 DEF Claim
    <3> QED BY <3>1, <3>2, HoldsSame
  <2>2. ASSUME NEW w \in First(g), Claimed(w), got' = [got EXCEPT ![g] = w],
               loop' = [loop EXCEPT ![g] = "fetch"]
        PROVE  HoldsInv'
    <3>1. \A h \in Consumers : LoopHolds(h)'
      BY <1>3, <1>a, <2>2, CandidatesExist DEF Claim, HoldsInv, LoopHolds
    <3>2. \A v \in Work : v > created => status[v] = "absent" /\ status'[v] = status[v]
      BY <1>0, <2>2, CandidatesExist DEF HoldsInv, Claimed, Claimable, TypeOK
    <3> QED BY <1>0, <1>3, <3>1, <3>2, HoldsKept DEF Claim
  <2> QED BY <1>3, <2>1, <2>2 DEF Claim
<1>4. CASE Fetch(g)
  <2>1. \A h \in Consumers : LoopHolds(h)'
    BY <1>4, <1>a DEF Fetch, GiveUp, HoldsInv, LoopHolds
  <2>2. CASE UNCHANGED task
    BY <1>4, <2>1, <2>2, HoldsSame DEF Fetch
  <2>3. ASSUME NEW t \in Tasks,
               tpc' = [tpc EXCEPT ![t] = "start"],
               job' = [job EXCEPT ![t] = got[g]],
               boss' = [boss EXCEPT ![t] = g]
        PROVE  HoldsInv'
    <3>1. got[g] \in Work /\ got[g] <= created
      BY <1>4 DEF Fetch, HoldsInv, LoopHolds
    <3>2. g <= built
      BY <1>4, <1>0 DEF Fetch, BuiltInv
    <3>3. ASSUME NEW u \in Tasks PROVE TaskHolds(u)'
      BY <1>4, <2>3, <3>1, <3>2 DEF Fetch, HoldsInv, TaskHolds, TypeOK
    <3> QED BY <1>4, <2>1, <3>3 DEF Fetch, HoldsInv
  <2> QED BY <1>4, <2>2, <2>3 DEF Fetch
<1>5. CASE ClaimRaises(g)
  <2>1. \A h \in Consumers : LoopHolds(h)'
    BY <1>5, <1>a DEF ClaimRaises, HoldsInv, LoopHolds
  <2>2. UNCHANGED <<status, created, built, registry, tpc, job, boss, apc, old>>
    BY <1>5 DEF ClaimRaises
  <2> QED BY <2>1, <2>2, HoldsSame
<1> QED BY <1>1, <1>2, <1>3, <1>4, <1>5 DEF Loop

LEMMA HoldsRelease ==
    ASSUME TypeOK, HoldsInv, NEW t \in Tasks,
           \/ Release(t)
           \/ \E pc \in {"work", "close"} :
                 tpc' = [tpc EXCEPT ![t] = pc] /\ tpc[t] # "idle" /\ UNCHANGED <<job, boss>>,
           UNCHANGED <<created, loop, got, manager, admin>>,
           \A w \in Work : status'[w] = status[w] \/ (tpc[t] # "idle" /\ w = job[t])
    PROVE  HoldsInv'
<1> USE DEF manager, admin
<1>0. created \in Nat /\ Work \subseteq Nat
  BY Bounds DEF TypeOK
<1>1. ASSUME NEW u \in Tasks PROVE TaskHolds(u)'
  <2>1. TaskHolds(u) BY DEF HoldsInv
  <2> QED BY <2>1 DEF TaskHolds, Release, TypeOK
<1>2. ASSUME NEW w \in Work, w > created PROVE status'[w] = "absent"
  <2>1. tpc[t] # "idle" => job[t] <= created
    BY DEF HoldsInv, TaskHolds
  <2>2. status[w] = "absent"
    BY <1>2 DEF HoldsInv
  <2> QED BY <1>0, <1>2, <2>1, <2>2
<1>3. \A g \in Consumers : LoopHolds(g)'
  BY DEF HoldsInv, LoopHolds
<1> QED BY <1>1, <1>2, <1>3 DEF HoldsInv

LEMMA HoldsTask ==
    ASSUME TypeOK, HoldsInv, NEW t \in Tasks, Begin(t) \/ Finish(t) \/ Close(t)
    PROVE  HoldsInv'
<1> USE DEF board, consumer
<1>1. status \in [Work -> Live \cup {"absent", "completed", "failed"}]
  BY DEF TypeOK
<1>2. CASE Begin(t)
  <2>1. \A w \in Work : status'[w] = status[w] \/ (tpc[t] # "idle" /\ w = job[t])
    BY <1>1, <1>2 DEF Begin
  <2> QED BY <1>2, <2>1, HoldsRelease DEF Begin
<1>3. CASE Finish(t)
  <2>1. \A w \in Work : status'[w] = status[w] \/ (tpc[t] # "idle" /\ w = job[t])
    BY <1>1, <1>3 DEF Finish
  <2> QED BY <1>3, <2>1, HoldsRelease DEF Finish
<1>4. CASE Close(t)
  BY <1>4, HoldsRelease DEF Close
<1> QED BY <1>2, <1>3, <1>4

LEMMA HoldsBoard ==
    ASSUME TypeOK, HoldsInv,
           Create \/ (\E w \in Work : Resume(w) \/ Retry(w)) \/ Drain
    PROVE  HoldsInv'
<1> USE DEF consumer, manager, task, admin
<1>0. /\ created \in Nat /\ built \in Nat /\ Work \subseteq Nat
      /\ status \in [Work -> Live \cup {"absent", "completed", "failed"}]
  BY Bounds DEF TypeOK
<1>1. CASE Create
  <2>1. created' = created + 1 /\ UNCHANGED <<built, registry, tpc, job, boss, apc, old, loop, got>>
    BY <1>1 DEF Create
  <2>2. ASSUME NEW w \in Work, w > created'
        PROVE  status[w] = "absent" /\ status'[w] = status[w]
    <3>1. w > created /\ w # created' BY <1>0, <2>1, <2>2
    <3> QED BY <1>0, <1>1, <3>1 DEF Create, HoldsInv
  <2>3. ASSUME NEW g \in Consumers PROVE LoopHolds(g)'
    <3>1. LoopHolds(g) BY DEF HoldsInv
    <3>2. UNCHANGED <<loop, got>> /\ created' \in Nat /\ created' >= created
      BY <1>0, <2>1
    <3> QED BY <1>0, <3>1, <3>2, StillBelow DEF LoopHolds
  <2> QED BY <1>0, <2>1, <2>2, <2>3, HoldsKept
<1>2. ASSUME NEW w \in Work, Resume(w) \/ Retry(w) PROVE HoldsInv'
  <2>1. UNCHANGED <<created, built, registry, tpc, job, boss, apc, old, loop, got>>
    BY <1>2 DEF Resume, Retry
  <2>2. \A v \in Work : v > created' => status[v] = "absent" /\ status'[v] = status[v]
    BY <1>0, <1>2, <2>1 DEF Resume, Retry, HoldsInv
  <2>3. \A g \in Consumers : LoopHolds(g)'
    BY <2>1 DEF HoldsInv, LoopHolds
  <2> QED BY <1>0, <2>1, <2>2, <2>3, HoldsKept
<1>3. CASE Drain
  <2>1. UNCHANGED <<created, built, registry, tpc, job, boss, apc, old, loop, got>>
    BY <1>3 DEF Drain
  <2>2. \A v \in Work : v > created' => status[v] = "absent" /\ status'[v] = status[v]
    BY <1>0, <1>3, <2>1 DEF Drain, Drainable, Live, HoldsInv
  <2>3. \A g \in Consumers : LoopHolds(g)'
    BY <2>1 DEF HoldsInv, LoopHolds
  <2> QED BY <1>0, <2>1, <2>2, <2>3, HoldsKept
<1> QED BY <1>1, <1>2, <1>3

LEMMA HoldsAdmin ==
    ASSUME TypeOK, BuiltInv, HoldsInv, NEW c \in Admins,
           Enable(c) \/ Disable(c) \/ Update(c) \/ Delete(c) \/ Manage(c)
    PROVE  HoldsInv'
<1> USE DEF board, consumer, manager, task
<1>0. /\ created \in Nat /\ built \in Nat /\ Work \subseteq Nat /\ Consumers \subseteq Nat
      /\ status \in [Work -> Live \cup {"absent", "completed", "failed"}]
      /\ apc \in [Admins -> {"idle", "check", "build", "stop", "reread", "stopping"}]
      /\ old \in [Admins -> Consumers \cup {None}]
      /\ after \in [Admins -> {"idle", "check"}]
      /\ loop \in [Consumers -> {"unbuilt", "wait", "acquire", "claim", "fetch", "dead"}]
      /\ got \in [Consumers -> Work \cup {None}]
  BY Bounds DEF TypeOK
<1>1. ASSUME NEW phase \in {"check", "stop", "reread"}, Enter(c, phase, after'[c]),
             UNCHANGED <<status, created, built, registry, tpc, job, boss, old, loop, got>>
      PROVE  HoldsInv'
  <2>1. \A d \in Admins : apc'[d] = "stopping" => apc[d] = "stopping" /\ old'[d] = old[d]
    BY <1>0, <1>1 DEF Enter
  <2>2. \A g \in Consumers : LoopHolds(g)'
    BY <1>1 DEF HoldsInv, LoopHolds
  <2>3. UNCHANGED <<status, created, built, registry, tpc, job, boss>>
    BY <1>1
  <2> QED BY <1>0, <2>1, <2>2, <2>3, HoldsKept DEF HoldsInv
<1>2. CASE Enable(c) \/ Disable(c) \/ Update(c) \/ Delete(c)
  BY <1>0, <1>1, <1>2 DEF Enable, Disable, Update, Delete, Enter
<1>3. CASE Check(c)
  <2>1. UNCHANGED <<status, created, built, registry, tpc, job, boss, old, loop, got>>
    BY <1>3 DEF Check
  <2>2. \A d \in Admins : apc'[d] = "stopping" => apc[d] = "stopping" /\ old'[d] = old[d]
    BY <1>0, <1>3, <2>1 DEF Check
  <2>3. \A g \in Consumers : LoopHolds(g)'
    BY <2>1 DEF HoldsInv, LoopHolds
  <2> QED BY <1>0, <2>1, <2>2, <2>3, HoldsKept DEF HoldsInv
<1>4. CASE Build(c)
  <2>1. UNCHANGED <<status, created, tpc, job, boss, old, got>>
    BY <1>4 DEF Build
  <2>2. \A d \in Admins : apc'[d] = "stopping" => apc[d] = "stopping" /\ old'[d] = old[d]
    BY <1>0, <1>4, <2>1 DEF Build
  <2>3. /\ built' \in {built, built + 1} /\ built' \in Nat /\ built' >= built
        /\ registry' \in {registry, built'}
    BY <1>0, <1>4 DEF Build, Raised
  <2>4. CASE agent_status = "disabled"
    <3>1. \A g \in Consumers : LoopHolds(g)'
      BY <1>4, <2>1, <2>4 DEF Build, HoldsInv, LoopHolds
    <3> QED BY <1>0, <2>1, <2>2, <2>3, <3>1, HoldsKept DEF HoldsInv
  <2>5. CASE agent_status # "disabled"
    <3>1. built + 1 \in Consumers /\ loop[built + 1] = "unbuilt"
      BY <1>0, <1>4, RoomToBuild DEF Build, BuiltInv
    <3>2. loop' = [loop EXCEPT ![built + 1] = "wait"]
      BY <1>4, <2>5 DEF Build, Raised
    <3>3. \A g \in Consumers : LoopHolds(g)'
      BY <1>0, <2>1, <3>1, <3>2 DEF HoldsInv, LoopHolds
    <3> QED BY <1>0, <2>1, <2>2, <2>3, <3>3, HoldsKept DEF HoldsInv
  <2> QED BY <2>4, <2>5
<1>5. CASE Stop(c) \/ Reread(c)
  <2>1. UNCHANGED <<status, created, built, tpc, job, boss, loop, got>>
    BY <1>5, Halts
  <2>2. \A g \in Consumers : LoopHolds(g)'
    BY <2>1 DEF HoldsInv, LoopHolds
  <2>3. CASE ~ TakeOut(c)
    <3>1. \A d \in Admins : apc'[d] = "stopping" => apc[d] = "stopping" /\ old'[d] = old[d]
      BY <1>0, <1>5, <2>3, Halts
    <3>2. registry' = registry BY <1>5, <2>3, Halts
    <3>3. \A w \in Work : w > created' => status[w] = "absent" /\ status'[w] = status[w]
      BY <2>1 DEF HoldsInv
    <3> QED BY <1>0, <2>1, <2>2, <3>1, <3>2, <3>3, HoldsKept
  <2>4. CASE TakeOut(c)
    <3>1. registry \in Consumers /\ registry <= built
      BY <2>4 DEF TypeOK, HoldsInv, TakeOut
    <3>2. /\ apc' = [apc EXCEPT ![c] = "stopping"]
          /\ old' = [old EXCEPT ![c] = registry]
          /\ registry' = None
      BY <2>4 DEF TakeOut
    <3>3. ASSUME NEW d \in Admins, apc'[d] = "stopping"
          PROVE  old'[d] \in Consumers /\ old'[d] <= built
      BY <1>0, <3>1, <3>2, <3>3 DEF HoldsInv
    <3>4. \A t \in Tasks : TaskHolds(t)'
      BY <2>1 DEF HoldsInv, TaskHolds
    <3> QED BY <2>1, <2>2, <3>2, <3>3, <3>4 DEF HoldsInv
  <2> QED BY <2>3, <2>4
<1>6. CASE Stopped(c)
  <2>1. /\ UNCHANGED <<created, built, registry, tpc, job, boss>>
        /\ loop' = [loop EXCEPT ![old[c]] = "dead"]
        /\ got' = [got EXCEPT ![old[c]] = None]
    BY <1>6 DEF Stopped
  <2>2. old[c] \in Consumers
    BY <1>6 DEF Stopped, HoldsInv
  <2>3. \A g \in Consumers : LoopHolds(g)'
    BY <1>0, <2>1, <2>2 DEF HoldsInv, LoopHolds
  <2>4. \A d \in Admins : apc'[d] = "stopping" => apc[d] = "stopping" /\ old'[d] = old[d]
    BY <1>0, <1>6 DEF Stopped
  <2>5. \A w \in Work : w > created => status[w] = "absent" /\ status'[w] = status[w]
    <3>1. CASE UNCHANGED status BY <3>1 DEF HoldsInv
    <3>2. ASSUME NEW v \in First(old[c]), Claimed(v)
          PROVE  \A w \in Work : w > created => status[w] = "absent" /\ status'[w] = status[w]
      BY <1>0, <2>2, <3>2, CandidatesExist DEF HoldsInv, Claimed, Claimable
    <3> QED BY <1>6, <3>1, <3>2 DEF Stopped
  <2> QED BY <1>0, <2>1, <2>3, <2>4, <2>5, HoldsKept
<1> QED BY <1>2, <1>3, <1>4, <1>5, <1>6 DEF Manage

LEMMA HoldsNext ==
    ASSUME TypeOK, BuiltInv, HoldsInv, [Next]_vars PROVE HoldsInv'
<1>1. CASE Crash
  <2>1. /\ \A t \in Tasks : tpc'[t] = "idle" /\ job'[t] = None /\ boss'[t] = None
        /\ \A c \in Admins : apc'[c] = "idle"
        /\ \A g \in Consumers : got'[g] = None /\ loop'[g] # "fetch"
        /\ UNCHANGED <<status, created>>
        /\ registry' # None => registry' = built + 1 /\ built' = built + 1
    BY <1>1 DEF Crash, board
  <2>2. built + 1 \in Nat
    BY Bounds DEF TypeOK
  <2> QED BY <2>1, <2>2 DEF HoldsInv, TaskHolds, LoopHolds
<1>2. CASE Quiescent \/ UNCHANGED vars
  BY <1>2 DEF Quiescent, vars, board, consumer, manager, task, admin, HoldsInv,
              TaskHolds, LoopHolds
<1> QED BY <1>1, <1>2, HoldsLoop, HoldsTask, HoldsBoard, HoldsAdmin DEF Next

-----------------------------------------------------------------------------
(* Every slot is accounted for.                                             *)

LEMMA TasksAreFinite ==
    ASSUME NEW g
    PROVE  /\ IsFiniteSet(TasksOf(g)) /\ Cardinality(TasksOf(g)) \in Nat
           /\ IsFiniteSet(AtBackground(g)) /\ Cardinality(AtBackground(g)) \in Nat
           /\ Cardinality(AtBackground(g)) <= Cardinality(TasksOf(g))
<1>1. IsFiniteSet(TasksOf(g)) /\ Cardinality(TasksOf(g)) \in Nat
  BY Bounds, Subsets DEF TasksOf
<1>2. AtBackground(g) \subseteq TasksOf(g)
  BY DEF AtBackground
<1> QED BY <1>1, <1>2, Subsets

LEMMA SpawnCounts ==
    ASSUME TypeOK, HoldsInv, NEW t \in Tasks, tpc[t] = "idle", NEW g \in Consumers,
           boss' = [boss EXCEPT ![t] = g]
    PROVE  /\ t \notin TasksOf(g) /\ TasksOf(g)' = TasksOf(g) \cup {t}
           /\ Cardinality(TasksOf(g)') = Cardinality(TasksOf(g)) + 1
           /\ \A h \in Consumers \ {g} : TasksOf(h)' = TasksOf(h)
<1>1. boss[t] = None /\ boss \in [Tasks -> Consumers \cup {None}]
  BY DEF HoldsInv, TaskHolds, TypeOK
<1>2. t \notin TasksOf(g) /\ TasksOf(g)' = TasksOf(g) \cup {t}
  BY <1>1, Bounds DEF TasksOf
<1>3. \A h \in Consumers \ {g} : TasksOf(h)' = TasksOf(h)
  BY <1>1, Bounds DEF TasksOf
<1> QED BY <1>2, <1>3, TasksAreFinite, Growth

LEMMA ReleaseCounts ==
    ASSUME TypeOK, HoldsInv, NEW t \in Tasks, tpc[t] # "idle", Release(t), NEW g \in Consumers
    PROVE  IF boss[t] = g
           THEN /\ t \in TasksOf(g) /\ TasksOf(g)' = TasksOf(g) \ {t}
                /\ Cardinality(TasksOf(g)') = Cardinality(TasksOf(g)) - 1
           ELSE t \notin TasksOf(g) /\ TasksOf(g)' = TasksOf(g)
<1>1. boss' = [boss EXCEPT ![t] = None] /\ boss \in [Tasks -> Consumers \cup {None}]
  BY DEF Release, TypeOK
<1>2. \A u \in Tasks : u \in TasksOf(g)' <=> u \in TasksOf(g) /\ u # t
  BY <1>1, Bounds DEF TasksOf
<1>3. TasksOf(g)' = TasksOf(g) \ {t}
  BY <1>2 DEF TasksOf
<1>4. t \in TasksOf(g) <=> boss[t] = g
  BY DEF TasksOf
<1>5. t \notin TasksOf(g) => TasksOf(g) \ {t} = TasksOf(g)
  OBVIOUS
<1>6. t \in TasksOf(g) => Cardinality(TasksOf(g) \ {t}) = Cardinality(TasksOf(g)) - 1
  BY TasksAreFinite, FS_RemoveElement
<1> QED BY <1>3, <1>4, <1>5, <1>6

LEMMA SlotsInit == Init => SlotsAccounted
<1> SUFFICES ASSUME Init, NEW g \in Consumers PROVE Slots(g) = scenario.concurrent
  BY DEF SlotsAccounted
<1>1. TasksOf(g) = {} BY Bounds DEF Init, TasksOf
<1>2. scenario.concurrent \in Nat BY Bounds DEF Init, Scenario
<1>3. Cardinality(TasksOf(g)) = 0 BY <1>1, FS_EmptySet
<1> QED BY <1>2, <1>3 DEF Init, Slots, InClaim

\* A step that moves no slot of this consumer.
LEMMA SlotsSame ==
    ASSUME SlotsAccounted, scenario' = scenario,
           NEW g \in Consumers, loop[g] # "dead", TasksOf(g)' = TasksOf(g),
           free'[g] = free[g], leaked'[g] = leaked[g], InClaim(g)' = InClaim(g)
    PROVE  Slots(g)' = scenario'.concurrent
BY DEF SlotsAccounted, Slots

LEMMA SlotsLoop ==
    ASSUME TypeOK, HoldsInv, SlotsAccounted, NEW g \in Consumers, Loop(g)
    PROVE  SlotsAccounted'
<1> USE DEF task, past, env
<1>0. /\ loop \in [Consumers -> {"unbuilt", "wait", "acquire", "claim", "fetch", "dead"}]
      /\ free \in [Consumers -> Nat] /\ leaked \in [Consumers -> Nat]
      /\ scenario.concurrent \in Nat /\ Cardinality(TasksOf(g)) \in Nat
  BY Bounds, TasksAreFinite DEF TypeOK, Scenario
<1>1. scenario' = scenario /\ Slots(g) = scenario.concurrent
  BY DEF Loop, WakeUp, Acquire, Claim, Fetch, ClaimRaises, SlotsAccounted
<1>2. \/ UNCHANGED boss
      \/ \E t \in Tasks : tpc[t] = "idle" /\ boss' = [boss EXCEPT ![t] = g]
  BY DEF Loop, WakeUp, Acquire, Claim, Fetch, Spare, ClaimRaises
<1>3. ASSUME NEW h \in Consumers \ {g}, loop'[h] # "dead"
      PROVE  Slots(h)' = scenario'.concurrent
  <2>1. TasksOf(h)' = TasksOf(h)
    <3>1. CASE UNCHANGED boss BY <3>1 DEF TasksOf
    <3>2. ASSUME NEW t \in Tasks, tpc[t] = "idle", boss' = [boss EXCEPT ![t] = g]
          PROVE  TasksOf(h)' = TasksOf(h)
      BY <3>2, SpawnCounts
    <3> QED BY <1>2, <3>1, <3>2
  <2>2. /\ loop'[h] = loop[h] /\ free'[h] = free[h] /\ leaked'[h] = leaked[h]
    BY <1>0 DEF Loop, WakeUp, Acquire, Claim, GiveUp, Fetch, ClaimRaises
  <2> QED BY <1>1, <1>3, <2>1, <2>2, SlotsSame DEF InClaim
<1>4. Slots(g)' = scenario.concurrent
  <2>1. UNCHANGED boss => TasksOf(g)' = TasksOf(g)
    BY DEF TasksOf
  <2>2. CASE WakeUp(g)
    BY <1>0, <1>1, <2>1, <2>2 DEF WakeUp, InClaim, Slots
  <2>3. CASE Acquire(g)
    BY <1>0, <1>1, <2>1, <2>3 DEF Acquire, InClaim, Slots
  <2>4. CASE Claim(g)
    BY <1>0, <1>1, <2>1, <2>4 DEF Claim, GiveUp, InClaim, Slots
  <2>5. CASE Fetch(g) /\ GiveUp(g) /\ UNCHANGED task
    BY <1>0, <1>1, <2>1, <2>5 DEF Fetch, GiveUp, InClaim, Slots
  <2>6. CASE /\ Fetch(g) /\ loop' = [loop EXCEPT ![g] = "acquire"] /\ UNCHANGED free
             /\ \E t \in Tasks : tpc[t] = "idle" /\ boss' = [boss EXCEPT ![t] = g]
    <3>1. Cardinality(TasksOf(g)') = Cardinality(TasksOf(g)) + 1
      BY <2>6, SpawnCounts
    <3> QED BY <1>0, <1>1, <2>6, <3>1 DEF Fetch, InClaim, Slots
  <2>7. CASE ClaimRaises(g)
    BY <1>0, <1>1, <2>1, <2>7 DEF ClaimRaises, InClaim, Slots
  <2> QED BY <2>2, <2>3, <2>4, <2>5, <2>6, <2>7 DEF Loop, Fetch, Spare
<1> QED BY <1>1, <1>3, <1>4 DEF SlotsAccounted

LEMMA SlotsTask ==
    ASSUME TypeOK, HoldsInv, SlotsAccounted, NEW t \in Tasks, Begin(t) \/ Finish(t) \/ Close(t)
    PROVE  SlotsAccounted'
<1> USE DEF board, consumer, past, env
<1>1. UNCHANGED <<scenario, loop, leaked>>
  BY DEF Begin, Finish, Close
<1>2. CASE UNCHANGED <<free, boss>>
  BY <1>1, <1>2, SlotsSame DEF SlotsAccounted, TasksOf, InClaim
<1>3. CASE Release(t) /\ tpc[t] # "idle"
  <2> SUFFICES ASSUME NEW h \in Consumers, loop[h] # "dead"
               PROVE  Slots(h)' = scenario'.concurrent
    BY <1>1 DEF SlotsAccounted
  <2>1. CASE h # boss[t]
    <3>1. TasksOf(h)' = TasksOf(h) BY <1>3, <2>1, ReleaseCounts
    <3>2. free'[h] = free[h] BY <1>3, <2>1 DEF Release, TypeOK
    <3> QED BY <1>1, <3>1, <3>2, SlotsSame DEF InClaim
  <2>2. CASE h = boss[t]
    <3>1. Cardinality(TasksOf(h)') = Cardinality(TasksOf(h)) - 1
      BY <1>3, <2>2, ReleaseCounts
    <3>2. free'[h] = free[h] + 1
      BY <1>3, <2>2 DEF Release, TypeOK
    <3>3. /\ free[h] \in Nat /\ leaked[h] \in Nat /\ scenario.concurrent \in Nat
          /\ Cardinality(TasksOf(h)) \in Nat
      BY TasksAreFinite, Bounds DEF TypeOK, Scenario
    <3> QED BY <1>1, <3>1, <3>2, <3>3 DEF Slots, InClaim, SlotsAccounted
  <2> QED BY <2>1, <2>2
<1> QED BY <1>2, <1>3 DEF Begin, Finish, Close

LEMMA SlotsAdmin ==
    ASSUME TypeOK, BuiltInv, HoldsInv, SlotsAccounted, NEW c \in Admins, Manage(c)
    PROVE  SlotsAccounted'
<1> USE DEF board, consumer, manager, task, past, env
<1>0. /\ loop \in [Consumers -> {"unbuilt", "wait", "acquire", "claim", "fetch", "dead"}]
      /\ built \in Nat /\ Consumers \subseteq Nat
  BY Bounds DEF TypeOK
<1>1. UNCHANGED <<free, leaked, boss, scenario>>
  BY Halts DEF Manage, Check, Build, Stopped
<1>2. CASE Check(c) \/ Stop(c) \/ Reread(c)
  <2>1. loop' = loop BY <1>2, Halts DEF Check
  <2> QED BY <1>1, <2>1, SlotsSame DEF SlotsAccounted, TasksOf, InClaim
<1>3. CASE Build(c)
  <2>1. ASSUME NEW g \in Consumers, loop'[g] # "dead"
        PROVE  loop[g] # "dead" /\ InClaim(g)' = InClaim(g)
    <3>1. CASE UNCHANGED loop BY <2>1, <3>1 DEF InClaim
    <3>2. CASE built + 1 \in Consumers /\ loop' = [loop EXCEPT ![built + 1] = "wait"]
      <4>1. loop[built + 1] = "unbuilt" BY <1>0, <3>2 DEF BuiltInv
      <4> QED BY <1>0, <2>1, <3>2, <4>1 DEF InClaim
    <3> QED BY <1>3, <3>1, <3>2, RoomToBuild DEF Build, Raised
  <2> QED BY <1>1, <2>1, SlotsSame DEF SlotsAccounted, TasksOf
<1>4. CASE Stopped(c)
  <2>1. loop' = [loop EXCEPT ![old[c]] = "dead"]
    BY <1>4 DEF Stopped
  <2>2. ASSUME NEW g \in Consumers, loop'[g] # "dead"
        PROVE  loop[g] # "dead" /\ InClaim(g)' = InClaim(g)
    BY <1>0, <2>1, <2>2 DEF InClaim
  <2> QED BY <1>1, <2>2, SlotsSame DEF SlotsAccounted, TasksOf
<1> QED BY <1>2, <1>3, <1>4 DEF Manage

LEMMA SlotsCrash ==
    ASSUME TypeOK, BuiltInv, HoldsInv, SlotsAccounted, Crash
    PROVE  SlotsAccounted'
<1> SUFFICES ASSUME NEW g \in Consumers, loop'[g] # "dead"
             PROVE  Slots(g)' = scenario'.concurrent
  BY DEF SlotsAccounted
<1>1. built \in Nat /\ Consumers \subseteq Nat
  BY Bounds DEF TypeOK
<1>2. g > built /\ ~ InClaim(g)'
  BY <1>1 DEF Crash, InClaim
<1>3. loop[g] = "unbuilt"
  BY <1>2 DEF BuiltInv
<1>4. TasksOf(g) = {}
  <2> SUFFICES ASSUME NEW t \in Tasks, boss[t] = g PROVE FALSE
    BY DEF TasksOf
  <2>1. boss[t] # None /\ TaskHolds(t)
    BY Bounds DEF HoldsInv
  <2> QED BY <1>1, <1>2, <2>1 DEF TaskHolds
<1>5. TasksOf(g)' = {}
  BY Bounds DEF TasksOf, Crash
<1>6. UNCHANGED <<free, leaked, scenario>>
  BY DEF Crash, past
<1> QED BY <1>2, <1>3, <1>4, <1>5, <1>6, SlotsSame DEF InClaim

LEMMA SlotsNext ==
    ASSUME TypeOK, BuiltInv, HoldsInv, SlotsAccounted, [Next]_vars
    PROVE  SlotsAccounted'
<1>1. ASSUME UNCHANGED <<loop, free, leaked, boss, scenario>> PROVE SlotsAccounted'
  BY <1>1, SlotsSame DEF SlotsAccounted, TasksOf, InClaim
<1>2. CASE \/ Create \/ (\E w \in Work : Resume(w) \/ Retry(w)) \/ Drain
           \/ Quiescent \/ UNCHANGED vars
           \/ \E c \in Admins : Enable(c) \/ Disable(c) \/ Update(c) \/ Delete(c)
  BY <1>1, <1>2 DEF Create, Resume, Retry, Drain, Quiescent, vars, Enable, Disable, Update,
     Delete, consumer, task, past, env
<1> QED BY <1>2, SlotsLoop, SlotsTask, SlotsAdmin, SlotsCrash DEF Next

-----------------------------------------------------------------------------
(* The last slot of several is kept for the interactive lane.               *)

LEMMA ReserveInit == Init => ReserveInv
BY DEF Init, ReserveInv, ReserveHolds, InClaim

\* A step in which the claim of g goes on with the slots it saw, or ends.
LEMMA ReserveKept ==
    ASSUME TypeOK, ReserveInv, NEW g \in Consumers, scenario' = scenario,
           free'[g] \in Nat,
           InClaim(g)' => /\ loop'[g] = loop[g] /\ reserve'[g] = reserve[g]
                          /\ got'[g] = got[g] /\ free'[g] >= free[g],
           loop[g] = "fetch" => lane'[got[g]] = lane[got[g]]
    PROVE  ReserveHolds(g)'
<1> SUFFICES ASSUME scenario.concurrent > 1, InClaim(g)'
             PROVE  /\ ~ reserve[g] => free'[g] > 0
                    /\ reserve[g] /\ loop[g] = "fetch" => lane'[got[g]] = "interactive"
  BY DEF ReserveHolds, Background
<1>1. InClaim(g) BY DEF InClaim
<1>2. /\ ~ reserve[g] => free[g] > 0
      /\ reserve[g] /\ loop[g] = "fetch" => lane[got[g]] = "interactive"
  BY <1>1 DEF ReserveInv, ReserveHolds, Background
<1>3. free[g] \in Nat BY DEF TypeOK
<1> QED BY <1>2, <1>3

LEMMA ReserveLoop ==
    ASSUME TypeOK, HoldsInv, ReserveInv, NEW g \in Consumers, Loop(g), TypeOK'
    PROVE  ReserveInv'
<1> USE DEF board, task, past, env
<1>0. /\ loop \in [Consumers -> {"unbuilt", "wait", "acquire", "claim", "fetch", "dead"}]
      /\ free \in [Consumers -> Nat] /\ free' \in [Consumers -> Nat]
      /\ got \in [Consumers -> Work \cup {None}] /\ reserve \in [Consumers -> BOOLEAN]
  BY DEF TypeOK
<1>1. UNCHANGED <<scenario, lane>>
  BY DEF Loop, WakeUp, Acquire, Claim, Fetch, ClaimRaises
<1>2. ASSUME NEW h \in Consumers \ {g} PROVE ReserveHolds(h)'
  <2>1. loop'[h] = loop[h] /\ free'[h] = free[h]
    BY <1>0 DEF Loop, WakeUp, Acquire, Claim, GiveUp, Fetch, ClaimRaises
  <2>2. got'[h] = got[h] /\ reserve'[h] = reserve[h]
    BY <1>0 DEF Loop, WakeUp, Acquire, Claim, Fetch, ClaimRaises
  <2> QED BY <1>0, <1>1, <2>1, <2>2, ReserveKept
<1>3. ReserveHolds(g)'
  <2>1. CASE WakeUp(g) \/ Fetch(g) \/ ClaimRaises(g)
    <3>1. loop'[g] \in {"wait", "acquire"}
      BY <1>0, <2>1 DEF WakeUp, Fetch, GiveUp, ClaimRaises
    <3> QED BY <3>1 DEF ReserveHolds, InClaim
  <2>2. CASE Acquire(g)
    <3>1. /\ free[g] \in Nat /\ free[g] > 0 /\ free'[g] = free[g] - 1
          /\ scenario.concurrent > 1 /\ ~ reserve'[g] => free[g] # 1
          /\ loop'[g] = "claim" /\ scenario' = scenario
      BY <1>0, <2>2 DEF Acquire
    <3> QED BY <3>1 DEF ReserveHolds
  <2>3. CASE Claim(g)
    <3>1. CASE GiveUp(g) BY <1>0, <3>1 DEF GiveUp, ReserveHolds, InClaim
    <3>2. ASSUME NEW w \in First(g), got' = [got EXCEPT ![g] = w], UNCHANGED free
          PROVE  ReserveHolds(g)'
      <4>1. reserve[g] => ~ Background(w)
        BY <3>2 DEF First, Candidates, Background
      <4>2. got'[g] = w /\ free'[g] = free[g] /\ reserve' = reserve
        BY <1>0, <2>3, <3>2 DEF Claim
      <4>3. ReserveHolds(g) /\ InClaim(g)
        BY <2>3 DEF ReserveInv, Claim, InClaim
      <4> QED BY <1>1, <4>1, <4>2, <4>3 DEF ReserveHolds, Background
    <3> QED BY <2>3, <3>1, <3>2 DEF Claim
  <2> QED BY <2>1, <2>2, <2>3 DEF Loop
<1> QED BY <1>2, <1>3 DEF ReserveInv

LEMMA CreateLeavesLanes ==
    ASSUME TypeOK, HoldsInv, Create
    PROVE  /\ \A g \in Consumers : got[g] # None => lane'[got[g]] = lane[got[g]]
           /\ \A t \in Tasks : tpc[t] # "idle" => lane'[job[t]] = lane[job[t]]
<1>0. created \in Nat /\ Work \subseteq Nat /\ lane \in [Work -> Lanes \cup {"ambient"}]
  BY Bounds DEF TypeOK
<1>1. ASSUME NEW w \in Work, w <= created PROVE lane'[w] = lane[w]
  BY <1>0, <1>1 DEF Create
<1> QED BY <1>1 DEF HoldsInv, LoopHolds, TaskHolds

LEMMA ReserveNext ==
    ASSUME TypeOK, BuiltInv, HoldsInv, ReserveInv, [Next]_vars, TypeOK'
    PROVE  ReserveInv'
<1> USE DEF board, consumer, manager, task, past, env
<1>0. /\ loop \in [Consumers -> {"unbuilt", "wait", "acquire", "claim", "fetch", "dead"}]
      /\ free \in [Consumers -> Nat] /\ free' \in [Consumers -> Nat]
      /\ got \in [Consumers -> Work \cup {None}] /\ reserve \in [Consumers -> BOOLEAN]
  BY DEF TypeOK
<1>1. ASSUME UNCHANGED <<scenario, lane, loop, free, got, reserve>> PROVE ReserveInv'
  BY <1>1 DEF ReserveInv, ReserveHolds, InClaim, Background
<1>2. ASSUME NEW t \in Tasks, Begin(t) \/ Finish(t) \/ Close(t) PROVE ReserveInv'
  <2>1. UNCHANGED <<scenario, lane, loop, got, reserve>>
    BY <1>2 DEF Begin, Finish, Close
  <2>2. ASSUME NEW g \in Consumers PROVE free'[g] >= free[g]
    BY <1>0, <1>2 DEF Begin, Finish, Close, Release
  <2>3. ASSUME NEW g \in Consumers PROVE ReserveHolds(g)'
    BY <1>0, <2>1, <2>2, ReserveKept
  <2> QED BY <2>3 DEF ReserveInv
<1>3. CASE Create
  <2>1. UNCHANGED <<scenario, loop, free, got, reserve>>
    BY <1>3 DEF Create
  <2>2. \A g \in Consumers : loop[g] = "fetch" => lane'[got[g]] = lane[got[g]]
    BY <1>3, CreateLeavesLanes, Bounds DEF HoldsInv, LoopHolds
  <2>3. ASSUME NEW g \in Consumers PROVE ReserveHolds(g)'
    BY <1>0, <2>1, <2>2, ReserveKept
  <2> QED BY <2>3 DEF ReserveInv
<1>4. ASSUME NEW c \in Admins, Build(c) PROVE ReserveInv'
  <2>1. UNCHANGED <<scenario, lane, free, got, reserve>>
    BY <1>4 DEF Build
  <2>2. ASSUME NEW g \in Consumers PROVE InClaim(g)' => loop'[g] = loop[g]
    BY <1>0, <1>4 DEF Build, Raised, InClaim
  <2>3. ASSUME NEW g \in Consumers PROVE ReserveHolds(g)'
    BY <1>0, <2>1, <2>2, ReserveKept
  <2> QED BY <2>3 DEF ReserveInv
<1>5. ASSUME NEW c \in Admins, Stopped(c) PROVE ReserveInv'
  <2>1. UNCHANGED <<scenario, lane, free, reserve>>
    BY <1>5 DEF Stopped
  <2>2. ASSUME NEW g \in Consumers
        PROVE  InClaim(g)' => loop'[g] = loop[g] /\ got'[g] = got[g]
    BY <1>0, <1>5 DEF Stopped, InClaim
  <2>3. ASSUME NEW g \in Consumers PROVE ReserveHolds(g)'
    BY <1>0, <2>1, <2>2, ReserveKept
  <2> QED BY <2>3 DEF ReserveInv
<1>6. CASE Crash
  BY <1>6 DEF Crash, ReserveInv, ReserveHolds, InClaim
<1>7. CASE \/ (\E w \in Work : Resume(w) \/ Retry(w)) \/ Drain
           \/ \E c \in Admins : \/ Enable(c) \/ Disable(c) \/ Update(c) \/ Delete(c)
                                \/ Check(c) \/ Stop(c) \/ Reread(c)
           \/ Quiescent \/ UNCHANGED vars
  BY <1>1, <1>7 DEF Resume, Retry, Drain, Enable, Disable, Update, Delete, Check, Stop,
     Reread, TakeOut, Quiescent, vars
<1> QED BY <1>2, <1>3, <1>4, <1>5, <1>6, <1>7, ReserveLoop DEF Next, Manage

\* What ReservedForInteractive bounds.
Load(g) == Cardinality(AtBackground(g)) + (IF got[g] # None /\ Background(got[g]) THEN 1 ELSE 0)

LEMMA RoomInit == Init => ReservedForInteractive
<1> SUFFICES ASSUME Init, NEW g \in Consumers, scenario.concurrent > 1
             PROVE  Load(g) < scenario.concurrent
  BY DEF ReservedForInteractive, Load
<1>1. AtBackground(g) = {} BY Bounds DEF Init, AtBackground, TasksOf
<1>2. scenario.concurrent \in Nat BY Bounds DEF Init, Scenario
<1>3. Cardinality(AtBackground(g)) = 0 BY <1>1, FS_EmptySet
<1> QED BY <1>2, <1>3 DEF Init, Load

\* A step in which consumer g takes up nothing.
LEMMA RoomKept ==
    ASSUME TypeOK, ReservedForInteractive, scenario' = scenario,
           NEW g \in Consumers, loop[g] # "dead", scenario.concurrent > 1,
           AtBackground(g)' \subseteq AtBackground(g),
           got'[g] # None => got'[g] = got[g] /\ lane'[got[g]] = lane[got[g]]
    PROVE  Load(g)' < scenario.concurrent
<1>1. /\ Cardinality(AtBackground(g)) \in Nat /\ Cardinality(AtBackground(g)') \in Nat
      /\ Cardinality(AtBackground(g)') <= Cardinality(AtBackground(g))
  <2>1. IsFiniteSet(AtBackground(g)) BY TasksAreFinite
  <2> QED BY <2>1, Subsets
<1>2. Load(g) < scenario.concurrent
  BY DEF ReservedForInteractive, Load
<1>3. scenario.concurrent \in Nat BY Bounds DEF TypeOK, Scenario
<1> QED BY <1>1, <1>2, <1>3 DEF Load, Background

LEMMA RoomClaim ==
    ASSUME TypeOK, HoldsInv, ReserveInv, SlotsAccounted, ReservedForInteractive,
           NEW g \in Consumers, Claim(g), scenario.concurrent > 1, loop[g] = "claim"
    PROVE  Load(g)' < scenario.concurrent
<1>0. got \in [Consumers -> Work \cup {None}]
  BY DEF TypeOK
<1>1. AtBackground(g)' = AtBackground(g) /\ UNCHANGED <<scenario, lane>>
  BY DEF Claim, task, env, AtBackground, TasksOf, Background
<1>2. CASE UNCHANGED got
  BY <1>1, <1>2, RoomKept
<1>3. ASSUME NEW w \in First(g), got' = [got EXCEPT ![g] = w]
      PROVE  Load(g)' < scenario.concurrent
  <2>1. got'[g] = w /\ got[g] = None
    BY <1>0, <1>3 DEF HoldsInv, LoopHolds
  <2>2. CASE ~ Background(w)
    <3>1. Load(g)' = Cardinality(AtBackground(g)) /\ Load(g) = Cardinality(AtBackground(g))
      BY <1>1, <2>1, <2>2, TasksAreFinite DEF Load, Background
    <3> QED BY <3>1 DEF ReservedForInteractive, Load
  <2>3. CASE Background(w)
    <3>1. ~ reserve[g] BY <1>3, <2>3 DEF First, Candidates, Background
    <3>2. free[g] > 0 BY <3>1 DEF ReserveInv, ReserveHolds, InClaim
    <3>3. free[g] + Cardinality(TasksOf(g)) + 1 + leaked[g] = scenario.concurrent
      BY DEF SlotsAccounted, Slots, InClaim
    <3>4. /\ free[g] \in Nat /\ leaked[g] \in Nat /\ scenario.concurrent \in Nat
          /\ Cardinality(TasksOf(g)) \in Nat /\ Cardinality(AtBackground(g)) \in Nat
          /\ Cardinality(AtBackground(g)) <= Cardinality(TasksOf(g))
      BY Bounds, TasksAreFinite DEF TypeOK, Scenario
    <3>5. Load(g)' \in {Cardinality(AtBackground(g)), Cardinality(AtBackground(g)) + 1}
      BY <1>1, <3>4 DEF Load
    <3> QED BY <3>2, <3>3, <3>4, <3>5
  <2> QED BY <2>2, <2>3
<1> QED BY <1>2, <1>3 DEF Claim

LEMMA RoomFetch ==
    ASSUME TypeOK, HoldsInv, ReservedForInteractive,
           NEW g \in Consumers, loop[g] = "fetch", scenario.concurrent > 1, UNCHANGED <<scenario, lane>>,
           NEW t \in Tasks, tpc[t] = "idle", got' = [got EXCEPT ![g] = None],
           job' = [job EXCEPT ![t] = got[g]], boss' = [boss EXCEPT ![t] = g]
    PROVE  Load(g)' < scenario.concurrent
<1>0. /\ got \in [Consumers -> Work \cup {None}] /\ job \in [Tasks -> Work \cup {None}]
      /\ scenario.concurrent \in Nat /\ got[g] # None
  BY Bounds DEF TypeOK, Scenario, HoldsInv, LoopHolds
<1>1. t \notin TasksOf(g) /\ TasksOf(g)' = TasksOf(g) \cup {t}
  BY SpawnCounts
<1>2. /\ IsFiniteSet(AtBackground(g)) /\ Cardinality(AtBackground(g)) \in Nat
      /\ t \notin AtBackground(g)
  BY <1>1, TasksAreFinite DEF AtBackground
<1>3. \A u \in TasksOf(g) : Background(job[u])' <=> Background(job[u])
  BY <1>0, <1>1 DEF Background, TasksOf
<1>4. Background(job[t])' <=> Background(got[g])
  BY <1>0 DEF Background
<1>5. AtBackground(g)' = AtBackground(g) \cup (IF Background(got[g]) THEN {t} ELSE {})
  BY <1>1, <1>3, <1>4 DEF AtBackground
<1>6. Cardinality(AtBackground(g)')
        = Cardinality(AtBackground(g)) + (IF Background(got[g]) THEN 1 ELSE 0)
  <2>1. CASE Background(got[g]) BY <1>2, <1>5, <2>1, Growth
  <2>2. CASE ~ Background(got[g]) BY <1>2, <1>5, <2>2
  <2> QED BY <2>1, <2>2
<1>7. Load(g)' = Load(g)
  BY <1>0, <1>2, <1>6 DEF Load
<1> QED BY <1>7 DEF ReservedForInteractive, Load

LEMMA RoomNext ==
    ASSUME TypeOK, BuiltInv, HoldsInv, ReserveInv, SlotsAccounted, ReservedForInteractive,
           [Next]_vars
    PROVE  ReservedForInteractive'
<1> SUFFICES ASSUME NEW g \in Consumers, scenario'.concurrent > 1, loop'[g] # "dead"
             PROVE  Load(g)' < scenario'.concurrent
  BY DEF ReservedForInteractive, Load
<1> USE DEF board, consumer, manager, task, past, env
<1>0. /\ loop \in [Consumers -> {"unbuilt", "wait", "acquire", "claim", "fetch", "dead"}]
      /\ got \in [Consumers -> Work \cup {None}] /\ job \in [Tasks -> Work \cup {None}]
      /\ boss \in [Tasks -> Consumers \cup {None}]
  BY DEF TypeOK
<1>1. scenario' = scenario
  BY DEF Next, Loop, WakeUp, Acquire, Claim, Fetch, ClaimRaises, Begin, Finish, Close,
     Create, Resume, Retry, Drain, Enable, Disable, Update, Delete, Enter, Manage, Check,
     Build, Stop, Reread, Stopped, Crash, Quiescent, vars
<1>2. ASSUME loop[g] # "dead", UNCHANGED <<lane, job, boss>>, got'[g] \in {got[g], None}
      PROVE  Load(g)' < scenario'.concurrent
  <2>1. AtBackground(g)' = AtBackground(g)
    BY <1>2 DEF AtBackground, TasksOf, Background
  <2> QED BY <1>1, <1>2, <2>1, RoomKept
<1>3. ASSUME NEW h \in Consumers, Loop(h) PROVE Load(g)' < scenario'.concurrent
  <2>1. loop[g] # "dead"
    BY <1>0, <1>3 DEF Loop, WakeUp, Acquire, Claim, GiveUp, Fetch, ClaimRaises
  <2>2. CASE WakeUp(h) \/ Acquire(h) \/ ClaimRaises(h)
    BY <1>0, <1>2, <2>1, <2>2 DEF WakeUp, Acquire, ClaimRaises
  <2>3. CASE Claim(h)
    <3>1. CASE g = h BY <1>1, <2>3, <3>1, RoomClaim DEF Claim
    <3>2. CASE g # h BY <1>0, <1>2, <2>1, <2>3, <3>2 DEF Claim
    <3> QED BY <3>1, <3>2
  <2>4. CASE Fetch(h)
    <3>1. CASE UNCHANGED task
      BY <1>0, <1>2, <2>1, <2>4, <3>1 DEF Fetch
    <3>2. ASSUME NEW t \in Tasks, tpc[t] = "idle", job' = [job EXCEPT ![t] = got[h]],
                 boss' = [boss EXCEPT ![t] = h]
          PROVE  Load(g)' < scenario'.concurrent
      <4>1. UNCHANGED lane /\ got' = [got EXCEPT ![h] = None] /\ loop[h] = "fetch"
        BY <2>4 DEF Fetch
      <4>2. CASE g = h BY <1>1, <3>2, <4>1, <4>2, RoomFetch
      <4>3. CASE g # h
        <5>1. TasksOf(g)' = TasksOf(g) BY <3>2, <4>3, SpawnCounts
        <5>2. t \notin TasksOf(g)
          BY <3>2, Bounds DEF TasksOf, HoldsInv, TaskHolds
        <5>3. AtBackground(g)' \subseteq AtBackground(g)
          BY <1>0, <3>2, <4>1, <5>1, <5>2 DEF AtBackground, Background, TasksOf
        <5> QED BY <1>0, <1>1, <2>1, <4>1, <4>3, <5>3, RoomKept
      <4> QED BY <4>2, <4>3
    <3> QED BY <2>4, <3>1, <3>2 DEF Fetch, Spare
  <2> QED BY <1>3, <2>2, <2>3, <2>4 DEF Loop
<1>4. ASSUME NEW t \in Tasks, Begin(t) \/ Finish(t) \/ Close(t)
      PROVE  Load(g)' < scenario'.concurrent
  <2>1. UNCHANGED <<lane, loop, got>> /\ tpc[t] # "idle"
    BY <1>4 DEF Begin, Finish, Close
  <2>2. CASE UNCHANGED <<job, boss>>
    BY <1>2, <2>1, <2>2
  <2>3. CASE Release(t)
    <3>1. /\ TasksOf(g)' \subseteq TasksOf(g) \ {t}
          /\ \A u \in TasksOf(g) \ {t} : job'[u] = job[u]
      BY <1>0, <2>1, <2>3, ReleaseCounts DEF Release, TasksOf
    <3>2. AtBackground(g)' \subseteq AtBackground(g)
      BY <2>1, <3>1 DEF AtBackground, Background
    <3> QED BY <1>1, <2>1, <3>2, RoomKept
  <2> QED BY <1>4, <2>2, <2>3 DEF Begin, Finish, Close
<1>5. CASE Create
  <2>1. UNCHANGED <<loop, got, job, boss>>
    BY <1>5 DEF Create
  <2>2. \A t \in TasksOf(g) : lane'[job[t]] = lane[job[t]]
    BY <1>5, CreateLeavesLanes, Bounds DEF TasksOf, HoldsInv, TaskHolds
  <2>3. AtBackground(g)' \subseteq AtBackground(g)
    BY <2>1, <2>2 DEF AtBackground, Background, TasksOf
  <2> QED BY <1>1, <1>5, <2>1, <2>3, CreateLeavesLanes, RoomKept
<1>6. ASSUME NEW c \in Admins, Build(c) PROVE Load(g)' < scenario'.concurrent
  <2>1. loop[g] # "dead"
    <3>1. CASE UNCHANGED loop BY <3>1
    <3>2. CASE built + 1 \in Consumers /\ loop' = [loop EXCEPT ![built + 1] = "wait"]
      <4>1. built \in Nat BY Bounds DEF TypeOK
      <4>2. loop[built + 1] = "unbuilt" BY <3>2, <4>1 DEF BuiltInv
      <4> QED BY <1>0, <3>2, <4>2
    <3> QED BY <1>6, <3>1, <3>2, RoomToBuild DEF Build, Raised
  <2> QED BY <1>2, <1>6, <2>1 DEF Build
<1>7. ASSUME NEW c \in Admins, Stopped(c) PROVE Load(g)' < scenario'.concurrent
  <2>1. loop[g] # "dead" /\ got'[g] \in {got[g], None} /\ UNCHANGED <<lane, job, boss>>
    BY <1>0, <1>7 DEF Stopped
  <2> QED BY <1>2, <2>1
<1>8. CASE Crash
  <2>1. AtBackground(g)' = {} /\ got'[g] = None
    BY <1>8, Bounds DEF Crash, AtBackground, TasksOf
  <2>2. Cardinality(AtBackground(g)') = 0 BY <2>1, FS_EmptySet
  <2>3. scenario.concurrent \in Nat BY Bounds DEF TypeOK, Scenario
  <2> QED BY <1>1, <2>1, <2>2, <2>3 DEF Load
<1>9. CASE \/ (\E w \in Work : Resume(w) \/ Retry(w)) \/ Drain
           \/ \E c \in Admins : \/ Enable(c) \/ Disable(c) \/ Update(c) \/ Delete(c)
                                \/ Check(c) \/ Stop(c) \/ Reread(c)
           \/ Quiescent \/ UNCHANGED vars
  BY <1>2, <1>9 DEF Resume, Retry, Drain, Enable, Disable, Update, Delete, Check, Stop,
     Reread, TakeOut, Quiescent, vars
<1> QED BY <1>3, <1>4, <1>5, <1>6, <1>7, <1>8, <1>9 DEF Next, Manage

-----------------------------------------------------------------------------
(* Nobody works on a row that somebody else holds.                          *)

LEMMA OwnerInit == Init => OwnerInv
BY Bounds DEF Init, OwnerInv, Holds

\* A step in which nobody takes up a row, and rows that are held keep their status.
LEMMA OwnerKept ==
    ASSUME OwnerInv, retried' = retried,
           \A g \in Consumers : got'[g] # None =>
               got'[g] = got[g] /\ status'[got[g]] = status[got[g]],
           \A t \in Tasks : Holds(t)' =>
               tpc'[t] = tpc[t] /\ job'[t] = job[t] /\ status'[job[t]] = status[job[t]]
    PROVE  OwnerInv'
<1> SUFFICES ASSUME retried = 0 PROVE OwnerInv'
  BY DEF OwnerInv
<1>1. /\ \A g \in Consumers : got'[g] # None => status'[got'[g]] = "claimed"
      /\ \A g, h \in Consumers : got'[g] # None /\ g # h => got'[g] # got'[h]
  BY DEF OwnerInv
<1>2. /\ \A t \in Tasks : tpc'[t] = "start" => status'[job'[t]] = "claimed"
      /\ \A t \in Tasks : tpc'[t] = "work" => status'[job'[t]] = "running"
  BY DEF OwnerInv, Holds
<1>3. \A t \in Tasks : Holds(t)' => Holds(t) /\ job'[t] = job[t]
  BY DEF Holds
<1>4. /\ \A t, u \in Tasks : Holds(t)' /\ Holds(u)' /\ t # u => job'[t] # job'[u]
      /\ \A t \in Tasks, g \in Consumers : Holds(t)' /\ got'[g] # None => job'[t] # got'[g]
  BY <1>3 DEF OwnerInv
<1> QED BY <1>1, <1>2, <1>4 DEF OwnerInv

LEMMA OwnerLoop ==
    ASSUME TypeOK, HoldsInv, OwnerInv, NEW g \in Consumers, Loop(g)
    PROVE  OwnerInv'
<1> USE DEF board, manager, task, past, env, spent
<1>0. /\ got \in [Consumers -> Work \cup {None}] /\ None \notin Work
      /\ status \in [Work -> Live \cup {"absent", "completed", "failed"}]
      /\ tpc \in [Tasks -> {"idle", "start", "work", "close"}]
      /\ job \in [Tasks -> Work \cup {None}]
  BY Bounds DEF TypeOK
<1>1. retried' = retried
  BY DEF Loop, WakeUp, Acquire, Claim, Fetch, ClaimRaises
<1>2. CASE UNCHANGED <<status, tpc, job>> /\ \A h \in Consumers : got'[h] \in {got[h], None}
  BY <1>1, <1>2, OwnerKept DEF Holds
<1>3. ASSUME NEW w \in First(g), Claimed(w), got' = [got EXCEPT ![g] = w],
             UNCHANGED <<tpc, job>>, retried = 0
      PROVE  OwnerInv'
  <2>1. w \in Work /\ status[w] \in Claimable /\ status'[w] = "claimed" /\ got'[g] = w
    BY <1>0, <1>3 DEF First, Candidates, Claimed
  <2>2. \A h \in Consumers : h # g => got'[h] = got[h]
    BY <1>0, <1>3
  <2>3. \A v \in Work : v # w => status'[v] = status[v]
    BY <1>0, <1>3 DEF Claimed
  <2>4. \A h \in Consumers : got[h] # None => got[h] \in Work /\ got[h] # w
    BY <1>0, <1>3, <2>1 DEF OwnerInv, Claimable
  <2>5. \A t \in Tasks : Holds(t) => job[t] \in Work /\ job[t] # w
    BY <1>0, <1>3, <2>1 DEF OwnerInv, Claimable, Holds, HoldsInv, TaskHolds
  <2>6. /\ \A h \in Consumers : got'[h] # None => status'[got'[h]] = "claimed"
        /\ \A h, k \in Consumers : got'[h] # None /\ h # k => got'[h] # got'[k]
    BY <1>0, <1>3, <2>1, <2>2, <2>3, <2>4 DEF OwnerInv
  <2>7. /\ \A t \in Tasks : tpc[t] = "start" => status'[job[t]] = "claimed"
        /\ \A t \in Tasks : tpc[t] = "work" => status'[job[t]] = "running"
    BY <1>3, <2>3, <2>5 DEF OwnerInv, Holds
  <2>8. \A t \in Tasks, h \in Consumers : Holds(t) /\ got'[h] # None => job[t] # got'[h]
    BY <1>3, <2>1, <2>2, <2>5 DEF OwnerInv
  <2> QED BY <1>3, <2>6, <2>7, <2>8 DEF OwnerInv, Holds
<1>4. ASSUME NEW t \in Tasks, tpc[t] = "idle", loop[g] = "fetch", retried = 0,
             tpc' = [tpc EXCEPT ![t] = "start"], job' = [job EXCEPT ![t] = got[g]],
             got' = [got EXCEPT ![g] = None], UNCHANGED status
      PROVE  OwnerInv'
  <2>1. got[g] \in Work /\ status[got[g]] = "claimed"
    BY <1>0, <1>4 DEF HoldsInv, LoopHolds, OwnerInv
  <2>2. /\ tpc'[t] = "start" /\ job'[t] = got[g] /\ ~ Holds(t)
        /\ \A u \in Tasks : u # t => tpc'[u] = tpc[u] /\ job'[u] = job[u]
    BY <1>0, <1>4 DEF Holds
  <2>3. got'[g] = None /\ \A h \in Consumers : h # g => got'[h] = got[h]
    BY <1>0, <1>4
  <2>4. /\ \A h \in Consumers : got'[h] # None => status'[got'[h]] = "claimed"
        /\ \A h, k \in Consumers : got'[h] # None /\ h # k => got'[h] # got'[k]
    BY <1>4, <2>3 DEF OwnerInv
  <2>5. /\ \A u \in Tasks : tpc'[u] = "start" => status'[job'[u]] = "claimed"
        /\ \A u \in Tasks : tpc'[u] = "work" => status'[job'[u]] = "running"
    BY <1>4, <2>1, <2>2 DEF OwnerInv
  <2>6. \A u \in Tasks : Holds(u)' => u = t \/ (Holds(u) /\ job'[u] = job[u])
    BY <2>2 DEF Holds
  <2>7. \A u \in Tasks : Holds(u) => job[u] # got[g]
    BY <1>0, <1>4, <2>1 DEF OwnerInv
  <2>8. \A u, v \in Tasks : Holds(u)' /\ Holds(v)' /\ u # v => job'[u] # job'[v]
    BY <1>4, <2>2, <2>6, <2>7 DEF OwnerInv
  <2>9. \A u \in Tasks, h \in Consumers : Holds(u)' /\ got'[h] # None => job'[u] # got'[h]
    <3> SUFFICES ASSUME NEW u \in Tasks, NEW h \in Consumers, Holds(u)', got'[h] # None
                 PROVE  job'[u] # got'[h]
      OBVIOUS
    <3>1. h # g /\ got'[h] = got[h] /\ got[h] # None BY <2>3
    <3>2. got[h] # got[g] BY <1>4, <3>1 DEF OwnerInv
    <3> QED BY <1>4, <2>2, <2>6, <3>1, <3>2 DEF OwnerInv
  <2> QED BY <2>4, <2>5, <2>8, <2>9 DEF OwnerInv
<1>5. CASE retried # 0
  BY <1>1, <1>5 DEF OwnerInv
<1>6. CASE Claim(g)
  BY <1>0, <1>2, <1>3, <1>5, <1>6 DEF Claim
<1>7. CASE Fetch(g)
  <2>1. CASE UNCHANGED task BY <1>0, <1>2, <1>7, <2>1 DEF Fetch
  <2>2. CASE ~ UNCHANGED task BY <1>4, <1>5, <1>7, <2>2 DEF Fetch, Spare
  <2> QED BY <2>1, <2>2
<1>8. CASE WakeUp(g) \/ Acquire(g) \/ ClaimRaises(g)
  BY <1>0, <1>2, <1>8 DEF WakeUp, Acquire, ClaimRaises
<1> QED BY <1>6, <1>7, <1>8 DEF Loop

LEMMA OwnerTask ==
    ASSUME TypeOK, HoldsInv, OwnerInv, NEW t \in Tasks, Begin(t) \/ Finish(t) \/ Close(t)
    PROVE  OwnerInv'
<1> USE DEF board, consumer, env, spent
<1>0. /\ got \in [Consumers -> Work \cup {None}] /\ None \notin Work
      /\ status \in [Work -> Live \cup {"absent", "completed", "failed"}]
      /\ tpc \in [Tasks -> {"idle", "start", "work", "close"}]
      /\ job \in [Tasks -> Work \cup {None}]
  BY Bounds DEF TypeOK
<1>1. UNCHANGED <<got, retried>>
  BY DEF Begin, Finish, Close
<1> SUFFICES ASSUME retried = 0 PROVE OwnerInv'
  BY <1>1 DEF OwnerInv
<1>2. \A u \in Tasks \ {t} : tpc'[u] = tpc[u] /\ job'[u] = job[u]
  BY <1>0 DEF Begin, Finish, Close, Release
<1>3. tpc[t] # "idle" /\ job[t] \in Work /\ \A w \in Work : w # job[t] => status'[w] = status[w]
  BY <1>0 DEF Begin, Finish, Close, HoldsInv, TaskHolds
<1>4. ASSUME Holds(t)
      PROVE  /\ \A g \in Consumers : got[g] # None => status'[got[g]] = status[got[g]]
             /\ \A u \in Tasks \ {t} : Holds(u) => status'[job[u]] = status[job[u]]
  <2>1. \A g \in Consumers : got[g] # None => got[g] \in Work /\ got[g] # job[t]
    BY <1>0, <1>4 DEF OwnerInv
  <2>2. \A u \in Tasks \ {t} : Holds(u) => job[u] \in Work /\ job[u] # job[t]
    BY <1>4 DEF OwnerInv, HoldsInv, TaskHolds, Holds
  <2> QED BY <1>3, <2>1, <2>2
<1>5. CASE ~ Holds(t)'
  <2>1. CASE Holds(t)
    BY <1>1, <1>2, <1>4, <1>5, <2>1, OwnerKept DEF Holds
  <2>2. CASE ~ Holds(t)
    <3>1. UNCHANGED status BY <2>2 DEF Begin, Finish, Close, Holds
    <3> QED BY <1>1, <1>2, <1>5, <3>1, OwnerKept DEF Holds
  <2> QED BY <2>1, <2>2
<1>6. CASE Holds(t)'
  <2>1. /\ tpc[t] = "start" /\ tpc'[t] = "work" /\ job'[t] = job[t] /\ Holds(t)
        /\ status'[job[t]] = "running"
    BY <1>0, <1>3, <1>6 DEF Begin, Finish, Close, Release, Holds
  <2>2. \A g \in Consumers : got'[g] # None => status'[got'[g]] = "claimed"
    BY <1>1, <1>4, <2>1 DEF OwnerInv
  <2>3. \A u \in Tasks : tpc'[u] = "start" => status'[job'[u]] = "claimed"
    BY <1>2, <1>4, <2>1 DEF OwnerInv, Holds
  <2>4. \A u \in Tasks : tpc'[u] = "work" => status'[job'[u]] = "running"
    BY <1>2, <1>4, <2>1 DEF OwnerInv, Holds
  <2>5. \A u \in Tasks : job'[u] = job[u] /\ (Holds(u)' <=> Holds(u))
    BY <1>2, <2>1 DEF Holds
  <2> QED BY <1>1, <2>2, <2>3, <2>4, <2>5 DEF OwnerInv
<1> QED BY <1>5, <1>6

LEMMA OwnerNext ==
    ASSUME TypeOK, HoldsInv, OwnerInv, [Next]_vars
    PROVE  OwnerInv'
<1> USE DEF board, consumer, manager, task, admin, past, env, spent
<1>0. /\ got \in [Consumers -> Work \cup {None}] /\ None \notin Work
      /\ status \in [Work -> Live \cup {"absent", "completed", "failed"}]
      /\ tpc \in [Tasks -> {"idle", "start", "work", "close"}]
      /\ job \in [Tasks -> Work \cup {None}]
      /\ created \in Nat /\ Work \subseteq Nat /\ retried \in Nat
  BY Bounds DEF TypeOK
<1>1. ASSUME UNCHANGED <<status, tpc, job, got, retried>> PROVE OwnerInv'
  BY <1>1, OwnerKept DEF Holds
<1>2. CASE Create
  <2>1. UNCHANGED <<got, tpc, job, retried>>
    BY <1>2 DEF Create
  <2>2. \A w \in Work : w <= created => status'[w] = status[w]
    BY <1>0, <1>2 DEF Create
  <2>3. \A g \in Consumers : got[g] # None => status'[got[g]] = status[got[g]]
    BY <2>2 DEF HoldsInv, LoopHolds
  <2>4. \A t \in Tasks : Holds(t) => status'[job[t]] = status[job[t]]
    BY <2>2 DEF HoldsInv, TaskHolds, Holds
  <2> QED BY <2>1, <2>3, <2>4, OwnerKept DEF Holds
<1>3. ASSUME NEW w \in Work, status[w] \notin {"claimed", "running"},
             \A v \in Work : v # w => status'[v] = status[v],
             UNCHANGED <<tpc, job, retried>>,
             \A g \in Consumers : got'[g] \in {got[g], None}
      PROVE  OwnerInv'
  <2>1. CASE retried # 0 BY <1>3, <2>1 DEF OwnerInv
  <2>2. CASE retried = 0
    <3>1. ASSUME NEW g \in Consumers, got[g] # None PROVE status'[got[g]] = status[got[g]]
      <4>1. got[g] \in Work /\ status[got[g]] = "claimed"
        BY <1>0, <2>2, <3>1 DEF OwnerInv
      <4> QED BY <1>3, <4>1
    <3>2. \A t \in Tasks : Holds(t) => status'[job[t]] = status[job[t]]
      BY <1>3, <2>2 DEF OwnerInv, HoldsInv, TaskHolds, Holds
    <3> QED BY <1>3, <3>1, <3>2, OwnerKept DEF Holds
  <2> QED BY <2>1, <2>2
<1>4. ASSUME NEW w \in Work, Resume(w) PROVE OwnerInv'
  BY <1>0, <1>3, <1>4 DEF Resume
<1>5. ASSUME Drain \/ \E w \in Work : Retry(w) PROVE OwnerInv'
  <2>1. retried' = retried + 1 BY <1>5 DEF Drain, Retry
  <2> QED BY <1>0, <2>1 DEF OwnerInv
<1>6. ASSUME NEW c \in Admins, Stopped(c) PROVE OwnerInv'
  <2>1. UNCHANGED <<tpc, job, retried>> /\ \A g \in Consumers : got'[g] \in {got[g], None}
    BY <1>0, <1>6 DEF Stopped
  <2>2. CASE UNCHANGED status
    BY <2>1, <2>2, OwnerKept DEF Holds
  <2>3. ASSUME NEW w \in First(old[c]), Claimed(w) PROVE OwnerInv'
    <3>1. w \in Work /\ status[w] \notin {"claimed", "running"}
      BY <2>3 DEF First, Candidates, Claimable
    <3>2. \A v \in Work : v # w => status'[v] = status[v]
      BY <1>0, <2>3 DEF Claimed
    <3> QED BY <1>3, <2>1, <3>1, <3>2
  <2> QED BY <1>6, <2>2, <2>3 DEF Stopped
<1>7. CASE Crash
  <2>1. /\ UNCHANGED <<status, retried>> /\ \A g \in Consumers : got'[g] = None
        /\ \A t \in Tasks : tpc'[t] = "idle"
    BY <1>7 DEF Crash
  <2> QED BY <2>1, OwnerKept DEF Holds
<1>8. CASE \/ \E c \in Admins : \/ Enable(c) \/ Disable(c) \/ Update(c) \/ Delete(c)
                                \/ Check(c) \/ Build(c) \/ Stop(c) \/ Reread(c)
           \/ Quiescent \/ UNCHANGED vars
  BY <1>1, <1>8 DEF Enable, Disable, Update, Delete, Check, Build, Stop, Reread, TakeOut,
     Quiescent, vars
<1> QED BY <1>2, <1>4, <1>5, <1>6, <1>7, <1>8, OwnerLoop, OwnerTask DEF Next, Manage

-----------------------------------------------------------------------------
(* The manager's tables agree as long as no two calls overlapped.           *)

LEMMA ManagerInit == Init => ManagerInv
<1> SUFFICES ASSUME Init PROVE ManagerInv
  OBVIOUS
<1>1. TypeOK BY TypeInit
<1>2. 1 \in Consumers /\ registry = 1 /\ notifier = 1 /\ loop[1] # "dead" /\ 1 # None
  BY <1>1, Bounds DEF TypeOK, Init
<1>3. \A g \in Consumers : running[g] <=> g = registry
  BY DEF Init
<1>4. \A c \in Admins : ~ Race(c)
  BY DEF Init, Race
<1> QED BY <1>2, <1>3, <1>4 DEF ManagerInv

\* A step that neither moves a call to or from a race nor touches the tables.
LEMMA ManagerKept ==
    ASSUME ManagerInv, UNCHANGED <<registry, notifier, running>>,
           overlap => overlap',
           \A g \in Consumers : loop'[g] = "dead" => loop[g] = "dead",
           registry \in Consumers \cup {None},
           \A c \in Admins : Race(c)' => Race(c),
           \A c \in Admins : apc[c] = "stopping" => apc'[c] = "stopping"
    PROVE  ManagerInv'
<1> SUFFICES ASSUME ~ overlap PROVE ManagerInv'
  BY DEF ManagerInv
<1>1. \A c, d \in Admins : Race(c)' /\ Race(d)' => c = d
  BY DEF ManagerInv
<1>2. \A g \in Consumers : running'[g] <=> g = registry'
  BY DEF ManagerInv
<1>3. registry # None => /\ notifier' = registry' /\ loop'[registry'] # "dead"
                         /\ \A c \in Admins : ~ Race(c)'
  BY DEF ManagerInv
<1>4. registry' = None /\ (\A c \in Admins : apc'[c] # "stopping") => notifier' = None
  BY DEF ManagerInv
<1> QED BY <1>1, <1>2, <1>3, <1>4 DEF ManagerInv

LEMMA ManagerManage ==
    ASSUME TypeOK, BuiltInv, HoldsInv, ManagerInv, NEW c \in Admins, Manage(c)
    PROVE  ManagerInv'
<1> USE DEF board, consumer, manager, task, past, env
<1>0. /\ apc \in [Admins -> {"idle", "check", "build", "stop", "reread", "stopping"}]
      /\ after \in [Admins -> {"idle", "check"}]
      /\ loop \in [Consumers -> {"unbuilt", "wait", "acquire", "claim", "fetch", "dead"}]
      /\ running \in [Consumers -> BOOLEAN] /\ None \notin Consumers
      /\ registry \in Consumers \cup {None} /\ overlap \in BOOLEAN
  BY Bounds DEF TypeOK
<1>1. overlap => overlap'
  BY Halts DEF Manage, Check, Build, TakeOut, Stopped
<1> SUFFICES ASSUME ~ overlap, ~ overlap' PROVE ManagerInv'
  BY <1>1 DEF ManagerInv
<1>2. CASE Check(c)
  <2>1. UNCHANGED <<registry, notifier, running, loop>>
    BY <1>2 DEF Check
  <2>2. CASE registry # None
    <3>1. apc' = [apc EXCEPT ![c] = "idle"] /\ apc[c] = "check"
      BY <1>2, <2>2 DEF Check
    <3> QED BY <1>0, <2>1, <3>1, ManagerKept DEF Race
  <2>3. CASE registry = None
    <3>1. apc' = [apc EXCEPT ![c] = "build"] /\ apc[c] = "check" /\ ~ Racing(c)
      BY <1>2, <2>3 DEF Check
    <3>2. \A d \in Admins : Race(d)' => d = c
      BY <1>0, <3>1 DEF Race, Racing
    <3>3. notifier = None
      BY <1>0, <2>3, <3>1 DEF ManagerInv, Racing
    <3>4. \A g \in Consumers : running'[g] <=> g = registry'
      BY <2>1 DEF ManagerInv
    <3> QED BY <2>1, <2>3, <3>2, <3>3, <3>4 DEF ManagerInv
  <2> QED BY <2>2, <2>3
<1>3. CASE Build(c)
  <2>1. Race(c) /\ \A d \in Admins : Race(d) => d = c
    BY <1>3 DEF Build, Race, ManagerInv
  <2>2. registry = None
    BY <2>1 DEF ManagerInv
  <2>3. notifier = None /\ \A g \in Consumers : ~ running[g]
    BY <1>0, <1>3, <2>1, <2>2 DEF ManagerInv, Build, Race
  <2>4. \A d \in Admins : ~ Race(d)' /\ apc'[d] # "stopping"
    BY <1>0, <1>3, <2>1 DEF Build, Race
  <2>5. CASE agent_status = "disabled"
    <3>1. UNCHANGED <<registry, notifier, running>>
      BY <1>3, <2>5 DEF Build
    <3> QED BY <1>0, <2>2, <2>3, <2>4, <3>1 DEF ManagerInv
  <2>6. CASE agent_status # "disabled"
    <3>1. built + 1 \in Consumers
      BY <1>3, RoomToBuild DEF Build
    <3>2. /\ registry' = built + 1 /\ notifier' = built + 1
          /\ running' = [running EXCEPT ![built + 1] = TRUE]
          /\ loop' = [loop EXCEPT ![built + 1] = "wait"]
      BY <1>3, <2>6 DEF Build, Raised
    <3>3. loop'[registry'] # "dead" /\ \A g \in Consumers : running'[g] <=> g = registry'
      BY <1>0, <2>3, <3>1, <3>2
    <3> QED BY <1>0, <2>4, <3>1, <3>2, <3>3 DEF ManagerInv
  <2> QED BY <2>5, <2>6
<1>4. CASE Stop(c) \/ Reread(c)
  <2>1. UNCHANGED <<notifier, loop>> /\ apc[c] \in {"stop", "reread"}
    BY <1>4, Halts
  <2>2. CASE ~ TakeOut(c)
    <3>1. /\ \E next \in {"idle", "check"} : apc' = [apc EXCEPT ![c] = next]
          /\ UNCHANGED <<registry, running>>
      BY <1>4, <2>2, Halts
    <3> QED BY <1>0, <1>1, <2>1, <3>1, ManagerKept DEF Race
  <2>3. CASE TakeOut(c)
    <3>1. /\ apc' = [apc EXCEPT ![c] = "stopping"] /\ registry' = None
          /\ running' = [running EXCEPT ![registry] = FALSE] /\ registry # None
      BY <2>3 DEF TakeOut
    <3>2. \A d \in Admins : ~ Race(d)
      BY <3>1 DEF ManagerInv
    <3>3. apc'[c] = "stopping" /\ \A d \in Admins : Race(d)' => d = c
      BY <1>0, <3>1, <3>2 DEF Race
    <3>4. \A g \in Consumers : ~ running'[g]
      BY <1>0, <3>1 DEF ManagerInv
    <3> QED BY <1>0, <3>1, <3>3, <3>4 DEF ManagerInv
  <2> QED BY <2>2, <2>3
<1>5. CASE Stopped(c)
  <2>1. /\ apc[c] = "stopping" /\ apc' = [apc EXCEPT ![c] = after[c]]
        /\ UNCHANGED <<registry, running>> /\ notifier' = None
    BY <1>5 DEF Stopped
  <2>2. registry = None /\ \A d \in Admins : Race(d) => d = c
    BY <2>1 DEF Race, ManagerInv
  <2>3. \A d \in Admins : ~ Race(d)'
    BY <1>0, <2>1, <2>2 DEF Race
  <2> QED BY <1>0, <2>1, <2>2, <2>3 DEF ManagerInv
<1> QED BY <1>2, <1>3, <1>4, <1>5 DEF Manage

LEMMA ManagerNext ==
    ASSUME TypeOK, BuiltInv, HoldsInv, ManagerInv, [Next]_vars
    PROVE  ManagerInv'
<1> USE DEF board, consumer, manager, task, admin, past, env
<1>0. /\ apc \in [Admins -> {"idle", "check", "build", "stop", "reread", "stopping"}]
      /\ loop \in [Consumers -> {"unbuilt", "wait", "acquire", "claim", "fetch", "dead"}]
      /\ registry \in Consumers \cup {None}
  BY DEF TypeOK
<1>1. ASSUME UNCHANGED <<registry, notifier, running, overlap, apc>>,
             \A g \in Consumers : loop'[g] = "dead" => loop[g] = "dead"
      PROVE  ManagerInv'
  BY <1>0, <1>1, ManagerKept DEF Race
<1>2. ASSUME NEW g \in Consumers, Loop(g) PROVE ManagerInv'
  <2>1. UNCHANGED <<registry, notifier, running, overlap, apc>>
    BY <1>2 DEF Loop, WakeUp, Acquire, Claim, Fetch, ClaimRaises
  <2>2. \A h \in Consumers : loop'[h] = "dead" => loop[h] = "dead"
    BY <1>0, <1>2 DEF Loop, WakeUp, Acquire, Claim, GiveUp, Fetch, ClaimRaises
  <2> QED BY <1>1, <2>1, <2>2
<1>3. ASSUME NEW c \in Admins, Enable(c) \/ Disable(c) \/ Update(c) \/ Delete(c)
      PROVE  ManagerInv'
  <2>1. /\ apc[c] = "idle" /\ UNCHANGED <<registry, notifier, running, overlap, loop>>
        /\ \/ apc' = [apc EXCEPT ![c] = "check"]
           \/ apc' = [apc EXCEPT ![c] = "stop"]
           \/ apc' = [apc EXCEPT ![c] = "reread"]
    BY <1>3 DEF Enable, Disable, Update, Delete, Enter, Spare
  <2> QED BY <1>0, <2>1, ManagerKept DEF Race
<1>4. CASE Crash
  <2>1. /\ registry' = notifier' /\ \A c \in Admins : apc'[c] = "idle"
        /\ \A g \in Consumers : running'[g] <=> g = registry'
        /\ registry' # None => registry' = built + 1
    BY <1>4 DEF Crash
  <2>2. registry' # None => loop'[registry'] # "dead"
    <3> SUFFICES ASSUME registry' # None PROVE loop'[registry'] # "dead"
      OBVIOUS
    <3>1. built + 1 \in Consumers BY <1>4, RoomToRestart DEF Crash
    <3>2. built \in Nat BY Bounds DEF TypeOK
    <3>3. registry' = built + 1 BY <2>1
    <3>4. loop'[built + 1] # "dead" BY <1>4, <3>1, <3>2 DEF Crash
    <3> QED BY <3>3, <3>4
  <2> QED BY <2>1, <2>2 DEF ManagerInv, Race
<1>5. CASE \/ \E t \in Tasks : Begin(t) \/ Finish(t) \/ Close(t)
           \/ Create \/ (\E w \in Work : Resume(w) \/ Retry(w)) \/ Drain
           \/ Quiescent \/ UNCHANGED vars
  BY <1>1, <1>5 DEF Begin, Finish, Close, Create, Resume, Retry, Drain, Quiescent, vars
<1> QED BY <1>2, <1>3, <1>4, <1>5, ManagerManage DEF Next

LEMMA DisabledInit == Init => DisabledInv
BY DEF Init, DisabledInv

LEMMA DisabledNext ==
    ASSUME TypeOK, DisabledInv, [Next]_vars PROVE DisabledInv'
<1> USE DEF board, consumer, manager, task, admin, past, env, spent
<1>0. /\ apc \in [Admins -> {"idle", "check", "build", "stop", "reread", "stopping"}]
      /\ agent_status \in {"idle", "processing", "disabled"} /\ defied \in BOOLEAN
  BY DEF TypeOK
\* A step that disables nobody, registers nobody and ends no call in stop_agent.
<1>1. ASSUME agent_status' = "disabled" => agent_status = "disabled",
             registry' \in {registry, None}, defied => defied',
             \A c \in Admins : apc[c] = "stop" => apc'[c] = "stop"
      PROVE  DisabledInv'
  BY <1>1 DEF DisabledInv
<1>2. CASE \E g \in Consumers : Loop(g)
  BY <1>1, <1>2 DEF Loop, WakeUp, Acquire, Claim, Fetch, ClaimRaises
<1>3. CASE \E t \in Tasks : Begin(t) \/ Finish(t) \/ Close(t)
  BY <1>1, <1>3 DEF Begin, Finish, Close
<1>4. CASE Create \/ (\E w \in Work : Resume(w) \/ Retry(w)) \/ Drain
  BY <1>1, <1>4 DEF Create, Resume, Retry, Drain
<1>5. ASSUME NEW c \in Admins, Enable(c) \/ Delete(c) \/ Check(c) \/ Stopped(c)
      PROVE  DisabledInv'
  <2>1. /\ agent_status' = "disabled" => agent_status = "disabled"
        /\ UNCHANGED <<registry, defied>> /\ apc[c] # "stop"
        /\ \A d \in Admins \ {c} : apc'[d] = apc[d]
    BY <1>0, <1>5 DEF Enable, Delete, Check, Stopped, Enter, Spare
  <2> QED BY <1>1, <2>1
<1>6. ASSUME NEW c \in Admins, Disable(c) PROVE DisabledInv'
  BY <1>0, <1>6 DEF Disable, Enter, DisabledInv
<1>7. ASSUME NEW c \in Admins, Update(c) PROVE DisabledInv'
  <2>1. /\ registry' = registry /\ apc[c] = "idle"
        /\ \A d \in Admins \ {c} : apc'[d] = apc[d]
        /\ \E s \in {agent_status, "idle", "disabled"} :
              agent_status' = s /\ defied' = (defied \/ (s = "disabled" /\ registry # None))
    BY <1>0, <1>7 DEF Update, Enter, Spare
  <2> QED BY <2>1 DEF DisabledInv
<1>8. ASSUME NEW c \in Admins, Build(c) PROVE DisabledInv'
  <2>1. CASE agent_status = "disabled"
    <3>1. /\ UNCHANGED <<registry, defied, agent_status>> /\ apc[c] # "stop"
          /\ \A d \in Admins \ {c} : apc'[d] = apc[d]
      BY <1>0, <1>8, <2>1 DEF Build
    <3> QED BY <1>1, <3>1
  <2>2. CASE agent_status # "disabled"
    BY <1>8, <2>2 DEF Build, DisabledInv
  <2> QED BY <2>1, <2>2
<1>9. ASSUME NEW c \in Admins, Stop(c) \/ Reread(c) PROVE DisabledInv'
  <2>1. CASE TakeOut(c) BY <2>1 DEF TakeOut, DisabledInv
  <2>2. CASE registry = None BY <1>9, <2>2, Halts DEF TakeOut, DisabledInv
  <2>3. CASE registry # None /\ ~ TakeOut(c)
    <3>1. /\ apc[c] # "stop" /\ UNCHANGED <<registry, defied, agent_status>>
      BY <1>9, <2>3 DEF Stop, Reread
    <3>2. \A d \in Admins \ {c} : apc'[d] = apc[d]
      BY <1>0, <1>9, <2>3, Halts
    <3> QED BY <1>1, <3>1, <3>2
  <2> QED BY <2>1, <2>2, <2>3
<1>10. CASE Crash
  <2>1. agent_status' = "disabled" => registry' = None
    BY <1>10 DEF Crash
  <2> QED BY <2>1 DEF DisabledInv
<1>11. CASE Quiescent \/ UNCHANGED vars
  BY <1>1, <1>11 DEF Quiescent, vars
<1> QED BY <1>2, <1>3, <1>4, <1>5, <1>6, <1>7, <1>8, <1>9, <1>10, <1>11 DEF Next, Manage

-----------------------------------------------------------------------------
(* The theorems.                                                            *)

\* Whatever the loops, tasks, sweeps, calls, errors and restarts do, in any
\* order, every table keeps its type: in particular no more consumers are ever
\* built than one, plus one for every call and for every restart.
THEOREM TypeCorrect == Spec => []TypeOK
<1>1. Init => TypeOK /\ BuiltInv /\ HoldsInv
  BY TypeInit, BuiltInit, HoldsInit
<1>2. TypeOK /\ BuiltInv /\ HoldsInv /\ [Next]_vars => (TypeOK /\ BuiltInv /\ HoldsInv)'
  BY TypeNext, BuiltNext, HoldsNext
<1> QED BY <1>1, <1>2, PTL DEF Spec

\* The inductive invariant: what loops, tasks and calls hold exists, a claim
\* keeps the slots its reservation was decided on, a row that is held shows it
\* in its status, and the manager's tables agree unless two calls overlapped.
THEOREM AgentInvariant == Spec => []AgentInv
<1>1. Init => TypeOK /\ AgentInv
  BY TypeInit, BuiltInit, HoldsInit, ReserveInit, OwnerInit, ManagerInit,
     DisabledInit, SlotsInit, RoomInit
     DEF AgentInv
<1>2. TypeOK /\ AgentInv /\ [Next]_vars => (TypeOK /\ AgentInv)'
  BY TypeNext, BuiltNext, HoldsNext, ReserveNext, OwnerNext, ManagerNext,
     DisabledNext, SlotsNext, RoomNext
     DEF AgentInv
<1> QED BY <1>1, <1>2, PTL DEF Spec

\* For every semaphore and however many tasks it lends to: each slot of a
\* consumer is free, with one task, with the claim under way or lost to a claim
\* that raised (the releases of _process_with_semaphore and of an empty claim).
THEOREM SlotsAreAccounted == Spec => []SlotsAccounted
BY AgentInvariant, PTL DEF AgentInv

\* The reservation of _run_loop works: an agent with several slots never has all
\* of them at work in the background, although the semaphore is looked at before
\* the claim and tasks end in between.
THEOREM InteractiveHasRoom == Spec => []ReservedForInteractive
BY AgentInvariant, PTL DEF AgentInv

LEMMA OwnersAreSingle ==
    ASSUME OwnerInv PROVE OneHolder
<1> SUFFICES ASSUME retried = 0, NEW w \in Work
             PROVE  Cardinality(Holders(w)) + Cardinality(Fetching(w)) <= 1
  BY DEF OneHolder
<1>1. \A t, u \in Holders(w) : t = u
  BY DEF OwnerInv, Holders, Holds
<1>2. \A g, h \in Fetching(w) : g = h
  BY Bounds DEF OwnerInv, Fetching
<1>3. ASSUME NEW t \in Holders(w), NEW g \in Fetching(w) PROVE FALSE
  <2>1. t \in Tasks /\ Holds(t) /\ job[t] = w
    BY DEF Holders, Holds
  <2>2. g \in Consumers /\ got[g] = w /\ got[g] # None
    BY Bounds DEF Fetching
  <2> QED BY <2>1, <2>2 DEF OwnerInv
<1>4. ASSUME NEW S, \A x, y \in S : x = y
      PROVE  (S = {} /\ Cardinality(S) = 0) \/ Cardinality(S) = 1
  <2>1. CASE S = {} BY <2>1, FS_EmptySet
  <2>2. ASSUME NEW x \in S PROVE Cardinality(S) = 1
    <3>1. S = {x} BY <1>4
    <3> QED BY <3>1, FS_Singleton
  <2> QED BY <2>1, <2>2
<1>5. (Holders(w) = {} /\ Cardinality(Holders(w)) = 0) \/ Cardinality(Holders(w)) = 1
  BY <1>1, <1>4
<1>6. (Fetching(w) = {} /\ Cardinality(Fetching(w)) = 0) \/ Cardinality(Fetching(w)) = 1
  BY <1>2, <1>4
<1>7. Holders(w) = {} \/ Fetching(w) = {}
  BY <1>3
<1>8. Cardinality(Holders(w)) = 0 \/ Cardinality(Fetching(w)) = 0
  BY <1>7, FS_EmptySet
<1> QED BY <1>5, <1>6, <1>8

\* claim_next gives an assignment to one loop and the loop to one task, for any
\* number of consumers that replace one another: nobody works on it twice at
\* once as long as no drain or retry takes a row from under its task.
THEOREM OneHolderAtATime == Spec => []OneHolder
<1>1. AgentInv => OneHolder
  BY OwnersAreSingle DEF AgentInv
<1> QED BY <1>1, AgentInvariant, PTL

\* Calls that do not overlap leave the manager consistent: the registered
\* consumer is the one that runs and the one the router wakes. And however calls
\* overlap, a disabled agent has a consumer only where a PUT disabled it.
THEOREM ManagerAgrees == Spec => []ManagerConsistent
<1>1. AgentInv => ManagerConsistent
  <2> SUFFICES ASSUME ManagerInv, DisabledInv, \A c \in Admins : apc[c] = "idle"
               PROVE  /\ ~ overlap => /\ notifier = registry
                                      /\ \A g \in Consumers : running[g] <=> g = registry
                                      /\ registry # None => loop[registry] # "dead"
                      /\ agent_status = "disabled" /\ ~ defied => registry = None
    BY DEF AgentInv, ManagerConsistent
  <2>1. ASSUME ~ overlap
        PROVE  /\ notifier = registry
               /\ \A g \in Consumers : running[g] <=> g = registry
               /\ registry # None => loop[registry] # "dead"
    <3>1. registry = None => notifier = None
      BY <2>1 DEF ManagerInv
    <3>2. registry # None => notifier = registry /\ loop[registry] # "dead"
      BY <2>1 DEF ManagerInv
    <3>3. \A g \in Consumers : running[g] <=> g = registry
      BY <2>1 DEF ManagerInv
    <3> QED BY <3>1, <3>2, <3>3
  <2>2. agent_status = "disabled" /\ ~ defied => registry = None
    BY DEF DisabledInv
  <2> QED BY <2>1, <2>2
<1> QED BY <1>1, AgentInvariant, PTL
=============================================================================
