--------------------------- MODULE ToolLoopProofs ---------------------------
(***************************************************************************)
(* Proofs about the tool loop for any number of assignments, tasks, API      *)
(* calls, retries and batches of any length: type correctness, the inductive *)
(* invariant and the four safety properties it implies, and that assignments *)
(* follow their lifecycle.                                                   *)
(***************************************************************************)
EXTENDS ToolLoopProperties, FiniteSetTheorems, SequenceTheorems, TLAPS

-----------------------------------------------------------------------------
(* Loop states and rows.                                                    *)

LEMMA Numbers ==
    /\ {MaxIters, MaxRetries, MaxBatch, MaxTurns, MaxRows, MaxCalls, MaxFaults,
        MaxCrashes} \subseteq Nat
    /\ None \notin Assignments /\ None \notin Nat /\ None \notin LoopStates
    /\ IsFiniteSet(Tasks) /\ IsFiniteSet(Callers)
BY LoopAssumption DEF LoopAssumption

LEMMA FreshType == Fresh \in LoopStates
<1>1. << >> \in Seq(Acts) /\ << >> \in Seq({"executed", "denied"})
  OBVIOUS
<1> QED BY <1>1 DEF Fresh, LoopStates

LEMMA BetweenType ==
    ASSUME NEW m \in LoopStates PROVE Between(m) \in LoopStates
<1>1. << >> \in Seq(Acts) /\ << >> \in Seq({"executed", "denied"})
  OBVIOUS
<1> QED BY <1>1 DEF Between, Fresh, LoopStates

LEMMA AnswerType ==
    ASSUME NEW m \in LoopStates, NEW act \in Acts, NEW told \in {"executed", "denied"}
    PROVE  Answer(m, act, told) \in LoopStates
<1>1. Append(m.partial, act) \in Seq(Acts)
  BY DEF LoopStates
<1>2. Append(m.told, told) \in Seq({"executed", "denied"})
  BY DEF LoopStates
<1> QED BY <1>1, <1>2 DEF Answer, LoopStates

\* Rows are added and written, never removed or renamed, and not run less.
RowsKeep ==
    /\ rows' \in Seq(Row)
    /\ Rows \subseteq Rows'
    /\ \A r \in Rows : rows'[r].act = rows[r].act /\ rows'[r].runs >= rows[r].runs

LEMMA RowIs ==
    ASSUME rows \in Seq(Row), NEW r \in Rows
    PROVE  /\ rows[r] \in Row /\ r \in Nat
           /\ rows[r].act \in Acts /\ rows[r].runs \in Nat
           /\ rows[r].trust \in {"auto", "confirm"} /\ rows[r].approvals \in Nat
           /\ rows[r].status \in {"waiting_confirmation", "approved", "denied", "completed"}
<1>1. r \in 1 .. Len(rows) /\ Len(rows) \in Nat BY DEF Rows
<1>2. rows[r] \in Row /\ r \in Nat BY <1>1
<1> QED BY <1>2 DEF Row

LEMMA RowsSame ==
    ASSUME rows \in Seq(Row), UNCHANGED rows PROVE RowsKeep
<1>1. \A r \in Rows : rows[r].runs >= rows[r].runs
  BY RowIs
<1> QED BY <1>1 DEF RowsKeep, Rows

LEMMA WriteKeeps ==
    ASSUME rows \in Seq(Row), NEW r \in Rows, NEW new \in Row,
           new.act = rows[r].act, new.runs >= rows[r].runs,
           rows' = [rows EXCEPT ![r] = new]
    PROVE  /\ RowsKeep /\ Rows' = Rows
           /\ rows'[r] = new
           /\ \A o \in Rows : o # r => rows'[o] = rows[o]
<1>1. /\ rows' \in Seq(Row) /\ Len(rows') = Len(rows)
      /\ \A o \in 1 .. Len(rows) : rows'[o] = IF o = r THEN new ELSE rows[o]
  BY ExceptSeq DEF Rows
<1>2. Rows' = Rows BY <1>1 DEF Rows
<1>3. \A o \in Rows : rows[o].runs >= rows[o].runs BY RowIs
<1> QED BY <1>1, <1>2, <1>3 DEF RowsKeep, Rows

LEMMA ResolveKeeps ==
    ASSUME rows \in Seq(Row), NEW r \in Rows, NEW how \in {"approved", "denied"},
           Resolve(r, how)
    PROVE  /\ RowsKeep /\ Rows' = Rows
           /\ \A o \in Rows : /\ rows'[o].runs = rows[o].runs
                              /\ rows'[o].trust = rows[o].trust
                              /\ rows'[o].status \in {rows[o].status, how}
           /\ \A o \in Rows : rows'[o].approvals =
                 IF o = r /\ how = "approved" THEN rows[o].approvals + 1
                                             ELSE rows[o].approvals
<1> DEFINE new == [rows[r] EXCEPT
              !.status = IF @ = "waiting_confirmation" THEN how ELSE @,
              !.approvals = IF how = "approved" THEN @ + 1 ELSE @]
<1>1. rows[r] \in Row /\ rows[r].runs \in Nat /\ rows[r].approvals \in Nat BY RowIs
<1>2. /\ new \in Row /\ new.act = rows[r].act /\ new.runs >= rows[r].runs
      /\ new.status \in {rows[r].status, how} /\ new.trust = rows[r].trust
      /\ new.runs = rows[r].runs
      /\ new.approvals = IF how = "approved" THEN rows[r].approvals + 1
                                            ELSE rows[r].approvals
  <2> DEFINE s == IF rows[r].status = "waiting_confirmation" THEN how ELSE rows[r].status
             n == IF how = "approved" THEN rows[r].approvals + 1 ELSE rows[r].approvals
  <2>1. new = [rows[r] EXCEPT !.status = s, !.approvals = n] OBVIOUS
  <2>2. /\ s \in {rows[r].status, how} /\ n \in Nat
        /\ s \in {"waiting_confirmation", "approved", "denied", "completed"}
    BY RowIs
  <2> HIDE DEF s, n, new
  <2>3. new = [act |-> rows[r].act, trust |-> rows[r].trust, status |-> s,
               runs |-> rows[r].runs, approvals |-> n]
    BY <1>1, <2>1 DEF Row
  <2>4. new \in Row BY <2>2, <2>3, RowIs DEF Row
  <2>5. /\ new.act = rows[r].act /\ new.runs = rows[r].runs
        /\ new.trust = rows[r].trust /\ new.status = s /\ new.approvals = n
    BY <2>3
  <2> QED BY <1>1, <2>2, <2>4, <2>5 DEF s, n
<1>3. rows' = [rows EXCEPT ![r] = new] BY DEF Resolve
<1> HIDE DEF new
<1>4. /\ RowsKeep /\ Rows' = Rows /\ rows'[r] = new
      /\ \A o \in Rows : o # r => rows'[o] = rows[o]
  BY <1>2, <1>3, WriteKeeps
<1> QED BY <1>2, <1>4

LEMMA ExecuteKeeps ==
    ASSUME rows \in Seq(Row), NEW r \in Rows, rows' = [rows EXCEPT ![r].runs = @ + 1]
    PROVE  /\ RowsKeep /\ Rows' = Rows
           /\ rows'[r].runs > 0 /\ rows'[r].status = rows[r].status
           /\ rows'[r].runs = rows[r].runs + 1 /\ rows'[r].trust = rows[r].trust
           /\ rows'[r].approvals = rows[r].approvals
           /\ \A o \in Rows : o # r => rows'[o] = rows[o]
<1> DEFINE new == [rows[r] EXCEPT !.runs = @ + 1]
<1>1. rows[r] \in Row /\ rows[r].runs \in Nat BY RowIs
<1>2. /\ new \in Row /\ new.act = rows[r].act /\ new.runs >= rows[r].runs
      /\ new.runs > 0 /\ new.status = rows[r].status
      /\ new.runs = rows[r].runs + 1 /\ new.trust = rows[r].trust
      /\ new.approvals = rows[r].approvals
  <2> DEFINE n == rows[r].runs + 1
  <2>0. new = [rows[r] EXCEPT !.runs = n] OBVIOUS
  <2> HIDE DEF new, n
  <2>1. new = [act |-> rows[r].act, trust |-> rows[r].trust, status |-> rows[r].status,
               runs |-> n, approvals |-> rows[r].approvals]
    BY <1>1, <2>0 DEF Row
  <2>2. n \in Nat BY <1>1 DEF n
  <2>3. new \in Row BY <2>1, <2>2, RowIs DEF Row
  <2> QED BY <1>1, <2>1, <2>3 DEF n
<1>3. rows' = [rows EXCEPT ![r] = new] OBVIOUS
<1> HIDE DEF new
<1> QED BY <1>2, <1>3, WriteKeeps

LEMMA RecordKeeps ==
    ASSUME rows \in Seq(Row), NEW r \in Rows, rows' = [rows EXCEPT ![r].status = "completed"]
    PROVE  /\ RowsKeep /\ Rows' = Rows
           /\ rows'[r].runs = rows[r].runs /\ rows'[r].trust = rows[r].trust
           /\ rows'[r].approvals = rows[r].approvals
           /\ \A o \in Rows : o # r => rows'[o] = rows[o]
<1> DEFINE new == [rows[r] EXCEPT !.status = "completed"]
<1>1. rows[r] \in Row /\ rows[r].runs \in Nat BY RowIs
<1>2. /\ new \in Row /\ new.act = rows[r].act /\ new.runs >= rows[r].runs
      /\ new.runs = rows[r].runs /\ new.trust = rows[r].trust
      /\ new.approvals = rows[r].approvals
  <2>1. new = [act |-> rows[r].act, trust |-> rows[r].trust, status |-> "completed",
               runs |-> rows[r].runs, approvals |-> rows[r].approvals]
    BY <1>1 DEF Row
  <2> HIDE DEF new
  <2>2. new \in Row BY <2>1, RowIs DEF Row
  <2> QED BY <1>1, <2>1, <2>2
<1>3. rows' = [rows EXCEPT ![r] = new] OBVIOUS
<1> HIDE DEF new
<1> QED BY <1>2, <1>3, WriteKeeps

LEMMA ProposeKeeps ==
    ASSUME rows \in Seq(Row), NEW new \in Row, rows' = Append(rows, new)
    PROVE  /\ RowsKeep
           /\ Len(rows) + 1 \in Rows' /\ rows'[Len(rows) + 1] = new
           /\ Rows' = Rows \cup {Len(rows) + 1}
           /\ \A o \in Rows : rows'[o] = rows[o]
<1>1. /\ rows' \in Seq(Row) /\ Len(rows') = Len(rows) + 1 /\ Len(rows) \in Nat
      /\ \A o \in 1 .. Len(rows) : rows'[o] = rows[o]
      /\ rows'[Len(rows) + 1] = new
  BY AppendProperties, LenProperties
<1>2. Rows' = Rows \cup {Len(rows) + 1} BY <1>1 DEF Rows
<1>3. \A o \in Rows : rows[o].runs >= rows[o].runs BY RowIs
<1> QED BY <1>1, <1>2, <1>3 DEF RowsKeep, Rows

-----------------------------------------------------------------------------
(* Type correctness, and who works on what.                                 *)

LEMMA BoardSame ==
    ASSUME BoardType, RowsKeep, UNCHANGED board PROVE BoardType'
<1>1. waiting_action' \in [Assignments -> Rows' \cup {None}]
  BY DEF BoardType, board, RowsKeep
<1> QED BY <1>1 DEF BoardType, board, RowsKeep

LEMMA TaskSame ==
    ASSUME TaskType, RowsKeep, UNCHANGED task PROVE TaskType'
<1>1. ask' \in [Tasks -> Rows' \cup {None}]
  BY DEF TaskType, task, RowsKeep
<1> QED BY <1>1 DEF TaskType, task, RowsKeep

LEMMA CallSame ==
    ASSUME CallType, RowsKeep, UNCHANGED <<call, due>> PROVE CallType'
<1>1. /\ target' \in [Callers -> Rows' \cup {None}]
      /\ todo' \in [Callers -> SUBSET Rows']
  BY DEF CallType, call, RowsKeep
<1> QED BY <1>1 DEF CallType, call

LEMMA PastSame ==
    ASSUME PastType, UNCHANGED past, calls' \in Nat, faults' \in Nat, crashes' \in Nat
    PROVE  PastType'
BY DEF PastType, past

\* A step that leaves the API calls alone.
LEMMA LinkKept ==
    ASSUME TypeOK, LinkInv, RowsKeep, UNCHANGED call,
           \A r \in Rows' : rows'[r].status = "completed" => rows'[r].runs > 0,
           \A t \in Tasks : tpc'[t] = "idle" <=> job'[t] = None
    PROVE  LinkInv'
<1>1. ASSUME NEW c \in Callers
      PROVE  /\ cpc'[c] \in {"execute", "record", "find", "mark"} => target'[c] \in Rows'
             /\ cpc'[c] = "mark" => found'[c] \in Assignments
             /\ cpc'[c] = "record" => rows'[target'[c]].runs > 0
  <2>1. CASE cpc[c] \in {"execute", "record", "find", "mark"}
    <3>1. target[c] \in Rows /\ rows[target[c]].runs \in Nat
      BY <2>1, RowIs DEF LinkInv, TypeOK, BoardType
    <3>2. target[c] \in Rows' /\ rows'[target[c]].runs >= rows[target[c]].runs
          /\ rows'[target[c]].runs \in Nat
      <4>1. target[c] \in Rows' BY <3>1 DEF RowsKeep
      <4>2. rows'[target[c]] \in Row BY <4>1 DEF RowsKeep, Rows
      <4> QED BY <3>1, <4>1, <4>2 DEF RowsKeep, Row
    <3> QED BY <3>1, <3>2 DEF call, LinkInv
  <2> QED BY <2>1 DEF call
<1> QED BY <1>1 DEF LinkInv

LEMMA CompletedSame ==
    ASSUME LinkInv, UNCHANGED rows
    PROVE  \A r \in Rows' : rows'[r].status = "completed" => rows'[r].runs > 0
BY DEF LinkInv, Rows

LEMMA BaseInit == Init => TypeOK /\ LinkInv
<1> SUFFICES ASSUME Init PROVE TypeOK /\ LinkInv
  OBVIOUS
<1> USE DEF Init
<1>1. rows \in Seq(Row) /\ Rows = {}
  <2>1. Len(<< >>) = 0 OBVIOUS
  <2> QED BY <2>1 DEF Rows
<1>2. BoardType
  BY <1>1 DEF BoardType, Statuses
<1>3. TaskType BY <1>1, FreshType DEF TaskType
<1>4. CallType BY <1>1 DEF CallType
<1>5. PastType
  <2>1. answers \in Seq([of : Assignments, batch : Answers]) /\ Len(answers) = 0
    OBVIOUS
  <2> QED BY <2>1, Numbers DEF PastType
<1>6. LinkInv BY <1>1, Numbers DEF LinkInv
<1> QED BY <1>2, <1>3, <1>4, <1>5, <1>6 DEF TypeOK

\* What every step of a task leaves as it should be.
TaskBase == /\ BoardType' /\ TaskType' /\ PastType' /\ RowsKeep
            /\ \A r \in Rows' : rows'[r].status = "completed" => rows'[r].runs > 0
            /\ \A t \in Tasks : tpc'[t] = "idle" <=> job'[t] = None
            /\ UNCHANGED <<call, due>>

LEMMA TaskBaseSuffices ==
    ASSUME TypeOK, LinkInv, TaskBase PROVE TypeOK' /\ LinkInv'
BY LinkKept, CallSame DEF TaskBase, TypeOK

LEMMA EndType ==
    ASSUME TaskType, LinkInv, RowsKeep, NEW t \in Tasks, End(t)
    PROVE  TaskType' /\ \A u \in Tasks : tpc'[u] = "idle" <=> job'[u] = None
<1>1. ask' \in [Tasks -> Rows' \cup {None}]
  BY DEF TaskType, End, RowsKeep
<1>2. /\ mem' \in [Tasks -> LoopStates] /\ iter' \in [Tasks -> Nat]
      /\ job' \in [Tasks -> Assignments \cup {None}]
  BY FreshType DEF TaskType, End
<1>3. tpc' = [tpc EXCEPT ![t] = "idle"] /\ job' = [job EXCEPT ![t] = None]
  BY DEF End, Go
<1> QED BY <1>1, <1>2, <1>3 DEF TaskType, LinkInv

LEMMA GoType ==
    ASSUME TaskType, LinkInv, RowsKeep, NEW t \in Tasks, tpc[t] # "idle",
           NEW phase \in {"start", "restore", "loop", "suspend", "complete", "fail"},
           tpc' = [tpc EXCEPT ![t] = phase], UNCHANGED job,
           mem' \in [Tasks -> LoopStates], iter' \in [Tasks -> Nat],
           ask' \in [Tasks -> Rows' \cup {None}]
    PROVE  TaskType' /\ \A u \in Tasks : tpc'[u] = "idle" <=> job'[u] = None
BY DEF TaskType, LinkInv

LEMMA JobIs ==
    ASSUME TaskType, LinkInv, NEW t \in Tasks, tpc[t] # "idle"
    PROVE  job[t] \in Assignments
BY DEF TaskType, LinkInv

LEMMA ClaimBase ==
    ASSUME TypeOK, LinkInv, NEW t \in Tasks, Claim(t) PROVE TaskBase
<1>1. RowsKeep BY RowsSame DEF TypeOK, BoardType, Claim
<1>2. PICK a \in Assignments : /\ status' = [status EXCEPT ![a] = "claimed"]
                                /\ job' = [job EXCEPT ![t] = a]
  BY DEF Claim
<1>3. BoardType'
  <2>1. status' \in [Assignments -> Statuses] BY <1>2 DEF TypeOK, BoardType, Statuses
  <2> QED BY <2>1 DEF TypeOK, BoardType, Claim, Rows
<1>4. TaskType' /\ \A u \in Tasks : tpc'[u] = "idle" <=> job'[u] = None
  <2>1. tpc' = [tpc EXCEPT ![t] = "fetch"] BY DEF Claim, Go
  <2> QED BY <1>2, <2>1, Numbers DEF TypeOK, TaskType, LinkInv, Claim, Rows
<1>5. PastType' BY DEF TypeOK, PastType, Claim, past, env
<1> QED BY <1>1, <1>3, <1>4, <1>5, CompletedSame DEF TaskBase, Claim

LEMMA FetchBase ==
    ASSUME TypeOK, LinkInv, NEW t \in Tasks, Fetch(t) PROVE TaskBase
<1> USE DEF Fetch
<1>1. RowsKeep BY RowsSame DEF TypeOK, BoardType
<1>2. BoardType' BY <1>1, BoardSame DEF TypeOK
<1>3. PastType' BY DEF TypeOK, PastType, past, env
<1>4. TaskType' /\ \A u \in Tasks : tpc'[u] = "idle" <=> job'[u] = None
  <2>1. CASE status[job[t]] # "claimed" BY <1>1, <2>1, EndType DEF TypeOK
  <2>2. CASE status[job[t]] = "claimed"
    <3>1. job[t] \in Assignments BY JobIs DEF TypeOK
    <3>2. mem' \in [Tasks -> LoopStates] /\ iter' \in [Tasks -> Nat]
      <4>1. conversation[job[t]] # None => conversation[job[t]] \in LoopStates
        BY <3>1 DEF TypeOK, BoardType
      <4>2. mem' \in [Tasks -> LoopStates]
        BY <2>2, <4>1, FreshType DEF TypeOK, TaskType
      <4>3. iteration[job[t]] \in Nat /\ iter \in [Tasks -> Nat]
        BY <3>1 DEF TypeOK, TaskType, BoardType
      <4>4. iter' \in [Tasks -> Nat] BY <2>2, <4>3
      <4> QED BY <4>2, <4>4
    <3>3. ask' \in [Tasks -> Rows' \cup {None}]
      BY <2>2, <3>1 DEF TypeOK, TaskType, BoardType, Rows
    <3>4. tpc[t] # "idle" /\ tpc' = [tpc EXCEPT ![t] = "start"] /\ UNCHANGED job
      BY <2>2 DEF Go
    <3> QED BY <1>1, <3>2, <3>3, <3>4, GoType DEF TypeOK
  <2> QED BY <2>1, <2>2
<1> QED BY <1>1, <1>2, <1>3, <1>4, CompletedSame DEF TaskBase

LEMMA BeginBase ==
    ASSUME TypeOK, LinkInv, NEW t \in Tasks, Begin(t) PROVE TaskBase
<1> USE DEF Begin
<1>1. RowsKeep BY RowsSame DEF TypeOK, BoardType
<1>2. job[t] \in Assignments /\ tpc[t] # "idle" BY JobIs DEF TypeOK
<1>3. BoardType'
  <2>1. status' \in [Assignments -> Statuses] BY <1>2 DEF TypeOK, BoardType, Statuses
  <2>2. event_status' \in [Assignments -> {"assigned", "processing", "completed", "failed"}]
    BY <1>2 DEF TypeOK, BoardType
  <2> QED BY <2>1, <2>2 DEF TypeOK, BoardType, Rows
<1>4. TaskType' /\ \A u \in Tasks : tpc'[u] = "idle" <=> job'[u] = None
  <2>1. CASE End(t) BY <1>1, <2>1, EndType DEF TypeOK
  <2>2. CASE ~ End(t)
    <3>1. tpc' = [tpc EXCEPT ![t] = "restore"] /\ UNCHANGED <<job, mem, iter, ask>>
      BY <2>2 DEF Go
    <3>2. ask' \in [Tasks -> Rows' \cup {None}]
      BY <3>1 DEF TypeOK, TaskType, Rows
    <3> QED BY <1>1, <1>2, <3>1, <3>2, GoType DEF TypeOK, TaskType
  <2> QED BY <2>1, <2>2
<1>5. PastType' BY DEF TypeOK, PastType, past, Raise
<1> QED BY <1>1, <1>3, <1>4, <1>5, CompletedSame DEF TaskBase

LEMMA HarvestedType ==
    ASSUME TypeOK, NEW m \in LoopStates, NEW r \in Rows \cup {None}
    PROVE  Harvested(m, r) \in LoopStates
<1>1. CASE r = None BY <1>1 DEF Harvested
<1>2. CASE r # None
  <2>1. rows[r].act \in Acts BY <1>2, RowIs DEF TypeOK, BoardType
  <2> QED BY <1>2, <2>1, AnswerType DEF Harvested
<1> QED BY <1>1, <1>2

LEMMA RestoreBase ==
    ASSUME TypeOK, LinkInv, NEW t \in Tasks, Restore(t) PROVE TaskBase
<1> DEFINE m == Harvested(mem[t], ask[t])
           new == Unnoted(m, iter[t])
<1>0. /\ tpc[t] # "idle" /\ tpc' = [tpc EXCEPT ![t] = "loop"]
      /\ mem' = [mem EXCEPT ![t] = [m EXCEPT !.noted = @ \/ new]]
      /\ turns' = [turns EXCEPT ![job[t]].user = IF new THEN @ + 1 ELSE @]
      /\ ask' = [ask EXCEPT ![t] = None]
      /\ UNCHANGED <<board, rows, job, iter, call, due, answers, effects, env>>
  BY DEF Restore, Go
<1>1. RowsKeep BY <1>0, RowsSame DEF TypeOK, BoardType
<1>2. BoardType' BY <1>0, <1>1, BoardSame DEF TypeOK
<1>3. job[t] \in Assignments BY <1>0, JobIs DEF TypeOK
<1>4. m \in LoopStates BY HarvestedType DEF TypeOK, TaskType
<1>5. new \in BOOLEAN BY <1>4 DEF Unnoted, LoopStates
<1> HIDE DEF m, new
<1>7. TaskType' /\ \A u \in Tasks : tpc'[u] = "idle" <=> job'[u] = None
  <2>1. [m EXCEPT !.noted = @ \/ new] \in LoopStates
    BY <1>4, <1>5 DEF LoopStates
  <2>2. mem' \in [Tasks -> LoopStates]
    BY <1>0, <2>1 DEF TypeOK, TaskType
  <2>3. ask' \in [Tasks -> Rows' \cup {None}]
    BY <1>0 DEF TypeOK, TaskType, Rows
  <2> QED BY <1>0, <1>1, <2>2, <2>3, GoType DEF TypeOK, TaskType
<1>8. PastType'
  <2>1. turns \in [Assignments -> [user : Nat, assistant : Nat]]
    BY DEF TypeOK, PastType
  <2>2. \A n \in Nat : (IF new THEN n + 1 ELSE n) \in Nat
    BY <1>5
  <2>3. turns' \in [Assignments -> [user : Nat, assistant : Nat]]
    <3> DEFINE one == [turns[job[t]] EXCEPT !.user = IF new THEN @ + 1 ELSE @]
    <3>1. one \in [user : Nat, assistant : Nat] BY <1>3, <2>1, <2>2
    <3>2. turns' = [turns EXCEPT ![job[t]] = one] BY <1>0
    <3> HIDE DEF one
    <3> QED BY <2>1, <3>1, <3>2
  <2> QED BY <1>0, <2>3 DEF TypeOK, PastType, env
<1> QED BY <1>0, <1>1, <1>2, <1>7, <1>8, CompletedSame DEF TaskBase

\* The batch an answer proposes, as actions of that answer.
LEMMA ProposedType ==
    ASSUME NEW batch \in Answers, NEW n \in 1 .. MaxTurns
    PROVE  /\ [i \in DOMAIN batch |-> <<n, i>>] \in Seq(Acts)
           /\ Len([i \in DOMAIN batch |-> <<n, i>>]) = Len(batch)
           /\ Len(batch) \in 1 .. MaxBatch
           /\ DOMAIN batch = 1 .. Len(batch)
<1>1. batch \in Seq(Kinds) /\ Len(batch) \in 1 .. MaxBatch
  BY LoopAssumption DEF LoopAssumption
<1>2. DOMAIN batch = 1 .. Len(batch) BY <1>1, LenProperties
<1>3. \A i \in DOMAIN batch : <<n, i>> \in Acts
  BY <1>1, <1>2, Numbers DEF Acts
<1> QED BY <1>1, <1>2, <1>3

\* Think answers, or proposes this batch.
Proposes(t, batch) ==
    /\ Len(answers) < MaxTurns
    /\ answers' = Append(answers, [of |-> job[t], batch |-> batch])
    /\ mem' = [mem EXCEPT ![t] =
                  [Between(@) EXCEPT !.asked = TRUE,
                     !.remaining = [i \in DOMAIN batch |-> <<Len(answers) + 1, i>>]]]
    /\ UNCHANGED tpc

LEMMA ThinkIs ==
    ASSUME NEW t \in Tasks, Think(t)
    PROVE  /\ tpc[t] = "loop" /\ mem[t].remaining = << >> /\ ~ mem[t].asked
           /\ UNCHANGED <<board, rows, job, iter, ask, call, due, effects, turns, env>>
           /\ \/ /\ \/ tpc' = [tpc EXCEPT ![t] = "fail"]
                    \/ tpc' = [tpc EXCEPT ![t] = "complete"]
                 /\ UNCHANGED <<mem, answers>>
              \/ \E batch \in Answers : Proposes(t, batch)
BY DEF Think, Proposes

LEMMA ProposesIs ==
    ASSUME TypeOK, LinkInv, NEW t \in Tasks, tpc[t] = "loop", NEW batch \in Answers,
           Proposes(t, batch)
    PROVE  /\ Len(answers) \in Nat /\ Len(answers) + 1 \in 1 .. MaxTurns
           /\ answers' \in Seq([of : Assignments, batch : Answers])
           /\ Len(answers') = Len(answers) + 1
           /\ \A n \in 1 .. Len(answers) : answers'[n] = answers[n]
           /\ answers'[Len(answers) + 1] = [of |-> job[t], batch |-> batch]
<1>1. /\ answers \in Seq([of : Assignments, batch : Answers]) /\ Len(answers) \in Nat
      /\ Len(answers) < MaxTurns /\ MaxTurns \in Nat
  BY Numbers DEF TypeOK, PastType, Proposes
<1>2. [of |-> job[t], batch |-> batch] \in [of : Assignments, batch : Answers]
  BY JobIs DEF TypeOK
<1>3. answers' = Append(answers, [of |-> job[t], batch |-> batch])
  BY DEF Proposes
<1> QED BY <1>1, <1>2, <1>3, AppendProperties

LEMMA ThinkBase ==
    ASSUME TypeOK, LinkInv, NEW t \in Tasks, Think(t) PROVE TaskBase
<1>0. UNCHANGED <<board, rows, job, iter, ask, call, due, effects, turns, env>>
  BY ThinkIs
<1>1. RowsKeep BY <1>0, RowsSame DEF TypeOK, BoardType
<1>2. BoardType' BY <1>0, <1>1, BoardSame DEF TypeOK
<1>3. ask' \in [Tasks -> Rows' \cup {None}] BY <1>0 DEF TypeOK, TaskType, Rows
<1>4. ASSUME NEW phase \in {"fail", "complete"}, tpc' = [tpc EXCEPT ![t] = phase],
             UNCHANGED <<mem, answers>>
      PROVE  TaskBase
  <2>1. tpc[t] # "idle" BY ThinkIs
  <2>2. TaskType' /\ \A u \in Tasks : tpc'[u] = "idle" <=> job'[u] = None
    BY <1>0, <1>1, <1>3, <1>4, <2>1, GoType DEF TypeOK, TaskType
  <2>3. PastType' BY <1>0, <1>4 DEF TypeOK, PastType, env
  <2> QED BY <1>0, <1>1, <1>2, <2>2, <2>3, CompletedSame DEF TaskBase
<1>5. ASSUME NEW batch \in Answers, Proposes(t, batch) PROVE TaskBase
  <2> DEFINE proposed == [i \in DOMAIN batch |-> <<Len(answers) + 1, i>>]
  <2>1. tpc[t] = "loop" BY ThinkIs
  <2>2. /\ Len(answers) + 1 \in 1 .. MaxTurns /\ Len(answers') = Len(answers) + 1
        /\ answers' \in Seq([of : Assignments, batch : Answers])
    BY <1>5, <2>1, ProposesIs
  <2>3. proposed \in Seq(Acts) BY <2>2, ProposedType
  <2>4. /\ mem' = [mem EXCEPT ![t] = [Between(@) EXCEPT !.asked = TRUE, !.remaining = proposed]]
        /\ UNCHANGED tpc
    BY <1>5 DEF Proposes
  <2> HIDE DEF proposed
  <2>5. Between(mem[t]) \in LoopStates BY BetweenType DEF TypeOK, TaskType
  <2>6. [Between(mem[t]) EXCEPT !.asked = TRUE, !.remaining = proposed] \in LoopStates
    BY <2>3, <2>5 DEF LoopStates
  <2>7. mem' \in [Tasks -> LoopStates] BY <2>4, <2>6 DEF TypeOK, TaskType
  <2>8. TaskType' /\ \A u \in Tasks : tpc'[u] = "idle" <=> job'[u] = None
    BY <1>0, <1>3, <2>4, <2>7 DEF TypeOK, TaskType, LinkInv
  <2>9. PastType' BY <1>0, <2>2 DEF TypeOK, PastType, env
  <2> QED BY <1>0, <1>1, <1>2, <2>8, <2>9, CompletedSame DEF TaskBase
<1> QED BY <1>4, <1>5, ThinkIs

LEMMA PoppedType ==
    ASSUME NEW m \in LoopStates, m.remaining # << >>
    PROVE  Popped(m) \in LoopStates /\ Head(m.remaining) \in Acts
<1>1. m.remaining \in Seq(Acts) BY DEF LoopStates
<1>2. Tail(m.remaining) \in Seq(Acts) /\ Head(m.remaining) \in Acts
  BY <1>1, HeadTailProperties
<1> QED BY <1>2 DEF Popped, LoopStates

\* The rows Act leaves.
RunRow(act)   == [act |-> act, trust |-> "auto", status |-> "completed",
                  runs |-> 1, approvals |-> 0]
AskedRow(act) == [act |-> act, trust |-> "confirm", status |-> "waiting_confirmation",
                  runs |-> 0, approvals |-> 0]

\* Act refuses or performs the action at once.
Settles(t, act, told, phase) ==
    /\ mem' = [mem EXCEPT ![t] = Answer(Popped(mem[t]), act, told)]
    /\ tpc' = [tpc EXCEPT ![t] = phase]
    /\ \/ told = "denied" /\ UNCHANGED <<effects, rows>>
       \/ /\ told = "executed" /\ effects' = [effects EXCEPT ![act] = @ + 1]
          /\ rows' = Append(rows, RunRow(act))
    /\ UNCHANGED ask

\* Or it asks.
Asks(t, act, phase) ==
    /\ rows' = Append(rows, AskedRow(act))
    /\ mem' = [mem EXCEPT ![t] = Popped(mem[t])]
    /\ ask' = [ask EXCEPT ![t] = Len(rows) + 1]
    /\ tpc' = [tpc EXCEPT ![t] = phase]
    /\ UNCHANGED effects

LEMMA ActIs ==
    ASSUME TypeOK, LinkInv, NEW t \in Tasks, Act(t)
    PROVE  /\ tpc[t] = "loop" /\ mem[t].remaining # << >>
           /\ Head(mem[t].remaining) \in Acts
           /\ UNCHANGED <<board, job, iter, call, due, answers, turns, calls, crashes>>
           /\ faults' \in Nat
           /\ \/ \E told \in {"denied", "executed"}, phase \in {"loop", "fail"} :
                    Settles(t, Head(mem[t].remaining), told, phase)
              \/ \E phase \in {"suspend", "fail"} :
                    Asks(t, Head(mem[t].remaining), phase)
<1> DEFINE act == Head(mem[t].remaining)
<1>1. /\ tpc[t] = "loop" /\ mem[t].remaining # << >>
      /\ UNCHANGED <<board, job, iter, call, due, answers, turns, calls, crashes>>
      /\ Refuse(t, act) \/ Perform(t, act) \/ Propose(t, act)
  BY DEF Act
<1>2. act \in Acts BY <1>1, PoppedType DEF TypeOK, TaskType
<1>3. faults \in Nat /\ tpc \in [Tasks -> {"idle", "fetch", "start", "restore", "loop",
                                         "suspend", "complete", "fail"}]
      /\ mem \in [Tasks -> LoopStates]
  BY DEF TypeOK, PastType, TaskType
<1>4. UNCHANGED tpc => tpc' = [tpc EXCEPT ![t] = "loop"]
  BY <1>1, <1>3
<1> HIDE DEF act
<1>5. ASSUME Refuse(t, act)
      PROVE  faults' \in Nat /\ \E phase \in {"loop", "fail"} : Settles(t, act, "denied", phase)
  <2>1. mem' = [mem EXCEPT ![t] = Answer(Popped(mem[t]), act, "denied")]
    BY <1>5 DEF Refuse
  <2>2. /\ faults' \in Nat
        /\ \E phase \in {"loop", "fail"} : tpc' = [tpc EXCEPT ![t] = phase]
    BY <1>3, <1>4, <1>5 DEF Refuse, Raise, Go
  <2>3. UNCHANGED ask BY <1>5 DEF Refuse
  <2>4. UNCHANGED <<effects, rows>> BY <1>5 DEF Refuse
  <2> QED BY <2>1, <2>2, <2>3, <2>4 DEF Settles
<1>6. ASSUME Perform(t, act)
      PROVE  faults' \in Nat /\ \E phase \in {"loop", "fail"} : Settles(t, act, "executed", phase)
  <2>1. mem' = [mem EXCEPT ![t] = Answer(Popped(mem[t]), act, "executed")]
    BY <1>6 DEF Perform
  <2>2. /\ faults' \in Nat
        /\ \E phase \in {"loop", "fail"} : tpc' = [tpc EXCEPT ![t] = phase]
    BY <1>3, <1>4, <1>6 DEF Perform, Raise, Go
  <2>3. UNCHANGED ask BY <1>6 DEF Perform
  <2>4. /\ effects' = [effects EXCEPT ![act] = @ + 1]
        /\ rows' = Append(rows, RunRow(act))
    BY <1>6 DEF Perform, RunRow
  <2> QED BY <2>1, <2>2, <2>3, <2>4 DEF Settles
<1>7. ASSUME Propose(t, act)
      PROVE  faults' \in Nat /\ \E phase \in {"suspend", "fail"} : Asks(t, act, phase)
  <2>1. mem' = [mem EXCEPT ![t] = Popped(mem[t])]
    BY <1>3, <1>7 DEF Propose
  <2>2. /\ faults' \in Nat
        /\ \E phase \in {"suspend", "fail"} : tpc' = [tpc EXCEPT ![t] = phase]
    BY <1>3, <1>7 DEF Propose, Raise, Go
  <2>3. /\ rows' = Append(rows, AskedRow(act))
        /\ ask' = [ask EXCEPT ![t] = Len(rows) + 1] /\ UNCHANGED effects
    BY <1>7 DEF Propose, AskedRow
  <2> QED BY <2>1, <2>2, <2>3 DEF Asks
<1> QED BY <1>1, <1>2, <1>5, <1>6, <1>7 DEF act

LEMMA ActBase ==
    ASSUME TypeOK, LinkInv, NEW t \in Tasks, Act(t) PROVE TaskBase
<1> DEFINE act == Head(mem[t].remaining)
<1>0. /\ tpc[t] = "loop" /\ act \in Acts /\ faults' \in Nat
      /\ UNCHANGED <<board, job, iter, call, due, answers, turns, calls, crashes>>
      /\ mem[t] \in LoopStates /\ Popped(mem[t]) \in LoopStates
  BY ActIs, PoppedType DEF TypeOK, TaskType
<1>1. iter' \in [Tasks -> Nat] /\ mem \in [Tasks -> LoopStates]
      /\ effects \in [Acts -> Nat] /\ rows \in Seq(Row)
  BY <1>0 DEF TypeOK, TaskType, PastType, BoardType
<1> HIDE DEF act
<1>2. ASSUME NEW told \in {"denied", "executed"}, NEW phase \in {"loop", "fail"},
             Settles(t, act, told, phase)
      PROVE  TaskBase
  <2>1. /\ RowsKeep
        /\ \A r \in Rows' : rows'[r].status = "completed" => rows'[r].runs > 0
    <3>1. CASE UNCHANGED rows BY <1>1, <3>1, RowsSame, CompletedSame
    <3>2. CASE rows' = Append(rows, RunRow(act))
      <4> DEFINE new == RunRow(act)
      <4>1. new \in Row BY <1>0 DEF Row, RunRow
      <4>2. new.runs > 0 BY DEF RunRow
      <4>3. rows' = Append(rows, new) BY <3>2
      <4> HIDE DEF new
      <4>4. /\ RowsKeep /\ rows'[Len(rows) + 1] = new
            /\ Rows' = Rows \cup {Len(rows) + 1}
            /\ \A o \in Rows : rows'[o] = rows[o]
        BY <1>1, <4>1, <4>3, ProposeKeeps
      <4>5. \A o \in Rows : rows[o].status = "completed" => rows[o].runs > 0 BY DEF LinkInv
      <4> QED BY <4>2, <4>4, <4>5
    <3> QED BY <1>2, <3>1, <3>2 DEF Settles
  <2>2. BoardType' BY <1>0, <2>1, BoardSame DEF TypeOK
  <2>3. Answer(Popped(mem[t]), act, told) \in LoopStates BY <1>0, AnswerType
  <2>4. mem' \in [Tasks -> LoopStates] BY <1>1, <1>2, <2>3 DEF Settles
  <2>5. ask' \in [Tasks -> Rows' \cup {None}]
    BY <1>2, <2>1 DEF Settles, TypeOK, TaskType, RowsKeep
  <2>6. TaskType' /\ \A u \in Tasks : tpc'[u] = "idle" <=> job'[u] = None
    BY <1>0, <1>1, <1>2, <2>1, <2>4, <2>5, GoType DEF Settles, TypeOK
  <2>7. effects' \in [Acts -> Nat]
    <3>1. UNCHANGED effects \/ effects' = [effects EXCEPT ![act] = @ + 1]
      BY <1>2 DEF Settles
    <3> QED BY <1>0, <1>1, <3>1
  <2>8. PastType' BY <1>0, <2>7 DEF TypeOK, PastType
  <2> QED BY <1>0, <2>1, <2>2, <2>6, <2>8 DEF TaskBase
<1>3. ASSUME NEW phase \in {"suspend", "fail"}, Asks(t, act, phase)
      PROVE  TaskBase
  <2> DEFINE new == AskedRow(act)
  <2>1. new \in Row BY <1>0 DEF Row, AskedRow
  <2>2. rows' = Append(rows, new) BY <1>3 DEF Asks
  <2>3. new.status # "completed" BY DEF AskedRow
  <2> HIDE DEF new
  <2>4. /\ RowsKeep /\ Len(rows) + 1 \in Rows' /\ rows'[Len(rows) + 1] = new
        /\ Rows' = Rows \cup {Len(rows) + 1}
        /\ \A o \in Rows : rows'[o] = rows[o]
    BY <1>1, <2>1, <2>2, ProposeKeeps
  <2>5. BoardType' BY <1>0, <2>4, BoardSame DEF TypeOK
  <2>6. mem' \in [Tasks -> LoopStates] BY <1>0, <1>1, <1>3 DEF Asks
  <2>7. ask' \in [Tasks -> Rows' \cup {None}]
    BY <1>3, <2>4 DEF Asks, TypeOK, TaskType
  <2>8. TaskType' /\ \A u \in Tasks : tpc'[u] = "idle" <=> job'[u] = None
    BY <1>0, <1>1, <1>3, <2>4, <2>6, <2>7, GoType DEF Asks, TypeOK
  <2>9. PastType' BY <1>0, <1>3 DEF Asks, TypeOK, PastType
  <2>10. \A r \in Rows' : rows'[r].status = "completed" => rows'[r].runs > 0
    BY <2>3, <2>4 DEF LinkInv
  <2> QED BY <1>0, <2>4, <2>5, <2>8, <2>9, <2>10 DEF TaskBase
<1> QED BY <1>2, <1>3, ActIs DEF act

\* What a task writes when it saves its loop state.
LEMMA SaveType ==
    ASSUME BoardType, RowsKeep, NEW a \in Assignments, NEW m \in LoopStates, NEW i \in Nat,
           NEW r \in Rows \cup {None}, Save(a, m, i, r),
           status' \in [Assignments -> Statuses], UNCHANGED <<retries, event_status>>
    PROVE  BoardType'
<1>1. waiting_action' \in [Assignments -> Rows' \cup {None}]
  BY DEF BoardType, Save, RowsKeep
<1>2. conversation' \in [Assignments -> LoopStates \cup {None}]
  BY DEF BoardType, Save
<1>3. iteration' \in [Assignments -> Nat]
  BY DEF BoardType, Save
<1> QED BY <1>1, <1>2, <1>3 DEF BoardType, RowsKeep

LEMMA EndOrFail ==
    ASSUME TypeOK, LinkInv, RowsKeep, UNCHANGED rows, NEW t \in Tasks, tpc[t] # "idle",
           \/ End(t) /\ UNCHANGED faults
           \/ Raise /\ Go(t, "fail") /\ UNCHANGED <<job, mem, iter, ask>>
    PROVE  /\ TaskType' /\ \A u \in Tasks : tpc'[u] = "idle" <=> job'[u] = None
           /\ faults' \in Nat
<1>1. faults' \in Nat BY DEF Raise, TypeOK, PastType
<1>2. CASE End(t) BY <1>1, <1>2, EndType DEF TypeOK
<1>3. CASE Go(t, "fail") /\ UNCHANGED <<job, mem, iter, ask>>
  <2>1. ask' \in [Tasks -> Rows' \cup {None}] BY <1>3 DEF TypeOK, TaskType, Rows
  <2> QED BY <1>1, <1>3, <2>1, GoType DEF TypeOK, TaskType, Go
<1> QED BY <1>2, <1>3

LEMMA SuspendBase ==
    ASSUME TypeOK, LinkInv, NEW t \in Tasks, Suspend(t) PROVE TaskBase
<1>0. /\ tpc[t] = "suspend"
      /\ status' = [status EXCEPT ![job[t]] = "waiting_confirmation"]
      /\ Save(job[t], mem[t], iter[t], ask[t])
      /\ \/ End(t) /\ UNCHANGED faults
         \/ Raise /\ Go(t, "fail") /\ UNCHANGED <<job, mem, iter, ask>>
      /\ UNCHANGED <<retries, event_status, rows, call, due, past, calls, crashes>>
  BY DEF Suspend
<1>1. RowsKeep BY <1>0, RowsSame DEF TypeOK, BoardType
<1>2. job[t] \in Assignments BY <1>0, JobIs DEF TypeOK
<1>3. status' \in [Assignments -> Statuses]
  BY <1>0, <1>2 DEF TypeOK, BoardType, Statuses
<1>4. BoardType'
  BY <1>0, <1>1, <1>2, <1>3, SaveType DEF TypeOK, TaskType
<1>5. TaskType' /\ (\A u \in Tasks : tpc'[u] = "idle" <=> job'[u] = None) /\ faults' \in Nat
  BY <1>0, <1>1, EndOrFail
<1>6. PastType' BY <1>0, <1>5, PastSame DEF TypeOK, PastType
<1> QED BY <1>0, <1>1, <1>4, <1>5, <1>6, CompletedSame DEF TaskBase

LEMMA FoldBase ==
    ASSUME TypeOK, LinkInv, NEW t \in Tasks, Fold(t) PROVE TaskBase
<1>0. /\ tpc[t] = "loop"
      /\ mem' = [mem EXCEPT ![t] = Between(@)]
      /\ iter' = [iter EXCEPT ![t] = @ + 1]
      /\ Save(job[t], Between(mem[t]), iter[t] + 1, None)
      /\ UNCHANGED <<status, retries, event_status, rows, tpc, job, ask, call, due, past, env>>
  BY DEF Fold
<1>1. RowsKeep BY <1>0, RowsSame DEF TypeOK, BoardType
<1>2. job[t] \in Assignments BY <1>0, JobIs DEF TypeOK
<1>3. /\ Between(mem[t]) \in LoopStates /\ iter[t] + 1 \in Nat
      /\ mem \in [Tasks -> LoopStates] /\ iter \in [Tasks -> Nat]
  BY BetweenType DEF TypeOK, TaskType
<1>4. status' \in [Assignments -> Statuses] BY <1>0 DEF TypeOK, BoardType
<1>5. BoardType' BY <1>0, <1>1, <1>2, <1>3, <1>4, SaveType DEF TypeOK
<1>6. TaskType' /\ \A u \in Tasks : tpc'[u] = "idle" <=> job'[u] = None
  <2>1. mem' \in [Tasks -> LoopStates] /\ iter' \in [Tasks -> Nat] BY <1>0, <1>3
  <2> QED BY <1>0, <2>1 DEF TypeOK, TaskType, LinkInv, Rows
<1>7. PastType' BY <1>0, PastSame DEF TypeOK, PastType, env
<1> QED BY <1>0, <1>1, <1>5, <1>6, <1>7, CompletedSame DEF TaskBase

LEMMA OutcomeType ==
    ASSUME BoardType, RowsKeep, NEW a \in Assignments, NEW how \in {"completed", "failed"},
           status' = [status EXCEPT ![a] = how],
           event_status' = [event_status EXCEPT ![a] = how],
           UNCHANGED <<retries, iteration, conversation, waiting_action, rows>>
    PROVE  BoardType'
<1>1. status' \in [Assignments -> Statuses] BY DEF BoardType, Statuses
<1>2. event_status' \in [Assignments -> {"assigned", "processing", "completed", "failed"}]
  BY DEF BoardType
<1> QED BY <1>1, <1>2 DEF BoardType, Rows

LEMMA CompleteBase ==
    ASSUME TypeOK, LinkInv, NEW t \in Tasks, Complete(t) PROVE TaskBase
<1>0. /\ tpc[t] = "complete"
      /\ turns' = [turns EXCEPT ![job[t]].assistant = @ + 1]
      /\ status' = [status EXCEPT ![job[t]] = "completed"]
      /\ event_status' = [event_status EXCEPT ![job[t]] = "completed"]
      /\ \/ End(t) /\ UNCHANGED faults
         \/ Raise /\ Go(t, "fail") /\ UNCHANGED <<job, mem, iter, ask>>
      /\ UNCHANGED <<retries, iteration, conversation, waiting_action, rows, call, due,
                     answers, effects, calls, crashes>>
  BY DEF Complete
<1>1. RowsKeep BY <1>0, RowsSame DEF TypeOK, BoardType
<1>2. job[t] \in Assignments BY <1>0, JobIs DEF TypeOK
<1>3. BoardType' BY <1>0, <1>1, <1>2, OutcomeType DEF TypeOK
<1>4. TaskType' /\ (\A u \in Tasks : tpc'[u] = "idle" <=> job'[u] = None) /\ faults' \in Nat
  BY <1>0, <1>1, EndOrFail
<1>5. turns' \in [Assignments -> [user : Nat, assistant : Nat]]
  <2>1. turns \in [Assignments -> [user : Nat, assistant : Nat]] BY DEF TypeOK, PastType
  <2> DEFINE one == [turns[job[t]] EXCEPT !.assistant = @ + 1]
  <2>2. one \in [user : Nat, assistant : Nat] BY <1>2, <2>1
  <2>3. turns' = [turns EXCEPT ![job[t]] = one] BY <1>0
  <2> HIDE DEF one
  <2> QED BY <2>1, <2>2, <2>3
<1>6. PastType' BY <1>0, <1>4, <1>5 DEF TypeOK, PastType
<1> QED BY <1>0, <1>1, <1>3, <1>4, <1>6, CompletedSame DEF TaskBase

LEMMA FailBase ==
    ASSUME TypeOK, LinkInv, NEW t \in Tasks, Fail(t) PROVE TaskBase
<1>0. /\ tpc[t] = "fail" /\ End(t)
      /\ status' = [status EXCEPT ![job[t]] = "failed"]
      /\ event_status' = [event_status EXCEPT ![job[t]] = "failed"]
      /\ UNCHANGED <<retries, iteration, conversation, waiting_action, rows, call, due, past, env>>
  BY DEF Fail
<1>1. RowsKeep BY <1>0, RowsSame DEF TypeOK, BoardType
<1>2. job[t] \in Assignments BY <1>0, JobIs DEF TypeOK
<1>3. BoardType' BY <1>0, <1>1, <1>2, OutcomeType DEF TypeOK
<1>4. TaskType' /\ \A u \in Tasks : tpc'[u] = "idle" <=> job'[u] = None
  BY <1>0, <1>1, EndType DEF TypeOK
<1>5. PastType' BY <1>0, PastSame DEF TypeOK, PastType, env
<1> QED BY <1>0, <1>1, <1>3, <1>4, <1>5, CompletedSame DEF TaskBase

LEMMA TaskStepBase ==
    ASSUME TypeOK, LinkInv, NEW t \in Tasks, Claim(t) \/ Step(t) PROVE TaskBase
BY ClaimBase, FetchBase, BeginBase, RestoreBase, ThinkBase, ActBase, SuspendBase, FoldBase,
   CompleteBase, FailBase DEF Step

\* What a call does to the rows keeps what was completed run.
LEMMA CallLink ==
    ASSUME TypeOK, LinkInv, RowsKeep, Rows' = Rows, NEW c \in Callers, UNCHANGED <<tpc, job>>,
           \A d \in Callers \ {c} :
              /\ cpc'[d] = cpc[d] /\ target'[d] = target[d] /\ found'[d] = found[d],
           cpc'[c] \in {"execute", "record", "find", "mark"} => target'[c] \in Rows,
           cpc'[c] = "mark" => found'[c] \in Assignments,
           cpc'[c] = "record" => rows'[target'[c]].runs > 0,
           \A r \in Rows : rows'[r].status = "completed" => rows'[r].runs > 0
    PROVE  LinkInv'
<1>1. ASSUME NEW d \in Callers \ {c}, cpc[d] = "record" PROVE rows'[target[d]].runs > 0
  <2>1. target[d] \in Rows /\ rows[target[d]].runs > 0 BY <1>1 DEF LinkInv
  <2>2. rows[target[d]].runs \in Nat BY <2>1, RowIs DEF TypeOK, BoardType
  <2>3. rows'[target[d]] \in Row BY <2>1 DEF RowsKeep, Rows
  <2>4. rows'[target[d]].runs >= rows[target[d]].runs /\ rows'[target[d]].runs \in Nat
    BY <2>1, <2>3 DEF RowsKeep, Row
  <2> QED BY <2>1, <2>2, <2>4
<1>2. ASSUME NEW d \in Callers
      PROVE  /\ cpc'[d] \in {"execute", "record", "find", "mark"} => target'[d] \in Rows'
             /\ cpc'[d] = "mark" => found'[d] \in Assignments
             /\ cpc'[d] = "record" => rows'[target'[d]].runs > 0
  BY <1>1 DEF LinkInv
<1> QED BY <1>2 DEF LinkInv

LEMMA TaskUnmoved ==
    ASSUME TypeOK, RowsKeep, UNCHANGED task PROVE TaskType'
BY TaskSame DEF TypeOK

LEMMA CloseType ==
    ASSUME CallType, NEW c \in Callers, Close(c), Rows' = Rows, UNCHANGED due,
           todo' \in [Callers -> SUBSET Rows]
    PROVE  /\ CallType' /\ cpc'[c] = "idle"
           /\ \A d \in Callers \ {c} :
                 cpc'[d] = cpc[d] /\ target'[d] = target[d] /\ found'[d] = found[d]
BY DEF CallType, Close

LEMMA EnterType ==
    ASSUME CallType, NEW c \in Callers, NEW phase \in {"idle", "execute", "find", "list"},
           Enter(c, phase), Rows' = Rows, target' \in [Callers -> Rows \cup {None}],
           UNCHANGED <<found, todo, due>>
    PROVE  /\ CallType' /\ cpc'[c] = phase /\ cpc[c] = "idle"
           /\ \A d \in Callers \ {c} : cpc'[d] = cpc[d]
BY DEF CallType, Enter

\* What a step of a call keeps.
CallBase == TypeOK' /\ LinkInv' /\ RowsKeep

LEMMA DecideBase ==
    ASSUME TypeOK, LinkInv, NEW c \in Callers, Approve(c) \/ Deny(c) PROVE CallBase
<1>0. /\ UNCHANGED <<board, task, found, todo, due, past, crashes>>
      /\ calls' = calls + 1 /\ faults' \in {faults, faults + 1}
  BY DEF Approve, Deny, Enter, Raise
<1>1. PICK r \in Rows, how \in {"approved", "denied"}, phase \in {"idle", "execute", "find"} :
         /\ Resolve(r, how) /\ Enter(c, phase)
         /\ \/ target' = [target EXCEPT ![c] = r]
            \/ phase = "idle" /\ UNCHANGED target
  BY DEF Approve, Deny
<1>2. /\ RowsKeep /\ Rows' = Rows
      /\ \A o \in Rows : /\ rows'[o].runs = rows[o].runs
                         /\ rows'[o].status \in {rows[o].status, how}
  BY <1>1, ResolveKeeps DEF TypeOK, BoardType
<1>3. target' \in [Callers -> Rows \cup {None}] BY <1>1 DEF TypeOK, CallType
<1>4. /\ CallType' /\ cpc'[c] = phase
      /\ \A d \in Callers \ {c} : cpc'[d] = cpc[d]
  BY <1>0, <1>1, <1>2, <1>3, EnterType DEF TypeOK
<1>5. BoardType' /\ TaskType'
  BY <1>0, <1>2, BoardSame, TaskSame DEF TypeOK
<1>6. PastType' BY <1>0, PastSame DEF TypeOK, PastType
<1>7. LinkInv'
  <2>1. \A d \in Callers \ {c} : target'[d] = target[d] BY <1>1 DEF TypeOK, CallType
  <2>2. phase # "idle" => target'[c] = r BY <1>1 DEF TypeOK, CallType
  <2>3. \A o \in Rows : rows'[o].status = "completed" => rows'[o].runs > 0
    BY <1>2 DEF LinkInv
  <2>4. /\ cpc'[c] \in {"execute", "record", "find", "mark"} => target'[c] \in Rows
        /\ cpc'[c] # "mark" /\ cpc'[c] # "record"
    BY <1>4, <2>2
  <2> QED BY <1>0, <1>2, <1>4, <2>1, <2>3, <2>4, CallLink DEF task
<1> QED BY <1>2, <1>4, <1>5, <1>6, <1>7 DEF CallBase, TypeOK

LEMMA ExecuteBase ==
    ASSUME TypeOK, LinkInv, NEW c \in Callers, Execute(c) PROVE CallBase
<1>0. /\ cpc[c] = "execute" /\ cpc' = [cpc EXCEPT ![c] = "record"]
      /\ rows' = [rows EXCEPT ![target[c]].runs = @ + 1]
      /\ UNCHANGED <<board, task, target, found, todo, due, past, env>>
  BY DEF Execute
<1>1. target[c] \in Rows BY <1>0 DEF LinkInv
<1>2. /\ RowsKeep /\ Rows' = Rows
      /\ rows'[target[c]].runs > 0 /\ rows'[target[c]].status = rows[target[c]].status
      /\ \A o \in Rows : o # target[c] => rows'[o] = rows[o]
  BY <1>0, <1>1, ExecuteKeeps DEF TypeOK, BoardType
<1>3. BoardType' /\ TaskType' BY <1>0, <1>2, BoardSame, TaskSame DEF TypeOK
<1>4. CallType' BY <1>0, <1>2 DEF TypeOK, CallType
<1>5. PastType' BY <1>0, PastSame DEF TypeOK, PastType, env
<1>6. LinkInv'
  <2>1. \A o \in Rows : rows'[o].status = "completed" => rows'[o].runs > 0
    BY <1>2 DEF LinkInv
  <2>2. cpc'[c] = "record" /\ \A d \in Callers \ {c} : cpc'[d] = cpc[d]
    BY <1>0 DEF TypeOK, CallType
  <2> QED BY <1>0, <1>1, <1>2, <2>1, <2>2, CallLink DEF task
<1> QED BY <1>2, <1>3, <1>4, <1>5, <1>6 DEF CallBase, TypeOK

LEMMA RecordBase ==
    ASSUME TypeOK, LinkInv, NEW c \in Callers, Record(c) PROVE CallBase
<1>0. /\ cpc[c] = "record"
      /\ rows' = [rows EXCEPT ![target[c]].status = "completed"]
      /\ \/ /\ cpc' = [cpc EXCEPT ![c] = "find"]
            /\ UNCHANGED <<target, found>>
         \/ Close(c)
      /\ faults' \in {faults, faults + 1}
      /\ UNCHANGED <<board, task, todo, due, past, calls, crashes>>
  BY DEF Record, Raise
<1>1. target[c] \in Rows /\ rows[target[c]].runs > 0 BY <1>0 DEF LinkInv
<1>2. /\ RowsKeep /\ Rows' = Rows
      /\ rows'[target[c]].runs = rows[target[c]].runs
      /\ \A o \in Rows : o # target[c] => rows'[o] = rows[o]
  BY <1>0, <1>1, RecordKeeps DEF TypeOK, BoardType
<1>3. BoardType' /\ TaskType' BY <1>0, <1>2, BoardSame, TaskSame DEF TypeOK
<1>4. /\ CallType'
      /\ \A d \in Callers \ {c} :
            cpc'[d] = cpc[d] /\ target'[d] = target[d] /\ found'[d] = found[d]
      /\ cpc'[c] \in {"find", "idle"} /\ (cpc'[c] = "find" => target'[c] = target[c])
  <2>1. CASE Close(c)
    <3>1. todo' \in [Callers -> SUBSET Rows] BY <1>0 DEF TypeOK, CallType
    <3> QED BY <1>0, <1>2, <2>1, <3>1, CloseType DEF TypeOK
  <2>2. CASE cpc' = [cpc EXCEPT ![c] = "find"] /\ UNCHANGED <<target, found>>
    BY <1>0, <1>2, <2>2 DEF TypeOK, CallType
  <2> QED BY <1>0, <2>1, <2>2
<1>5. PastType' BY <1>0, PastSame DEF TypeOK, PastType
<1>6. LinkInv'
  <2>1. \A o \in Rows : rows'[o].status = "completed" => rows'[o].runs > 0
    BY <1>1, <1>2 DEF LinkInv
  <2> QED BY <1>0, <1>1, <1>2, <1>4, <2>1, CallLink DEF task
<1> QED BY <1>2, <1>3, <1>4, <1>5, <1>6 DEF CallBase, TypeOK

LEMMA FindBase ==
    ASSUME TypeOK, LinkInv, NEW c \in Callers, Find(c) PROVE CallBase
<1>0. /\ cpc[c] = "find"
      /\ \/ \E a \in Assignments : /\ found' = [found EXCEPT ![c] = a]
                                   /\ cpc' = [cpc EXCEPT ![c] = "mark"]
                                   /\ UNCHANGED target
         \/ Close(c)
      /\ UNCHANGED <<board, rows, task, todo, due, past, env>>
  BY DEF Find
<1>1. target[c] \in Rows BY <1>0 DEF LinkInv
<1>2. RowsKeep /\ Rows' = Rows BY <1>0, RowsSame DEF TypeOK, BoardType, Rows
<1>3. BoardType' /\ TaskType' BY <1>0, <1>2, BoardSame, TaskSame DEF TypeOK
<1>4. /\ CallType'
      /\ \A d \in Callers \ {c} :
            cpc'[d] = cpc[d] /\ target'[d] = target[d] /\ found'[d] = found[d]
      /\ cpc'[c] \in {"mark", "idle"}
      /\ cpc'[c] = "mark" => target'[c] = target[c] /\ found'[c] \in Assignments
  <2>1. CASE Close(c)
    <3>1. todo' \in [Callers -> SUBSET Rows] BY <1>0 DEF TypeOK, CallType
    <3> QED BY <1>0, <1>2, <2>1, <3>1, CloseType DEF TypeOK
  <2>2. ASSUME NEW a \in Assignments, found' = [found EXCEPT ![c] = a],
               cpc' = [cpc EXCEPT ![c] = "mark"], UNCHANGED target
        PROVE  /\ CallType' /\ cpc'[c] = "mark" /\ target'[c] = target[c]
               /\ found'[c] \in Assignments
               /\ \A d \in Callers \ {c} :
                     cpc'[d] = cpc[d] /\ target'[d] = target[d] /\ found'[d] = found[d]
    BY <1>0, <1>2, <2>2 DEF TypeOK, CallType
  <2> QED BY <1>0, <2>1, <2>2
<1>5. PastType' BY <1>0, PastSame DEF TypeOK, PastType, env
<1>6. LinkInv'
  BY <1>0, <1>1, <1>2, <1>4, CallLink DEF task, LinkInv
<1> QED BY <1>2, <1>3, <1>4, <1>5, <1>6 DEF CallBase, TypeOK

LEMMA MarkBase ==
    ASSUME TypeOK, LinkInv, NEW c \in Callers, Mark(c) PROVE CallBase
<1>0. /\ cpc[c] = "mark" /\ Close(c)
      /\ \/ status' = [status EXCEPT ![found[c]] = "resumable"]
         \/ UNCHANGED status
      /\ UNCHANGED <<retries, iteration, conversation, waiting_action, event_status, rows,
                     task, todo, due, past, env>>
  BY DEF Mark
<1>1. RowsKeep /\ Rows' = Rows BY <1>0, RowsSame DEF TypeOK, BoardType, Rows
<1>2. status' \in [Assignments -> Statuses] BY <1>0 DEF TypeOK, BoardType, Statuses
<1>3. BoardType' /\ TaskType' BY <1>0, <1>1, <1>2, TaskSame DEF TypeOK, BoardType
<1>4. todo' \in [Callers -> SUBSET Rows] BY <1>0 DEF TypeOK, CallType
<1>5. /\ CallType' /\ cpc'[c] = "idle"
      /\ \A d \in Callers \ {c} :
            cpc'[d] = cpc[d] /\ target'[d] = target[d] /\ found'[d] = found[d]
  BY <1>0, <1>1, <1>4, CloseType DEF TypeOK
<1>6. PastType' BY <1>0, PastSame DEF TypeOK, PastType, env
<1>7. LinkInv' BY <1>0, <1>1, <1>5, CallLink DEF task, LinkInv
<1> QED BY <1>1, <1>3, <1>5, <1>6, <1>7 DEF CallBase, TypeOK

LEMMA DrainBase ==
    ASSUME TypeOK, LinkInv, NEW c \in Callers, Drain(c) PROVE CallBase
<1>0. /\ Enter(c, "list")
      /\ status' = [a \in Assignments |-> IF status[a] \in Drainable THEN "failed" ELSE status[a]]
      /\ UNCHANGED <<retries, iteration, conversation, waiting_action, event_status, rows,
                     task, target, found, todo, due, past, faults, crashes>>
  BY DEF Drain
<1>1. RowsKeep /\ Rows' = Rows BY <1>0, RowsSame DEF TypeOK, BoardType, Rows
<1>2. status' \in [Assignments -> Statuses] BY <1>0 DEF TypeOK, BoardType, Statuses
<1>3. BoardType' /\ TaskType' BY <1>0, <1>1, <1>2, TaskSame DEF TypeOK, BoardType
<1>4. /\ CallType' /\ cpc'[c] = "list"
      /\ \A d \in Callers \ {c} : cpc'[d] = cpc[d]
  <2>1. target' \in [Callers -> Rows \cup {None}] BY <1>0 DEF TypeOK, CallType
  <2> QED BY <1>0, <1>1, <2>1, EnterType DEF TypeOK
<1>5. PastType' BY <1>0, PastSame DEF TypeOK, PastType, Enter
<1>6. LinkInv' BY <1>0, <1>1, <1>4, CallLink DEF task, LinkInv
<1> QED BY <1>1, <1>3, <1>4, <1>5, <1>6 DEF CallBase, TypeOK

LEMMA ListBase ==
    ASSUME TypeOK, LinkInv, NEW c \in Callers, ListPending(c) PROVE CallBase
<1>0. /\ cpc[c] = "list" /\ cpc' = [cpc EXCEPT ![c] = "cascade"]
      /\ \E R \in SUBSET Rows : todo' = [todo EXCEPT ![c] = R]
      /\ UNCHANGED <<board, rows, task, target, found, due, past, env>>
  BY DEF ListPending
<1>1. RowsKeep /\ Rows' = Rows BY <1>0, RowsSame DEF TypeOK, BoardType, Rows
<1>2. BoardType' /\ TaskType' BY <1>0, <1>1, BoardSame, TaskSame DEF TypeOK
<1>3. CallType'
  <2>1. todo' \in [Callers -> SUBSET Rows] BY <1>0 DEF TypeOK, CallType
  <2> QED BY <1>0, <1>1, <2>1 DEF TypeOK, CallType
<1>4. PastType' BY <1>0, PastSame DEF TypeOK, PastType, env
<1>5. LinkInv'
  <2>1. cpc'[c] = "cascade" /\ \A d \in Callers \ {c} : cpc'[d] = cpc[d]
    BY <1>0 DEF TypeOK, CallType
  <2> QED BY <1>0, <1>1, <2>1, CallLink DEF task, LinkInv
<1> QED BY <1>1, <1>2, <1>3, <1>4, <1>5 DEF CallBase, TypeOK

LEMMA CascadeBase ==
    ASSUME TypeOK, LinkInv, NEW c \in Callers, CascadeDeny(c) PROVE CallBase
<1>0. cpc[c] = "cascade" /\ UNCHANGED <<board, task, due, past, env>>
  BY DEF CascadeDeny
<1>1. PastType' BY <1>0, PastSame DEF TypeOK, PastType, env
<1>2. ASSUME NEW r \in todo[c], Resolve(r, "denied"), todo' = [todo EXCEPT ![c] = @ \ {r}],
             UNCHANGED <<cpc, target, found>>
      PROVE  CallBase
  <2>0. r \in Rows BY <1>2 DEF TypeOK, CallType
  <2>1. /\ RowsKeep /\ Rows' = Rows
        /\ \A o \in Rows : /\ rows'[o].runs = rows[o].runs
                           /\ rows'[o].status \in {rows[o].status, "denied"}
    BY <1>2, <2>0, ResolveKeeps DEF TypeOK, BoardType
  <2>2. BoardType' /\ TaskType' BY <1>0, <2>1, BoardSame, TaskSame DEF TypeOK
  <2>3. CallType' BY <1>0, <1>2, <2>1 DEF TypeOK, CallType
  <2>4. LinkInv' BY <1>0, <1>2, <2>1, CallLink DEF task, LinkInv
  <2> QED BY <1>1, <2>1, <2>2, <2>3, <2>4 DEF CallBase, TypeOK
<1>3. ASSUME Close(c), UNCHANGED <<rows, todo>> PROVE CallBase
  <2>1. RowsKeep /\ Rows' = Rows BY <1>3, RowsSame DEF TypeOK, BoardType, Rows
  <2>2. BoardType' /\ TaskType' BY <1>0, <2>1, BoardSame, TaskSame DEF TypeOK
  <2>3. todo' \in [Callers -> SUBSET Rows] BY <1>3 DEF TypeOK, CallType
  <2>4. /\ CallType' /\ cpc'[c] = "idle"
        /\ \A d \in Callers \ {c} :
              cpc'[d] = cpc[d] /\ target'[d] = target[d] /\ found'[d] = found[d]
    BY <1>0, <1>3, <2>1, <2>3, CloseType DEF TypeOK
  <2>5. LinkInv' BY <1>0, <1>3, <2>1, <2>4, CallLink DEF task, LinkInv
  <2> QED BY <1>1, <2>1, <2>2, <2>4, <2>5 DEF CallBase, TypeOK
<1> QED BY <1>2, <1>3 DEF CascadeDeny

\* The sweep and a crash.
LEMMA SweepBase ==
    ASSUME TypeOK, LinkInv, RetryScan \/ \E a \in Assignments : RetryOne(a)
    PROVE  CallBase
<1>0. UNCHANGED <<iteration, conversation, waiting_action, event_status, rows, task, call,
                  past, env>>
  BY DEF RetryScan, RetryOne, board
<1>1. RowsKeep BY <1>0, RowsSame DEF TypeOK, BoardType
<1>2. TaskType' /\ PastType'
  BY <1>0, <1>1, TaskSame, PastSame DEF TypeOK, PastType, env
<1>3. due' \in SUBSET Assignments
  BY DEF RetryScan, RetryOne, TypeOK, CallType
<1>4. CallType' BY <1>0, <1>3 DEF TypeOK, CallType, call, Rows
<1>5. LinkInv' BY <1>0, <1>1, CompletedSame, LinkKept DEF task, LinkInv
<1>6. BoardType'
  <2>1. CASE RetryScan BY <1>1, <2>1, BoardSame DEF RetryScan, TypeOK
  <2>2. ASSUME NEW a \in Assignments, RetryOne(a) PROVE BoardType'
    <3>1. status' = [status EXCEPT ![a] = "pending"] /\ retries' = [retries EXCEPT ![a] = @ + 1]
      BY <2>2 DEF RetryOne
    <3>2. status' \in [Assignments -> Statuses] /\ retries' \in [Assignments -> Nat]
      BY <3>1 DEF TypeOK, BoardType, Statuses
    <3> QED BY <1>0, <3>2 DEF TypeOK, BoardType, Rows
  <2> QED BY <2>1, <2>2
<1> QED BY <1>1, <1>2, <1>4, <1>5, <1>6 DEF CallBase, TypeOK

LEMMA CrashBase ==
    ASSUME TypeOK, LinkInv, Crash PROVE CallBase
<1>0. /\ UNCHANGED <<board, rows, past, calls, faults>> /\ crashes' = crashes + 1
      /\ tpc' = [t \in Tasks |-> "idle"] /\ job' = [t \in Tasks |-> None]
      /\ mem' = [t \in Tasks |-> Fresh] /\ iter' = [t \in Tasks |-> 0]
      /\ ask' = [t \in Tasks |-> None]
      /\ cpc' = [c \in Callers |-> "idle"] /\ target' = [c \in Callers |-> None]
      /\ found' = [c \in Callers |-> None] /\ todo' = [c \in Callers |-> {}]
      /\ due' = {}
  BY DEF Crash
<1>1. RowsKeep BY <1>0, RowsSame DEF TypeOK, BoardType
<1>2. BoardType' /\ PastType' BY <1>0, <1>1, BoardSame, PastSame DEF TypeOK, PastType
<1>3. TaskType' BY <1>0, FreshType DEF TaskType
<1>4. CallType' BY <1>0 DEF CallType
<1>5. LinkInv' BY <1>0 DEF LinkInv, Rows
<1> QED BY <1>1, <1>2, <1>3, <1>4, <1>5 DEF CallBase, TypeOK

LEMMA IdleBase ==
    ASSUME TypeOK, LinkInv, UNCHANGED vars PROVE CallBase
<1>1. RowsKeep BY RowsSame DEF TypeOK, BoardType, vars
<1>2. TypeOK'
  BY <1>1, BoardSame, TaskSame, CallSame, PastSame DEF TypeOK, vars, PastType, env
<1>3. LinkInv' BY <1>1, CompletedSame, LinkKept DEF vars, task, LinkInv
<1> QED BY <1>1, <1>2, <1>3 DEF CallBase

LEMMA BaseNext ==
    ASSUME TypeOK, LinkInv, [Next]_vars PROVE TypeOK' /\ LinkInv' /\ RowsKeep
<1>1. ASSUME NEW t \in Tasks, Claim(t) \/ Step(t) PROVE TypeOK' /\ LinkInv' /\ RowsKeep
  BY <1>1, TaskStepBase, TaskBaseSuffices DEF TaskBase
<1>2. ASSUME NEW c \in Callers, Approve(c) \/ Deny(c) \/ Drain(c) \/ Reply(c) PROVE CallBase
  BY <1>2, DecideBase, DrainBase, ExecuteBase, RecordBase, FindBase, MarkBase, ListBase,
     CascadeBase DEF Reply
<1> QED BY <1>1, <1>2, SweepBase, CrashBase, IdleBase DEF CallBase, Next, Quiescent

-----------------------------------------------------------------------------
(* What is known of the past stays known.                                   *)

LEMMA AnswersAre ==
    ASSUME TypeOK
    PROVE  /\ Len(answers) \in Nat /\ DOMAIN answers = 1 .. Len(answers)
           /\ Len(answers) <= MaxTurns
           /\ \A n \in DOMAIN answers : answers[n].of \in Assignments /\ answers[n].batch \in Answers
<1>1. answers \in Seq([of : Assignments, batch : Answers]) /\ Len(answers) <= MaxTurns
  BY DEF TypeOK, PastType
<1>2. /\ Len(answers) \in Nat /\ DOMAIN answers = 1 .. Len(answers)
      /\ \A n \in 1 .. Len(answers) : answers[n] \in [of : Assignments, batch : Answers]
  BY <1>1, LenProperties, ElementOfSeq
<1> QED BY <1>1, <1>2

LEMMA HistoryGrows ==
    ASSUME TypeOK, LinkInv, [Next]_vars
    PROVE  /\ \A act \in Acts : effects'[act] >= effects[act]
           /\ DOMAIN answers \subseteq DOMAIN answers'
           /\ \A n \in DOMAIN answers : answers'[n] = answers[n]
<1>0. \A act \in Acts : effects[act] \in Nat /\ effects[act] >= effects[act]
  BY DEF TypeOK, PastType
<1>1. UNCHANGED effects \/ \E t \in Tasks : Act(t)
  BY DEF Next, Step, Reply, Claim, Fetch, Begin, Restore, Think, Suspend, Fold, Complete, Fail,
         Approve, Deny, Drain, Execute, Record, Find, Mark, ListPending, CascadeDeny,
         RetryScan, RetryOne, Crash, Quiescent, vars, past
<1>2. UNCHANGED answers \/ \E t \in Tasks : Think(t)
  BY DEF Next, Step, Reply, Claim, Fetch, Begin, Restore, Act, Suspend, Fold, Complete, Fail,
         Approve, Deny, Drain, Execute, Record, Find, Mark, ListPending, CascadeDeny,
         RetryScan, RetryOne, Crash, Quiescent, vars, past
<1>3. ASSUME NEW t \in Tasks, Act(t) PROVE \A act \in Acts : effects'[act] >= effects[act]
  <2>1. \/ UNCHANGED effects
        \/ \E act \in Acts : effects' = [effects EXCEPT ![act] = @ + 1]
    BY <1>3, ActIs DEF Settles, Asks
  <2>2. effects \in [Acts -> Nat] BY DEF TypeOK, PastType
  <2>3. ASSUME NEW one \in Acts, effects' = [effects EXCEPT ![one] = @ + 1], NEW act \in Acts
        PROVE  effects'[act] >= effects[act]
    <3>1. effects'[act] = IF act = one THEN effects[act] + 1 ELSE effects[act] BY <2>2, <2>3
    <3> QED BY <1>0, <3>1
  <2> QED BY <1>0, <2>1, <2>3
<1>4. ASSUME NEW t \in Tasks, Think(t)
      PROVE  /\ DOMAIN answers \subseteq DOMAIN answers'
             /\ \A n \in DOMAIN answers : answers'[n] = answers[n]
  <2>1. CASE UNCHANGED answers BY <2>1
  <2>2. ASSUME NEW batch \in Answers, Proposes(t, batch)
        PROVE  /\ DOMAIN answers \subseteq DOMAIN answers'
               /\ \A n \in DOMAIN answers : answers'[n] = answers[n]
    <3>1. /\ Len(answers) \in Nat /\ Len(answers') = Len(answers) + 1
          /\ answers' \in Seq([of : Assignments, batch : Answers])
          /\ \A n \in 1 .. Len(answers) : answers'[n] = answers[n]
      BY <1>4, <2>2, ThinkIs, ProposesIs
    <3>2. DOMAIN answers = 1 .. Len(answers) BY AnswersAre
    <3>3. DOMAIN answers' = 1 .. Len(answers') BY <3>1, LenProperties
    <3> QED BY <3>1, <3>2, <3>3
  <2> QED BY <1>4, <2>1, <2>2, ThinkIs
<1> QED BY <1>0, <1>1, <1>2, <1>3, <1>4

LEMMA DoneGrows ==
    ASSUME TypeOK, LinkInv, [Next]_vars PROVE Done \subseteq Done'
<1>1. RowsKeep /\ TypeOK' BY BaseNext
<1>2. ASSUME NEW act \in Done PROVE act \in Done'
  <2>1. CASE effects[act] > 0
    <3>1. act \in Acts /\ effects[act] \in Nat /\ effects'[act] \in Nat
      BY <1>1 DEF Done, TypeOK, PastType
    <3>2. effects'[act] >= effects[act] BY <3>1, HistoryGrows
    <3> QED BY <2>1, <3>1, <3>2 DEF Done
  <2>2. ASSUME NEW r \in Rows, rows[r].act = act, rows[r].runs > 0 PROVE act \in Done'
    <3>1. r \in Rows' /\ rows'[r].act = act /\ rows'[r].runs >= rows[r].runs
      BY <1>1, <2>2 DEF RowsKeep
    <3>2. rows[r].runs \in Nat BY RowIs DEF TypeOK, BoardType
    <3>3. rows'[r].runs \in Nat
      <4>1. rows'[r] \in Row BY <1>1, <3>1 DEF RowsKeep, Rows
      <4> QED BY <4>1 DEF Row
    <3> QED BY <2>2, <3>1, <3>2, <3>3 DEF Done
  <2> QED BY <2>1, <2>2 DEF Done
<1> QED BY <1>2

-----------------------------------------------------------------------------
(* What a loop state tells is true.                                         *)

\* Honest, of the actions that are done.
Tells(D, m) == /\ Len(m.told) = Len(m.partial)
               /\ \A i \in DOMAIN m.told : m.told[i] = "executed" => m.partial[i] \in D

TellsInv ==
    /\ \A t \in Tasks : Tells(Done, mem[t])
    /\ \A a \in Assignments : conversation[a] # None => Tells(Done, conversation[a])

LEMMA TellsIs == HonestInv <=> TellsInv
BY DEF HonestInv, TellsInv, Honest, Told, Tells

LEMMA TellsIsNext == HonestInv' <=> TellsInv'
BY DEF HonestInv, TellsInv, Honest, Told, Tells

LEMMA TellsEmpty ==
    ASSUME NEW D, NEW m, m.told = << >>, m.partial = << >> PROVE Tells(D, m)
BY DEF Tells

LEMMA TellsMore ==
    ASSUME NEW D, NEW E, D \subseteq E, NEW m, Tells(D, m) PROVE Tells(E, m)
BY DEF Tells

LEMMA TellsAnswer ==
    ASSUME NEW D, NEW m \in LoopStates, Tells(D, m), NEW act \in Acts,
           NEW told \in {"executed", "denied"}, told = "executed" => act \in D
    PROVE  Tells(D, Answer(m, act, told))
<1> DEFINE n == Answer(m, act, told)
<1>1. m.partial \in Seq(Acts) /\ m.told \in Seq({"executed", "denied"})
  BY DEF LoopStates
<1>2. n.partial = Append(m.partial, act) /\ n.told = Append(m.told, told)
  BY DEF Answer, LoopStates
<1> HIDE DEF n
<1>3. /\ Len(m.partial) \in Nat /\ Len(n.partial) = Len(m.partial) + 1
      /\ \A i \in 1 .. Len(m.partial) : n.partial[i] = m.partial[i]
      /\ n.partial[Len(m.partial) + 1] = act
  BY <1>1, <1>2, AppendProperties, LenProperties
<1>4. /\ Len(m.told) \in Nat /\ Len(n.told) = Len(m.told) + 1
      /\ \A i \in 1 .. Len(m.told) : n.told[i] = m.told[i]
      /\ n.told[Len(m.told) + 1] = told
      /\ DOMAIN m.told = 1 .. Len(m.told) /\ DOMAIN n.told = 1 .. Len(n.told)
  BY <1>1, <1>2, AppendProperties, LenProperties
<1>5. Len(m.told) = Len(m.partial) BY DEF Tells
<1>6. ASSUME NEW i \in DOMAIN n.told, n.told[i] = "executed" PROVE n.partial[i] \in D
  <2>1. CASE i = Len(m.told) + 1 BY <1>3, <1>4, <1>5, <1>6, <2>1
  <2>2. CASE i # Len(m.told) + 1
    <3>1. i \in 1 .. Len(m.told) BY <1>4, <2>2
    <3> QED BY <1>3, <1>4, <1>5, <1>6, <3>1 DEF Tells
  <2> QED BY <2>1, <2>2
<1>7. Len(n.told) = Len(n.partial) BY <1>3, <1>4, <1>5
<1> QED BY <1>6, <1>7 DEF Tells, n

\* One task changed its loop state, or saved it.
LEMMA TellsStep ==
    ASSUME TypeOK, LinkInv, HonestInv, [Next]_vars,
           \A t \in Tasks : \/ mem'[t] = mem[t]
                             \/ Tells(Done', mem'[t]),
           \A a \in Assignments : \/ conversation'[a] = conversation[a]
                                   \/ Tells(Done', conversation'[a])
    PROVE  HonestInv'
<1>1. Done \subseteq Done' BY DoneGrows
<1>2. TellsInv BY TellsIs
<1>3. ASSUME NEW t \in Tasks PROVE Tells(Done', mem'[t])
  <2>1. CASE mem'[t] = mem[t]
    <3>1. Tells(Done, mem[t]) BY <1>2 DEF TellsInv
    <3> QED BY <1>1, <2>1, <3>1, TellsMore
  <2> QED BY <2>1
<1>4. ASSUME NEW a \in Assignments, conversation'[a] # None PROVE Tells(Done', conversation'[a])
  <2>1. CASE conversation'[a] = conversation[a]
    <3>1. Tells(Done, conversation[a]) BY <1>2, <1>4, <2>1 DEF TellsInv
    <3> QED BY <1>1, <2>1, <3>1, TellsMore
  <2> QED BY <2>1
<1>5. TellsInv' BY <1>3, <1>4 DEF TellsInv
<1> QED BY <1>5, TellsIsNext

LEMMA BetweenTells == ASSUME NEW D, NEW m PROVE Tells(D, Between(m)) /\ Tells(D, Fresh)
<1>1. Between(m).told = << >> /\ Between(m).partial = << >> BY DEF Between, Fresh
<1>2. Fresh.told = << >> /\ Fresh.partial = << >> BY DEF Fresh
<1> QED BY <1>1, <1>2, TellsEmpty

LEMMA RestoreTells ==
    ASSUME TypeOK, LinkInv, HonestInv, NEW t \in Tasks, Restore(t)
    PROVE  \A u \in Tasks : mem'[u] = mem[u] \/ Tells(Done', mem'[u])
<1> DEFINE m == Harvested(mem[t], ask[t])
           new == Unnoted(m, iter[t])
<1>0. /\ mem' = [mem EXCEPT ![t] = [m EXCEPT !.noted = @ \/ new]]
      /\ UNCHANGED <<rows, effects>>
  BY DEF Restore
<1>1. m \in LoopStates /\ mem[t] \in LoopStates /\ ask[t] \in Rows \cup {None}
      /\ mem \in [Tasks -> LoopStates]
  BY HarvestedType DEF TypeOK, TaskType
<1>2. Tells(Done, m)
  <2>1. Tells(Done, mem[t]) BY TellsIs DEF TellsInv
  <2>2. CASE ask[t] = None BY <2>1, <2>2 DEF Harvested
  <2>3. CASE ask[t] # None
    <3> DEFINE told == IF rows[ask[t]].status = "completed" THEN "executed" ELSE "denied"
               act == rows[ask[t]].act
    <3>1. ask[t] \in Rows /\ act \in Acts BY <1>1, <2>3, RowIs DEF TypeOK, BoardType
    <3>2. told = "executed" => act \in Done BY <3>1 DEF LinkInv, Done
    <3>3. told \in {"executed", "denied"} /\ m = Answer(mem[t], act, told)
      BY <2>3 DEF Harvested
    <3> HIDE DEF told, act, m
    <3> QED BY <1>1, <2>1, <3>1, <3>2, <3>3, TellsAnswer
  <2> QED BY <2>2, <2>3
<1> HIDE DEF m, new
<1>3. Tells(Done, [m EXCEPT !.noted = @ \/ new])
  <2> DEFINE k == [m EXCEPT !.noted = @ \/ new]
  <2>1. k.told = m.told /\ k.partial = m.partial BY <1>1 DEF LoopStates
  <2> HIDE DEF k
  <2>2. Tells(Done, k) BY <1>2, <2>1 DEF Tells
  <2> QED BY <2>2 DEF k
<1>4. Done' = Done BY <1>0 DEF Done, Rows
<1> QED BY <1>0, <1>1, <1>3, <1>4

LEMMA ActTells ==
    ASSUME TypeOK, LinkInv, HonestInv, NEW t \in Tasks, Act(t)
    PROVE  \A u \in Tasks : mem'[u] = mem[u] \/ Tells(Done', mem'[u])
<1> DEFINE act == Head(mem[t].remaining)
<1>0. mem[t] \in LoopStates /\ Popped(mem[t]) \in LoopStates /\ act \in Acts
      /\ mem \in [Tasks -> LoopStates] /\ effects \in [Acts -> Nat]
  BY ActIs, PoppedType DEF TypeOK, TaskType, PastType
<1>1. Tells(Done, Popped(mem[t]))
  <2>1. Tells(Done, mem[t]) BY TellsIs DEF TellsInv
  <2>2. Popped(mem[t]).told = mem[t].told /\ Popped(mem[t]).partial = mem[t].partial
    BY <1>0 DEF Popped, LoopStates
  <2> QED BY <2>1, <2>2 DEF Tells
<1>2. Next BY DEF Next, Step
<1>3. Done \subseteq Done' BY <1>2, DoneGrows
<1>4. Tells(Done', Popped(mem[t])) BY <1>1, <1>3, TellsMore
<1> HIDE DEF act
<1>5. ASSUME NEW told \in {"denied", "executed"}, NEW phase \in {"loop", "fail"},
             Settles(t, act, told, phase)
      PROVE  \A u \in Tasks : mem'[u] = mem[u] \/ Tells(Done', mem'[u])
  <2>1. told = "executed" => act \in Done'
    <3>1. told = "executed" => effects' = [effects EXCEPT ![act] = @ + 1]
      BY <1>5 DEF Settles
    <3>2. told = "executed" => effects'[act] > 0 BY <1>0, <3>1
    <3> QED BY <1>0, <3>2 DEF Done
  <2>2. Tells(Done', Answer(Popped(mem[t]), act, told)) BY <1>0, <1>4, <2>1, TellsAnswer
  <2>3. mem' = [mem EXCEPT ![t] = Answer(Popped(mem[t]), act, told)] BY <1>5 DEF Settles
  <2> QED BY <1>0, <2>2, <2>3
<1>6. ASSUME NEW phase \in {"suspend", "fail"}, Asks(t, act, phase)
      PROVE  \A u \in Tasks : mem'[u] = mem[u] \/ Tells(Done', mem'[u])
  <2>1. mem' = [mem EXCEPT ![t] = Popped(mem[t])] BY <1>6 DEF Asks
  <2> QED BY <1>0, <1>4, <2>1
<1> QED BY <1>5, <1>6, ActIs DEF act

LEMMA EndTells ==
    ASSUME TypeOK, NEW t \in Tasks, End(t)
    PROVE  \A u \in Tasks : mem'[u] = mem[u] \/ Tells(Done', mem'[u])
<1>1. mem' = [mem EXCEPT ![t] = Fresh] BY DEF End
<1>2. Tells(Done', Fresh) BY BetweenTells
<1>3. mem \in [Tasks -> LoopStates] BY DEF TypeOK, TaskType
<1> QED BY <1>1, <1>2, <1>3

\* The steps of a task that save nothing.
LEMMA MemTells ==
    ASSUME TypeOK, LinkInv, HonestInv, NEW t \in Tasks,
           \/ Fetch(t) \/ Begin(t) \/ Restore(t) \/ Think(t) \/ Act(t)
           \/ Suspend(t) \/ Fold(t) \/ Complete(t) \/ Fail(t)
    PROVE  \A u \in Tasks : mem'[u] = mem[u] \/ Tells(Done', mem'[u])
<1>0. mem \in [Tasks -> LoopStates] BY DEF TypeOK, TaskType
<1>1. CASE Fetch(t)
  <2>1. CASE End(t) BY <2>1, EndTells
  <2>2. CASE ~ End(t)
    <3>1. /\ tpc[t] # "idle" /\ UNCHANGED <<board, rows, past>>
          /\ mem' = [mem EXCEPT ![t] = IF conversation[job[t]] = None THEN Fresh
                                       ELSE conversation[job[t]]]
      BY <1>1, <2>2 DEF Fetch
    <3>2. job[t] \in Assignments BY <3>1, JobIs DEF TypeOK
    <3>3. Done' = Done BY <3>1 DEF Done, Rows, past
    <3>4. conversation[job[t]] # None => Tells(Done, conversation[job[t]])
      BY <3>2, TellsIs DEF TellsInv
    <3>5. Tells(Done, Fresh) BY BetweenTells
    <3> QED BY <1>0, <3>1, <3>3, <3>4, <3>5
  <2> QED BY <2>1, <2>2
<1>2. CASE Begin(t) \/ Suspend(t) \/ Complete(t) \/ Fail(t)
  <2>1. End(t) \/ UNCHANGED mem BY <1>2 DEF Begin, Suspend, Complete, Fail
  <2> QED BY <2>1, EndTells
<1>3. CASE Think(t)
  <2>1. ASSUME NEW batch \in Answers, Proposes(t, batch)
        PROVE  \A u \in Tasks : mem'[u] = mem[u] \/ Tells(Done', mem'[u])
    <3> DEFINE proposed == [i \in DOMAIN batch |-> <<Len(answers) + 1, i>>]
               k == [Between(mem[t]) EXCEPT !.asked = TRUE, !.remaining = proposed]
    <3>1. mem' = [mem EXCEPT ![t] = k] BY <2>1 DEF Proposes
    <3>2. k.told = << >> /\ k.partial = << >> BY DEF Between, Fresh
    <3> HIDE DEF k
    <3>3. Tells(Done', k) BY <3>2, TellsEmpty
    <3> QED BY <1>0, <3>1, <3>3
  <2> QED BY <1>3, <2>1, ThinkIs
<1>4. CASE Fold(t)
  <2>1. mem' = [mem EXCEPT ![t] = Between(mem[t])] BY <1>4 DEF Fold
  <2>2. Tells(Done', Between(mem[t])) BY BetweenTells
  <2> QED BY <1>0, <2>1, <2>2
<1> QED BY <1>1, <1>2, <1>3, <1>4, RestoreTells, ActTells

LEMMA SaveTells ==
    ASSUME TypeOK, LinkInv, HonestInv, NEW t \in Tasks, Suspend(t) \/ Fold(t)
    PROVE  \A a \in Assignments : \/ conversation'[a] = conversation[a]
                                  \/ Tells(Done', conversation'[a])
<1>0. conversation \in [Assignments -> LoopStates \cup {None}]
  BY DEF TypeOK, BoardType
<1>1. UNCHANGED <<rows, past>> BY DEF Suspend, Fold
<1>2. Done' = Done BY <1>1 DEF Done, Rows, past
<1>3. PICK m : conversation' = [conversation EXCEPT ![job[t]] = m] /\ m \in {mem[t], Between(mem[t])}
  BY DEF Suspend, Fold, Save
<1>4. Tells(Done, mem[t]) BY TellsIs DEF TellsInv
<1>5. Tells(Done, m) BY <1>3, <1>4, BetweenTells
<1> QED BY <1>0, <1>2, <1>3, <1>5

LEMMA HonestNext ==
    ASSUME TypeOK, LinkInv, HonestInv, [Next]_vars PROVE HonestInv'
<1>1. ASSUME NEW t \in Tasks, Step(t) PROVE HonestInv'
  <2>1. \A u \in Tasks : mem'[u] = mem[u] \/ Tells(Done', mem'[u])
    BY <1>1, MemTells DEF Step
  <2>2. UNCHANGED conversation \/ Suspend(t) \/ Fold(t)
    BY <1>1 DEF Step, Fetch, Begin, Restore, Think, Act, Complete, Fail, board
  <2>3. \A a \in Assignments : \/ conversation'[a] = conversation[a]
                               \/ Tells(Done', conversation'[a])
    BY <2>2, SaveTells
  <2> QED BY <2>1, <2>3, TellsStep
<1>2. CASE Crash
  <2>1. conversation' = conversation BY <1>2 DEF Crash, board
  <2>2. \A u \in Tasks : Tells(Done', mem'[u]) BY <1>2, BetweenTells DEF Crash
  <2> QED BY <2>1, <2>2, TellsStep
<1>3. CASE UNCHANGED <<mem, conversation>> BY <1>3, TellsStep
<1>4. ~ (\E t \in Tasks : Step(t)) /\ ~ Crash => UNCHANGED <<mem, conversation>>
  BY DEF Next, Reply, Claim, Approve, Deny, Drain, Execute, Record, Find, Mark, ListPending,
         CascadeDeny, RetryScan, RetryOne, Quiescent, vars, board, task
<1> QED BY <1>1, <1>2, <1>3, <1>4

-----------------------------------------------------------------------------
(* Batches.                                                                 *)

LEMMA SeqMove ==
    ASSUME NEW S, NEW p \in Seq(S), NEW q \in Seq(S), NEW x \in S
    PROVE  p \o <<x>> \o q = Append(p, x) \o << >> \o q
<1>1. << >> \in Seq(S) /\ Append(p, x) \in Seq(S) /\ <<x>> \in Seq(S)
  OBVIOUS
<1>2. p \o <<x>> = Append(p, x) BY AppendIsConcat
<1>3. Append(p, x) \o << >> = Append(p, x) BY <1>1, ConcatEmptySeq
<1> QED BY <1>2, <1>3

LEMMA SeqPop ==
    ASSUME NEW S, NEW p \in Seq(S), NEW q \in Seq(S), q # << >>
    PROVE  p \o << >> \o q = p \o <<Head(q)>> \o Tail(q)
<1>1. /\ Head(q) \in S /\ Tail(q) \in Seq(S) /\ << >> \in Seq(S) /\ <<Head(q)>> \in Seq(S)
  BY HeadTailProperties
<1>2. p \o << >> = p BY ConcatEmptySeq
<1>3. <<Head(q)>> \o Tail(q) = q
  <2>1. Len(q) \in Nat /\ Len(q) > 0 BY EmptySeq, LenProperties
  <2>2. Len(Tail(q)) = Len(q) - 1 /\ \A i \in 1 .. Len(q) - 1 : Tail(q)[i] = q[i + 1]
    BY HeadTailProperties
  <2>3. <<Head(q)>> \o Tail(q) \in Seq(S) /\ Len(<<Head(q)>> \o Tail(q)) = Len(q)
    BY <1>1, <2>1, <2>2
  <2>4. ASSUME NEW i \in 1 .. Len(q) PROVE (<<Head(q)>> \o Tail(q))[i] = q[i]
    BY <1>1, <2>1, <2>2
  <2> QED BY <2>3, <2>4, SeqEqual
<1>4. p \o (<<Head(q)>> \o Tail(q)) = p \o <<Head(q)>> \o Tail(q)
  BY <1>1, ConcatAssociative
<1> QED BY <1>2, <1>3, <1>4

\* The batch with what is asked about in the middle, and Sound of it.
Items(m, q) == m.partial \o q \o m.remaining

Query(board_rows, r) == IF r = None THEN << >> ELSE <<board_rows[r].act>>

Proper(given, a, m, q) ==
    /\ IF m.asked THEN /\ Items(m, q) # << >>
                       /\ Items(m, q) = [i \in DOMAIN given[Items(m, q)[1][1]].batch |->
                                            <<Items(m, q)[1][1], i>>]
                  ELSE Items(m, q) = << >>
    /\ m.asked => /\ Items(m, q)[1][1] \in DOMAIN given
                  /\ given[Items(m, q)[1][1]].of = a

TaskProper(given, board_rows, phase, a, m, r, i) ==
    /\ phase \in {"start", "restore", "loop", "suspend"} => Proper(given, a, m, Query(board_rows, r))
    /\ phase = "loop" => r = None
    /\ phase = "suspend" => r # None
    /\ phase = "complete" => m.remaining = << >>
    /\ phase \in {"loop", "suspend", "complete"} => ~ Unnoted(m, i)

SavedProper(given, board_rows, a, m, r) ==
    IF m = None THEN r = None ELSE Proper(given, a, m, Query(board_rows, r))

ProperInv ==
    /\ \A t \in Tasks : TaskProper(answers, rows, tpc[t], job[t], mem[t], ask[t], iter[t])
    /\ \A a \in Assignments : SavedProper(answers, rows, a, conversation[a], waiting_action[a])

LEMMA ProperIs == BatchInv <=> ProperInv
BY DEF BatchInv, ProperInv, Sound, Whole, All, Asking, Batch, TaskProper, SavedProper, Proper,
       Items, Query

LEMMA ProperIsNext == BatchInv' <=> ProperInv'
BY DEF BatchInv, ProperInv, Sound, Whole, All, Asking, Batch, TaskProper, SavedProper, Proper,
       Items, Query

LEMMA ProperEmpty ==
    ASSUME NEW given, NEW a, NEW m, ~ m.asked, m.partial = << >>, m.remaining = << >>
    PROVE  Proper(given, a, m, << >>)
<1>1. << >> \o << >> \o << >> = << >> OBVIOUS
<1> QED BY <1>1 DEF Proper, Items

\* Proper looks at the items and at asked alone.
LEMMA ProperMoves ==
    ASSUME NEW given, NEW a, NEW m, NEW k, NEW q, NEW p,
           Proper(given, a, m, q), k.asked = m.asked, Items(k, p) = Items(m, q)
    PROVE  Proper(given, a, k, p)
BY DEF Proper

LEMMA ProperMore ==
    ASSUME NEW given, NEW more, NEW a, NEW m, NEW q, Proper(given, a, m, q),
           DOMAIN given \subseteq DOMAIN more, \A n \in DOMAIN given : more[n] = given[n]
    PROVE  Proper(more, a, m, q)
BY DEF Proper

LEMMA ProperAnswer ==
    ASSUME NEW given, NEW a, NEW m \in LoopStates, NEW act \in Acts, NEW told,
           Proper(given, a, m, <<act>>)
    PROVE  Proper(given, a, Answer(m, act, told), << >>)
<1> DEFINE k == Answer(m, act, told)
<1>1. m.partial \in Seq(Acts) /\ m.remaining \in Seq(Acts) BY DEF LoopStates
<1>2. k.asked = m.asked /\ k.partial = Append(m.partial, act) /\ k.remaining = m.remaining
  BY DEF Answer, LoopStates
<1> HIDE DEF k
<1>3. Items(k, << >>) = Items(m, <<act>>)
  <2>1. m.partial \o <<act>> \o m.remaining = Append(m.partial, act) \o << >> \o m.remaining
    BY <1>1, SeqMove
  <2>2. Items(k, << >>) = Append(m.partial, act) \o << >> \o m.remaining
    BY <1>2 DEF Items
  <2>3. Items(m, <<act>>) = m.partial \o <<act>> \o m.remaining BY DEF Items
  <2> QED BY <2>1, <2>2, <2>3, Zenon
<1>4. Proper(given, a, k, << >>) BY <1>2, <1>3, ProperMoves
<1> QED BY <1>4 DEF k

LEMMA ProperPopped ==
    ASSUME NEW given, NEW a, NEW m \in LoopStates, m.remaining # << >>,
           Proper(given, a, m, << >>)
    PROVE  Proper(given, a, Popped(m), <<Head(m.remaining)>>)
<1> DEFINE k == Popped(m)
<1>1. m.partial \in Seq(Acts) /\ m.remaining \in Seq(Acts) BY DEF LoopStates
<1>2. k.asked = m.asked /\ k.partial = m.partial /\ k.remaining = Tail(m.remaining)
  BY DEF Popped, LoopStates
<1> HIDE DEF k
<1>3. Items(k, <<Head(m.remaining)>>) = Items(m, << >>) BY <1>1, <1>2, SeqPop DEF Items
<1>4. Proper(given, a, k, <<Head(m.remaining)>>) BY <1>2, <1>3, ProperMoves
<1> QED BY <1>4 DEF k

LEMMA ProperProposed ==
    ASSUME NEW given, NEW a, NEW m, NEW batch \in Answers, NEW n \in DOMAIN given,
           n \in 1 .. MaxTurns, given[n] = [of |-> a, batch |-> batch],
           m.partial = << >>, m.remaining = [i \in DOMAIN batch |-> <<n, i>>]
    PROVE  Proper(given, a, m, << >>) \/ ~ m.asked
<1> DEFINE q == [i \in DOMAIN batch |-> <<n, i>>]
<1>1. q \in Seq(Acts) /\ Len(q) = Len(batch) /\ Len(batch) \in 1 .. MaxBatch
      /\ DOMAIN batch = 1 .. Len(batch)
  BY ProposedType
<1>2. << >> \o << >> \o q = q
  <2>1. << >> \o << >> = << >> OBVIOUS
  <2>2. << >> \o q = q BY <1>1, ConcatEmptySeq
  <2> QED BY <2>1, <2>2
<1>3. Items(m, << >>) = q BY <1>2 DEF Items
<1>4. 1 \in DOMAIN batch /\ q # << >>
  BY <1>1, Numbers, EmptySeq
<1>5. q[1][1] = n BY <1>4
<1>6. given[n].batch = batch /\ given[n].of = a OBVIOUS
<1> HIDE DEF q
<1>7. q = [i \in DOMAIN given[n].batch |-> <<n, i>>] BY <1>6 DEF q
<1> QED BY <1>3, <1>4, <1>5, <1>6, <1>7 DEF Proper

\* The rows asked about are not renamed, the answers not changed.
LEMMA QueryKept ==
    ASSUME RowsKeep, NEW r \in Rows \cup {None}
    PROVE  Query(rows', r) = Query(rows, r)
BY DEF Query, RowsKeep

LEMMA ProperKept ==
    ASSUME TypeOK, LinkInv, [Next]_vars, NEW a, NEW m, NEW r \in Rows \cup {None},
           Proper(answers, a, m, Query(rows, r))
    PROVE  Proper(answers', a, m, Query(rows', r))
<1>1. RowsKeep BY BaseNext
<1>2. Query(rows', r) = Query(rows, r) BY <1>1, QueryKept
<1>3. /\ DOMAIN answers \subseteq DOMAIN answers'
      /\ \A n \in DOMAIN answers : answers'[n] = answers[n]
  BY HistoryGrows
<1> QED BY <1>2, <1>3, ProperMore

\* The tasks but one, and the rows but those a task saves, are as they were.
LEMMA ProperStep ==
    ASSUME TypeOK, LinkInv, BatchInv, [Next]_vars, NEW moved \in SUBSET Tasks,
           \A t \in Tasks \ moved : /\ tpc'[t] = tpc[t] /\ job'[t] = job[t]
                                    /\ mem'[t] = mem[t] /\ ask'[t] = ask[t]
                                    /\ iter'[t] = iter[t],
           \A t \in moved : TaskProper(answers', rows', tpc'[t], job'[t], mem'[t], ask'[t], iter'[t]),
           \A a \in Assignments :
              \/ conversation'[a] = conversation[a] /\ waiting_action'[a] = waiting_action[a]
              \/ SavedProper(answers', rows', a, conversation'[a], waiting_action'[a])
    PROVE  BatchInv'
<1>1. ProperInv BY ProperIs
<1>2. ASSUME NEW t \in Tasks
      PROVE  TaskProper(answers', rows', tpc'[t], job'[t], mem'[t], ask'[t], iter'[t])
  <2>1. CASE t \in moved BY <2>1
  <2>2. CASE t \notin moved
    <3>1. TaskProper(answers, rows, tpc[t], job[t], mem[t], ask[t], iter[t])
      BY <1>1 DEF ProperInv
    <3>2. ask[t] \in Rows \cup {None} BY DEF TypeOK, TaskType
    <3>3. Proper(answers, job[t], mem[t], Query(rows, ask[t]))
             => Proper(answers', job[t], mem[t], Query(rows', ask[t]))
      BY <3>2, ProperKept
    <3>4. TaskProper(answers', rows', tpc[t], job[t], mem[t], ask[t], iter[t])
      BY <3>1, <3>3 DEF TaskProper
    <3> QED BY <2>2, <3>4
  <2> QED BY <2>1, <2>2
<1>3. ASSUME NEW a \in Assignments
      PROVE  SavedProper(answers', rows', a, conversation'[a], waiting_action'[a])
  <2>1. CASE conversation'[a] = conversation[a] /\ waiting_action'[a] = waiting_action[a]
    <3>1. SavedProper(answers, rows, a, conversation[a], waiting_action[a])
      BY <1>1 DEF ProperInv
    <3>2. waiting_action[a] \in Rows \cup {None} BY DEF TypeOK, BoardType
    <3>3. Proper(answers, a, conversation[a], Query(rows, waiting_action[a]))
             => Proper(answers', a, conversation[a], Query(rows', waiting_action[a]))
      BY <3>2, ProperKept
    <3>4. SavedProper(answers', rows', a, conversation[a], waiting_action[a])
      BY <3>1, <3>3 DEF SavedProper
    <3> QED BY <2>1, <3>4
  <2> QED BY <1>3, <2>1
<1>4. ProperInv' BY <1>2, <1>3 DEF ProperInv
<1> QED BY <1>4, ProperIsNext

\* A task in no phase that is looked at.
LEMMA ProperOver ==
    ASSUME NEW given, NEW board_rows, NEW phase \in {"idle", "fetch", "fail"},
           NEW a, NEW m, NEW r, NEW i
    PROVE  TaskProper(given, board_rows, phase, a, m, r, i)
BY DEF TaskProper

LEMMA TaskIs ==
    ASSUME TypeOK, BatchInv, NEW t \in Tasks
    PROVE  /\ TaskProper(answers, rows, tpc[t], job[t], mem[t], ask[t], iter[t])
           /\ mem[t] \in LoopStates /\ ask[t] \in Rows \cup {None} /\ iter[t] \in Nat
BY ProperIs DEF ProperInv, TypeOK, TaskType

\* What a step of task t leaves alone.
Others(t) ==
    \A u \in Tasks \ {t} : /\ tpc'[u] = tpc[u] /\ job'[u] = job[u]
                           /\ mem'[u] = mem[u] /\ ask'[u] = ask[u]
                           /\ iter'[u] = iter[u]

LEMMA StepOthers ==
    ASSUME TypeOK, NEW t \in Tasks, Claim(t) \/ Step(t) PROVE Others(t)
<1>0. /\ DOMAIN tpc = Tasks /\ DOMAIN job = Tasks /\ DOMAIN mem = Tasks
      /\ DOMAIN ask = Tasks /\ DOMAIN iter = Tasks
  BY DEF TypeOK, TaskType
<1>1. CASE Claim(t) BY <1>0, <1>1 DEF Claim, Go, Others
<1>2. CASE Fetch(t) BY <1>0, <1>2 DEF Fetch, End, Go, Others
<1>3. CASE Begin(t) BY <1>0, <1>3 DEF Begin, End, Go, Others
<1>4. CASE Restore(t)
  <2>1. /\ \E m : mem' = [mem EXCEPT ![t] = m]
        /\ tpc' = [tpc EXCEPT ![t] = "loop"] /\ ask' = [ask EXCEPT ![t] = None]
        /\ UNCHANGED <<job, iter>>
    BY <1>4 DEF Restore, Go
  <2> QED BY <1>0, <2>1 DEF Others
<1>5. CASE Think(t)
  <2>1. /\ UNCHANGED mem \/ \E m : mem' = [mem EXCEPT ![t] = m]
        /\ UNCHANGED tpc \/ \E phase : tpc' = [tpc EXCEPT ![t] = phase]
        /\ UNCHANGED <<job, iter, ask>>
    BY <1>5, ThinkIs DEF Proposes
  <2> QED BY <1>0, <2>1 DEF Others
<1>6. CASE Act(t)
  <2>1. /\ \E m : mem' = [mem EXCEPT ![t] = m]
        /\ UNCHANGED tpc \/ \E phase : tpc' = [tpc EXCEPT ![t] = phase]
        /\ UNCHANGED ask \/ \E r : ask' = [ask EXCEPT ![t] = r]
        /\ UNCHANGED <<job, iter>>
    BY <1>6 DEF Act, Refuse, Perform, Propose, Go
  <2> QED BY <1>0, <2>1 DEF Others
<1>7. CASE Suspend(t) BY <1>0, <1>7 DEF Suspend, End, Go, Others
<1>8. CASE Fold(t)
  <2>1. /\ mem' = [mem EXCEPT ![t] = Between(mem[t])] /\ iter' = [iter EXCEPT ![t] = iter[t] + 1]
        /\ UNCHANGED <<tpc, job, ask>>
    BY <1>8 DEF Fold
  <2> QED BY <1>0, <2>1 DEF Others
<1>9. CASE Complete(t) \/ Fail(t) BY <1>0, <1>9 DEF Complete, Fail, End, Go, Others
<1> QED BY <1>1, <1>2, <1>3, <1>4, <1>5, <1>6, <1>7, <1>8, <1>9 DEF Step

\* What a step of task t must show of it.
Moved(t) == TaskProper(answers', rows', tpc'[t], job'[t], mem'[t], ask'[t], iter'[t])

LEMMA EndMoved ==
    ASSUME TypeOK, NEW t \in Tasks, End(t) PROVE Moved(t)
BY ProperOver DEF End, Go, Moved, TypeOK, TaskType

LEMMA FetchMoved ==
    ASSUME TypeOK, LinkInv, BatchInv, NEW t \in Tasks, Fetch(t) PROVE Moved(t)
<1>1. CASE ~ End(t)
  <2>1. /\ tpc[t] = "fetch" /\ UNCHANGED <<board, rows, job, past>>
        /\ tpc' = [tpc EXCEPT ![t] = "start"]
        /\ mem' = [mem EXCEPT ![t] = IF conversation[job[t]] = None THEN Fresh
                                     ELSE conversation[job[t]]]
        /\ ask' = [ask EXCEPT ![t] = waiting_action[job[t]]]
    BY <1>1 DEF Fetch, Go
  <2>2. job[t] \in Assignments BY <2>1, JobIs DEF TypeOK
  <2>3. SavedProper(answers, rows, job[t], conversation[job[t]], waiting_action[job[t]])
    BY <2>2, ProperIs DEF ProperInv
  <2>4. Proper(answers, job[t], mem'[t], Query(rows, ask'[t]))
    <3>1. mem'[t] = (IF conversation[job[t]] = None THEN Fresh ELSE conversation[job[t]])
          /\ ask'[t] = waiting_action[job[t]]
      BY <2>1 DEF TypeOK, TaskType
    <3>2. CASE conversation[job[t]] = None
      <4>1. ~ Fresh.asked /\ Fresh.partial = << >> /\ Fresh.remaining = << >> BY DEF Fresh
      <4>2. Proper(answers, job[t], Fresh, << >>) BY <4>1, ProperEmpty
      <4> QED BY <2>3, <3>1, <3>2, <4>2 DEF SavedProper, Query
    <3>3. CASE conversation[job[t]] # None
      BY <2>3, <3>1, <3>3 DEF SavedProper
    <3> QED BY <3>2, <3>3
  <2>5. tpc'[t] = "start" /\ job'[t] = job[t] BY <2>1 DEF TypeOK, TaskType
  <2> QED BY <2>1, <2>4, <2>5 DEF Moved, TaskProper, past
<1> QED BY <1>1, EndMoved

LEMMA BeginMoved ==
    ASSUME TypeOK, LinkInv, BatchInv, NEW t \in Tasks, Begin(t) PROVE Moved(t)
<1>1. CASE ~ End(t)
  <2>1. /\ tpc[t] = "start" /\ tpc' = [tpc EXCEPT ![t] = "restore"]
        /\ UNCHANGED <<rows, job, mem, iter, ask, past>>
    BY <1>1 DEF Begin, Go
  <2>2. tpc'[t] = "restore" BY <2>1 DEF TypeOK, TaskType
  <2>3. Proper(answers, job[t], mem[t], Query(rows, ask[t])) BY <2>1, TaskIs DEF TaskProper
  <2> QED BY <2>1, <2>2, <2>3 DEF Moved, TaskProper, past
<1> QED BY <1>1, EndMoved

LEMMA RestoreMoved ==
    ASSUME TypeOK, LinkInv, BatchInv, NEW t \in Tasks, Restore(t) PROVE Moved(t)
<1> DEFINE m == Harvested(mem[t], ask[t])
           new == Unnoted(m, iter[t])
           k == [m EXCEPT !.noted = @ \/ new]
<1>0. /\ tpc[t] = "restore" /\ tpc' = [tpc EXCEPT ![t] = "loop"]
      /\ mem' = [mem EXCEPT ![t] = k] /\ ask' = [ask EXCEPT ![t] = None]
      /\ UNCHANGED <<rows, job, iter, answers>>
  BY DEF Restore, Go
<1>1. m \in LoopStates /\ mem[t] \in LoopStates /\ ask[t] \in Rows \cup {None}
  BY HarvestedType DEF TypeOK, TaskType
<1>2. Proper(answers, job[t], mem[t], Query(rows, ask[t])) BY <1>0, TaskIs DEF TaskProper
<1>3. Proper(answers, job[t], m, << >>)
  <2>1. CASE ask[t] = None BY <1>2, <2>1 DEF Harvested, Query
  <2>2. CASE ask[t] # None
    <3>1. rows[ask[t]].act \in Acts BY <1>1, <2>2, RowIs DEF TypeOK, BoardType
    <3>2. Query(rows, ask[t]) = <<rows[ask[t]].act>> BY <2>2 DEF Query
    <3> QED BY <1>1, <1>2, <2>2, <3>1, <3>2, ProperAnswer DEF Harvested
  <2> QED BY <2>1, <2>2
<1>4. /\ k.asked = m.asked /\ k.partial = m.partial /\ k.remaining = m.remaining
      /\ k.noted = (m.noted \/ new)
  BY <1>1 DEF LoopStates
<1>5. ~ Unnoted(k, iter[t]) BY <1>4 DEF Unnoted
<1> HIDE DEF k, m, new
<1>6. Items(k, << >>) = Items(m, << >>) BY <1>4 DEF Items
<1>7. Proper(answers, job[t], k, << >>) BY <1>3, <1>4, <1>6, ProperMoves
<1>8. tpc'[t] = "loop" /\ mem'[t] = k /\ ask'[t] = None BY <1>0 DEF TypeOK, TaskType
<1> QED BY <1>0, <1>5, <1>7, <1>8 DEF Moved, TaskProper, Query

LEMMA ThinkMoved ==
    ASSUME TypeOK, LinkInv, BatchInv, NEW t \in Tasks, Think(t) PROVE Moved(t)
<1>0. /\ tpc[t] = "loop" /\ mem[t].remaining = << >> /\ ~ mem[t].asked
      /\ UNCHANGED <<rows, job, iter, ask>>
  BY ThinkIs
<1>1. /\ TaskProper(answers, rows, tpc[t], job[t], mem[t], ask[t], iter[t])
      /\ mem[t] \in LoopStates
  BY TaskIs
<1>2. ASSUME tpc' = [tpc EXCEPT ![t] = "fail"] PROVE Moved(t)
  <2>1. tpc'[t] = "fail" BY <1>2 DEF TypeOK, TaskType
  <2> QED BY <2>1, ProperOver DEF Moved
<1>3. ASSUME tpc' = [tpc EXCEPT ![t] = "complete"], UNCHANGED <<mem, answers>> PROVE Moved(t)
  <2>1. tpc'[t] = "complete" BY <1>3 DEF TypeOK, TaskType
  <2> QED BY <1>0, <1>1, <1>3, <2>1 DEF Moved, TaskProper
<1>4. ASSUME NEW batch \in Answers, Proposes(t, batch) PROVE Moved(t)
  <2> DEFINE n == Len(answers) + 1
             proposed == [i \in DOMAIN batch |-> <<n, i>>]
             k == [Between(mem[t]) EXCEPT !.asked = TRUE, !.remaining = proposed]
  <2>1. mem' = [mem EXCEPT ![t] = k] /\ UNCHANGED tpc BY <1>4 DEF Proposes
  <2>2. /\ Len(answers) \in Nat /\ n \in 1 .. MaxTurns
        /\ answers' \in Seq([of : Assignments, batch : Answers])
        /\ Len(answers') = n /\ answers'[n] = [of |-> job[t], batch |-> batch]
    BY <1>0, <1>4, ProposesIs
  <2>3. n \in DOMAIN answers' BY <2>2, LenProperties
  <2>4. /\ k.asked /\ k.partial = << >> /\ k.remaining = proposed /\ k.noted = mem[t].noted
    BY DEF Between, Fresh
  <2> HIDE DEF k
  <2>5. Proper(answers', job[t], k, << >>)
    <3> HIDE DEF n
    <3> QED BY <2>2, <2>3, <2>4, ProperProposed
  <2>6. mem'[t] = k /\ tpc'[t] = "loop" BY <1>0, <2>1 DEF TypeOK, TaskType
  <2>7. ask[t] = None /\ ~ Unnoted(mem[t], iter[t]) BY <1>0, <1>1 DEF TaskProper
  <2>8. ~ Unnoted(k, iter[t]) BY <2>4, <2>7 DEF Unnoted
  <2> QED BY <1>0, <2>5, <2>6, <2>7, <2>8 DEF Moved, TaskProper, Query
<1> QED BY <1>2, <1>3, <1>4, ThinkIs

LEMMA ActMoved ==
    ASSUME TypeOK, LinkInv, BatchInv, NEW t \in Tasks, Act(t) PROVE Moved(t)
<1> DEFINE act == Head(mem[t].remaining)
           m == Popped(mem[t])
<1>0. /\ tpc[t] = "loop" /\ mem[t].remaining # << >> /\ act \in Acts
      /\ UNCHANGED <<job, iter, answers>>
      /\ mem[t] \in LoopStates /\ m \in LoopStates
  BY ActIs, PoppedType DEF TypeOK, TaskType
<1>1. TaskProper(answers, rows, tpc[t], job[t], mem[t], ask[t], iter[t])
  BY TaskIs
<1>2. ask[t] = None /\ ~ Unnoted(mem[t], iter[t]) BY <1>0, <1>1 DEF TaskProper
<1>3. Proper(answers, job[t], mem[t], << >>)
  BY <1>0, <1>1, <1>2 DEF TaskProper, Query
<1>4. Proper(answers, job[t], m, <<act>>) BY <1>0, <1>3, ProperPopped
<1>5. m.noted = mem[t].noted BY <1>0 DEF Popped, LoopStates
<1> HIDE DEF m, act
<1>6. ASSUME NEW told \in {"denied", "executed"}, NEW phase \in {"loop", "fail"},
             Settles(t, act, told, phase)
      PROVE  Moved(t)
  <2> DEFINE k == Answer(m, act, told)
  <2>1. tpc'[t] = phase /\ mem'[t] = k /\ ask'[t] = ask[t]
    BY <1>6 DEF Settles, m, TypeOK, TaskType
  <2>2. Proper(answers, job[t], k, << >>) BY <1>0, <1>4, ProperAnswer
  <2>3. k.noted = m.noted BY <1>0 DEF Answer, LoopStates
  <2> HIDE DEF k
  <2>4. ~ Unnoted(k, iter[t]) BY <1>2, <1>5, <2>3 DEF Unnoted
  <2> QED BY <1>0, <1>2, <2>1, <2>2, <2>4 DEF Moved, TaskProper, Query
<1>7. ASSUME NEW phase \in {"suspend", "fail"}, Asks(t, act, phase) PROVE Moved(t)
  <2> DEFINE new == AskedRow(act)
  <2>1. tpc'[t] = phase /\ mem'[t] = m /\ ask'[t] = Len(rows) + 1
    BY <1>7 DEF Asks, m, TypeOK, TaskType
  <2>2. new \in Row /\ rows' = Append(rows, new) /\ rows \in Seq(Row)
    BY <1>0, <1>7 DEF Asks, Row, AskedRow, TypeOK, BoardType
  <2>3. new.act = act BY DEF AskedRow
  <2> HIDE DEF new
  <2>4. rows'[Len(rows) + 1] = new BY <2>2, ProposeKeeps
  <2>5. Len(rows) + 1 # None
    <3>1. Len(rows) + 1 \in Nat BY <2>2, LenProperties
    <3> QED BY <3>1, Numbers
  <2>6. Query(rows', ask'[t]) = <<act>> BY <2>1, <2>3, <2>4, <2>5 DEF Query
  <2>7. ~ Unnoted(m, iter[t]) BY <1>2, <1>5 DEF Unnoted
  <2> QED BY <1>0, <1>4, <2>1, <2>5, <2>6, <2>7 DEF Moved, TaskProper
<1> QED BY <1>6, <1>7, ActIs DEF act

LEMMA FoldMoved ==
    ASSUME TypeOK, LinkInv, BatchInv, NEW t \in Tasks, Fold(t) PROVE Moved(t)
<1>0. /\ tpc[t] = "loop" /\ UNCHANGED <<rows, tpc, job, ask, past>>
      /\ mem' = [mem EXCEPT ![t] = Between(mem[t])]
      /\ iter' = [iter EXCEPT ![t] = iter[t] + 1]
  BY DEF Fold
<1> DEFINE k == Between(mem[t])
<1>1. ~ k.asked /\ k.partial = << >> /\ k.remaining = << >> BY DEF Between, Fresh
<1> HIDE DEF k
<1>2. Proper(answers, job[t], k, << >>) BY <1>1, ProperEmpty
<1>3. ask[t] = None BY <1>0, TaskIs DEF TaskProper
<1>4. mem'[t] = k /\ iter'[t] = iter[t] + 1 /\ iter[t] \in Nat
  BY <1>0 DEF TypeOK, TaskType, k
<1>5. ~ Unnoted(k, iter'[t]) BY <1>4 DEF Unnoted
<1> QED BY <1>0, <1>2, <1>3, <1>4, <1>5 DEF Moved, TaskProper, Query, past

LEMMA StepMoved ==
    ASSUME TypeOK, LinkInv, BatchInv, NEW t \in Tasks, Claim(t) \/ Step(t) PROVE Moved(t)
<1>1. CASE Claim(t)
  <2>1. tpc'[t] = "fetch" BY <1>1 DEF Claim, Go, TypeOK, TaskType
  <2> QED BY <2>1, ProperOver DEF Moved
<1>2. CASE Suspend(t) \/ Complete(t) \/ Fail(t)
  <2>1. End(t) \/ Go(t, "fail") BY <1>2 DEF Suspend, Complete, Fail
  <2>2. ASSUME Go(t, "fail") PROVE Moved(t)
    <3>1. tpc'[t] = "fail" BY <2>2 DEF Go, TypeOK, TaskType
    <3> QED BY <3>1, ProperOver DEF Moved
  <2> QED BY <2>1, <2>2, EndMoved
<1> QED BY <1>1, <1>2, FetchMoved, BeginMoved, RestoreMoved, ThinkMoved, ActMoved, FoldMoved DEF Step

LEMMA SavedMoved ==
    ASSUME TypeOK, LinkInv, BatchInv, NEW t \in Tasks, Suspend(t) \/ Fold(t), NEW a \in Assignments
    PROVE  \/ conversation'[a] = conversation[a] /\ waiting_action'[a] = waiting_action[a]
           \/ SavedProper(answers', rows', a, conversation'[a], waiting_action'[a])
<1>0. /\ conversation \in [Assignments -> LoopStates \cup {None}]
      /\ waiting_action \in [Assignments -> Rows \cup {None}]
      /\ mem[t] \in LoopStates
  BY DEF TypeOK, BoardType, TaskType
<1>1. CASE Suspend(t)
  <2>1. /\ tpc[t] = "suspend" /\ UNCHANGED <<rows, past>>
        /\ conversation' = [conversation EXCEPT ![job[t]] = mem[t]]
        /\ waiting_action' = [waiting_action EXCEPT ![job[t]] = ask[t]]
    BY <1>1 DEF Suspend, Save
  <2>2. Proper(answers, job[t], mem[t], Query(rows, ask[t])) BY <2>1, TaskIs DEF TaskProper
  <2>3. mem[t] # None BY <1>0, Numbers
  <2> QED BY <1>0, <2>1, <2>2, <2>3 DEF SavedProper, past
<1>2. CASE Fold(t)
  <2> DEFINE k == Between(mem[t])
  <2>1. /\ UNCHANGED <<rows, past>>
        /\ conversation' = [conversation EXCEPT ![job[t]] = k]
        /\ waiting_action' = [waiting_action EXCEPT ![job[t]] = None]
    BY <1>2 DEF Fold, Save
  <2>2. ~ k.asked /\ k.partial = << >> /\ k.remaining = << >> BY DEF Between, Fresh
  <2>3. k # None BY <1>0, BetweenType, Numbers
  <2> HIDE DEF k
  <2>4. Proper(answers, job[t], k, << >>) BY <2>2, ProperEmpty
  <2> QED BY <1>0, <2>1, <2>3, <2>4 DEF SavedProper, Query, past
<1> QED BY <1>1, <1>2

LEMMA BatchNext ==
    ASSUME TypeOK, LinkInv, BatchInv, [Next]_vars PROVE BatchInv'
<1>1. ASSUME NEW t \in Tasks, Claim(t) \/ Step(t) PROVE BatchInv'
  <2>1. Moved(t) /\ Others(t) BY <1>1, StepMoved, StepOthers
  <2>2. UNCHANGED <<conversation, waiting_action>> \/ Suspend(t) \/ Fold(t)
    BY <1>1 DEF Step, Claim, Fetch, Begin, Restore, Think, Act, Complete, Fail, board
  <2>3. \A a \in Assignments :
           \/ conversation'[a] = conversation[a] /\ waiting_action'[a] = waiting_action[a]
           \/ SavedProper(answers', rows', a, conversation'[a], waiting_action'[a])
    BY <2>2, SavedMoved
  <2>4. {t} \in SUBSET Tasks OBVIOUS
  <2> QED BY <2>1, <2>3, <2>4, ProperStep DEF Moved, Others
<1>2. CASE Crash
  <2>1. UNCHANGED <<conversation, waiting_action>> /\ tpc' = [t \in Tasks |-> "idle"]
    BY <1>2 DEF Crash, board
  <2>2. \A t \in Tasks : TaskProper(answers', rows', tpc'[t], job'[t], mem'[t], ask'[t], iter'[t])
    BY <2>1, ProperOver
  <2>3. Tasks \in SUBSET Tasks OBVIOUS
  <2> QED BY <2>1, <2>2, <2>3, ProperStep
<1>3. CASE UNCHANGED <<task, conversation, waiting_action>>
  <2>1. {} \in SUBSET Tasks OBVIOUS
  <2> QED BY <1>3, <2>1, ProperStep DEF task
<1>4. ~ (\E t \in Tasks : Claim(t) \/ Step(t)) /\ ~ Crash
         => UNCHANGED <<task, conversation, waiting_action>>
  BY DEF Next, Reply, Approve, Deny, Drain, Execute, Record, Find, Mark, ListPending,
         CascadeDeny, RetryScan, RetryOne, Quiescent, vars, board
<1> QED BY <1>1, <1>2, <1>3, <1>4

-----------------------------------------------------------------------------
(* Counting.  H is a set of loop states and iterations: those with an action *)
(* left, those that have not told of the event, or all of them.              *)

\* n was done, p: the parked row may do it, W: the tasks that may, r retries.
Fits(n, p, W, r) == n + One(p) + Cardinality(W) <= 1 + r

\* A chance is handed on or given up, or a retry adds one.
Passes(p, W, r, q, V, s) ==
    \/ (q => p) /\ V \subseteq W /\ s = r
    \/ p /\ ~ q /\ s = r /\ \E t \in Tasks : V \subseteq W \cup {t}
    \/ s = r /\ \E t \in W : V \subseteq W \ {t}
    \/ V \subseteq W /\ s = r + 1

\* A chance is used.
Spends(p, W, r, q, V, s) ==
    (q => p) /\ s = r /\ \E t \in W : V \subseteq W \ {t}

LEMMA CountTasks ==
    ASSUME NEW W \in SUBSET Tasks, NEW V \in SUBSET Tasks
    PROVE  /\ Cardinality(W) \in Nat /\ Cardinality(V) \in Nat
           /\ V \subseteq W => Cardinality(V) <= Cardinality(W)
           /\ \A t : V \subseteq W \cup {t} => Cardinality(V) <= Cardinality(W) + 1
           /\ \A t \in W : V \subseteq W \ {t} => Cardinality(V) + 1 <= Cardinality(W)
<1>1. IsFiniteSet(W) /\ IsFiniteSet(V) BY Numbers, FS_Subset
<1>2. Cardinality(W) \in Nat /\ Cardinality(V) \in Nat BY <1>1, FS_CardinalityType
<1>3. V \subseteq W => Cardinality(V) <= Cardinality(W) BY <1>1, FS_Subset
<1>4. ASSUME NEW t, V \subseteq W \cup {t} PROVE Cardinality(V) <= Cardinality(W) + 1
  <2>1. /\ IsFiniteSet(W \cup {t})
        /\ Cardinality(W \cup {t}) = IF t \in W THEN Cardinality(W) ELSE Cardinality(W) + 1
    BY <1>1, FS_AddElement
  <2>2. Cardinality(V) <= Cardinality(W \cup {t}) BY <1>4, <2>1, FS_Subset
  <2> QED BY <1>2, <2>1, <2>2
<1>5. ASSUME NEW t \in W, V \subseteq W \ {t} PROVE Cardinality(V) + 1 <= Cardinality(W)
  <2>1. IsFiniteSet(W \ {t}) /\ Cardinality(W \ {t}) = Cardinality(W) - 1
    BY <1>1, FS_RemoveElement
  <2>2. Cardinality(V) <= Cardinality(W \ {t}) BY <1>5, <2>1, FS_Subset
  <2> QED BY <1>2, <2>1, <2>2
<1> QED BY <1>2, <1>3, <1>4, <1>5

LEMMA OneIs ==
    ASSUME NEW p \in BOOLEAN
    PROVE  One(p) \in {0, 1} /\ (p => One(p) = 1) /\ (~ p => One(p) = 0)
<1>1. CASE p
  <2>1. One(p) = 1 BY <1>1 DEF One
  <2> QED BY <1>1, <2>1
<1>2. CASE ~ p
  <2>1. One(p) = 0 BY <1>2 DEF One
  <2> QED BY <1>2, <2>1
<1> QED BY <1>1, <1>2

LEMMA FitsPasses ==
    ASSUME NEW n \in Nat, NEW p \in BOOLEAN, NEW q \in BOOLEAN,
           NEW W \in SUBSET Tasks, NEW V \in SUBSET Tasks, NEW r \in Nat, NEW s,
           Fits(n, p, W, r), Passes(p, W, r, q, V, s)
    PROVE  Fits(n, q, V, s)
<1>1. /\ Cardinality(W) \in Nat /\ Cardinality(V) \in Nat
      /\ V \subseteq W => Cardinality(V) <= Cardinality(W)
      /\ \A t : V \subseteq W \cup {t} => Cardinality(V) <= Cardinality(W) + 1
      /\ \A t \in W : V \subseteq W \ {t} => Cardinality(V) + 1 <= Cardinality(W)
  BY CountTasks
<1>2. One(p) \in {0, 1} /\ One(q) \in {0, 1} /\ (q => One(q) = 1) /\ (~ q => One(q) = 0)
      /\ (p => One(p) = 1) /\ (~ p => One(p) = 0)
  BY OneIs
<1>3. CASE (q => p) /\ V \subseteq W /\ s = r BY <1>1, <1>2, <1>3 DEF Fits
<1>4. ASSUME p, ~ q, s = r, NEW t \in Tasks, V \subseteq W \cup {t} PROVE Fits(n, q, V, s)
  <2>1. Cardinality(V) <= Cardinality(W) + 1 BY <1>1, <1>4
  <2>2. One(p) = 1 BY <1>2, <1>4
  <2>3. One(q) = 0 BY <1>2, <1>4
  <2>4. n + 1 + Cardinality(W) <= 1 + r BY <2>2 DEF Fits
  <2>5. n + 0 + Cardinality(V) <= 1 + s BY <1>1, <1>4, <2>1, <2>4
  <2> QED BY <2>3, <2>5 DEF Fits
<1>5. ASSUME s = r, NEW t \in W, V \subseteq W \ {t} PROVE Fits(n, q, V, s)
  <2>1. Cardinality(V) + 1 <= Cardinality(W) BY <1>1, <1>5
  <2> QED BY <1>1, <1>2, <1>5, <2>1 DEF Fits
<1>6. CASE V \subseteq W /\ s = r + 1 BY <1>1, <1>2, <1>6 DEF Fits
<1> QED BY <1>3, <1>4, <1>5, <1>6 DEF Passes

LEMMA FitsSpends ==
    ASSUME NEW n \in Nat, NEW p \in BOOLEAN, NEW q \in BOOLEAN,
           NEW W \in SUBSET Tasks, NEW V \in SUBSET Tasks, NEW r \in Nat, NEW s,
           Fits(n, p, W, r), Spends(p, W, r, q, V, s)
    PROVE  Fits(n + 1, q, V, s)
<1>1. /\ Cardinality(W) \in Nat /\ Cardinality(V) \in Nat
      /\ \A t \in W : V \subseteq W \ {t} => Cardinality(V) + 1 <= Cardinality(W)
  BY CountTasks
<1>2. One(p) \in {0, 1} /\ One(q) \in {0, 1} /\ (~ q => One(q) = 0) /\ (p => One(p) = 1)
  BY OneIs
<1>3. PICK t \in W : V \subseteq W \ {t} BY DEF Spends
<1>4. Cardinality(V) + 1 <= Cardinality(W) BY <1>1, <1>3
<1>5. (q => p) /\ s = r BY DEF Spends
<1> QED BY <1>1, <1>2, <1>4, <1>5 DEF Fits

Waits(a, H)   == Parked(a) /\ <<Saved(a), iteration[a]>> \in H
Workers(a, H) == {t \in Tasks : Working(t, a) /\ <<State(t), IterOf(t)>> \in H}
FitsAt(n, a, H) == Fits(n, Waits(a, H), Workers(a, H), retries[a])

PassesAt(a, H) == Passes(Waits(a, H), Workers(a, H), retries[a],
                         Waits(a, H)', Workers(a, H)', retries'[a])
SpendsAt(a, H) == Spends(Waits(a, H), Workers(a, H), retries[a],
                         Waits(a, H)', Workers(a, H)', retries'[a])

LEMMA FitsNext ==
    ASSUME TypeOK, NEW a \in Assignments, NEW H, NEW n \in Nat, FitsAt(n, a, H)
    PROVE  /\ PassesAt(a, H) => FitsAt(n, a, H)'
           /\ SpendsAt(a, H) => FitsAt(n + 1, a, H)'
<1>1. Waits(a, H) \in BOOLEAN /\ Waits(a, H)' \in BOOLEAN BY DEF Waits, Parked
<1>2. Workers(a, H) \in SUBSET Tasks /\ Workers(a, H)' \in SUBSET Tasks BY DEF Workers
<1>3. retries[a] \in Nat BY DEF TypeOK, BoardType
<1>4. Fits(n, Waits(a, H), Workers(a, H), retries[a]) BY DEF FitsAt
<1>5. ASSUME PassesAt(a, H) PROVE FitsAt(n, a, H)'
  <2>1. Fits(n, Waits(a, H)', Workers(a, H)', retries'[a])
    BY <1>1, <1>2, <1>3, <1>4, <1>5, FitsPasses DEF PassesAt
  <2> QED BY <2>1 DEF FitsAt
<1>6. ASSUME SpendsAt(a, H) PROVE FitsAt(n + 1, a, H)'
  <2>1. Fits(n + 1, Waits(a, H)', Workers(a, H)', retries'[a])
    BY <1>1, <1>2, <1>3, <1>4, <1>6, FitsSpends DEF SpendsAt
  <2> QED BY <2>1 DEF FitsAt
<1> QED BY <1>5, <1>6

\* With an action left, with the event to tell, all.
WithLeft(act) == {h \in LoopStates \X Nat : act \in Left(h[1])}
WithNews == {h \in LoopStates \X Nat : Unnoted(h[1], h[2])}
Whatever == LoopStates \X Nat

RunsFit ==
    /\ \A act \in Acts : act[1] \notin DOMAIN answers => effects[act] = 0
    /\ \A n \in DOMAIN answers : \A i \in DOMAIN answers[n].batch : \A a \in Assignments :
          answers[n].of = a => FitsAt(effects[<<n, i>>], a, WithLeft(<<n, i>>))
UserFit == \A a \in Assignments : FitsAt(turns[a].user, a, WithNews)
AssistantFit == \A a \in Assignments : FitsAt(turns[a].assistant, a, Whatever)

LEMMA SavedIs ==
    ASSUME TypeOK, NEW a \in Assignments PROVE Saved(a) \in LoopStates /\ iteration[a] \in Nat
BY FreshType DEF Saved, TypeOK, BoardType

LEMMA StateIs ==
    ASSUME TypeOK, NEW t \in Tasks, NEW a \in Assignments, Working(t, a)
    PROVE  State(t) \in LoopStates /\ IterOf(t) \in Nat
<1>1. job[t] = a BY DEF Working
<1>2. mem[t] \in LoopStates /\ iter[t] \in Nat BY DEF TypeOK, TaskType
<1>3. Saved(a) \in LoopStates /\ iteration[a] \in Nat BY SavedIs
<1>4. State(t) \in {mem[t], Saved(a)} BY <1>1 DEF State
<1>5. IterOf(t) \in {iter[t], iteration[a]} BY <1>1 DEF IterOf
<1> QED BY <1>2, <1>3, <1>4, <1>5

\* The set H in place of what it is defined by.
LEMMA HoldersAre ==
    ASSUME TypeOK, NEW a \in Assignments
    PROVE  /\ \A act : Waits(a, WithLeft(act)) = (Parked(a) /\ act \in Left(Saved(a)))
           /\ \A act : Workers(a, WithLeft(act)) = {t \in Tasks : Working(t, a) /\ act \in Left(State(t))}
           /\ Waits(a, WithNews) = (Parked(a) /\ Unnoted(Saved(a), iteration[a]))
           /\ Workers(a, WithNews) = {t \in Tasks : Working(t, a) /\ Unnoted(State(t), IterOf(t))}
           /\ Waits(a, Whatever) = Parked(a)
           /\ Workers(a, Whatever) = {t \in Tasks : Working(t, a)}
<1>1. Saved(a) \in LoopStates /\ iteration[a] \in Nat BY SavedIs
<1>2. \A t \in Tasks : Working(t, a) => State(t) \in LoopStates /\ IterOf(t) \in Nat
  BY StateIs
<1>3. Parked(a) \in BOOLEAN BY DEF Parked
<1>4. Unnoted(Saved(a), iteration[a]) \in BOOLEAN BY DEF Unnoted
<1>5. \A act : Waits(a, WithLeft(act)) = (Parked(a) /\ act \in Left(Saved(a)))
  BY <1>1, <1>3 DEF Waits, WithLeft
<1>6. \A act : Workers(a, WithLeft(act)) = {t \in Tasks : Working(t, a) /\ act \in Left(State(t))}
  BY <1>2 DEF Workers, WithLeft
<1>7. Waits(a, WithNews) = (Parked(a) /\ Unnoted(Saved(a), iteration[a]))
  BY <1>1, <1>3, <1>4 DEF Waits, WithNews
<1>8. Workers(a, WithNews) = {t \in Tasks : Working(t, a) /\ Unnoted(State(t), IterOf(t))}
  BY <1>2 DEF Workers, WithNews
<1>9. Waits(a, Whatever) = Parked(a) BY <1>1, <1>3 DEF Waits, Whatever
<1>10. Workers(a, Whatever) = {t \in Tasks : Working(t, a)}
  BY <1>2 DEF Workers, Whatever
<1> QED BY <1>5, <1>6, <1>7, <1>8, <1>9, <1>10

FitIs == TypeOK => /\ RunsInv <=> RunsFit
                   /\ UserInv <=> UserFit
                   /\ AssistantInv <=> AssistantFit

LEMMA FitIsSo == FitIs
<1> SUFFICES ASSUME TypeOK
             PROVE  /\ RunsInv <=> RunsFit
                    /\ UserInv <=> UserFit
                    /\ AssistantInv <=> AssistantFit
  BY DEF FitIs
<1>1. RunsInv <=> RunsFit
  <2>1. ASSUME NEW n \in DOMAIN answers, NEW i \in DOMAIN answers[n].batch
        PROVE  (LET a == answers[n].of
                IN  effects[<<n, i>>] + One(Parked(a) /\ <<n, i>> \in Left(Saved(a)))
                      + Cardinality({t \in Tasks : Working(t, a) /\ <<n, i>> \in Left(State(t))})
                       <= 1 + retries[a])
               <=> \A a \in Assignments :
                      answers[n].of = a => FitsAt(effects[<<n, i>>], a, WithLeft(<<n, i>>))
    <3>1. PICK b \in Assignments : answers[n].of = b BY AnswersAre
    <3>2. (effects[<<n, i>>] + One(Parked(b) /\ <<n, i>> \in Left(Saved(b)))
             + Cardinality({t \in Tasks : Working(t, b) /\ <<n, i>> \in Left(State(t))})
              <= 1 + retries[b])
          <=> FitsAt(effects[<<n, i>>], b, WithLeft(<<n, i>>))
      BY HoldersAre DEF FitsAt, Fits
    <3>3. (\A a \in Assignments :
             answers[n].of = a => FitsAt(effects[<<n, i>>], a, WithLeft(<<n, i>>)))
          <=> FitsAt(effects[<<n, i>>], b, WithLeft(<<n, i>>))
      BY <3>1
    <3> QED BY <3>1, <3>2, <3>3 DEF Parked, Saved, Working
  <2> QED BY <2>1 DEF RunsInv, RunsFit
<1>2. UserInv <=> UserFit BY HoldersAre DEF UserInv, UserFit, FitsAt, Fits
<1>3. AssistantInv <=> AssistantFit BY HoldersAre DEF AssistantInv, AssistantFit, FitsAt, Fits
<1> QED BY <1>1, <1>2, <1>3

LEMMA FitIsNext == FitIs'
BY FitIsSo, PTL

\* A task that does not move gets no chance it did not have.
LEMMA OtherStays ==
    ASSUME NEW a, NEW H, NEW u \in Tasks,
           tpc'[u] = tpc[u], job'[u] = job[u], mem'[u] = mem[u], iter'[u] = iter[u],
           tpc[u] = "fetch" /\ job[u] = a /\ status'[a] = "claimed" =>
              /\ status[a] = "claimed"
              /\ conversation'[a] = conversation[a] /\ iteration'[a] = iteration[a],
           u \in Workers(a, H)'
    PROVE  u \in Workers(a, H)
<1>1. /\ job'[u] = a /\ tpc'[u] # "fail"
      /\ tpc'[u] = "fetch" => status'[a] = "claimed"
      /\ <<State(u)', IterOf(u)'>> \in H
  BY DEF Workers, Working
<1>2. Working(u, a) BY <1>1 DEF Working
<1>3. State(u)' = State(u) /\ IterOf(u)' = IterOf(u)
  BY <1>1 DEF State, IterOf, Saved
<1> QED BY <1>1, <1>2, <1>3 DEF Workers

\* Nothing is parked that was not.
LEMMA WaitsStays ==
    ASSUME NEW a, NEW H, Parked(a)' => Parked(a),
           conversation'[a] = conversation[a], iteration'[a] = iteration[a],
           Waits(a, H)'
    PROVE  Waits(a, H)
BY DEF Waits, Saved

LEMMA KeptPasses ==
    ASSUME NEW a \in Assignments, NEW H, retries'[a] = retries[a],
           Waits(a, H)' => Waits(a, H), Workers(a, H)' \subseteq Workers(a, H)
    PROVE  PassesAt(a, H)
BY DEF PassesAt, Passes

\* Task t moves and nothing else, but for the status.
LEMMA TaskPasses ==
    ASSUME NEW a \in Assignments, NEW H, NEW t \in Tasks, Others(t),
           retries'[a] = retries[a], Parked(a)' => Parked(a),
           conversation'[a] = conversation[a], iteration'[a] = iteration[a],
           status'[a] = "claimed" => status[a] = "claimed",
           t \in Workers(a, H)' => t \in Workers(a, H)
    PROVE  PassesAt(a, H)
<1>1. ASSUME NEW u \in Workers(a, H)' PROVE u \in Workers(a, H)
  <2>1. u \in Tasks BY DEF Workers
  <2> QED BY <2>1, OtherStays DEF Others
<1>2. Waits(a, H)' => Waits(a, H) BY WaitsStays
<1> QED BY <1>1, <1>2, KeptPasses

\* No task moves.
LEMMA BoardPasses ==
    ASSUME NEW a \in Assignments, NEW H, UNCHANGED task,
           retries'[a] = retries[a], Parked(a)' => Parked(a),
           conversation'[a] = conversation[a], iteration'[a] = iteration[a],
           status'[a] = "claimed" => status[a] = "claimed"
    PROVE  PassesAt(a, H)
<1>1. ASSUME NEW u \in Workers(a, H)' PROVE u \in Workers(a, H)
  <2>1. u \in Tasks BY DEF Workers
  <2> QED BY <2>1, OtherStays DEF task
<1>2. Waits(a, H)' => Waits(a, H) BY WaitsStays
<1> QED BY <1>1, <1>2, KeptPasses

\* Task t leaves.
LEMMA NotWorking ==
    ASSUME NEW a \in Assignments, NEW H, NEW t \in Tasks, job'[t] = None \/ tpc'[t] = "fail"
    PROVE  t \notin Workers(a, H)'
BY Numbers DEF Workers, Working

LEMMA ClaimPasses ==
    ASSUME TypeOK, LinkInv, NEW a \in Assignments, NEW H, NEW t \in Tasks, Claim(t)
    PROVE  PassesAt(a, H)
<1>1. /\ \A u \in Tasks : tpc[u] # "fetch"
      /\ tpc' = [tpc EXCEPT ![t] = "fetch"]
      /\ UNCHANGED <<retries, conversation, iteration>>
  BY DEF Claim, Go
<1>2. PICK b \in Assignments : /\ status[b] \in Claimable
                               /\ status' = [status EXCEPT ![b] = "claimed"]
                               /\ job' = [job EXCEPT ![t] = b]
  BY DEF Claim
<1>3. Others(t) BY StepOthers
<1>4. tpc'[t] = "fetch" /\ job'[t] = b BY <1>1, <1>2 DEF TypeOK, TaskType
<1>5. CASE a # b
  <2>1. status'[a] = status[a] BY <1>2, <1>5 DEF TypeOK, BoardType
  <2>2. t \notin Workers(a, H)' BY <1>4, <1>5 DEF Workers, Working
  <2> QED BY <1>1, <1>3, <2>1, <2>2, TaskPasses DEF Parked
<1>6. CASE a = b
  <2>1. status'[a] = "claimed" /\ Parked(a) /\ ~ Parked(a)'
    BY <1>2, <1>6 DEF TypeOK, BoardType, Parked, Claimable
  <2>2. ASSUME NEW u \in Workers(a, H)', u # t PROVE u \in Workers(a, H)
    <3>1. u \in Tasks BY DEF Workers
    <3>2. /\ tpc'[u] = tpc[u] /\ job'[u] = job[u] /\ mem'[u] = mem[u] /\ iter'[u] = iter[u]
      BY <1>3, <2>2, <3>1 DEF Others
    <3> QED BY <1>1, <2>2, <3>1, <3>2, OtherStays
  <2>3. CASE Waits(a, H)
    <3>1. Workers(a, H)' \subseteq Workers(a, H) \cup {t} BY <2>2
    <3>2. ~ Waits(a, H)' BY <2>1 DEF Waits
    <3> QED BY <1>1, <2>3, <3>1, <3>2 DEF PassesAt, Passes
  <2>4. CASE ~ Waits(a, H)
    <3>1. t \notin Workers(a, H)'
      <4>1. State(t)' = Saved(a) /\ IterOf(t)' = iteration[a]
        BY <1>1, <1>4, <1>6 DEF State, IterOf, Saved
      <4>2. <<Saved(a), iteration[a]>> \notin H BY <2>1, <2>4 DEF Waits
      <4> QED BY <4>1, <4>2 DEF Workers
    <3>2. Workers(a, H)' \subseteq Workers(a, H) BY <2>2, <3>1
    <3>3. ~ Waits(a, H)' BY <2>1 DEF Waits
    <3> QED BY <1>1, <3>2, <3>3, KeptPasses
  <2> QED BY <2>3, <2>4
<1> QED BY <1>5, <1>6

LEMMA FetchPasses ==
    ASSUME TypeOK, LinkInv, NEW a \in Assignments, NEW H, NEW t \in Tasks, Fetch(t)
    PROVE  PassesAt(a, H)
<1>1. tpc[t] = "fetch" /\ UNCHANGED <<status, retries, conversation, iteration>>
  BY DEF Fetch, board
<1>2. Others(t) BY StepOthers DEF Step
<1>3. ASSUME t \in Workers(a, H)' PROVE t \in Workers(a, H)
  <2>1. CASE End(t)
    <3>1. job'[t] = None BY <2>1 DEF End, TypeOK, TaskType
    <3> QED BY <1>3, <3>1, NotWorking
  <2>2. CASE ~ End(t)
    <3>1. /\ status[job[t]] = "claimed" /\ tpc'[t] = "start" /\ job'[t] = job[t]
          /\ mem'[t] = Saved(job[t]) /\ iter'[t] = iteration[job[t]]
      BY <2>2 DEF Fetch, Go, Saved, TypeOK, TaskType
    <3>2. job[t] = a /\ <<mem'[t], iter'[t]>> \in H
      BY <1>3, <3>1 DEF Workers, Working, State, IterOf
    <3>3. State(t) = mem'[t] /\ IterOf(t) = iter'[t] BY <1>1, <3>1 DEF State, IterOf
    <3> QED BY <1>1, <3>1, <3>2, <3>3 DEF Workers, Working
  <2> QED BY <2>1, <2>2
<1> QED BY <1>1, <1>2, <1>3, TaskPasses DEF Parked

\* A task that goes on with the loop state it had.
LEMMA SameWorks ==
    ASSUME NEW a, NEW H, NEW t \in Tasks, tpc[t] \notin {"fetch", "fail"}, tpc'[t] # "fetch",
           job'[t] = job[t],
           <<mem'[t], iter'[t]>> \in H => <<mem[t], iter[t]>> \in H,
           t \in Workers(a, H)'
    PROVE  t \in Workers(a, H)
BY DEF Workers, Working, State, IterOf

\* The task's assignment leaves the queue, others stay.
LEMMA StatusMoves ==
    ASSUME TypeOK, NEW b \in Assignments, NEW a \in Assignments,
           NEW how \in {"running", "completed", "failed", "waiting_confirmation"},
           status' = [status EXCEPT ![b] = how]
    PROVE  /\ status'[a] = "claimed" => status[a] = "claimed"
           /\ how # "waiting_confirmation" \/ a # b => (Parked(a)' => Parked(a))
           /\ how = "waiting_confirmation" => Parked(b)'
BY DEF TypeOK, BoardType, Parked

LEMMA BeginPasses ==
    ASSUME TypeOK, LinkInv, NEW a \in Assignments, NEW H, NEW t \in Tasks, Begin(t)
    PROVE  PassesAt(a, H)
<1>1. /\ tpc[t] = "start" /\ status' = [status EXCEPT ![job[t]] = "running"]
      /\ UNCHANGED <<retries, conversation, iteration>>
      /\ \/ tpc' = [tpc EXCEPT ![t] = "restore"] /\ UNCHANGED <<job, mem, iter>>
         \/ End(t)
  BY DEF Begin, Go
<1>2. Others(t) BY StepOthers DEF Step
<1>3. job[t] \in Assignments BY <1>1, JobIs DEF TypeOK
<1>4. /\ status'[a] = "claimed" => status[a] = "claimed"
      /\ Parked(a)' => Parked(a)
  BY <1>1, <1>3, StatusMoves
<1>5. t \in Workers(a, H)' => t \in Workers(a, H)
  <2>1. CASE End(t)
    <3>1. job'[t] = None BY <2>1 DEF End, TypeOK, TaskType
    <3> QED BY <3>1, NotWorking
  <2>2. CASE tpc' = [tpc EXCEPT ![t] = "restore"] /\ UNCHANGED <<job, mem, iter>>
    <3>1. tpc'[t] = "restore" BY <2>2 DEF TypeOK, TaskType
    <3> QED BY <1>1, <2>2, <3>1, SameWorks
  <2> QED BY <1>1, <2>1, <2>2
<1> QED BY <1>1, <1>2, <1>4, <1>5, TaskPasses

LEMMA LeavePasses ==
    ASSUME TypeOK, LinkInv, NEW a \in Assignments, NEW H, NEW t \in Tasks,
           Complete(t) \/ Fail(t)
    PROVE  PassesAt(a, H) /\ t \notin Workers(a, H)' /\ (Waits(a, H)' => Waits(a, H))
<1>1. /\ tpc[t] # "idle"
      /\ \E how \in {"completed", "failed"} : status' = [status EXCEPT ![job[t]] = how]
      /\ UNCHANGED <<retries, conversation, iteration>>
      /\ Go(t, "fail") \/ End(t)
  BY DEF Complete, Fail
<1>2. Others(t) BY StepOthers DEF Step
<1>3. job[t] \in Assignments BY <1>1, JobIs DEF TypeOK
<1>4. /\ status'[a] = "claimed" => status[a] = "claimed"
      /\ Parked(a)' => Parked(a)
  BY <1>1, <1>3, StatusMoves
<1>5. job'[t] = None \/ tpc'[t] = "fail"
  BY <1>1 DEF Go, End, TypeOK, TaskType
<1>6. t \notin Workers(a, H)' BY <1>5, NotWorking
<1>7. Waits(a, H)' => Waits(a, H) BY <1>1, <1>4, WaitsStays
<1> QED BY <1>1, <1>2, <1>4, <1>6, <1>7, TaskPasses

LEMMA SuspendPasses ==
    ASSUME TypeOK, LinkInv, NEW a \in Assignments, NEW H, NEW t \in Tasks, Suspend(t)
    PROVE  PassesAt(a, H)
<1> DEFINE b == job[t]
<1>1. /\ tpc[t] = "suspend" /\ status' = [status EXCEPT ![b] = "waiting_confirmation"]
      /\ conversation' = [conversation EXCEPT ![b] = mem[t]]
      /\ iteration' = [iteration EXCEPT ![b] = iter[t]]
      /\ UNCHANGED retries
      /\ Go(t, "fail") \/ End(t)
  BY DEF Suspend, Save
<1>2. Others(t) BY StepOthers DEF Step
<1>3. b \in Assignments /\ mem[t] \in LoopStates
  BY <1>1, JobIs DEF TypeOK, TaskType
<1>4. job'[t] = None \/ tpc'[t] = "fail"
  BY <1>1 DEF Go, End, TypeOK, TaskType
<1>5. t \notin Workers(a, H)' BY <1>4, NotWorking
<1>6. CASE a # b
  <2>1. /\ status'[a] = status[a] /\ conversation'[a] = conversation[a]
        /\ iteration'[a] = iteration[a]
    BY <1>1, <1>3, <1>6 DEF TypeOK, BoardType
  <2> HIDE DEF b
  <2> QED BY <1>1, <1>2, <1>5, <2>1, TaskPasses DEF Parked
<1>7. CASE a = b
  <2>1. /\ status'[a] = "waiting_confirmation" /\ conversation'[a] = mem[t]
        /\ iteration'[a] = iter[t]
    BY <1>1, <1>3, <1>7 DEF TypeOK, BoardType
  <2>2. ASSUME NEW u \in Workers(a, H)' PROVE u \in Workers(a, H) \ {t}
    <3>1. u \in Tasks /\ u # t BY <1>5, <2>2 DEF Workers
    <3>2. /\ tpc'[u] = tpc[u] /\ job'[u] = job[u] /\ mem'[u] = mem[u] /\ iter'[u] = iter[u]
      BY <1>2, <3>1 DEF Others
    <3>3. status'[a] # "claimed" BY <2>1
    <3>4. u \in Workers(a, H) BY <2>2, <3>1, <3>2, <3>3, OtherStays
    <3> QED BY <3>1, <3>4
  <2>3. CASE <<mem[t], iter[t]>> \in H
    <3>1. t \in Workers(a, H) BY <1>1, <1>7, <2>3 DEF Workers, Working, State, IterOf
    <3>2. Workers(a, H)' \subseteq Workers(a, H) \ {t} BY <2>2
    <3>3. retries'[a] = retries[a] BY <1>1
    <3> QED BY <3>1, <3>2, <3>3 DEF PassesAt, Passes
  <2>4. CASE <<mem[t], iter[t]>> \notin H
    <3>1. mem[t] # None BY <1>3, Numbers
    <3>2. Saved(a)' = mem[t] BY <2>1, <3>1 DEF Saved
    <3>3. ~ Waits(a, H)' BY <2>1, <2>4, <3>2 DEF Waits
    <3>4. Workers(a, H)' \subseteq Workers(a, H) BY <2>2
    <3>5. retries'[a] = retries[a] BY <1>1
    <3> QED BY <3>3, <3>4, <3>5, KeptPasses
  <2> QED BY <2>3, <2>4
<1> QED BY <1>6, <1>7

\* The state between two batches has nothing left and has told of the event.
LEMMA FoldPasses ==
    ASSUME TypeOK, LinkInv, NEW a \in Assignments, NEW H, NEW t \in Tasks, Fold(t),
           <<Between(mem[t]), iter[t] + 1>> \notin H \/ H = Whatever
    PROVE  PassesAt(a, H)
<1> DEFINE b == job[t]
           k == Between(mem[t])
<1>1. /\ tpc[t] = "loop"
      /\ conversation' = [conversation EXCEPT ![b] = k]
      /\ iteration' = [iteration EXCEPT ![b] = iter[t] + 1]
      /\ mem' = [mem EXCEPT ![t] = k] /\ iter' = [iter EXCEPT ![t] = iter[t] + 1]
      /\ UNCHANGED <<retries, status, tpc, job>>
  BY DEF Fold, Save
<1>2. Others(t) BY StepOthers DEF Step
<1>3. b \in Assignments /\ k \in LoopStates /\ mem[t] \in LoopStates /\ iter[t] \in Nat
  BY <1>1, JobIs, BetweenType DEF TypeOK, TaskType
<1>4. mem'[t] = k /\ iter'[t] = iter[t] + 1 /\ k # None
  BY <1>1, <1>3, Numbers DEF TypeOK, TaskType
<1> HIDE DEF k
<1>5. <<k, iter[t] + 1>> \notin H \/ H = Whatever BY DEF k
<1>6. t \in Workers(a, H)' => t \in Workers(a, H)
  <2>1. <<k, iter[t] + 1>> \in H => <<mem[t], iter[t]>> \in H BY <1>3, <1>5 DEF Whatever
  <2> QED BY <1>1, <1>4, <2>1, SameWorks
<1>7. CASE a # b
  <2>1. conversation'[a] = conversation[a] /\ iteration'[a] = iteration[a]
    BY <1>1, <1>3, <1>7 DEF TypeOK, BoardType
  <2> HIDE DEF b
  <2> QED BY <1>1, <1>2, <1>6, <2>1, TaskPasses DEF Parked
<1>8. CASE a = b
  <2>1. Saved(a)' = k /\ iteration'[a] = iter[t] + 1
    BY <1>1, <1>3, <1>4, <1>8 DEF TypeOK, BoardType, Saved
  <2>2. CASE H = Whatever
    <3>1. Saved(a) \in LoopStates /\ iteration[a] \in Nat BY SavedIs
    <3>2. Waits(a, H)' => Waits(a, H)
      BY <1>1, <2>2, <3>1 DEF Waits, Parked, Whatever
    <3>3. ASSUME NEW u \in Workers(a, H)', u # t PROVE u \in Workers(a, H)
      <4>1. u \in Tasks BY DEF Workers
      <4>2. Working(u, a) BY <1>1, <1>2, <3>3, <4>1 DEF Workers, Working, Others
      <4>3. State(u) \in LoopStates /\ IterOf(u) \in Nat BY <4>1, <4>2, StateIs
      <4> QED BY <2>2, <4>1, <4>2, <4>3 DEF Workers, Whatever
    <3>4. Workers(a, H)' \subseteq Workers(a, H) BY <1>6, <3>3
    <3> QED BY <1>1, <3>2, <3>4, KeptPasses
  <2>3. CASE <<k, iter[t] + 1>> \notin H
    <3>1. ~ Waits(a, H)' BY <2>1, <2>3 DEF Waits
    <3>2. ASSUME NEW u \in Workers(a, H)', u # t PROVE u \in Workers(a, H)
      <4>1. u \in Tasks BY DEF Workers
      <4>2. /\ tpc'[u] = tpc[u] /\ job'[u] = job[u] /\ mem'[u] = mem[u] /\ iter'[u] = iter[u]
        BY <1>2, <3>2, <4>1 DEF Others
      <4>3. tpc[u] = "fetch" /\ job[u] = a => <<State(u)', IterOf(u)'>> \notin H
        BY <2>1, <2>3, <4>2 DEF State, IterOf
      <4>4. ~ (tpc[u] = "fetch" /\ job[u] = a) BY <3>2, <4>3 DEF Workers
      <4> QED BY <3>2, <4>1, <4>2, <4>4, OtherStays
    <3>3. Workers(a, H)' \subseteq Workers(a, H) BY <1>6, <3>2
    <3> QED BY <1>1, <3>1, <3>3, KeptPasses
  <2> QED BY <1>5, <2>2, <2>3
<1> QED BY <1>7, <1>8

\* The other steps within a loop.
LEMMA LoopPasses ==
    ASSUME TypeOK, LinkInv, NEW a \in Assignments, NEW H, NEW t \in Tasks,
           Restore(t) \/ Think(t) \/ Act(t),
           t \in Workers(a, H)' => t \in Workers(a, H)
    PROVE  PassesAt(a, H)
<1>1. UNCHANGED <<status, retries, conversation, iteration>>
  BY DEF Restore, Think, Act, board
<1>2. Others(t) BY StepOthers DEF Step
<1> QED BY <1>1, <1>2, TaskPasses DEF Parked

LEMMA LoopSpends ==
    ASSUME TypeOK, LinkInv, NEW a \in Assignments, NEW H, NEW t \in Workers(a, H),
           \/ (Restore(t) \/ Act(t)) /\ t \notin Workers(a, H)'
           \/ Complete(t)
    PROVE  SpendsAt(a, H)
<1>0. t \in Tasks BY DEF Workers
<1>1. UNCHANGED retries /\ t \notin Workers(a, H)' /\ (Waits(a, H)' => Waits(a, H))
  <2>1. CASE Complete(t) BY <1>0, <2>1, LeavePasses DEF Complete
  <2>2. CASE ~ Complete(t)
    <3>1. UNCHANGED <<status, retries, conversation, iteration>>
      BY <2>2 DEF Restore, Act, board
    <3> QED BY <2>2, <3>1, WaitsStays DEF Parked
  <2> QED BY <2>1, <2>2
<1>2. /\ status'[a] = "claimed" => status[a] = "claimed"
      /\ UNCHANGED <<conversation, iteration>>
  <2>1. CASE Complete(t)
    <3>1. /\ status' = [status EXCEPT ![job[t]] = "completed"] /\ UNCHANGED <<conversation, iteration>>
          /\ tpc[t] # "idle"
      BY <2>1 DEF Complete
    <3>2. job[t] \in Assignments BY <1>0, <3>1, JobIs DEF TypeOK
    <3> QED BY <3>1, <3>2, StatusMoves
  <2>2. CASE ~ Complete(t) BY <2>2 DEF Restore, Act, board
  <2> QED BY <2>1, <2>2
<1>3. Others(t) BY <1>0, StepOthers DEF Step
<1>4. ASSUME NEW u \in Workers(a, H)' PROVE u \in Workers(a, H) \ {t}
  <2>1. u \in Tasks /\ u # t BY <1>1, <1>4 DEF Workers
  <2>2. u \in Workers(a, H) BY <1>2, <1>3, <1>4, <2>1, OtherStays DEF Others
  <2> QED BY <2>1, <2>2
<1>5. Workers(a, H)' \subseteq Workers(a, H) \ {t} BY <1>4
<1> QED BY <1>1, <1>5 DEF SpendsAt, Spends

\* Calls, the sweep and a crash.
LEMMA CallPasses ==
    ASSUME TypeOK, LinkInv, NEW a \in Assignments, NEW H, NEW c \in Callers,
           Approve(c) \/ Deny(c) \/ Drain(c) \/ Reply(c)
    PROVE  PassesAt(a, H)
<1>1. UNCHANGED <<task, retries, conversation, iteration>>
  BY DEF Approve, Deny, Drain, Reply, Execute, Record, Find, Mark, ListPending, CascadeDeny, board
<1>2. CASE Drain(c)
  <2>1. status'[a] = IF status[a] \in Drainable THEN "failed" ELSE status[a] BY <1>2 DEF Drain
  <2> QED BY <1>1, <2>1, BoardPasses DEF Parked
<1>3. CASE Mark(c)
  <2>1. \/ UNCHANGED status
        \/ /\ status[found[c]] = "waiting_confirmation"
           /\ status' = [status EXCEPT ![found[c]] = "resumable"]
    BY <1>3 DEF Mark
  <2>2. status'[a] = status[a] \/ (status[a] = "waiting_confirmation" /\ status'[a] = "resumable")
    BY <2>1 DEF TypeOK, BoardType
  <2> QED BY <1>1, <2>2, BoardPasses DEF Parked
<1>4. CASE UNCHANGED status BY <1>1, <1>4, BoardPasses DEF Parked
<1>5. UNCHANGED status \/ Drain(c) \/ Mark(c)
  BY DEF Approve, Deny, Reply, Execute, Record, Find, ListPending, CascadeDeny, board
<1> QED BY <1>2, <1>3, <1>4, <1>5

LEMMA RetryPasses ==
    ASSUME TypeOK, LinkInv, NEW a \in Assignments, NEW H, NEW b \in Assignments, RetryOne(b)
    PROVE  PassesAt(a, H)
<1>1. /\ UNCHANGED <<task, conversation, iteration>>
      /\ status' = [status EXCEPT ![b] = "pending"] /\ retries' = [retries EXCEPT ![b] = @ + 1]
  BY DEF RetryOne
<1>2. CASE a # b
  <2>1. status'[a] = status[a] /\ retries'[a] = retries[a]
    BY <1>1, <1>2 DEF TypeOK, BoardType
  <2> QED BY <1>1, <2>1, BoardPasses DEF Parked
<1>3. CASE a = b
  <2>1. status'[a] = "pending" /\ retries'[a] = retries[a] + 1
    BY <1>1, <1>3 DEF TypeOK, BoardType
  <2>2. ASSUME NEW u \in Workers(a, H)' PROVE u \in Workers(a, H)
    <3>1. u \in Tasks BY DEF Workers
    <3> QED BY <1>1, <2>1, <2>2, <3>1, OtherStays DEF task
  <2>3. Workers(a, H)' \subseteq Workers(a, H) BY <2>2
  <2> QED BY <2>1, <2>3 DEF PassesAt, Passes
<1> QED BY <1>2, <1>3

LEMMA CrashPasses ==
    ASSUME TypeOK, LinkInv, NEW a \in Assignments, NEW H, Crash PROVE PassesAt(a, H)
<1>1. UNCHANGED <<status, retries, conversation, iteration>> /\ job' = [t \in Tasks |-> None]
  BY DEF Crash, board
<1>2. Workers(a, H)' = {} BY <1>1, Numbers DEF Workers, Working
<1>3. Waits(a, H)' => Waits(a, H) BY <1>1, WaitsStays DEF Parked
<1> QED BY <1>1, <1>2, <1>3, KeptPasses

LEMMA StepPasses ==
    ASSUME TypeOK, LinkInv, [Next]_vars, NEW a \in Assignments, NEW H,
           \A t \in Tasks : Restore(t) \/ Think(t) \/ Act(t) =>
                               (t \in Workers(a, H)' => t \in Workers(a, H)),
           \A t \in Tasks : Fold(t) => <<Between(mem[t]), iter[t] + 1>> \notin H \/ H = Whatever
    PROVE  PassesAt(a, H)
<1>1. ASSUME NEW t \in Tasks, Claim(t) \/ Step(t) PROVE PassesAt(a, H)
  <2>1. CASE Restore(t) \/ Think(t) \/ Act(t) BY <2>1, LoopPasses
  <2>2. CASE Fold(t) BY <2>2, FoldPasses
  <2> QED BY <1>1, <2>1, <2>2, ClaimPasses, FetchPasses, BeginPasses, SuspendPasses, LeavePasses DEF Step
<1>2. CASE RetryScan \/ UNCHANGED vars
  BY <1>2, BoardPasses DEF RetryScan, vars, board, Parked
<1> QED BY <1>1, <1>2, CallPasses, RetryPasses, CrashPasses DEF Next, Quiescent

\* The user's turn.
LEMMA RestoreNotes ==
    ASSUME TypeOK, LinkInv, NEW t \in Tasks, Restore(t)
    PROVE  /\ tpc[t] = "restore" /\ tpc'[t] = "loop" /\ job'[t] = job[t] /\ iter'[t] = iter[t]
           /\ mem'[t] \in LoopStates /\ ~ Unnoted(mem'[t], iter'[t])
           /\ mem'[t].remaining = mem[t].remaining
           /\ \/ UNCHANGED turns
              \/ /\ Unnoted(mem[t], iter[t])
                 /\ turns' = [turns EXCEPT ![job[t]].user = @ + 1]
<1> DEFINE m == Harvested(mem[t], ask[t])
           new == Unnoted(m, iter[t])
           k == [m EXCEPT !.noted = @ \/ new]
<1>0. /\ tpc[t] = "restore" /\ tpc' = [tpc EXCEPT ![t] = "loop"] /\ mem' = [mem EXCEPT ![t] = k]
      /\ turns' = [turns EXCEPT ![job[t]].user = IF new THEN @ + 1 ELSE @]
      /\ UNCHANGED <<job, iter>>
  BY DEF Restore, Go
<1>1. m \in LoopStates /\ mem[t] \in LoopStates
  BY HarvestedType DEF TypeOK, TaskType
<1>2. m.noted = mem[t].noted /\ m.remaining = mem[t].remaining
  BY <1>1 DEF Harvested, Answer, LoopStates
<1>3. new = Unnoted(mem[t], iter[t]) BY <1>2 DEF Unnoted
<1>4. new \in BOOLEAN BY <1>1 DEF Unnoted, LoopStates
<1>5. k.noted = (m.noted \/ new) /\ k.remaining = m.remaining BY <1>1 DEF LoopStates
<1>6. ~ Unnoted(k, iter[t]) BY <1>5 DEF Unnoted
<1>7. turns \in [Assignments -> [user : Nat, assistant : Nat]] /\ job[t] \in Assignments
  BY <1>0, JobIs DEF TypeOK, PastType
<1> HIDE DEF k, m, new
<1>8. \/ UNCHANGED turns
      \/ new /\ turns' = [turns EXCEPT ![job[t]].user = @ + 1]
  <2>1. CASE new BY <1>0, <2>1
  <2>2. CASE ~ new
    <3>1. turns' = [turns EXCEPT ![job[t]].user = @] BY <1>0, <2>2
    <3> QED BY <1>7, <3>1
  <2> QED BY <2>1, <2>2
<1>9. mem'[t] = k /\ tpc'[t] = "loop" BY <1>0 DEF TypeOK, TaskType
<1>10. mem'[t] \in LoopStates
  <2>1. TypeOK' BY BaseNext DEF Next, Step
  <2> QED BY <2>1 DEF TypeOK, TaskType
<1> QED BY <1>0, <1>2, <1>3, <1>5, <1>6, <1>8, <1>9, <1>10

LEMMA LoopGoes ==
    ASSUME TypeOK, LinkInv, NEW t \in Tasks, Think(t) \/ Act(t)
    PROVE  /\ tpc[t] = "loop" /\ tpc'[t] # "fetch" /\ tpc'[t] # "idle"
           /\ job'[t] = job[t] /\ iter'[t] = iter[t]
           /\ mem[t] \in LoopStates /\ mem'[t].noted = mem[t].noted
<1>0. mem[t].remaining # << >> => Popped(mem[t]) \in LoopStates
  BY PoppedType DEF TypeOK, TaskType
<1>1. mem[t] \in LoopStates BY DEF TypeOK, TaskType
<1>2. CASE Think(t)
  <2>1. /\ tpc[t] = "loop" /\ UNCHANGED <<job, iter>>
        /\ \/ /\ \E phase \in {"fail", "complete"} : tpc' = [tpc EXCEPT ![t] = phase]
              /\ UNCHANGED mem
           \/ \E batch \in Answers : Proposes(t, batch)
    BY <1>2, ThinkIs
  <2>2. ASSUME NEW batch \in Answers, Proposes(t, batch)
        PROVE  mem'[t].noted = mem[t].noted /\ UNCHANGED tpc
    <3> DEFINE k == [Between(mem[t]) EXCEPT !.asked = TRUE,
                       !.remaining = [i \in DOMAIN batch |-> <<Len(answers) + 1, i>>]]
    <3>1. mem' = [mem EXCEPT ![t] = k] /\ UNCHANGED tpc BY <2>2 DEF Proposes
    <3>2. k.noted = mem[t].noted BY DEF Between, Fresh
    <3> HIDE DEF k
    <3> QED BY <3>1, <3>2 DEF TypeOK, TaskType
  <2>3. mem'[t].noted = mem[t].noted BY <2>1, <2>2
  <2>4. tpc'[t] # "fetch" /\ tpc'[t] # "idle" BY <2>1, <2>2 DEF TypeOK, TaskType
  <2> QED BY <1>1, <2>1, <2>3, <2>4
<1>3. CASE Act(t)
  <2> DEFINE act == Head(mem[t].remaining)
  <2>1. tpc[t] = "loop" /\ UNCHANGED <<job, iter>> /\ mem[t].remaining # << >>
    BY <1>3, ActIs
  <2>2. Popped(mem[t]) \in LoopStates /\ Popped(mem[t]).noted = mem[t].noted
    BY <1>0, <1>1, <2>1 DEF Popped, LoopStates
  <2>3. \A told : Answer(Popped(mem[t]), act, told).noted = mem[t].noted
    BY <2>2 DEF Answer, LoopStates
  <2>4. \/ \E told \in {"denied", "executed"}, phase \in {"loop", "fail"} :
              Settles(t, act, told, phase)
        \/ \E phase \in {"suspend", "fail"} : Asks(t, act, phase)
    BY <1>3, ActIs
  <2>5. mem'[t].noted = mem[t].noted /\ tpc'[t] # "fetch" /\ tpc'[t] # "idle"
    <3> HIDE DEF act
    <3>1. ASSUME NEW told, NEW phase \in {"loop", "fail"}, Settles(t, act, told, phase)
          PROVE  mem'[t] = Answer(Popped(mem[t]), act, told) /\ tpc'[t] = phase
      BY <3>1 DEF Settles, TypeOK, TaskType
    <3>2. ASSUME NEW phase \in {"suspend", "fail"}, Asks(t, act, phase)
          PROVE  mem'[t] = Popped(mem[t]) /\ tpc'[t] = phase
      BY <3>2 DEF Asks, TypeOK, TaskType
    <3> QED BY <2>2, <2>3, <2>4, <3>1, <3>2
  <2> QED BY <1>1, <2>1, <2>5
<1> QED BY <1>2, <1>3

LEMMA TurnsSame ==
    ASSUME [Next]_vars
    PROVE  UNCHANGED turns \/ \E t \in Tasks : Restore(t) \/ Complete(t)
BY DEF Next, Step, Reply, Claim, Fetch, Begin, Think, Act, Suspend, Fold, Fail,
       Approve, Deny, Drain, Execute, Record, Find, Mark, ListPending, CascadeDeny,
       RetryScan, RetryOne, Crash, Quiescent, vars, past

LEMMA CompleteTurns ==
    ASSUME TypeOK, LinkInv, NEW t \in Tasks, Complete(t), NEW a \in Assignments
    PROVE  /\ job[t] \in Assignments /\ tpc[t] = "complete"
           /\ turns'[a].user = turns[a].user
           /\ turns'[a].assistant = IF a = job[t] THEN turns[a].assistant + 1
                                    ELSE turns[a].assistant
<1>1. tpc[t] = "complete" /\ turns' = [turns EXCEPT ![job[t]].assistant = @ + 1]
  BY DEF Complete
<1>2. job[t] \in Assignments BY <1>1, JobIs DEF TypeOK
<1>3. turns \in [Assignments -> [user : Nat, assistant : Nat]] BY DEF TypeOK, PastType
<1> QED BY <1>1, <1>2, <1>3

LEMMA UserNext ==
    ASSUME TypeOK, LinkInv, UserInv, [Next]_vars PROVE UserInv'
<1>1. UserFit BY FitIsSo DEF FitIs
<1>2. ASSUME NEW a \in Assignments PROVE FitsAt(turns[a].user, a, WithNews)'
  <2>1. FitsAt(turns[a].user, a, WithNews) /\ turns[a].user \in Nat
    BY <1>1 DEF UserFit, TypeOK, PastType
  <2>2. ASSUME NEW t \in Tasks, Restore(t) PROVE t \notin Workers(a, WithNews)'
    <3>1. tpc'[t] = "loop" /\ ~ Unnoted(mem'[t], iter'[t]) BY <2>2, RestoreNotes
    <3> QED BY <3>1 DEF Workers, WithNews, State, IterOf
  <2>3. ASSUME NEW t \in Tasks, Think(t) \/ Act(t), t \in Workers(a, WithNews)'
        PROVE  t \in Workers(a, WithNews)
    <3>1. /\ tpc[t] = "loop" /\ tpc'[t] # "fetch" /\ job'[t] = job[t] /\ iter'[t] = iter[t]
          /\ mem[t] \in LoopStates /\ mem'[t].noted = mem[t].noted
      BY <2>3, LoopGoes
    <3>2. <<mem'[t], iter'[t]>> \in WithNews => <<mem[t], iter[t]>> \in WithNews
      BY <3>1 DEF WithNews, Unnoted
    <3> QED BY <2>3, <3>1, <3>2, SameWorks
  <2>4. ASSUME NEW t \in Tasks, Fold(t) PROVE <<Between(mem[t]), iter[t] + 1>> \notin WithNews
    <3>1. iter[t] \in Nat BY DEF TypeOK, TaskType
    <3>2. iter[t] + 1 # 0 BY <3>1
    <3> QED BY <3>2 DEF WithNews, Unnoted
  <2>5. PassesAt(a, WithNews) BY <2>2, <2>3, <2>4, StepPasses
  <2>6. FitsAt(turns[a].user, a, WithNews)' \/ turns'[a].user # turns[a].user
    <3>1. \A n \in Nat : FitsAt(n, a, WithNews) => FitsAt(n, a, WithNews)' BY <2>5, FitsNext
    <3>2. Fits(turns[a].user, Waits(a, WithNews)', Workers(a, WithNews)', retries'[a])
      BY <2>1, <3>1 DEF FitsAt
    <3> QED BY <3>2 DEF FitsAt
  <2>7. ASSUME turns'[a].user # turns[a].user PROVE FitsAt(turns[a].user, a, WithNews)'
    <3>1. PICK t \in Tasks : Restore(t)
      BY <2>7, TurnsSame, CompleteTurns
    <3>2. /\ tpc[t] = "restore" /\ Unnoted(mem[t], iter[t])
          /\ turns' = [turns EXCEPT ![job[t]].user = @ + 1]
      BY <2>7, <3>1, RestoreNotes
    <3>3. a = job[t] /\ turns'[a].user = turns[a].user + 1
      BY <2>7, <3>2 DEF TypeOK, PastType
    <3>4. mem[t] \in LoopStates /\ iter[t] \in Nat BY DEF TypeOK, TaskType
    <3>5. t \in Workers(a, WithNews)
      BY <3>2, <3>3, <3>4 DEF Workers, Working, WithNews, State, IterOf
    <3>6. SpendsAt(a, WithNews) BY <2>2, <3>1, <3>5, LoopSpends
    <3>7. \A n \in Nat : FitsAt(n, a, WithNews) => FitsAt(n + 1, a, WithNews)' BY <3>6, FitsNext
    <3>8. Fits(turns[a].user + 1, Waits(a, WithNews)', Workers(a, WithNews)', retries'[a])
      BY <2>1, <3>7 DEF FitsAt
    <3> QED BY <3>3, <3>8 DEF FitsAt
  <2> QED BY <2>6, <2>7
<1>3. UserFit' BY <1>2 DEF UserFit
<1>4. TypeOK' BY BaseNext
<1> QED BY <1>3, <1>4, FitIsNext DEF FitIs

LEMMA AssistantNext ==
    ASSUME TypeOK, LinkInv, AssistantInv, [Next]_vars PROVE AssistantInv'
<1>1. AssistantFit BY FitIsSo DEF FitIs
<1>2. ASSUME NEW a \in Assignments PROVE FitsAt(turns[a].assistant, a, Whatever)'
  <2>1. FitsAt(turns[a].assistant, a, Whatever) /\ turns[a].assistant \in Nat
    BY <1>1 DEF AssistantFit, TypeOK, PastType
  <2>2. \A t \in Tasks : <<mem[t], iter[t]>> \in Whatever
    BY DEF TypeOK, TaskType, Whatever
  <2>3. ASSUME NEW t \in Tasks, Restore(t) \/ Think(t) \/ Act(t), t \in Workers(a, Whatever)'
        PROVE  t \in Workers(a, Whatever)
    <3>1. tpc[t] \in {"restore", "loop"} /\ tpc'[t] # "fetch" /\ job'[t] = job[t]
      BY <2>3, LoopGoes, RestoreNotes
    <3> QED BY <2>2, <2>3, <3>1, SameWorks
  <2>4. PassesAt(a, Whatever) BY <2>3, StepPasses
  <2>5. FitsAt(turns[a].assistant, a, Whatever)' \/ turns'[a].assistant # turns[a].assistant
    <3>1. \A n \in Nat : FitsAt(n, a, Whatever) => FitsAt(n, a, Whatever)' BY <2>4, FitsNext
    <3>2. Fits(turns[a].assistant, Waits(a, Whatever)', Workers(a, Whatever)', retries'[a])
      BY <2>1, <3>1 DEF FitsAt
    <3> QED BY <3>2 DEF FitsAt
  <2>6. ASSUME turns'[a].assistant # turns[a].assistant
        PROVE  FitsAt(turns[a].assistant, a, Whatever)'
    <3>1. ASSUME NEW t \in Tasks, Restore(t) PROVE FALSE
      <4>1. UNCHANGED turns \/ turns' = [turns EXCEPT ![job[t]].user = @ + 1]
        BY <3>1, RestoreNotes
      <4> QED BY <2>6, <4>1 DEF TypeOK, PastType
    <3>2. PICK t \in Tasks : Complete(t) BY <2>6, <3>1, TurnsSame
    <3>3. a = job[t] /\ turns'[a].assistant = turns[a].assistant + 1 /\ tpc[t] = "complete"
      BY <2>6, <3>2, CompleteTurns
    <3>4. t \in Workers(a, Whatever) BY <2>2, <3>3 DEF Workers, Working, State, IterOf
    <3>5. SpendsAt(a, Whatever) BY <3>2, <3>4, LoopSpends
    <3>6. \A n \in Nat : FitsAt(n, a, Whatever) => FitsAt(n + 1, a, Whatever)' BY <3>5, FitsNext
    <3>7. Fits(turns[a].assistant + 1, Waits(a, Whatever)', Workers(a, Whatever)', retries'[a])
      BY <2>1, <3>6 DEF FitsAt
    <3> QED BY <3>3, <3>7 DEF FitsAt
  <2> QED BY <2>5, <2>6
<1>3. AssistantFit' BY <1>2 DEF AssistantFit
<1>4. TypeOK' BY BaseNext
<1> QED BY <1>3, <1>4, FitIsNext DEF FitIs

\* The actions left of a whole batch follow one another.
Follows(given, a, m) ==
    \E n \in DOMAIN given, k \in Nat :
        /\ given[n].of = a
        /\ \A i \in DOMAIN m.remaining : /\ m.remaining[i] = <<n, k + i>>
                                         /\ k + i \in DOMAIN given[n].batch

LEMMA ProperLeft ==
    ASSUME NEW given, NEW a, NEW m \in LoopStates, NEW q \in Seq(Acts), Proper(given, a, m, q),
           m.remaining # << >>
    PROVE  Follows(given, a, m)
<1> DEFINE items == Items(m, q)
           k == Len(m.partial) + Len(q)
           n == items[1][1]
<1>1. m.partial \in Seq(Acts) /\ m.remaining \in Seq(Acts) BY DEF LoopStates
<1>2. /\ Len(m.partial) \in Nat /\ Len(q) \in Nat /\ Len(m.remaining) \in Nat /\ k \in Nat
      /\ DOMAIN m.remaining = 1 .. Len(m.remaining) /\ Len(m.remaining) # 0
  BY <1>1, LenProperties, EmptySeq
<1>3. /\ items \in Seq(Acts) /\ Len(items) = k + Len(m.remaining)
      /\ \A i \in 1 .. Len(m.remaining) : items[k + i] = m.remaining[i]
  <2>1. m.partial \o q \in Seq(Acts) /\ Len(m.partial \o q) = k BY <1>1, <1>2
  <2> DEFINE p == m.partial \o q
  <2>2. items = p \o m.remaining BY DEF Items
  <2> HIDE DEF p, items, k
  <2>3. p \in Seq(Acts) /\ Len(p) = k BY <2>1 DEF p
  <2>4. /\ p \o m.remaining \in Seq(Acts) /\ Len(p \o m.remaining) = k + Len(m.remaining)
        /\ \A i \in 1 .. k + Len(m.remaining) :
              (p \o m.remaining)[i] = IF i <= k THEN p[i] ELSE m.remaining[i - k]
    BY <1>1, <2>3, ConcatProperties
  <2>5. ASSUME NEW i \in 1 .. Len(m.remaining) PROVE items[k + i] = m.remaining[i]
    <3>1. k + i \in 1 .. k + Len(m.remaining) /\ ~ (k + i <= k) /\ (k + i) - k = i
      BY <1>2
    <3> QED BY <2>2, <2>4, <3>1
  <2> QED BY <2>2, <2>4, <2>5
<1> HIDE DEF k
<1>4. m.asked
  <2>1. CASE ~ m.asked
    <3>1. items = << >> BY <2>1 DEF Proper
    <3>2. Len(items) = 0 BY <3>1
    <3> HIDE DEF items
    <3>3. Len(items) = k + Len(m.remaining) BY <1>3
    <3>4. k + Len(m.remaining) # 0 BY <1>2
    <3> QED BY <3>2, <3>3, <3>4
  <2> QED BY <2>1
<1>5. /\ n \in DOMAIN given /\ given[n].of = a
      /\ items = [i \in DOMAIN given[n].batch |-> <<n, i>>]
  BY <1>4 DEF Proper
<1> HIDE DEF items, n
<1>6. DOMAIN items = 1 .. Len(items) BY <1>3, LenProperties
<1>7. DOMAIN given[n].batch = 1 .. Len(items) BY <1>5, <1>6
<1>8. ASSUME NEW i \in DOMAIN m.remaining
      PROVE  m.remaining[i] = <<n, k + i>> /\ k + i \in DOMAIN given[n].batch
  <2>1. i \in 1 .. Len(m.remaining) BY <1>2
  <2>2. k + i \in 1 .. Len(items) BY <1>2, <1>3, <2>1
  <2>3. items[k + i] = <<n, k + i>> BY <1>5, <1>7, <2>2
  <2> QED BY <1>3, <1>7, <2>1, <2>2, <2>3
<1> QED BY <1>2, <1>5, <1>8 DEF Follows

\* An action left is one of an answer to that assignment.
Known(a, act) == /\ act[1] \in DOMAIN answers /\ answers[act[1]].of = a
                 /\ act[2] \in DOMAIN answers[act[1]].batch

LEMMA QueryType ==
    ASSUME TypeOK, NEW r \in Rows \cup {None} PROVE Query(rows, r) \in Seq(Acts)
<1>1. CASE r = None BY <1>1 DEF Query
<1>2. CASE r # None
  <2>1. rows[r].act \in Acts BY <1>2, RowIs DEF TypeOK, BoardType
  <2> QED BY <1>2, <2>1 DEF Query
<1> QED BY <1>1, <1>2

LEMMA ProperKnown ==
    ASSUME TypeOK, NEW a, NEW m \in LoopStates, NEW r \in Rows \cup {None},
           Proper(answers, a, m, Query(rows, r)), NEW act \in Left(m)
    PROVE  Known(a, act)
<1>1. PICK j \in DOMAIN m.remaining : act = m.remaining[j] BY DEF Left
<1>2. m.remaining # << >> BY <1>1
<1>3. PICK n \in DOMAIN answers, k \in Nat :
              /\ answers[n].of = a
              /\ \A i \in DOMAIN m.remaining : /\ m.remaining[i] = <<n, k + i>>
                                               /\ k + i \in DOMAIN answers[n].batch
  <2> DEFINE q == Query(rows, r)
  <2>1. q \in Seq(Acts) /\ Proper(answers, a, m, q) BY QueryType
  <2> HIDE DEF q
  <2>2. Follows(answers, a, m) BY <1>2, <2>1, ProperLeft
  <2> QED BY <2>2 DEF Follows
<1>4. act = <<n, k + j>> /\ k + j \in DOMAIN answers[n].batch BY <1>1, <1>3
<1> QED BY <1>3, <1>4 DEF Known

LEMMA SavedKnown ==
    ASSUME TypeOK, BatchInv, NEW a \in Assignments, NEW act \in Left(Saved(a))
    PROVE  Known(a, act)
<1>1. CASE conversation[a] = None
  <2>1. Saved(a).remaining = << >> BY <1>1 DEF Saved, Fresh
  <2> QED BY <2>1 DEF Left
<1>2. CASE conversation[a] # None
  <2>1. Saved(a) = conversation[a] BY <1>2 DEF Saved
  <2>2. SavedProper(answers, rows, a, conversation[a], waiting_action[a])
    BY ProperIs DEF ProperInv
  <2>3. conversation[a] \in LoopStates /\ waiting_action[a] \in Rows \cup {None}
    BY <1>2 DEF TypeOK, BoardType
  <2> QED BY <1>2, <2>1, <2>2, <2>3, ProperKnown DEF SavedProper
<1> QED BY <1>1, <1>2

LEMMA WorkerKnown ==
    ASSUME TypeOK, LinkInv, BatchInv, NEW a \in Assignments, NEW t \in Tasks, Working(t, a),
           NEW act \in Left(State(t))
    PROVE  Known(a, act)
<1>1. job[t] = a /\ tpc[t] # "fail" /\ tpc[t] # "idle"
  BY Numbers DEF Working, LinkInv
<1>2. CASE tpc[t] = "fetch"
  BY <1>1, <1>2, SavedKnown DEF State
<1>3. CASE tpc[t] # "fetch"
  <2>1. State(t) = mem[t] BY <1>3 DEF State
  <2>2. /\ TaskProper(answers, rows, tpc[t], job[t], mem[t], ask[t], iter[t])
        /\ mem[t] \in LoopStates /\ ask[t] \in Rows \cup {None}
    BY TaskIs
  <2>3. CASE tpc[t] = "complete"
    <3>1. mem[t].remaining = << >> BY <2>2, <2>3 DEF TaskProper
    <3> QED BY <2>1, <3>1 DEF Left
  <2>4. CASE tpc[t] # "complete"
    <3>1. tpc[t] \in {"start", "restore", "loop", "suspend"}
      BY <1>1, <1>3, <2>4 DEF TypeOK, TaskType
    <3> QED BY <1>1, <2>1, <2>2, <3>1, ProperKnown DEF TaskProper
  <2> QED BY <2>3, <2>4
<1> QED BY <1>2, <1>3

\* What Act takes is not left after it.
LEMMA HeadLeft ==
    ASSUME TypeOK, LinkInv, BatchInv, NEW t \in Tasks, tpc[t] = "loop", mem[t].remaining # << >>
    PROVE  /\ Head(mem[t].remaining) \in Left(mem[t])
           /\ Head(mem[t].remaining) \notin Left(Popped(mem[t]))
           /\ Left(Popped(mem[t])) \subseteq Left(mem[t])
           /\ Known(job[t], Head(mem[t].remaining))
<1> DEFINE m == mem[t]
           act == Head(m.remaining)
<1>1. /\ TaskProper(answers, rows, tpc[t], job[t], m, ask[t], iter[t])
      /\ m \in LoopStates /\ ask[t] \in Rows \cup {None}
  BY TaskIs
<1>2. Proper(answers, job[t], m, Query(rows, ask[t])) BY <1>1 DEF TaskProper
<1> HIDE DEF m
<1>3. PICK n \in DOMAIN answers, k \in Nat :
              /\ answers[n].of = job[t]
              /\ \A i \in DOMAIN m.remaining : /\ m.remaining[i] = <<n, k + i>>
                                               /\ k + i \in DOMAIN answers[n].batch
  <2> DEFINE q == Query(rows, ask[t])
  <2>1. q \in Seq(Acts) /\ Proper(answers, job[t], m, q) BY <1>1, <1>2, QueryType
  <2>2. m.remaining # << >> BY DEF m
  <2> HIDE DEF q
  <2>3. Follows(answers, job[t], m) BY <1>1, <2>1, <2>2, ProperLeft
  <2> QED BY <2>3 DEF Follows
<1>4. m.remaining # << >> BY DEF m
<1>5. m.remaining \in Seq(Acts) BY <1>1 DEF LoopStates
<1>6. /\ Len(m.remaining) \in Nat /\ Len(m.remaining) # 0
      /\ DOMAIN m.remaining = 1 .. Len(m.remaining)
      /\ Tail(m.remaining) \in Seq(Acts) /\ Len(Tail(m.remaining)) = Len(m.remaining) - 1
      /\ DOMAIN Tail(m.remaining) = 1 .. Len(m.remaining) - 1
      /\ \A i \in 1 .. Len(m.remaining) - 1 : Tail(m.remaining)[i] = m.remaining[i + 1]
      /\ Head(m.remaining) = m.remaining[1]
  <2>1. Len(m.remaining) \in Nat /\ DOMAIN m.remaining = 1 .. Len(m.remaining)
    BY <1>5, LenProperties
  <2>2. Len(m.remaining) # 0 BY <1>4, <1>5, EmptySeq
  <2>3. /\ Tail(m.remaining) \in Seq(Acts) /\ Len(Tail(m.remaining)) = Len(m.remaining) - 1
        /\ \A i \in 1 .. Len(m.remaining) - 1 : Tail(m.remaining)[i] = m.remaining[i + 1]
    BY <1>4, <1>5, HeadTailProperties
  <2>4. DOMAIN Tail(m.remaining) = 1 .. Len(m.remaining) - 1 BY <2>3, LenProperties
  <2>5. Head(m.remaining) = m.remaining[1] BY <1>4, <1>5, HeadTailProperties
  <2> QED BY <2>1, <2>2, <2>3, <2>4, <2>5
<1>7. act = <<n, k + 1>> /\ k + 1 \in DOMAIN answers[n].batch
  BY <1>3, <1>6
<1>8. act \in Left(m) BY <1>6 DEF Left
<1>9. Popped(m).remaining = Tail(m.remaining) BY <1>1 DEF Popped, LoopStates, m
<1>10. ASSUME NEW other \in Left(Popped(m)) PROVE other \in Left(m) /\ other # act
  <2>1. PICK i \in 1 .. Len(m.remaining) - 1 : other = m.remaining[i + 1]
    BY <1>6, <1>9, <1>10 DEF Left
  <2>2. i + 1 \in DOMAIN m.remaining BY <1>6, <2>1
  <2>3. other \in Left(m) BY <2>1, <2>2 DEF Left
  <2>4. other = <<n, k + (i + 1)>> BY <1>3, <2>1, <2>2
  <2>5. k + (i + 1) # k + 1 BY <1>6, <2>1
  <2> QED BY <1>7, <2>3, <2>4, <2>5
<1>11. Known(job[t], act) BY <1>3, <1>7 DEF Known
<1> QED BY <1>8, <1>10, <1>11 DEF m

\* Which chances a step of the loop leaves.
LEMMA LeftStays ==
    ASSUME TypeOK, LinkInv, BatchInv, NEW t \in Tasks, Restore(t) \/ Think(t) \/ Act(t),
           NEW act, act[1] \in DOMAIN answers, act \in Left(mem'[t])
    PROVE  act \in Left(mem[t])
<1>1. CASE Restore(t)
  <2>1. mem'[t].remaining = mem[t].remaining BY <1>1, RestoreNotes
  <2> QED BY <2>1 DEF Left
<1>2. CASE Think(t)
  <2>1. CASE UNCHANGED mem BY <2>1
  <2>2. ASSUME NEW batch \in Answers, Proposes(t, batch) PROVE FALSE
    <3> DEFINE k == [Between(mem[t]) EXCEPT !.asked = TRUE,
                       !.remaining = [i \in DOMAIN batch |-> <<Len(answers) + 1, i>>]]
    <3>1. mem' = [mem EXCEPT ![t] = k] BY <2>2 DEF Proposes
    <3>2. k.remaining = [i \in DOMAIN batch |-> <<Len(answers) + 1, i>>] BY DEF Between, Fresh
    <3>3. mem'[t] = k BY <3>1 DEF TypeOK, TaskType
    <3> HIDE DEF k
    <3>4. act[1] = Len(answers) + 1 BY <3>2, <3>3 DEF Left
    <3>5. Len(answers) \in Nat /\ DOMAIN answers = 1 .. Len(answers) BY AnswersAre
    <3> QED BY <3>4, <3>5
  <2> QED BY <1>2, <2>1, <2>2, ThinkIs
<1>3. CASE Act(t)
  <2> DEFINE head == Head(mem[t].remaining)
  <2>1. /\ tpc[t] = "loop" /\ mem[t].remaining # << >>
        /\ \/ \E told \in {"denied", "executed"}, phase \in {"loop", "fail"} :
                 Settles(t, head, told, phase)
           \/ \E phase \in {"suspend", "fail"} : Asks(t, head, phase)
    BY <1>3, ActIs
  <2>2. Left(Popped(mem[t])) \subseteq Left(mem[t]) BY <2>1, HeadLeft
  <2>3. Left(mem'[t]) = Left(Popped(mem[t]))
    <3> HIDE DEF head
    <3>1. mem'[t].remaining = Popped(mem[t]).remaining
      <4>1. \A told : Answer(Popped(mem[t]), head, told).remaining = Popped(mem[t]).remaining
        BY DEF Answer, Popped
      <4>2. ASSUME NEW told, NEW phase, Settles(t, head, told, phase)
            PROVE  mem'[t] = Answer(Popped(mem[t]), head, told)
        BY <4>2 DEF Settles, TypeOK, TaskType
      <4>3. ASSUME NEW phase, Asks(t, head, phase) PROVE mem'[t] = Popped(mem[t])
        BY <4>3 DEF Asks, TypeOK, TaskType
      <4> QED BY <2>1, <4>1, <4>2, <4>3
    <3> QED BY <3>1 DEF Left
  <2> QED BY <2>2, <2>3
<1> QED BY <1>1, <1>2, <1>3

LEMMA LoopStepIs ==
    ASSUME TypeOK, LinkInv, NEW t \in Tasks, Restore(t) \/ Think(t) \/ Act(t)
    PROVE  /\ tpc[t] \in {"restore", "loop"} /\ tpc'[t] # "fetch"
           /\ job'[t] = job[t] /\ iter'[t] = iter[t] /\ mem[t] \in LoopStates /\ iter[t] \in Nat
BY LoopGoes, RestoreNotes DEF TypeOK, TaskType

LEMMA RunsPass ==
    ASSUME TypeOK, LinkInv, BatchInv, [Next]_vars, NEW a \in Assignments,
           NEW act, act[1] \in DOMAIN answers
    PROVE  PassesAt(a, WithLeft(act))
<1>1. ASSUME NEW t \in Tasks, Restore(t) \/ Think(t) \/ Act(t), t \in Workers(a, WithLeft(act))'
      PROVE  t \in Workers(a, WithLeft(act))
  <2>1. act \in Left(mem'[t]) => act \in Left(mem[t]) BY <1>1, LeftStays
  <2>2. /\ tpc[t] \in {"restore", "loop"} /\ tpc'[t] # "fetch"
        /\ job'[t] = job[t] /\ iter'[t] = iter[t] /\ mem[t] \in LoopStates /\ iter[t] \in Nat
    BY <1>1, LoopStepIs
  <2>3. <<mem'[t], iter'[t]>> \in WithLeft(act) => <<mem[t], iter[t]>> \in WithLeft(act)
    BY <2>1, <2>2 DEF WithLeft
  <2> QED BY <1>1, <2>2, <2>3, SameWorks
<1>2. ASSUME NEW t \in Tasks PROVE <<Between(mem[t]), iter[t] + 1>> \notin WithLeft(act)
  <2>1. Between(mem[t]).remaining = << >> BY DEF Between, Fresh
  <2> QED BY <2>1 DEF WithLeft, Left
<1> QED BY <1>1, <1>2, StepPasses

\* An action run without asking had a chance, and has used it.
LEMMA RunIs ==
    ASSUME TypeOK, LinkInv, BatchInv, [Next]_vars, NEW act \in Acts, effects'[act] # effects[act]
    PROVE  /\ UNCHANGED answers /\ effects'[act] = effects[act] + 1
           /\ \E a \in Assignments : Known(a, act) /\ SpendsAt(a, WithLeft(act))
<1>1. PICK t \in Tasks : Act(t)
  BY DEF Next, Step, Reply, Claim, Fetch, Begin, Restore, Think, Suspend, Fold, Complete, Fail,
         Approve, Deny, Drain, Execute, Record, Find, Mark, ListPending, CascadeDeny,
         RetryScan, RetryOne, Crash, Quiescent, vars, past
<1>2. /\ tpc[t] = "loop" /\ mem[t].remaining # << >> /\ UNCHANGED <<answers, job>>
      /\ Head(mem[t].remaining) \in Acts /\ mem[t] \in LoopStates /\ iter[t] \in Nat
  BY <1>1, ActIs DEF TypeOK, TaskType
<1>3. effects \in [Acts -> Nat] BY DEF TypeOK, PastType
<1>4. /\ act = Head(mem[t].remaining) /\ effects'[act] = effects[act] + 1
      /\ mem'[t] = Answer(Popped(mem[t]), act, "executed") /\ tpc'[t] # "fetch"
  <2> DEFINE head == Head(mem[t].remaining)
  <2>1. \/ \E told \in {"denied", "executed"}, phase \in {"loop", "fail"} :
              Settles(t, head, told, phase)
        \/ \E phase \in {"suspend", "fail"} : Asks(t, head, phase)
    BY <1>1, ActIs
  <2> HIDE DEF head
  <2>2. PICK phase \in {"loop", "fail"} : /\ Settles(t, head, "executed", phase)
                                         /\ effects' = [effects EXCEPT ![head] = @ + 1]
    BY <2>1 DEF Settles, Asks
  <2>3. act = head /\ effects'[act] = effects[act] + 1
    BY <1>3, <2>2
  <2>4. mem'[t] = Answer(Popped(mem[t]), head, "executed") /\ tpc'[t] = phase
    BY <2>2 DEF Settles, TypeOK, TaskType
  <2> QED BY <2>3, <2>4 DEF head
<1>5. /\ act \in Left(mem[t]) /\ act \notin Left(Popped(mem[t])) /\ Known(job[t], act)
  BY <1>2, <1>4, HeadLeft
<1>7. PICK a \in Assignments : a = job[t] BY <1>2, JobIs DEF TypeOK
<1>8. t \in Workers(a, WithLeft(act))
  BY <1>2, <1>5, <1>7 DEF Workers, Working, WithLeft, State, IterOf
<1>9. t \notin Workers(a, WithLeft(act))'
  <2>1. mem'[t].remaining = Popped(mem[t]).remaining BY <1>4 DEF Answer, Popped
  <2>2. act \notin Left(mem'[t]) BY <1>5, <2>1 DEF Left
  <2> QED BY <1>4, <2>2 DEF Workers, WithLeft, State
<1>10. SpendsAt(a, WithLeft(act)) BY <1>1, <1>8, <1>9, LoopSpends
<1>11. Known(a, act) BY <1>5, <1>7
<1> QED BY <1>2, <1>4, <1>10, <1>11

\* A new answer gives each of its actions one chance.
LEMMA NewRuns ==
    ASSUME TypeOK, LinkInv, BatchInv, [Next]_vars, NEW n \in DOMAIN answers', n \notin DOMAIN answers,
           NEW i, NEW a \in Assignments
    PROVE  FitsAt(0, a, WithLeft(<<n, i>>))'
<1> DEFINE act == <<n, i>>
           H == WithLeft(act)
<1>1. PICK t \in Tasks : Think(t)
  BY DEF Next, Step, Reply, Claim, Fetch, Begin, Restore, Act, Suspend, Fold, Complete, Fail,
         Approve, Deny, Drain, Execute, Record, Find, Mark, ListPending, CascadeDeny,
         RetryScan, RetryOne, Crash, Quiescent, vars, past
<1>2. Others(t) /\ UNCHANGED <<status, conversation, iteration, retries>>
  BY <1>1, StepOthers DEF Step, Think, board
<1>3. TypeOK' BY BaseNext
<1>5. \A b : ~ Known(b, act) BY DEF Known
<1> HIDE DEF act
<1>6. ~ Waits(a, H)'
  <2>1. act \notin Left(Saved(a)) BY <1>5, SavedKnown
  <2>2. Saved(a)' = Saved(a) BY <1>2 DEF Saved
  <2> QED BY <2>1, <2>2 DEF Waits, WithLeft
<1>7. Workers(a, H)' \subseteq {t}
  <2>1. ASSUME NEW u \in Workers(a, H)', u # t PROVE FALSE
    <3> HIDE DEF H
    <3>1. u \in Tasks BY DEF Workers
    <3>2. u \in Workers(a, H) BY <1>2, <2>1, <3>1, OtherStays DEF Others
    <3>3. Working(u, a) /\ act \in Left(State(u)) BY <3>2 DEF Workers, H, WithLeft
    <3> QED BY <1>5, <3>1, <3>3, WorkerKnown
  <2> QED BY <2>1
<1>8. Cardinality(Workers(a, H)') <= 1 /\ Cardinality(Workers(a, H)') \in Nat
  <2>1. IsFiniteSet({t}) /\ Cardinality({t}) = 1 BY FS_Singleton
  <2>2. IsFiniteSet(Workers(a, H)') /\ Cardinality(Workers(a, H)') <= 1
    BY <1>7, <2>1, FS_Subset
  <2> QED BY <2>2, FS_CardinalityType
<1>9. One(Waits(a, H)') = 0
  <2>1. Waits(a, H)' \in BOOLEAN BY DEF Waits, Parked
  <2> QED BY <1>6, <2>1, OneIs
<1>10. retries'[a] \in Nat BY <1>3 DEF TypeOK, BoardType
<1>11. Fits(0, Waits(a, H)', Workers(a, H)', retries'[a])
  <2> HIDE DEF H
  <2>1. 0 + 0 + Cardinality(Workers(a, H)') <= 1 + retries'[a] BY <1>8, <1>10
  <2> QED BY <1>9, <2>1 DEF Fits
<1> QED BY <1>11 DEF FitsAt, act

LEMMA RunsNext ==
    ASSUME TypeOK, LinkInv, BatchInv, RunsInv, [Next]_vars PROVE RunsInv'
<1>1. RunsFit BY FitIsSo DEF FitIs
<1>2. TypeOK' BY BaseNext
<1>3. /\ DOMAIN answers \subseteq DOMAIN answers'
      /\ \A n \in DOMAIN answers : answers'[n] = answers[n]
  BY HistoryGrows
<1>4. ASSUME NEW n \in DOMAIN answers', NEW i \in DOMAIN answers'[n].batch PROVE <<n, i>> \in Acts
  <2>1. /\ Len(answers') \in Nat /\ DOMAIN answers' = 1 .. Len(answers') /\ Len(answers') <= MaxTurns
        /\ answers'[n] \in [of : Assignments, batch : Answers]
    <3>1. answers' \in Seq([of : Assignments, batch : Answers]) /\ Len(answers') <= MaxTurns
      BY <1>2 DEF TypeOK, PastType
    <3> QED BY <3>1, LenProperties, ElementOfSeq
  <2>2. answers'[n].batch \in Answers BY <2>1
  <2>3. n \in 1 .. MaxTurns BY <2>1, Numbers
  <2>4. i \in 1 .. Len(answers'[n].batch) /\ Len(answers'[n].batch) \in 1 .. MaxBatch
    BY <2>2, <2>3, ProposedType
  <2>5. i \in 1 .. MaxBatch BY <2>4, Numbers
  <2> QED BY <2>3, <2>5 DEF Acts
<1>5. ASSUME NEW act \in Acts, act[1] \notin DOMAIN answers' PROVE effects'[act] = 0
  <2>1. act[1] \notin DOMAIN answers BY <1>3, <1>5
  <2>2. effects'[act] = effects[act] BY <2>1, RunIs DEF Known
  <2> QED BY <1>1, <2>1, <2>2 DEF RunsFit
<1>6. ASSUME NEW n \in DOMAIN answers', NEW i \in DOMAIN answers'[n].batch,
             NEW a \in Assignments, answers'[n].of = a
      PROVE  FitsAt(effects[<<n, i>>], a, WithLeft(<<n, i>>))'
  <2>0. PICK act \in Acts : act = <<n, i>> /\ act[1] = n BY <1>4
  <2>1. CASE n \notin DOMAIN answers
    <3>1. FitsAt(0, a, WithLeft(act))' BY <2>0, <2>1, NewRuns
    <3>2. effects'[act] = effects[act] BY <2>0, <2>1, RunIs DEF Known
    <3>3. effects[act] = 0 BY <1>1, <2>0, <2>1 DEF RunsFit
    <3>4. Fits(effects'[act], Waits(a, WithLeft(act))', Workers(a, WithLeft(act))', retries'[a])
      BY <3>1, <3>2, <3>3 DEF FitsAt
    <3> QED BY <2>0, <3>4 DEF FitsAt
  <2>2. CASE n \in DOMAIN answers
    <3>1. a = answers[n].of /\ i \in DOMAIN answers[n].batch
      BY <1>3, <1>6, <2>2
    <3>2. FitsAt(effects[act], a, WithLeft(act)) /\ effects[act] \in Nat
      BY <1>1, <2>0, <2>2, <3>1 DEF RunsFit, TypeOK, PastType
    <3>3. PassesAt(a, WithLeft(act)) BY <2>0, <2>2, RunsPass
    <3>4. \A k \in Nat : FitsAt(k, a, WithLeft(act)) => FitsAt(k, a, WithLeft(act))'
      BY <3>3, FitsNext
    <3>5. CASE effects'[act] = effects[act]
      <4>1. Fits(effects'[act], Waits(a, WithLeft(act))', Workers(a, WithLeft(act))', retries'[a])
        BY <3>2, <3>4, <3>5 DEF FitsAt
      <4> QED BY <2>0, <4>1 DEF FitsAt
    <3>6. CASE effects'[act] # effects[act]
      <4>1. effects'[act] = effects[act] + 1 /\ SpendsAt(a, WithLeft(act))
        BY <2>0, <3>1, <3>6, RunIs DEF Known
      <4>2. \A k \in Nat : FitsAt(k, a, WithLeft(act)) => FitsAt(k + 1, a, WithLeft(act))'
        BY <4>1, FitsNext
      <4>3. Fits(effects'[act], Waits(a, WithLeft(act))', Workers(a, WithLeft(act))', retries'[a])
        BY <3>2, <4>1, <4>2 DEF FitsAt
      <4> QED BY <2>0, <4>3 DEF FitsAt
    <3> QED BY <3>5, <3>6
  <2> QED BY <2>1, <2>2
<1>7. RunsFit' BY <1>5, <1>6 DEF RunsFit
<1> QED BY <1>2, <1>7, FitIsNext DEF FitIs

-----------------------------------------------------------------------------
(* Runs of a row answer its approvals.                                      *)

Covered(runs, W, approvals, free) == runs + Cardinality(W) <= approvals + free

\* The run of a row that needed no approval.
Free(trust) == One(trust = "auto")

RowCovered(r) ==
    Covered(rows[r].runs, Approving(r), rows[r].approvals, Free(rows[r].trust))

AllCovered == \A r \in Rows : RowCovered(r)

LEMMA CoverIs == AllCovered <=> ApprovalInv
BY DEF AllCovered, RowCovered, Covered, Free, ApprovalInv

LEMMA CoverIsNext == AllCovered' <=> ApprovalInv'
BY DEF AllCovered, RowCovered, Covered, Free, ApprovalInv

LEMMA CountCallers ==
    ASSUME NEW W \in SUBSET Callers, NEW V \in SUBSET Callers
    PROVE  /\ Cardinality(W) \in Nat /\ Cardinality(V) \in Nat
           /\ V \subseteq W => Cardinality(V) <= Cardinality(W)
           /\ \A c : V \subseteq W \cup {c} => Cardinality(V) <= Cardinality(W) + 1
           /\ \A c \in W : V \subseteq W \ {c} => Cardinality(V) + 1 <= Cardinality(W)
<1>1. IsFiniteSet(W) /\ IsFiniteSet(V) BY Numbers, FS_Subset
<1>2. Cardinality(W) \in Nat /\ Cardinality(V) \in Nat BY <1>1, FS_CardinalityType
<1>3. V \subseteq W => Cardinality(V) <= Cardinality(W) BY <1>1, FS_Subset
<1>4. ASSUME NEW c, V \subseteq W \cup {c} PROVE Cardinality(V) <= Cardinality(W) + 1
  <2>1. /\ IsFiniteSet(W \cup {c})
        /\ Cardinality(W \cup {c}) = IF c \in W THEN Cardinality(W) ELSE Cardinality(W) + 1
    BY <1>1, FS_AddElement
  <2>2. Cardinality(V) <= Cardinality(W \cup {c}) BY <1>4, <2>1, FS_Subset
  <2> QED BY <1>2, <2>1, <2>2
<1>5. ASSUME NEW c \in W, V \subseteq W \ {c} PROVE Cardinality(V) + 1 <= Cardinality(W)
  <2>1. IsFiniteSet(W \ {c}) /\ Cardinality(W \ {c}) = Cardinality(W) - 1
    BY <1>1, FS_RemoveElement
  <2>2. Cardinality(V) <= Cardinality(W \ {c}) BY <1>5, <2>1, FS_Subset
  <2> QED BY <1>2, <2>1, <2>2
<1> QED BY <1>2, <1>3, <1>4, <1>5

\* What may happen to a row and the calls on it: nothing that counts, one more
\* approval with the call that gave it, or the run of one of the calls.
CoverKept(n, m, W, V, k, j) ==
    \/ m = n /\ V \subseteq W /\ j \in {k, k + 1}
    \/ m = n /\ (\E c : V \subseteq W \cup {c}) /\ j = k + 1
    \/ m = n + 1 /\ (\E c \in W : V \subseteq W \ {c}) /\ j = k

LEMMA CoverStays ==
    ASSUME NEW n \in Nat, NEW m \in Nat, NEW k \in Nat, NEW j \in Nat,
           NEW W \in SUBSET Callers, NEW V \in SUBSET Callers, NEW free \in Nat,
           Covered(n, W, k, free), CoverKept(n, m, W, V, k, j)
    PROVE  Covered(m, V, j, free)
<1>1. Cardinality(W) \in Nat /\ Cardinality(V) \in Nat BY CountCallers
<1>2. n + Cardinality(W) <= k + free BY DEF Covered
<1>3. CASE m = n /\ V \subseteq W /\ j \in {k, k + 1}
  <2>1. Cardinality(V) <= Cardinality(W) BY <1>3, CountCallers
  <2> QED BY <1>1, <1>2, <1>3, <2>1 DEF Covered
<1>4. CASE m = n /\ (\E c : V \subseteq W \cup {c}) /\ j = k + 1
  <2>1. Cardinality(V) <= Cardinality(W) + 1 BY <1>4, CountCallers
  <2> QED BY <1>1, <1>2, <1>4, <2>1 DEF Covered
<1>5. CASE m = n + 1 /\ (\E c \in W : V \subseteq W \ {c}) /\ j = k
  <2>1. Cardinality(V) + 1 <= Cardinality(W) BY <1>5, CountCallers
  <2> QED BY <1>1, <1>2, <1>5, <2>1 DEF Covered
<1> QED BY <1>3, <1>4, <1>5 DEF CoverKept

RowKept(r) ==
    /\ rows'[r].trust = rows[r].trust
    /\ CoverKept(rows[r].runs, rows'[r].runs, Approving(r), Approving(r)',
                 rows[r].approvals, rows'[r].approvals)

LEMMA RowStays ==
    ASSUME TypeOK, TypeOK', NEW r \in Rows, r \in Rows', RowCovered(r), RowKept(r)
    PROVE  RowCovered(r)'
<1>1. /\ rows[r].runs \in Nat /\ rows[r].approvals \in Nat
      /\ rows'[r].runs \in Nat /\ rows'[r].approvals \in Nat
  <2>1. rows[r] \in Row BY RowIs DEF TypeOK, BoardType
  <2>2. rows'[r] \in Row BY DEF TypeOK, BoardType, Rows
  <2> QED BY <2>1, <2>2 DEF Row
<1>2. Approving(r) \in SUBSET Callers /\ Approving(r)' \in SUBSET Callers BY DEF Approving
<1>3. Free(rows[r].trust) \in Nat BY DEF Free, One
<1>4. Covered(rows[r].runs, Approving(r), rows[r].approvals, Free(rows[r].trust))
  BY DEF RowCovered
<1>5. CoverKept(rows[r].runs, rows'[r].runs, Approving(r), Approving(r)',
                rows[r].approvals, rows'[r].approvals)
  BY DEF RowKept
<1>6. Covered(rows'[r].runs, Approving(r)', rows'[r].approvals, Free(rows[r].trust))
  <2>1. PICK W \in SUBSET Callers, V \in SUBSET Callers :
           W = Approving(r) /\ V = Approving(r)'
    BY <1>2
  <2>2. PICK n \in Nat, m \in Nat, k \in Nat, j \in Nat, free \in Nat :
           /\ n = rows[r].runs /\ m = rows'[r].runs
           /\ k = rows[r].approvals /\ j = rows'[r].approvals
           /\ free = Free(rows[r].trust)
    BY <1>1, <1>3
  <2>3. Covered(n, W, k, free) BY <1>4, <2>1, <2>2
  <2>4. CoverKept(n, m, W, V, k, j) BY <1>5, <2>1, <2>2
  <2>5. Covered(m, V, j, free) BY <2>3, <2>4, CoverStays
  <2> QED BY <2>1, <2>2, <2>5
<1> QED BY <1>6 DEF RowCovered, RowKept

\* No call is about to execute that was not before.
Calm == \A c \in Callers : cpc'[c] = "execute" => cpc[c] = "execute" /\ target'[c] = target[c]

LEMMA CalmKeeps ==
    ASSUME TypeOK, TypeOK', AllCovered, Rows' = Rows, Calm,
           NEW r \in Rows, rows'[r].runs = rows[r].runs, rows'[r].trust = rows[r].trust,
           rows'[r].approvals \in {rows[r].approvals, rows[r].approvals + 1}
    PROVE  RowCovered(r)'
<1>1. Approving(r)' \subseteq Approving(r) BY DEF Calm, Approving
<1>2. RowKept(r) BY <1>1 DEF RowKept, CoverKept
<1> QED BY <1>2, RowStays DEF AllCovered

LEMMA UnwrittenCovered ==
    ASSUME TypeOK, TypeOK', AllCovered, UNCHANGED rows, Calm PROVE AllCovered'
<1>1. Rows' = Rows BY DEF Rows
<1>2. ASSUME NEW r \in Rows PROVE RowCovered(r)' BY <1>1, CalmKeeps
<1> QED BY <1>1, <1>2 DEF AllCovered

\* Act leaves a row no call knows of.
LEMMA ActCovered ==
    ASSUME TypeOK, TypeOK', LinkInv, AllCovered, NEW t \in Tasks, Act(t) PROVE AllCovered'
<1> DEFINE act == Head(mem[t].remaining)
<1>0. /\ act \in Acts /\ UNCHANGED call
      /\ \/ UNCHANGED rows
         \/ \E new \in {RunRow(act), AskedRow(act)} : rows' = Append(rows, new)
  BY ActIs DEF Settles, Asks
<1> HIDE DEF act
<1>1. Calm BY <1>0 DEF Calm, call
<1>2. CASE UNCHANGED rows BY <1>1, <1>2, UnwrittenCovered
<1>3. ASSUME NEW new \in {RunRow(act), AskedRow(act)}, rows' = Append(rows, new)
      PROVE  AllCovered'
  <2>1. /\ new \in Row /\ new.runs \in {0, 1} /\ new.approvals = 0
        /\ new.runs = 1 => new.trust = "auto"
    <3>1. CASE new = RunRow(act) BY <1>0, <3>1 DEF RunRow, Row
    <3>2. CASE new = AskedRow(act) BY <1>0, <3>2 DEF AskedRow, Row
    <3> QED BY <1>3, <3>1, <3>2
  <2>2. PICK last : last = Len(rows) + 1 OBVIOUS
  <2>3. /\ Rows' = Rows \cup {last} /\ rows'[last] = new
        /\ \A o \in Rows : rows'[o] = rows[o]
    BY <1>3, <2>1, <2>2, ProposeKeeps DEF TypeOK, BoardType
  <2>4. ASSUME NEW r \in Rows PROVE RowCovered(r)'
    <3>1. Approving(r)' \subseteq Approving(r) BY <1>1 DEF Calm, Approving
    <3>2. RowKept(r) BY <2>3, <3>1 DEF RowKept, CoverKept
    <3> QED BY <2>3, <3>2, RowStays DEF AllCovered
  <2>5. RowCovered(last)'
    <3>1. last \notin Rows BY <2>2, LenProperties DEF Rows, TypeOK, BoardType
    <3>2. Approving(last)' = {} BY <1>0, <3>1 DEF Approving, call, LinkInv
    <3>3. Cardinality({}) = 0 BY FS_EmptySet
    <3>4. Free(new.trust) \in Nat /\ (new.trust = "auto" => Free(new.trust) = 1)
      BY DEF Free, One
    <3>5. new.runs = 1 => Free(new.trust) = 1 BY <2>1, <3>4
    <3>6. Covered(new.runs, {}, new.approvals, Free(new.trust))
      BY <2>1, <3>3, <3>4, <3>5 DEF Covered
    <3> QED BY <2>3, <3>2, <3>6 DEF RowCovered
  <2> QED BY <2>3, <2>4, <2>5 DEF AllCovered
<1> QED BY <1>0, <1>2, <1>3

LEMMA TaskCovered ==
    ASSUME TypeOK, TypeOK', LinkInv, AllCovered, NEW t \in Tasks, Claim(t) \/ Step(t)
    PROVE  AllCovered'
<1>1. CASE Act(t) BY <1>1, ActCovered
<1>2. CASE UNCHANGED <<rows, call>>
  <2>1. Calm BY <1>2 DEF Calm, call
  <2> QED BY <1>2, <2>1, UnwrittenCovered
<1>3. Act(t) \/ UNCHANGED <<rows, call>>
  BY DEF Step, Claim, Fetch, Begin, Restore, Think, Suspend, Fold, Complete, Fail
<1> QED BY <1>1, <1>2, <1>3

LEMMA DecideCovered ==
    ASSUME TypeOK, TypeOK', AllCovered, NEW c \in Callers, Approve(c) \/ Deny(c)
    PROVE  AllCovered'
<1>1. PICK r \in Rows, how \in {"approved", "denied"}, phase \in {"idle", "execute", "find"} :
         /\ Resolve(r, how) /\ Enter(c, phase)
         /\ phase = "execute" => how = "approved"
         /\ \/ target' = [target EXCEPT ![c] = r]
            \/ phase = "idle" /\ UNCHANGED target
  BY DEF Approve, Deny
<1>2. /\ Rows' = Rows
      /\ \A o \in Rows : rows'[o].runs = rows[o].runs /\ rows'[o].trust = rows[o].trust
      /\ \A o \in Rows : rows'[o].approvals =
            IF o = r /\ how = "approved" THEN rows[o].approvals + 1 ELSE rows[o].approvals
  BY <1>1, ResolveKeeps DEF TypeOK, BoardType
<1>3. \A d \in Callers \ {c} : cpc'[d] = cpc[d] /\ target'[d] = target[d]
  BY <1>1 DEF Enter, TypeOK, CallType
<1>4. cpc'[c] = phase /\ (phase # "idle" => target'[c] = r)
  BY <1>1 DEF Enter, TypeOK, CallType
<1>5. ASSUME NEW o \in Rows PROVE RowCovered(o)'
  <2>1. CASE o = r /\ phase = "execute"
    <3>1. Approving(o)' \subseteq Approving(o) \cup {c} BY <1>3 DEF Approving
    <3>2. rows'[o].approvals = rows[o].approvals + 1 BY <1>1, <1>2, <2>1
    <3>3. RowKept(o) BY <1>2, <3>1, <3>2 DEF RowKept, CoverKept
    <3> QED BY <1>2, <3>3, RowStays DEF AllCovered
  <2>2. CASE o # r \/ phase # "execute"
    <3>1. Approving(o)' \subseteq Approving(o) BY <1>3, <1>4, <2>2 DEF Approving
    <3>2. rows'[o].approvals \in {rows[o].approvals, rows[o].approvals + 1} BY <1>2
    <3>3. RowKept(o) BY <1>2, <3>1, <3>2 DEF RowKept, CoverKept
    <3> QED BY <1>2, <3>3, RowStays DEF AllCovered
  <2> QED BY <2>1, <2>2
<1> QED BY <1>2, <1>5 DEF AllCovered

LEMMA ExecuteCovered ==
    ASSUME TypeOK, TypeOK', LinkInv, AllCovered, NEW c \in Callers, Execute(c)
    PROVE  AllCovered'
<1> DEFINE r == target[c]
<1>1. /\ cpc[c] = "execute" /\ cpc' = [cpc EXCEPT ![c] = "record"] /\ UNCHANGED target
      /\ rows' = [rows EXCEPT ![r].runs = @ + 1]
  BY DEF Execute
<1>2. r \in Rows BY <1>1 DEF LinkInv
<1>3. /\ Rows' = Rows
      /\ rows'[r].runs = rows[r].runs + 1 /\ rows'[r].trust = rows[r].trust
      /\ rows'[r].approvals = rows[r].approvals
      /\ \A o \in Rows : o # r => rows'[o] = rows[o]
  BY <1>1, <1>2, ExecuteKeeps DEF TypeOK, BoardType
<1>4. /\ cpc'[c] = "record" /\ \A d \in Callers \ {c} : cpc'[d] = cpc[d]
  BY <1>1 DEF TypeOK, CallType
<1>5. c \in Approving(r) BY <1>1 DEF Approving
<1> HIDE DEF r
<1>6. ASSUME NEW o \in Rows PROVE RowCovered(o)'
  <2>1. Approving(o)' \subseteq Approving(o) \ {c} BY <1>1, <1>4 DEF Approving
  <2>2. RowKept(o)
    <3>1. CASE o = r BY <1>3, <1>5, <2>1, <3>1 DEF RowKept, CoverKept
    <3>2. CASE o # r BY <1>3, <2>1, <3>2 DEF RowKept, CoverKept
    <3> QED BY <3>1, <3>2
  <2> QED BY <1>3, <2>2, RowStays DEF AllCovered
<1> QED BY <1>3, <1>6 DEF AllCovered

LEMMA RecordCovered ==
    ASSUME TypeOK, TypeOK', LinkInv, AllCovered, NEW c \in Callers, Record(c)
    PROVE  AllCovered'
<1>1. /\ cpc[c] = "record"
      /\ rows' = [rows EXCEPT ![target[c]].status = "completed"]
      /\ \/ cpc' = [cpc EXCEPT ![c] = "find"] /\ UNCHANGED target
         \/ Close(c)
  BY DEF Record
<1>2. target[c] \in Rows BY <1>1 DEF LinkInv
<1>3. /\ Rows' = Rows
      /\ rows'[target[c]].runs = rows[target[c]].runs
      /\ rows'[target[c]].trust = rows[target[c]].trust
      /\ rows'[target[c]].approvals = rows[target[c]].approvals
      /\ \A o \in Rows : o # target[c] => rows'[o] = rows[o]
  BY <1>1, <1>2, RecordKeeps DEF TypeOK, BoardType
<1>4. Calm BY <1>1 DEF Calm, Close, TypeOK, CallType
<1>5. ASSUME NEW o \in Rows PROVE RowCovered(o)'
  <2>1. /\ rows'[o].runs = rows[o].runs /\ rows'[o].trust = rows[o].trust
        /\ rows'[o].approvals = rows[o].approvals
    BY <1>3
  <2> QED BY <1>3, <1>4, <2>1, CalmKeeps
<1> QED BY <1>3, <1>5 DEF AllCovered

LEMMA CallCovered ==
    ASSUME TypeOK, TypeOK', LinkInv, AllCovered, NEW c \in Callers,
           Approve(c) \/ Deny(c) \/ Drain(c) \/ Reply(c)
    PROVE  AllCovered'
<1>1. CASE Find(c) \/ Mark(c) \/ Drain(c) \/ ListPending(c)
  <2>1. UNCHANGED rows BY <1>1 DEF Find, Mark, Drain, ListPending
  <2>2. \/ Close(c)
        \/ UNCHANGED target /\ \E phase \in {"mark", "list", "cascade"} :
                                   cpc' = [cpc EXCEPT ![c] = phase]
    BY <1>1 DEF Find, Mark, Drain, ListPending, Enter
  <2>3. Calm BY <2>2 DEF Calm, Close, TypeOK, CallType
  <2> QED BY <2>1, <2>3, UnwrittenCovered
<1>2. CASE CascadeDeny(c)
  <2>1. ASSUME NEW r \in todo[c], Resolve(r, "denied"), UNCHANGED <<cpc, target>>
        PROVE  AllCovered'
    <3>1. r \in Rows BY DEF TypeOK, CallType
    <3>2. /\ Rows' = Rows
          /\ \A o \in Rows : rows'[o].runs = rows[o].runs /\ rows'[o].trust = rows[o].trust
          /\ \A o \in Rows : rows'[o].approvals = rows[o].approvals
      BY <2>1, <3>1, ResolveKeeps DEF TypeOK, BoardType
    <3>3. Calm BY <2>1 DEF Calm
    <3>4. \A o \in Rows : RowCovered(o)' BY <3>2, <3>3, CalmKeeps
    <3> QED BY <3>2, <3>4 DEF AllCovered
  <2>2. CASE Close(c) /\ UNCHANGED rows
    <3>1. Calm BY <2>2 DEF Calm, Close, TypeOK, CallType
    <3> QED BY <2>2, <3>1, UnwrittenCovered
  <2> QED BY <1>2, <2>1, <2>2 DEF CascadeDeny
<1> QED BY <1>1, <1>2, DecideCovered, ExecuteCovered, RecordCovered DEF Reply

LEMMA ApprovalNext ==
    ASSUME TypeOK, TypeOK', LinkInv, ApprovalInv, [Next]_vars PROVE ApprovalInv'
<1>0. AllCovered BY CoverIs
<1>1. ASSUME NEW t \in Tasks, Claim(t) \/ Step(t) PROVE AllCovered' BY <1>0, <1>1, TaskCovered
<1>2. ASSUME NEW c \in Callers, Approve(c) \/ Deny(c) \/ Drain(c) \/ Reply(c) PROVE AllCovered'
  BY <1>0, <1>2, CallCovered
<1>3. ASSUME RetryScan \/ (\E a \in Assignments : RetryOne(a)) \/ Crash \/ UNCHANGED vars
      PROVE  AllCovered'
  <2>1. UNCHANGED rows BY <1>3 DEF RetryScan, RetryOne, Crash, vars
  <2>2. Calm BY <1>3 DEF RetryScan, RetryOne, Crash, vars, call, Calm
  <2> QED BY <1>0, <2>1, <2>2, UnwrittenCovered
<1>4. AllCovered' BY <1>1, <1>2, <1>3 DEF Next, Quiescent
<1> QED BY <1>4, CoverIsNext

-----------------------------------------------------------------------------
(* The theorems.                                                            *)

LEMMA LoopInit == Init => TypeOK /\ LoopInv
<1> SUFFICES ASSUME Init PROVE TypeOK /\ LoopInv
  OBVIOUS
<1>1. TypeOK /\ LinkInv BY BaseInit
<1>2. HonestInv
  <2>1. TellsInv BY BetweenTells DEF Init, TellsInv
  <2> QED BY <2>1, TellsIs
<1>3. BatchInv
  <2>1. ASSUME NEW t \in Tasks
        PROVE  TaskProper(answers, rows, tpc[t], job[t], mem[t], ask[t], iter[t])
    <3>1. tpc[t] = "idle" BY DEF Init
    <3> QED BY <3>1, ProperOver
  <2>2. \A a \in Assignments : SavedProper(answers, rows, a, conversation[a], waiting_action[a])
    BY DEF Init, SavedProper
  <2> QED BY <2>1, <2>2, ProperIs DEF ProperInv
<1>4. ASSUME NEW a \in Assignments, NEW H PROVE FitsAt(0, a, H)
  <2>1. Workers(a, H) = {} BY Numbers DEF Init, Workers, Working
  <2>2. Waits(a, H) \in BOOLEAN BY DEF Waits, Parked
  <2>3. One(Waits(a, H)) \in {0, 1} BY <2>2, OneIs
  <2>4. retries[a] = 0 BY DEF Init
  <2>5. Cardinality({}) = 0 BY FS_EmptySet
  <2>6. 0 + One(Waits(a, H)) + Cardinality({}) <= 1 + retries[a] BY <2>3, <2>4, <2>5
  <2> QED BY <2>1, <2>6 DEF FitsAt, Fits
<1>5. RunsFit
  <2>1. DOMAIN answers = {} BY DEF Init
  <2>2. \A act \in Acts : effects[act] = 0 BY DEF Init
  <2> QED BY <2>1, <2>2 DEF RunsFit
<1>6. UserFit /\ AssistantFit
  <2>1. \A a \in Assignments : turns[a].user = 0 /\ turns[a].assistant = 0 BY DEF Init
  <2> QED BY <1>4, <2>1 DEF UserFit, AssistantFit, FitsAt
<1>7. ApprovalInv BY DEF Init, ApprovalInv, Rows
<1> QED BY <1>1, <1>2, <1>3, <1>5, <1>6, <1>7, FitIsSo DEF FitIs, LoopInv

LEMMA LoopNext == TypeOK /\ LoopInv /\ [Next]_vars => TypeOK' /\ LoopInv'
<1> SUFFICES ASSUME TypeOK, LoopInv, [Next]_vars PROVE TypeOK' /\ LoopInv'
  OBVIOUS
<1>1. /\ LinkInv /\ HonestInv /\ BatchInv /\ RunsInv /\ UserInv /\ AssistantInv
      /\ ApprovalInv
  BY DEF LoopInv
<1>2. TypeOK' /\ LinkInv' BY <1>1, BaseNext
<1>3. HonestInv' BY <1>1, HonestNext
<1>4. BatchInv' BY <1>1, BatchNext
<1>5. RunsInv' BY <1>1, RunsNext
<1>6. UserInv' /\ AssistantInv' BY <1>1, UserNext, AssistantNext
<1>7. ApprovalInv' BY <1>1, <1>2, ApprovalNext
<1> QED BY <1>2, <1>3, <1>4, <1>5, <1>6, <1>7 DEF LoopInv

\* The rows, the locals of tasks and calls and the history hold what they
\* should, and a row that is referred to is there.
THEOREM TypeCorrect == Spec => []TypeOK
BY LoopInit, LoopNext, PTL DEF Spec

\* The inductive invariant: who works on what, that a loop state tells what
\* happened, that its batch is whole, and how many chances to work there are.
THEOREM LoopInvariant == Spec => []LoopInv
BY LoopInit, LoopNext, PTL DEF Spec

\* Nothing of a batch is skipped, answered twice or out of order, however the
\* batch is split over suspensions, drains, retries and crashes.
THEOREM BatchesAreAccounted == Spec => []BatchAccounted
<1>1. LoopInv => BatchAccounted BY DEF LoopInv, BatchInv, BatchAccounted, Sound
<1> QED BY <1>1, LoopInvariant, PTL

\* The LLM is told that an action was executed only if it was.
THEOREM OnlyWhatHappened == Spec => []ToldOnlyWhatHappened
<1>1. LoopInv => ToldOnlyWhatHappened
  BY DEF LoopInv, HonestInv, Honest, ToldOnlyWhatHappened
<1> QED BY <1>1, LoopInvariant, PTL

LEMMA FitsBounds ==
    ASSUME TypeOK, NEW a \in Assignments, NEW H, NEW n \in Nat, FitsAt(n, a, H)
    PROVE  n <= 1 + retries[a]
<1>1. Workers(a, H) \in SUBSET Tasks BY DEF Workers
<1>2. Cardinality(Workers(a, H)) \in Nat BY <1>1, CountTasks
<1>3. Waits(a, H) \in BOOLEAN BY DEF Waits, Parked
<1>4. One(Waits(a, H)) \in {0, 1} BY <1>3, OneIs
<1>5. retries[a] \in Nat BY DEF TypeOK, BoardType
<1>6. n + One(Waits(a, H)) + Cardinality(Workers(a, H)) <= 1 + retries[a] BY DEF FitsAt, Fits
<1> QED BY <1>2, <1>4, <1>5, <1>6

\* The loop runs an action that needs no approval at most once per attempt at its
\* assignment, whoever resumes it; and what the approvals API runs of a row, it
\* runs once for each time the row was approved.
THEOREM ActionsRunOnce == Spec => []OncePerAttempt
<1>1. ASSUME TypeOK, LoopInv, NEW n \in DOMAIN answers, NEW i \in DOMAIN answers[n].batch
      PROVE  effects[<<n, i>>] <= 1 + retries[answers[n].of]
  <2>1. RunsFit BY <1>1, FitIsSo DEF FitIs, LoopInv
  <2>2. PICK a \in Assignments : answers[n].of = a BY <1>1, AnswersAre
  <2>3. FitsAt(effects[<<n, i>>], a, WithLeft(<<n, i>>)) BY <1>1, <2>1, <2>2 DEF RunsFit
  <2>4. effects[<<n, i>>] \in Nat
    <3>1. n \in 1 .. MaxTurns /\ answers[n].batch \in Answers BY <1>1, AnswersAre, Numbers
    <3>2. i \in 1 .. Len(answers[n].batch) /\ Len(answers[n].batch) \in 1 .. MaxBatch
      BY <1>1, <3>1, ProposedType
    <3>3. <<n, i>> \in Acts BY <3>1, <3>2, Numbers DEF Acts
    <3> QED BY <1>1, <3>3 DEF TypeOK, PastType
  <2>5. effects[<<n, i>>] <= 1 + retries[a] BY <1>1, <2>3, <2>4, FitsBounds
  <2> QED BY <2>2, <2>5
<1>2. ASSUME TypeOK, LoopInv, NEW r \in Rows
      PROVE  rows[r].runs <= rows[r].approvals + One(rows[r].trust = "auto")
  <2>1. rows[r].runs + Cardinality(Approving(r))
           <= rows[r].approvals + One(rows[r].trust = "auto")
    BY <1>2 DEF LoopInv, ApprovalInv
  <2>2. Cardinality(Approving(r)) \in Nat
    <3>1. Approving(r) \in SUBSET Callers BY DEF Approving
    <3> QED BY <3>1, CountCallers
  <2>3. rows[r].runs \in Nat /\ rows[r].approvals \in Nat
    BY <1>2, RowIs DEF TypeOK, BoardType
  <2> DEFINE auto == rows[r].trust = "auto"
  <2>4. One(auto) \in {0, 1} BY OneIs
  <2> QED BY <2>1, <2>2, <2>3, <2>4
<1>3. TypeOK /\ LoopInv => OncePerAttempt BY <1>1, <1>2 DEF OncePerAttempt
<1> QED BY <1>3, TypeCorrect, LoopInvariant, PTL

\* An assignment adds its two turns to the transcript at most once per attempt.
THEOREM TurnsAreSaidOnce == Spec => []TurnsPerAttempt
<1>1. TypeOK /\ LoopInv => TurnsPerAttempt
  <2> SUFFICES ASSUME TypeOK, LoopInv, NEW a \in Assignments
               PROVE  /\ turns[a].user <= 1 + retries[a]
                      /\ turns[a].assistant <= 1 + retries[a]
    BY DEF TurnsPerAttempt
  <2>1. UserFit /\ AssistantFit BY FitIsSo DEF FitIs, LoopInv
  <2>2. turns[a].user \in Nat /\ turns[a].assistant \in Nat BY DEF TypeOK, PastType
  <2>3. FitsAt(turns[a].user, a, WithNews) /\ FitsAt(turns[a].assistant, a, Whatever)
    BY <2>1 DEF UserFit, AssistantFit
  <2> QED BY <2>2, <2>3, FitsBounds
<1> QED BY <1>1, TypeCorrect, LoopInvariant, PTL

-----------------------------------------------------------------------------
(* The lifecycle.                                                           *)

LEMMA TaskWrites ==
    ASSUME TypeOK, LinkInv, NEW t \in Tasks, tpc[t] # "idle",
           NEW s \in Lifecycle!Written, status' = [status EXCEPT ![job[t]] = s],
           UNCHANGED job \/ End(t), UNCHANGED <<retries, due>>
    PROVE  Lifecycle!Next
<1>1. PICK a \in Assignments : job[t] = a BY JobIs DEF TypeOK
<1>2. job' \in {job, [job EXCEPT ![t] = None]} BY DEF End
<1>3. Lifecycle!Write(a, t) BY <1>1, <1>2 DEF Lifecycle!Write
<1> QED BY <1>3 DEF Lifecycle!Next

LEMMA StepLives ==
    ASSUME TypeOK, LinkInv, NEW t \in Tasks, Claim(t) \/ Step(t)
    PROVE  Lifecycle!Next \/ UNCHANGED Lifecycle!life
<1>1. CASE Claim(t)
  <2>1. tpc[t] = "idle" /\ UNCHANGED <<retries, due>> BY <1>1 DEF Claim
  <2>2. job[t] = None BY <2>1 DEF LinkInv
  <2>3. PICK a \in Assignments : /\ status[a] \in Claimable
                                 /\ status' = [status EXCEPT ![a] = "claimed"]
                                 /\ job' = [job EXCEPT ![t] = a]
    BY <1>1 DEF Claim
  <2>4. Lifecycle!Claim(a, t) BY <2>1, <2>2, <2>3 DEF Lifecycle!Claim, Claimable
  <2> QED BY <2>4 DEF Lifecycle!Next
<1>2. CASE Fetch(t)
  <2>1. UNCHANGED <<status, retries, due>> BY <1>2 DEF Fetch, board
  <2>2. CASE End(t)
    <3>1. job' = [job EXCEPT ![t] = None] BY <2>2 DEF End
    <3>2. job' = [w \in Tasks |-> IF w \in {t} THEN None ELSE job[w]]
      BY <3>1 DEF TypeOK, TaskType
    <3>3. Lifecycle!Leave BY <2>1, <3>2 DEF Lifecycle!Leave
    <3> QED BY <3>3 DEF Lifecycle!Next
  <2>3. CASE ~ End(t)
    <3>1. UNCHANGED job BY <1>2, <2>3 DEF Fetch
    <3> QED BY <2>1, <3>1 DEF Lifecycle!life
  <2> QED BY <2>2, <2>3
<1>3. CASE Begin(t) \/ Suspend(t) \/ Complete(t) \/ Fail(t)
  <2>1. /\ tpc[t] # "idle" /\ UNCHANGED <<retries, due>>
        /\ UNCHANGED job \/ End(t)
        /\ \E s \in Lifecycle!Written : status' = [status EXCEPT ![job[t]] = s]
    <3>1. CASE Begin(t) BY <3>1 DEF Begin, Lifecycle!Written
    <3>2. CASE Suspend(t) BY <3>2 DEF Suspend, Lifecycle!Written
    <3>3. CASE Complete(t) BY <3>3 DEF Complete, Lifecycle!Written
    <3>4. CASE Fail(t) BY <3>4 DEF Fail, Lifecycle!Written
    <3> QED BY <1>3, <3>1, <3>2, <3>3, <3>4
  <2> QED BY <2>1, TaskWrites
<1>4. CASE Restore(t) \/ Think(t) \/ Act(t) \/ Fold(t)
  BY <1>4 DEF Restore, Think, Act, Fold, board, Lifecycle!life
<1> QED BY <1>1, <1>2, <1>3, <1>4 DEF Step

LEMMA CallLives ==
    ASSUME TypeOK, LinkInv, NEW c \in Callers, Approve(c) \/ Deny(c) \/ Drain(c) \/ Reply(c)
    PROVE  Lifecycle!Next \/ UNCHANGED Lifecycle!life
<1>1. UNCHANGED <<retries, job, due>>
  BY DEF Approve, Deny, Drain, Reply, Execute, Record, Find, Mark, ListPending, CascadeDeny,
         board, task
<1>2. CASE Drain(c)
  <2>1. status' = [a \in Assignments |-> IF status[a] \in Drainable THEN "failed" ELSE status[a]]
    BY <1>2 DEF Drain
  <2>2. Lifecycle!Drain BY <1>1, <2>1 DEF Lifecycle!Drain, Lifecycle!Live, Drainable
  <2> QED BY <2>2 DEF Lifecycle!Next
<1>3. CASE Mark(c)
  <2>1. cpc[c] = "mark" /\ found[c] \in Assignments BY <1>3 DEF Mark, LinkInv
  <2>2. \/ UNCHANGED status
        \/ /\ status[found[c]] = "waiting_confirmation"
           /\ status' = [status EXCEPT ![found[c]] = "resumable"]
    BY <1>3 DEF Mark
  <2>3. CASE UNCHANGED status BY <1>1, <2>3 DEF Lifecycle!life
  <2>4. CASE /\ status[found[c]] = "waiting_confirmation"
             /\ status' = [status EXCEPT ![found[c]] = "resumable"]
    <3>1. Lifecycle!Resume(found[c]) BY <1>1, <2>4 DEF Lifecycle!Resume
    <3> QED BY <2>1, <3>1 DEF Lifecycle!Next
  <2> QED BY <2>2, <2>3, <2>4
<1>4. CASE UNCHANGED status BY <1>1, <1>4 DEF Lifecycle!life
<1>5. UNCHANGED status \/ Drain(c) \/ Mark(c)
  BY DEF Approve, Deny, Reply, Execute, Record, Find, ListPending, CascadeDeny, board
<1> QED BY <1>2, <1>3, <1>4, <1>5

LEMMA SweepLives ==
    ASSUME TypeOK, LinkInv, RetryScan \/ (\E a \in Assignments : RetryOne(a)) \/ Crash
    PROVE  Lifecycle!Next
<1>1. CASE RetryScan
  <2>1. Lifecycle!Sweep BY <1>1 DEF RetryScan, Lifecycle!Sweep, board, task
  <2> QED BY <2>1 DEF Lifecycle!Next
<1>2. ASSUME NEW a \in Assignments, RetryOne(a) PROVE Lifecycle!Next
  <2>1. Lifecycle!Retry(a) BY <1>2 DEF RetryOne, Lifecycle!Retry, task
  <2> QED BY <2>1 DEF Lifecycle!Next
<1>3. CASE Crash
  <2>1. /\ job' = [w \in Tasks |-> IF w \in Tasks THEN None ELSE job[w]]
        /\ due' = {} /\ UNCHANGED <<status, retries>>
    BY <1>3 DEF Crash, board
  <2>2. Lifecycle!Leave BY <2>1 DEF Lifecycle!Leave
  <2> QED BY <2>2 DEF Lifecycle!Next
<1> QED BY <1>1, <1>2, <1>3

\* The tool loop, its approvals, drains, retries and crashes keep the lifecycle
\* of an assignment: it is worked on only by who claimed it, resumed only while
\* it waits, and put back to pending only by a sweep that saw it failed.
THEOREM ImplementsLifecycle == Spec => KeepsTheLifecycle
<1>1. Init => Lifecycle!Init BY DEF Init, Lifecycle!Init
<1>2. TypeOK /\ LoopInv /\ [Next]_vars => [Lifecycle!Next]_(Lifecycle!life)
  <2> SUFFICES ASSUME TypeOK, LoopInv, [Next]_vars
               PROVE  Lifecycle!Next \/ UNCHANGED Lifecycle!life
    OBVIOUS
  <2>1. LinkInv BY DEF LoopInv
  <2>2. CASE UNCHANGED vars BY <2>2 DEF vars, board, task, Lifecycle!life
  <2> QED BY <2>1, <2>2, StepLives, CallLives, SweepLives DEF Next, Quiescent
<1> QED BY <1>1, <1>2, TypeCorrect, LoopInvariant, PTL
    DEF Spec, KeepsTheLifecycle, Lifecycle!Spec
=============================================================================
