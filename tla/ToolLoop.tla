------------------------------ MODULE ToolLoop ------------------------------
(***************************************************************************)
(* One agent's tool-use loop and the approvals queue it waits on: the rows  *)
(* of event_assignments and pending_actions, the tasks that process claimed *)
(* assignments, the API calls that approve, deny and drain, the retry sweep *)
(* and a crash.  Which assignment is claimed when is module AgentRuntime;   *)
(* here a claim may come at any time.                                       *)
(*                                                                          *)
(* An action is the code up to an await whose result or effect another      *)
(* coroutine can tell: an LLM turn, one proposed action, one UPDATE.        *)
(* A raise in a task is a WebSocket broadcast that failed (see EventBus) or *)
(* the LLM; Executor.execute itself never raises, it returns an error.      *)
(***************************************************************************)
EXTENDS Naturals, FiniteSets, Sequences

CONSTANTS
    Assignments,  \* the agent's rows of event_assignments
    Tasks,        \* slots for _process_with_semaphore tasks
    Callers,      \* slots for concurrent API calls
    None,
    MaxIters,     \* max_tool_iterations
    MaxRetries,   \* max_retries of the events
    Answers,      \* batches the LLM may propose: sequences of action kinds
    MaxBatch,     \* bound: the longest of them
    MaxTurns,     \* bound: LLM answers with a batch
    MaxRows,      \* bound: rows of pending_actions
    MaxCalls,     \* bound: API calls
    MaxFaults,    \* bound: broadcasts that raise
    MaxCrashes    \* bound: deaths of the daemon

Kinds == {"auto", "confirm", "refused"}  \* refused: denied, unknown or passive

\* <<n, i>> is the i-th action of the n-th answer.
Acts == (1 .. MaxTurns) \X (1 .. MaxBatch)

\* The loop state: is the event in the transcript, is a batch being executed,
\* the actions of it done so far, what the LLM will be told of each, and the
\* actions left.
LoopStates == [noted : BOOLEAN, asked : BOOLEAN, partial : Seq(Acts),
               told : Seq({"executed", "denied"}), remaining : Seq(Acts)]

ASSUME LoopAssumption ==
    /\ IsFiniteSet(Tasks) /\ IsFiniteSet(Callers)
    /\ {MaxIters, MaxRetries, MaxBatch, MaxTurns, MaxRows, MaxCalls, MaxFaults,
        MaxCrashes} \subseteq Nat
    /\ Answers \subseteq Seq(Kinds)
    /\ \A batch \in Answers : Len(batch) \in 1 .. MaxBatch
    /\ None \notin Assignments \cup Nat \cup LoopStates

VARIABLES
    status, retries, iteration, conversation, waiting_action,  \* assignments
    event_status,                                 \* of the assignment's event
    rows,       \* pending_actions, in order; history in a row: its runs, by the
                \* loop that recorded it or by approvals, and its approvals
    tpc, job, mem, iter, ask,                     \* locals of the tasks
    cpc, target, found, todo,                     \* locals of the API calls
    due,                                          \* local of the retry sweep
    answers,  \* history: the batches proposed, and for which assignment
    effects,  \* history: how often an action was run by the loop
    turns,    \* memories: the turns each assignment added to the transcript
    calls, faults, crashes                        \* environment

board == <<status, retries, iteration, conversation, waiting_action,
           event_status>>
task  == <<tpc, job, mem, iter, ask>>
call  == <<cpc, target, found, todo>>
past  == <<answers, effects, turns>>
env   == <<calls, faults, crashes>>
vars  == <<board, rows, task, call, due, past, env>>

Kind(act) == answers[act[1]].batch[act[2]]
Batch(n)  == [i \in DOMAIN answers[n].batch |-> <<n, i>>]

Fresh == [noted |-> FALSE, asked |-> FALSE, partial |-> << >>, told |-> << >>,
          remaining |-> << >>]

\* The state between two batches.
Between(m) == [Fresh EXCEPT !.noted = m.noted]

Statuses == {"pending", "claimed", "running", "waiting_confirmation",
             "resumable", "completed", "failed"}
Claimable == {"pending", "resumable"}
Drainable == {"pending", "claimed", "waiting_confirmation", "resumable"}

Rows == 1 .. Len(rows)

Init ==
    /\ status = [a \in Assignments |-> "pending"]
    /\ retries = [a \in Assignments |-> 0]
    /\ iteration = [a \in Assignments |-> 0]
    /\ conversation = [a \in Assignments |-> None]
    /\ waiting_action = [a \in Assignments |-> None]
    /\ event_status = [a \in Assignments |-> "assigned"]
    /\ rows = << >>
    /\ tpc = [t \in Tasks |-> "idle"]
    /\ job = [t \in Tasks |-> None]
    /\ mem = [t \in Tasks |-> Fresh]
    /\ iter = [t \in Tasks |-> 0]
    /\ ask = [t \in Tasks |-> None]
    /\ cpc = [c \in Callers |-> "idle"]
    /\ target = [c \in Callers |-> None]
    /\ found = [c \in Callers |-> None]
    /\ todo = [c \in Callers |-> {}]
    /\ due = {}
    /\ answers = << >>
    /\ effects = [act \in Acts |-> 0]
    /\ turns = [a \in Assignments |-> [user |-> 0, assistant |-> 0]]
    /\ calls = 0 /\ faults = 0 /\ crashes = 0

-----------------------------------------------------------------------------
(* Helpers.                                                                 *)

Raise == faults < MaxFaults /\ faults' = faults + 1

Go(t, phase) == tpc' = [tpc EXCEPT ![t] = phase]

\* The task is over; its locals are gone.
End(t) ==
    /\ Go(t, "idle")
    /\ job' = [job EXCEPT ![t] = None]
    /\ mem' = [mem EXCEPT ![t] = Fresh]
    /\ iter' = [iter EXCEPT ![t] = 0]
    /\ ask' = [ask EXCEPT ![t] = None]

Answer(m, act, told) == [m EXCEPT !.partial = Append(@, act),
                                  !.told = Append(@, told)]

\* The first of the actions left is taken.
Popped(m) == [m EXCEPT !.remaining = Tail(@)]

Save(a, m, i, waiting) ==
    /\ conversation' = [conversation EXCEPT ![a] = m]
    /\ iteration' = [iteration EXCEPT ![a] = i]
    /\ waiting_action' = [waiting_action EXCEPT ![a] = waiting]

-----------------------------------------------------------------------------
(* claim_next: an UPDATE, then a SELECT of the row just claimed.            *)

Claim(t) ==
    /\ tpc[t] = "idle"
    /\ \A u \in Tasks : tpc[u] # "fetch"
    /\ \E a \in Assignments :
          /\ status[a] \in Claimable
          /\ status' = [status EXCEPT ![a] = "claimed"]
          /\ job' = [job EXCEPT ![t] = a]
    /\ Go(t, "fetch")
    /\ UNCHANGED <<retries, iteration, conversation, waiting_action,
                   event_status, rows, mem, iter, ask, call, due, past, env>>

\* A drain between the two leaves nothing to fetch.
Fetch(t) ==
    /\ tpc[t] = "fetch"
    /\ LET a == job[t]
       IN IF status[a] # "claimed" THEN End(t)
          ELSE /\ Go(t, "start")
               /\ mem' = [mem EXCEPT ![t] = IF conversation[a] = None THEN Fresh
                                            ELSE conversation[a]]
               /\ iter' = [iter EXCEPT ![t] = iteration[a]]
               /\ ask' = [ask EXCEPT ![t] = waiting_action[a]]
               /\ UNCHANGED job
    /\ UNCHANGED <<board, rows, call, due, past, env>>

\* The first lines of _process_assignment, outside its try: if the broadcast
\* raises, the task is gone and the row stays running.
Begin(t) ==
    /\ tpc[t] = "start"
    /\ status' = [status EXCEPT ![job[t]] = "running"]
    /\ event_status' = [event_status EXCEPT ![job[t]] = "processing"]
    /\ \/ Go(t, "restore") /\ UNCHANGED <<job, mem, iter, ask, faults>>
       \/ Raise /\ End(t)
    /\ UNCHANGED <<retries, iteration, conversation, waiting_action, rows,
                   call, due, past, calls, crashes>>

\* Mutant: the outcome of the awaited action is not harvested.
Harvested_Not(m, r) == m

\* _init_loop_state: a resumed loop appends the outcome of the action it was
\* suspended on, as it stands now.
Harvested(m, r) ==
    IF r = None THEN m
    ELSE Answer(m, rows[r].act,
                IF rows[r].status = "completed" THEN "executed" ELSE "denied")

\* Mutant: the loop state does not tell that the event is in the transcript.
Unnoted_BeforeFold(m, i) == i = 0
Unnoted(m, i) == i = 0 /\ ~m.noted

\* The user's turn is added to the transcript once.
Restore(t) ==
    LET m == Harvested(mem[t], ask[t])
        new == Unnoted(m, iter[t])
    IN  /\ tpc[t] = "restore"
        /\ mem' = [mem EXCEPT ![t] = [m EXCEPT !.noted = @ \/ new]]
        /\ turns' = [turns EXCEPT ![job[t]].user = IF new THEN @ + 1 ELSE @]
        /\ ask' = [ask EXCEPT ![t] = None]
        /\ Go(t, "loop")
        /\ UNCHANGED <<board, rows, job, iter, call, due, answers, effects, env>>

-----------------------------------------------------------------------------
(* The loop.                                                                *)

\* One LLM turn: it raises, or answers with nothing more to do, or proposes a
\* batch, which only counts below the iteration cap.
Think(t) ==
    /\ tpc[t] = "loop"
    /\ mem[t].remaining = << >> /\ ~ mem[t].asked
    /\ \/ tpc' \in {[tpc EXCEPT ![t] = "fail"], [tpc EXCEPT ![t] = "complete"]}
          /\ UNCHANGED <<mem, answers>>
       \/ /\ iter[t] < MaxIters
          /\ Len(answers) < MaxTurns
          /\ \E batch \in Answers :
                /\ answers' = Append(answers, [of |-> job[t], batch |-> batch])
                /\ mem' = [mem EXCEPT ![t] =
                             [Between(@) EXCEPT !.asked = TRUE,
                                !.remaining = [i \in DOMAIN batch |->
                                                  <<Len(answers) + 1, i>>]]]
          /\ UNCHANGED tpc
    /\ UNCHANGED <<board, rows, job, iter, ask, call, due, effects, turns, env>>

\* _execute_batch pops the next action and _execute_action runs it, or reports
\* by a system event why not.
Refuse(t, act) ==
    /\ Kind(act) = "refused"
    /\ mem' = [mem EXCEPT ![t] = Answer(Popped(@), act, "denied")]
    /\ \/ UNCHANGED <<tpc, faults>>
       \/ Raise /\ Go(t, "fail")
    /\ UNCHANGED <<ask, rows, effects>>

\* The execution, whenever it ends: nobody else can tell how far it is.  It leaves
\* a row, which the approvals API takes like any other; the broadcast that
\* follows may raise.
Perform(t, act) ==
    /\ Kind(act) = "auto"
    /\ Len(rows) < MaxRows
    /\ effects' = [effects EXCEPT ![act] = @ + 1]
    /\ rows' = Append(rows, [act |-> act, trust |-> "auto", status |-> "completed",
                             runs |-> 1, approvals |-> 0])
    /\ mem' = [mem EXCEPT ![t] = Answer(Popped(@), act, "executed")]
    /\ \/ UNCHANGED <<tpc, faults>>
       \/ Raise /\ Go(t, "fail")
    /\ UNCHANGED ask

\* Queue it for a human; from here on it can be approved or denied, although
\* the assignment is not suspended yet.
Propose(t, act) ==
    /\ Kind(act) = "confirm"
    /\ Len(rows) < MaxRows
    /\ rows' = Append(rows, [act |-> act, trust |-> "confirm",
                             status |-> "waiting_confirmation",
                             runs |-> 0, approvals |-> 0])
    /\ mem' = [mem EXCEPT ![t] = Popped(@)]
    /\ ask' = [ask EXCEPT ![t] = Len(rows) + 1]
    /\ \/ Go(t, "suspend") /\ UNCHANGED faults
       \/ Raise /\ Go(t, "fail")
    /\ UNCHANGED effects

Act(t) ==
    /\ tpc[t] = "loop"
    /\ mem[t].remaining # << >>
    /\ LET act == Head(mem[t].remaining)
       IN Refuse(t, act) \/ Perform(t, act) \/ Propose(t, act)
    /\ UNCHANGED <<board, job, iter, call, due, answers, turns, calls, crashes>>

\* Mutant: the loop state is saved as it was when the batch began.
Suspend_Rewinds(t) ==
    /\ tpc[t] = "suspend"
    /\ status' = [status EXCEPT ![job[t]] = "waiting_confirmation"]
    /\ Save(job[t], [Between(mem[t]) EXCEPT !.asked = TRUE,
                                  !.remaining = Batch(rows[ask[t]].act[1])],
            iter[t], ask[t])
    /\ End(t)
    /\ UNCHANGED <<retries, event_status, rows, call, due, past, env>>

\* suspend(): whatever the row holds by now is overwritten.
Suspend(t) ==
    /\ tpc[t] = "suspend"
    /\ status' = [status EXCEPT ![job[t]] = "waiting_confirmation"]
    /\ Save(job[t], mem[t], iter[t], ask[t])
    /\ \/ End(t) /\ UNCHANGED faults
       \/ Raise /\ Go(t, "fail") /\ UNCHANGED <<job, mem, iter, ask>>
    /\ UNCHANGED <<retries, event_status, rows, call, due, past, calls,
                   crashes>>

\* The batch is complete: fold it into the messages and save.
Fold(t) ==
    /\ tpc[t] = "loop"
    /\ mem[t].remaining = << >> /\ mem[t].asked
    /\ mem' = [mem EXCEPT ![t] = Between(@)]
    /\ iter' = [iter EXCEPT ![t] = @ + 1]
    /\ Save(job[t], Between(mem[t]), iter[t] + 1, None)
    /\ UNCHANGED <<status, retries, event_status, rows, tpc, job, ask, call,
                   due, past, env>>

\* The answer joins the transcript. The last broadcast is inside the try: if it
\* raises, a completed assignment is marked failed after all.
Complete(t) ==
    /\ tpc[t] = "complete"
    /\ turns' = [turns EXCEPT ![job[t]].assistant = @ + 1]
    /\ status' = [status EXCEPT ![job[t]] = "completed"]
    /\ event_status' = [event_status EXCEPT ![job[t]] = "completed"]
    /\ \/ End(t) /\ UNCHANGED faults
       \/ Raise /\ Go(t, "fail") /\ UNCHANGED <<job, mem, iter, ask>>
    /\ UNCHANGED <<retries, iteration, conversation, waiting_action, rows,
                   call, due, answers, effects, calls, crashes>>

Fail(t) ==
    /\ tpc[t] = "fail"
    /\ status' = [status EXCEPT ![job[t]] = "failed"]
    /\ event_status' = [event_status EXCEPT ![job[t]] = "failed"]
    /\ End(t)
    /\ UNCHANGED <<retries, iteration, conversation, waiting_action, rows,
                   call, due, past, env>>

Step(t) == \/ Fetch(t) \/ Begin(t) \/ Restore(t) \/ Think(t) \/ Act(t)
           \/ Suspend(t) \/ Fold(t) \/ Complete(t) \/ Fail(t)

-----------------------------------------------------------------------------
(* The approvals API.  approve() and deny() of the repository change only a *)
(* row that is waiting, but return any row whether they changed it or not.  *)

Enter(c, phase) ==
    /\ cpc[c] = "idle"
    /\ calls < MaxCalls /\ calls' = calls + 1
    /\ cpc' = [cpc EXCEPT ![c] = phase]

Resolve(r, how) ==
    rows' = [rows EXCEPT
        ![r].status = IF @ = "waiting_confirmation" THEN how ELSE @,
        ![r].approvals = IF how = "approved" THEN @ + 1 ELSE @]

\* Mutant: the row is completed before the action has run.
Approve_Early(c) ==
    /\ Enter(c, "execute")
    /\ \E r \in Rows : /\ Resolve(r, "completed")
                       /\ target' = [target EXCEPT ![c] = r]
    /\ UNCHANGED <<board, task, found, todo, due, past, faults, crashes>>

Approve(c) ==
    /\ Enter(c, "execute")
    /\ \E r \in Rows : /\ Resolve(r, "approved")
                       /\ target' = [target EXCEPT ![c] = r]
    /\ UNCHANGED <<board, task, found, todo, due, past, faults, crashes>>

\* The execution, whenever it ends.
Execute(c) ==
    /\ cpc[c] = "execute"
    /\ rows' = [rows EXCEPT ![target[c]].runs = @ + 1]
    /\ cpc' = [cpc EXCEPT ![c] = "record"]
    /\ UNCHANGED <<board, task, target, found, todo, due, past, env>>

\* The call is over.
Close(c) ==
    /\ cpc' = [cpc EXCEPT ![c] = "idle"]
    /\ target' = [target EXCEPT ![c] = None]
    /\ found' = [found EXCEPT ![c] = None]

\* Mutant: the waiting assignment is not resumed.
Record_Silent(c) ==
    /\ cpc[c] = "record"
    /\ rows' = [rows EXCEPT ![target[c]].status = "completed"]
    /\ Close(c)
    /\ UNCHANGED <<board, task, todo, due, past, env>>

\* update_result and the broadcast, which may end the call.
Record(c) ==
    /\ cpc[c] = "record"
    /\ rows' = [rows EXCEPT ![target[c]].status = "completed"]
    /\ \/ /\ cpc' = [cpc EXCEPT ![c] = "find"]
          /\ UNCHANGED <<target, found, faults>>
       \/ Raise /\ Close(c)
    /\ UNCHANGED <<board, task, todo, due, past, calls, crashes>>

\* deny-pending is a sequence of these, over rows listed beforehand.
Deny(c) ==
    /\ \E r \in Rows :
          /\ Resolve(r, "denied")
          /\ \/ /\ Enter(c, "find")
                /\ target' = [target EXCEPT ![c] = r]
                /\ UNCHANGED faults
             \/ /\ Enter(c, "idle")
                /\ Raise
                /\ UNCHANGED target
    /\ UNCHANGED <<board, task, found, todo, due, past, crashes>>

\* _resume_if_waiting looks the assignment up, whatever its status.
Find(c) ==
    /\ cpc[c] = "find"
    /\ \/ \E a \in Assignments :
             /\ waiting_action[a] = target[c]
             /\ found' = [found EXCEPT ![c] = a]
             /\ cpc' = [cpc EXCEPT ![c] = "mark"]
             /\ UNCHANGED target
       \/ /\ \A a \in Assignments : waiting_action[a] # target[c]
          /\ Close(c)
    /\ UNCHANGED <<board, rows, task, todo, due, past, env>>

\* Mutant: the status is not tested.
Mark_Ungated(c) ==
    /\ cpc[c] = "mark"
    /\ status' = [status EXCEPT ![found[c]] = "resumable"]
    /\ Close(c)
    /\ UNCHANGED <<retries, iteration, conversation, waiting_action,
                   event_status, rows, task, todo, due, past, env>>

Mark(c) ==
    /\ cpc[c] = "mark"
    /\ status' = IF status[found[c]] = "waiting_confirmation"
                 THEN [status EXCEPT ![found[c]] = "resumable"] ELSE status
    /\ Close(c)
    /\ UNCHANGED <<retries, iteration, conversation, waiting_action,
                   event_status, rows, task, todo, due, past, env>>

\* cancel-pending fails the assignments, then lists and denies the actions.
Drain(c) ==
    /\ Enter(c, "list")
    /\ status' = [a \in Assignments |-> IF status[a] \in Drainable
                                        THEN "failed" ELSE status[a]]
    /\ UNCHANGED <<retries, iteration, conversation, waiting_action,
                   event_status, rows, task, target, found, todo, due, past,
                   faults, crashes>>

ListPending(c) ==
    /\ cpc[c] = "list"
    /\ todo' = [todo EXCEPT ![c] =
                  {r \in Rows : rows[r].status = "waiting_confirmation"}]
    /\ cpc' = [cpc EXCEPT ![c] = "cascade"]
    /\ UNCHANGED <<board, rows, task, target, found, due, past, env>>

CascadeDeny(c) ==
    /\ cpc[c] = "cascade"
    /\ \/ \E r \in todo[c] :
             /\ \A other \in todo[c] : r <= other
             /\ Resolve(r, "denied")
             /\ todo' = [todo EXCEPT ![c] = @ \ {r}]
             /\ UNCHANGED <<cpc, target, found>>
       \/ todo[c] = {} /\ Close(c) /\ UNCHANGED <<rows, todo>>
    /\ UNCHANGED <<board, task, due, past, env>>

Reply(c) == \/ Execute(c) \/ Record(c) \/ Find(c) \/ Mark(c)
            \/ ListPending(c) \/ CascadeDeny(c)

-----------------------------------------------------------------------------
(* The retry sweep reads the failed rows, then updates them one by one, by  *)
(* id alone; the conversation stays.  A crash ends all coroutines.          *)

RetryScan ==
    /\ due = {}
    /\ due' = {a \in Assignments : status[a] = "failed" /\ retries[a] < MaxRetries}
    /\ due' # {}
    /\ UNCHANGED <<board, rows, task, call, past, env>>

RetryOne(a) ==
    /\ a \in due
    /\ status' = [status EXCEPT ![a] = "pending"]
    /\ retries' = [retries EXCEPT ![a] = @ + 1]
    /\ due' = due \ {a}
    /\ UNCHANGED <<iteration, conversation, waiting_action, event_status, rows,
                   task, call, past, env>>

Crash ==
    /\ crashes < MaxCrashes /\ crashes' = crashes + 1
    /\ tpc' = [t \in Tasks |-> "idle"]
    /\ job' = [t \in Tasks |-> None]
    /\ mem' = [t \in Tasks |-> Fresh]
    /\ iter' = [t \in Tasks |-> 0]
    /\ ask' = [t \in Tasks |-> None]
    /\ cpc' = [c \in Callers |-> "idle"]
    /\ target' = [c \in Callers |-> None]
    /\ found' = [c \in Callers |-> None]
    /\ todo' = [c \in Callers |-> {}]
    /\ due' = {}
    /\ UNCHANGED <<board, rows, past, calls, faults>>

Executing(t) == /\ tpc[t] = "loop" /\ mem[t].remaining # << >>
                /\ Kind(Head(mem[t].remaining)) = "auto"

\* Nothing is running, or what is hangs in the executor: the daemon may stay so
\* forever.
Quiescent ==
    /\ \A t \in Tasks : tpc[t] = "idle" \/ Executing(t)
    /\ \A c \in Callers : cpc[c] \in {"idle", "execute"}
    /\ UNCHANGED vars

Next ==
    \/ \E t \in Tasks : Claim(t) \/ Step(t)
    \/ \E c \in Callers : Approve(c) \/ Deny(c) \/ Drain(c) \/ Reply(c)
    \/ RetryScan \/ (\E a \in Assignments : RetryOne(a))
    \/ Crash \/ Quiescent

Spec == Init /\ [][Next]_vars

\* Calls that can run do run, except that Executor.execute may never come to an
\* end; nor may a task, whose LLM may stream on forever. Claims, calls and sweeps
\* need not come.
Fairness == /\ \A c \in Callers : WF_vars(cpc[c] # "execute" /\ Reply(c))
            /\ \A a \in Assignments : WF_vars(RetryOne(a))

FairSpec == Spec /\ Fairness
=============================================================================
