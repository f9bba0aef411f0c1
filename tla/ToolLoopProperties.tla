------------------------- MODULE ToolLoopProperties -------------------------
(***************************************************************************)
(* What the tool loop and the approvals queue must and must not do, however *)
(* calls, drains, retries, failed broadcasts and crashes fall between the   *)
(* steps of the loop.                                                       *)
(***************************************************************************)
EXTENDS ToolLoop

Row == [act : Acts, trust : {"auto", "confirm"},
        status : {"waiting_confirmation", "approved", "denied", "completed"},
        runs : Nat, approvals : Nat]

BoardType ==
    /\ status \in [Assignments -> Statuses]
    /\ retries \in [Assignments -> Nat]
    /\ iteration \in [Assignments -> Nat]
    /\ conversation \in [Assignments -> LoopStates \cup {None}]
    /\ waiting_action \in [Assignments -> Rows \cup {None}]
    /\ event_status \in [Assignments -> {"assigned", "processing", "completed", "failed"}]
    /\ rows \in Seq(Row)

TaskType ==
    /\ tpc \in [Tasks -> {"idle", "fetch", "start", "restore", "loop", "suspend",
                         "complete", "fail"}]
    /\ job \in [Tasks -> Assignments \cup {None}]
    /\ mem \in [Tasks -> LoopStates]
    /\ iter \in [Tasks -> Nat]
    /\ ask \in [Tasks -> Rows \cup {None}]

CallType ==
    /\ cpc \in [Callers -> {"idle", "execute", "record", "find", "mark", "list", "cascade"}]
    /\ target \in [Callers -> Rows \cup {None}]
    /\ found \in [Callers -> Assignments \cup {None}]
    /\ todo \in [Callers -> SUBSET Rows]
    /\ due \in SUBSET Assignments

PastType ==
    /\ answers \in Seq([of : Assignments, batch : Answers])
    /\ Len(answers) <= MaxTurns
    /\ effects \in [Acts -> Nat]
    /\ turns \in [Assignments -> [user : Nat, assistant : Nat]]
    /\ calls \in Nat /\ faults \in Nat /\ crashes \in Nat

\* The rows, the locals of tasks and calls and the history hold what they
\* should; a row that is referred to is there.
TypeOK == BoardType /\ TaskType /\ CallType /\ PastType

Asking(r) == IF r = None THEN << >> ELSE <<rows[r].act>>

\* A batch: the actions done, the one a human is asked about and the ones left.
All(m, r) == m.partial \o Asking(r) \o m.remaining

\* It is the batch the LLM proposed, each action once and in order.
Whole(m, r) == IF m.asked THEN /\ All(m, r) # << >>
                               /\ All(m, r) = Batch(All(m, r)[1][1])
                          ELSE All(m, r) = << >>

\* No action of a batch is skipped, answered twice or answered out of order,
\* although the batch is split over suspensions, saved, restored, drained,
\* retried and picked up by another task.
BatchAccounted ==
    /\ \A t \in Tasks :
          tpc[t] \in {"restore", "loop", "suspend"} => Whole(mem[t], ask[t])
    /\ \A a \in Assignments :
          conversation[a] # None => Whole(conversation[a], waiting_action[a])

\* The LLM is told that an action was executed only if it was: run at once, or
\* run by an approval of a row of that very action.
Done == {act \in Acts : \/ effects[act] > 0
                         \/ \E r \in Rows : rows[r].act = act /\ rows[r].runs > 0}

Told(m) == \A i \in DOMAIN m.told : m.told[i] = "executed" => m.partial[i] \in Done

ToldOnlyWhatHappened == \A t \in Tasks : Told(mem[t])

\* The loop runs an action that needs no approval at most once per attempt: a
\* suspension never repeats it, only a retry can, because it keeps the saved
\* conversation.  Everything else that is run answers an approval: the action of a
\* row once for each time it was approved, also that of a row the loop left of an
\* action it had run, which the API approves and executes as well.
One(holds) == IF holds THEN 1 ELSE 0

OncePerAttempt ==
    /\ \A n \in DOMAIN answers : \A i \in DOMAIN answers[n].batch :
          effects[<<n, i>>] <= 1 + retries[answers[n].of]
    /\ \A r \in Rows :
          rows[r].runs <= rows[r].approvals + One(rows[r].trust = "auto")

\* An assignment adds the user's turn and the assistant's turn to the shared
\* transcript at most once per attempt: a suspension, whichever task picks it
\* up, never tells the model of one event twice (user_turn_persisted).
TurnsPerAttempt ==
    \A a \in Assignments :
        /\ turns[a].user <= 1 + retries[a]
        /\ turns[a].assistant <= 1 + retries[a]

\* Assignments follow their lifecycle.
Lifecycle == INSTANCE AssignmentLifecycle WITH
                 state <- status, attempts <- retries, work <- job,
                 swept <- due, Workers <- Tasks, Idle <- None

KeepsTheLifecycle == Lifecycle!Spec

\* A denial of the action an assignment is suspended on, and an approval once the
\* action has been executed, get the assignment going again, unless a broadcast
\* fails or the daemon dies.  Nothing bounds the execution itself: while it hangs,
\* the assignment waits.
DecisionResumes ==
    \A a \in Assignments, r \in 1 .. MaxRows :
        /\ status[a] = "waiting_confirmation" /\ waiting_action[a] = r
        /\ \E c \in Callers : target[c] = r /\ cpc[c] # "execute"
        ~> \/ status[a] # "waiting_confirmation" \/ waiting_action[a] # r
           \/ faults > 0 \/ crashes > 0

-----------------------------------------------------------------------------
(* The inductive invariant behind the safety properties above.              *)

\* A call works on a row, a task on an assignment; what is called completed has
\* been run.
LinkInv ==
    /\ \A t \in Tasks : tpc[t] = "idle" <=> job[t] = None
    /\ \A c \in Callers :
          /\ cpc[c] \in {"execute", "record", "find", "mark"} => target[c] \in Rows
          /\ cpc[c] = "mark" => found[c] \in Assignments
          /\ cpc[c] = "record" => rows[target[c]].runs > 0
    /\ \A r \in Rows : rows[r].status = "completed" => rows[r].runs > 0

\* A loop state of an assignment: it tells what happened.
Honest(m) == Len(m.told) = Len(m.partial) /\ Told(m)

HonestInv ==
    /\ \A t \in Tasks : Honest(mem[t])
    /\ \A a \in Assignments : conversation[a] # None => Honest(conversation[a])

\* Its batch is whole, and of an answer given to the assignment.
Sound(a, m, r) ==
    /\ Whole(m, r)
    /\ m.asked => /\ All(m, r)[1][1] \in DOMAIN answers
                  /\ answers[All(m, r)[1][1]].of = a

BatchInv ==
    /\ \A t \in Tasks :
          /\ tpc[t] \in {"start", "restore", "loop", "suspend"} =>
                Sound(job[t], mem[t], ask[t])
          /\ tpc[t] = "loop" => ask[t] = None
          /\ tpc[t] = "suspend" => ask[t] # None
          /\ tpc[t] = "complete" => mem[t].remaining = << >>
          /\ tpc[t] \in {"loop", "suspend", "complete"} => ~ Unnoted(mem[t], iter[t])
    /\ \A a \in Assignments :
          IF conversation[a] = None
          THEN waiting_action[a] = None
          ELSE Sound(a, conversation[a], waiting_action[a])

\* The chances to work on an assignment: one while it waits to be claimed or
\* resumed, with the loop state that is saved, and one for each task that has
\* it. Only a retry adds one.
Parked(a) == status[a] \in {"pending", "resumable", "waiting_confirmation"}

Saved(a) == IF conversation[a] = None THEN Fresh ELSE conversation[a]

Working(t, a) == /\ job[t] = a
                 /\ tpc[t] = "fetch" => status[a] = "claimed"
                 /\ tpc[t] # "fail"

State(t)   == IF tpc[t] = "fetch" THEN Saved(job[t]) ELSE mem[t]
IterOf(t)  == IF tpc[t] = "fetch" THEN iteration[job[t]] ELSE iter[t]
Left(m)    == {m.remaining[i] : i \in DOMAIN m.remaining}

\* What was done and the chances to do it are not more than the attempts.
RunsInv ==
    /\ \A act \in Acts : act[1] \notin DOMAIN answers => effects[act] = 0
    /\ \A n \in DOMAIN answers : \A i \in DOMAIN answers[n].batch :
          LET a == answers[n].of
          IN  effects[<<n, i>>] + One(Parked(a) /\ <<n, i>> \in Left(Saved(a)))
                  + Cardinality({t \in Tasks : Working(t, a) /\ <<n, i>> \in Left(State(t))})
                <= 1 + retries[a]

UserInv ==
    \A a \in Assignments :
        turns[a].user + One(Parked(a) /\ Unnoted(Saved(a), iteration[a]))
            + Cardinality({t \in Tasks : Working(t, a) /\ Unnoted(State(t), IterOf(t))})
          <= 1 + retries[a]

AssistantInv ==
    \A a \in Assignments :
        turns[a].assistant + One(Parked(a)) + Cardinality({t \in Tasks : Working(t, a)})
          <= 1 + retries[a]

\* The runs of a row and the calls about to run it are not more than its approvals.
Approving(r) == {c \in Callers : cpc[c] = "execute" /\ target[c] = r}

ApprovalInv ==
    \A r \in Rows : rows[r].runs + Cardinality(Approving(r))
                       <= rows[r].approvals + One(rows[r].trust = "auto")

LoopInv == /\ LinkInv /\ HonestInv /\ BatchInv
           /\ RunsInv /\ UserInv /\ AssistantInv /\ ApprovalInv

-----------------------------------------------------------------------------
(* Statements of the repository that the code does not keep.                *)

\* api/actions.py:122 resumes the waiting assignment whatever happens, because
\* "otherwise the tool-use loop stays suspended forever with no way to
\* recover": an assignment waits only while its action is undecided or the call
\* that decided it is still at work.
NeverWaitsOnADecidedAction ==
    \A a \in Assignments : status[a] = "waiting_confirmation" =>
        \/ rows[waiting_action[a]].status = "waiting_confirmation"
        \/ \E c \in Callers : target[c] = waiting_action[a]

\* api/actions.py:120 answers 404 "Action not found or not awaiting
\* confirmation": approve goes on to execute only what was awaiting it.
ExecutesOnlyWhatAwaits ==
    [][\A c \in Callers : cpc[c] = "idle" /\ cpc'[c] = "execute" =>
          rows[target'[c]].status = "waiting_confirmation"]_vars
=============================================================================
