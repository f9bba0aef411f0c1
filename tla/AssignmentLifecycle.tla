------------------------- MODULE AssignmentLifecycle -------------------------
(***************************************************************************)
(* What the owner of an assignment may rely on, without the tool loop, the  *)
(* approvals queue or the database: a worker comes to an assignment only by *)
(* claiming it while it is pending or resumable; only its workers call it   *)
(* running, waiting, completed or failed; only a waiting one is resumed; and *)
(* it goes back to pending only MaxRetries times, each time after a sweep   *)
(* that saw it failed.                                                      *)
(***************************************************************************)
EXTENDS Naturals

CONSTANTS Assignments, Workers, MaxRetries, Idle

VARIABLES
    state,     \* state[a]: the status of assignment a
    attempts,  \* attempts[a]: how often it went back to pending
    work,      \* work[w]: the assignment worker w has claimed, or Idle
    swept      \* the assignments the retry sweep saw failed

life == <<state, attempts, work, swept>>

Live    == {"pending", "claimed", "waiting_confirmation", "resumable"}
Written == {"running", "waiting_confirmation", "completed", "failed"}

Init == /\ state = [a \in Assignments |-> "pending"]
        /\ attempts = [a \in Assignments |-> 0]
        /\ work = [w \in Workers |-> Idle]
        /\ swept = {}

Claim(a, w) ==
    /\ state[a] \in {"pending", "resumable"} /\ work[w] = Idle
    /\ state' = [state EXCEPT ![a] = "claimed"]
    /\ work' = [work EXCEPT ![w] = a]
    /\ UNCHANGED <<attempts, swept>>

Write(a, w) ==
    /\ work[w] = a
    /\ \E s \in Written : state' = [state EXCEPT ![a] = s]
    /\ work' \in {work, [work EXCEPT ![w] = Idle]}
    /\ UNCHANGED <<attempts, swept>>

Resume(a) ==
    /\ state[a] = "waiting_confirmation"
    /\ state' = [state EXCEPT ![a] = "resumable"]
    /\ UNCHANGED <<attempts, work, swept>>

\* The sweep reads the failed rows before it writes them: a worker that is
\* still there may move a row on in between.
Sweep ==
    /\ swept' = {a \in Assignments : state[a] = "failed"
                                     /\ attempts[a] < MaxRetries}
    /\ UNCHANGED <<state, attempts, work>>

Retry(a) ==
    /\ a \in swept
    /\ state' = [state EXCEPT ![a] = "pending"]
    /\ attempts' = [attempts EXCEPT ![a] = @ + 1]
    /\ swept' = swept \ {a}
    /\ UNCHANGED work

Drain ==
    /\ state' = [a \in Assignments |->
                    IF state[a] \in Live THEN "failed" ELSE state[a]]
    /\ UNCHANGED <<attempts, work, swept>>

\* Workers leave without a word: a drained claim, an error, a crash.
Leave ==
    /\ \E W \in SUBSET Workers :
          work' = [w \in Workers |-> IF w \in W THEN Idle ELSE work[w]]
    /\ swept' \in {swept, {}}
    /\ UNCHANGED <<state, attempts>>

Next == \/ \E a \in Assignments, w \in Workers : Claim(a, w) \/ Write(a, w)
        \/ \E a \in Assignments : Resume(a) \/ Retry(a)
        \/ Sweep \/ Drain \/ Leave

Spec == Init /\ [][Next]_life
=============================================================================
