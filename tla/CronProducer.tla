---------------------------- MODULE CronProducer ----------------------------
(***************************************************************************)
(* The cron producer: a list of jobs, of which several may have one name,   *)
(* and an APScheduler that knows one job for each name. Jobs come from the  *)
(* configuration and, while it runs, from the API; a new instance knows     *)
(* only the configured ones. shutdown() of the scheduler takes effect in a  *)
(* later turn of the event loop and cancels the jobs being run.             *)
(***************************************************************************)
EXTENDS Happenings, SequencesExt

CONSTANTS
    JobNames,
    ConfigJobs,     \* config.yaml's cron_jobs
    MaxEdits        \* bound: jobs added and removed by the API

\* A job is its name, whether its expression is a schedule, and the place it
\* was given on the list, which stands for its topic and payload.
Job == [name : JobNames, valid : BOOLEAN, at : Nat]
NoJob == 0

CronAssumption ==
    /\ MaxEdits \in Nat
    /\ ConfigJobs \in Seq(Job)
    /\ \A k \in 1 .. Len(ConfigJobs) : ConfigJobs[k].at = k

VARIABLES
    jobs,           \* each instance: _jobs
    scheduler,      \* each instance: "none" | "on" | "closing" | "off"
    scheduled,      \* each instance: what its scheduler has for each name
    ofJob,          \* each happening: the name of the job that fell due
    edits           \* environment

cron == <<jobs, scheduler, scheduled, ofJob, edits>>

CronInit ==
    /\ jobs = [i \in Instances |-> <<>>]
    /\ scheduler = [i \in Instances |-> "none"]
    /\ scheduled = [i \in Instances |-> [n \in JobNames |-> NoJob]]
    /\ ofJob = [o \in AllHappenings |-> None]
    /\ edits = 0

\* _add_job_to_scheduler: a name that is there is replaced, and an expression
\* that is no schedule leaves the scheduler as it was.
Scheduled(s, j) == IF j.valid THEN [s EXCEPT ![j.name] = j.at] ELSE s

CronStart(i) ==
    /\ jobs' = [jobs EXCEPT ![i] = ConfigJobs]
    /\ scheduled' = [scheduled EXCEPT ![i] = FoldLeft(Scheduled, @, ConfigJobs)]
    /\ scheduler' = [scheduler EXCEPT ![i] = "on"]
    /\ UNCHANGED <<ofJob, edits, happenings>>

Edit == edits < MaxEdits /\ edits' = edits + 1

\* add_cron_job refuses a wrong expression.
AddJob(i, n) ==
    LET j == [name |-> n, valid |-> TRUE, at |-> Len(ConfigJobs) + edits + 1]
    IN  /\ Edit
        /\ jobs' = [jobs EXCEPT ![i] = Append(@, j)]
        /\ scheduled' = [scheduled EXCEPT ![i] = Scheduled(@, j)]
        /\ UNCHANGED <<base, scheduler, ofJob, happenings>>

\* The jobs of a list but those of one name, in their order.
Without(s, n) == FoldLeft(LAMBDA l, j : IF j.name = n THEN l ELSE Append(l, j), <<>>, s)

RemoveJob(i, n) ==
    /\ Edit
    /\ jobs' = [jobs EXCEPT ![i] = Without(@, n)]
    /\ scheduled' = [scheduled EXCEPT ![i][n] = NoJob]
    /\ UNCHANGED <<base, scheduler, ofJob, happenings>>

\* A job falls due. A name whose last run is not over is skipped.
Fire(i, n) ==
    /\ scheduler[i] = "on" /\ scheduled[i][n] # NoJob
    /\ \A o \in InHand(i) : ofJob[o] # n
    /\ TakeIn(i, "taken")
    /\ ofJob' = [o \in AllHappenings |-> IF fate'[o] # fate[o] THEN n ELSE ofJob[o]]
    /\ UNCHANGED <<base, jobs, scheduler, scheduled, edits>>

JobPublished(i) ==
    /\ \E o \in InHand(i) : Becomes({o}, "published")
    /\ UNCHANGED <<base, cron>>

JobRaises(i) ==
    /\ Raises
    /\ \E o \in InHand(i) : Becomes({o}, "dropped")
    /\ UNCHANGED <<name, running, task, cancelled, cron>>

CronStop(i) ==
    /\ running' = [running EXCEPT ![i] = FALSE]
    /\ scheduler' = [scheduler EXCEPT ![i] = "closing"]
    /\ UNCHANGED <<name, task, cancelled, errors, jobs, scheduled, ofJob, edits,
                   happenings>>

\* What falls due before this is cancelled by it before its first step. Nobody
\* holds the instance and its list any more.
ShutDown(i) ==
    /\ scheduler[i] = "closing"
    /\ scheduler' = [scheduler EXCEPT ![i] = "off"]
    /\ jobs' = [jobs EXCEPT ![i] = <<>>]
    /\ scheduled' = [scheduled EXCEPT ![i] = [n \in JobNames |-> NoJob]]
    /\ Cancelled(i, InHand(i))
    /\ UNCHANGED <<base, ofJob, edits>>

CronSteps(i) ==
    /\ name[i] = "cron"
    /\ JobPublished(i) \/ JobRaises(i) \/ ShutDown(i)
=============================================================================
