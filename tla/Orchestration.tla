---------------------------- MODULE Orchestration ----------------------------
(***************************************************************************)
(* The three Airflow DAGs (airflow_dags/dags) and the task callables of    *)
(* src/orchestration/spark_jobs.py: DAG runs with their tasks in order,    *)
(* attempts and retries; the spark-submit a task waits for; the monitored() *)
(* wrapper's run row, and the nightly sweep that fails the rows of runs    *)
(* that have been open too long.                                           *)
(*                                                                         *)
(* Airflow (external) gives a task that overruns its execution_timeout an  *)
(* exception, upon which subprocess.run kills spark-submit and its driver. *)
(* A worker process that is killed leaves spark-submit behind, and its run *)
(* row open; the scheduler notices in time and retries the task.           *)
(***************************************************************************)
EXTENDS Integers, Sequences, FiniteSets

CONSTANTS Run,              \* slots for DAG runs
          DagOf,            \* the DAG a slot's runs belong to
          ExecutionTimeout, \* of the tasks that declare one
          SubmitTimeout,    \* run_spark_job's timeout_seconds
          StaleAfter,       \* MonitorConfig.stale_run_minutes
          MaxOrphans        \* applications left behind at one time (bound)

Dag == {"silver_hourly", "maintenance_nightly", "backfill_manual"}

HourlyTasks   == <<"freshness_sla_sweep", "silver_merge", "silver_dq_gate">>
NightlyTasks  == <<"reconcile_stale_runs", "optimize_zorder_vacuum">>
BackfillTasks == <<"bronze_backfill", "silver_backfill">>

Tasks(d) ==
    CASE d = "silver_hourly"       -> HourlyTasks
      [] d = "maintenance_nightly" -> NightlyTasks
      [] d = "backfill_manual"     -> BackfillTasks

MaxActiveRuns == 1

Retries(d) == IF d = "silver_hourly" THEN 2 ELSE 1

Task == UNION {{Tasks(d)[i] : i \in 1 .. Len(Tasks(d))} : d \in Dag}

\* These call BigQuery from the task's own process; the others run an application.
Sweeps == {"freshness_sla_sweep", "reconcile_stale_runs"}
Applications == Task \ Sweeps
Merges == {"silver_merge", "silver_backfill"}
Monitored == Task \ {"bronze_backfill", "silver_backfill"}

\* How long an application's attempt may take: whichever timeout comes first.
Limit(t) == IF t \in DOMAIN ExecutionTimeout /\ ExecutionTimeout[t] < SubmitTimeout
            THEN ExecutionTimeout[t]
            ELSE SubmitTimeout

ASSUME OrchestrationAssumption ==
    /\ IsFiniteSet(Run) /\ DagOf \in [Run -> Dag]
    /\ DOMAIN ExecutionTimeout \subseteq Applications
    /\ \A t \in DOMAIN ExecutionTimeout : ExecutionTimeout[t] \in Nat
    /\ SubmitTimeout \in Nat /\ StaleAfter \in Nat /\ MaxOrphans \in Nat
    \* 40 and 20 minutes, and two hours
    /\ \A t \in {"silver_merge", "silver_dq_gate"} :
          t \in DOMAIN ExecutionTimeout /\ ExecutionTimeout[t] < StaleAfter

VARIABLES
    at,       \* the position of a run's current task; 0 when the slot has no run
    try,      \* attempts of that task so far
    working,  \* the attempt runs; otherwise it is scheduled
    age,      \* of the running attempt
    failed,   \* the slots whose attempt the sweep has put on record as failed
    orphans   \* the applications that run on without the worker that waited for them:
              \* [task, age (of its open row), failed (that row, by the sweep)]

runVars == <<at, try, working, age>>
vars == <<runVars, failed, orphans>>

Active(r) == at[r] > 0
Current(r) == Tasks(DagOf[r])[at[r]]
Working(r, S) == Active(r) /\ working[r] /\ Current(r) \in S

Init ==
    /\ at = [r \in Run |-> 0] /\ try = [r \in Run |-> 0]
    /\ working = [r \in Run |-> FALSE] /\ age = [r \in Run |-> 0]
    /\ failed = {} /\ orphans = {}

----------------------------------------------------------------------------
(* DAG runs and attempts *)

\* Mutant of MayStart: max_active_runs left at Airflow's default.
NoRunLimit(d) == d \in Dag

MayStart(d) == Cardinality({r \in Run : DagOf[r] = d /\ Active(r)}) < MaxActiveRuns

\* By schedule, or by an operator.
StartRun(r) ==
    /\ ~Active(r)
    /\ MayStart(DagOf[r])
    /\ at' = [at EXCEPT ![r] = 1]
    /\ try' = [try EXCEPT ![r] = 0]
    /\ UNCHANGED <<working, age, failed, orphans>>

\* A new process; a monitored one books its run row.
StartAttempt(r) ==
    /\ Active(r) /\ ~working[r]
    /\ working' = [working EXCEPT ![r] = TRUE]
    /\ try' = [try EXCEPT ![r] = @ + 1]
    /\ age' = [age EXCEPT ![r] = 0]
    /\ UNCHANGED <<at, failed, orphans>>

\* The next task, or the end of the run.
AttemptSucceeds(r) ==
    /\ at' = [at EXCEPT ![r] = IF @ = Len(Tasks(DagOf[r])) THEN 0 ELSE @ + 1]
    /\ try' = [try EXCEPT ![r] = 0]

\* Mutant of AttemptFails: every failure clears the task.
ClearedOnFailure(r) ==
    /\ try' = [try EXCEPT ![r] = 0]
    /\ UNCHANGED at

\* Mutant of AttemptFails: one retry too many.
OneMoreRetry(r) ==
    IF try[r] > Retries(DagOf[r]) + 1
    THEN /\ at' = [at EXCEPT ![r] = 0]
         /\ try' = [try EXCEPT ![r] = 0]
    ELSE UNCHANGED <<at, try>>

\* Another attempt, or the end of the run: what is downstream does not run.
AttemptFails(r) ==
    IF try[r] > Retries(DagOf[r])
    THEN /\ at' = [at EXCEPT ![r] = 0]
         /\ try' = [try EXCEPT ![r] = 0]
    ELSE UNCHANGED <<at, try>>

Stops(r) ==
    /\ Active(r) /\ working[r]
    /\ working' = [working EXCEPT ![r] = FALSE]
    /\ age' = [age EXCEPT ![r] = 0]
    /\ failed' = failed \ {r}

\* The callable returns or raises, and the wrapper ends the run with that; when
\* end_run itself raises, the attempt fails though its work is done.
Return(r) ==
    /\ Stops(r)
    /\ (AttemptSucceeds(r) \/ AttemptFails(r))
    /\ UNCHANGED orphans

\* AirflowTaskTimeout, or run_spark_job's own: the application is killed.
TimesOut(r) ==
    /\ Working(r, Applications) /\ age[r] >= Limit(Current(r))
    /\ Stops(r)
    /\ AttemptFails(r)
    /\ UNCHANGED orphans

\* The age of an open run row, as far as it is told apart; a backfill's task has none.
RowAge(t, a) ==
    IF t \notin Monitored THEN 0 ELSE IF a < StaleAfter THEN a ELSE StaleAfter

\* The worker process is killed: its application, if it runs one, goes on without it.
WorkerDies(r) ==
    /\ Stops(r)
    /\ AttemptFails(r)
    /\ IF Current(r) \in Applications
       THEN /\ Cardinality(orphans) < MaxOrphans
            /\ orphans' = orphans \cup
                   {[task |-> Current(r), age |-> RowAge(Current(r), age[r]), failed |-> r \in failed]}
       ELSE UNCHANGED orphans

\* Nothing limits how long that takes.
OrphanEnds(o) ==
    /\ orphans' = orphans \ {o}
    /\ UNCHANGED <<runVars, failed>>

StaleOrphan(o) == o.task \in Monitored /\ o.age >= StaleAfter

\* reconcile_stale_runs, at any moment of the task of that name, if its query is
\* answered at all (PipelineMonitor): it fails the open rows that are old enough,
\* whoever left them.  Of interest are those of applications still at work.
Reconcile(r) ==
    /\ Working(r, {"reconcile_stale_runs"})
    /\ failed' = failed \cup {q \in Run :
                     Working(q, Monitored \cap Applications) /\ age[q] >= StaleAfter}
    /\ orphans' = {IF StaleOrphan(o) THEN [o EXCEPT !.failed = TRUE] ELSE o : o \in orphans}
    /\ UNCHANGED runVars

\* Time passes, but no attempt outlives its limit; a sweep's time is not counted.
Tick ==
    /\ \A r \in Run : Working(r, Applications) => age[r] < Limit(Current(r))
    /\ age' = [r \in Run |-> IF Working(r, Applications) THEN age[r] + 1 ELSE age[r]]
    /\ orphans' = {[o EXCEPT !.age = RowAge(o.task, @ + 1)] : o \in orphans}
    /\ UNCHANGED <<at, try, working, failed>>

Next ==
    \/ \E r \in Run : \/ StartRun(r) \/ StartAttempt(r)
                     \/ Return(r) \/ TimesOut(r) \/ WorkerDies(r) \/ Reconcile(r)
    \/ \E o \in orphans : OrphanEnds(o)
    \/ Tick

\* The scheduler starts what is due, and time passes: so a task with a limit ends.
Scheduling ==
    /\ WF_vars(Tick)
    /\ \A r \in Run : WF_vars(StartAttempt(r) \/ TimesOut(r))

\* BigQuery answers, so a sweep returns.
Answers == \A r \in Run : WF_vars(Working(r, Sweeps) /\ Return(r))

Spec == Init /\ [][Next]_vars /\ Scheduling /\ Answers

----------------------------------------------------------------------------

TypeOK ==
    /\ at \in [Run -> Nat] /\ try \in [Run -> Nat]
    /\ working \in [Run -> BOOLEAN] /\ age \in [Run -> Nat]
    /\ \A r \in Run :
          /\ at[r] <= Len(Tasks(DagOf[r])) /\ try[r] <= Retries(DagOf[r]) + 1
          /\ working[r] => Active(r) /\ try[r] > 0
          /\ ~working[r] /\ Active(r) => try[r] <= Retries(DagOf[r])
          /\ Working(r, Applications) => age[r] <= Limit(Current(r))
    /\ failed \subseteq Run
    /\ orphans \subseteq [task : Applications, age : 0 .. StaleAfter, failed : BOOLEAN]

\* Whatever was retried, timed out or left behind, the sweep puts no attempt on record
\* as failed while its worker waits for its application: either its limit is below the
\* stale time, or it cannot run while the sweep does (optimize_zorder_vacuum may take
\* three hours).  The application of a killed worker has no such protection: its row
\* is failed at StaleAfter, at work or not.
AttendedRunsKept == failed = {}

\* Every DAG run ends, so that the next may start.
RunsEnd == \A r \in Run : Active(r) ~> ~Active(r)
=============================================================================
