--------------------------- MODULE PipelineMonitor --------------------------
(***************************************************************************)
(* Run bookkeeping and alerting (src/observability/pipeline_monitor.py),   *)
(* as the Airflow tasks drive it through the monitored() wrapper of        *)
(* src/orchestration/spark_jobs.py.  Every task runs in a process of its   *)
(* own: it books a "running" row, does its work, books the final row, then *)
(* raises its alarms.  Two sweeps, in other processes, read those rows:    *)
(* reconcile_stale_runs and check_all_freshness_slas.                      *)
(*                                                                         *)
(* The warehouse (BigQuery) and PagerDuty are external.  Inserts and pages *)
(* may be lost; a process may die between any two steps.  Rows of the      *)
(* anomalies table and Slack messages are left out: nothing reads them     *)
(* back, and each is followed by the incident row of the same alarm.       *)
(***************************************************************************)
EXTENDS Integers, FiniteSets, FiniteSetsExt

CONSTANTS Runs,            \* the runs of the period considered
          Pipelines,
          PipelineOf,      \* the pipeline a run belongs to
          Configured,      \* the pipelines in sla_configs (keys of _sla_index)
          FreshnessSla,    \* SLAConfig.freshness_sla_minutes
          StaleAfter,      \* MonitorConfig.stale_run_minutes
          Window,          \* the reconciliation query looks this far back
          Limit,           \* and returns at most this many runs
          MinHistory,      \* MIN_HISTORY_FOR_ANOMALY
          Paging,          \* a PagerDuty routing key is configured
          SlackMin,        \* AlertRoutingConfig.slack_min_severity
          QueriesResolve,  \* the warehouse finds the columns the statements use:
                           \* with the statements as they are written it does not
          MaxTime,         \* the end of the clock (bound)
          MaxCrashes,      \* processes that die (bound)
          MaxLost          \* inserts and pages that are lost (bound)

\* off_baseline stands for volume_drop, volume_spike and duration_spike.
Type == {"pipeline_failure", "freshness_breach", "off_baseline"}
Severity == {"P1", "P2", "P3", "P4"}
Rank == [P1 |-> 4, P2 |-> 3, P3 |-> 2, P4 |-> 1]

ASSUME MonitorAssumption ==
    /\ IsFiniteSet(Runs)
    /\ PipelineOf \in [Runs -> Pipelines]
    /\ Configured \subseteq Pipelines
    /\ FreshnessSla \in [Pipelines -> Nat]
    /\ StaleAfter \in Nat /\ Window \in Nat /\ Limit \in Nat /\ MinHistory \in Nat
    /\ Paging \in BOOLEAN /\ SlackMin \in Severity /\ QueriesResolve \in BOOLEAN
    /\ MaxTime \in Nat /\ MaxCrashes \in Nat /\ MaxLost \in Nat

VARIABLES
    now,        \* the clock
    pc,         \* per run: where its process is
    outcome,    \* per run: what the task itself did
    started,    \* per run: started_at_utc
    ended,      \* per run: ended_at_utc of its final row
    alarms,     \* per run: the anomalies its process still has to fire
    recorded,   \* per run: the statuses of its rows in pipeline_runs
    verdict,    \* per run: the status of the row inserted last
    sweep,      \* the runs the reconciliation has selected and not yet come to
    turn,       \* the run it has come to: superseded, its incident not yet fired
    incidents,  \* rows of pipeline_incidents: <<run or pipeline, type, severity>>
    paged,      \* the dedup keys PagerDuty got: <<pipeline, type>>
    crashes, lost

runVars == <<pc, outcome, started, ended, alarms>>
rowVars == <<recorded, verdict>>
sweepVars == <<sweep, turn>>
alertVars == <<incidents, paged>>
vars == <<now, runVars, rowVars, sweepVars, alertVars, crashes, lost>>

\* An incident row carries its run_id; a freshness breach has none of its own.
Subject == Runs \cup Pipelines

TypeOK ==
    /\ now \in 0 .. MaxTime
    /\ pc \in [Runs -> {"unborn", "running", "finishing", "checking", "alarming",
                        "ended", "died"}]
    /\ outcome \in [Runs -> {"none", "success", "failed"}]
    /\ started \in [Runs -> Nat]
    /\ ended \in [Runs -> Nat]
    /\ alarms \in [Runs -> SUBSET (Type \X Severity)]
    /\ recorded \in [Runs -> SUBSET {"running", "success", "failed"}]
    /\ verdict \in [Runs -> {"none", "running", "success", "failed"}]
    /\ sweep \subseteq Runs /\ turn \subseteq Runs
    /\ \A r \in Runs : verdict[r] = "none" <=> recorded[r] = {}
    /\ incidents \subseteq Subject \X Type \X Severity
    /\ paged \subseteq Pipelines \X Type
    /\ crashes \in Nat /\ lost \in Nat

Init ==
    /\ now = 0
    /\ pc = [r \in Runs |-> "unborn"]
    /\ outcome = [r \in Runs |-> "none"]
    /\ started = [r \in Runs |-> 0]
    /\ ended = [r \in Runs |-> 0]
    /\ alarms = [r \in Runs |-> {}]
    /\ recorded = [r \in Runs |-> {}]
    /\ verdict = [r \in Runs |-> "none"]
    /\ sweep = {} /\ turn = {}
    /\ incidents = {} /\ paged = {}
    /\ crashes = 0 /\ lost = 0

Tick ==
    /\ now < MaxTime
    /\ now' = now + 1
    /\ UNCHANGED <<runVars, rowVars, sweepVars, alertVars, crashes, lost>>

-----------------------------------------------------------------------------
(* Rows and alarms *)

Lose == lost < MaxLost /\ lost' = lost + 1

\* _write_run_to_bq: appends a row, or logs that it could not: it never raises.
WriteRun(r, s) ==
    \/ /\ recorded' = [recorded EXCEPT ![r] = @ \cup {s}]
       /\ verdict' = [verdict EXCEPT ![r] = s]
       /\ UNCHANGED lost
    \/ Lose /\ UNCHANGED rowVars

\* _page_pagerduty: alarms of one pipeline and type have one key, and so merge.
Page(p, type) == paged' = paged \cup {<<p, type>>}

\* _write_incident_to_bq
StoreIncident(s, alarm) == incidents' = incidents \cup {<<s, alarm[1], alarm[2]>>}

\* _fire_incident: PagerDuty hears of P1 only, whatever pagerduty_min_severity says,
\* then the row is written.  Either call may fail, or both, and neither raises.
Fire(s, p, alarm) ==
    LET pages == Paging /\ alarm[2] = "P1"
    IN  \/ /\ IF pages THEN Page(p, alarm[1]) ELSE UNCHANGED paged
           /\ StoreIncident(s, alarm)
           /\ UNCHANGED lost
        \/ /\ IF pages THEN Page(p, alarm[1]) ELSE UNCHANGED paged
           /\ Lose /\ UNCHANGED incidents
        \/ pages /\ Lose /\ StoreIncident(s, alarm) /\ UNCHANGED paged
        \/ pages /\ Lose /\ UNCHANGED alertVars

Succeeded(p) == {r \in Runs : PipelineOf[r] = p /\ "success" \in recorded[r]}

-----------------------------------------------------------------------------
(* A monitored task *)

\* No run starts so late that the clock ends before it is stale (bound).
StartRun(r) ==
    /\ pc[r] = "unborn"
    /\ now + StaleAfter <= MaxTime
    /\ pc' = [pc EXCEPT ![r] = "running"]
    /\ started' = [started EXCEPT ![r] = now]
    /\ WriteRun(r, "running")
    /\ UNCHANGED <<now, outcome, ended, alarms, sweepVars, alertVars, crashes>>

\* The wrapped callable returns or raises.
Work(r) ==
    /\ pc[r] = "running"
    /\ pc' = [pc EXCEPT ![r] = "finishing"]
    /\ \E s \in {"success", "failed"} : outcome' = [outcome EXCEPT ![r] = s]
    /\ UNCHANGED <<now, started, ended, alarms, rowVars, sweepVars, alertVars, crashes, lost>>

\* end_run, up to the final row.
EndRun(r) ==
    /\ pc[r] = "finishing"
    /\ pc' = [pc EXCEPT ![r] = "checking"]
    /\ ended' = [ended EXCEPT ![r] = now]
    /\ WriteRun(r, outcome[r])
    /\ UNCHANGED <<now, outcome, started, alarms, sweepVars, alertVars, crashes>>

\* Mutant: a failed run is informational.
FailureIsInformational(r) ==
    IF outcome[r] = "failed" THEN {<<"pipeline_failure", "P3">>} ELSE {}

FailureAlarm(r) == IF outcome[r] = "failed" THEN {<<"pipeline_failure", "P1">>} ELSE {}

\* _detect_volume_anomaly, _detect_duration_anomaly: given enough successful runs,
\* which need the rows' started_at_utc to be read, the run may be off its baseline.
BaselineAlarms(r) ==
    IF QueriesResolve /\ Cardinality(Succeeded(PipelineOf[r])) >= MinHistory
    THEN {"off_baseline"} \X {"P1", "P2"}
    ELSE {}

\* min_rows and max_duration_minutes of the pipeline's SLA.
SlaAlarms(r) ==
    IF PipelineOf[r] \in Configured THEN {<<"off_baseline", "P2">>} ELSE {}

\* _run_post_run_checks.  Only P1 and P2 are fired.
RunChecks(r) ==
    /\ pc[r] = "checking"
    /\ \E found \in SUBSET (BaselineAlarms(r) \cup SlaAlarms(r)) :
          LET loud == {alarm \in FailureAlarm(r) \cup found : alarm[2] \in {"P1", "P2"}}
          IN  /\ alarms' = [alarms EXCEPT ![r] = loud]
              /\ pc' = [pc EXCEPT ![r] = IF loud = {} THEN "ended" ELSE "alarming"]
    /\ UNCHANGED <<now, outcome, started, ended, rowVars, sweepVars, alertVars, crashes, lost>>

\* One turn of end_run's loop over what was found; the failure comes first.
FireAlarm(r) ==
    /\ pc[r] = "alarming"
    /\ \E alarm \in alarms[r] :
          /\ alarms[r] \cap FailureAlarm(r) \subseteq {alarm}
          /\ Fire(r, PipelineOf[r], alarm)
          /\ alarms' = [alarms EXCEPT ![r] = @ \ {alarm}]
          /\ pc' = [pc EXCEPT ![r] = IF alarms[r] = {alarm} THEN "ended" ELSE "alarming"]
    /\ UNCHANGED <<now, outcome, started, ended, rowVars, sweepVars, crashes>>

\* The process dies: killed, timed out by Airflow, or out of memory.
Crash(r) ==
    /\ pc[r] \in {"running", "finishing", "checking", "alarming"}
    /\ crashes < MaxCrashes
    /\ crashes' = crashes + 1
    /\ pc' = [pc EXCEPT ![r] = "died"]
    /\ alarms' = [alarms EXCEPT ![r] = {}]
    /\ UNCHANGED <<now, outcome, started, ended, rowVars, sweepVars, alertVars, lost>>

-----------------------------------------------------------------------------
(* The sweeps *)

Stale(r) == now - started[r] >= StaleAfter /\ now - started[r] <= Window

\* ROW_NUMBER() orders a run's rows by started_at_utc, which is the same in all
\* of them: any row may come first, and only that one is asked for its status.
MaySelect(r)  == "running" \in recorded[r] /\ Stale(r)
MustSelect(r) == recorded[r] = {"running"} /\ Stale(r)

\* reconcile_stale_runs, the query.  Its outer SELECT needs a status its inner
\* one does not return: where that matters it fails, and nothing is reconciled.
SelectStaleRuns ==
    /\ sweep = {} /\ turn = {}
    /\ QueriesResolve
    /\ \E S \in SUBSET {r \in Runs : MaySelect(r)} :
          /\ Cardinality(S) <= Limit
          /\ \A r \in Runs : MustSelect(r) => r \in S \/ Cardinality(S) = Limit
          /\ sweep' = S
    /\ UNCHANGED <<now, runVars, rowVars, turn, alertVars, crashes, lost>>

\* reconcile_stale_runs, one turn of the loop: first the superseding row,
Supersede(r) ==
    /\ turn = {} /\ r \in sweep
    /\ sweep' = sweep \ {r} /\ turn' = {r}
    /\ WriteRun(r, "failed")
    /\ UNCHANGED <<now, runVars, alertVars, crashes>>

\* then the P2 incident, unless Slack's threshold is above it.
Announce(r) ==
    /\ r \in turn
    /\ turn' = {}
    /\ IF Rank["P2"] >= Rank[SlackMin]
       THEN Fire(r, PipelineOf[r], <<"pipeline_failure", "P2">>)
       ELSE UNCHANGED <<alertVars, lost>>
    /\ UNCHANGED <<now, runVars, rowVars, sweep, crashes>>

SweepDies ==
    /\ sweep # {} \/ turn # {}
    /\ crashes < MaxCrashes
    /\ crashes' = crashes + 1
    /\ sweep' = {} /\ turn' = {}
    /\ UNCHANGED <<now, runVars, rowVars, alertVars, lost>>

LastSuccess(p) == Max({ended[r] : r \in Succeeded(p)})
Age(p) == now - LastSuccess(p)

\* More than half the SLA over it is critical.
BreachSeverity(p) == IF (Age(p) - FreshnessSla[p]) * 2 > FreshnessSla[p] THEN "P1" ELSE "P2"

\* check_freshness_sla: a pipeline that never succeeded is not evaluated.
CheckFreshness(p) ==
    /\ p \in Configured
    /\ Succeeded(p) # {}
    /\ Age(p) > FreshnessSla[p]
    /\ Fire(p, p, <<"freshness_breach", BreachSeverity(p)>>)
    /\ UNCHANGED <<now, runVars, rowVars, sweepVars, crashes>>

-----------------------------------------------------------------------------

Next ==
    \/ Tick
    \/ \E r \in Runs : \/ StartRun(r) \/ Work(r) \/ EndRun(r) \/ RunChecks(r) \/ FireAlarm(r)
                       \/ Crash(r) \/ Supersede(r) \/ Announce(r)
    \/ SelectStaleRuns
    \/ SweepDies
    \/ \E p \in Pipelines : CheckFreshness(p)

Spec == Init /\ [][Next]_vars

\* Time passes, processes that live go on, and Airflow runs both sweeps for ever.
Fairness ==
    /\ WF_vars(Tick)
    /\ \A r \in Runs : /\ WF_vars(Work(r) \/ EndRun(r) \/ RunChecks(r) \/ FireAlarm(r))
                       /\ WF_vars(Supersede(r) \/ Announce(r))
    /\ WF_vars(SelectStaleRuns)
    /\ \A p \in Pipelines : WF_vars(CheckFreshness(p))

FairSpec == Spec /\ Fairness
-----------------------------------------------------------------------------
(* Properties *)

\* "if this process dies mid-run, forensics (and reconcile_stale_runs) can see the
\* orphaned run instead of it silently vanishing from history" (397-399), "Find runs
\* stuck in 'running' status [...] and reconcile them" (553): every run whose
\* "running" row was stored gets a final row, its own or the sweep's.
EveryRunClosed ==
    \A r \in Runs : "running" \in recorded[r] ~> recorded[r] \cap {"success", "failed"} # {}

Announced(r) == \E s \in {"P1", "P2"} : <<r, "pipeline_failure", s>> \in incidents

\* A process that lives is still about to fire the incident of r: the run's own
\* (end_run 463-472) or the sweep's (610-630).
BeingAnnounced(r) ==
    \/ r \in turn
    \/ /\ outcome[r] = "failed"
       /\ \/ pc[r] = "checking"
          \/ pc[r] = "alarming" /\ <<"pipeline_failure", "P1">> \in alarms[r]

\* The runs on record as failed of which nobody was told and nobody will be.
Silent == {r \in Runs : "failed" \in recorded[r] /\ ~Announced(r) /\ ~BeingAnnounced(r)}

\* "Emit a P2 pipeline_failure anomaly + incident so the crash is investigated rather
\* than silently forgotten" (558-559), and a P1 for a task that failed itself: a run is
\* on record as failed and silent only for a process that died between the row and
\* the incident, or for a call that was lost, one run for each; and a run that did not
\* fail itself is put on record as failed no sooner than StaleAfter past its start.
FailuresAreReported ==
    /\ Cardinality(Silent) <= crashes + lost
    /\ \A r \in Runs : "failed" \in recorded[r] /\ outcome[r] # "failed"
                          => now - started[r] >= StaleAfter

\* "latest row per run_id is authoritative, so health dashboards self-correct"
\* (reconcile_stale_runs 556-557): once a run's own final row is stored, no sweep
\* puts another verdict on top of it.
VerdictStands ==
    [][\A r \in Runs : pc[r] \in {"checking", "alarming", "ended", "died"} /\ verdict[r] = outcome[r]
                          => verdict'[r] = verdict[r]]_vars
=============================================================================
