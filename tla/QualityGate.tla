----------------------------- MODULE QualityGate ------------------------------
(***************************************************************************)
(* The data-quality gate: the spark-submit program dq_runner.py, the        *)
(* validation and its side effects in DataQualityFramework                  *)
(* (data_quality.py), and the Airflow task that runs and retries it.        *)
(*                                                                         *)
(* The program validates the tables of Specs one after the other.  The      *)
(* table is read afresh by each validation: it is whatever Delta holds at   *)
(* that moment.  Every external call may raise (Breaks), and the error of   *)
(* one validation must not hide the others; what raises before the loop, or *)
(* kills the process, ends the attempt (Dies).  The framework is also used by *)
(* callers that configure alerts and a score table (build_framework_from_   *)
(* env); the gate's own framework has neither.                              *)
(***************************************************************************)
EXTENDS Expectations

CONSTANTS
    Specs,       \* DQ_GATE_TABLES_JSON: a sequence of suite configurations
    Files,       \* the suite files that exist: path -> suite
    Tables,      \* the contents a table may have when it is read
    Slack,       \* slack_webhook_url is configured
    PagerDuty,   \* pagerduty_routing_key is configured
    ScoreTable,  \* bq_monitoring is configured
    RaiseOnFailure, \* raise_on_failure
    MaxBreaks,   \* bound: calls that raise and deaths, over all attempts
    MaxAttempts  \* "retries" of the Airflow task, plus one

(* SuiteConfig: an optional file and an optional threshold.                *)
SuiteConfig == [name: STRING, path: SUBSET STRING, layer: {"bronze", "silver", "gold"},
                override: SUBSET Nat]

ASSUME SpecsAreASequence == Specs \in Seq(SuiteConfig)

ASSUME FilesHoldSuites == \A p \in DOMAIN Files : IsFiniteSet(DOMAIN Files[p])

ASSUME BoundsAreNaturals == MaxAttempts \in Nat \ {0} /\ MaxBreaks \in Nat

VARIABLES    \* beside table and suite, which Expectations declares
    pc,       \* the next step of the program
    at,       \* the specification being validated
    cache,    \* _suite_cache: suite name -> suite
    results,  \* the results of the expectations
    outcome,  \* how each specification ended in this attempt
    failures, \* the counter the exit code is computed from
    reports,  \* the reports written, over all attempts
    scores,   \* the runs with a row in the score table
    slacked,  \* the runs announced on Slack
    paged,    \* the runs PagerDuty was asked to page for
    attempt,  \* the Airflow try number
    breaks    \* the calls that raised, and the deaths

validation == <<at, table, suite, results>>
effects == <<reports, scores, slacked, paged>>
vars == <<pc, validation, cache, outcome, failures, effects, attempt, breaks>>

(* The suite configuration being validated, and the run_id of its report.  *)
Current == Specs[at]

Run == <<attempt, at>>

NoTable == [columns |-> <<>>, rows |-> <<>>]

-------------------------------------------------------------------------------
(* Scoring.                                                                *)

DefaultThreshold == [bronze |-> 90, silver |-> 95, gold |-> 99]

(* threshold_override or the layer's default: an override of 0 is ignored. *)
Threshold(spec) ==
    IF spec.override \subseteq {0} THEN DefaultThreshold[spec.layer]
    ELSE CHOOSE th \in spec.override : TRUE

Passed(rs) == Cardinality({k \in DOMAIN rs : rs[k].success})

Total(rs) == Cardinality(DOMAIN rs)

(* DQS >= th per cent; the score of no result is 0.0.                      *)
Reaches(rs, th) == IF Total(rs) = 0 THEN th <= 0 ELSE 100 * Passed(rs) >= th * Total(rs)

(* Mutant: a shortfall of ten points is still a P2.                        *)
SeverityLenient(rs, th) ==
    IF Reaches(rs, th) THEN "P3"
    ELSE IF Reaches(rs, th - 10) THEN "P2" ELSE "P1"

(* _compute_severity: five points below the threshold is the last P2.      *)
Severity(rs, th) ==
    IF Reaches(rs, th) THEN "P3"
    ELSE IF Reaches(rs, th - 5) THEN "P2" ELSE "P1"

MySeverity == Severity(results, Threshold(Current))

ThisReport == [run |-> Run, results |-> results, severity |-> MySeverity]

(* An f-string formats None as a float: the message of a failed            *)
(* expectation without unexpected_percent cannot be built.                 *)
Unformattable(rs) == \E k \in DOMAIN rs : ~rs[k].success /\ ~rs[k].percent

-------------------------------------------------------------------------------
Init ==
    /\ pc = IF Specs = <<>> THEN "passed" ELSE "build"
    /\ at = 1
    /\ table = NoTable
    /\ suite = <<>>
    /\ cache = <<>>
    /\ results = <<>>
    /\ outcome = [k \in DOMAIN Specs |-> "pending"]
    /\ failures = 0
    /\ reports = {}
    /\ scores = {}
    /\ slacked = {}
    /\ paged = {}
    /\ attempt = 1
    /\ breaks = 0

(* Mutant: the loop over the tables stops at the first failure.            *)
EndsAtFirstFailure(how) ==
    /\ outcome' = [outcome EXCEPT ![at] = how]
    /\ failures' = IF how \in {"p1", "error"} THEN failures + 1 ELSE failures
    /\ pc' = IF at < Len(Specs) /\ failures' = 0 THEN "read" ELSE "exit"
    /\ at' = IF at < Len(Specs) /\ failures' = 0 THEN at + 1 ELSE at

(* main records how a validation ended and goes on to the next one.        *)
Ends(how) ==
    /\ outcome' = [outcome EXCEPT ![at] = how]
    /\ failures' = IF how \in {"p1", "error"} THEN failures + 1 ELSE failures
    /\ pc' = IF at < Len(Specs) THEN "read" ELSE "exit"
    /\ at' = IF at < Len(Specs) THEN at + 1 ELSE at

(* The Spark session and the framework, once for all tables.               *)
Build ==
    /\ pc = "build"
    /\ pc' = "read"
    /\ UNCHANGED <<validation, cache, outcome, failures, effects, attempt, breaks>>

(* spark.read.format("delta").load                                         *)
ReadTable ==
    /\ pc = "read"
    /\ table' \in Tables
    /\ suite' = <<>>
    /\ results' = <<>>
    /\ pc' = "load"
    /\ UNCHANGED <<at, cache, outcome, failures, effects, attempt, breaks>>

SuitePath(spec) == IF spec.path = {} THEN spec.name ELSE CHOOSE p \in spec.path : TRUE

(* The names under which the cache holds a suite for spec.                 *)
Cached(spec) == DOMAIN cache \cap {spec.name}

(* _load_suite: the cache goes by the name alone, a missing file raises.   *)
LoadSuite ==
    /\ pc = "load"
    /\ LET spec == Current  path == SuitePath(spec)
       IN  \/ /\ \E n \in Cached(spec) : suite' = cache[n]
              /\ pc' = "evaluate"
              /\ UNCHANGED <<at, cache, outcome, failures>>
           \/ /\ Cached(spec) = {}
              /\ path \in DOMAIN Files
              /\ suite' = Files[path]
              /\ cache' = [n \in DOMAIN cache \cup {spec.name} |->
                              IF n = spec.name THEN Files[path] ELSE cache[n]]
              /\ pc' = "evaluate"
              /\ UNCHANGED <<at, outcome, failures>>
           \/ /\ Cached(spec) = {}
              /\ path \notin DOMAIN Files
              /\ Ends("error")
              /\ UNCHANGED <<suite, cache>>
    /\ UNCHANGED <<table, results, effects, attempt, breaks>>

(* validate_spark_distributed up to the score: one aggregate pass, which   *)
(* raises if a column is missing, and the row count.                       *)
Evaluate ==
    /\ pc = "evaluate"
    /\ \/ /\ SparkAborts(suite, table)
          /\ Ends("error")
          /\ UNCHANGED results
       \/ /\ ~SparkAborts(suite, table)
          /\ results' = SparkResults(suite, table)
          /\ pc' = "report"
          /\ UNCHANGED <<at, outcome, failures>>
    /\ UNCHANGED <<table, suite, cache, effects, attempt, breaks>>

(* _generate_report: the local files; a failed upload is only logged.      *)
Report ==
    /\ pc = "report"
    /\ reports' = reports \cup {ThisReport}
    /\ pc' = "score"
    /\ UNCHANGED <<validation, cache, outcome, failures, scores, slacked, paged,
                   attempt, breaks>>

(* Mutant: without its row in the score table a run is not announced.      *)
RecordScoreOrStop ==
    /\ pc = "score"
    /\ IF ScoreTable THEN scores' \in {scores, scores \cup {Run}} ELSE UNCHANGED scores
    /\ pc' = IF MySeverity = "P3" \/ Run \notin scores' THEN "verdict" ELSE "slack"
    /\ UNCHANGED <<validation, cache, outcome, failures, reports, slacked, paged,
                   attempt, breaks>>

(* _write_dqs_to_bigquery: insert errors are only logged.                  *)
RecordScore ==
    /\ pc = "score"
    /\ IF ScoreTable THEN scores' \in {scores, scores \cup {Run}} ELSE UNCHANGED scores
    /\ pc' = IF MySeverity = "P3" THEN "verdict" ELSE "slack"
    /\ UNCHANGED <<validation, cache, outcome, failures, reports, slacked, paged,
                   attempt, breaks>>

(* _send_slack_alert: the message is built outside the try; the post may   *)
(* fail, and is then only logged.                                          *)
SendSlack ==
    /\ pc = "slack"
    /\ \/ /\ Slack /\ Unformattable(results)
          /\ Ends("error")
          /\ UNCHANGED slacked
       \/ /\ Slack /\ ~Unformattable(results)
          /\ slacked' = slacked \cup {Run}
          /\ pc' = "page"
          /\ UNCHANGED <<at, outcome, failures>>
       \/ /\ ~Slack
          /\ pc' = "page"
          /\ UNCHANGED <<at, slacked, outcome, failures>>
    /\ UNCHANGED <<table, suite, results, cache, reports, scores, paged, attempt, breaks>>

(* Mutant: every failure pages.                                            *)
SendPageAlways ==
    /\ pc = "page"
    /\ paged' = IF PagerDuty THEN paged \cup {Run} ELSE paged
    /\ pc' = "verdict"
    /\ UNCHANGED <<validation, cache, outcome, failures, reports, scores, slacked,
                   attempt, breaks>>

(* _send_pagerduty_alert: only for P1; a failed request is only logged.    *)
SendPage ==
    /\ pc = "page"
    /\ paged' = IF PagerDuty /\ MySeverity = "P1" THEN paged \cup {Run} ELSE paged
    /\ pc' = "verdict"
    /\ UNCHANGED <<validation, cache, outcome, failures, reports, scores, slacked,
                   attempt, breaks>>

(* Mutant: every score below the threshold raises.                         *)
VerdictStrict ==
    /\ pc = "verdict"
    /\ Ends(IF MySeverity = "P3" THEN "ok" ELSE IF RaiseOnFailure THEN "p1" ELSE "soft")
    /\ UNCHANGED <<table, suite, results, cache, effects, attempt, breaks>>

(* Raise DataQualityError on a P1, or return the summary.                  *)
Verdict ==
    /\ pc = "verdict"
    /\ Ends(IF MySeverity = "P3" THEN "ok"
            ELSE IF RaiseOnFailure /\ MySeverity = "P1" THEN "p1" ELSE "soft")
    /\ UNCHANGED <<table, suite, results, cache, effects, attempt, breaks>>

(* Delta, the suite file (unreadable, no JSON), Spark, the local disk or    *)
(* BigQuery raises, the report or the row written or not; main's last       *)
(* except.                                                                 *)
Breaks ==
    /\ breaks < MaxBreaks
    /\ breaks' = breaks + 1
    /\ \/ pc \in {"read", "evaluate"} /\ UNCHANGED effects
       \/ pc = "load" /\ Cached(Current) = {} /\ UNCHANGED effects
       \/ /\ pc = "report"
          /\ reports' \in {reports, reports \cup {ThisReport}}
          /\ UNCHANGED <<scores, slacked, paged>>
       \/ /\ pc = "score" /\ ScoreTable
          /\ scores' \in {scores, scores \cup {Run}}
          /\ UNCHANGED <<reports, slacked, paged>>
    /\ Ends("error")
    /\ UNCHANGED <<table, suite, results, cache, attempt>>

Exit ==
    /\ pc = "exit"
    /\ pc' = IF failures > 0 THEN "failed" ELSE "passed"
    /\ UNCHANGED <<validation, cache, outcome, failures, effects, attempt, breaks>>

Stopped == {"passed", "failed", "died"}

(* The application is killed, or what is outside the loop's try raises: the *)
(* session, build_framework, the exit itself.  Airflow sees a failed task.  *)
Dies ==
    /\ pc \notin Stopped
    /\ breaks < MaxBreaks
    /\ breaks' = breaks + 1
    /\ pc' = "died"
    /\ UNCHANGED <<validation, cache, outcome, failures, effects, attempt>>

(* Mutant: the try number is lost with the process.                        *)
RetryForgetful ==
    /\ pc \in {"failed", "died"}
    /\ attempt < MaxAttempts
    /\ pc' = "build"
    /\ at' = 1
    /\ table' = NoTable
    /\ suite' = <<>>
    /\ cache' = <<>>
    /\ results' = <<>>
    /\ outcome' = [k \in DOMAIN Specs |-> "pending"]
    /\ failures' = 0
    /\ UNCHANGED <<effects, attempt, breaks>>

(* Airflow runs the failed task again: a new process, so an empty cache.   *)
Retry ==
    /\ pc \in {"failed", "died"}
    /\ attempt < MaxAttempts
    /\ attempt' = attempt + 1
    /\ pc' = "build"
    /\ at' = 1
    /\ table' = NoTable
    /\ suite' = <<>>
    /\ cache' = <<>>
    /\ results' = <<>>
    /\ outcome' = [k \in DOMAIN Specs |-> "pending"]
    /\ failures' = 0
    /\ UNCHANGED <<effects, breaks>>

Step == \/ Build \/ ReadTable \/ LoadSuite \/ Evaluate \/ Report \/ RecordScore
        \/ SendSlack \/ SendPage \/ Verdict \/ Exit

Next == Step \/ Breaks \/ Dies \/ Retry

Spec == Init /\ [][Next]_vars

(* The program runs on until it stops and Airflow starts every retry it    *)
(* owes; nothing obliges an external call to raise or a process to die.    *)
FairSpec == Spec /\ WF_vars(Step) /\ WF_vars(Retry)

-------------------------------------------------------------------------------
(* Properties.                                                             *)

Stages == {"build", "read", "load", "evaluate", "report", "score", "slack", "page", "verdict", "exit",
           "passed", "failed", "died"}

Ended == {"ok", "soft", "p1", "error"}

RunIds == (1 .. MaxAttempts) \X DOMAIN Specs

(* TypeOK: the variables stay in their types.                              *)
TypeOK ==
    /\ pc \in Stages
    /\ Specs # <<>> => at \in DOMAIN Specs
    /\ outcome \in [DOMAIN Specs -> Ended \cup {"pending"}]
    /\ failures \in Nat
    /\ \A r \in reports : r.run \in RunIds /\ r.severity \in {"P1", "P2", "P3"}
    /\ scores \subseteq RunIds
    /\ slacked \subseteq RunIds
    /\ paged \subseteq RunIds
    /\ attempt \in 1 .. MaxAttempts
    /\ breaks \in 0 .. MaxBreaks

(* Reported(k, sev): this attempt reported table k with that severity.     *)
Reported(k, sev) ==
    \E r \in reports : r.run = <<attempt, k>> /\ r.severity = sev

(* PassMeansHealthy: the program exits with 0 only if this very attempt    *)
(* reported every table at no more than five points below its threshold,   *)
(* whatever raised on the way and whatever earlier attempts found.         *)
PassMeansHealthy ==
    pc = "passed" /\ RaiseOnFailure =>
        \A k \in DOMAIN Specs :
            \E r \in reports : /\ r.run = <<attempt, k>>
                               /\ Reaches(r.results, Threshold(Specs[k]) - 5)

(* EveryTableTried: an attempt that decides, rather than dies, has tried    *)
(* every table, so that one failing table hides no other, and it fails      *)
(* exactly if one of them was blocked or could not be validated.           *)
EveryTableTried ==
    pc \in {"passed", "failed"} =>
        /\ \A k \in DOMAIN Specs : outcome[k] \in Ended
        /\ pc = "failed" <=> \E k \in DOMAIN Specs : outcome[k] \in {"p1", "error"}

(* OutcomeMatchesReport: how main sees a validation end and what its       *)
(* report says agree: a P1 raises, a P2 lets the table through, and        *)
(* neither happens without a report.                                       *)
OutcomeMatchesReport ==
    \A k \in DOMAIN Specs :
        /\ outcome[k] = "ok" => Reported(k, "P3")
        /\ outcome[k] = "soft" => Reported(k, "P2") \/ (Reported(k, "P1") /\ ~RaiseOnFailure)
        /\ outcome[k] = "p1" => Reported(k, "P1")

(* AlertsHaveReports: whoever is alerted finds the report of that run, a   *)
(* page is for a P1 only and Slack hears of no success.                    *)
AlertsHaveReports ==
    /\ \A run \in paged : \E r \in reports : r.run = run /\ r.severity = "P1"
    /\ \A run \in slacked : \E r \in reports : r.run = run /\ r.severity # "P3"
    /\ \A run \in scores : \E r \in reports : r.run = run

(* UnpagedP1Fails: a validation that reported a P1 and ended without asking *)
(* for the page ended as an infrastructure error, which closes the gate:    *)
(* whatever raised between report and page, it was neither let through nor  *)
(* taken for a P1 that was announced.                                      *)
UnpagedP1Fails ==
    \A k \in DOMAIN Specs :
        Reported(k, "P1") /\ outcome[k] \in Ended /\ PagerDuty
        => <<attempt, k>> \in paged \/ outcome[k] = "error"

(* GateDecides: every hour ends with the gate open or closed for good.     *)
GateDecides ==
    <>[](pc = "passed" \/ (pc \in {"failed", "died"} /\ attempt = MaxAttempts))

(* GateP1Pages (edp_silver_hourly.py:8-9, "P1 failures stop downstream     *)
(* propagation and page via the framework's PagerDuty routing").           *)
GateP1Pages == \A k \in DOMAIN Specs : outcome[k] = "p1" => <<attempt, k>> \in paged

(* ReportedP1Pages (README.md:94, "P1 failures block downstream            *)
(* propagation and route to PagerDuty"): a validation that reported a P1   *)
(* does not end without asking for the page.                               *)
ReportedP1Pages ==
    \A k \in DOMAIN Specs :
        Reported(k, "P1") /\ outcome[k] \in Ended => <<attempt, k>> \in paged

(* EvaluatedIsReported (data_quality.py:322, "Reports/alerts/              *)
(* DQS-persistence behave identically to validate()"): validate() writes a *)
(* report whatever the table looks like.                                   *)
EvaluatedIsReported ==
    \A k \in DOMAIN Specs :
        outcome[k] \in Ended /\ SuitePath(Specs[k]) \in DOMAIN Files
        => \E r \in reports : r.run = <<attempt, k>>

(* NearMissIsP1 (README.md:83, "P1 within 5pp of threshold breach").       *)
NearMissIsP1 ==
    \A r \in reports :
        LET th == Threshold(Specs[r.run[2]])
        IN  ~Reaches(r.results, th) /\ Reaches(r.results, th - 5) => r.severity = "P1"

(* OverrideHonoured (data_quality.py:103, "Per-suite threshold override"): *)
(* a report is judged by the override of its suite, if it has one.         *)
OverrideHonoured ==
    \A r \in reports : \A th \in Specs[r.run[2]].override :
        r.severity = Severity(r.results, th)
===============================================================================
