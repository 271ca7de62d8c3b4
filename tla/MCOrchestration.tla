--------------------------- MODULE MCOrchestration ---------------------------
(* Orchestration on a small instance, and what it does not promise. *)
EXTENDS Orchestration, TLC

CONSTANTS hourly, nightly1, nightly2, backfill

Slots   == {hourly, nightly1, nightly2, backfill}
MCDagOf == [r \in Slots |->
    CASE r = hourly                 -> "silver_hourly"
      [] r \in {nightly1, nightly2} -> "maintenance_nightly"
      [] r = backfill               -> "backfill_manual"]

\* In units of an hour and a half, rounded up: silver_merge 40 min, silver_dq_gate
\* 20 min, optimize_zorder_vacuum three hours, and StaleAfter two hours.  The four hours
\* of spark-submit are cut to three and the backfill's six to one and a half: its tasks
\* have no run row that could be stale.
MCExecutionTimeout ==
    ("silver_merge" :> 1) @@ ("silver_dq_gate" :> 1) @@ ("optimize_zorder_vacuum" :> 2)
        @@ ("silver_backfill" :> 1)

\* edp_silver_hourly: "never overlap merges against the same Delta target".
MergesNeverOverlap ==
    /\ \A r, q \in Run : r # q /\ Working(r, Merges) => ~Working(q, Merges)
    /\ \A r \in Run, o \in orphans : Working(r, Merges) => o.task \notin Merges

\* Without an answer from BigQuery: nothing limits a sweep.
SpecNoAnswer == Init /\ [][Next]_vars /\ Scheduling
=============================================================================
