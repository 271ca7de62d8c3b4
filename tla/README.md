# TLA+ models of the enterprise data platform

These modules model the data path of the platform (Kafka to Bronze to Silver), the
systems that watch over it (pipeline monitor, data-quality gate), the DAGs that drive
it and the jobs that delete from it, check them with TLC on small instances and prove
their central invariants with TLAPS. Source paths are relative to the repository's
`src/`; `PROJECT.json` maps every definition that models code to its lines.

    tlc -workers 2 -config edge_clean.cfg MCEdgeConsumer     # a run
    tlapm EdgeConsumer_proofs.tla                            # the proofs of a module

| prefix of the `.cfg` | module |
|---|---|
| `edge_process`, `edge_start_signal`, `edge_second_signal` | MCEdgeProcess |
| any other `edge_` | MCEdgeConsumer |
| `bronze_` | MCBronzeStream |
| `silver_` | MCSilverMerge |
| `monitor_` | MCPipelineMonitor |
| `engines_` | MCExpectations |
| `gate_` | MCQualityGate |
| `erasure` | MCErasure |
| `orchestration` | MCOrchestration |

## 1. The system

The platform has two ingestion paths and a medallion of Delta tables behind them.
Nothing in it is a long-lived server with a database of its own: every part is a
process that may die at any statement and be started again, and that leaves its
state in Kafka offsets, Spark checkpoints, Delta logs and BigQuery rows. The hard
questions are therefore about what happens *between* two durable writes.

    producers --> Kafka --> edge consumer  --> Bronze files (GCS)
                    |   \-> dead-letter topic
                    +-----> Bronze job     --> Bronze tables --> Silver job --> Silver tables
                              |  schema registry   ^               |        ^      |
                              |                    +---- erasure, OPTIMIZE, VACUUM |
    Airflow DAGs start, retry and time out the jobs                |               v
    pipeline monitor: rows, sweeps, incidents <---- monitored() ---+     data-quality gate

| part | state | operations | hard behaviour | what makes it correct | model |
|---|---|---|---|---|---|
| Kafka edge consumer, `ingestion/kafka_consumer.py` `_TopicWorker` | batch, pending offsets, positions; group offsets; GCS files; DLQ queue | poll, decode, flush, commit, dead-letter, `_on_assign`, `_on_revoke`, `_on_lost`, stop | write and commit are two steps; rebalances inside `poll()`; session expiry; DLQ delivery is asynchronous; the registry may not answer | never commit past a record that is not accounted for; duplicates only as the price of a fault; no partition left unread | EdgeConsumer; its promise: Delivery |
| its process: `DataPlatformConsumer.start/stop`, signals, metrics lock | flag, event, thread list, lock | start, wait, signal handler, stop, join | the handler runs on the thread it interrupts, perhaps inside start() or another stop(); a non-reentrant lock; joins that give up | a signal ends the process; no worker is abandoned unnoticed | EdgeProcess; a restarted process: EdgeConsumer |
| schema registry client, `ingestion/schema_registry.py` | caches of schemas and id lists | get by id, latest, id list | ids cached for ever; two calls are no snapshot | a query's schema and id list belong together | BronzeStream (`ResolveReader`, `KnownIds`); EdgeConsumer (no answer) |
| Bronze job, `processing/bronze_streaming.py` | per topic a query; checkpoint; Delta txn version | start, await, stop, micro-batch | replay after a crash; two applications on one checkpoint; rollback | each record once in Bronze, none lost but to Kafka's retention | BronzeStream; its promise: EffectivelyOnce |
| Silver job, `processing/bronze_to_silver.py` | checkpoint; target; quarantine | the foreachBatch handler | two MERGEs are not one transaction; lazy re-evaluation; overlapping DAG runs | one current row per key, as the last batch left it; history only grows; nothing dropped unseen | SilverMerge |
| pipeline monitor, `observability/pipeline_monitor.py` | run rows in BigQuery, incidents | start_run, end_run, reconcile_stale_runs, freshness sweep | crashes between a row and its incident; inserts and pages lost; sweeps race with runs | every run gets a final row; no failure on record that nobody is told of | PipelineMonitor |
| `monitored()` and the task callables, `orchestration/spark_jobs.py`; the three DAGs, `airflow_dags/dags/` | DAG runs, tries, running applications | start, retry, time out, sweep | timeout of four hours against stale after two; killed workers leave applications behind; DAGs know nothing of each other | no run is failed while its worker waits for it; every DAG run ends | Orchestration; the rows: PipelineMonitor; the gate's retries: QualityGate |
| data-quality framework and gate, `validation/data_quality.py`, `dq_runner.py` | suite cache, reports, score rows, exit code | validate every table, score, report, alert, decide | each side effect may raise; retries in new processes | opens only on healthy tables; every table tried | QualityGate |
| expectation engines, `validation/data_quality.py`, `distributed_dq.py` | none (pure) | pandas engine, one-pass Spark engine, violation extractor | nulls, empty tables, casts, denominators | both engines agree; offenders are what was counted | Expectations |
| GDPR erasure, `governance/gdpr_erasure.py` | Delta tables, audit file | DELETE table by table, read the count, audit | the Silver stream is behind; failures in between; the count is another commit's | what was deleted stays deleted, and leaves the disk | Erasure |
| table maintenance, `maintenance/table_optimization.py` | Delta files | OPTIMIZE, VACUUM, table by table | a stream still has to read a file that is no longer current | no unread file is purged; old files are | Erasure |
| seasonal baselines | none | median, MAD on floats | rounding | -- | not modelled: statistics; a nondeterministic verdict in PipelineMonitor |
| lineage emitter, Prometheus facade | none read back | fire and forget | -- | -- | not modelled: nothing depends on it |
| PII masking | none | pure string functions | -- | engines agree | not modelled: no job calls it; a question of hash functions |
| configuration helpers, Terraform | none | -- | -- | -- | not modelled: no behaviour |

`PROJECT.json` lists the hazards at their lines, each with the properties that would
catch it going wrong.

## 2. The modules

Each system module has its constants with a named assumption, its variables, one
action per handler or per durable step of one, `Next`, `Spec`, and a section of
properties. Operators whose comment begins with "Mutant" are deliberately wrong
variants of the definition that follows; no specification uses them. They show that
each property notices a plausible mistake in the code. An `MC` module instantiates
its system for TLC and states what the system does *not* promise (section 5); a
`_proofs` module holds its theorems.

### EdgeConsumer: the worker and its group

`pc[r]` is where a replica's thread is. `Poll` decodes one message into `batch` or
hands it to the DLQ producer; when the batch is full (or `PollNothing`: the timer)
the worker goes to `write`, then `commit` (`_flush` has exactly these two durable
steps). `after` remembers who called `_flush`: the loop, `_on_revoke`, or the end of
the thread. An exception may leave `poll` (`Thrown`) or `_flush` after its write, before
or after the commit (`FlushThrows`), upon which `close()` calls `_on_revoke` and the
same batch is flushed again. The coordinator is external: it assigns free partitions (`Assign`), takes
them away through the callback (`Revoke`), or expels a member whose session expired,
which goes on unaware until its next poll or commit fails (`Expel`, `Lost`, `Rejoin`).
`bronze`, `dlq` are what outlives a process; `dropped` and `dlqLost` are history
variables for what the code counts or logs as lost, `abandoned` for the dead letters a
crash takes from a producer's queue, of which no line and no counter speaks. Every fault draws on its own
budget `MaxFaults[kind]`; "registry" is a schema lookup that fails for a sound message,
which `_handle_message` cannot tell from a message that does not decode. Abstracted:
the batch is the set of its records (its order and encoding do not matter to any
property); metrics are left out but for the lag sample, `SampledLag`.

### Delivery: what the worker promises

Delivery is the edge consumer without replicas, batches or rebalances: records are
stored, queued for the dead letters, dead-lettered, reported or vanished, none of which
is taken back, and the committed offsets move in a step of their own, over records that are
already handled. EdgeConsumer implements it: `Delivered` is the instance with `Stored`
(records with a Bronze copy), `Queued` (the union of the producers' queues) and
`Reported` (dropped batches and lost dead letters) substituted, and `DeliverySpec` its
specification. A crash of the consumer is a `Vanish` there: queued letters are gone and
nothing is reported. A poll or a rebalance is a stutter. Delivery says nothing of what the batch of a failed
write becomes: that it is never read again is a matter of section 5.

### EdgeProcess: start, stop and signals

One action per statement of `start()` and `stop()`. The handler runs `stop()` on the
main thread wherever that is: `frame` is the stack of handler calls, the innermost
runs, and the one below it waits, with the lock if it was in its snapshot. The daemon
threads go round their loops (`Run`, `LeaveLoop`), take the metrics lock (`Acquire`,
`Release`) and, if workers, may die of an exception. `overdue` are the threads a join
gave up on after its 30 seconds, `early` says that a signal came before `start()` had
returned. What a worker does with its messages is EdgeConsumer's.

### BronzeStream: queries over a shared checkpoint

An application (`Apps`; `Continuous` or availableNow) starts one query per topic, in
turn: `ResolveReader` asks for the latest schema, `Launch` lists the ids (from the
client's cache after the first topic: `KnownIds`) and starts the query. Producers may
register versions in between. Then `Plan` appends the end offset to `offsetLog`, `Write`
is the sink's call (`Outcomes`: route every message; `Sink`: append with
`txnAppId`/`txnVersion`), `Commit` enters the commit log. A query reads both logs only
when it starts, so that two applications on one checkpoint collide exactly where Spark
makes them collide: on the log entries. `Outcomes(m, n, k)` is `transform_batch` for
message `m` in a query that decodes with version `n` and lists `k` versions, with SQL's
three-valued logic for a NULL value. `Expire` is Kafka's retention, which may delete a
record that nobody has read; `Reads` passes over it (`failOnDataLoss=false`). `Exit` is `await_termination`. Spark, Delta and the
registry are external.

### EffectivelyOnce: what the Bronze job promises

EffectivelyOnce is the Bronze job as a reader of its tables sees it, without
applications, queries, batches or retries. A table gains, in one step, rows of records it
does not have, none of them behind the committed end of the topic (`Append`); that end
moves in a step of its own (`Commit`), over records that are in the table or have no row
to give (`void`: those with a NULL value, and those that Kafka has deleted: `Expire`).
Restoring a checkpoint (`Restore`) takes the
end back, and from then on (`restored`) a commit may pass over records that are missing:
bronze_rollback.cfg shows that it does. BronzeStream implements it:
`Table` is the instance with `data`, the end of the last batch in the commit log, and
`rollbacks > 0` substituted, and `TableSpec` its specification. A replay that Delta
recognises, a planned batch and a query's end are stutters.

### SilverMerge: the foreachBatch handler

`pc[w]` walks through the statements: quarantine, probe (`_table_exists`), create,
then retire and insert (the two MERGEs of SCD type 2) or merge (type 1), commit. Each
is one Delta commit; `Abort` may come between any two. `Dedup` is the set of results
`row_number()` may produce; it is evaluated once per statement, because the
DataFrame is lazy. A row is its key, its order column and the hash of the rest.
`version` is the target's Delta version and the clock of the validity intervals.
`QuarantineOf` is the path the code derives from the job's source, and `Superseded` the
condition of the first MERGE: the hash differs, whatever the order columns say. `ends`
in the checkpoint keeps where batches ended, to say which row the last batch won with.

### PipelineMonitor: runs, rows, sweeps

A run's process books its running row, works, books its final row, then checks and
alarms (`StartRun`, `Work`, `EndRun`, `RunChecks`, `FireAlarm`); it may die in between.
`recorded[r]` are the statuses of its rows, `verdict[r]` that of the latest one. The
sweep is split at each of its durable points: `SelectStaleRuns` is the query, a turn of
the loop is `Supersede` (the "failed" row) and then `Announce` (the incident, unless
`slack_min_severity` is above P2), and `SweepDies` may come between any two. `Fire` is
one incident with its page; either call, or both, may be lost (`Lose`), as no caller
looks at their result. `QueriesResolve` says whether the warehouse accepts column
references the statements make but do not provide (see section 5).

### Expectations and QualityGate

`Expectations` has no behaviour: it states both engines and the violation extractor as
operators over tables and suites, and what is to hold of the `table` and `suite` at hand.
Ratios are compared exactly where the code compares floats; NaN is not told apart from
null; a regular expression is a list of literal alternatives. `Comparable` lists the
differences between the engines that the code has; outside of them `SameVerdicts`
requires equality, and `MCExpectations` builds every small table and suite to check it on.

`QualityGate` extends it with the program `dq_runner.py`: `Build` (`build_framework`),
then per table read, load the suite (cache by name), evaluate, report, score row, Slack,
PagerDuty, raise or return; then the exit code, and Airflow's retry as a fresh process.
`table' \in Tables` at every read: the table may have changed since the last try.
`Breaks` is any external call that raises, before or after it took effect, the reading
and parsing of a suite file included; `Dies` the end of the process anywhere, and an
exception where no `try` is (`build_framework`). In the repository the
gate is the last task of the Silver DAG, so that the exit code is all it promises;
`DQ_GATE_ENABLED` is not read by the code.

### Erasure: the request, maintenance, and the writers they meet

Followed are the files that hold one subject's rows, in Bronze and in Silver, current
(`age = Live`) or removed some days ago and still in storage. The eraser (`erase()`:
`Delete`, `ReadMetric` table by table, then `WriteAudit`) and maintenance
(`run_maintenance`: `Optimize`, `Vacuum` table by table, night after night) each walk
through their statements, every one of which may fail; the eraser may crash anywhere.
They meet Bronze's appends and the Silver stream, which plans files in its own time
(`PlanBatch`), reads them when it merges (`MergeBatch`, again after a crash) and ignores
later removals, as `skipChangeCommits` makes it. `metric` is the `numDeletedRows` of a
table's latest commit, whoever made it, because that is what
`_last_operation_metric` reads; `OtherDelete` is the DELETE of another request or job,
which sets it and may rewrite the files that hold the subject's rows (`OtherTargets`:
the tables it meets). `overstated` are the tables of which the audit would say more than
this run deleted, `others` those whose latest commit was a DELETE of somebody else when
the run began or at any time since. The module composes two components and their
environment; the Silver merge is reduced to one upsert, its statements are
SilverMerge's.

### Orchestration: DAG runs, attempts, applications

A slot in `Run` holds a run of its DAG: `at` is the position of the current task, `try`
its attempts, `working` whether one is running, `age` for how long. An attempt returns
or raises (`Return`), overruns the smaller of its `execution_timeout` and the timeout of
`run_spark_job` (`TimesOut`: `subprocess.run` kills its child), or dies with its worker
(`WorkerDies`), which leaves the Spark application running and its row open (`orphans`,
of any task that runs an application). `Reconcile` is the nightly sweep: it fails every
open row that is too old, attended or left behind, at any moment while the task of that
name runs. `MayStart` is `max_active_runs`; it counts DAG runs and knows nothing of what
a killed worker left behind. The backfill's six-hour `execution_timeout` never bites: the four hours
of `run_spark_job` come first. Airflow (scheduling, retries, `max_active_runs`) is
external; its parameters are the DAG files'.

## 3. What the runs check

| run | instance | properties | shows |
|---|---|---|---|
| edge_faults | 2 replicas, 1 partition, 2 messages (the first does not decode), batch 2, DLQ queue of 1; one each of GCS failure, DLQ failure, failed schema lookup, crash, expulsion, exception, stop | OnlyCrashedLettersVanish, EventuallyAccounted, DeliverySpec | no combination of faults loses a record without a trace, but for the dead letters a crash finds in memory, or leaves one unread; the worker implements Delivery |
| edge_clean | 2 replicas, 2 partitions, 2 decodable messages each; any three of a crash, a failed commit, an exception, an expulsion, a rebalance | AtLeastOnce, DuplicatesArePaidFor, CommittedMonotonic | at-least-once; a duplicate per fault at most; committed offsets only grow |
| edge_gcs_loss | one failed GCS write | AtLeastOnce, violated | section 5 |
| edge_process | 1 topic (three threads), 2 signals anywhere | GracefulExit, ShutdownEnds | a signal ends the process whatever threads, lock and another signal do; nobody is left behind but whom a join gave up on |
| silver_jobs | a type 2 and a type 1 job, each alone on its source, one worker each; 3 and 2 rows of 1 key (or NULL), 2 values, in order and late; 1 abort, 1 failed probe | TypeOK, OneCurrent, NoFabricatedHistory, IntervalsDisjoint, CurrentIsLastMerged, NoSilentDrop, HistoryKept, EventuallyMerged | replays from any statement leave one current version, sound intervals and what the last batch merged; nothing is dropped unseen; history is kept until a probe fails; both jobs finish |
| bronze_streams | a continuous application and a backfill, 1 topic of 2 records (foreign id, bad magic, undecodable, of an evolving schema, with a good one), 2 versions, 2 failures, 1 rollback; retention may delete any record at any time | NoDuplicateRow, NoRowLost, ReaderIsListed, TableSpec, EventuallyIngested | each record at most once, always; none lost before a rollback but to retention; a query never quarantines what its own schema decodes; the job implements EffectivelyOnce; ingestion goes on |
| monitor_sweeps | 2 runs of one pipeline, one row per sweep, clock to 2; 1 death of a task or a sweep, 1 lost row, incident or page | FailuresAreReported | no run is on record as failed without an incident, but one for each death between row and incident and each lost call |
| monitor_unresolved | the same without losses, and with the query as it is written | EveryRunClosed, violated | section 5 |
| engines_agree | every table of at most 3 rows and every suite of at most 2 of the expectations in MCExpectations | SameVerdicts, OffendersAreCounted | the engines agree outside the listed differences |
| gate_promotion | a Silver and a Bronze table on one suite of 20 expectations; Slack, PagerDuty and score table on; 2 tries, 2 raising calls or deaths | PassMeansHealthy, EveryTableTried, UnpagedP1Fails, OutcomeMatchesReport, AlertsHaveReports, GateDecides | the gate opens on healthy tables only, hides no table, lets no P1 through whose page was skipped, alerts with cause, decides |
| erasure | retention of 1 day, 1 append of the subject's row at any time, 2 runs of the request, another request's DELETE on Silver; statements fail and the eraser crashes at will | StaysErased, BacklogReadable, ClaimedByOthersOnly, EventuallyPurged | with nothing on its way the erasure holds and reaches the disk; unread files are kept; only another DELETE makes a run claim too much |
| orchestration | slots for an hourly, two nightly and a backfill run; limits of 1, 1 and 2 units of an hour and a half, stale after 2; 1 application left behind | TypeOK, AttendedRunsKept, RunsEnd | the sweep fails no attempt that somebody waits for; every run ends |

`gate_alerts.cfg`, kept beside the runs, is `gate_promotion` for the framework at large:
three tables, one without a suite file and one with an expectation nobody can evaluate.
It passes too, UnpagedP1Fails included.

Why the bounds suffice. *Edge*: one flush needs two records to have something before
and something after a failure; two replicas are the smallest group that can hand a
partition over, two partitions the smallest in which a revoke leaves something behind;
each fault kind once, in every order and together with every other of the run (in
edge_clean up to three of the five in one behaviour, the constraint `AtMostThree`), and
the general statements are proved for all bounds. Rebalances and failed commits are in
edge_clean, GCS, DLQ and registry failures in edge_faults; both together exceed a
practical run. *Process*: the second signal may interrupt the first at every statement;
a third only adds another frame of the same kind. *Silver*: three rows of one key are a
first version, a change and either a change back or a row that is late, within its batch
or by one or two batches; keys are independent (every statement is keyed), so that one
suffices. One abort replays a batch from any statement, one failed probe falls into the
first attempt or into the replay. *Bronze*: topics do not interact but through
`await_termination` and the registry's cache; two failures interrupt a replay; one
backfill is enough to collide with every step of the stream; each log has a good record
and one of another kind, so that a batch of both, and two batches of one, occur. *Monitor*:
two runs let one be the other's history and compete for a sweep that takes one row at a
time (`LIMIT 100` in the code), so that a run has to wait for the next sweep. *Gate*:
none to four failures of twenty score 100, 95, 90, 85 and 80, against the thresholds 95
of Silver and 90 of Bronze: on each threshold, five points below it, and on both sides
of either; an empty table and one that lost its column add the engines' odd cases. Two
tries and two breaks let a broken try be followed by a good or a bad one. *Erasure*: one
append before, between or after any two statements; failures and crashes are not bounded;
two runs let one find the other's leavings, and a DELETE of another request may fall
before, between and after them; a day more than the retention makes a file old enough.
*Orchestration*: two nightly slots are what `max_active_runs` must keep apart, since a
sweep of one would meet the maintenance of the other; one try more than each DAG's
retries; one application left behind, of whatever task. The four hours of
`run_spark_job` are cut to three and the backfill's limit to one unit, which changes no
order between limits that meet.

Deadlock is checked in erasure and orchestration, whose systems never stop. Elsewhere
`CHECK_DEADLOCK FALSE`: with bounded messages, rows, runs and faults each instance
legitimately comes to rest, and a process that has exited does too; that it rests in
the right place is what the liveness properties say.

Symmetry is used in edge_clean (replicas, and partitions since every message decodes) and
in monitor_sweeps (runs of one pipeline), neither of which checks liveness.

### Fairness

Only used where a liveness property is checked, and never on a fault; weak unless said.

* EdgeConsumer: a live thread takes its next step (an OS thread in `while`), the flush
  timer runs (`poll` returns within a second), a member that lost its session rejoins
  (librdkafka does), the coordinator assigns an unowned partition to *some* member, a
  process that is down is restarted (the container's restart policy), librdkafka
  delivers or times out each dead letter. Nothing restarts a thread that died in a
  live process, because nothing in the code does.
* EdgeProcess: the main thread takes its next statement, a thread leaves its critical
  section (it only copies numbers and logs), and `stop()` gets the lock in the end if
  it is free again and again (strong: the metrics lock is held for microseconds).
  Nothing is assumed of the threads' loops: joins have a timeout.
* SilverMerge: a worker takes its next statement, and a stopped query is started again
  (processing-time trigger; hourly DAG and its retries).
* BronzeStream: a query takes its next step; an application whose main has ended is
  gone; the continuous one is started again. A backfill needs an operator: no fairness.
* PipelineMonitor (monitor_unresolved only): the clock, live processes, and the sweeps,
  which Airflow schedules for ever. A sweep runs its loop to the end unless it dies.
* QualityGate: a running program goes on unless it dies, and Airflow starts every retry
  it owes.
* Erasure: days pass; the nightly DAG runs maintenance; an OPTIMIZE or VACUUM that is
  tried every night succeeds some night (strong, per table, and only on tables where it
  can succeed). Nothing is assumed of the eraser or the stream.
* Orchestration: the scheduler starts the attempts it owes, time passes, a task that is
  over its limit is stopped; and BigQuery answers, so that a sweep returns: those two
  tasks have no timeout (section 5).

## 4. What is proved

The proofs hold for all values of the constants under the modules' named assumptions.
These are typing only (`EdgeAssumption`, `SilverAssumption`, `BronzeAssumption`,
`ProcessAssumption`, `ErasureAssumption`, `MonitorAssumption`, `SpecsAreASequence`,
`FilesHoldSuites`, `BoundsAreNaturals`, `NullIsNotANumber`, `NumbersAreIntegers`), but for
`AStartIsContained` (a pattern that matches at the start matches somewhere) and
`OrchestrationAssumption`, which also says what the DAG files and `MonitorConfig` say:
merge and gate time out before a run counts as stale.

**EdgeConsumer_proofs.** `TypeCorrect`: TypeOK. `OnlyCrashIsSilent`:
OnlyCrashedLettersVanish, for any number of replicas, partitions, messages, faults. A
crash is not said to report anything: the theorem says that the dead letters it finds in
a producer's queue are the only records ever lost without a trace. That is not
inductive: a commit takes its offsets from `pending`, so the invariant `Inv` adds that
what lies below a worker's `pending` entry, and what lies below its `position`, is
accounted for, gone with its process, or still in its batch (HandledBehindPending,
HandledBehindPosition), and that a worker about to commit has its whole batch in Bronze
(WrittenBeforeCommit); LetterInv says what a queue may hold, and that only a crash
empties one unreported. These survive a stale `pending` of a partition that has moved on, which is exactly
what makes the code's untidy revoke path (section 5) harmless to this property.

`AtLeastOnceWithoutGcsFailure`: AtLeastOnce when no GCS write and no schema lookup fails
(the assumption is necessary: edge_gcs_loss, edge_registry); from `Inv` and the
further invariants that only undecodable records are dead-lettered and that nothing was
dropped. `OffsetsNeverGoBack`: CommittedMonotonic, and `CopiesArePaidFor`:
DuplicatesArePaidFor, when nothing is dead-lettered (`NoDeadLetters`: every message
decodes, no lookup fails; edge_rebalance_dup shows why: the `pending` a dead letter
leaves behind an empty batch travels with its worker). Then a worker has offsets to
commit only while it has a batch, only for partitions it is at, and each partition has
one reader (GroupInv), so that only an owner moves a committed offset. For the copies
the invariant is an account (CopiesPaidFor): the copies of a record, plus the workers
that hold it or have yet to come to it, plus one if its offset is open to the next owner,
never exceed one plus the faults so far, an exception out of `_flush` being one of them.

`ImplementsDelivery`: DeliverySpec, the refinement. The initial
states map to Delivery's; each action maps to WriteBatch, DeadLetter, Settle, Commit,
Vanish, or to a stutter. A commit is Delivery's only because of the invariant `Inv`, which
the proof imports; a failed write only because a batch never holds a record that does not
decode (DecodedOnly).

**EdgeProcess_proofs.** `TypeCorrect`: TypeOK. `ExitsGracefully`: GracefulExit, for any
number of topics and of nested signals. A completed `stop()` has settled every thread
(ended, or given up on); inductively, each handler frame has settled the threads its
loop has passed, and the flag is down only while a frame is on the stack or after one
has settled everything (SettledInv).

**BronzeStream_proofs.** `TypeCorrect`: TypeOK. `NeverTwice`: NoDuplicateRow, for any
number of applications, topics, batches, failures and rollbacks. What keeps two appends
apart is that the offset log grows (Increasing), that a batch Delta has not seen starts
behind every row there is, and that after a rollback the first batch that is planned
anew reaches past all of them (RowBehind). `NeverLost`: NoRowLost, about the records that
have a value and that Kafka has still (`Owed`): what retention deletes unread is passed
over, and only that; until a rollback what Delta saw last is complete, at most one batch
ahead of the commit log, and so is whatever a query is about to commit (CompleteInv). `ReaderAlwaysListed`: ReaderIsListed,
for applications of one topic (bronze_shared_subject: with two it is false): the schema
is resolved before the first list is fetched, and versions are only added (ListedInv).

`ImplementsEffectivelyOnce`: TableSpec, the refinement, for any number of applications,
topics, batches, failures and rollbacks. That the rows of an append are of new records is
NoDuplicateRow of the state it leads to; that a commit leaves nothing out is CompleteInv
of the state it leads to; and that no row goes behind the committed end, whoever is late
with it and whatever was rolled back, needs one invariant more: a batch that is committed,
or about to be, is one that Delta would skip or that has no rows (SettledInv).

**SilverMerge_proofs.** `TypeCorrect`: TypeOK, with the planned and finished offsets
within the source (`InBounds`); in particular no NULL key reaches a target. The other
theorems each name the condition they need, crashes, replays, late rows and failed probes
included:

- `OneCurrentPerKey`: OneCurrent, assuming one worker per job (`SingleWriter`) and no two
  rows of a key with the same order column (`NoTies`). Both are necessary:
  silver_two_writers.cfg and silver_tie.cfg. The invariant adds RetiredBeforeInsert: when
  a worker is about to insert, every current row of a key in its batch is identical to the
  update, which is what the first MERGE leaves behind and the second relies on.
- `VersionsApart`: IntervalsDisjoint, under the same two conditions. The clock of a target
  is ahead of all its versions (Clocked), and RetiredBeforeInsert keeps the second MERGE
  from opening a version beside an open one.
- `NothingDroppedSilently`: NoSilentDrop, for any number of workers and jobs, without a
  further assumption; the property is about the jobs that alone read their source
  (`Alone`), since the path is derived from it, and silver_shared_source.cfg shows the
  others lose rows. Delta skips a batch only when it has already seen it whole
  (SeenIsSaved), and a worker past its quarantine write works on a batch whose invalid
  rows are saved, or on one of the past (BatchesPlanned).
- `HistoryIsKept`: HistoryKept, assuming `SingleWriter`; the property is about the time
  before a probe misses a target, in which a target that a worker is about to create is
  not there (NeverOverwrites).
- `NothingFabricated`: NoFabricatedHistory, assuming `SingleWriter` and no row delivered
  twice (`RowsOnce`). Every version comes from a row of a finished batch, or is the
  current one made of the latest row of the planned batch (Sourced), which is why its
  replay changes nothing.
- `CurrentIsTheLastMerged`: CurrentIsLastMerged, assuming `SingleWriter` and `NoTies`,
  with rows in any order: before a probe fails, a key shows between two batches the row that won its
  last batch (`Wins`). A key the planned batch does not touch shows its winner, and once
  the handler has returned so does every key of the batch; in between a key may have no
  current version at all (FreshInv). The stronger CurrentIsLatest, by the order column,
  is false for late rows (silver_late.cfg).

**QualityGate_proofs.** `TypeCorrect`: TypeOK. `EveryTableIsTried`: EveryTableTried,
from the loop invariant LoopInv (what lies before `at` has ended, what lies after is
pending, `failures` is positive iff one of them was blocked). `OpensOnHealthyTables`:
PassMeansHealthy, for all suites, thresholds, tables and numbers of tries; ReportInv
says that a table that ended "ok" or "soft" has a report of this very try within five
points of its threshold, and FiniteInv that the results counted are finite, so that
the arithmetic of the score applies. `OutcomesAreReported`: OutcomeMatchesReport, from
ReportInv and because reports are only added. `AlertsAreReported`: AlertsHaveReports;
inductively, only a score below its threshold is on its way to Slack or a page
(AlertInv). `SkippedPagesFail`: UnpagedP1Fails; only the table at hand has a report of
this try and no outcome yet, and a P1 comes to its verdict paged for (PageInv).

The same module proves the two statements about Expectations, the engines that score:
`EnginesAgree`: SameVerdicts, and `ExtractorNamesTheViolations`: OffendersAreCounted.
They are about states, not behaviours: whatever table and suite are at hand, of any
number of rows and expectations, and whatever the cells denote as numbers and match as
text. `AtHand` is typing only: rows and alternatives are sequences, bounds are integers.
The one argument with counting in it is that a single null is no duplicate for either
engine (`OneNullIsNoDuplicate`).

**Erasure_proofs.** `TypeCorrect`: TypeOK. `ErasureHolds`: StaysErased, for every
retention, number of appends and of runs: an unexposed erasure has an empty backlog from
its start, so that nobody can write the subject's rows, and the tables its loop has
passed without an error hold none (Cleared). `BacklogKept`: BacklogReadable: a file has
been out of its table for no more days than have passed since its append (Readable), so
that VACUUM's age limit bounds the stream's delay too. `OverclaimsAreOthers`:
ClaimedByOthersOnly, with the DELETEs of other requests, and of earlier runs of this one,
among the writers: of the tables a run has still to come to, and of the one at hand, the
latest commit deleted no more than the run counted, unless it is another's (Honest).

**Orchestration_proofs.** `TypeCorrect`: TypeOK. `SweepSparesTheAttended`:
AttendedRunsKept, for a sweep that fails every open row that is old enough, those of
applications left behind included. It rests on OneRun (one active run of a DAG): an
attended application old enough to be stale can only be the maintenance itself, and that
runs in the sweep's own DAG, after it.

**PipelineMonitor_proofs.** `TypeCorrect`: TypeOK. `FailuresReported`:
FailuresAreReported, for any number of runs, pipelines, sweeps, deaths and lost calls, if
the sweep fires incidents at all (`SweepIsLoud`: the Slack threshold is not above P2; with
a higher one `reconcile_stale_runs` is silent by intent). What is proved is an account: the
runs on record as failed of which nobody was told, and nobody is about to be, are no more
than the processes that died and the calls that were lost. A sweep closes a run some time after its query selected it, and by then must still be
right to call it stale; so the invariant adds that what is selected was stale when it was
selected and is never born again, and that a task has an outcome only once its work is
over, and that a sweep's turn comes to one run at a time (SweepInv).

**Only model-checked.** The seven liveness properties of the passing runs, and the fairness
under them (out of the prover's reach): EventuallyAccounted, ShutdownEnds,
EventuallyMerged, EventuallyIngested, GateDecides, EventuallyPurged, RunsEnd. Every other property of the passing runs is proved. The type invariants of
EdgeConsumer, EdgeProcess, BronzeStream, QualityGate, Erasure and PipelineMonitor are
proved and need no run.

## 5. Where code and documents disagree

Two runs end in a counterexample; `PROJECT.json` quotes the comments under "findings".

* **edge_gcs_loss**: after a failed GCS write `_flush` clears the batch but does not
  seek back; the next successful flush commits past the lost records.
* **monitor_unresolved**: the reconciliation query filters its outer SELECT on a column
  the inner one does not return; the warehouse refuses it, the sweep logs that and
  returns, and the running row of a task that died is never superseded.

Further configurations reproduce, with the same models, what the code does not promise,
or a document promises and the code does not keep. Those with a `.cfg` are kept beside
the runs; the others are the named configuration with the changes given, and the
property in place of its own.

| configuration | property | what happens |
|---|---|---|
| edge_registry.cfg | AtLeastOnce | a registry that does not answer sends sound records to the dead letters (kafka_consumer.py 474) |
| edge_rebalance_dup.cfg | NoDuplicateBronze | a revoke with an empty batch keeps `pending_offsets` (507); committed later, they move another owner's offset back |
| edge_dlq_crash.cfg | DeadLetterKept | a crash loses dead letters that were only queued (600) while their offsets are committed |
| edge_registry.cfg, `MaxFaults <- NoFault` | LagShowsBacklog | the lag is committed minus position (654), never positive in a running worker |
| edge_start_signal.cfg | NoneAbandoned | a signal inside `start()` joins the threads known so far; the others run on, and are cut off at exit (740) |
| edge_process.cfg, `MaxSignals = 1` | EverySignalEnds | a signal between `install_signal_handlers()` and `start()` is overwritten by it (723) |
| edge_second_signal.cfg | NoSelfDeadlock | a second signal during the first one's snapshot waits for the lock below it on the stack (764) |
| edge_process.cfg | DeadWorkerNoticed | a worker that dies leaves `is_running()` true (438) |
| silver_two_writers.cfg | OneCurrent | two applications on one job (hourly and backfill DAG) interleave their MERGEs and leave two current rows of a key (bronze_to_silver.py 263); BACKFILL_RUNBOOK.md 54 asks for exactly one |
| silver_tie.cfg | OneCurrent | two rows with one order value: each MERGE may pick another (157) |
| silver_late.cfg | CurrentIsLatest | no MERGE compares order columns (226): a late row wins |
| silver_redelivery.cfg | NoFabricatedHistory | A, B, A again makes three versions of two rows (237) |
| silver_jobs.cfg, HistoryKept without its premise `probeErrors = 0` | HistoryKept | any probe error reads as "no table", and the table is overwritten (279) |
| silver_shared_source.cfg | NoSilentDropShared | two jobs on one source share path and txnAppId (147, 348) |
| bronze_rollback.cfg | CommittedIsIngested | after a checkpoint is rolled back, a batch planned anew with more records under a known batch id is skipped, and committed (bronze_streaming.py 299); 282-284 says it is safe |
| bronze_shared_subject.cfg | ReaderIsListed | two topics of one subject: the second's list comes from the cache, its schema does not (236, schema_registry.py 128) |
| bronze_evolution.cfg | NoMisreadRow | records of older versions are read with the latest schema alone (356) |
| bronze_evolution.cfg | QuarantinedAreUnregistered | the id list is that of the query's start (237) |
| bronze_rollback.cfg, `Logs <- WithNull` | NothingDropped | a NULL value is neither valid nor invalid (353, 368) |
| bronze_rollback.cfg, `Logs <- WithBad` | OnlyValidRows | invalid rows are appended to the table (295) |
| bronze_streams.cfg | OneWriterPerTable | nothing stops the continuous application during a backfill (260) |
| bronze_rollback.cfg, `NTopics = 2`, `MaxRollbacks = 0`, `SPECIFICATION FairSpec` | EventuallyIngested | with two topics, the second's failure is not noticed (223) |
| monitor_verdict.cfg | VerdictStands | a finished run's running row ties with its final one (pipeline_monitor.py 570), or it ends between query and insert |
| engines_agree.cfg | Parity | `mostly` is not passed on for not_null, and nulls, sums of nothing and alternations differ (distributed_dq.py 92) |
| engines_agree.cfg | DuplicatesAsPandas | nulls are duplicates for one engine only (173) |
| engines_agree.cfg | EntireSuite | of two row-count expectations the first gets no result (324) |
| gate_promotion.cfg, `PagerDuty = FALSE` | GateP1Pages | the gate's framework has no PagerDuty key (dq_runner.py 42) |
| gate_alerts.cfg, `MaxBreaks = 0` | ReportedP1Pages | the Slack text formats None and raises before the page (data_quality.py 920) |
| gate_promotion.cfg, `MaxBreaks = 0` | EvaluatedIsReported | one missing column takes the whole suite's report with it (distributed_dq.py 337) |
| gate_promotion.cfg | NearMissIsP1 | the severity bands are the reverse of the README's (data_quality.py 757) |
| gate_promotion.cfg, `Specs <- OverridingSpecs` | OwnSuite | the cache goes by name, not by path (445) |
| gate_promotion.cfg, `Specs <- ZeroSpecs` | OverrideHonoured | an override of 0 is taken for none (107) |
| erasure_backlog.cfg | NoWayBack | a Silver batch planned before the erasure, or replayed, brings the row back (gdpr_erasure.py 128) |
| erasure_recount.cfg; erasure.cfg, `MaxRuns = 1` | NeverOverstated | a run that finds nothing makes no commit and reads the count of the run before, or of another request (170) |
| erasure.cfg | EveryRunAudited | a crash before the last line leaves deletions without a record (165); the docstring (14) promises one |
| erasure.cfg, `Unoptimizable = {2}` | EventuallyPurged | an OPTIMIZE that always fails skips the VACUUM for ever (table_optimization.py 114) |
| erasure.cfg, `DryRun = TRUE` | EventuallyPurged | the default purges nothing (118) |
| orchestration_overlap.cfg | MergesNeverOverlap | an hourly merge meets the backfill's, or a killed worker's application meets its own retry (edp_silver_hourly.py 40: "never overlap merges") |
| orchestration.cfg, `SPECIFICATION SpecNoAnswer` | RunsEnd | a sweep that hangs has no `execution_timeout` (46) and blocks every later run of its DAG |

Consequences for the passing runs, which say what the code does keep.
`OnlyCrashedLettersVanish` names the one silent loss at the edge, dead letters in the
memory of a process that crashes. `CurrentIsLastMerged` says which row wins, where
`CurrentIsLatest` would be the claim of bronze_to_silver.py 26-27; `NoSilentDrop` is about
jobs alone on their source, `HistoryKept` about the time before a probe fails.
`NoRowLost` excuses what Kafka has deleted, and with `EventuallyIngested` stops promising
anything after a rollback; the latter is about topics whose records all become rows
(`Readable`). `ReaderIsListed` is checked with one topic per subject. `monitor_sweeps` sets
`QueriesResolve = TRUE`: it checks how a sweep reports once its query is answered, and
monitor_unresolved that as written it never is. No property is stated of the freshness
check: the DAGs' monitor has no SLA configuration (spark_jobs.py 179), so that it compares
nothing. `UnpagedP1Fails` says that a P1 whose page was skipped at least closes the gate,
as an infrastructure error. `GracefulExit` is about starts that no signal disturbed,
`ShutdownEnds` excepts the self-deadlock. `StaysErased` and `EventuallyPurged` are about a
subject none of whose rows is on its way from Bronze to Silver, which an operator has to
ensure, since nothing in the code does; `ClaimedByOthersOnly` says that a wrong count
needs somebody else's DELETE, or an earlier run's, as the latest commit.
`AttendedRunsKept` is about attempts whose worker is there to wait: the row of an
application that a killed worker left behind is failed while it works.

## 6. Not modelled

Statistics on floats (baselines, anomaly scores; also the rounding of scores and
ratios), hashing (PII masking), text (SQL, messages, names, environment variables),
metrics and lineage output that nothing reads back, declarative infrastructure. Of
modelled components: `get_metrics`, a second `start()` in one process and the reading of
the configuration; the registry's compatibility check and credentials; the monitor's
health summary and table creation; the deprecated sampling path of the framework.

## 7. Plan

Done: the eight system modules above, the refinements of Delivery and EffectivelyOnce,
eight proof modules. Left, in this order:

1. Orchestration composed with PipelineMonitor's rows, so that the sweep's own race
   (VerdictStands) and the DAGs' timeouts meet in one model.
2. PipelineMonitor: the health summary.
