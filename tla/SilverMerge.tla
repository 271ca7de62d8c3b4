---------------------------- MODULE SilverMerge -----------------------------
(***************************************************************************)
(* The Bronze -> Silver job (src/processing/bronze_to_silver.py): a        *)
(* foreachBatch handler that quarantines invalid rows, deduplicates the    *)
(* rest, and merges it into a Delta table, keeping either the current      *)
(* state (SCD type 1) or the whole history (SCD type 2) of every key.      *)
(*                                                                         *)
(* Each Delta statement commits on its own; a worker may stop between any  *)
(* two of them, and the streaming checkpoint makes the next worker replay  *)
(* the same batch.  Several workers may run one job: the hourly DAG, the   *)
(* backfill DAG and a timed-out Spark application know nothing of each     *)
(* other.                                                                  *)
(***************************************************************************)
EXTENDS Integers, Sequences, FiniteSets

CONSTANTS Workers,       \* Spark applications
          Jobs,          \* configured jobs, each with a target and a checkpoint
          JobOf,         \* the job a worker runs
          ScdType,       \* SilverJobSpec.scd_type of a job: 1 or 2
          Tables,        \* Bronze tables
          SourceOf,      \* SilverJobSpec.source_path of a job
          Keys,          \* primary keys
          NullKey,       \* the primary key of an invalid row
          Values,        \* the business columns, up to their hash
          Contents,      \* per Bronze table, the sequences of rows considered
          MaxAborts,     \* how often a worker may stop in mid-batch (bound)
          MaxProbeErrors \* how often _table_exists may fail to see a table (bound)

Row == [key : Keys \cup {NullKey}, ord : Nat, val : Values]

ASSUME SilverAssumption ==
    /\ JobOf \in [Workers -> Jobs]
    /\ ScdType \in [Jobs -> {1, 2}]
    /\ SourceOf \in [Jobs -> Tables]
    /\ NullKey \notin Keys
    /\ \A t \in Tables : \A s \in Contents[t] : s \in Seq(Row)
    /\ MaxAborts \in Nat
    /\ MaxProbeErrors \in Nat

VARIABLES
    bronze,      \* per Bronze table: its rows, in the order a stream reads them
    checkpoint,  \* per job: rows done, end of the planned batch, id of that batch,
                 \* and the commit log: where the committed batches ended
    pc,          \* per worker: the statement it executes next
    batch,       \* per worker: the batch it is processing
    table,       \* per job: the versions in the Delta target
    exists,      \* per job: the target has been created
    version,     \* per job: the Delta version of the target (its clock)
    quarantine,  \* per quarantine path: positions of the quarantined rows
    txnVersion,  \* per quarantine path: last txnVersion written there; -1 for none
    aborts, probeErrors

vars == <<bronze, checkpoint, pc, batch, table, exists, version, quarantine,
          txnVersion, aborts, probeErrors>>

Step == {"idle", "quarantine", "probe", "create", "retire", "insert", "merge", "commit"}
NoBatch == [id |-> 0, lo |-> 0, hi |-> 0]

\* A row version in a target; until = 0 stands for _is_current, _valid_to NULL.
ValidRow == [key : Keys, ord : Nat, val : Values]
Version == [row : ValidRow, from : Nat, until : Nat]
Current(v) == v.until = 0

Bronzes == {f \in [Tables -> UNION {Contents[t] : t \in Tables}] :
              \A t \in Tables : f[t] \in Contents[t]}

TypeOK ==
    /\ bronze \in Bronzes
    /\ checkpoint \in [Jobs -> [done : Nat, plan : Nat, id : Nat, ends : SUBSET Nat]]
    /\ pc \in [Workers -> Step]
    /\ batch \in [Workers -> [id : Nat, lo : Nat, hi : Nat]]
    /\ table \in [Jobs -> SUBSET Version]
    /\ exists \in [Jobs -> BOOLEAN]
    /\ version \in [Jobs -> Nat]
    /\ quarantine \in [Tables -> SUBSET Nat]
    /\ txnVersion \in [Tables -> Nat \cup {-1}]
    /\ aborts \in Nat
    /\ probeErrors \in Nat

Init ==
    /\ bronze \in Bronzes
    /\ checkpoint = [j \in Jobs |-> [done |-> 0, plan |-> 0, id |-> 0, ends |-> {}]]
    /\ pc = [w \in Workers |-> "idle"]
    /\ batch = [w \in Workers |-> NoBatch]
    /\ table = [j \in Jobs |-> {}]
    /\ exists = [j \in Jobs |-> FALSE]
    /\ version = [j \in Jobs |-> 0]
    /\ quarantine = [p \in Tables |-> {}]
    /\ txnVersion = [p \in Tables |-> -1]
    /\ aborts = 0
    /\ probeErrors = 0

-----------------------------------------------------------------------------
(* The rows of a batch *)

\* What the stream of a job reads.
Rows(j) == bronze[SourceOf[j]]

InBatch(w) == (batch[w].lo + 1) .. batch[w].hi

\* Mutant: no row is held back from the merge.
AcceptsNullKey(row) == FALSE

\* validate_and_quarantine: a NULL primary key is unmergeable.
Invalid(row) == row.key = NullKey
Bad(w) == {i \in InBatch(w) : Invalid(Rows(JobOf[w])[i])}
Clean(w) == {Rows(JobOf[w])[i] : i \in InBatch(w) \ Bad(w)}

\* dedup_latest: one row per key, with the highest order column.  Which one, when
\* several tie, row_number() leaves open.
Latest(rows, k) == {row \in rows : row.key = k /\ \A x \in rows : x.key = k => x.ord <= row.ord}

\* Mutant: any row of a key will do.
DedupAnyRow(rows) ==
    {f \in [{row.key : row \in rows} -> rows] : \A k \in DOMAIN f : f[k].key = k}

Dedup(rows) ==
    {f \in [{row.key : row \in rows} -> rows] : \A k \in DOMAIN f : f[k] \in Latest(rows, k)}

-----------------------------------------------------------------------------
(* The streaming query: external, as Spark drives the handler *)

Goto(w, step) == pc' = [pc EXCEPT ![w] = step]

\* The query takes the batch its checkpoint has planned, or plans the next one:
\* the range is in the offset log before the handler runs.
Begin(w) ==
    /\ pc[w] = "idle"
    /\ LET j == JobOf[w] IN
         \E hi \in 1 .. Len(Rows(j)) :
            /\ IF checkpoint[j].plan > 0 THEN hi = checkpoint[j].plan
                                         ELSE hi > checkpoint[j].done
            /\ checkpoint' = [checkpoint EXCEPT ![j].plan = hi]
            /\ batch' = [batch EXCEPT ![w] =
                           [id |-> checkpoint[j].id, lo |-> checkpoint[j].done, hi |-> hi]]
    /\ Goto(w, "quarantine")
    /\ UNCHANGED <<bronze, table, exists, version, quarantine, txnVersion, aborts, probeErrors>>

\* The handler returned: the batch is in the commit log.  A worker whose batch
\* has been committed by another one fails here and stops.
Commit(w) ==
    /\ pc[w] = "commit"
    /\ LET j == JobOf[w] IN
         checkpoint' = IF checkpoint[j].id = batch[w].id
                       THEN [checkpoint EXCEPT ![j] =
                               [done |-> batch[w].hi, plan |-> 0, id |-> batch[w].id + 1,
                                ends |-> @.ends \cup {batch[w].hi}]]
                       ELSE checkpoint
    /\ batch' = [batch EXCEPT ![w] = NoBatch]
    /\ Goto(w, "idle")
    /\ UNCHANGED <<bronze, table, exists, version, quarantine, txnVersion, aborts, probeErrors>>

\* A statement raises, or the application is killed: the handler re-raises, the
\* query ends, and whoever runs the job next replays the planned batch.
Abort(w) ==
    /\ pc[w] # "idle"
    /\ aborts < MaxAborts
    /\ aborts' = aborts + 1
    /\ batch' = [batch EXCEPT ![w] = NoBatch]
    /\ Goto(w, "idle")
    /\ UNCHANGED <<bronze, checkpoint, table, exists, version, quarantine, txnVersion, probeErrors>>

-----------------------------------------------------------------------------
(* The handler, one Delta statement at a time *)

\* Mutant: the version after the last one is taken for a replay too.
UnseenSkipsOne(w, p) == batch[w].id > txnVersion[p] + 1

\* _make_batch_handler: parse_job_specs sets no quarantine_path, so the path is that
\* of the job's source with a suffix, whichever job reads it.
QuarantineOf(j) == SourceOf[j]

\* txnAppId = the path, txnVersion = the batch id: Delta skips a write when it
\* has seen this version of the application, or a later one.
Unseen(w, p) == batch[w].id > txnVersion[p]

\* write_quarantine: appends the invalid rows, if there are any.
Quarantine(w) ==
    /\ pc[w] = "quarantine"
    /\ LET p == QuarantineOf(JobOf[w]) IN
         IF Bad(w) # {} /\ Unseen(w, p)
         THEN /\ quarantine' = [quarantine EXCEPT ![p] = @ \cup Bad(w)]
              /\ txnVersion' = [txnVersion EXCEPT ![p] = batch[w].id]
         ELSE UNCHANGED <<quarantine, txnVersion>>
    /\ Goto(w, "probe")
    /\ UNCHANGED <<bronze, checkpoint, batch, table, exists, version, aborts, probeErrors>>

\* Mutant: the job's SCD type is ignored.
AlwaysMerge(j) == "merge"

\* _process_batch: how the updates reach an existing target.
MergeStep(j) == IF ScdType[j] = 2 THEN "retire" ELSE "merge"

\* _table_exists: any exception of the probe reads as "there is no table".
Probe(w) ==
    /\ pc[w] = "probe"
    /\ \/ /\ exists[JobOf[w]]
          /\ Goto(w, MergeStep(JobOf[w]))
          /\ UNCHANGED probeErrors
       \/ /\ ~exists[JobOf[w]]
          /\ Goto(w, "create")
          /\ UNCHANGED probeErrors
       \/ /\ exists[JobOf[w]]
          /\ probeErrors < MaxProbeErrors
          /\ probeErrors' = probeErrors + 1
          /\ Goto(w, "create")
    /\ UNCHANGED <<bronze, checkpoint, batch, table, exists, version, quarantine, txnVersion, aborts>>

\* A statement commits new contents to the target of w's job.
WriteTable(w, rows) ==
    /\ table' = [table EXCEPT ![JobOf[w]] = rows]
    /\ version' = [version EXCEPT ![JobOf[w]] = @ + 1]
    /\ UNCHANGED <<bronze, checkpoint, batch, quarantine, txnVersion, aborts, probeErrors>>

NewVersion(w, row) == [row |-> row, from |-> version[JobOf[w]] + 1, until |-> 0]

\* The first write, mode "overwrite": an empty skeleton (ensure_scd2_table), or
\* the updates themselves (merge_scd_type1).
Create(w) ==
    /\ pc[w] = "create"
    /\ exists' = [exists EXCEPT ![JobOf[w]] = TRUE]
    /\ \/ /\ ScdType[JobOf[w]] = 2
          /\ WriteTable(w, {})
          /\ Goto(w, "retire")
       \/ /\ ScdType[JobOf[w]] = 1
          /\ \E f \in Dedup(Clean(w)) :
                WriteTable(w, {NewVersion(w, f[k]) : k \in DOMAIN f})
          /\ Goto(w, "commit")

\* merge_scd_type1: matched keys are updated, the others inserted.  Nothing
\* compares the order columns of the update and of the row it replaces.
MergeType1(w) ==
    /\ pc[w] = "merge"
    /\ \E f \in Dedup(Clean(w)) :
          WriteTable(w, {v \in table[JobOf[w]] : v.row.key \notin DOMAIN f}
                        \cup {NewVersion(w, f[k]) : k \in DOMAIN f})
    /\ Goto(w, "commit")
    /\ UNCHANGED exists

\* Mutants: late rows are spared but still inserted; the hash, or the currency,
\* of the stored version is not looked at.
SupersededByNewer(v, f) ==
    /\ Current(v) /\ v.row.key \in DOMAIN f /\ v.row.val # f[v.row.key].val
    /\ v.row.ord < f[v.row.key].ord
SupersededUnchanged(v, f) == Current(v) /\ v.row.key \in DOMAIN f
SupersededTwice(v, f) == v.row.key \in DOMAIN f /\ v.row.val # f[v.row.key].val

\* apply_scd_type2, first MERGE: retire the currents whose hash changed.
Superseded(v, f) == Current(v) /\ v.row.key \in DOMAIN f /\ v.row.val # f[v.row.key].val

Retire(w) ==
    /\ pc[w] = "retire"
    /\ \E f \in Dedup(Clean(w)) :
          WriteTable(w, {IF Superseded(v, f) THEN [v EXCEPT !.until = version[JobOf[w]] + 1]
                                             ELSE v : v \in table[JobOf[w]]})
    /\ Goto(w, "insert")
    /\ UNCHANGED exists

\* Mutant: a retired version with the same hash suppresses the insert.
IdenticalEver(v, row) == v.row.key = row.key /\ v.row.val = row.val

\* apply_scd_type2, second MERGE: insert what has no identical current row.  The
\* updates are a lazy DataFrame: the deduplication is evaluated again.
Identical(v, row) == Current(v) /\ v.row.key = row.key /\ v.row.val = row.val

Insert(w) ==
    /\ pc[w] = "insert"
    /\ \E f \in Dedup(Clean(w)) :
          LET new == {k \in DOMAIN f : \A v \in table[JobOf[w]] : ~Identical(v, f[k])}
          IN WriteTable(w, table[JobOf[w]] \cup {NewVersion(w, f[k]) : k \in new})
    /\ Goto(w, "commit")
    /\ UNCHANGED exists

-----------------------------------------------------------------------------

Handle(w) ==
    \/ Quarantine(w) \/ Probe(w) \/ Create(w)
    \/ MergeType1(w) \/ Retire(w) \/ Insert(w)

Next == \E w \in Workers : Begin(w) \/ Handle(w) \/ Commit(w) \/ Abort(w)

Spec == Init /\ [][Next]_vars

\* The query's trigger fires, and a stopped query is started again: the
\* processing-time trigger, or the hourly DAG and its retries.
Fairness == \A w \in Workers : WF_vars(Begin(w) \/ Handle(w) \/ Commit(w))
FairSpec == Spec /\ Fairness

-----------------------------------------------------------------------------
(* Properties *)

Idle(j) == \A w \in Workers : JobOf[w] = j => pc[w] = "idle"
Settled(j) == checkpoint[j].plan = 0 /\ Idle(j)
CaughtUp(j) == Settled(j) /\ checkpoint[j].done = Len(Rows(j))

CurrentOf(j, k) == {v \in table[j] : v.row.key = k /\ Current(v)}

\* "SCD2 sanity: exactly one current row per key" (BACKFILL_RUNBOOK.md 54): no
\* step leaves two, whatever batch is replayed after whatever crash.
OneCurrent ==
    \A j \in Jobs : \A u, v \in table[j] :
        u.row.key = v.row.key /\ Current(u) /\ Current(v) => u = v

\* Batches end where the commit log says: no end lies between two rows of one batch.
SameBatch(j, i, m) == \A e \in checkpoint[j].ends : i <= e <=> m <= e

\* Row i is what dedup_latest kept for its key in the last committed batch that had
\* the key.
SameKey(j, i, m) == ~Invalid(Rows(j)[m]) /\ Rows(j)[m].key = Rows(j)[i].key
Wins(j, i) ==
    /\ ~Invalid(Rows(j)[i])
    /\ \A m \in 1 .. checkpoint[j].done : SameKey(j, i, m) =>
          IF SameBatch(j, i, m) THEN Rows(j)[m].ord <= Rows(j)[i].ord ELSE m < i

\* Between two batches the current row of every key shows the state the last batch
\* with the key gave it, whatever was replayed after whatever crash, and however
\* late its rows are: apply_scd_type2 and merge_scd_type1 (173-260) neither lose an
\* update nor let a replay undo one.  (That is all the code orders: a row that is
\* late by a whole batch replaces a newer one, see CurrentIsLatest.)
CurrentIsLastMerged ==
    \A j \in Jobs : Settled(j) /\ probeErrors = 0 =>
        \A i \in 1 .. checkpoint[j].done : Wins(j, i) =>
            \E v \in CurrentOf(j, Rows(j)[i].key) : v.row.val = Rows(j)[i].val

\* When a job has read all of Bronze, the current row of every key shows the state
\* of the row with the highest order column ("watermark bounds state, not correctness
\* -- merges are keyed", bronze_to_silver.py 26-27).  It does not hold for a row that
\* comes a batch late.
ValidRows(j) == {Rows(j)[i] : i \in {n \in DOMAIN Rows(j) : ~Invalid(Rows(j)[n])}}

CurrentIsLatest ==
    \A j \in Jobs : CaughtUp(j) =>
        \A k \in {row.key : row \in ValidRows(j)} :
            \E v \in CurrentOf(j, k), row \in Latest(ValidRows(j), k) : v.row.val = row.val

\* "replays do NOT fabricate history" (BACKFILL_RUNBOOK.md 20-21): one Bronze row
\* makes at most one version.
NoFabricatedHistory ==
    \A j \in Jobs : \A u, v \in table[j] : u.row = v.row => u = v

\* The validity intervals of a key's versions do not overlap.
IntervalsDisjoint ==
    \A j \in Jobs : \A u, v \in table[j] :
        u.row.key = v.row.key /\ u.from < v.from => u.until # 0 /\ u.until <= v.from

\* No other job reads the source of job j, and so none shares its quarantine path.
Alone(j) == \A i \in Jobs : SourceOf[i] = SourceOf[j] => i = j

\* "QUARANTINE, NEVER SILENT DROP" (bronze_to_silver.py 21): an invalid row a job
\* has read past is in the quarantine of its source, for a job that alone reads its
\* source.
NoSilentDrop ==
    \A j \in Jobs : Alone(j) => \A i \in 1 .. checkpoint[j].done :
        Invalid(Rows(j)[i]) => i \in quarantine[QuarantineOf(j)]

\* The same of jobs that share their source, hence the path and the txnAppId: it does
\* not hold, as the batch ids of one job make Delta skip the writes of the other.
NoSilentDropShared ==
    \A j \in Jobs : \A i \in 1 .. checkpoint[j].done :
        Invalid(Rows(j)[i]) => i \in quarantine[QuarantineOf(j)]

\* While every probe has told the truth, an SCD2 table only grows: a version is never
\* removed or rewritten, but for its retirement ("Create the SCD2 target skeleton if
\* absent", ensure_scd2_table 197).
HistoryKept ==
    [][probeErrors = 0 => \A j \in Jobs : ScdType[j] = 2 =>
         \A v \in table[j] : \E x \in table'[j] :
            x.row = v.row /\ x.from = v.from /\ (x = v \/ Current(v))]_table

\* A job that keeps being restarted reads all of Bronze, and leaves a current row
\* for every key unless a failed probe had the table overwritten: a crash between
\* the two MERGEs is repaired by the replay.
EventuallyMerged ==
    \A j \in Jobs : <>(/\ checkpoint[j].done = Len(Rows(j))
                       /\ probeErrors > 0 \/ \A row \in ValidRows(j) : CurrentOf(j, row.key) # {})
=============================================================================
