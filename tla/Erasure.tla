------------------------------ MODULE Erasure ------------------------------
(***************************************************************************)
(* A right-to-erasure request (src/governance/gdpr_erasure.py) and nightly *)
(* maintenance (src/maintenance/table_optimization.py) on the two Delta    *)
(* tables that hold a subject, with the writers they meet there: Bronze    *)
(* appends, and the Silver stream, which reads Bronze's appended files in  *)
(* its own time (skipChangeCommits) and replays a batch it has not         *)
(* checkpointed, and other requests, which delete rows of their subjects.  *)
(*                                                                         *)
(* Only files that hold the subject's rows are followed.  A commit that    *)
(* removes a file leaves it in storage until a VACUUM that finds it past   *)
(* retention; age counts the days since.                                   *)
(***************************************************************************)
EXTENDS Integers, FiniteSets

CONSTANTS Retention,    \* vacuum_retention_hours, in days
          DryRun,       \* vacuum_dry_run
          Unoptimizable,\* tables whose OPTIMIZE always fails
          OtherTargets, \* tables other requests delete from
          OtherRows,    \* rows such a DELETE matches, at most (bound)
          MaxIngest,    \* Bronze appends with a row of the subject (bound)
          MaxRuns       \* erasure runs of the request (bound)

Bronze == 1
Silver == 2
Table == {Bronze, Silver}   \* request.targets and config.tables, in that order
Ingest == 1 .. MaxIngest

ASSUME ErasureAssumption ==
    /\ Retention \in Nat /\ MaxIngest \in Nat /\ MaxRuns \in Nat /\ OtherRows \in Nat
    /\ DryRun \in BOOLEAN
    /\ Unoptimizable \subseteq Table

Live == -1
Age == Live .. (Retention + 1)

\* src: the appends whose rows are in the file (of a removed rewrite: none kept).
File == [table : Table, src : SUBSET Ingest, appended : BOOLEAN, age : Age]

VARIABLES
    files,      \* the files in storage that hold the subject
    metric,     \* numDeletedRows of each table's latest commit
    ingested,   \* appends so far
    waited,     \* days since each append
    unread,     \* appends the Silver stream has not planned
    batch,      \* appends of its planned batch, not yet checkpointed
    merged,     \* this batch has been merged
    eraser,     \* GdprEraser.erase: where it is, all_succeeded, rows deleted
    maint,      \* run_maintenance: table, and the statement that is next
    \* history
    runs,       \* erasure runs so far
    succeeded,  \* the last run finished, audited, and reported success
    exposed,    \* since its start the subject was on its way to Silver
    others,     \* tables whose latest commit, when this run began or since, was a
                \* DELETE it did not make
    overstated  \* tables of which it reports more rows than it deleted

storeVars == <<files, metric>>
streamVars == <<ingested, waited, unread, batch, merged>>
history == <<runs, succeeded, exposed, others, overstated>>
vars == <<storeVars, streamVars, eraser, maint, history>>

Backlog == unread \cup batch

LiveFiles(t) == {f \in files : f.table = t /\ f.age = Live}

\* The rows a DELETE finds: Silver holds one, Bronze one per append.
Rows(t) ==
    LET src == UNION {f.src : f \in LiveFiles(t)}
    IN  IF t = Silver /\ src # {} THEN 1 ELSE Cardinality(src)

\* What a removed file is good for: the stream reads appended ones only.
Removed(f) == [f EXCEPT !.age = 0, !.src = IF f.appended THEN @ ELSE {}]

\* A commit on t that replaces the live files by `added`.
Replace(t, added) ==
    files' = (files \ LiveFiles(t)) \cup {Removed(f) : f \in LiveFiles(t)} \cup added

Rewritten(t, src) == [table |-> t, src |-> src, appended |-> FALSE, age |-> Live]
Appended(i) == [table |-> Bronze, src |-> {i}, appended |-> TRUE, age |-> Live]

\* The file append i wrote is still in storage.
Present(i) == \E f \in files : f.table = Bronze /\ f.appended /\ f.src = {i}

Init ==
    /\ files = {} /\ metric = [t \in Table |-> 0]
    /\ ingested = 0 /\ waited = [i \in Ingest |-> 0]
    /\ unread = {} /\ batch = {} /\ merged = FALSE
    /\ eraser = [at |-> "idle", target |-> Bronze, ok |-> TRUE, rows |-> 0]
    /\ maint = [table |-> Bronze, next |-> "optimize"]
    /\ runs = 0 /\ succeeded = FALSE /\ exposed = FALSE
    /\ others = {} /\ overstated = {}

----------------------------------------------------------------------------
(* The writers *)

AppendToBronze ==
    /\ ingested < MaxIngest
    /\ ingested' = ingested + 1
    /\ files' = files \cup {Appended(ingested')}
    /\ metric' = [metric EXCEPT ![Bronze] = 0]
    /\ unread' = unread \cup {ingested'}
    /\ exposed' = TRUE
    /\ UNCHANGED <<waited, batch, merged, eraser, maint, runs, succeeded, others, overstated>>

\* The stream plans every file appended since; later removals do not concern it.
PlanBatch ==
    /\ batch = {} /\ unread # {}
    /\ batch' = unread /\ unread' = {} /\ merged' = FALSE
    /\ UNCHANGED <<storeVars, ingested, waited, eraser, maint, history>>

\* The upsert, again after a crash before the checkpoint.  When a file is gone
\* the query fails, and fails at every replay.
MergeBatch ==
    /\ batch # {}
    /\ \A i \in batch : Present(i)
    /\ Replace(Silver, {Rewritten(Silver, batch \cup UNION {f.src : f \in LiveFiles(Silver)})})
    /\ metric' = [metric EXCEPT ![Silver] = 0]
    /\ merged' = TRUE
    /\ UNCHANGED <<ingested, waited, unread, batch, eraser, maint, history>>

CommitBatch ==
    /\ merged
    /\ batch' = {} /\ merged' = FALSE
    /\ UNCHANGED <<storeVars, ingested, waited, unread, eraser, maint, history>>

----------------------------------------------------------------------------
(* GdprEraser.erase *)

StartErase ==
    /\ eraser.at = "idle"
    /\ runs < MaxRuns
    /\ runs' = runs + 1
    /\ eraser' = [at |-> "delete", target |-> Bronze, ok |-> TRUE, rows |-> 0]
    /\ succeeded' = FALSE
    /\ exposed' = (Backlog # {})
    /\ others' = {t \in Table : metric[t] > 0}
    /\ UNCHANGED <<storeVars, streamVars, maint, overstated>>

\* After a target's result: the next target, or the audit record.
NextTarget(result) ==
    eraser' = IF eraser.target = Silver
              THEN [result EXCEPT !.at = "audit"]
              ELSE [result EXCEPT !.at = "delete", !.target = eraser.target + 1]

\* A DELETE that matches nothing makes no commit.
Delete ==
    /\ eraser.at = "delete"
    /\ LET t == eraser.target IN
        /\ Replace(t, {})
        /\ metric' = IF Rows(t) = 0 THEN metric ELSE [metric EXCEPT ![t] = Rows(t)]
        /\ eraser' = [eraser EXCEPT !.at = "metric", !.rows = Rows(t)]
    /\ UNCHANGED <<streamVars, maint, history>>

\* Mutant of DeleteFails: the error is logged and not recorded.
FailureIgnored ==
    /\ eraser.at = "delete"
    /\ NextTarget(eraser)
    /\ UNCHANGED <<storeVars, streamVars, maint, history>>

\* A missing table, a commit conflict: recorded, and the others are still done.
DeleteFails ==
    /\ eraser.at = "delete"
    /\ NextTarget([eraser EXCEPT !.ok = FALSE])
    /\ UNCHANGED <<storeVars, streamVars, maint, history>>

\* Mutant of ReadMetric: the metric of the first target.
ReadFirstMetric ==
    /\ eraser.at = "metric"
    /\ overstated' = IF metric[Bronze] > eraser.rows THEN overstated \cup {eraser.target}
                     ELSE overstated
    /\ NextTarget([eraser EXCEPT !.rows = 0])
    /\ UNCHANGED <<storeVars, streamVars, maint, runs, succeeded, exposed, others>>

\* _last_operation_metric: of the latest commit, whoever made it; 0 when the
\* history cannot be read.
ReadMetric ==
    /\ eraser.at = "metric"
    /\ \E reported \in {0, metric[eraser.target]} :
          overstated' = IF reported > eraser.rows THEN overstated \cup {eraser.target}
                        ELSE overstated
    /\ NextTarget([eraser EXCEPT !.rows = 0])
    /\ UNCHANGED <<storeVars, streamVars, maint, runs, succeeded, exposed, others>>

WriteAudit ==
    /\ eraser.at = "audit"
    /\ succeeded' = eraser.ok
    /\ eraser' = [eraser EXCEPT !.at = "idle"]
    /\ others' = {} /\ overstated' = {}
    /\ UNCHANGED <<storeVars, streamVars, maint, runs, exposed>>

\* The application dies, or the audit file cannot be written.
Crash ==
    /\ eraser.at # "idle"
    /\ eraser' = [eraser EXCEPT !.at = "idle"]
    /\ others' = {} /\ overstated' = {}
    /\ UNCHANGED <<storeVars, streamVars, maint, runs, succeeded, exposed>>

\* Another request's DELETE finds rows of its own subjects; the files in which
\* they lay beside this one's are rewritten.
OtherDelete ==
    /\ \E t \in OtherTargets \cap Table, n \in 1 .. OtherRows :
          /\ metric' = [metric EXCEPT ![t] = n]
          /\ others' = IF eraser.at = "idle" THEN others ELSE others \cup {t}
          /\ \/ /\ LiveFiles(t) # {}
                /\ Replace(t, {Rewritten(t, UNION {f.src : f \in LiveFiles(t)})})
             \/ UNCHANGED files
    /\ UNCHANGED <<streamVars, eraser, maint, runs, succeeded, exposed, overstated>>

----------------------------------------------------------------------------
(* run_maintenance, one night after the other *)

\* Mutant of NextTable: the loop never gets past its first table.
FirstTableOnly == maint' = [table |-> Bronze, next |-> "optimize"]

NextTable == maint' = [table |-> IF maint.table = Silver THEN Bronze ELSE Silver,
                       next |-> "optimize"]

\* Compacts the live files, unless there is nothing to do.
Optimize ==
    /\ maint.next = "optimize" /\ maint.table \notin Unoptimizable
    /\ maint' = [maint EXCEPT !.next = "vacuum"]
    /\ LET t == maint.table IN
          \/ /\ LiveFiles(t) # {}
             /\ Replace(t, {Rewritten(t, UNION {f.src : f \in LiveFiles(t)})})
             /\ metric' = [metric EXCEPT ![t] = 0]
          \/ UNCHANGED storeVars
    /\ UNCHANGED <<streamVars, eraser, history>>

\* The error is recorded and the table's VACUUM skipped.
OptimizeFails ==
    /\ maint.next = "optimize"
    /\ NextTable
    /\ UNCHANGED <<storeVars, streamVars, eraser, history>>

\* Mutant of Expired: RETAIN 0 HOURS.
RetainNothing == {f \in files : f.table = maint.table /\ f.age # Live}

\* What VACUUM ... RETAIN takes out of storage.
Expired == {f \in files : f.table = maint.table /\ f.age > Retention}

Vacuum ==
    /\ maint.next = "vacuum"
    /\ files' = IF DryRun THEN files ELSE files \ Expired
    /\ NextTable
    /\ UNCHANGED <<metric, streamVars, eraser, history>>

VacuumFails ==
    /\ maint.next = "vacuum"
    /\ NextTable
    /\ UNCHANGED <<storeVars, streamVars, eraser, history>>

----------------------------------------------------------------------------

Older(a) == IF a > Retention THEN a ELSE a + 1

NextDay ==
    /\ files' = {IF f.age = Live THEN f ELSE [f EXCEPT !.age = Older(f.age)] : f \in files}
    /\ waited' = [i \in Ingest |-> IF i <= ingested THEN Older(waited[i]) ELSE 0]
    /\ UNCHANGED <<metric, ingested, unread, batch, merged, eraser, maint, history>>

Next ==
    \/ AppendToBronze \/ PlanBatch \/ MergeBatch \/ CommitBatch
    \/ StartErase \/ Delete \/ DeleteFails \/ ReadMetric \/ WriteAudit \/ Crash
    \/ OtherDelete
    \/ Optimize \/ OptimizeFails \/ Vacuum \/ VacuumFails
    \/ NextDay

\* Days pass and maintenance is scheduled every night; a statement that is tried
\* again and again succeeds in the end, on a table where it can.
Fairness ==
    /\ WF_vars(NextDay)
    /\ WF_vars(Optimize \/ OptimizeFails \/ Vacuum \/ VacuumFails)
    /\ \A t \in Table : SF_vars(Optimize /\ maint.table = t) /\ SF_vars(Vacuum /\ maint.table = t)

Spec == Init /\ [][Next]_vars /\ Fairness

----------------------------------------------------------------------------

TypeOK ==
    /\ files \subseteq File
    /\ metric \in [Table -> 0 .. (MaxIngest + OtherRows)]
    /\ ingested \in 0 .. MaxIngest
    /\ waited \in [Ingest -> 0 .. (Retention + 1)]
    /\ unread \subseteq Ingest /\ batch \subseteq Ingest /\ merged \in BOOLEAN
    /\ eraser \in [at : {"idle", "delete", "metric", "audit"}, target : Table,
                   ok : BOOLEAN, rows : 0 .. MaxIngest]
    /\ maint \in [table : Table, next : {"optimize", "vacuum"}]
    /\ runs \in 0 .. MaxRuns
    /\ succeeded \in BOOLEAN /\ exposed \in BOOLEAN
    /\ others \subseteq Table /\ overstated \subseteq Table

\* A successful erasure that started with nothing of the subject on its way from
\* Bronze to Silver, and met no new rows of hers, leaves no current row behind,
\* whatever compaction, replays or earlier half-done runs came in between.
StaysErased ==
    succeeded /\ ~exposed => \A t \in Table : LiveFiles(t) = {}

\* VACUUM never takes a file the Silver stream has still to read within the
\* retention, though the file was compacted or deleted from long ago.
BacklogReadable ==
    \A i \in Backlog : waited[i] <= Retention => Present(i)

\* A run reports more rows of a table than it deleted there only if another run's
\* or request's DELETE was the table's latest commit when it began, or came since:
\* neither appends, merges and compaction nor its DELETE on the other table can.
ClaimedByOthersOnly == overstated \subseteq others

\* After such an erasure nothing of the subject stays in storage.
EventuallyPurged ==
    (succeeded /\ ~exposed) ~> (files = {} \/ exposed \/ ~succeeded)
=============================================================================
