---------------------------- MODULE BronzeStream ----------------------------
(***************************************************************************)
(* The Bronze streaming job (src/processing/bronze_streaming.py): one      *)
(* Structured Streaming query per topic, each writing micro-batches to a   *)
(* Delta table through an idempotent foreachBatch sink.  The continuous    *)
(* application and the availableNow backfills of edp_backfill_manual share *)
(* a topic's checkpoint and table.                                         *)
(*                                                                         *)
(* Spark and Delta are external: a query logs the end of a batch in the    *)
(* offset log, calls the sink, then logs the batch in the commit log; it   *)
(* reads both logs only when it starts.  Kafka deletes records past their  *)
(* retention, and a query passes over those it still had to read           *)
(* (failOnDataLoss=false).                                                 *)
(***************************************************************************)
EXTENDS Integers, Sequences, FiniteSets

CONSTANTS Apps,          \* Spark applications running this module
          Continuous,    \* those with a processing-time trigger
          NTopics,       \* BRONZE_TOPICS_JSON has this many entries
          Logs,          \* the contents the topics may have: functions on Topic
          Versions,      \* versions the subject ever gets; the ids are 1 .. Versions
          MaxBackfills,  \* how often an availableNow application is started (bound)
          MaxFailures,   \* transient query failures and driver deaths (bound)
          MaxRollbacks   \* checkpoints restored from an older copy (bound)

Topic == 1 .. NTopics

\* wire is what the magic byte says, id the embedded schema id; a message that is
\* not sound does not decode with any schema.
Message == [wire : {"ok", "bad", "null"}, id : Nat, sound : BOOLEAN]

ASSUME BronzeAssumption ==
    /\ Continuous \subseteq Apps
    /\ NTopics \in Nat \ {0}
    /\ \A log \in Logs : log \in [Topic -> Seq(Message)]
    /\ Versions \in Nat \ {0}
    /\ MaxBackfills \in Nat
    /\ MaxFailures \in Nat
    /\ MaxRollbacks \in Nat

VARIABLES
    log,         \* the topics' contents, produced or not
    produced,    \* per topic: how many messages are there already
    earliest,    \* per topic: the records before this offset have been deleted
    registered,  \* versions of the subject in the schema registry
    \* one query
    status,      \* per application and topic: see Status
    batchId,     \* the batch it works on
    reader,      \* the version it decodes with; 0 before it is known
    allowed,     \* the versions 1 .. allowed are on its list of known ids
    target,      \* availableNow: the end offset fixed when it started
    \* what survives
    offsetLog,   \* per topic: the end offset of batch i is offsetLog[i + 1]
    commits,     \* per topic: batches 0 .. commits - 1 are in the commit log
    txnVersion,  \* per topic: last txnVersion of the Delta table; -1 for none
    data,        \* per topic: the rows of the Delta table
    \* bounds
    backfills, failures, rollbacks

queryVars == <<status, batchId, reader, allowed, target>>
storeVars == <<offsetLog, commits, txnVersion, data>>
bounds    == <<backfills, failures, rollbacks>>
vars == <<log, produced, earliest, registered, queryVars, storeVars, bounds>>

Status == {"off",      \* there is no query
           "resolve",  \* start() is to ask for the latest schema
           "list",     \* and then for the list of ids
           "idle", "write", "commit",  \* it runs: before, in, after the sink's call
           "dead",     \* it ended on an exception
           "done"}     \* availableNow: it read everything
Form == {"decoded", "misread", "quarantined"}
Row == [offset : Nat, batch : Nat, form : Form]

TypeOK ==
    /\ log \in Logs
    /\ produced \in [Topic -> Nat]
    /\ earliest \in [Topic -> Nat]
    /\ registered \in 1 .. Versions
    /\ status \in [Apps -> [Topic -> Status]]
    /\ batchId \in [Apps -> [Topic -> Nat]]
    /\ reader \in [Apps -> [Topic -> 0 .. Versions]]
    /\ allowed \in [Apps -> [Topic -> 0 .. Versions]]
    /\ target \in [Apps -> [Topic -> Nat]]
    /\ offsetLog \in [Topic -> Seq(Nat)]
    /\ \A t \in Topic : /\ produced[t] <= Len(log[t])
                        /\ offsetLog[t] \in Seq(1 .. produced[t])
                        /\ Len(offsetLog[t]) \in {commits[t], commits[t] + 1}
    /\ commits \in [Topic -> Nat]
    /\ txnVersion \in [Topic -> Nat \cup {-1}]
    /\ data \in [Topic -> SUBSET Row]
    /\ backfills \in Nat /\ failures \in Nat /\ rollbacks \in Nat

Init ==
    /\ log \in Logs
    /\ produced = [t \in Topic |-> 0]
    /\ earliest = [t \in Topic |-> 0]
    /\ registered = 1
    /\ status = [a \in Apps |-> [t \in Topic |-> "off"]]
    /\ batchId = [a \in Apps |-> [t \in Topic |-> 0]]
    /\ reader = [a \in Apps |-> [t \in Topic |-> 0]]
    /\ allowed = [a \in Apps |-> [t \in Topic |-> 0]]
    /\ target = [a \in Apps |-> [t \in Topic |-> 0]]
    /\ offsetLog = [t \in Topic |-> <<>>]
    /\ commits = [t \in Topic |-> 0]
    /\ txnVersion = [t \in Topic |-> -1]
    /\ data = [t \in Topic |-> {}]
    /\ backfills = 0 /\ failures = 0 /\ rollbacks = 0

-----------------------------------------------------------------------------
(* Producers, retention and the schema registry: external *)

\* A producer registers a version before it uses its id; an id beyond Versions
\* belongs to no version of the subject.
Produce(t) ==
    /\ produced[t] < Len(log[t])
    /\ LET m == log[t][produced[t] + 1] IN
         m.wire = "ok" /\ m.id \in 1 .. Versions => m.id <= registered
    /\ produced' = [produced EXCEPT ![t] = @ + 1]
    /\ UNCHANGED <<log, earliest, registered, queryVars, storeVars, bounds>>

\* The oldest record is past the topic's retention, read or not.
Expire(t) ==
    /\ earliest[t] < produced[t]
    /\ earliest' = [earliest EXCEPT ![t] = @ + 1]
    /\ UNCHANGED <<log, produced, registered, queryVars, storeVars, bounds>>

Register ==
    /\ registered < Versions
    /\ registered' = registered + 1
    /\ UNCHANGED <<log, produced, earliest, queryVars, storeVars, bounds>>

-----------------------------------------------------------------------------
(* start, await_termination, stop *)

Down(a) == \A t \in Topic : status[a][t] = "off"

\* Mutant: a batch that was planned but not committed is not replayed.
ForgetsPlanned(t) == "idle"

\* A query that starts replays the planned batch its commit log lacks.
FirstStep(t) == IF Len(offsetLog[t]) > commits[t] THEN "write" ELSE "idle"

\* start: the topics' queries are to be started one after the other.
Start(a) ==
    /\ Down(a)
    /\ IF a \in Continuous
       THEN UNCHANGED backfills
       ELSE backfills < MaxBackfills /\ backfills' = backfills + 1
    /\ status' = [status EXCEPT ![a] = [t \in Topic |-> "resolve"]]
    /\ UNCHANGED <<log, produced, earliest, registered, batchId, reader, allowed, target, storeVars,
                   failures, rollbacks>>

\* The topics before t have their queries.
Turn(a, t) == \A u \in 1 .. (t - 1) : status[a][u] \notin {"resolve", "list"}

\* _resolve_reader_schema: the latest version at this moment.
ResolveReader(a, t) ==
    /\ status[a][t] = "resolve"
    /\ Turn(a, t)
    /\ reader' = [reader EXCEPT ![a][t] = registered]
    /\ status' = [status EXCEPT ![a][t] = "list"]
    /\ UNCHANGED <<log, produced, earliest, registered, batchId, allowed, target, storeVars, bounds>>

\* Mutant: the list was fetched before the last registration.
ListedBefore(a, t) == IF registered > 1 THEN registered - 1 ELSE registered

\* list_subject_schema_ids: the topics share the subject, and the client answers
\* every call after the first from its cache.
KnownIds(a, t) == IF t = 1 THEN registered ELSE allowed[a][1]

\* The list is there, and writer.start() makes the query, which reads its logs.
Launch(a, t) ==
    /\ status[a][t] = "list"
    /\ allowed' = [allowed EXCEPT ![a][t] = KnownIds(a, t)]
    /\ status' = [status EXCEPT ![a][t] = FirstStep(t)]
    /\ batchId' = [batchId EXCEPT ![a][t] = commits[t]]
    /\ target' = [target EXCEPT ![a][t] = produced[t]]
    /\ UNCHANGED <<log, produced, earliest, registered, reader, storeVars, bounds>>

\* stop, or the end of the driver: the queries are gone.
StopAll(a) ==
    /\ status' = [status EXCEPT ![a] = [t \in Topic |-> "off"]]
    /\ batchId' = [batchId EXCEPT ![a] = [t \in Topic |-> 0]]
    /\ reader' = [reader EXCEPT ![a] = [t \in Topic |-> 0]]
    /\ allowed' = [allowed EXCEPT ![a] = [t \in Topic |-> 0]]
    /\ target' = [target EXCEPT ![a] = [t \in Topic |-> 0]]
    /\ UNCHANGED <<log, produced, earliest, registered, storeVars>>

\* await_termination waits for the queries in the order of the topics: the first
\* one not done is the only one whose failure ends the application.
Exit(a) ==
    /\ \A t \in Topic : status[a][t] \notin {"resolve", "list"}
    /\ \/ \A t \in Topic : status[a][t] = "done"
       \/ \E t \in Topic : /\ status[a][t] = "dead"
                           /\ \A u \in 1 .. (t - 1) : status[a][u] = "done"
    /\ StopAll(a)
    /\ UNCHANGED bounds

\* The driver is killed, or start() raises because the registry does not answer.
Kill(a) ==
    /\ ~Down(a)
    /\ failures < MaxFailures
    /\ failures' = failures + 1
    /\ StopAll(a)
    /\ UNCHANGED <<backfills, rollbacks>>

-----------------------------------------------------------------------------
(* One query: the steps of a micro-batch *)

Goto(a, t, s) == status' = [status EXCEPT ![a][t] = s]

StartOf(t, id) == IF id = 0 THEN 0 ELSE offsetLog[t][id]

\* No maxOffsetsPerTrigger: a batch takes everything there is.
Latest(a, t) == IF a \in Continuous THEN produced[t] ELSE target[a][t]

\* The next batch goes into the offset log, unless another query of the same
\* checkpoint has put one there: then this query fails.
Plan(a, t) ==
    /\ status[a][t] = "idle"
    /\ \/ /\ Len(offsetLog[t]) > batchId[a][t]
          /\ Goto(a, t, "dead")
          /\ UNCHANGED offsetLog
       \/ /\ Len(offsetLog[t]) = batchId[a][t]
          /\ Latest(a, t) > StartOf(t, batchId[a][t])
          /\ offsetLog' = [offsetLog EXCEPT ![t] = Append(@, Latest(a, t))]
          /\ Goto(a, t, "write")
    /\ UNCHANGED <<log, produced, earliest, registered, batchId, reader, allowed, target, commits, txnVersion,
                   data, bounds>>

\* availableNow: nothing is left before the end fixed at the start.
Finish(a, t) ==
    /\ a \notin Continuous
    /\ status[a][t] = "idle"
    /\ Len(offsetLog[t]) = batchId[a][t]
    /\ Latest(a, t) <= StartOf(t, batchId[a][t])
    /\ Goto(a, t, "done")
    /\ UNCHANGED <<log, produced, earliest, registered, batchId, reader, allowed, target, storeVars, bounds>>

\* transform_batch: what may become of a message when the query decodes with
\* version n and has the versions 1 .. k on its list.  A NULL value makes both
\* filters NULL, so neither keeps it.  from_avro has only schema n: what it does
\* with a record of another version is undefined.
Outcomes(m, n, k) ==
    LET listed == m.wire = "ok" /\ m.id \in 1 .. k IN
    CASE m.wire = "null"                     -> {"no row"}
      [] m.wire # "null" /\ ~listed          -> {"quarantined"}
      [] listed /\ m.id # n                  -> {"decoded", "misread", "raise"}
      [] listed /\ m.id = n                  -> {IF m.sound THEN "decoded" ELSE "raise"}

\* failOnDataLoss=false: an offset that is not in Kafka any more yields nothing.
Reads(a, t, o) ==
    IF o < earliest[t] THEN {"no row"}
    ELSE Outcomes(log[t][o + 1], reader[a][t], allowed[a][t])

\* The offsets of a batch.
Range(t, id) == StartOf(t, id) .. (offsetLog[t][id + 1] - 1)

\* Mutants: a replayed batch is appended again; one batch too many is skipped.
AlwaysUnseen(t, id) == TRUE
UnseenSkipsOne(t, id) == id > txnVersion[t] + 1

\* Delta skips the append when it has seen this txnVersion, or a later one.
Unseen(t, id) == id > txnVersion[t]

\* Mutant: a batch is written without its quarantined records.
RowsOfValid(t, id, form) ==
    {[offset |-> o, batch |-> id, form |-> form[o]] :
        o \in {p \in Range(t, id) : form[p] \in {"decoded", "misread"}}}

\* The rows of a batch whose messages became what form says.
RowsOf(t, id, form) ==
    {[offset |-> o, batch |-> id, form |-> form[o]] : o \in {p \in Range(t, id) : form[p] # "no row"}}

\* write_batch: nothing to do for an empty batch; FAILFAST decoding fails the
\* query; otherwise one append with txnAppId and txnVersion.
Sink(a, t, id, form) ==
    LET appends == Unseen(t, id) /\ RowsOf(t, id, form) # {}
        raises  == \E o \in Range(t, id) : form[o] = "raise"
    IN \/ /\ appends /\ raises
          /\ Goto(a, t, "dead")
          /\ UNCHANGED <<txnVersion, data>>
       \/ /\ appends /\ ~raises
          /\ data' = [data EXCEPT ![t] = @ \cup RowsOf(t, id, form)]
          /\ txnVersion' = [txnVersion EXCEPT ![t] = id]
          /\ Goto(a, t, "commit")
       \/ /\ ~appends
          /\ Goto(a, t, "commit")
          /\ UNCHANGED <<txnVersion, data>>

\* The sink's call for the batch: transform_batch, then write_batch.
Write(a, t) ==
    /\ status[a][t] = "write"
    /\ \E form \in [Range(t, batchId[a][t]) -> Form \cup {"no row", "raise"}] :
          /\ \A o \in Range(t, batchId[a][t]) : form[o] \in Reads(a, t, o)
          /\ Sink(a, t, batchId[a][t], form)
    /\ UNCHANGED <<log, produced, earliest, registered, batchId, reader, allowed, target, offsetLog,
                   commits, bounds>>

\* The batch goes into the commit log, unless it is there already: then another
\* query has overtaken this one, which fails.
Commit(a, t) ==
    /\ status[a][t] = "commit"
    /\ \/ /\ commits[t] > batchId[a][t]
          /\ Goto(a, t, "dead")
          /\ UNCHANGED <<commits, batchId>>
       \/ /\ commits[t] = batchId[a][t]
          /\ commits' = [commits EXCEPT ![t] = @ + 1]
          /\ batchId' = [batchId EXCEPT ![a][t] = @ + 1]
          /\ Goto(a, t, "idle")
    /\ UNCHANGED <<log, produced, earliest, registered, reader, allowed, target, offsetLog, txnVersion, data, bounds>>

\* An executor, Kafka or GCS error that fails the query and is gone afterwards.
Fail(a, t) ==
    /\ status[a][t] \in {"idle", "write", "commit"}
    /\ failures < MaxFailures
    /\ failures' = failures + 1
    /\ Goto(a, t, "dead")
    /\ UNCHANGED <<log, produced, earliest, registered, batchId, reader, allowed, target, storeVars, backfills, rollbacks>>

\* A checkpoint rolls back: its last batches are in neither log any more.
Rollback(t) ==
    /\ \A a \in Apps : Down(a)
    /\ rollbacks < MaxRollbacks
    /\ rollbacks' = rollbacks + 1
    /\ \E n \in 0 .. (commits[t] - 1) :
          /\ commits' = [commits EXCEPT ![t] = n]
          /\ offsetLog' = [offsetLog EXCEPT ![t] = SubSeq(@, 1, n)]
    /\ UNCHANGED <<log, produced, earliest, registered, queryVars, txnVersion, data, backfills, failures>>

-----------------------------------------------------------------------------

Query(a, t) ==
    \/ ResolveReader(a, t)
    \/ Launch(a, t)
    \/ Plan(a, t)
    \/ Finish(a, t)
    \/ Write(a, t)
    \/ Commit(a, t)

Next ==
    \/ \E t \in Topic : Produce(t) \/ Expire(t) \/ Rollback(t)
    \/ Register
    \/ \E a \in Apps : Start(a) \/ Exit(a) \/ Kill(a)
    \/ \E a \in Apps, t \in Topic : Query(a, t) \/ Fail(a, t)

Spec == Init /\ [][Next]_vars

\* Queries make progress, an application whose main ended is gone, and the
\* continuous one is started again whenever it is down.
Fairness ==
    /\ \A a \in Apps, t \in Topic : WF_vars(Query(a, t))
    /\ \A a \in Apps : WF_vars(Exit(a))
    /\ \A a \in Continuous : WF_vars(Start(a))

FairSpec == Spec /\ Fairness
-----------------------------------------------------------------------------
(* Properties *)

Ingested(t, o) == \E row \in data[t] : row.offset = o
Committed(t) == 0 .. (StartOf(t, commits[t]) - 1)

\* "crash mid-batch replays it, never duplicates it" (bronze_streaming.py 11-12): a
\* Kafka record is in Bronze at most once, whatever crashes and replays happen
\* and whichever application replays the batch.
NoDuplicateRow ==
    \A t \in Topic : \A r, s \in data[t] : r.offset = s.offset => r = s

\* A record owes Bronze a row: it has a value, and Kafka has it still.
Owed(t, o) == log[t][o + 1].wire # "null" /\ o >= earliest[t]

\* A record of a committed batch that Kafka could still deliver is in Bronze: no
\* second application commits a batch whose rows were never appended, and only what
\* is past its retention is passed over.  Delta judges by batch ids alone, so this
\* ends with the first checkpoint that is rolled back.
NoRowLost ==
    rollbacks = 0 => \A t \in Topic : \A o \in Committed(t) : Owed(t, o) => Ingested(t, o)

\* "effectively-once even when checkpoints roll back after a failure"
\* (bronze_streaming.py 282-284): what is committed is in Bronze, rolled back or not.
CommittedIsIngested ==
    \A t \in Topic : \A o \in Committed(t) : Owed(t, o) => Ingested(t, o)

\* Latest schema and list of ids are two calls to the registry (bronze_streaming.py
\* 236-237) with producers registering in between: a running query still decodes
\* what is written with its own reader schema, and never quarantines it.
ReaderIsListed ==
    \A a \in Apps, t \in Topic :
        status[a][t] \in {"idle", "write", "commit"} =>
            \A i \in DOMAIN log[t] :
                LET m == log[t][i] IN
                m.wire = "ok" /\ m.sound /\ m.id = reader[a][t] =>
                    Outcomes(m, reader[a][t], allowed[a][t]) = {"decoded"}

\* "offsets + output commit advance atomically per micro-batch" (bronze_streaming.py
\* 10-11): seen from outside, the queries and their two logs are one table per topic
\* that takes in each record once, before its offset is committed.
Table == INSTANCE EffectivelyOnce
    WITH table    <- data,
         void     <- [t \in Topic |-> {o \in 0 .. (Len(log[t]) - 1) : ~Owed(t, o)}],
         done     <- [t \in Topic |-> StartOf(t, commits[t])],
         restored <- rollbacks > 0

TableSpec == Table!Spec

\* "quarantined with a reason -- never silently dropped" (bronze_streaming.py 25-26),
\* for every record, a NULL value included.
NothingDropped == \A t \in Topic : \A o \in Committed(t) : Ingested(t, o)

\* Invalid records go to the quarantine path, valid rows to the Bronze table
\* (bronze_streaming.py 15-19).
OnlyValidRows == \A t \in Topic : \A row \in data[t] : row.form # "quarantined"

\* Decoding everything with the latest schema is "safe under BACKWARD
\* compatibility" (bronze_streaming.py 22-24).
NoMisreadRow == \A t \in Topic : \A row \in data[t] : row.form # "misread"

\* Quarantined are "records whose embedded schema_id is not in the subject's
\* registered ID list" (bronze_streaming.py 25-26).
QuarantinedAreUnregistered ==
    \A t \in Topic : \A row \in data[t] :
        LET m == log[t][row.offset + 1] IN
        row.form = "quarantined" /\ m.wire = "ok" => m.id \notin 1 .. Versions

\* The backfill DAG "prevents concurrent writes to the same tables as the continuous
\* streams' next micro-batch" (edp_backfill_manual.py 15-16).
OneWriterPerTable ==
    \A t \in Topic : \A a, b \in Apps :
        status[a][t] = "write" /\ status[b][t] = "write" => a = b

\* Whatever version is the latest, every record of the topic becomes a row, if no
\* registration comes between the two calls of a start.
Readable(t) ==
    \A i \in DOMAIN log[t] : \A n \in 1 .. Versions : Outcomes(log[t][i], n, n) \subseteq Form

\* "crash mid-batch replays it" (bronze_streaming.py 11-12): once failures cease, Bronze
\* catches up with everything that was produced and kept, again and again, unless the
\* topic has a record that yields no row or its checkpoint was rolled back.
EventuallyIngested ==
    \A t \in Topic :
        []<>(Readable(t) => \/ \A o \in earliest[t] .. (produced[t] - 1) : Ingested(t, o)
                           \/ rollbacks > 0)
=============================================================================
