-------------------------- MODULE Erasure_proofs --------------------------
(***************************************************************************)
(* Proofs about Erasure, for every retention, number of appends and number *)
(* of runs: the type invariant, StaysErased, BacklogReadable and           *)
(* ClaimedByOthersOnly.                                                    *)
(*                                                                         *)
(* StaysErased: an unexposed erasure has an empty backlog from its start,  *)
(* so nothing can write the subject's rows any more; the tables its loop   *)
(* has passed without an error hold none.                                  *)
(* BacklogReadable: a file has been out of the table for no more days than *)
(* have passed since it was appended.                                      *)
(* ClaimedByOthersOnly: the latest commit of a table the loop has not come *)
(* to is no DELETE, or another's.                                          *)
(***************************************************************************)
EXTENDS Erasure, FiniteSetTheorems, TLAPS

\* The tables the running erasure is through with.
Passed(t) ==
    \/ eraser.at = "delete" /\ t < eraser.target
    \/ eraser.at = "metric" /\ t <= eraser.target
    \/ eraser.at = "audit"

Cleared ==
    ~exposed =>
        /\ eraser.at # "idle" \/ succeeded => Backlog = {}
        /\ \A t \in Table : eraser.ok /\ Passed(t) => LiveFiles(t) = {}
        /\ succeeded => \A t \in Table : LiveFiles(t) = {}

\* Append i's file, not removed longer ago than it was written.
Kept(i) ==
    \E f \in files : /\ f.table = Bronze /\ f.appended /\ f.src = {i}
                     /\ f.age = Live \/ f.age <= waited[i]

Readable ==
    /\ \A i \in 1 .. ingested : waited[i] <= Retention => Kept(i)
    /\ Backlog \subseteq 1 .. ingested

IInv == TypeOK /\ Cleared /\ Readable

LEMMA LiveFile == TypeOK => \A t \in Table : \A f \in LiveFiles(t) :
                      f \in File /\ f.table = t /\ f.age = Live
BY DEF TypeOK, LiveFiles

\* A removed file is a file, and no longer live.
LEMMA RemovedFile ==
    ASSUME NEW f \in File
    PROVE  /\ Removed(f) \in File /\ Removed(f).table = f.table
           /\ Removed(f).age = 0 /\ Removed(f).appended = f.appended
           /\ f.appended => Removed(f).src = f.src
<1>1. 0 \in Age
  BY ErasureAssumption DEF Age, Live
<1>2. PICK s \in SUBSET Ingest : s = IF f.appended THEN f.src ELSE {}
  BY DEF File
<1>3. Removed(f) = [f EXCEPT !.age = 0, !.src = s]
  BY <1>2 DEF Removed, File
<1> QED BY <1>1, <1>2, <1>3 DEF File

LEMMA NewFiles ==
    /\ \A t \in Table, src \in SUBSET Ingest :
          Rewritten(t, src) \in File /\ Rewritten(t, src).table = t
    /\ \A i \in Ingest :
          /\ Appended(i) \in File /\ Appended(i).table = Bronze /\ Appended(i).appended
          /\ Appended(i).src = {i} /\ Appended(i).age = Live
BY ErasureAssumption DEF Rewritten, Appended, File, Age, Live, Table, Bronze, Silver, Ingest

\* A commit keeps the files files, leaves the other table's live files alone,
\* leaves none but the added ones live in its own, and keeps every append's file.
LEMMA ReplaceFiles ==
    ASSUME TypeOK, NEW t \in Table, NEW added \in SUBSET File,
           \A f \in added : f.table = t, Replace(t, added)
    PROVE  /\ files' \subseteq File
           /\ \A u \in Table : u # t => LiveFiles(u)' = LiveFiles(u)
           /\ added = {} => LiveFiles(t)' = {}
           /\ waited' = waited => \A i \in Ingest : Kept(i) => Kept(i)'
<1>1. \A f \in LiveFiles(t) : f \in files /\ f \in File /\ f.table = t /\ f.age = Live
  BY DEF TypeOK, LiveFiles
<1>2. \A f \in LiveFiles(t) :
          /\ Removed(f) \in File /\ Removed(f).table = t /\ Removed(f).age = 0
          /\ Removed(f).appended = f.appended
          /\ f.appended => Removed(f).src = f.src
  BY <1>1, RemovedFile
<1>3. files' = (files \ LiveFiles(t)) \cup {Removed(f) : f \in LiveFiles(t)} \cup added
  BY DEF Replace
<1>4. files' \subseteq File
  BY <1>2, <1>3 DEF TypeOK
<1>5. ASSUME NEW u \in Table, u # t PROVE LiveFiles(u)' = LiveFiles(u)
  BY <1>1, <1>2, <1>3, <1>5 DEF LiveFiles
<1>6. ASSUME added = {} PROVE LiveFiles(t)' = {}
  BY <1>2, <1>3, <1>6 DEF LiveFiles, Live
<1>7. ASSUME waited' = waited, NEW i \in Ingest, Kept(i) PROVE Kept(i)'
  <2>1. PICK f \in files : /\ f.table = Bronze /\ f.appended /\ f.src = {i}
                           /\ f.age = Live \/ f.age <= waited[i]
    BY <1>7 DEF Kept
  <2>2. CASE f \notin LiveFiles(t)
    BY <1>3, <1>7, <2>1, <2>2 DEF Kept
  <2>3. CASE f \in LiveFiles(t)
    <3>1. PICK g : g = Removed(f)
      OBVIOUS
    <3>2. g \in files' /\ g.table = Bronze /\ g.appended /\ g.src = {i} /\ g.age = 0
      BY <1>1, <1>2, <1>3, <2>1, <2>3, <3>1
    <3>3. 0 <= waited[i]
      BY ErasureAssumption DEF TypeOK
    <3> QED BY <1>7, <3>2, <3>3 DEF Kept
  <2> QED BY <2>2, <2>3
<1> QED BY <1>4, <1>5, <1>6, <1>7

LEMMA InitIInv == Init => IInv
<1> SUFFICES ASSUME Init PROVE IInv
  OBVIOUS
<1> USE ErasureAssumption DEF Init
<1>1. TypeOK
  <2>1. eraser \in [at : {"idle", "delete", "metric", "audit"}, target : Table,
                    ok : BOOLEAN, rows : 0 .. MaxIngest]
    BY DEF Table
  <2>2. maint \in [table : Table, next : {"optimize", "vacuum"}]
    BY DEF Table
  <2>3. /\ metric \in [Table -> 0 .. (MaxIngest + OtherRows)] /\ waited \in [Ingest -> 0 .. (Retention + 1)]
        /\ ingested \in 0 .. MaxIngest /\ runs \in 0 .. MaxRuns
    OBVIOUS
  <2> QED BY <2>1, <2>2, <2>3 DEF TypeOK
<1>2. Cleared
  BY DEF Cleared, Backlog, Passed, LiveFiles
<1>3. Readable
  BY DEF Readable, Backlog
<1> QED BY <1>1, <1>2, <1>3 DEF IInv

\* What the steps of a writer other than the eraser must keep.
LEMMA OthersKeep ==
    ASSUME IInv, TypeOK', UNCHANGED <<ingested, waited, eraser, succeeded, exposed>>,
           Backlog' \subseteq Backlog,
           ~exposed /\ Backlog = {} => \A t \in Table : LiveFiles(t) = {} => LiveFiles(t)' = {},
           \A i \in Ingest : Kept(i) => Kept(i)' \/ ~(waited[i] <= Retention)
    PROVE  IInv'
<1>1. Cleared'
  <2>1. ASSUME ~exposed, eraser.at # "idle" \/ succeeded, NEW t \in Table, LiveFiles(t) = {}
        PROVE  LiveFiles(t)' = {}
    BY <2>1 DEF IInv, Cleared
  <2>2. ASSUME NEW t \in Table, Passed(t) PROVE eraser.at # "idle"
    BY <2>2 DEF Passed
  <2>3. \A t \in Table : Passed(t)' = Passed(t)
    BY DEF Passed
  <2> QED BY <2>1, <2>2, <2>3 DEF IInv, Cleared
<1>2. 1 .. ingested \subseteq Ingest
  BY ErasureAssumption DEF IInv, TypeOK, Ingest
<1>3. Readable'
  <2>1. \A i \in 1 .. ingested : waited[i] <= Retention => Kept(i)'
    BY <1>2 DEF IInv, Readable
  <2> QED BY <2>1 DEF IInv, Readable
<1> QED BY <1>1, <1>3 DEF IInv

LEMMA StreamStep == IInv /\ (PlanBatch \/ MergeBatch \/ CommitBatch) => IInv'
<1> SUFFICES ASSUME IInv, PlanBatch \/ MergeBatch \/ CommitBatch PROVE IInv'
  OBVIOUS
<1>1. CASE PlanBatch
  <2>1. TypeOK' /\ Backlog' \subseteq Backlog
    BY <1>1 DEF PlanBatch, IInv, TypeOK, Backlog, storeVars, history
  <2>2. \A t \in Table : LiveFiles(t)' = LiveFiles(t)
    BY <1>1 DEF PlanBatch, LiveFiles, storeVars
  <2>3. \A i \in Ingest : Kept(i)' = Kept(i)
    BY <1>1 DEF PlanBatch, Kept, storeVars
  <2> QED BY <1>1, <2>1, <2>2, <2>3, OthersKeep DEF PlanBatch, history
<1>2. CASE MergeBatch
  <2>1. PICK src : src = batch \cup UNION {f.src : f \in LiveFiles(Silver)}
    OBVIOUS
  <2>2. src \in SUBSET Ingest
    BY <2>1, LiveFile DEF IInv, TypeOK, File, Table, Silver
  <2>3. PICK added : added = {Rewritten(Silver, src)}
    OBVIOUS
  <2>4. Silver \in Table /\ added \in SUBSET File /\ \A f \in added : f.table = Silver
    BY <2>2, <2>3, NewFiles DEF Table
  <2>5. Replace(Silver, added)
    BY <1>2, <2>1, <2>3 DEF MergeBatch
  <2>6. files' \subseteq File /\ \A i \in Ingest : Kept(i) => Kept(i)'
    BY <1>2, <2>4, <2>5, ReplaceFiles DEF IInv, MergeBatch
  <2>7. TypeOK'
    BY <1>2, <2>6, ErasureAssumption DEF MergeBatch, IInv, TypeOK, history, Table
  <2>8. Backlog # {}
    BY <1>2 DEF MergeBatch, Backlog
  <2>9. Backlog' = Backlog
    BY <1>2 DEF MergeBatch, Backlog
  <2>10. UNCHANGED <<ingested, waited, eraser, succeeded, exposed>>
    BY <1>2 DEF MergeBatch, history
  <2> QED BY <2>6, <2>7, <2>8, <2>9, <2>10, OthersKeep
<1>3. CASE CommitBatch
  <2>1. TypeOK' /\ Backlog' \subseteq Backlog
    BY <1>3 DEF CommitBatch, IInv, TypeOK, Backlog, storeVars, history
  <2>2. \A t \in Table : LiveFiles(t)' = LiveFiles(t)
    BY <1>3 DEF CommitBatch, LiveFiles, storeVars
  <2>3. \A i \in Ingest : Kept(i)' = Kept(i)
    BY <1>3 DEF CommitBatch, Kept, storeVars
  <2> QED BY <1>3, <2>1, <2>2, <2>3, OthersKeep DEF CommitBatch, history
<1> QED BY <1>1, <1>2, <1>3

LEMMA AppendStep == IInv /\ AppendToBronze => IInv'
<1> SUFFICES ASSUME IInv, AppendToBronze PROVE IInv'
  OBVIOUS
<1> USE ErasureAssumption
<1>1. PICK n : n = ingested + 1
  OBVIOUS
<1>2. n \in Ingest /\ ingested' = n /\ files' = files \cup {Appended(n)}
  BY <1>1 DEF AppendToBronze, IInv, TypeOK, Ingest
<1>3. TypeOK'
  BY <1>2, NewFiles DEF AppendToBronze, IInv, TypeOK, Table, Ingest, Bronze
<1>4. Cleared'
  BY DEF AppendToBronze, Cleared
<1>5. Kept(n)'
  BY <1>2, NewFiles DEF Kept
<1>6. \A i \in 1 .. ingested : Kept(i) => Kept(i)'
  BY <1>2 DEF Kept, AppendToBronze
<1>7. Readable'
  BY <1>1, <1>2, <1>5, <1>6 DEF AppendToBronze, IInv, Readable, Backlog, TypeOK
<1> QED BY <1>3, <1>4, <1>7 DEF IInv

LEMMA RowsType == ASSUME TypeOK, NEW t \in Table PROVE Rows(t) \in 0 .. MaxIngest
<1> USE ErasureAssumption
<1>1. PICK src : src = UNION {f.src : f \in LiveFiles(t)}
  OBVIOUS
<1>2. src \in SUBSET Ingest
  BY <1>1, LiveFile DEF File
<1>3. IsFiniteSet(Ingest) /\ Cardinality(Ingest) = MaxIngest
  BY FS_Interval DEF Ingest
<1>4. Cardinality(src) \in Nat /\ Cardinality(src) <= MaxIngest
  BY <1>2, <1>3, FS_Subset, FS_CardinalityType
<1>5. ASSUME src # {} PROVE 1 <= MaxIngest
  <2>1. PICK i : i \in src
    BY <1>5
  <2> QED BY <1>2, <2>1 DEF Ingest
<1> QED BY <1>1, <1>4, <1>5 DEF Rows

LEMMA DeleteStep == IInv /\ Delete => IInv'
<1> SUFFICES ASSUME IInv, Delete PROVE IInv'
  OBVIOUS
<1> USE ErasureAssumption
<1>1. PICK t : t = eraser.target
  OBVIOUS
<1>2. PICK e : e = eraser
  OBVIOUS
<1>3. /\ t \in Table /\ t = e.target /\ e.at = "delete"
      /\ e \in [at : {"idle", "delete", "metric", "audit"}, target : Table,
                ok : BOOLEAN, rows : 0 .. MaxIngest]
  BY <1>1, <1>2 DEF IInv, TypeOK, Delete
<1>4. PICK n : n = Rows(t)
  OBVIOUS
<1>5. n \in 0 .. MaxIngest
  BY <1>3, <1>4, RowsType DEF IInv
<1>6. Replace(t, {})
  BY <1>1 DEF Delete
<1>7. PICK none : none = {}
  OBVIOUS
<1>8. none \in SUBSET File /\ (\A f \in none : f.table = t) /\ Replace(t, none)
  BY <1>6, <1>7
<1>9. /\ files' \subseteq File
      /\ \A u \in Table : u # t => LiveFiles(u)' = LiveFiles(u)
      /\ LiveFiles(t)' = {}
      /\ \A i \in Ingest : Kept(i) => Kept(i)'
  BY <1>3, <1>7, <1>8, ReplaceFiles DEF IInv, Delete, streamVars
<1>10. eraser' = [e EXCEPT !.at = "metric", !.rows = n]
  BY <1>1, <1>2, <1>4 DEF Delete
<1>11. /\ eraser'.at = "metric" /\ eraser'.ok = e.ok /\ eraser'.target = t
       /\ eraser' \in [at : {"idle", "delete", "metric", "audit"}, target : Table,
                       ok : BOOLEAN, rows : 0 .. MaxIngest]
  BY <1>3, <1>5, <1>10
<1>12. metric' \in [Table -> 0 .. (MaxIngest + OtherRows)]
  <2>1. n \in 0 .. (MaxIngest + OtherRows)
    BY <1>5
  <2> QED BY <1>1, <1>3, <1>4, <2>1 DEF Delete, IInv, TypeOK
<1>13. TypeOK'
  BY <1>9, <1>11, <1>12 DEF Delete, IInv, TypeOK, streamVars, history
<1>14. Cleared'
  <2>1. \A u \in Table : LiveFiles(u) = {} => LiveFiles(u)' = {}
    BY <1>9
  <2>2. ASSUME ~exposed, NEW u \in Table, e.ok, u <= t PROVE LiveFiles(u)' = {}
    <3>1. CASE u = t
      BY <1>9, <3>1
    <3>2. CASE u # t
      <4>1. Passed(u)
        BY <1>1, <1>2, <1>3, <2>2, <3>2 DEF Passed, Table, Bronze, Silver
      <4> QED BY <1>2, <2>1, <2>2, <4>1 DEF IInv, Cleared
    <3> QED BY <3>1, <3>2
  <2>3. \A u \in Table : Passed(u)' => u <= t
    BY <1>11 DEF Passed
  <2>4. Backlog' = Backlog /\ UNCHANGED <<exposed, succeeded>> /\ eraser.at # "idle"
    BY DEF Delete, Backlog, streamVars, history
  <2> QED BY <1>11, <2>1, <2>2, <2>3, <2>4 DEF IInv, Cleared
<1>15. Readable'
  <2>1. 1 .. ingested \subseteq Ingest
    BY DEF IInv, TypeOK, Ingest
  <2> QED BY <1>9, <2>1 DEF IInv, Readable, Delete, streamVars, Backlog
<1> QED BY <1>13, <1>14, <1>15 DEF IInv

\* What the other steps of the eraser do: no table is touched.
LEMMA NextTargetStep ==
    ASSUME IInv, NEW result, NextTarget(result),
           result \in [at : {"idle", "delete", "metric", "audit"}, target : Table,
                      ok : BOOLEAN, rows : 0 .. MaxIngest],
           result.target = eraser.target
    PROVE  /\ eraser' \in [at : {"idle", "delete", "metric", "audit"}, target : Table,
                           ok : BOOLEAN, rows : 0 .. MaxIngest]
           /\ eraser'.ok = result.ok
           /\ \A t \in Table : Passed(t)' => t <= eraser.target
<1>1. eraser.target \in Table
  BY DEF IInv, TypeOK
<1>2. CASE eraser.target = Silver
  <2>1. eraser' = [result EXCEPT !.at = "audit"]
    BY <1>2 DEF NextTarget
  <2> QED BY <1>2, <2>1 DEF Passed, Table, Bronze, Silver
<1>3. CASE eraser.target = Bronze
  <2>1. eraser' = [result EXCEPT !.at = "delete", !.target = 2]
    BY <1>3 DEF NextTarget, Bronze, Silver
  <2>2. eraser'.at = "delete" /\ eraser'.target = 2 /\ eraser'.ok = result.ok
    BY <2>1
  <2>3. eraser' \in [at : {"idle", "delete", "metric", "audit"}, target : Table,
                     ok : BOOLEAN, rows : 0 .. MaxIngest]
    BY <2>1 DEF Table, Silver
  <2>4. \A t \in Table : Passed(t)' => t <= eraser.target
    BY <1>3, <2>2 DEF Passed, Table, Bronze, Silver
  <2> QED BY <2>2, <2>3, <2>4
<1> QED BY <1>1, <1>2, <1>3 DEF Table

LEMMA EraserStep ==
    IInv /\ (StartErase \/ DeleteFails \/ ReadMetric \/ WriteAudit \/ Crash) => IInv'
<1> SUFFICES ASSUME IInv, StartErase \/ DeleteFails \/ ReadMetric \/ WriteAudit \/ Crash
             PROVE  IInv'
  OBVIOUS
<1> USE ErasureAssumption
<1>1. /\ UNCHANGED <<files, metric, ingested, waited, unread, batch, merged, maint>>
      /\ \A t \in Table : LiveFiles(t)' = LiveFiles(t)
      /\ Backlog' = Backlog
  BY DEF StartErase, DeleteFails, ReadMetric, WriteAudit, Crash, storeVars, streamVars,
         LiveFiles, Backlog
<1>2. Readable'
  BY <1>1 DEF IInv, Readable, Kept
<1>3. SUFFICES TypeOK' /\ Cleared'
  BY <1>2 DEF IInv
<1>4. CASE StartErase
  <2>1. eraser' \in [at : {"idle", "delete", "metric", "audit"}, target : Table,
                     ok : BOOLEAN, rows : 0 .. MaxIngest]
        /\ \A t \in Table : ~Passed(t)'
    BY <1>4 DEF StartErase, Passed, Table, Bronze, Silver
  <2>2. TypeOK'
    <3>1. exposed' \in BOOLEAN /\ succeeded' \in BOOLEAN
      BY <1>4, Zenon DEF StartErase
    <3>2. runs' \in 0 .. MaxRuns /\ overstated' = overstated /\ others' \subseteq Table
      BY <1>4 DEF StartErase, IInv, TypeOK
    <3> QED BY <1>1, <2>1, <3>1, <3>2 DEF IInv, TypeOK
  <2>3. exposed' = (Backlog # {}) /\ ~succeeded'
    BY <1>4 DEF StartErase
  <2> QED BY <1>1, <2>1, <2>2, <2>3 DEF Cleared
<1>5. CASE DeleteFails
  <2>1. PICK r : r = [eraser EXCEPT !.ok = FALSE]
    OBVIOUS
  <2>2. /\ r \in [at : {"idle", "delete", "metric", "audit"}, target : Table,
                  ok : BOOLEAN, rows : 0 .. MaxIngest]
        /\ r.target = eraser.target /\ ~r.ok /\ NextTarget(r)
    BY <1>5, <2>1 DEF DeleteFails, IInv, TypeOK
  <2>3. /\ eraser' \in [at : {"idle", "delete", "metric", "audit"}, target : Table,
                        ok : BOOLEAN, rows : 0 .. MaxIngest]
        /\ ~eraser'.ok
    BY <2>2, NextTargetStep
  <2>4. TypeOK' /\ UNCHANGED history
    BY <1>1, <1>5, <2>3 DEF DeleteFails, IInv, TypeOK, history
  <2>5. UNCHANGED <<exposed, succeeded>> /\ eraser.at # "idle"
    BY <1>5, <2>4 DEF DeleteFails, history
  <2> QED BY <1>1, <2>3, <2>4, <2>5 DEF IInv, Cleared
<1>6. CASE ReadMetric
  <2>1. PICK r : r = [eraser EXCEPT !.rows = 0]
    OBVIOUS
  <2>2. /\ r \in [at : {"idle", "delete", "metric", "audit"}, target : Table,
                  ok : BOOLEAN, rows : 0 .. MaxIngest]
        /\ r.target = eraser.target /\ r.ok = eraser.ok /\ NextTarget(r)
    BY <1>6, <2>1 DEF ReadMetric, IInv, TypeOK
  <2>3. /\ eraser' \in [at : {"idle", "delete", "metric", "audit"}, target : Table,
                        ok : BOOLEAN, rows : 0 .. MaxIngest]
        /\ eraser'.ok = eraser.ok
        /\ \A t \in Table : Passed(t)' => t <= eraser.target
    BY <2>2, NextTargetStep
  <2>4. overstated' \subseteq Table
    BY <1>6 DEF ReadMetric, IInv, TypeOK
  <2>5. TypeOK'
    BY <1>1, <1>6, <2>3, <2>4 DEF ReadMetric, IInv, TypeOK
  <2>6. UNCHANGED <<exposed, succeeded>> /\ eraser.at = "metric"
    BY <1>6 DEF ReadMetric
  <2>7. \A t \in Table : Passed(t)' => Passed(t)
    BY <2>3, <2>6 DEF Passed
  <2> QED BY <1>1, <2>3, <2>5, <2>6, <2>7 DEF IInv, Cleared
<1>7. CASE WriteAudit
  <2>1. /\ eraser' \in [at : {"idle", "delete", "metric", "audit"}, target : Table,
                        ok : BOOLEAN, rows : 0 .. MaxIngest]
        /\ eraser'.at = "idle" /\ eraser.at = "audit" /\ succeeded' = eraser.ok
        /\ exposed' = exposed
    BY <1>7 DEF WriteAudit, IInv, TypeOK
  <2>2. TypeOK'
    BY <1>1, <1>7, <2>1 DEF WriteAudit, IInv, TypeOK
  <2>3. \A t \in Table : Passed(t) /\ ~Passed(t)'
    BY <2>1 DEF Passed
  <2> QED BY <1>1, <2>1, <2>2, <2>3 DEF IInv, Cleared
<1>8. CASE Crash
  <2>1. /\ eraser' \in [at : {"idle", "delete", "metric", "audit"}, target : Table,
                        ok : BOOLEAN, rows : 0 .. MaxIngest]
        /\ eraser'.at = "idle" /\ UNCHANGED <<exposed, succeeded, runs>>
        /\ others' = {} /\ overstated' = {}
    BY <1>8 DEF Crash, IInv, TypeOK
  <2>2. TypeOK'
    BY <1>1, <2>1 DEF IInv, TypeOK
  <2>3. \A t \in Table : ~Passed(t)'
    BY <2>1 DEF Passed
  <2> QED BY <1>1, <2>1, <2>2, <2>3 DEF IInv, Cleared
<1> QED BY <1>4, <1>5, <1>6, <1>7, <1>8

\* A VACUUM keeps the files that were removed no longer ago than the retention.
LEMMA VacuumStep == IInv /\ Vacuum => IInv'
<1> SUFFICES ASSUME IInv, Vacuum PROVE IInv'
  OBVIOUS
<1> USE ErasureAssumption
<1>1. /\ UNCHANGED <<metric, ingested, waited, unread, batch, merged, eraser, runs,
                    succeeded, exposed, others, overstated>>
      /\ files' \subseteq files
      /\ \A f \in files : f.age <= Retention => f \in files'
  BY DEF Vacuum, Expired, streamVars, history, IInv, TypeOK, File, Age, Live
<1>2. maint' \in [table : Table, next : {"optimize", "vacuum"}]
  BY DEF Vacuum, NextTable, Table
<1>3. TypeOK'
  BY <1>1, <1>2 DEF IInv, TypeOK
<1>4. \A t \in Table : LiveFiles(t) = {} => LiveFiles(t)' = {}
  BY <1>1 DEF LiveFiles
<1>5. ASSUME NEW i \in Ingest, waited[i] <= Retention, Kept(i) PROVE Kept(i)'
  <2>1. PICK f \in files : /\ f.table = Bronze /\ f.appended /\ f.src = {i}
                           /\ f.age = Live \/ f.age <= waited[i]
    BY <1>5 DEF Kept
  <2>2. f.age \in Age /\ waited[i] \in 0 .. (Retention + 1)
    BY DEF IInv, TypeOK, File
  <2>3. f.age <= Retention
    BY <1>5, <2>1, <2>2 DEF Age, Live
  <2> QED BY <1>1, <2>1, <2>3 DEF Kept
<1> QED BY <1>1, <1>3, <1>4, <1>5, OthersKeep DEF Backlog

LEMMA OptimizeStep == IInv /\ (Optimize \/ OptimizeFails \/ VacuumFails) => IInv'
<1> SUFFICES ASSUME IInv, Optimize \/ OptimizeFails \/ VacuumFails PROVE IInv'
  OBVIOUS
<1> USE ErasureAssumption
<1>1. UNCHANGED <<ingested, waited, unread, batch, merged, eraser, history>>
  BY DEF Optimize, OptimizeFails, VacuumFails, streamVars
<1>2. maint' \in [table : Table, next : {"optimize", "vacuum"}]
  BY DEF Optimize, OptimizeFails, VacuumFails, NextTable, IInv, TypeOK, Table
<1>3. CASE UNCHANGED storeVars
  <2>1. TypeOK'
    BY <1>1, <1>2, <1>3 DEF IInv, TypeOK, storeVars, history
  <2>2. \A t \in Table : LiveFiles(t)' = LiveFiles(t)
    BY <1>3 DEF LiveFiles, storeVars
  <2>3. \A i \in Ingest : Kept(i)' = Kept(i)
    BY <1>1, <1>3 DEF Kept, storeVars
  <2> QED BY <1>1, <2>1, <2>2, <2>3, OthersKeep DEF Backlog, history
<1>4. CASE ~UNCHANGED storeVars
  <2>1. PICK t : t = maint.table
    OBVIOUS
  <2>2. PICK src : src = UNION {f.src : f \in LiveFiles(t)}
    OBVIOUS
  <2>3. t \in Table /\ src \in SUBSET Ingest
    BY <2>1, <2>2, LiveFile DEF IInv, TypeOK, File
  <2>4. PICK added : added = {Rewritten(t, src)}
    OBVIOUS
  <2>5. added \in SUBSET File /\ \A f \in added : f.table = t
    BY <2>3, <2>4, NewFiles
  <2>6. /\ Replace(t, added) /\ LiveFiles(t) # {}
        /\ metric' = [metric EXCEPT ![t] = 0]
    BY <1>4, <2>1, <2>2, <2>4 DEF Optimize, OptimizeFails, VacuumFails
  <2>7. /\ files' \subseteq File
        /\ \A u \in Table : u # t => LiveFiles(u)' = LiveFiles(u)
        /\ \A i \in Ingest : Kept(i) => Kept(i)'
    BY <1>1, <2>3, <2>5, <2>6, ReplaceFiles DEF IInv
  <2>8. TypeOK'
    <3>1. metric' \in [Table -> 0 .. (MaxIngest + OtherRows)]
      BY <2>3, <2>6 DEF IInv, TypeOK
    <3> QED BY <1>1, <1>2, <2>7, <3>1 DEF IInv, TypeOK, history
  <2>9. \A u \in Table : LiveFiles(u) = {} => LiveFiles(u)' = {}
    BY <2>6, <2>7
  <2> QED BY <1>1, <2>7, <2>8, <2>9, OthersKeep DEF Backlog, history
<1> QED BY <1>3, <1>4

LEMMA OtherStep == IInv /\ OtherDelete => IInv'
<1> SUFFICES ASSUME IInv, OtherDelete PROVE IInv'
  OBVIOUS
<1> USE ErasureAssumption
<1>1. UNCHANGED <<ingested, waited, unread, batch, merged, eraser, maint, runs,
                  succeeded, exposed, overstated>>
  BY DEF OtherDelete, streamVars
<1>2. PICK t \in Table, n \in 1 .. OtherRows :
         /\ metric' = [metric EXCEPT ![t] = n]
         /\ others' = IF eraser.at = "idle" THEN others ELSE others \cup {t}
         /\ \/ /\ LiveFiles(t) # {}
               /\ Replace(t, {Rewritten(t, UNION {f.src : f \in LiveFiles(t)})})
            \/ UNCHANGED files
  BY DEF OtherDelete
<1>3. n \in 0 .. (MaxIngest + OtherRows)
  OBVIOUS
<1>4. metric' \in [Table -> 0 .. (MaxIngest + OtherRows)] /\ others' \subseteq Table
  BY <1>2, <1>3 DEF IInv, TypeOK
<1>5. CASE UNCHANGED files
  <2>1. TypeOK'
    BY <1>1, <1>4, <1>5 DEF IInv, TypeOK
  <2>2. \A u \in Table : LiveFiles(u)' = LiveFiles(u)
    BY <1>5 DEF LiveFiles
  <2>3. \A i \in Ingest : Kept(i)' = Kept(i)
    BY <1>1, <1>5 DEF Kept
  <2> QED BY <1>1, <2>1, <2>2, <2>3, OthersKeep DEF Backlog
<1>6. CASE ~UNCHANGED files
  <2>1. PICK src : src = UNION {f.src : f \in LiveFiles(t)}
    OBVIOUS
  <2>2. src \in SUBSET Ingest
    BY <2>1, LiveFile DEF IInv, TypeOK, File
  <2>3. PICK added : added = {Rewritten(t, src)}
    OBVIOUS
  <2>4. added \in SUBSET File /\ \A f \in added : f.table = t
    BY <2>2, <2>3, NewFiles
  <2>5. Replace(t, added) /\ LiveFiles(t) # {}
    BY <1>2, <1>6, <2>1, <2>3
  <2>6. /\ files' \subseteq File
        /\ \A u \in Table : u # t => LiveFiles(u)' = LiveFiles(u)
        /\ \A i \in Ingest : Kept(i) => Kept(i)'
    BY <1>1, <2>4, <2>5, ReplaceFiles DEF IInv
  <2>7. TypeOK'
    BY <1>1, <1>4, <2>6 DEF IInv, TypeOK
  <2>8. \A u \in Table : LiveFiles(u) = {} => LiveFiles(u)' = {}
    BY <2>5, <2>6
  <2> QED BY <1>1, <2>6, <2>7, <2>8, OthersKeep DEF Backlog
<1> QED BY <1>5, <1>6

LEMMA DayStep == IInv /\ NextDay => IInv'
<1> SUFFICES ASSUME IInv, NextDay PROVE IInv'
  OBVIOUS
<1> USE ErasureAssumption
<1>1. \A a \in 0 .. (Retention + 1) :
         Older(a) \in 0 .. (Retention + 1) /\ (a > Retention => Older(a) = a)
         /\ (a <= Retention => Older(a) = a + 1)
  BY DEF Older
<1>2. \A f \in files : f.age # Live => f.age \in 0 .. (Retention + 1)
  BY DEF IInv, TypeOK, File, Age, Live
<1>3. PICK same : same = [f \in files |-> IF f.age = Live THEN f
                                          ELSE [f EXCEPT !.age = Older(f.age)]]
  OBVIOUS
<1>4. \A f \in files :
         /\ same[f] \in File /\ same[f].table = f.table /\ same[f].src = f.src
         /\ same[f].appended = f.appended
         /\ f.age = Live => same[f].age = Live
         /\ f.age # Live => same[f].age = Older(f.age) /\ same[f].age # Live
  BY <1>1, <1>2, <1>3 DEF IInv, TypeOK, File, Age, Live
<1>5. files' = {same[f] : f \in files}
  BY <1>3 DEF NextDay
<1>6. \A t \in Table : LiveFiles(t) = {} => LiveFiles(t)' = {}
  BY <1>4, <1>5 DEF LiveFiles
<1>7. \A i \in Ingest : waited'[i] = IF i <= ingested THEN Older(waited[i]) ELSE 0
  BY DEF NextDay
<1>8. TypeOK'
  <2>1. files' \subseteq File
    BY <1>4, <1>5
  <2>2. waited' \in [Ingest -> 0 .. (Retention + 1)]
    BY <1>1 DEF NextDay, IInv, TypeOK
  <2> QED BY <2>1, <2>2 DEF NextDay, IInv, TypeOK, history
<1>9. ASSUME NEW i \in 1 .. ingested, waited'[i] <= Retention PROVE Kept(i)'
  <2>1. i \in Ingest /\ waited[i] \in 0 .. (Retention + 1)
    BY DEF IInv, TypeOK, Ingest
  <2>2. waited[i] <= Retention /\ waited'[i] = waited[i] + 1
    BY <1>1, <1>7, <1>9, <2>1
  <2>3. PICK f \in files : /\ f.table = Bronze /\ f.appended /\ f.src = {i}
                           /\ f.age = Live \/ f.age <= waited[i]
    BY <2>2 DEF IInv, Readable, Kept
  <2>4. PICK g : g = same[f]
    OBVIOUS
  <2>5. g \in files' /\ g.table = Bronze /\ g.appended /\ g.src = {i}
    BY <1>4, <1>5, <2>3, <2>4
  <2>6. g.age = Live \/ g.age <= waited'[i]
    BY <1>1, <1>2, <1>4, <2>1, <2>2, <2>3, <2>4
  <2> QED BY <2>5, <2>6 DEF Kept
<1>10. UNCHANGED <<ingested, unread, batch, eraser, succeeded, exposed>>
  BY DEF NextDay, history
<1>11. Readable'
  BY <1>9, <1>10 DEF IInv, Readable, Backlog
<1>12. Cleared'
  <2>1. \A t \in Table : Passed(t)' = Passed(t)
    BY <1>10 DEF Passed
  <2>2. Backlog' = Backlog
    BY <1>10 DEF Backlog
  <2> QED BY <1>6, <1>10, <2>1, <2>2 DEF IInv, Cleared
<1> QED BY <1>8, <1>11, <1>12 DEF IInv

LEMMA StepIInv == IInv /\ [Next]_vars => IInv'
<1> SUFFICES ASSUME IInv, [Next]_vars PROVE IInv'
  OBVIOUS
<1>1. CASE UNCHANGED vars
  BY <1>1 DEF vars, storeVars, streamVars, history, IInv, TypeOK, Cleared, Passed, LiveFiles,
              Readable, Kept, Backlog
<1> QED
  BY <1>1, StreamStep, AppendStep, DeleteStep, EraserStep, OtherStep, VacuumStep,
         OptimizeStep, DayStep
     DEF Next

LEMMA Invariance == Spec => []IInv
<1> QED BY InitIInv, StepIInv, PTL DEF Spec

\* The request, the two tables' files and the maintenance loop keep their types.
THEOREM TypeCorrect == Spec => []TypeOK
<1>1. IInv => TypeOK
  BY DEF IInv
<1> QED BY <1>1, Invariance, PTL

\* An erasure that reports success leaves no current row of the subject, for good,
\* provided none of her rows was on its way to Silver and none came after.
THEOREM ErasureHolds == Spec => []StaysErased
<1>1. IInv => StaysErased
  BY DEF IInv, Cleared, StaysErased
<1> QED BY <1>1, Invariance, PTL

\* Compaction, erasure and VACUUM together leave every append the Silver stream has
\* still to read in storage for the whole retention.
THEOREM BacklogKept == Spec => []BacklogReadable
<1>1. IInv => BacklogReadable
  BY DEF IInv, Readable, BacklogReadable, Kept, Present
<1> QED BY <1>1, Invariance, PTL

-----------------------------------------------------------------------------
(* What a run claims *)

\* Of the tables a run has still to delete from, and of the one at hand, the latest
\* commit deleted no more than this run counted, unless it is another's DELETE.
Honest ==
    /\ overstated \subseteq others
    /\ eraser.at = "idle" => overstated = {}
    /\ eraser.at = "delete" =>
          \A t \in Table : t >= eraser.target => t \in others \/ metric[t] = 0
    /\ eraser.at = "metric" =>
          /\ eraser.target \in others \/ metric[eraser.target] <= eraser.rows
          /\ \A t \in Table : t > eraser.target => t \in others \/ metric[t] = 0

\* A commit is another's DELETE, or has the metric 0.
LEMMA OtherCommit ==
    ASSUME TypeOK, Honest, UNCHANGED <<eraser, overstated>>, others \subseteq others',
           \A t \in Table : metric'[t] = metric[t] \/ metric'[t] = 0
                            \/ t \in others' \/ eraser.at = "idle"
    PROVE  Honest'
<1>1. eraser.target \in Table /\ eraser.rows \in Nat
  BY ErasureAssumption DEF TypeOK
<1>2. metric[eraser.target] \in Nat
  BY <1>1, ErasureAssumption DEF TypeOK
<1> QED BY <1>1, <1>2 DEF Honest

LEMMA DeleteCounts == ASSUME TypeOK, Honest, Delete PROVE Honest'
<1>1. PICK t \in Table : t = eraser.target
  BY DEF TypeOK
<1>2. /\ eraser.at = "delete"
      /\ metric' = IF Rows(t) = 0 THEN metric ELSE [metric EXCEPT ![t] = Rows(t)]
      /\ eraser' = [eraser EXCEPT !.at = "metric", !.rows = Rows(t)]
      /\ UNCHANGED <<others, overstated>>
  BY <1>1 DEF Delete, history
<1>3. eraser'.at = "metric" /\ eraser'.target = t /\ eraser'.rows = Rows(t)
  BY <1>1, <1>2 DEF TypeOK
<1>4. \A u \in Table : u # t => metric'[u] = metric[u]
  BY <1>2 DEF TypeOK
<1>5. Rows(t) = 0 => metric'[t] = metric[t]
  BY <1>2
<1>6. Rows(t) # 0 => metric'[t] = Rows(t)
  BY <1>2 DEF TypeOK
<1>7. Rows(t) \in Nat /\ \A u \in Table : u \in Int
  BY RowsType, ErasureAssumption DEF Table, Bronze, Silver
<1>8. \A u \in Table : u >= t => u \in others \/ metric[u] = 0
  BY <1>1, <1>2 DEF Honest
<1>9. t \in others \/ metric'[t] <= Rows(t)
  BY <1>5, <1>6, <1>7, <1>8
<1>10. \A u \in Table : u > t => u \in others \/ metric'[u] = 0
  BY <1>4, <1>7, <1>8
<1> QED BY <1>2, <1>3, <1>9, <1>10 DEF Honest

\* On to the next target, or to the audit.
LEMMA AdvanceKeeps ==
    ASSUME TypeOK, Honest, NEW result, NextTarget(result), result.at \in {"delete", "metric"},
           result \in [at : {"idle", "delete", "metric", "audit"}, target : Table,
                       ok : BOOLEAN, rows : 0 .. MaxIngest],
           eraser.at = result.at, eraser.target = result.target,
           UNCHANGED <<metric, others>>, overstated' \subseteq others
    PROVE  Honest'
<1>1. CASE eraser.target = Silver
  <2>1. eraser'.at = "audit"
    BY <1>1 DEF NextTarget
  <2> QED BY <2>1 DEF Honest
<1>2. CASE eraser.target # Silver
  <2>1. eraser.target = Bronze
    BY <1>2 DEF TypeOK, Table
  <2>2. eraser'.at = "delete" /\ eraser'.target = Silver
    BY <1>2, <2>1 DEF NextTarget, Bronze, Silver
  <2>3. Silver \in others \/ metric[Silver] = 0
    BY <2>1 DEF Honest, Table, Bronze, Silver
  <2>4. \A t \in Table : t >= Silver => t = Silver
    BY DEF Table, Bronze, Silver
  <2> QED BY <2>2, <2>3, <2>4 DEF Honest
<1> QED BY <1>1, <1>2

LEMMA ReadKeeps == ASSUME TypeOK, Honest, ReadMetric PROVE Honest'
<1>1. /\ eraser.at = "metric" /\ NextTarget([eraser EXCEPT !.rows = 0])
      /\ UNCHANGED <<metric, others>>
  BY DEF ReadMetric, storeVars
<1>2. PICK reported \in {0, metric[eraser.target]} :
        overstated' = IF reported > eraser.rows THEN overstated \cup {eraser.target}
                      ELSE overstated
  BY DEF ReadMetric
<1>3. eraser.rows \in Nat /\ metric[eraser.target] \in Nat
  BY ErasureAssumption DEF TypeOK
<1>4. reported > eraser.rows => eraser.target \in others
  BY <1>1, <1>3 DEF Honest
<1>5. overstated' \subseteq others
  BY <1>2, <1>4 DEF Honest
<1>6. 0 \in 0 .. MaxIngest
  BY ErasureAssumption
<1> QED BY <1>1, <1>5, <1>6, AdvanceKeeps DEF TypeOK

LEMMA StepHonest == ASSUME TypeOK, Honest, [Next]_vars PROVE Honest'
<1>1. CASE AppendToBronze
  BY <1>1, OtherCommit DEF AppendToBronze, Table, TypeOK
<1>2. CASE MergeBatch
  BY <1>2, OtherCommit DEF MergeBatch, Table, history, TypeOK
<1>3. CASE PlanBatch \/ CommitBatch
  BY <1>3 DEF PlanBatch, CommitBatch, storeVars, history, Honest
<1>4. CASE StartErase
  <2>1. /\ eraser.at = "idle" /\ eraser'.at = "delete"
        /\ others' = {t \in Table : metric[t] > 0} /\ UNCHANGED <<metric, overstated>>
    BY <1>4 DEF StartErase, storeVars
  <2>2. overstated' = {}
    BY <2>1 DEF Honest
  <2>3. \A t \in Table : metric[t] \in Nat
    BY ErasureAssumption DEF TypeOK
  <2>4. \A t \in Table : t \in others' \/ metric'[t] = 0
    BY <2>1, <2>3
  <2> QED BY <2>1, <2>2, <2>4 DEF Honest
<1>5. CASE Delete
  BY <1>5, DeleteCounts
<1>6. CASE DeleteFails
  <2>1. /\ eraser.at = "delete" /\ NextTarget([eraser EXCEPT !.ok = FALSE])
        /\ UNCHANGED <<metric, others, overstated>>
    BY <1>6 DEF DeleteFails, storeVars, history
  <2>2. overstated' \subseteq others
    BY <2>1 DEF Honest
  <2> QED BY <2>1, <2>2, AdvanceKeeps DEF TypeOK
<1>7. CASE ReadMetric
  BY <1>7, ReadKeeps
<1>8. CASE WriteAudit \/ Crash
  <2>1. eraser'.at = "idle" /\ overstated' = {} /\ others' = {}
    BY <1>8 DEF WriteAudit, Crash, TypeOK
  <2> QED BY <2>1 DEF Honest
<1>9. CASE OtherDelete
  <2>1. PICK t \in Table, n \in 1 .. OtherRows :
           /\ metric' = [metric EXCEPT ![t] = n]
           /\ others' = IF eraser.at = "idle" THEN others ELSE others \cup {t}
    BY <1>9 DEF OtherDelete
  <2>2. \A u \in Table : metric'[u] = metric[u] \/ u \in others' \/ eraser.at = "idle"
    BY <2>1 DEF TypeOK
  <2> QED BY <1>9, <2>1, <2>2, OtherCommit DEF OtherDelete
<1>10. CASE Optimize
  <2>1. maint.table \in Table
    BY DEF TypeOK
  <2>2. \A u \in Table : metric'[u] = metric[u] \/ metric'[u] = 0
    BY <1>10, <2>1 DEF Optimize, storeVars, TypeOK
  <2> QED BY <1>10, <2>2, OtherCommit DEF Optimize, history
<1>11. CASE OptimizeFails \/ Vacuum \/ VacuumFails \/ NextDay
  BY <1>11 DEF OptimizeFails, Vacuum, VacuumFails, NextDay, storeVars, history, Honest
<1>12. CASE UNCHANGED vars
  BY <1>12 DEF vars, storeVars, history, Honest
<1> QED BY <1>1, <1>2, <1>3, <1>4, <1>5, <1>6, <1>7, <1>8, <1>9, <1>10, <1>11, <1>12 DEF Next

\* Whatever the writers, other requests and maintenance do, a run reports more rows
\* of a table than it deleted only where _last_operation_metric can meet the DELETE
\* of another run or request.
THEOREM OverclaimsAreOthers == Spec => []ClaimedByOthersOnly
<1>1. Init => Honest
  BY DEF Init, Honest
<1>2. Honest => ClaimedByOthersOnly
  BY DEF Honest, ClaimedByOthersOnly
<1>3. IInv => TypeOK
  BY DEF IInv
<1> QED BY <1>1, <1>2, <1>3, StepHonest, Invariance, PTL DEF Spec
=============================================================================
