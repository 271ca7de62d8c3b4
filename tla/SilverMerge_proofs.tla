------------------------- MODULE SilverMerge_proofs -------------------------
(* Proofs about SilverMerge: type correctness; one current row per key, and  *)
(* versions that do not overlap, when a job has a single writer and rows of  *)
(* a key never tie on the order column; nothing dropped silently of a source *)
(* with one job; history kept, and current rows that show what the last      *)
(* batch with their key made of it, while the probe of the target tells the  *)
(* truth; and no history fabricated when no row is delivered twice.          *)
EXTENDS SilverMerge, TLAPS

-----------------------------------------------------------------------------
(* What deduplication returns *)

LEMMA DedupRow ==
    ASSUME NEW rows, NEW f \in Dedup(rows), NEW k \in DOMAIN f
    PROVE  f[k] \in rows /\ f[k].key = k
  BY DEF Dedup, Latest

\* Rows that agree on key and order column are the same row.
Untied(rows) == \A x, y \in rows : x.key = y.key /\ x.ord = y.ord => x = y

\* Without ties, every evaluation of dedup_latest picks the same rows.
LEMMA DedupUnique ==
    ASSUME NEW rows, Untied(rows), \A x \in rows : x.ord \in Nat,
           NEW f \in Dedup(rows), NEW g \in Dedup(rows)
    PROVE  /\ DOMAIN f = DOMAIN g
           /\ \A k \in DOMAIN f : f[k] = g[k]
  <1>1. DOMAIN f = {row.key : row \in rows} /\ DOMAIN g = {row.key : row \in rows}
    BY DEF Dedup
  <1>2. ASSUME NEW k \in DOMAIN f
        PROVE  f[k] = g[k]
    <2>1. f[k] \in Latest(rows, k) /\ g[k] \in Latest(rows, k)
      BY <1>1 DEF Dedup
    <2>2. f[k].ord <= g[k].ord /\ g[k].ord <= f[k].ord /\ f[k].key = g[k].key
      BY <2>1 DEF Latest
    <2>3. f[k] \in rows /\ g[k] \in rows
      BY <2>1 DEF Latest
    <2>4. f[k].ord \in Nat /\ g[k].ord \in Nat
      BY <2>3
    <2>5. f[k].ord = g[k].ord
      BY <2>2, <2>4
    <2> QED BY <2>2, <2>3, <2>5 DEF Untied
  <1> QED BY <1>1, <1>2

-----------------------------------------------------------------------------
(* Type correctness: a batch lies within the source table *)

InBounds ==
    /\ \A j \in Jobs : checkpoint[j].done <= Len(Rows(j)) /\ checkpoint[j].plan <= Len(Rows(j))
    /\ \A w \in Workers : batch[w].hi <= Len(Rows(JobOf[w]))

TypeInv == TypeOK /\ InBounds

LEMMA SourceRows ==
    ASSUME bronze \in Bronzes, NEW j \in Jobs
    PROVE  /\ Len(Rows(j)) \in Nat /\ DOMAIN Rows(j) = 1 .. Len(Rows(j))
           /\ Rows(j) \in Contents[SourceOf[j]] /\ SourceOf[j] \in Tables
           /\ \A i \in 1 .. Len(Rows(j)) : Rows(j)[i] \in Row
  <1>1. SourceOf[j] \in Tables
    BY SilverAssumption
  <1>2. Rows(j) \in Contents[SourceOf[j]]
    BY <1>1 DEF Bronzes, Rows
  <1>3. Rows(j) \in Seq(Row)
    BY <1>1, <1>2, SilverAssumption
  <1> HIDE DEF Row
  <1> QED BY <1>1, <1>2, <1>3

LEMMA CleanRows ==
    ASSUME TypeInv, NEW w \in Workers
    PROVE  \A row \in Clean(w) : row \in ValidRow
  <1>0. JobOf[w] \in Jobs /\ bronze \in Bronzes
    BY SilverAssumption DEF TypeInv, TypeOK
  <1>1. \A i \in InBatch(w) : i \in 1 .. Len(Rows(JobOf[w]))
    BY <1>0, SourceRows DEF InBatch, TypeInv, TypeOK, InBounds
  <1>2. \A i \in InBatch(w) \ Bad(w) : Rows(JobOf[w])[i] \in Row /\ Rows(JobOf[w])[i].key # NullKey
    BY <1>0, <1>1, SourceRows DEF Bad, Invalid, Rows
  <1>3. \A row \in Row : row.key # NullKey => row \in ValidRow
    BY DEF Row, ValidRow
  <1> QED BY <1>2, <1>3 DEF Clean

LEMMA NewVersionType ==
    ASSUME TypeInv, NEW w \in Workers, NEW row \in ValidRow
    PROVE  NewVersion(w, row) \in Version
  BY SilverAssumption DEF NewVersion, Version, TypeInv, TypeOK

LEMMA InitTypeInv == Init => TypeInv
  <1> SUFFICES ASSUME Init PROVE TypeInv
    OBVIOUS
  <1>1. \A j \in Jobs : Len(Rows(j)) \in Nat
    BY SourceRows DEF Init
  <1>4. \A w \in Workers : JobOf[w] \in Jobs
    BY SilverAssumption
  <1>2. TypeOK
    BY DEF Init, TypeOK, Step, NoBatch
  <1>3. InBounds
    BY <1>1, <1>4 DEF Init, InBounds, NoBatch
  <1> QED BY <1>2, <1>3 DEF TypeInv

\* The rows a table statement leaves are versions.
LEMMA WriteTableType ==
    ASSUME TypeInv, NEW w \in Workers, NEW rows, WriteTable(w, rows), rows \subseteq Version,
           exists' \in [Jobs -> BOOLEAN], pc' \in [Workers -> Step]
    PROVE  TypeInv'
  <1>1. JobOf[w] \in Jobs
    BY SilverAssumption
  <1>2. table' \in [Jobs -> SUBSET Version]
    BY <1>1 DEF WriteTable, TypeInv, TypeOK
  <1>3. version' \in [Jobs -> Nat]
    BY <1>1 DEF WriteTable, TypeInv, TypeOK
  <1>4. UNCHANGED <<bronze, checkpoint, batch, quarantine, txnVersion, aborts, probeErrors>>
    BY DEF WriteTable
  <1>5. TypeOK'
    BY <1>2, <1>3, <1>4 DEF TypeInv, TypeOK
  <1>6. InBounds'
    BY <1>4 DEF TypeInv, InBounds, Rows
  <1> QED BY <1>5, <1>6 DEF TypeInv

LEMMA NextTypeInv == TypeInv /\ [Next]_vars => TypeInv'
  <1>0. TypeInv => \A w \in Workers : Len(Rows(JobOf[w])) \in Nat /\ JobOf[w] \in Jobs
    BY SourceRows, SilverAssumption DEF TypeInv, TypeOK
  <1>1. ASSUME TypeInv, NEW w \in Workers, Begin(w)
        PROVE  TypeInv'
    <2>1. Len(Rows(JobOf[w])) \in Nat /\ JobOf[w] \in Jobs
      BY <1>0, <1>1
    <2>2. PICK hi \in 1 .. Len(Rows(JobOf[w])) :
            /\ checkpoint' = [checkpoint EXCEPT ![JobOf[w]].plan = hi]
            /\ batch' = [batch EXCEPT ![w] =
                 [id |-> checkpoint[JobOf[w]].id, lo |-> checkpoint[JobOf[w]].done, hi |-> hi]]
      BY <1>1 DEF Begin
    <2>3. /\ checkpoint' \in [Jobs -> [done : Nat, plan : Nat, id : Nat, ends : SUBSET Nat]]
          /\ \A j \in Jobs : checkpoint'[j].done <= Len(Rows(j)) /\ checkpoint'[j].plan <= Len(Rows(j))
      <3>1. checkpoint \in [Jobs -> [done : Nat, plan : Nat, id : Nat, ends : SUBSET Nat]] /\ hi \in Nat
        BY <1>1 DEF TypeInv, TypeOK
      <3>2. checkpoint' \in [Jobs -> [done : Nat, plan : Nat, id : Nat, ends : SUBSET Nat]]
        BY <2>1, <2>2, <3>1
      <3>3. \A j \in Jobs : /\ checkpoint'[j].done = checkpoint[j].done
                            /\ \/ checkpoint'[j].plan = checkpoint[j].plan
                               \/ j = JobOf[w] /\ checkpoint'[j].plan = hi
        BY <2>1, <2>2, <3>1
      <3> QED BY <1>1, <3>2, <3>3 DEF TypeInv, InBounds
    <2>4. /\ batch' \in [Workers -> [id : Nat, lo : Nat, hi : Nat]]
          /\ \A x \in Workers : batch'[x].hi <= Len(Rows(JobOf[x]))
      <3>1. /\ batch \in [Workers -> [id : Nat, lo : Nat, hi : Nat]]
            /\ \A x \in Workers : batch[x].hi <= Len(Rows(JobOf[x]))
            /\ checkpoint[JobOf[w]] \in [done : Nat, plan : Nat, id : Nat, ends : SUBSET Nat]
        BY <1>1, <2>1 DEF TypeInv, TypeOK, InBounds
      <3> DEFINE next == [id |-> checkpoint[JobOf[w]].id, lo |-> checkpoint[JobOf[w]].done,
                          hi |-> hi]
      <3>2. next \in [id : Nat, lo : Nat, hi : Nat] /\ next.hi <= Len(Rows(JobOf[w]))
        BY <2>1, <3>1
      <3>3. batch' = [batch EXCEPT ![w] = next]
        BY <2>2
      <3> HIDE DEF next
      <3> QED BY <3>1, <3>2, <3>3
    <2>5. /\ pc' \in [Workers -> Step]
          /\ UNCHANGED <<bronze, table, exists, version, quarantine, txnVersion, aborts, probeErrors>>
      BY <1>1 DEF Begin, Goto, TypeInv, TypeOK, Step
    <2> QED BY <1>1, <2>3, <2>4, <2>5 DEF TypeInv, TypeOK, InBounds, Rows
  <1>2. ASSUME TypeInv, NEW w \in Workers, Commit(w)
        PROVE  TypeInv'
    <2>1. Len(Rows(JobOf[w])) \in Nat /\ JobOf[w] \in Jobs
      BY <1>0, <1>2
    <2>2. /\ checkpoint' \in [Jobs -> [done : Nat, plan : Nat, id : Nat, ends : SUBSET Nat]]
          /\ \A j \in Jobs : checkpoint'[j].done <= Len(Rows(j)) /\ checkpoint'[j].plan <= Len(Rows(j))
      <3>1. /\ checkpoint \in [Jobs -> [done : Nat, plan : Nat, id : Nat, ends : SUBSET Nat]]
            /\ \A j \in Jobs : checkpoint[j].done <= Len(Rows(j)) /\ checkpoint[j].plan <= Len(Rows(j))
            /\ batch[w].hi \in Nat /\ batch[w].id \in Nat /\ batch[w].hi <= Len(Rows(JobOf[w]))
        BY <1>2 DEF TypeInv, TypeOK, InBounds
      <3>2. CASE checkpoint' = checkpoint
        BY <3>1, <3>2
      <3> DEFINE next == [done |-> batch[w].hi, plan |-> 0, id |-> batch[w].id + 1,
                          ends |-> checkpoint[JobOf[w]].ends \cup {batch[w].hi}]
      <3>3. CASE checkpoint' = [checkpoint EXCEPT ![JobOf[w]] = next]
        <4>1. /\ next \in [done : Nat, plan : Nat, id : Nat, ends : SUBSET Nat]
              /\ next.done <= Len(Rows(JobOf[w])) /\ next.plan <= Len(Rows(JobOf[w]))
          <5>1. checkpoint[JobOf[w]].ends \subseteq Nat
            BY <2>1, <3>1
          <5> QED BY <2>1, <3>1, <5>1
        <4> HIDE DEF next
        <4> QED BY <2>1, <3>1, <3>3, <4>1
      <3> QED BY <1>2, <2>1, <3>1, <3>2, <3>3 DEF Commit
    <2>3. /\ batch' \in [Workers -> [id : Nat, lo : Nat, hi : Nat]]
          /\ \A x \in Workers : batch'[x].hi <= Len(Rows(JobOf[x]))
      BY <1>2, <2>1 DEF Commit, TypeInv, TypeOK, InBounds, NoBatch
    <2> QED BY <1>2, <2>2, <2>3 DEF Commit, Goto, TypeInv, TypeOK, InBounds, Step, Rows
  <1>3. ASSUME TypeInv, NEW w \in Workers, Abort(w)
        PROVE  TypeInv'
    <2>1. \A x \in Workers : Len(Rows(JobOf[x])) \in Nat
      BY <1>0, <1>3
    <2> QED BY <1>3, <2>1 DEF Rows, Abort, Goto, TypeInv, TypeOK, InBounds, Step, NoBatch
  <1>4. ASSUME TypeInv, NEW w \in Workers, Quarantine(w)
        PROVE  TypeInv'
    <2>1. QuarantineOf(JobOf[w]) \in Tables
      BY SilverAssumption DEF QuarantineOf
    <2>2. Bad(w) \subseteq Nat /\ batch[w].id \in Nat
      BY <1>4 DEF Bad, InBatch, TypeInv, TypeOK
    <2>3. quarantine' \in [Tables -> SUBSET Nat] /\ txnVersion' \in [Tables -> Nat \cup {-1}]
      <3>1. quarantine \in [Tables -> SUBSET Nat] /\ txnVersion \in [Tables -> Nat \cup {-1}]
        BY <1>4 DEF TypeInv, TypeOK
      <3>2. CASE UNCHANGED <<quarantine, txnVersion>>
        BY <3>1, <3>2
      <3> DEFINE p == QuarantineOf(JobOf[w])
      <3>3. CASE /\ quarantine' = [quarantine EXCEPT ![p] = @ \cup Bad(w)]
                 /\ txnVersion' = [txnVersion EXCEPT ![p] = batch[w].id]
        <4>1. quarantine[p] \cup Bad(w) \in SUBSET Nat
          BY <2>1, <2>2, <3>1
        <4> HIDE DEF p
        <4>2. quarantine' \in [Tables -> SUBSET Nat]
          BY <3>1, <3>3, <4>1
        <4>3. txnVersion' \in [Tables -> Nat \cup {-1}]
          BY <2>2, <3>1, <3>3
        <4> QED BY <4>2, <4>3
      <3> QED BY <1>4, <3>2, <3>3 DEF Quarantine
    <2> QED BY <1>4, <2>3 DEF Quarantine, Goto, TypeInv, TypeOK, InBounds, Step, Rows
  <1>5. ASSUME TypeInv, NEW w \in Workers, Probe(w)
        PROVE  TypeInv'
    <2>1. /\ pc' \in [Workers -> Step]
          /\ UNCHANGED <<bronze, checkpoint, batch, table, exists, version, quarantine, txnVersion, aborts>>
      BY <1>5 DEF Probe, MergeStep, Goto, TypeInv, TypeOK, Step
    <2>2. probeErrors' \in Nat
      BY <1>5 DEF Probe, TypeInv, TypeOK
    <2> QED BY <1>5, <2>1, <2>2 DEF TypeInv, TypeOK, InBounds, Rows
  <1>6. ASSUME TypeInv, NEW w \in Workers, NEW f \in Dedup(Clean(w)), NEW S \in SUBSET DOMAIN f
        PROVE  {NewVersion(w, f[k]) : k \in S} \subseteq Version
    BY <1>6, DedupRow, CleanRows, NewVersionType
  <1>7. ASSUME TypeInv, NEW w \in Workers, Create(w)
        PROVE  TypeInv'
    <2>1. exists' \in [Jobs -> BOOLEAN] /\ pc' \in [Workers -> Step]
      BY <1>7 DEF Create, Goto, TypeInv, TypeOK, Step
    <2>2. CASE WriteTable(w, {})
      BY <1>7, <2>1, <2>2, WriteTableType
    <2>3. ASSUME NEW f \in Dedup(Clean(w)),
                 WriteTable(w, {NewVersion(w, f[k]) : k \in DOMAIN f})
          PROVE  TypeInv'
      BY <1>6, <1>7, <2>1, <2>3, WriteTableType
    <2> QED BY <1>7, <2>2, <2>3 DEF Create
  <1>8. ASSUME TypeInv, NEW w \in Workers, MergeType1(w)
        PROVE  TypeInv'
    <2>1. exists' \in [Jobs -> BOOLEAN] /\ pc' \in [Workers -> Step]
      BY <1>8 DEF MergeType1, Goto, TypeInv, TypeOK, Step
    <2>2. PICK f \in Dedup(Clean(w)) :
            WriteTable(w, {v \in table[JobOf[w]] : v.row.key \notin DOMAIN f}
                          \cup {NewVersion(w, f[k]) : k \in DOMAIN f})
      BY <1>8 DEF MergeType1
    <2>3. table[JobOf[w]] \subseteq Version
      BY <1>8, SilverAssumption DEF TypeInv, TypeOK
    <2> QED BY <1>6, <1>8, <2>1, <2>2, <2>3, WriteTableType
  <1>9. ASSUME TypeInv, NEW w \in Workers, Retire(w)
        PROVE  TypeInv'
    <2>1. exists' \in [Jobs -> BOOLEAN] /\ pc' \in [Workers -> Step]
      BY <1>9 DEF Retire, Goto, TypeInv, TypeOK, Step
    <2>2. PICK f \in Dedup(Clean(w)) :
            WriteTable(w, {IF Superseded(v, f) THEN [v EXCEPT !.until = version[JobOf[w]] + 1]
                                               ELSE v : v \in table[JobOf[w]]})
      BY <1>9 DEF Retire
    <2>3. table[JobOf[w]] \subseteq Version /\ version[JobOf[w]] \in Nat
      BY <1>9, SilverAssumption DEF TypeInv, TypeOK
    <2>4. \A v \in table[JobOf[w]] : [v EXCEPT !.until = version[JobOf[w]] + 1] \in Version
      BY <2>3 DEF Version
    <2> QED BY <1>9, <2>1, <2>2, <2>3, <2>4, WriteTableType
  <1>10. ASSUME TypeInv, NEW w \in Workers, Insert(w)
         PROVE  TypeInv'
    <2>1. exists' \in [Jobs -> BOOLEAN] /\ pc' \in [Workers -> Step]
      BY <1>10 DEF Insert, Goto, TypeInv, TypeOK, Step
    <2>2. PICK f \in Dedup(Clean(w)) : \E S \in SUBSET DOMAIN f :
            WriteTable(w, table[JobOf[w]] \cup {NewVersion(w, f[k]) : k \in S})
      BY <1>10 DEF Insert
    <2>3. table[JobOf[w]] \subseteq Version
      BY <1>10, SilverAssumption DEF TypeInv, TypeOK
    <2> QED BY <1>6, <1>10, <2>1, <2>2, <2>3, WriteTableType
  <1>11. TypeInv /\ UNCHANGED vars => TypeInv'
    BY DEF TypeInv, TypeOK, InBounds, Rows, vars
  <1> QED BY <1>1, <1>2, <1>3, <1>4, <1>5, <1>7, <1>8, <1>9, <1>10, <1>11 DEF Next, Handle

\* Every reachable state of the Silver jobs has its type (BronzeToSilverJob 289-392).
THEOREM TypeCorrect == Spec => []TypeOK
  <1>1. TypeInv => TypeOK
    BY DEF TypeInv
  <1> QED BY <1>1, InitTypeInv, NextTypeInv, PTL DEF Spec

-----------------------------------------------------------------------------
(* One current row per key, for a job with one writer and without ties *)

\* Two workers never run one job, which nothing in the code enforces.
SingleWriter == \A w, x \in Workers : JobOf[w] = JobOf[x] => w = x

\* Rows of a key never share the order column, unless they are the same row.
NoTies == \A t \in Tables : \A s \in Contents[t] : Untied({s[i] : i \in DOMAIN s})

\* Between the two MERGEs: a current row of a key of the batch is up to date,
\* so the second one has nothing to insert for that key.
Ready(w) ==
    \A f \in Dedup(Clean(w)) : \A v \in table[JobOf[w]] :
        Current(v) /\ v.row.key \in DOMAIN f => v.row.val = f[v.row.key].val

RetiredBeforeInsert == \A w \in Workers : pc[w] = "insert" => Ready(w)

OneInv == TypeInv /\ OneCurrent /\ RetiredBeforeInsert

LEMMA CleanUntied ==
    ASSUME TypeInv, NoTies, NEW w \in Workers
    PROVE  Untied(Clean(w)) /\ \A row \in Clean(w) : row.ord \in Nat
  <1> PICK j \in Jobs : j = JobOf[w]
    BY SilverAssumption
  <1>0. bronze \in Bronzes
    BY DEF TypeInv, TypeOK
  <1>1. \A i \in InBatch(w) : i \in 1 .. Len(Rows(j))
    BY <1>0, SourceRows DEF InBatch, TypeInv, TypeOK, InBounds
  <1>2. Clean(w) \subseteq {Rows(j)[i] : i \in DOMAIN Rows(j)}
    BY <1>0, <1>1, SourceRows DEF Clean
  <1>3. Untied({Rows(j)[i] : i \in DOMAIN Rows(j)})
    BY <1>0, SourceRows DEF NoTies
  <1>4. Untied(Clean(w))
    BY <1>2, <1>3 DEF Untied
  <1> QED BY <1>4, CleanRows DEF ValidRow

\* What a step of worker w leaves alone.
LEMMA OthersUntouched ==
    ASSUME TypeInv, SingleWriter, NEW w \in Workers, NEW x \in Workers \ {w},
           Begin(w) \/ Handle(w) \/ Commit(w) \/ Abort(w)
    PROVE  pc'[x] = pc[x] /\ Clean(x)' = Clean(x) /\ table'[JobOf[x]] = table[JobOf[x]]
  <1>1. JobOf[x] # JobOf[w] /\ JobOf[x] \in Jobs /\ JobOf[w] \in Jobs
    BY SilverAssumption DEF SingleWriter
  <1>2. bronze' = bronze
    BY DEF Begin, Handle, Commit, Abort, Quarantine, Probe, Create, MergeType1, Retire, Insert,
           WriteTable
  <1>3. pc'[x] = pc[x]
    BY DEF Begin, Handle, Commit, Abort, Quarantine, Probe, Create, MergeType1, Retire, Insert,
           Goto, TypeInv, TypeOK
  <1>4. batch'[x] = batch[x]
    BY DEF Begin, Handle, Commit, Abort, Quarantine, Probe, Create, MergeType1, Retire, Insert,
           WriteTable, TypeInv, TypeOK
  <1>5. table'[JobOf[x]] = table[JobOf[x]]
    BY <1>1 DEF Begin, Handle, Commit, Abort, Quarantine, Probe, Create, MergeType1, Retire,
                Insert, WriteTable, TypeInv, TypeOK
  <1>6. Clean(x)' = Clean(x)
    BY <1>2, <1>4 DEF Clean, Bad, InBatch, Rows
  <1> QED BY <1>3, <1>5, <1>6

\* So only w's own steps can disturb what holds before an insert.
LEMMA OthersReady ==
    ASSUME OneInv, SingleWriter, NEW w \in Workers,
           Begin(w) \/ Handle(w) \/ Commit(w) \/ Abort(w),
           pc'[w] = "insert" => Ready(w)'
    PROVE  RetiredBeforeInsert'
  <1> SUFFICES ASSUME NEW x \in Workers, pc'[x] = "insert"
               PROVE  Ready(x)'
    BY DEF RetiredBeforeInsert
  <1>1. CASE x = w
    BY <1>1
  <1>2. CASE x # w
    <2>1. pc'[x] = pc[x] /\ Clean(x)' = Clean(x) /\ table'[JobOf[x]] = table[JobOf[x]]
      BY <1>2, OthersUntouched DEF OneInv
    <2>2. Ready(x)
      BY <2>1 DEF OneInv, RetiredBeforeInsert
    <2> QED BY <2>1, <2>2 DEF Ready, Current
  <1> QED BY <1>1, <1>2

\* A table statement keeps one current row per key when its rows do.
LEMMA WriteKeepsOne ==
    ASSUME OneInv, NEW w \in Workers, NEW rows, WriteTable(w, rows),
           \A u, v \in rows : u.row.key = v.row.key /\ Current(u) /\ Current(v) => u = v
    PROVE  OneCurrent'
  <1>1. JobOf[w] \in Jobs
    BY SilverAssumption
  <1>2. table'[JobOf[w]] = rows /\ \A j \in Jobs \ {JobOf[w]} : table'[j] = table[j]
    BY <1>1 DEF WriteTable, OneInv, TypeInv, TypeOK
  <1> QED BY <1>2 DEF OneInv, OneCurrent, Current

\* The versions a batch writes are one per key.
LEMMA NewVersionsDiffer ==
    ASSUME NEW w \in Workers, NEW f \in Dedup(Clean(w)),
           NEW u, NEW v, u.row.key = v.row.key,
           \E k \in DOMAIN f : u = NewVersion(w, f[k]),
           \E k \in DOMAIN f : v = NewVersion(w, f[k])
    PROVE  u = v /\ u.row.key \in DOMAIN f
  <1>1. PICK k \in DOMAIN f : u = NewVersion(w, f[k])
    OBVIOUS
  <1>2. PICK m \in DOMAIN f : v = NewVersion(w, f[m])
    OBVIOUS
  <1>3. u.row.key = k /\ v.row.key = m
    BY <1>1, <1>2, DedupRow DEF NewVersion
  <1> QED BY <1>1, <1>2, <1>3

LEMMA NextOneInv ==
    ASSUME SingleWriter, NoTies
    PROVE  OneInv /\ [Next]_vars => OneInv'
  <1>1. ASSUME OneInv, NEW w \in Workers,
               Begin(w) \/ Commit(w) \/ Abort(w) \/ Quarantine(w) \/ Probe(w)
        PROVE  OneCurrent' /\ RetiredBeforeInsert'
    <2>1. table' = table
      BY <1>1 DEF Begin, Commit, Abort, Quarantine, Probe
    <2>2. pc'[w] # "insert"
      BY <1>1 DEF OneInv, TypeInv, TypeOK, Begin, Commit, Abort, Quarantine, Probe, MergeStep, Goto
    <2> QED BY <1>1, <2>1, <2>2, OthersReady DEF OneInv, OneCurrent, Current, Handle
  <1>2. ASSUME OneInv, NEW w \in Workers, Create(w)
        PROVE  OneCurrent' /\ RetiredBeforeInsert'
    <2>1. pc'[w] # "insert"
      BY <1>2 DEF OneInv, TypeInv, TypeOK, Create, Goto
    <2>2. ASSUME WriteTable(w, {})
          PROVE  OneCurrent'
      BY <1>2, <2>2, WriteKeepsOne
    <2>3. ASSUME NEW f \in Dedup(Clean(w)),
                 WriteTable(w, {NewVersion(w, f[k]) : k \in DOMAIN f})
          PROVE  OneCurrent'
      <3>1. \A u, v \in {NewVersion(w, f[k]) : k \in DOMAIN f} : u.row.key = v.row.key => u = v
        BY NewVersionsDiffer
      <3> QED BY <1>2, <2>3, <3>1, WriteKeepsOne
    <2>4. OneCurrent'
      BY <1>2, <2>2, <2>3 DEF Create
    <2> QED BY <1>2, <2>1, <2>4, OthersReady DEF Handle
  <1>3. ASSUME OneInv, NEW w \in Workers, MergeType1(w)
        PROVE  OneCurrent' /\ RetiredBeforeInsert'
    <2>1. pc'[w] # "insert"
      BY <1>3 DEF OneInv, TypeInv, TypeOK, MergeType1, Goto
    <2>2. PICK f \in Dedup(Clean(w)) :
            WriteTable(w, {v \in table[JobOf[w]] : v.row.key \notin DOMAIN f}
                          \cup {NewVersion(w, f[k]) : k \in DOMAIN f})
      BY <1>3 DEF MergeType1
    <2>3. ASSUME NEW u \in {v \in table[JobOf[w]] : v.row.key \notin DOMAIN f}
                           \cup {NewVersion(w, f[k]) : k \in DOMAIN f},
                 NEW v \in {x \in table[JobOf[w]] : x.row.key \notin DOMAIN f}
                           \cup {NewVersion(w, f[k]) : k \in DOMAIN f},
                 u.row.key = v.row.key, Current(u), Current(v)
          PROVE  u = v
      <3>1. CASE u.row.key \in DOMAIN f
        BY <2>3, <3>1, NewVersionsDiffer
      <3>2. CASE u.row.key \notin DOMAIN f
        <4>1. u \in table[JobOf[w]] /\ v \in table[JobOf[w]]
          BY <2>3, <3>2, NewVersionsDiffer
        <4> QED BY <1>3, <2>3, <4>1, SilverAssumption DEF OneInv, OneCurrent
      <3> QED BY <3>1, <3>2
    <2>4. OneCurrent'
      BY <1>3, <2>2, <2>3, WriteKeepsOne
    <2> QED BY <1>3, <2>1, <2>4, OthersReady DEF Handle
  <1>4. ASSUME OneInv, NEW w \in Workers, Retire(w)
        PROVE  OneCurrent' /\ RetiredBeforeInsert'
    <2>1. PICK f \in Dedup(Clean(w)) :
            WriteTable(w, {IF Superseded(v, f) THEN [v EXCEPT !.until = version[JobOf[w]] + 1]
                                               ELSE v : v \in table[JobOf[w]]})
      BY <1>4 DEF Retire
    <2>2. JobOf[w] \in Jobs /\ table[JobOf[w]] \subseteq Version /\ version[JobOf[w]] \in Nat
      BY <1>4, SilverAssumption DEF OneInv, TypeInv, TypeOK
    \* A current row after the statement was there before, and is not superseded.
    <2>3. ASSUME NEW u \in {IF Superseded(v, f)
                            THEN [v EXCEPT !.until = version[JobOf[w]] + 1]
                            ELSE v : v \in table[JobOf[w]]},
                 Current(u)
          PROVE  u \in table[JobOf[w]] /\ ~Superseded(u, f)
      <3>1. PICK v \in table[JobOf[w]] :
              u = IF Superseded(v, f) THEN [v EXCEPT !.until = version[JobOf[w]] + 1] ELSE v
        BY <2>3
      <3>2. CASE Superseded(v, f)
        <4>1. u.until = version[JobOf[w]] + 1
          BY <2>2, <3>1, <3>2 DEF Version
        <4> QED BY <2>2, <2>3, <4>1 DEF Current
      <3> QED BY <3>1, <3>2
    <2>4. OneCurrent'
      BY <1>4, <2>1, <2>2, <2>3, WriteKeepsOne DEF OneInv, OneCurrent
    <2>5. Clean(w)' = Clean(w)
      BY <2>1 DEF WriteTable, Clean, Bad, InBatch, Rows
    <2>6. Ready(w)'
      <3> SUFFICES ASSUME NEW g \in Dedup(Clean(w)), NEW u \in table'[JobOf[w]],
                          Current(u), u.row.key \in DOMAIN g
                   PROVE  u.row.val = g[u.row.key].val
        BY <2>5 DEF Ready, Current
      <3>1. ~Superseded(u, f)
        BY <1>4, <2>1, <2>2, <2>3 DEF WriteTable, OneInv, TypeInv, TypeOK
      <3>2. DOMAIN f = DOMAIN g /\ \A k \in DOMAIN f : f[k] = g[k]
        BY <1>4, CleanUntied, DedupUnique DEF OneInv
      <3> QED BY <3>1, <3>2 DEF Superseded
    <2> QED BY <1>4, <2>4, <2>6, OthersReady DEF Handle
  <1>5. ASSUME OneInv, NEW w \in Workers, Insert(w)
        PROVE  OneCurrent' /\ RetiredBeforeInsert'
    <2>1. pc[w] = "insert" /\ pc'[w] # "insert"
      BY <1>5 DEF OneInv, TypeInv, TypeOK, Insert, Goto
    <2>2. PICK f \in Dedup(Clean(w)) :
            WriteTable(w, table[JobOf[w]] \cup
              {NewVersion(w, f[k]) :
                 k \in {m \in DOMAIN f : \A v \in table[JobOf[w]] : ~Identical(v, f[m])}})
      BY <1>5 DEF Insert
    <2>3. ASSUME NEW m \in DOMAIN f, \A v \in table[JobOf[w]] : ~Identical(v, f[m]),
                 NEW u \in table[JobOf[w]], Current(u), u.row.key = m
          PROVE  FALSE
      <3>1. u.row.val = f[m].val
        BY <1>5, <2>1, <2>3 DEF OneInv, RetiredBeforeInsert, Ready
      <3> QED BY <2>3, <3>1, DedupRow DEF Identical
    <2>4. ASSUME NEW u, NEW m \in DOMAIN f, u = NewVersion(w, f[m])
          PROVE  u.row.key = m
      BY <2>4, DedupRow DEF NewVersion
    <2>5. OneCurrent'
      BY <1>5, <2>2, <2>3, <2>4, WriteKeepsOne, SilverAssumption DEF OneInv, OneCurrent
    <2> QED BY <1>5, <2>1, <2>5, OthersReady DEF Handle
  <1>6. OneInv /\ UNCHANGED vars => OneCurrent' /\ RetiredBeforeInsert'
    BY DEF OneInv, OneCurrent, RetiredBeforeInsert, Ready, Current, Clean, Bad, InBatch, Rows, vars
  <1>7. OneInv /\ [Next]_vars => TypeInv'
    BY NextTypeInv DEF OneInv
  <1> QED BY <1>1, <1>2, <1>3, <1>4, <1>5, <1>6, <1>7 DEF OneInv, Next, Handle

LEMMA InitOneInv == Init => OneInv
  <1>1. Init => OneCurrent /\ RetiredBeforeInsert
    BY DEF Init, OneCurrent, RetiredBeforeInsert
  <1> QED BY <1>1, InitTypeInv DEF OneInv

\* With one application per job and no ties on the order column, the two MERGEs
\* of apply_scd_type2 (bronze_to_silver.py 238-270) leave one current row per key,
\* whatever batch is replayed after whatever crash or failed probe.
THEOREM OneCurrentPerKey ==
    ASSUME SingleWriter, NoTies
    PROVE  Spec => []OneCurrent
  <1>1. Init => OneInv
    BY InitOneInv
  <1>2. OneInv /\ [Next]_vars => OneInv'
    BY NextOneInv
  <1>3. OneInv => OneCurrent
    BY DEF OneInv
  <1> QED BY <1>1, <1>2, <1>3, PTL DEF Spec

-----------------------------------------------------------------------------
(* The versions of a key do not overlap in time *)

\* The clock of a target is ahead of all its versions.
Clocked == \A j \in Jobs : \A v \in table[j] : v.from <= version[j] /\ v.until <= version[j]

DisjointInv == Clocked /\ IntervalsDisjoint

Disjoint(rows) ==
    \A u, v \in rows : u.row.key = v.row.key /\ u.from < v.from => u.until # 0 /\ u.until <= v.from

\* A table statement keeps the versions apart when its rows are.
LEMMA WriteKeepsApart ==
    ASSUME TypeInv, DisjointInv, NEW w \in Workers, NEW rows, WriteTable(w, rows), Disjoint(rows),
           \A v \in rows : v.from <= version[JobOf[w]] + 1 /\ v.until <= version[JobOf[w]] + 1
    PROVE  DisjointInv'
  <1>1. JobOf[w] \in Jobs /\ table \in [Jobs -> SUBSET Version] /\ version \in [Jobs -> Nat]
    BY SilverAssumption DEF TypeInv, TypeOK
  <1>2. table'[JobOf[w]] = rows /\ version'[JobOf[w]] = version[JobOf[w]] + 1
    BY <1>1 DEF WriteTable
  <1>3. \A j \in Jobs \ {JobOf[w]} : table'[j] = table[j] /\ version'[j] = version[j]
    BY <1>1 DEF WriteTable
  <1>4. Clocked'
    BY <1>2, <1>3 DEF DisjointInv, Clocked
  <1>5. IntervalsDisjoint'
    BY <1>2, <1>3 DEF DisjointInv, IntervalsDisjoint, Disjoint
  <1> QED BY <1>4, <1>5 DEF DisjointInv

\* The rows w's job holds, as the statements of w find them.
LEMMA TableOfJob ==
    ASSUME TypeInv, DisjointInv, NEW w \in Workers
    PROVE  /\ version[JobOf[w]] \in Nat
           /\ Disjoint(table[JobOf[w]])
           /\ \A v \in table[JobOf[w]] :
                /\ v \in Version /\ v.from \in Nat /\ v.until \in Nat
                /\ v.from <= version[JobOf[w]] /\ v.until <= version[JobOf[w]]
  <1>1. JobOf[w] \in Jobs
    BY SilverAssumption
  <1>2. version[JobOf[w]] \in Nat /\ \A v \in table[JobOf[w]] : v \in Version
    BY <1>1 DEF TypeInv, TypeOK
  <1>3. \A v \in Version : v.from \in Nat /\ v.until \in Nat
    BY DEF Version
  <1>4. \A v \in table[JobOf[w]] : v.from <= version[JobOf[w]] /\ v.until <= version[JobOf[w]]
    BY <1>1 DEF DisjointInv, Clocked
  <1>5. Disjoint(table[JobOf[w]])
    BY <1>1 DEF DisjointInv, IntervalsDisjoint, Disjoint
  <1> QED BY <1>2, <1>3, <1>4, <1>5

\* New versions begin where every version there was has ended.
LEMMA AppendsApart ==
    ASSUME TypeInv, DisjointInv, NEW w \in Workers, NEW old \in SUBSET table[JobOf[w]], NEW new,
           \A v \in new : v.from = version[JobOf[w]] + 1 /\ v.until = 0,
           \A u \in old, v \in new : u.row.key = v.row.key => ~Current(u)
    PROVE  /\ Disjoint(old \cup new)
           /\ \A v \in old \cup new :
                v.from <= version[JobOf[w]] + 1 /\ v.until <= version[JobOf[w]] + 1
  <1> PICK clock \in Nat : clock = version[JobOf[w]]
    BY TableOfJob
  <1>1. \A u \in old : /\ u.from \in Nat /\ u.until \in Nat
                       /\ u.from <= clock /\ u.until <= clock
    BY TableOfJob
  <1>2. ASSUME NEW u \in old \cup new, NEW v \in old \cup new,
               u.row.key = v.row.key, u.from < v.from
        PROVE  u.until # 0 /\ u.until <= v.from
    <2>1. CASE v \in new
      <3>1. u \in old
        BY <1>2, <2>1
      <3> QED BY <1>1, <1>2, <2>1, <3>1 DEF Current
    <2>2. CASE v \notin new /\ u \in new
      <3>1. v \in old /\ u.from = clock + 1
        BY <2>2
      <3> QED BY <1>1, <1>2, <3>1
    <2>3. CASE u \in old /\ v \in old
      BY <1>2, <2>3, TableOfJob DEF Disjoint
    <2> QED BY <2>1, <2>2, <2>3
  <1>3. \A v \in old \cup new : v.from <= clock + 1 /\ v.until <= clock + 1
    BY <1>1
  <1> QED BY <1>2, <1>3 DEF Disjoint

\* Retiring versions at a time after all of them changes no beginning.
LEMMA RetiresApart ==
    ASSUME TypeInv, DisjointInv, NEW w \in Workers, NEW f
    PROVE  LET rows == {IF Superseded(v, f) THEN [v EXCEPT !.until = version[JobOf[w]] + 1]
                                            ELSE v : v \in table[JobOf[w]]}
           IN  /\ Disjoint(rows)
               /\ \A v \in rows :
                    v.from <= version[JobOf[w]] + 1 /\ v.until <= version[JobOf[w]] + 1
  <1> PICK clock \in Nat : clock = version[JobOf[w]]
    BY TableOfJob
  <1> DEFINE After(v) == IF Superseded(v, f) THEN [v EXCEPT !.until = clock + 1] ELSE v
  <1>1. ASSUME NEW v \in table[JobOf[w]]
        PROVE  /\ v.from \in Nat /\ v.until \in Nat /\ v.from <= clock /\ v.until <= clock
               /\ After(v).row = v.row /\ After(v).from = v.from
               /\ After(v).until = v.until \/ (After(v).until = clock + 1 /\ v.until = 0)
    <2>1. v \in Version /\ v.from \in Nat /\ v.until \in Nat /\ v.from <= clock /\ v.until <= clock
      BY TableOfJob
    <2>2. CASE Superseded(v, f)
      <3>1. v.until = 0
        BY <2>2 DEF Superseded, Current
      <3>2. After(v) = [v EXCEPT !.until = clock + 1]
        BY <2>2
      <3> HIDE DEF After
      <3>3. After(v).row = v.row /\ After(v).from = v.from /\ After(v).until = clock + 1
        BY <2>1, <3>2 DEF Version
      <3> QED BY <2>1, <3>1, <3>3
    <2>3. CASE ~Superseded(v, f)
      BY <2>1, <2>3
    <2> QED BY <2>2, <2>3
  <1> HIDE DEF After
  <1>2. ASSUME NEW u \in table[JobOf[w]], NEW v \in table[JobOf[w]],
               After(u).row.key = After(v).row.key, After(u).from < After(v).from
        PROVE  After(u).until # 0 /\ After(u).until <= After(v).from
    <2>1. u.row.key = v.row.key /\ u.from < v.from
      BY <1>1, <1>2
    <2>2. u.until # 0 /\ u.until <= v.from
      BY <2>1, TableOfJob DEF Disjoint
    <2> QED BY <1>1, <2>2
  <1>3. \A v \in table[JobOf[w]] : After(v).from <= clock + 1 /\ After(v).until <= clock + 1
    BY <1>1
  <1>4. {After(v) : v \in table[JobOf[w]]}
          = {IF Superseded(v, f) THEN [v EXCEPT !.until = version[JobOf[w]] + 1]
                                 ELSE v : v \in table[JobOf[w]]}
    BY DEF After
  <1>5. Disjoint({After(v) : v \in table[JobOf[w]]})
    BY <1>2 DEF Disjoint
  <1>6. \A v \in {After(x) : x \in table[JobOf[w]]} :
           v.from <= version[JobOf[w]] + 1 /\ v.until <= version[JobOf[w]] + 1
    BY <1>3
  <1> QED BY <1>4, <1>5, <1>6

LEMMA NextDisjoint == OneInv /\ DisjointInv /\ [Next]_vars => DisjointInv'
  <1> SUFFICES ASSUME OneInv, DisjointInv, [Next]_vars
               PROVE  DisjointInv'
    OBVIOUS
  <1> USE DEF OneInv
  <1>1. ASSUME NEW w \in Workers, NEW f \in Dedup(Clean(w)), NEW k \in DOMAIN f
        PROVE  /\ NewVersion(w, f[k]).from = version[JobOf[w]] + 1
               /\ NewVersion(w, f[k]).until = 0
               /\ NewVersion(w, f[k]).row.key = k
    BY DedupRow DEF NewVersion
  <1>2. ASSUME NEW w \in Workers,
               Begin(w) \/ Commit(w) \/ Abort(w) \/ Quarantine(w) \/ Probe(w)
        PROVE  DisjointInv'
    BY <1>2 DEF Begin, Commit, Abort, Quarantine, Probe, DisjointInv, Clocked, IntervalsDisjoint
  <1>3. ASSUME NEW w \in Workers, Create(w)
        PROVE  DisjointInv'
    <2>1. PICK new : /\ WriteTable(w, new)
                     /\ \A v \in new : v.from = version[JobOf[w]] + 1 /\ v.until = 0
      <3>1. CASE WriteTable(w, {})
        BY <3>1
      <3>2. CASE \E f \in Dedup(Clean(w)) : WriteTable(w, {NewVersion(w, f[k]) : k \in DOMAIN f})
        <4>1. PICK f \in Dedup(Clean(w)) : WriteTable(w, {NewVersion(w, f[k]) : k \in DOMAIN f})
          BY <3>2
        <4>2. \A v \in {NewVersion(w, f[k]) : k \in DOMAIN f} :
                v.from = version[JobOf[w]] + 1 /\ v.until = 0
          BY <1>1
        <4> QED BY <4>1, <4>2
      <3> QED BY <1>3, <3>1, <3>2 DEF Create
    <2>2. {} \cup new = new
      OBVIOUS
    <2>3. /\ Disjoint(new)
          /\ \A v \in new : v.from <= version[JobOf[w]] + 1 /\ v.until <= version[JobOf[w]] + 1
      <3>1. {} \in SUBSET table[JobOf[w]] /\ \A u \in {}, v \in new : ~Current(u)
        OBVIOUS
      <3> QED BY <2>1, <2>2, <3>1, AppendsApart
    <2> QED BY <2>1, <2>3, WriteKeepsApart
  <1>4. ASSUME NEW w \in Workers, MergeType1(w)
        PROVE  DisjointInv'
    <2>1. PICK f \in Dedup(Clean(w)) :
            WriteTable(w, {v \in table[JobOf[w]] : v.row.key \notin DOMAIN f}
                          \cup {NewVersion(w, f[k]) : k \in DOMAIN f})
      BY <1>4 DEF MergeType1
    <2> DEFINE old == {v \in table[JobOf[w]] : v.row.key \notin DOMAIN f}
               new == {NewVersion(w, f[k]) : k \in DOMAIN f}
    <2>2. old \in SUBSET table[JobOf[w]]
      OBVIOUS
    <2>3. \A v \in new : v.from = version[JobOf[w]] + 1 /\ v.until = 0 /\ v.row.key \in DOMAIN f
      BY <1>1
    <2>4. \A u \in old : u.row.key \notin DOMAIN f
      OBVIOUS
    <2>5. WriteTable(w, old \cup new)
      BY <2>1
    <2> HIDE DEF old, new
    <2>6. \A u \in old, v \in new : u.row.key = v.row.key => ~Current(u)
      BY <2>3, <2>4
    <2>7. /\ Disjoint(old \cup new)
          /\ \A v \in old \cup new :
               v.from <= version[JobOf[w]] + 1 /\ v.until <= version[JobOf[w]] + 1
      BY <2>2, <2>3, <2>6, AppendsApart
    <2> QED BY <2>5, <2>7, WriteKeepsApart
  <1>5. ASSUME NEW w \in Workers, Retire(w)
        PROVE  DisjointInv'
    <2>1. PICK f \in Dedup(Clean(w)) :
            WriteTable(w, {IF Superseded(v, f) THEN [v EXCEPT !.until = version[JobOf[w]] + 1]
                                               ELSE v : v \in table[JobOf[w]]})
      BY <1>5 DEF Retire
    <2> DEFINE rows == {IF Superseded(v, f) THEN [v EXCEPT !.until = version[JobOf[w]] + 1]
                                            ELSE v : v \in table[JobOf[w]]}
    <2>2. /\ Disjoint(rows)
          /\ \A v \in rows :
               v.from <= version[JobOf[w]] + 1 /\ v.until <= version[JobOf[w]] + 1
      BY RetiresApart
    <2>3. WriteTable(w, rows)
      BY <2>1
    <2> HIDE DEF rows
    <2> QED BY <2>2, <2>3, WriteKeepsApart
  <1>6. ASSUME NEW w \in Workers, Insert(w)
        PROVE  DisjointInv'
    <2>1. PICK f \in Dedup(Clean(w)) :
            WriteTable(w, table[JobOf[w]] \cup
              {NewVersion(w, f[k]) :
                 k \in {m \in DOMAIN f : \A v \in table[JobOf[w]] : ~Identical(v, f[m])}})
      BY <1>6 DEF Insert
    <2> DEFINE fresh == {m \in DOMAIN f : \A v \in table[JobOf[w]] : ~Identical(v, f[m])}
               new == {NewVersion(w, f[k]) : k \in fresh}
    <2>2. Ready(w)
      BY <1>6 DEF Insert, RetiredBeforeInsert
    <2>3. ASSUME NEW m \in fresh, NEW u \in table[JobOf[w]], u.row.key = m
          PROVE  ~Current(u)
      <3>1. Current(u) => u.row.val = f[m].val
        BY <2>2, <2>3 DEF Ready
      <3> QED BY <2>3, <3>1, DedupRow DEF Identical
    <2>4. \A v \in new : /\ v.from = version[JobOf[w]] + 1 /\ v.until = 0
                         /\ v.row.key \in fresh
      BY <1>1
    <2>5. WriteTable(w, table[JobOf[w]] \cup new)
      BY <2>1
    <2> HIDE DEF fresh, new
    <2>6. \A u \in table[JobOf[w]], v \in new : u.row.key = v.row.key => ~Current(u)
      BY <2>3, <2>4
    <2>7. table[JobOf[w]] \in SUBSET table[JobOf[w]]
      OBVIOUS
    <2>8. /\ Disjoint(table[JobOf[w]] \cup new)
          /\ \A v \in table[JobOf[w]] \cup new :
               v.from <= version[JobOf[w]] + 1 /\ v.until <= version[JobOf[w]] + 1
      BY <2>4, <2>6, <2>7, AppendsApart
    <2> QED BY <2>5, <2>8, WriteKeepsApart
  <1>7. CASE UNCHANGED vars
    BY <1>7 DEF vars, DisjointInv, Clocked, IntervalsDisjoint
  <1> QED BY <1>2, <1>3, <1>4, <1>5, <1>6, <1>7 DEF Next, Handle

\* Under the same conditions the validity intervals that the two MERGEs give the
\* versions of a key (bronze_to_silver.py 238-270) never overlap.
THEOREM VersionsApart ==
    ASSUME SingleWriter, NoTies
    PROVE  Spec => []IntervalsDisjoint
  <1>1. Init => DisjointInv
    BY DEF Init, DisjointInv, Clocked, IntervalsDisjoint
  <1>2. Init => OneInv
    BY InitOneInv
  <1>3. OneInv /\ [Next]_vars => OneInv'
    BY NextOneInv
  <1>4. DisjointInv => IntervalsDisjoint
    BY DEF DisjointInv
  <1> QED BY <1>1, <1>2, <1>3, <1>4, NextDisjoint, PTL DEF Spec

-----------------------------------------------------------------------------
(* Every invalid row a job has read past is in its quarantine *)

\* The invalid rows from after lo to hi are in the quarantine of job j.
Saved(j, lo, hi) ==
    \A i \in (lo + 1) .. hi : Invalid(Rows(j)[i]) => i \in quarantine[QuarantineOf(j)]

PlanSaved(j) == Saved(j, checkpoint[j].done, checkpoint[j].plan)

\* A batch counts as seen only with its rows in place: Delta skips a write for
\* the batch in progress when a worker before this one has done it, and for a
\* batch of the past nothing depends on it.
SeenIsSaved ==
    \A j \in Jobs : Alone(j) =>
        /\ txnVersion[QuarantineOf(j)] <= checkpoint[j].id
        /\ txnVersion[QuarantineOf(j)] = checkpoint[j].id
             => checkpoint[j].plan > 0 /\ PlanSaved(j)

\* A worker processes the planned batch of its job, or one of the past.
BatchesPlanned ==
    \A w \in Workers : pc[w] # "idle" =>
        /\ batch[w].id <= checkpoint[JobOf[w]].id
        /\ batch[w].id = checkpoint[JobOf[w]].id =>
             /\ batch[w].lo = checkpoint[JobOf[w]].done
             /\ batch[w].hi = checkpoint[JobOf[w]].plan
             /\ checkpoint[JobOf[w]].plan > 0
             /\ pc[w] # "quarantine" /\ Alone(JobOf[w]) => PlanSaved(JobOf[w])

DropInv == NoSilentDrop /\ SeenIsSaved /\ BatchesPlanned

LEMMA JobTypes ==
    ASSUME TypeInv, NEW j \in Jobs
    PROVE  /\ checkpoint[j].done \in Nat /\ checkpoint[j].plan \in Nat /\ checkpoint[j].id \in Nat
           /\ QuarantineOf(j) \in Tables
           /\ txnVersion[QuarantineOf(j)] \in Int /\ bronze \in Bronzes
  <1>1. /\ checkpoint[j] \in [done : Nat, plan : Nat, id : Nat, ends : SUBSET Nat]
        /\ QuarantineOf(j) \in Tables
    BY SilverAssumption DEF TypeInv, TypeOK, QuarantineOf
  <1>2. txnVersion[QuarantineOf(j)] \in Nat \cup {-1} /\ bronze \in Bronzes
    BY <1>1 DEF TypeInv, TypeOK
  <1> QED BY <1>1, <1>2

LEMMA WorkerTypes ==
    ASSUME TypeInv, NEW w \in Workers
    PROVE  /\ batch[w].id \in Nat /\ batch[w].lo \in Nat /\ batch[w].hi \in Nat
           /\ JobOf[w] \in Jobs
  <1>1. batch[w] \in [id : Nat, lo : Nat, hi : Nat] /\ JobOf[w] \in Jobs
    BY SilverAssumption DEF TypeInv, TypeOK
  <1> QED BY <1>1

\* Steps that leave the checkpoints, the batches and the quarantine alone.
LEMMA NothingToQuarantine ==
    ASSUME DropInv, UNCHANGED <<bronze, checkpoint, batch, quarantine, txnVersion>>,
           NEW w \in Workers, pc[w] \notin {"idle", "quarantine"} \/ pc'[w] = "idle",
           \A x \in Workers \ {w} : pc'[x] = pc[x]
    PROVE  DropInv'
  <1>1. NoSilentDrop' /\ SeenIsSaved'
    BY DEF DropInv, NoSilentDrop, SeenIsSaved, PlanSaved, Saved, Invalid, Rows
  <1>2. BatchesPlanned'
    BY DEF DropInv, BatchesPlanned, PlanSaved, Saved, Invalid, Rows
  <1> QED BY <1>1, <1>2 DEF DropInv

LEMMA GotoMoves ==
    ASSUME TypeInv, NEW w \in Workers, NEW step, Goto(w, step)
    PROVE  pc'[w] = step /\ \A x \in Workers \ {w} : pc'[x] = pc[x]
  BY DEF Goto, TypeInv, TypeOK

LEMMA BeginDrop ==
    ASSUME TypeInv, DropInv, NEW w \in Workers, Begin(w)
    PROVE  DropInv'
  <1> PICK j \in Jobs : j = JobOf[w]
    BY WorkerTypes
  <1>1. PICK hi \in 1 .. Len(Rows(j)) :
            /\ IF checkpoint[j].plan > 0 THEN hi = checkpoint[j].plan ELSE hi > checkpoint[j].done
            /\ checkpoint' = [checkpoint EXCEPT ![j].plan = hi]
            /\ batch' = [batch EXCEPT ![w] =
                           [id |-> checkpoint[j].id, lo |-> checkpoint[j].done, hi |-> hi]]
    BY DEF Begin
  <1>2. /\ UNCHANGED <<bronze, quarantine, txnVersion>>
        /\ pc'[w] = "quarantine" /\ \A x \in Workers \ {w} : pc'[x] = pc[x]
    BY GotoMoves DEF Begin
  <1>3. /\ checkpoint'[j].done = checkpoint[j].done /\ checkpoint'[j].id = checkpoint[j].id
        /\ checkpoint'[j].plan = hi
        /\ \A i \in Jobs \ {j} : checkpoint'[i] = checkpoint[i]
    BY <1>1 DEF TypeInv, TypeOK
  <1>4. /\ batch'[w].id = checkpoint[j].id /\ batch'[w].lo = checkpoint[j].done /\ batch'[w].hi = hi
        /\ \A x \in Workers \ {w} : batch'[x] = batch[x]
    BY <1>1 DEF TypeInv, TypeOK
  <1>5. hi \in Nat /\ hi > 0 /\ (checkpoint[j].plan > 0 => hi = checkpoint[j].plan)
    BY <1>1
  <1>6. checkpoint[j].plan > 0 /\ PlanSaved(j) => PlanSaved(j)'
    BY <1>2, <1>3, <1>5 DEF PlanSaved, Saved, Invalid, Rows
  <1>7. \A i \in Jobs \ {j} : PlanSaved(i) => PlanSaved(i)'
    BY <1>2, <1>3 DEF PlanSaved, Saved, Invalid, Rows
  <1>8. NoSilentDrop'
    BY <1>2, <1>3 DEF DropInv, NoSilentDrop, Invalid, Rows
  <1>9. SeenIsSaved'
    <2> SUFFICES ASSUME NEW i \in Jobs, Alone(i)
                 PROVE  /\ txnVersion[QuarantineOf(i)] <= checkpoint'[i].id
                        /\ txnVersion[QuarantineOf(i)] = checkpoint'[i].id
                             => checkpoint'[i].plan > 0 /\ PlanSaved(i)'
      BY <1>2 DEF SeenIsSaved
    <2> QED BY <1>3, <1>5, <1>6, <1>7 DEF DropInv, SeenIsSaved
  <1>10. BatchesPlanned'
    <2> SUFFICES ASSUME NEW x \in Workers, pc'[x] # "idle"
                 PROVE  /\ batch'[x].id <= checkpoint'[JobOf[x]].id
                        /\ batch'[x].id = checkpoint'[JobOf[x]].id =>
                             /\ batch'[x].lo = checkpoint'[JobOf[x]].done
                             /\ batch'[x].hi = checkpoint'[JobOf[x]].plan
                             /\ checkpoint'[JobOf[x]].plan > 0
                             /\ pc'[x] # "quarantine" /\ Alone(JobOf[x]) => PlanSaved(JobOf[x])'
      BY DEF BatchesPlanned
    <2>1. CASE x = w
      BY <2>1, <1>2, <1>3, <1>4, <1>5, JobTypes
    <2>2. CASE x # w
      <3>1. pc[x] # "idle" /\ batch'[x] = batch[x] /\ pc'[x] = pc[x] /\ JobOf[x] \in Jobs
        BY <2>2, <1>2, <1>4, WorkerTypes
      <3>2. CASE JobOf[x] # j
        BY <3>1, <3>2, <1>3, <1>7 DEF DropInv, BatchesPlanned
      <3>3. CASE JobOf[x] = j
        BY <3>1, <3>3, <1>3, <1>5, <1>6 DEF DropInv, BatchesPlanned
      <3> QED BY <3>2, <3>3
    <2> QED BY <2>1, <2>2
  <1> QED BY <1>8, <1>9, <1>10 DEF DropInv

LEMMA CommitDrop ==
    ASSUME TypeInv, DropInv, NEW w \in Workers, Commit(w)
    PROVE  DropInv'
  <1> PICK j \in Jobs : j = JobOf[w]
    BY WorkerTypes
  <1>1. /\ UNCHANGED <<bronze, quarantine, txnVersion>> /\ pc[w] = "commit"
        /\ pc'[w] = "idle" /\ \A x \in Workers \ {w} : pc'[x] = pc[x]
        /\ \A x \in Workers \ {w} : batch'[x] = batch[x]
    BY GotoMoves DEF Commit, TypeInv, TypeOK
  <1>2. CASE checkpoint' = checkpoint
    <2>1. NoSilentDrop' /\ SeenIsSaved'
      BY <1>1, <1>2 DEF DropInv, NoSilentDrop, SeenIsSaved, PlanSaved, Saved, Invalid, Rows
    <2>2. BatchesPlanned'
      BY <1>1, <1>2 DEF DropInv, BatchesPlanned, PlanSaved, Saved, Invalid, Rows
    <2> QED BY <2>1, <2>2 DEF DropInv
  <1>3. CASE /\ checkpoint[j].id = batch[w].id
             /\ checkpoint' = [checkpoint EXCEPT ![j] =
                                 [done |-> batch[w].hi, plan |-> 0, id |-> batch[w].id + 1,
                                 ends |-> @.ends \cup {batch[w].hi}]]
    <2>1. /\ checkpoint'[j].done = checkpoint[j].plan /\ checkpoint'[j].plan = 0
          /\ checkpoint'[j].id = checkpoint[j].id + 1
          /\ \A i \in Jobs \ {j} : checkpoint'[i] = checkpoint[i]
          /\ Alone(j) => PlanSaved(j)
      BY <1>1, <1>3 DEF TypeInv, TypeOK, DropInv, BatchesPlanned
    <2>2. \A i \in Jobs \ {j} : PlanSaved(i) => PlanSaved(i)'
      BY <1>1, <2>1 DEF PlanSaved, Saved, Invalid, Rows
    <2>3. ASSUME NEW i \in Jobs, Alone(i), NEW n \in 1 .. checkpoint'[i].done, Invalid(Rows(i)[n])
          PROVE  n \in quarantine[QuarantineOf(i)]
      <3>1. CASE i # j
        BY <2>1, <2>3, <3>1 DEF DropInv, NoSilentDrop
      <3>2. CASE i = j
        <4>1. n \in 1 .. checkpoint[j].done \/ n \in (checkpoint[j].done + 1) .. checkpoint[j].plan
          BY <2>1, <3>2, JobTypes
        <4> QED BY <2>1, <2>3, <3>2, <4>1 DEF DropInv, NoSilentDrop, PlanSaved, Saved
      <3> QED BY <3>1, <3>2
    <2>4. NoSilentDrop'
      BY <1>1, <2>3 DEF NoSilentDrop, Invalid, Rows
    <2>5. SeenIsSaved'
      <3> SUFFICES ASSUME NEW i \in Jobs, Alone(i)
                   PROVE  /\ txnVersion[QuarantineOf(i)] <= checkpoint'[i].id
                          /\ txnVersion[QuarantineOf(i)] = checkpoint'[i].id
                               => checkpoint'[i].plan > 0 /\ PlanSaved(i)'
        BY <1>1 DEF SeenIsSaved
      <3>1. CASE i # j
        BY <2>1, <2>2, <3>1 DEF DropInv, SeenIsSaved
      <3>2. CASE i = j
        <4>1. txnVersion[QuarantineOf(j)] <= checkpoint[j].id
          BY <3>2 DEF DropInv, SeenIsSaved
        <4> QED BY <2>1, <3>2, <4>1, JobTypes
      <3> QED BY <3>1, <3>2
    <2>6. BatchesPlanned'
      <3> SUFFICES ASSUME NEW x \in Workers, pc'[x] # "idle"
                   PROVE  /\ batch'[x].id <= checkpoint'[JobOf[x]].id
                          /\ batch'[x].id = checkpoint'[JobOf[x]].id =>
                               /\ batch'[x].lo = checkpoint'[JobOf[x]].done
                               /\ batch'[x].hi = checkpoint'[JobOf[x]].plan
                               /\ checkpoint'[JobOf[x]].plan > 0
                               /\ pc'[x] # "quarantine" /\ Alone(JobOf[x]) => PlanSaved(JobOf[x])'
        BY DEF BatchesPlanned
      <3>1. pc[x] # "idle" /\ batch'[x] = batch[x] /\ pc'[x] = pc[x] /\ JobOf[x] \in Jobs
        BY <1>1, WorkerTypes
      <3>2. CASE JobOf[x] # j
        BY <3>1, <3>2, <2>1, <2>2 DEF DropInv, BatchesPlanned
      <3>3. CASE JobOf[x] = j
        <4>1. batch[x].id <= checkpoint[j].id /\ batch[x].id \in Nat /\ checkpoint[j].id \in Nat
          BY <3>1, <3>3, JobTypes, WorkerTypes DEF DropInv, BatchesPlanned
        <4> QED BY <2>1, <3>1, <3>3, <4>1
      <3> QED BY <3>2, <3>3
    <2> QED BY <2>4, <2>5, <2>6 DEF DropInv
  <1> QED BY <1>2, <1>3 DEF Commit

LEMMA QuarantineDrop ==
    ASSUME TypeInv, DropInv, NEW w \in Workers, Quarantine(w)
    PROVE  DropInv'
  <1> PICK j \in Jobs : j = JobOf[w]
    BY WorkerTypes
  <1> PICK p \in Tables : p = QuarantineOf(j)
    BY JobTypes
  <1>1. /\ UNCHANGED <<bronze, checkpoint, batch>> /\ pc[w] = "quarantine"
        /\ pc'[w] = "probe" /\ \A x \in Workers \ {w} : pc'[x] = pc[x]
    BY GotoMoves DEF Quarantine
  <1>2. /\ batch[w].id <= checkpoint[j].id
        /\ batch[w].id = checkpoint[j].id =>
             /\ batch[w].lo = checkpoint[j].done /\ batch[w].hi = checkpoint[j].plan
             /\ checkpoint[j].plan > 0
    BY <1>1 DEF DropInv, BatchesPlanned
  \* The statement writes the rows, has nothing to write, or was done before.
  <1>3. \/ /\ quarantine' = [quarantine EXCEPT ![p] = @ \cup Bad(w)]
           /\ txnVersion' = [txnVersion EXCEPT ![p] = batch[w].id]
           /\ batch[w].id > txnVersion[p]
        \/ /\ UNCHANGED <<quarantine, txnVersion>>
           /\ Bad(w) = {} \/ ~(batch[w].id > txnVersion[p])
    BY DEF Quarantine, Unseen
  <1>4. \A q \in Tables : quarantine[q] \subseteq quarantine'[q]
    BY <1>3 DEF TypeInv, TypeOK
  <1>5. \A i \in Jobs : PlanSaved(i) => PlanSaved(i)'
    BY <1>1, <1>4, JobTypes DEF PlanSaved, Saved, Invalid, Rows
  <1>6. \A i \in Jobs \ {j} : Alone(i) => txnVersion'[QuarantineOf(i)] = txnVersion[QuarantineOf(i)]
    <2>1. \A i \in Jobs \ {j} : QuarantineOf(i) \in Tables /\ (Alone(i) => QuarantineOf(i) # p)
      BY JobTypes DEF Alone, QuarantineOf
    <2> QED BY <1>3, <2>1 DEF TypeInv, TypeOK
  <1>7. ASSUME batch[w].id = checkpoint[j].id, Alone(j)
        PROVE  PlanSaved(j)'
    <2>1. Bad(w) = {i \in (checkpoint[j].done + 1) .. checkpoint[j].plan : Invalid(Rows(j)[i])}
      BY <1>2, <1>7 DEF Bad, InBatch
    <2>2. CASE Bad(w) \subseteq quarantine'[p]
      BY <1>1, <2>1, <2>2 DEF PlanSaved, Saved, Invalid, Rows
    <2>3. CASE ~(batch[w].id > txnVersion[p])
      <3>1. txnVersion[p] = checkpoint[j].id
        <4>1. txnVersion[p] <= checkpoint[j].id
          BY <1>7 DEF DropInv, SeenIsSaved
        <4> QED BY <4>1, <1>7, <2>3, JobTypes
      <3> QED BY <3>1, <1>5, <1>7 DEF DropInv, SeenIsSaved
    <2>4. Bad(w) \subseteq quarantine'[p] \/ ~(batch[w].id > txnVersion[p])
      BY <1>3 DEF TypeInv, TypeOK
    <2> QED BY <2>2, <2>3, <2>4
  <1>8. NoSilentDrop'
    <2>1. \A i \in Jobs : QuarantineOf(i) \in Tables
      BY JobTypes
    <2> QED BY <1>1, <1>4, <2>1 DEF DropInv, NoSilentDrop, Invalid, Rows
  <1>9. SeenIsSaved'
    <2> SUFFICES ASSUME NEW i \in Jobs, Alone(i)
                 PROVE  /\ txnVersion'[QuarantineOf(i)] <= checkpoint[i].id
                        /\ txnVersion'[QuarantineOf(i)] = checkpoint[i].id
                             => checkpoint[i].plan > 0 /\ PlanSaved(i)'
      BY <1>1 DEF SeenIsSaved
    <2>1. CASE i # j
      BY <1>5, <1>6, <2>1 DEF DropInv, SeenIsSaved
    <2>2. CASE i = j
      <3>1. txnVersion'[p] = txnVersion[p] \/ txnVersion'[p] = batch[w].id
        BY <1>3 DEF TypeInv, TypeOK
      <3>2. CASE txnVersion'[p] = txnVersion[p]
        BY <1>5, <2>2, <3>2 DEF DropInv, SeenIsSaved
      <3>3. CASE txnVersion'[p] = batch[w].id
        BY <1>2, <1>7, <2>2, <3>3
      <3> QED BY <3>1, <3>2, <3>3
    <2> QED BY <2>1, <2>2
  <1>10. BatchesPlanned'
    <2> SUFFICES ASSUME NEW x \in Workers, pc'[x] # "idle"
                 PROVE  /\ batch[x].id <= checkpoint[JobOf[x]].id
                        /\ batch[x].id = checkpoint[JobOf[x]].id =>
                             /\ batch[x].lo = checkpoint[JobOf[x]].done
                             /\ batch[x].hi = checkpoint[JobOf[x]].plan
                             /\ checkpoint[JobOf[x]].plan > 0
                             /\ pc'[x] # "quarantine" /\ Alone(JobOf[x]) => PlanSaved(JobOf[x])'
      BY <1>1 DEF BatchesPlanned
    <2>1. CASE x = w
      BY <2>1, <1>2, <1>7
    <2>2. CASE x # w
      <3>1. pc'[x] = pc[x] /\ JobOf[x] \in Jobs
        BY <2>2, <1>1, WorkerTypes
      <3> QED BY <3>1, <1>5 DEF DropInv, BatchesPlanned
    <2> QED BY <2>1, <2>2
  <1> QED BY <1>8, <1>9, <1>10 DEF DropInv

LEMMA NextDrop ==
    ASSUME TypeInv, DropInv, [Next]_vars
    PROVE  DropInv'
  <1>1. ASSUME NEW w \in Workers,
               \/ Abort(w) \/ Probe(w) \/ Create(w)
               \/ MergeType1(w) \/ Retire(w) \/ Insert(w)
        PROVE  DropInv'
    <2>1. UNCHANGED <<bronze, checkpoint, quarantine, txnVersion>>
      BY <1>1 DEF Abort, Probe, Create, MergeType1, Retire, Insert, WriteTable
    <2>2. CASE Abort(w)
      <3>1. /\ pc'[w] = "idle" /\ \A x \in Workers \ {w} : pc'[x] = pc[x] /\ batch'[x] = batch[x]
        BY <2>2, GotoMoves DEF Abort, TypeInv, TypeOK
      <3>2. NoSilentDrop' /\ SeenIsSaved'
        BY <2>1 DEF DropInv, NoSilentDrop, SeenIsSaved, PlanSaved, Saved, Invalid, Rows
      <3>3. BatchesPlanned'
        BY <2>1, <3>1 DEF DropInv, BatchesPlanned, PlanSaved, Saved, Invalid, Rows
      <3> QED BY <3>2, <3>3 DEF DropInv
    <2>3. CASE ~Abort(w)
      <3>1. batch' = batch /\ pc[w] \notin {"idle", "quarantine"} /\ \E step : Goto(w, step)
        BY <1>1, <2>3 DEF Probe, Create, MergeType1, Retire, Insert, WriteTable
      <3> QED BY <2>1, <3>1, GotoMoves, NothingToQuarantine
    <2> QED BY <2>2, <2>3
  <1>2. CASE UNCHANGED vars
    BY <1>2 DEF vars, DropInv, NoSilentDrop, SeenIsSaved, BatchesPlanned, PlanSaved, Saved, Invalid, Rows
  <1> QED BY <1>1, <1>2, BeginDrop, CommitDrop, QuarantineDrop DEF Next, Handle

\* Every invalid row that a job has read past, while it alone reads its source, is in
\* the quarantine of that source (write_quarantine, bronze_to_silver.py 139-152), for
\* any number of applications running the job, of crashes and of replays.
THEOREM NothingDroppedSilently == Spec => []NoSilentDrop
  <1>1. Init => DropInv
    <2> SUFFICES ASSUME Init PROVE DropInv
      OBVIOUS
    <2>1. NoSilentDrop
      BY DEF Init, NoSilentDrop
    <2>2. SeenIsSaved
      BY SilverAssumption DEF Init, SeenIsSaved, QuarantineOf
    <2> QED BY <2>1, <2>2 DEF Init, DropInv, BatchesPlanned
  <1>2. TypeInv /\ DropInv /\ [Next]_vars => DropInv'
    BY NextDrop
  <1>3. DropInv => NoSilentDrop
    BY DEF DropInv
  <1> QED BY <1>1, <1>2, <1>3, InitTypeInv, NextTypeInv, PTL DEF Spec

-----------------------------------------------------------------------------
(* History is kept when the target is always seen and has one writer *)

NeverOverwrites ==
    /\ \A j \in Jobs : ~exists[j] => table[j] = {}
    /\ \A w \in Workers : /\ pc[w] = "create" => ~exists[JobOf[w]]
                          /\ pc[w] \in {"merge", "retire", "insert"} => exists[JobOf[w]]
                          /\ pc[w] = "merge" => ScdType[JobOf[w]] # 2

\* What HistoryKept says of a step.
Keeps == probeErrors = 0 => \A j \in Jobs : ScdType[j] = 2 =>
            \A v \in table[j] : \E x \in table'[j] :
                x.row = v.row /\ x.from = v.from /\ (x = v \/ Current(v))

\* A failed probe stays failed.
LEMMA NextProbeErrors ==
    ASSUME TypeInv, [Next]_vars
    PROVE  probeErrors' = 0 => probeErrors = 0
  <1>1. ASSUME NEW w \in Workers, Probe(w)
        PROVE  probeErrors' = 0 => probeErrors = 0
    BY <1>1 DEF Probe, TypeInv, TypeOK
  <1>2. ASSUME NEW w \in Workers,
               \/ Begin(w) \/ Commit(w) \/ Abort(w) \/ Quarantine(w)
               \/ Create(w) \/ MergeType1(w) \/ Retire(w) \/ Insert(w)
        PROVE  probeErrors' = probeErrors
    BY <1>2 DEF Begin, Commit, Abort, Quarantine, Create, MergeType1, Retire, Insert, WriteTable
  <1> QED BY <1>1, <1>2 DEF Next, Handle, vars

LEMMA NextNeverOverwrites ==
    ASSUME SingleWriter, probeErrors' = 0, TypeInv, NeverOverwrites, [Next]_vars
    PROVE  NeverOverwrites'
  <1>1. ASSUME NEW w \in Workers, Begin(w) \/ Commit(w) \/ Abort(w) \/ Quarantine(w)
        PROVE  NeverOverwrites'
    <2>1. UNCHANGED <<table, exists>>
      BY <1>1 DEF Begin, Commit, Abort, Quarantine
    <2>2. pc'[w] \in {"quarantine", "idle", "probe"} /\ \A x \in Workers \ {w} : pc'[x] = pc[x]
      BY <1>1, GotoMoves DEF Begin, Commit, Abort, Quarantine
    <2> QED BY <2>1, <2>2 DEF NeverOverwrites
  <1>2. ASSUME NEW w \in Workers, Probe(w)
        PROVE  NeverOverwrites'
    <2>1. UNCHANGED <<table, exists>>
      BY <1>2 DEF Probe
    <2>2. \/ exists[JobOf[w]] /\ Goto(w, MergeStep(JobOf[w]))
          \/ ~exists[JobOf[w]] /\ Goto(w, "create")
      BY <1>2 DEF Probe, TypeInv, TypeOK
    <2>3. /\ pc'[w] = "create" => ~exists[JobOf[w]]
          /\ pc'[w] # "create" => exists[JobOf[w]]
          /\ pc'[w] = "merge" => ScdType[JobOf[w]] # 2
          /\ \A x \in Workers \ {w} : pc'[x] = pc[x]
      BY <2>2, GotoMoves DEF MergeStep
    <2> QED BY <2>1, <2>3 DEF NeverOverwrites
  <1>3. ASSUME NEW w \in Workers, Create(w)
        PROVE  NeverOverwrites'
    <2>1. /\ exists' = [exists EXCEPT ![JobOf[w]] = TRUE] /\ JobOf[w] \in Jobs
          /\ \E rows : WriteTable(w, rows)
          /\ \E step \in {"retire", "commit"} : Goto(w, step)
      BY <1>3, WorkerTypes DEF Create
    <2>2. exists'[JobOf[w]] /\ \A j \in Jobs \ {JobOf[w]} : exists'[j] = exists[j] /\ table'[j] = table[j]
      BY <2>1 DEF WriteTable, TypeInv, TypeOK
    <2>3. pc'[w] \in {"retire", "commit"} /\ \A x \in Workers \ {w} : pc'[x] = pc[x]
      BY <2>1, GotoMoves
    <2>4. \A x \in Workers \ {w} : JobOf[x] \in Jobs \ {JobOf[w]}
      BY WorkerTypes DEF SingleWriter
    <2> QED BY <2>2, <2>3, <2>4 DEF NeverOverwrites
  <1>4. ASSUME NEW w \in Workers, MergeType1(w) \/ Retire(w) \/ Insert(w)
        PROVE  NeverOverwrites'
    <2>1. /\ exists' = exists /\ JobOf[w] \in Jobs
          /\ \E rows : WriteTable(w, rows)
          /\ pc[w] \in {"merge", "retire", "insert"}
          /\ \E step \in {"insert", "commit"} : Goto(w, step)
      BY <1>4, WorkerTypes DEF MergeType1, Retire, Insert
    <2>2. \A j \in Jobs \ {JobOf[w]} : table'[j] = table[j]
      BY <2>1 DEF WriteTable, TypeInv, TypeOK
    <2>3. pc'[w] \in {"insert", "commit"} /\ \A x \in Workers \ {w} : pc'[x] = pc[x]
      BY <2>1, GotoMoves
    <2> QED BY <2>1, <2>2, <2>3 DEF NeverOverwrites
  <1>5. CASE UNCHANGED vars
    BY <1>5 DEF vars, NeverOverwrites
  <1> QED BY <1>1, <1>2, <1>3, <1>4, <1>5 DEF Next, Handle

LEMMA StepKeeps ==
    ASSUME TypeInv, probeErrors = 0 => NeverOverwrites, [Next]_vars
    PROVE  Keeps
  <1> SUFFICES ASSUME probeErrors = 0 PROVE Keeps
    BY DEF Keeps
  <1>1. ASSUME NEW w \in Workers, NEW rows, WriteTable(w, rows),
               ScdType[JobOf[w]] = 2 =>
                 \A v \in table[JobOf[w]] : \E x \in rows :
                     x.row = v.row /\ x.from = v.from /\ (x = v \/ Current(v))
        PROVE  Keeps
    <2>1. JobOf[w] \in Jobs /\ table \in [Jobs -> SUBSET Version]
      BY WorkerTypes DEF TypeInv, TypeOK
    <2>2. table'[JobOf[w]] = rows /\ \A j \in Jobs \ {JobOf[w]} : table'[j] = table[j]
      BY <1>1, <2>1 DEF WriteTable
    <2> QED BY <1>1, <2>2 DEF Keeps
  <1>2. ASSUME NEW w \in Workers, Begin(w) \/ Commit(w) \/ Abort(w) \/ Quarantine(w) \/ Probe(w)
        PROVE  Keeps
    BY <1>2 DEF Begin, Commit, Abort, Quarantine, Probe, Keeps
  <1>3. ASSUME NEW w \in Workers, Create(w)
        PROVE  Keeps
    <2>1. table[JobOf[w]] = {}
      BY <1>3, WorkerTypes DEF Create, NeverOverwrites
    <2>2. \E rows : WriteTable(w, rows)
      BY <1>3 DEF Create
    <2> QED BY <2>1, <2>2, <1>1
  <1>4. ASSUME NEW w \in Workers, MergeType1(w)
        PROVE  Keeps
    <2>1. ScdType[JobOf[w]] # 2
      BY <1>4 DEF MergeType1, NeverOverwrites
    <2>2. \E rows : WriteTable(w, rows)
      BY <1>4 DEF MergeType1
    <2> QED BY <2>1, <2>2, <1>1
  <1>5. ASSUME NEW w \in Workers, Retire(w)
        PROVE  Keeps
    <2>1. PICK f \in Dedup(Clean(w)) :
            WriteTable(w, {IF Superseded(v, f) THEN [v EXCEPT !.until = version[JobOf[w]] + 1]
                                               ELSE v : v \in table[JobOf[w]]})
      BY <1>5 DEF Retire
    <2> DEFINE After(v) == IF Superseded(v, f) THEN [v EXCEPT !.until = version[JobOf[w]] + 1]
                                               ELSE v
    <2>2. ASSUME NEW v \in table[JobOf[w]]
          PROVE  After(v).row = v.row /\ After(v).from = v.from /\ (After(v) = v \/ Current(v))
      <3>1. v \in Version
        BY WorkerTypes DEF TypeInv, TypeOK
      <3> QED BY <3>1 DEF Version, Superseded
    <2>3. WriteTable(w, {After(v) : v \in table[JobOf[w]]})
      BY <2>1
    <2> HIDE DEF After
    <2>4. \A v \in table[JobOf[w]] : \E x \in {After(y) : y \in table[JobOf[w]]} :
             x.row = v.row /\ x.from = v.from /\ (x = v \/ Current(v))
      BY <2>2
    <2> QED BY <2>3, <2>4, <1>1
  <1>6. ASSUME NEW w \in Workers, Insert(w)
        PROVE  Keeps
    <2>1. PICK new : WriteTable(w, table[JobOf[w]] \cup new)
      BY <1>6 DEF Insert
    <2> QED BY <2>1, <1>1
  <1>7. CASE UNCHANGED vars
    BY <1>7 DEF vars, Keeps
  <1> QED BY <1>2, <1>3, <1>4, <1>5, <1>6, <1>7 DEF Next, Handle

\* With one application per job, and until a probe fails to see a target there is, an
\* SCD2 target is never rewritten: no version goes, none but the current one of a
\* key is touched (bronze_to_silver.py ensure_scd2_table 196-209, _table_exists 273-286).
THEOREM HistoryIsKept ==
    ASSUME SingleWriter
    PROVE  Spec => HistoryKept
  <1> DEFINE Truthful == probeErrors = 0 => NeverOverwrites
  <1>1. Init => Truthful
    BY DEF Init, NeverOverwrites
  <1>2. TypeInv /\ Truthful /\ [Next]_vars => Truthful'
    BY NextNeverOverwrites, NextProbeErrors
  <1>3. TypeInv /\ Truthful /\ [Next]_vars => [Keeps]_table
    BY StepKeeps
  <1> QED BY <1>1, <1>2, <1>3, InitTypeInv, NextTypeInv, PTL DEF Spec, HistoryKept, Keeps

-----------------------------------------------------------------------------
(* A Bronze row makes at most one version *)

\* No two rows of a source agree on key and order column: nothing is delivered
\* twice.
RowsOnce ==
    \A t \in Tables : \A s \in Contents[t] : \A i, n \in DOMAIN s :
        s[i].key = s[n].key /\ s[i].ord = s[n].ord => i = n

\* The valid rows of the batch the checkpoint of j has planned.
Planned(j) ==
    {Rows(j)[i] : i \in {n \in (checkpoint[j].done + 1) .. checkpoint[j].plan : ~Invalid(Rows(j)[n])}}

\* A worker processes the batch its checkpoint has planned.
OnPlan ==
    /\ \A j \in Jobs : checkpoint[j].plan > 0 => checkpoint[j].plan > checkpoint[j].done
    /\ \A w \in Workers : pc[w] # "idle" =>
         /\ batch[w].id = checkpoint[JobOf[w]].id
         /\ batch[w].lo = checkpoint[JobOf[w]].done
         /\ batch[w].hi = checkpoint[JobOf[w]].plan
         /\ checkpoint[JobOf[w]].plan > 0

\* A version comes from a row read before, or it is the current one made of the
\* latest row of its key in the batch that is in progress or to be replayed.
ComesFrom(j, v, i) ==
    /\ v.row = Rows(j)[i]
    /\ \/ i <= checkpoint[j].done
       \/ /\ i <= checkpoint[j].plan
          /\ Current(v)
          /\ v.row \in Latest(Planned(j), v.row.key)

Sourced == \A j \in Jobs : \A v \in table[j] : \E i \in 1 .. Len(Rows(j)) : ComesFrom(j, v, i)

FabInv == OnPlan /\ Sourced /\ NoFabricatedHistory

LEMMA NextOnPlan ==
    ASSUME SingleWriter, TypeInv, OnPlan, [Next]_vars
    PROVE  OnPlan'
  <1>1. ASSUME NEW w \in Workers, Begin(w)
        PROVE  OnPlan'
    <2> PICK j \in Jobs : j = JobOf[w]
      BY WorkerTypes
    <2>1. PICK hi \in 1 .. Len(Rows(j)) :
            /\ IF checkpoint[j].plan > 0 THEN hi = checkpoint[j].plan ELSE hi > checkpoint[j].done
            /\ checkpoint' = [checkpoint EXCEPT ![j].plan = hi]
            /\ batch' = [batch EXCEPT ![w] =
                           [id |-> checkpoint[j].id, lo |-> checkpoint[j].done, hi |-> hi]]
      BY <1>1 DEF Begin
    <2>2. /\ checkpoint'[j].done = checkpoint[j].done /\ checkpoint'[j].id = checkpoint[j].id
          /\ checkpoint'[j].plan = hi /\ hi > 0 /\ hi > checkpoint[j].done
          /\ \A i \in Jobs \ {j} : checkpoint'[i] = checkpoint[i]
      BY <2>1 DEF TypeInv, TypeOK, OnPlan
    <2>3. /\ batch'[w].id = checkpoint[j].id /\ batch'[w].lo = checkpoint[j].done /\ batch'[w].hi = hi
          /\ \A x \in Workers \ {w} : batch'[x] = batch[x] /\ pc'[x] = pc[x]
      BY <1>1, <2>1, GotoMoves DEF Begin, TypeInv, TypeOK
    <2>4. \A x \in Workers \ {w} : JobOf[x] \in Jobs \ {j}
      BY WorkerTypes DEF SingleWriter
    <2> QED BY <2>2, <2>3, <2>4 DEF OnPlan
  <1>2. ASSUME NEW w \in Workers, Commit(w)
        PROVE  OnPlan'
    <2>1. /\ pc'[w] = "idle"
          /\ \A x \in Workers \ {w} : batch'[x] = batch[x] /\ pc'[x] = pc[x]
      BY <1>2, GotoMoves DEF Commit, TypeInv, TypeOK
    <2>2. /\ \A i \in Jobs \ {JobOf[w]} : checkpoint'[i] = checkpoint[i]
          /\ checkpoint'[JobOf[w]] = checkpoint[JobOf[w]] \/ checkpoint'[JobOf[w]].plan = 0
      BY <1>2, WorkerTypes DEF Commit, TypeInv, TypeOK
    <2>3. \A x \in Workers \ {w} : JobOf[x] \in Jobs \ {JobOf[w]}
      BY WorkerTypes DEF SingleWriter
    <2> QED BY <2>1, <2>2, <2>3 DEF OnPlan
  <1>3. ASSUME NEW w \in Workers, Abort(w)
        PROVE  OnPlan'
    <2>1. /\ pc'[w] = "idle" /\ checkpoint' = checkpoint
          /\ \A x \in Workers \ {w} : batch'[x] = batch[x] /\ pc'[x] = pc[x]
      BY <1>3, GotoMoves DEF Abort, TypeInv, TypeOK
    <2> QED BY <2>1 DEF OnPlan
  <1>4. ASSUME NEW w \in Workers, Handle(w)
        PROVE  OnPlan'
    <2>1. /\ pc[w] # "idle" /\ UNCHANGED <<checkpoint, batch>>
          /\ \E step : Goto(w, step)
      BY <1>4 DEF Handle, Quarantine, Probe, Create, MergeType1, Retire, Insert, WriteTable
    <2>2. \A x \in Workers \ {w} : pc'[x] = pc[x]
      BY <2>1, GotoMoves
    <2> QED BY <2>1, <2>2 DEF OnPlan
  <1>5. CASE UNCHANGED vars
    BY <1>5 DEF vars, OnPlan
  <1> QED BY <1>1, <1>2, <1>3, <1>4, <1>5 DEF Next

LEMMA OncePerSource ==
    ASSUME RowsOnce
    PROVE  NoTies
  BY DEF RowsOnce, NoTies, Untied

LEMMA CleanIsPlanned ==
    ASSUME OnPlan, NEW w \in Workers, pc[w] # "idle"
    PROVE  Clean(w) = Planned(JobOf[w])
  BY DEF OnPlan, Clean, Planned, InBatch, Bad

\* Without ties a key has one latest row.
LEMMA LatestUnique ==
    ASSUME RowsOnce, TypeInv, NEW w \in Workers,
           NEW k, NEW x \in Latest(Clean(w), k), NEW y \in Latest(Clean(w), k)
    PROVE  x = y
  <1>1. Untied(Clean(w)) /\ \A row \in Clean(w) : row.ord \in Nat
    BY OncePerSource, CleanUntied
  <1>2. /\ x \in Clean(w) /\ y \in Clean(w) /\ x.key = y.key
        /\ x.ord <= y.ord /\ y.ord <= x.ord
    BY DEF Latest
  <1>3. x.ord \in Nat /\ y.ord \in Nat
    BY <1>1, <1>2
  <1>4. x.ord = y.ord
    BY <1>2, <1>3
  <1> QED BY <1>1, <1>2, <1>4 DEF Untied

\* The versions of a batch come from its rows.
LEMMA NewVersionSourced ==
    ASSUME TypeInv, OnPlan, NEW w \in Workers, pc[w] # "idle",
           NEW f \in Dedup(Clean(w)), NEW k \in DOMAIN f
    PROVE  /\ \E i \in 1 .. Len(Rows(JobOf[w])) : ComesFrom(JobOf[w], NewVersion(w, f[k]), i)
           /\ NewVersion(w, f[k]).row = f[k] /\ f[k].key = k
           /\ f[k] \in Latest(Clean(w), k)
  <1>1. f[k] \in Latest(Clean(w), k) /\ f[k] \in Clean(w) /\ f[k].key = k
    BY DEF Dedup, Latest
  <1>2. PICK i \in InBatch(w) : f[k] = Rows(JobOf[w])[i]
    BY <1>1 DEF Clean
  <1>3. /\ i \in 1 .. Len(Rows(JobOf[w])) /\ i <= checkpoint[JobOf[w]].plan
    <2>1. batch[w].hi = checkpoint[JobOf[w]].plan /\ batch[w].hi <= Len(Rows(JobOf[w]))
          /\ batch[w].lo \in Nat /\ batch[w].hi \in Nat
      BY WorkerTypes DEF OnPlan, TypeInv, InBounds
    <2>2. Len(Rows(JobOf[w])) \in Nat
      BY SourceRows
    <2> QED BY <2>1, <2>2 DEF InBatch
  <1>4. NewVersion(w, f[k]).row = f[k] /\ Current(NewVersion(w, f[k]))
    BY DEF NewVersion, Current
  <1>5. f[k] \in Latest(Planned(JobOf[w]), f[k].key)
    BY <1>1, CleanIsPlanned
  <1> QED BY <1>1, <1>2, <1>3, <1>4, <1>5 DEF ComesFrom

NewVersions(w, f, S) == {NewVersion(w, f[k]) : k \in S}

LEMMA NewVersionsSourced ==
    ASSUME TypeInv, OnPlan, NEW w \in Workers, pc[w] # "idle",
           NEW f \in Dedup(Clean(w)), NEW S \in SUBSET DOMAIN f
    PROVE  /\ \A v \in NewVersions(w, f, S) :
                 \E i \in 1 .. Len(Rows(JobOf[w])) : ComesFrom(JobOf[w], v, i)
           /\ \A v \in NewVersions(w, f, S) : v.row.key \in S /\ v.row = f[v.row.key]
           /\ \A u, v \in NewVersions(w, f, S) : u.row = v.row => u = v
  <1>1. \A k \in S : /\ \E i \in 1 .. Len(Rows(JobOf[w])) : ComesFrom(JobOf[w], NewVersion(w, f[k]), i)
                     /\ NewVersion(w, f[k]).row = f[k] /\ f[k].key = k
    BY NewVersionSourced
  <1>2. \A v \in NewVersions(w, f, S) : \E i \in 1 .. Len(Rows(JobOf[w])) : ComesFrom(JobOf[w], v, i)
    BY <1>1 DEF NewVersions
  <1>3. \A v \in NewVersions(w, f, S) : /\ v.row.key \in S /\ v.row = f[v.row.key]
                                       /\ v = NewVersion(w, f[v.row.key])
    BY <1>1 DEF NewVersions
  <1> QED BY <1>2, <1>3

\* A table statement keeps the invariant when its rows do.
LEMMA WriteKeepsSourced ==
    ASSUME TypeInv, FabInv, OnPlan', NEW w \in Workers, NEW rows, WriteTable(w, rows),
           \A v \in rows : \E i \in 1 .. Len(Rows(JobOf[w])) : ComesFrom(JobOf[w], v, i),
           \A u, v \in rows : u.row = v.row => u = v
    PROVE  FabInv'
  <1>1. JobOf[w] \in Jobs /\ UNCHANGED <<bronze, checkpoint>>
    BY WorkerTypes DEF WriteTable
  <1>2. table'[JobOf[w]] = rows /\ \A j \in Jobs \ {JobOf[w]} : table'[j] = table[j]
    BY <1>1 DEF WriteTable, TypeInv, TypeOK
  <1>3. \A j \in Jobs : Planned(j)' = Planned(j)
    BY <1>1 DEF Planned, Invalid, Rows
  <1>4. ASSUME NEW j \in Jobs, NEW v, NEW i, ComesFrom(j, v, i)
        PROVE  ComesFrom(j, v, i)'
    BY <1>1, <1>3, <1>4 DEF ComesFrom, Current, Rows
  <1>5. Sourced'
    <2> SUFFICES ASSUME NEW j \in Jobs, NEW v \in table'[j]
                 PROVE  \E i \in 1 .. Len(Rows(j)) : ComesFrom(j, v, i)'
      BY <1>1 DEF Sourced, Rows
    <2>1. \E i \in 1 .. Len(Rows(j)) : ComesFrom(j, v, i)
      BY <1>1, <1>2 DEF FabInv, Sourced
    <2> QED BY <2>1, <1>4
  <1>6. NoFabricatedHistory'
    BY <1>2 DEF FabInv, NoFabricatedHistory
  <1> QED BY <1>5, <1>6 DEF FabInv

LEMMA CheckpointSourced ==
    ASSUME TypeInv, FabInv, OnPlan', UNCHANGED <<bronze, table>>,
           \A j \in Jobs :
              \/ checkpoint'[j] = checkpoint[j]
              \/ checkpoint[j].plan = 0 /\ checkpoint'[j].done = checkpoint[j].done
              \/ checkpoint[j].plan > 0 /\ checkpoint'[j].done = checkpoint[j].plan
    PROVE  FabInv'
  <1>1. ASSUME NEW j \in Jobs, NEW v, NEW i \in 1 .. Len(Rows(j)), ComesFrom(j, v, i)
        PROVE  ComesFrom(j, v, i)'
    <2>0. /\ checkpoint[j].done \in Nat /\ checkpoint[j].plan \in Nat
          /\ checkpoint[j].plan > 0 => checkpoint[j].plan > checkpoint[j].done
      BY JobTypes DEF FabInv, OnPlan
    <2>1. CASE checkpoint'[j] = checkpoint[j]
      <3>1. Planned(j)' = Planned(j)
        BY <2>1 DEF Planned, Invalid, Rows
      <3> QED BY <1>1, <2>1, <3>1 DEF ComesFrom, Current, Rows
    <2>2. CASE checkpoint[j].plan = 0 /\ checkpoint'[j].done = checkpoint[j].done
      <3>1. i <= checkpoint[j].done
        BY <1>1, <2>0, <2>2 DEF ComesFrom
      <3> QED BY <1>1, <2>2, <3>1 DEF ComesFrom, Rows
    <2>3. CASE checkpoint[j].plan > 0 /\ checkpoint'[j].done = checkpoint[j].plan
      <3>1. i <= checkpoint[j].plan
        BY <1>1, <2>0, <2>3 DEF ComesFrom
      <3> QED BY <1>1, <2>3, <3>1 DEF ComesFrom, Rows
    <2> QED BY <2>1, <2>2, <2>3
  <1>2. Sourced'
    <2> SUFFICES ASSUME NEW j \in Jobs, NEW v \in table[j]
                 PROVE  \E i \in 1 .. Len(Rows(j)) : ComesFrom(j, v, i)'
      BY DEF Sourced, Rows
    <2>1. \E i \in 1 .. Len(Rows(j)) : ComesFrom(j, v, i)
      BY DEF FabInv, Sourced
    <2> QED BY <2>1, <1>1
  <1> QED BY <1>2 DEF FabInv, NoFabricatedHistory

LEMMA NextFab ==
    ASSUME SingleWriter, RowsOnce, TypeInv, FabInv, [Next]_vars
    PROVE  FabInv'
  <1>0. OnPlan'
    BY NextOnPlan DEF FabInv
  <1>1. ASSUME NEW w \in Workers, Begin(w)
        PROVE  FabInv'
    <2>1. UNCHANGED <<bronze, table>>
      BY <1>1 DEF Begin
    <2>2. ASSUME NEW j \in Jobs
          PROVE  \/ checkpoint'[j] = checkpoint[j]
                 \/ checkpoint[j].plan = 0 /\ checkpoint'[j].done = checkpoint[j].done
      <3>1. CASE j # JobOf[w]
        BY <1>1, <3>1 DEF Begin, TypeInv, TypeOK
      <3>2. CASE j = JobOf[w]
        <4>1. PICK hi \in 1 .. Len(Rows(j)) :
                /\ IF checkpoint[j].plan > 0 THEN hi = checkpoint[j].plan
                                             ELSE hi > checkpoint[j].done
                /\ checkpoint' = [checkpoint EXCEPT ![j].plan = hi]
          BY <1>1, <3>2 DEF Begin
        <4>2. checkpoint[j] \in [done : Nat, plan : Nat, id : Nat, ends : SUBSET Nat]
          BY DEF TypeInv, TypeOK
        <4>3. checkpoint'[j] = [checkpoint[j] EXCEPT !.plan = hi]
          BY <4>1 DEF TypeInv, TypeOK
        <4>4. checkpoint[j].plan > 0 => checkpoint'[j] = checkpoint[j]
          BY <4>1, <4>2, <4>3
        <4> QED BY <4>2, <4>3, <4>4, JobTypes
      <3> QED BY <3>1, <3>2
    <2> QED BY <1>0, <2>1, <2>2, CheckpointSourced
  <1>2. ASSUME NEW w \in Workers, Commit(w)
        PROVE  FabInv'
    <2>1. UNCHANGED <<bronze, table>> /\ JobOf[w] \in Jobs /\ pc[w] = "commit"
      BY <1>2, WorkerTypes DEF Commit
    <2>2. checkpoint' = [checkpoint EXCEPT ![JobOf[w]] =
                           [done |-> batch[w].hi, plan |-> 0, id |-> batch[w].id + 1,
                                 ends |-> @.ends \cup {batch[w].hi}]]
      BY <1>2 DEF Commit, FabInv, OnPlan
    <2>3. \A j \in Jobs \ {JobOf[w]} : checkpoint'[j] = checkpoint[j]
      BY <2>2 DEF TypeInv, TypeOK
    <2>4. checkpoint[JobOf[w]].plan > 0 /\ checkpoint'[JobOf[w]].done = checkpoint[JobOf[w]].plan
      BY <2>1, <2>2 DEF TypeInv, TypeOK, FabInv, OnPlan
    <2> QED BY <1>0, <2>1, <2>3, <2>4, CheckpointSourced
  <1>3. ASSUME NEW w \in Workers, Abort(w) \/ Quarantine(w) \/ Probe(w)
        PROVE  FabInv'
    <2>1. UNCHANGED <<bronze, table, checkpoint>>
      BY <1>3 DEF Abort, Quarantine, Probe
    <2> QED BY <1>0, <2>1, CheckpointSourced
  \* The rows of the target, as a statement of w finds them.
  <1>4. ASSUME NEW w \in Workers
        PROVE  /\ JobOf[w] \in Jobs
               /\ \A v \in table[JobOf[w]] :
                     v \in Version /\ \E i \in 1 .. Len(Rows(JobOf[w])) : ComesFrom(JobOf[w], v, i)
               /\ \A u, v \in table[JobOf[w]] : u.row = v.row => u = v
    BY WorkerTypes DEF FabInv, Sourced, NoFabricatedHistory, TypeInv, TypeOK
  <1>6. ASSUME NEW w \in Workers, Create(w)
        PROVE  FabInv'
    <2>1. pc[w] # "idle"
      BY <1>6 DEF Create
    <2>2. CASE WriteTable(w, {})
      BY <1>0, <2>2, WriteKeepsSourced
    <2>3. ASSUME NEW f \in Dedup(Clean(w)), WriteTable(w, {NewVersion(w, f[k]) : k \in DOMAIN f})
          PROVE  FabInv'
      <3>1. DOMAIN f \in SUBSET DOMAIN f
        OBVIOUS
      <3>2. WriteTable(w, NewVersions(w, f, DOMAIN f))
        BY <2>3 DEF NewVersions
      <3> QED BY <1>0, <2>1, <3>1, <3>2, NewVersionsSourced, WriteKeepsSourced DEF FabInv
    <2> QED BY <1>6, <2>2, <2>3 DEF Create
  <1>7. ASSUME NEW w \in Workers, MergeType1(w)
        PROVE  FabInv'
    <2>1. PICK f \in Dedup(Clean(w)) :
            WriteTable(w, {v \in table[JobOf[w]] : v.row.key \notin DOMAIN f}
                          \cup {NewVersion(w, f[k]) : k \in DOMAIN f})
      BY <1>7 DEF MergeType1
    <2> DEFINE old == {v \in table[JobOf[w]] : v.row.key \notin DOMAIN f}
               new == NewVersions(w, f, DOMAIN f)
    <2>2. /\ \A v \in new : \E i \in 1 .. Len(Rows(JobOf[w])) : ComesFrom(JobOf[w], v, i)
          /\ \A v \in new : v.row.key \in DOMAIN f
          /\ \A u, v \in new : u.row = v.row => u = v
      <3>1. pc[w] # "idle" /\ DOMAIN f \in SUBSET DOMAIN f
        BY <1>7 DEF MergeType1
      <3> QED BY <3>1, NewVersionsSourced DEF FabInv
    <2>3. /\ \A v \in old : v.row.key \notin DOMAIN f
          /\ \A v \in old : \E i \in 1 .. Len(Rows(JobOf[w])) : ComesFrom(JobOf[w], v, i)
          /\ \A u, v \in old : u.row = v.row => u = v
      BY <1>4
    <2>4. WriteTable(w, old \cup new)
      BY <2>1 DEF NewVersions
    <2> HIDE DEF old, new
    <2>5. /\ \A v \in old \cup new : \E i \in 1 .. Len(Rows(JobOf[w])) : ComesFrom(JobOf[w], v, i)
          /\ \A u, v \in old \cup new : u.row = v.row => u = v
      BY <2>2, <2>3
    <2> QED BY <1>0, <2>4, <2>5, WriteKeepsSourced
  <1>8. ASSUME NEW w \in Workers, Retire(w)
        PROVE  FabInv'
    <2>0. pc[w] # "idle"
      BY <1>8 DEF Retire
    <2>1. PICK f \in Dedup(Clean(w)) :
            WriteTable(w, {IF Superseded(v, f) THEN [v EXCEPT !.until = version[JobOf[w]] + 1]
                                               ELSE v : v \in table[JobOf[w]]})
      BY <1>8 DEF Retire
    <2> DEFINE After(v) == IF Superseded(v, f) THEN [v EXCEPT !.until = version[JobOf[w]] + 1]
                                               ELSE v
    \* A version of the batch in progress is not superseded by its own row.
    <2>2. ASSUME NEW v \in table[JobOf[w]], Superseded(v, f),
                 NEW i \in 1 .. Len(Rows(JobOf[w])), ComesFrom(JobOf[w], v, i)
          PROVE  i <= checkpoint[JobOf[w]].done
      <3>1. v.row.key \in DOMAIN f /\ v.row.val # f[v.row.key].val
        BY <2>2 DEF Superseded
      <3>2. f[v.row.key] \in Latest(Clean(w), v.row.key)
        BY <3>1 DEF Dedup
      <3>3. v.row \notin Latest(Clean(w), v.row.key)
        BY <3>1, <3>2, LatestUnique
      <3> QED BY <2>0, <2>2, <3>3, CleanIsPlanned DEF ComesFrom, FabInv
    <2>3. ASSUME NEW v \in table[JobOf[w]]
          PROVE  /\ After(v).row = v.row
                 /\ \E i \in 1 .. Len(Rows(JobOf[w])) : ComesFrom(JobOf[w], After(v), i)
      <3>1. PICK i \in 1 .. Len(Rows(JobOf[w])) : ComesFrom(JobOf[w], v, i)
        BY <1>4
      <3>2. CASE Superseded(v, f)
        <4>1. After(v) = [v EXCEPT !.until = version[JobOf[w]] + 1] /\ v \in Version
          BY <1>4, <3>2
        <4>2. After(v).row = v.row
          BY <4>1 DEF Version
        <4>3. i <= checkpoint[JobOf[w]].done
          BY <2>2, <3>1, <3>2
        <4> QED BY <3>1, <4>2, <4>3 DEF ComesFrom
      <3>3. CASE ~Superseded(v, f)
        BY <3>1, <3>3
      <3> QED BY <3>2, <3>3
    <2>4. WriteTable(w, {After(v) : v \in table[JobOf[w]]})
      BY <2>1
    <2> HIDE DEF After
    <2>5. /\ \A v \in {After(x) : x \in table[JobOf[w]]} :
                \E i \in 1 .. Len(Rows(JobOf[w])) : ComesFrom(JobOf[w], v, i)
          /\ \A u, v \in {After(x) : x \in table[JobOf[w]]} : u.row = v.row => u = v
      BY <1>4, <2>3
    <2> QED BY <1>0, <2>4, <2>5, WriteKeepsSourced
  <1>9. ASSUME NEW w \in Workers, Insert(w)
        PROVE  FabInv'
    <2>0. pc[w] # "idle"
      BY <1>9 DEF Insert
    <2>1. PICK f \in Dedup(Clean(w)) :
            WriteTable(w, table[JobOf[w]] \cup
              {NewVersion(w, f[k]) :
                 k \in {m \in DOMAIN f : \A v \in table[JobOf[w]] : ~Identical(v, f[m])}})
      BY <1>9 DEF Insert
    <2> DEFINE fresh == {m \in DOMAIN f : \A v \in table[JobOf[w]] : ~Identical(v, f[m])}
               new == NewVersions(w, f, fresh)
    <2>2. fresh \in SUBSET DOMAIN f
      OBVIOUS
    \* No version of the target is made of a row that is inserted.
    <2>3. ASSUME NEW m \in fresh, NEW u \in table[JobOf[w]], u.row = f[m]
          PROVE  FALSE
      <3>1. PICK i \in 1 .. Len(Rows(JobOf[w])) : ComesFrom(JobOf[w], u, i)
        BY <1>4
      <3>2. f[m] \in Clean(w) /\ f[m].key = m /\ m \in DOMAIN f
        BY DedupRow
      <3>3. PICK n \in InBatch(w) : Rows(JobOf[w])[n] = f[m]
        BY <3>2 DEF Clean
      <3>4. n \in 1 .. Len(Rows(JobOf[w])) /\ n > checkpoint[JobOf[w]].done
            /\ checkpoint[JobOf[w]].done \in Nat
        <4>1. /\ batch[w].lo = checkpoint[JobOf[w]].done /\ batch[w].hi <= Len(Rows(JobOf[w]))
              /\ batch[w].lo \in Nat /\ batch[w].hi \in Nat
          BY <2>0, WorkerTypes DEF FabInv, OnPlan, TypeInv, InBounds
        <4>2. Len(Rows(JobOf[w])) \in Nat
          BY SourceRows
        <4> QED BY <4>1, <4>2 DEF InBatch
      <3>5. i = n
        <4>1. Rows(JobOf[w])[i] = Rows(JobOf[w])[n]
          BY <2>3, <3>1, <3>3 DEF ComesFrom
        <4>2. bronze \in Bronzes /\ JobOf[w] \in Jobs
          BY WorkerTypes DEF TypeInv, TypeOK
        <4> QED BY <3>4, <4>1, <4>2, SourceRows DEF RowsOnce
      <3>6. Current(u)
        BY <3>1, <3>4, <3>5 DEF ComesFrom
      <3>7. Identical(u, f[m])
        BY <2>3, <3>6 DEF Identical
      <3> QED BY <2>3, <3>7
    <2>4. /\ \A v \in new : \E i \in 1 .. Len(Rows(JobOf[w])) : ComesFrom(JobOf[w], v, i)
          /\ \A v \in new : v.row.key \in fresh /\ v.row = f[v.row.key]
          /\ \A u, v \in new : u.row = v.row => u = v
      BY <2>0, <2>2, NewVersionsSourced DEF FabInv
    <2>5. WriteTable(w, table[JobOf[w]] \cup new)
      BY <2>1 DEF NewVersions
    <2> HIDE DEF fresh, new
    <2>6. \A u \in table[JobOf[w]], v \in new : u.row # v.row
      BY <2>3, <2>4
    <2>7. /\ \A v \in table[JobOf[w]] \cup new :
                \E i \in 1 .. Len(Rows(JobOf[w])) : ComesFrom(JobOf[w], v, i)
          /\ \A u, v \in table[JobOf[w]] \cup new : u.row = v.row => u = v
      BY <1>4, <2>4, <2>6
    <2> QED BY <1>0, <2>5, <2>7, WriteKeepsSourced
  <1>10. CASE UNCHANGED vars
    <2>1. UNCHANGED <<bronze, table, checkpoint>>
      BY <1>10 DEF vars
    <2> QED BY <1>0, <2>1, CheckpointSourced
  <1> QED BY <1>1, <1>2, <1>3, <1>6, <1>7, <1>8, <1>9, <1>10 DEF Next, Handle

\* With one application per job and no row delivered twice, one Bronze row makes
\* at most one version of its key, whatever batch is replayed after whatever crash:
\* what BACKFILL_RUNBOOK.md 20-21 relies on ("replays do NOT fabricate history").
THEOREM NothingFabricated ==
    ASSUME SingleWriter, RowsOnce
    PROVE  Spec => []NoFabricatedHistory
  <1>1. Init => FabInv
    BY DEF Init, FabInv, OnPlan, Sourced, NoFabricatedHistory
  <1>2. TypeInv /\ FabInv /\ [Next]_vars => FabInv'
    BY NextFab
  <1>3. FabInv => NoFabricatedHistory
    BY DEF FabInv
  <1> QED BY <1>1, <1>2, <1>3, InitTypeInv, NextTypeInv, PTL DEF Spec
-----------------------------------------------------------------------------
(* The current version is what the last batch with the key made of it *)

\* No valid row with the key of row i lies after lo, up to hi.
Quiet(j, i, lo, hi) == \A m \in (lo + 1) .. hi : ~SameKey(j, i, m)

\* Row i has the highest order column of its key in the batch of w.
TopOf(w, i) ==
    /\ ~Invalid(Rows(JobOf[w])[i])
    /\ \A m \in InBatch(w) :
          SameKey(JobOf[w], i, m) => Rows(JobOf[w])[m].ord <= Rows(JobOf[w])[i].ord

\* Some current version among rows shows the state of row i.
ShownIn(j, rows, i) ==
    \E v \in rows : v.row.key = Rows(j)[i].key /\ Current(v) /\ v.row.val = Rows(j)[i].val

\* As far as job j has planned.
EndOf(j) == IF checkpoint[j].plan = 0 THEN checkpoint[j].done ELSE checkpoint[j].plan

\* The commit log ends where the job has read to.
LogEnds ==
    \A j \in Jobs : /\ \A e \in checkpoint[j].ends : e <= checkpoint[j].done
                    /\ checkpoint[j].done > 0 => checkpoint[j].done \in checkpoint[j].ends

\* Every key the planned batch does not touch shows its winner; and when the handler
\* has returned, so does every key of the batch.  In between, a key of the batch may
\* have no current version at all.
FreshInv ==
    /\ \A j \in Jobs : \A i \in 1 .. checkpoint[j].done :
          Wins(j, i) /\ Quiet(j, i, checkpoint[j].done, EndOf(j)) => ShownIn(j, table[j], i)
    /\ \A w \in Workers : pc[w] = "commit" =>
          \A i \in InBatch(w) : TopOf(w, i) => ShownIn(JobOf[w], table[JobOf[w]], i)

\* What deduplication picks for the key of the batch's top row is that row.
LEMMA DedupPicksTop ==
    ASSUME NoTies, TypeInv, NEW w \in Workers, NEW j, j = JobOf[w], NEW f \in Dedup(Clean(w)),
           NEW i \in InBatch(w), TopOf(w, i)
    PROVE  Rows(j)[i].key \in DOMAIN f /\ f[Rows(j)[i].key] = Rows(j)[i]
  <1> PICK k : k = Rows(j)[i].key
    OBVIOUS
  <1>1. Rows(j)[i] \in Clean(w)
    BY DEF TopOf, Clean, Bad
  <1>2. k \in DOMAIN f /\ f[k] \in Latest(Clean(w), k)
    BY <1>1 DEF Dedup
  <1>3. PICK m \in InBatch(w) \ Bad(w) : f[k] = Rows(j)[m] /\ Rows(j)[m].key = k
    BY <1>2 DEF Latest, Clean
  <1>4. Rows(j)[i].ord <= Rows(j)[m].ord
    BY <1>1, <1>2, <1>3 DEF Latest
  <1>5. Rows(j)[m].ord <= Rows(j)[i].ord
    BY <1>3 DEF TopOf, SameKey, Bad
  <1>6. Untied(Clean(w)) /\ Rows(j)[m] \in Clean(w)
        /\ Rows(j)[i].ord \in Nat /\ Rows(j)[m].ord \in Nat
    BY <1>1, <1>3, CleanUntied DEF Clean
  <1>7. Rows(j)[i].ord = Rows(j)[m].ord
    BY <1>4, <1>5, <1>6
  <1>8. Rows(j)[i] = Rows(j)[m]
    BY <1>1, <1>3, <1>6, <1>7 DEF Untied
  <1> QED BY <1>2, <1>3, <1>8

\* Deduplication makes nothing of a key the batch does not have.
LEMMA QuietBatch ==
    ASSUME NEW w \in Workers, NEW f \in Dedup(Clean(w)), NEW i,
           Quiet(JobOf[w], i, batch[w].lo, batch[w].hi)
    PROVE  Rows(JobOf[w])[i].key \notin DOMAIN f
  <1> SUFFICES ASSUME Rows(JobOf[w])[i].key \in DOMAIN f PROVE FALSE
    OBVIOUS
  <1>1. PICK m \in InBatch(w) \ Bad(w) : Rows(JobOf[w])[m].key = Rows(JobOf[w])[i].key
    BY DedupRow DEF Clean
  <1> QED BY <1>1 DEF InBatch, Quiet, SameKey, Bad

\* What the rows and the checkpoints alone decide.
LEMMA SameRows ==
    ASSUME UNCHANGED <<bronze, checkpoint>>, NEW j \in Jobs, NEW i
    PROVE  /\ Wins(j, i)' <=> Wins(j, i)
           /\ EndOf(j)' = EndOf(j)
           /\ \A lo, hi : Quiet(j, i, lo, hi)' <=> Quiet(j, i, lo, hi)
           /\ \A rows : ShownIn(j, rows, i)' <=> ShownIn(j, rows, i)
  <1>1. Rows(j)' = Rows(j)
    BY DEF Rows
  <1>2. \A m : SameKey(j, i, m)' <=> SameKey(j, i, m)
    BY <1>1 DEF SameKey, Invalid
  <1>3. \A m : SameBatch(j, i, m)' <=> SameBatch(j, i, m)
    BY DEF SameBatch
  <1>4. Wins(j, i)' <=> Wins(j, i)
    BY <1>1, <1>2, <1>3 DEF Wins, Invalid
  <1>5. \A lo, hi : Quiet(j, i, lo, hi)' <=> Quiet(j, i, lo, hi)
    BY <1>2 DEF Quiet
  <1>6. \A rows : ShownIn(j, rows, i)' <=> ShownIn(j, rows, i)
    BY <1>1 DEF ShownIn, Current
  <1> QED BY <1>4, <1>5, <1>6 DEF EndOf

LEMMA SameTop ==
    ASSUME bronze' = bronze, NEW w \in Workers, batch'[w] = batch[w], NEW i
    PROVE  InBatch(w)' = InBatch(w) /\ (TopOf(w, i)' <=> TopOf(w, i))
  <1>1. Rows(JobOf[w])' = Rows(JobOf[w]) /\ InBatch(w)' = InBatch(w)
    BY DEF Rows, InBatch
  <1>2. \A m : SameKey(JobOf[w], i, m)' <=> SameKey(JobOf[w], i, m)
    BY <1>1 DEF SameKey, Invalid
  <1> QED BY <1>1, <1>2 DEF TopOf, Invalid

\* A table statement keeps what is shown of the keys not in the batch; the last one
\* shows those of the batch too.
LEMMA WriteFresh ==
    ASSUME SingleWriter, TypeInv, OnPlan, FreshInv,
           NEW w \in Workers, NEW rows, WriteTable(w, rows), NEW step, Goto(w, step),
           pc[w] \notin {"idle", "commit"},
           \A i \in 1 .. batch[w].lo :
               /\ Quiet(JobOf[w], i, batch[w].lo, batch[w].hi)
               /\ ShownIn(JobOf[w], table[JobOf[w]], i)
               => ShownIn(JobOf[w], rows, i),
           step = "commit" => \A i \in InBatch(w) : TopOf(w, i) => ShownIn(JobOf[w], rows, i)
    PROVE  FreshInv'
  <1>1. JobOf[w] \in Jobs /\ UNCHANGED <<bronze, checkpoint, batch>>
    BY WorkerTypes DEF WriteTable
  <1>2. table'[JobOf[w]] = rows /\ \A j \in Jobs \ {JobOf[w]} : table'[j] = table[j]
    BY <1>1 DEF WriteTable, TypeInv, TypeOK
  <1>3. pc'[w] = step /\ \A x \in Workers \ {w} : pc'[x] = pc[x] /\ JobOf[x] \in Jobs \ {JobOf[w]}
    BY GotoMoves, WorkerTypes DEF SingleWriter
  <1>4. ASSUME NEW j \in Jobs, NEW i \in 1 .. checkpoint[j].done, Wins(j, i),
               Quiet(j, i, checkpoint[j].done, EndOf(j))
        PROVE  ShownIn(j, table'[j], i)
    <2>1. ShownIn(j, table[j], i)
      BY <1>4 DEF FreshInv
    <2>2. CASE j = JobOf[w]
      <3>1. /\ checkpoint[j].done = batch[w].lo /\ checkpoint[j].plan = batch[w].hi
            /\ checkpoint[j].plan \in Nat /\ checkpoint[j].plan > 0
        BY <1>1, <2>2, JobTypes DEF OnPlan
      <3>2. EndOf(j) = batch[w].hi
        BY <3>1 DEF EndOf
      <3> QED BY <1>2, <1>4, <2>1, <2>2, <3>1, <3>2
    <2>3. CASE j # JobOf[w]
      BY <1>2, <2>1, <2>3
    <2> QED BY <2>2, <2>3
  <1>5. ASSUME NEW x \in Workers, pc'[x] = "commit", NEW i \in InBatch(x), TopOf(x, i)
        PROVE  ShownIn(JobOf[x], table'[JobOf[x]], i)
    <2>1. CASE x = w
      BY <1>2, <1>3, <1>5, <2>1
    <2>2. CASE x # w
      BY <1>2, <1>3, <1>5, <2>2 DEF FreshInv
    <2> QED BY <2>1, <2>2
  <1>6. ASSUME NEW j \in Jobs, NEW i \in 1 .. checkpoint'[j].done, Wins(j, i)',
               Quiet(j, i, checkpoint[j].done, EndOf(j))'
        PROVE  ShownIn(j, table[j], i)'
    <2>1. Wins(j, i) /\ Quiet(j, i, checkpoint[j].done, EndOf(j)) /\ i \in 1 .. checkpoint[j].done
      BY <1>1, <1>6, SameRows
    <2>2. ShownIn(j, table'[j], i)
      BY <1>4, <2>1
    <2> QED BY <1>1, <2>2 DEF ShownIn, Current, Rows
  <1>7. ASSUME NEW x \in Workers, pc'[x] = "commit", NEW i \in InBatch(x)', TopOf(x, i)'
        PROVE  ShownIn(JobOf[x], table[JobOf[x]], i)'
    <2>1. i \in InBatch(x) /\ TopOf(x, i)
      BY <1>1, <1>7, SameTop
    <2>2. ShownIn(JobOf[x], table'[JobOf[x]], i)
      BY <1>5, <1>7, <2>1
    <2> QED BY <1>1, <2>2 DEF ShownIn, Current, Rows
  <1> QED BY <1>6, <1>7 DEF FreshInv

\* The version made of the batch's top row of a key shows it.
LEMMA NewVersionShows ==
    ASSUME NoTies, TypeInv, NEW w \in Workers, NEW j, j = JobOf[w], NEW f \in Dedup(Clean(w)),
           NEW i \in InBatch(w), TopOf(w, i),
           NEW rows, NewVersion(w, f[Rows(j)[i].key]) \in rows
    PROVE  ShownIn(j, rows, i)
  <1>1. f[Rows(j)[i].key] = Rows(j)[i]
    BY DedupPicksTop
  <1>2. NewVersion(w, Rows(j)[i]).row = Rows(j)[i] /\ Current(NewVersion(w, Rows(j)[i]))
    BY DEF NewVersion, Current
  <1> QED BY <1>1, <1>2 DEF ShownIn

\* Steps that leave the target and the plan alone.
LEMMA IdleFresh ==
    ASSUME FreshInv, UNCHANGED <<bronze, checkpoint, table>>,
           \A w \in Workers : pc'[w] = "commit" => pc[w] = "commit" /\ batch'[w] = batch[w]
    PROVE  FreshInv'
  <1>1. ASSUME NEW j \in Jobs, NEW i \in 1 .. checkpoint'[j].done, Wins(j, i)',
               Quiet(j, i, checkpoint[j].done, EndOf(j))'
        PROVE  ShownIn(j, table[j], i)'
    <2>1. ShownIn(j, table[j], i)
      BY <1>1, SameRows DEF FreshInv
    <2> QED BY <2>1 DEF ShownIn, Current, Rows
  <1>2. ASSUME NEW x \in Workers, pc'[x] = "commit", NEW i \in InBatch(x)', TopOf(x, i)'
        PROVE  ShownIn(JobOf[x], table[JobOf[x]], i)'
    <2>1. ShownIn(JobOf[x], table[JobOf[x]], i)
      BY <1>2, SameTop DEF FreshInv
    <2> QED BY <2>1 DEF ShownIn, Current, Rows
  <1> QED BY <1>1, <1>2 DEF FreshInv

LEMMA BeginFresh ==
    ASSUME TypeInv, OnPlan, FreshInv, NEW w \in Workers, Begin(w)
    PROVE  FreshInv'
  <1> PICK j \in Jobs : j = JobOf[w]
    BY WorkerTypes
  <1>1. PICK hi \in 1 .. Len(Rows(j)) :
          /\ IF checkpoint[j].plan > 0 THEN hi = checkpoint[j].plan ELSE hi > checkpoint[j].done
          /\ checkpoint' = [checkpoint EXCEPT ![j].plan = hi]
    BY DEF Begin
  <1>2. /\ \A k \in Jobs : /\ checkpoint'[k].done = checkpoint[k].done
                           /\ checkpoint'[k].ends = checkpoint[k].ends
        /\ checkpoint'[j].plan = hi
        /\ \A k \in Jobs \ {j} : checkpoint'[k] = checkpoint[k]
    BY <1>1 DEF TypeInv, TypeOK
  <1>3. UNCHANGED <<bronze, table>> /\ pc'[w] # "commit"
        /\ \A x \in Workers \ {w} : pc'[x] = pc[x] /\ batch'[x] = batch[x]
    <2>1. UNCHANGED <<bronze, table>> /\ Goto(w, "quarantine")
      BY DEF Begin
    <2>2. \A x \in Workers \ {w} : batch'[x] = batch[x]
      BY DEF Begin, TypeInv, TypeOK
    <2> QED BY <2>1, <2>2, GotoMoves
  <1>4. EndOf(j)' = hi /\ \A k \in Jobs \ {j} : EndOf(k)' = EndOf(k)
    BY <1>1, <1>2 DEF EndOf
  <1>5. ASSUME NEW k \in Jobs, NEW i
        PROVE  /\ Wins(k, i)' => Wins(k, i)
               /\ \A lo, hi2 : Quiet(k, i, lo, hi2)' <=> Quiet(k, i, lo, hi2)
    <2>1. Rows(k)' = Rows(k)
      BY <1>3 DEF Rows
    <2>2. \A m : SameKey(k, i, m)' <=> SameKey(k, i, m)
      BY <2>1 DEF SameKey, Invalid
    <2>3. \A m : SameBatch(k, i, m)' <=> SameBatch(k, i, m)
      BY <1>2 DEF SameBatch
    <2> QED BY <1>2, <2>1, <2>2, <2>3 DEF Wins, Quiet, Invalid
  <1>6. ASSUME NEW k \in Jobs, NEW i \in 1 .. checkpoint'[k].done, Wins(k, i)',
               Quiet(k, i, checkpoint[k].done, EndOf(k))'
        PROVE  ShownIn(k, table[k], i)'
    <2>1. i \in 1 .. checkpoint[k].done /\ Wins(k, i)
          /\ Quiet(k, i, checkpoint[k].done, EndOf(k)')
      BY <1>2, <1>5, <1>6
    <2>2. Quiet(k, i, checkpoint[k].done, EndOf(k))
      <3>1. CASE k # j
        BY <1>4, <2>1, <3>1
      <3>2. CASE k = j
        <4>1. CASE checkpoint[j].plan > 0
          BY <1>1, <1>4, <2>1, <3>2, <4>1 DEF EndOf
        <4>2. CASE checkpoint[j].plan = 0
          BY <3>2, <4>2, JobTypes DEF EndOf, Quiet
        <4> QED BY <4>1, <4>2, JobTypes
      <3> QED BY <3>1, <3>2
    <2>3. ShownIn(k, table[k], i)
      BY <2>1, <2>2 DEF FreshInv
    <2> QED BY <1>3, <2>3 DEF ShownIn, Current, Rows
  <1>7. ASSUME NEW x \in Workers, pc'[x] = "commit", NEW i \in InBatch(x)', TopOf(x, i)'
        PROVE  ShownIn(JobOf[x], table[JobOf[x]], i)'
    <2>1. ShownIn(JobOf[x], table[JobOf[x]], i)
      BY <1>3, <1>7, SameTop DEF FreshInv
    <2> QED BY <1>3, <2>1 DEF ShownIn, Current, Rows
  <1> QED BY <1>6, <1>7 DEF FreshInv

LEMMA CommitFresh ==
    ASSUME SingleWriter, TypeInv, OnPlan, LogEnds, FreshInv, NEW w \in Workers, Commit(w)
    PROVE  FreshInv' /\ LogEnds'
  <1> PICK j \in Jobs : j = JobOf[w]
    BY WorkerTypes
  <1>1. /\ pc[w] = "commit" /\ UNCHANGED <<bronze, table>> /\ pc'[w] # "commit"
        /\ \A x \in Workers \ {w} : pc'[x] = pc[x] /\ batch'[x] = batch[x]
    BY GotoMoves DEF Commit, TypeInv, TypeOK
  <1>2. checkpoint' = [checkpoint EXCEPT ![j] =
                         [done |-> batch[w].hi, plan |-> 0, id |-> batch[w].id + 1,
                          ends |-> @.ends \cup {batch[w].hi}]]
    BY <1>1 DEF Commit, OnPlan
  <1>3. /\ checkpoint'[j].done = batch[w].hi /\ checkpoint'[j].plan = 0
        /\ checkpoint'[j].ends = checkpoint[j].ends \cup {batch[w].hi}
        /\ \A k \in Jobs \ {j} : checkpoint'[k] = checkpoint[k]
    BY <1>2 DEF TypeInv, TypeOK
  <1>4. /\ EndOf(j)' = batch[w].hi /\ EndOf(j) = batch[w].hi /\ checkpoint[j].done = batch[w].lo
        /\ batch[w].lo < batch[w].hi /\ batch[w].lo \in Nat /\ batch[w].hi \in Nat
        /\ \A k \in Jobs \ {j} : EndOf(k)' = EndOf(k)
    BY <1>1, <1>3, JobTypes, WorkerTypes DEF EndOf, OnPlan
  <1>5. checkpoint[j].ends \subseteq Nat
    BY DEF TypeInv, TypeOK
  <1>6. LogEnds'
    BY <1>3, <1>4, <1>5 DEF LogEnds
  <1>7. \A k \in Jobs : Rows(k)' = Rows(k)
    BY <1>1 DEF Rows
  <1>8. \A k \in Jobs : \A i, m : SameKey(k, i, m)' <=> SameKey(k, i, m)
    BY <1>7 DEF SameKey, Invalid
  \* The commit separates the batch from what came before, and nothing else.
  <1>9. ASSUME NEW i \in 1 .. batch[w].hi, NEW m \in 1 .. batch[w].hi
        PROVE  /\ i <= batch[w].lo /\ m <= batch[w].lo
                    => (SameBatch(j, i, m)' <=> SameBatch(j, i, m))
               /\ i <= batch[w].lo /\ m > batch[w].lo => ~SameBatch(j, i, m)'
               /\ i > batch[w].lo /\ m > batch[w].lo => SameBatch(j, i, m)'
    <2>1. SameBatch(j, i, m)' <=> \A e \in checkpoint[j].ends \cup {batch[w].hi} : i <= e <=> m <= e
      BY <1>3 DEF SameBatch
    <2>2. i <= batch[w].hi /\ m <= batch[w].hi
      BY <1>4
    <2>3. SameBatch(j, i, m)' <=> SameBatch(j, i, m)
      BY <2>1, <2>2 DEF SameBatch
    <2>4. CASE i <= batch[w].lo /\ m > batch[w].lo
      <3>1. batch[w].lo \in checkpoint[j].ends
        BY <1>4, <2>4 DEF LogEnds
      <3> QED BY <1>4, <2>1, <2>4, <3>1
    <2>5. CASE i > batch[w].lo /\ m > batch[w].lo
      <3>1. \A e \in checkpoint[j].ends : e <= batch[w].lo /\ e \in Nat
        BY <1>4, <1>5 DEF LogEnds
      <3>2. \A e \in checkpoint[j].ends : ~(i <= e) /\ ~(m <= e)
        BY <1>4, <2>5, <3>1
      <3>3. SameBatch(j, i, m)
        BY <3>2 DEF SameBatch
      <3> QED BY <1>4, <2>3, <2>5, <3>3
    <2> QED BY <1>4, <2>3, <2>4, <2>5
  <1>10. ASSUME NEW i \in 1 .. batch[w].hi, Wins(j, i)'
         PROVE  ShownIn(j, table[j], i)
    <2>1. /\ ~Invalid(Rows(j)[i])
          /\ \A m \in 1 .. batch[w].hi : SameKey(j, i, m) =>
                IF SameBatch(j, i, m)' THEN Rows(j)[m].ord <= Rows(j)[i].ord ELSE m < i
      BY <1>3, <1>7, <1>8, <1>10 DEF Wins, Invalid
    <2>2. CASE i <= batch[w].lo
      <3>1. \A m \in 1 .. batch[w].lo : SameKey(j, i, m) =>
                IF SameBatch(j, i, m) THEN Rows(j)[m].ord <= Rows(j)[i].ord ELSE m < i
        <4> SUFFICES ASSUME NEW m \in 1 .. batch[w].lo, SameKey(j, i, m)
                     PROVE  IF SameBatch(j, i, m) THEN Rows(j)[m].ord <= Rows(j)[i].ord ELSE m < i
          OBVIOUS
        <4>1. m \in 1 .. batch[w].hi /\ m <= batch[w].lo
          BY <1>4
        <4> QED BY <1>9, <2>1, <2>2, <4>1
      <3>2. Wins(j, i)
        BY <1>4, <2>1, <3>1 DEF Wins
      <3>3. ASSUME NEW m \in (batch[w].lo + 1) .. batch[w].hi, SameKey(j, i, m)
            PROVE  FALSE
        <4>1. m \in 1 .. batch[w].hi /\ m > batch[w].lo /\ ~(m < i)
          BY <1>4, <2>2
        <4> QED BY <1>9, <2>1, <2>2, <3>3, <4>1
      <3>4. Quiet(j, i, checkpoint[j].done, EndOf(j))
        BY <1>4, <3>3 DEF Quiet
      <3>5. i \in 1 .. checkpoint[j].done
        BY <1>4, <2>2
      <3> QED BY <3>2, <3>4, <3>5 DEF FreshInv
    <2>3. CASE i > batch[w].lo
      <3>1. i \in InBatch(w)
        BY <1>4, <2>3 DEF InBatch
      <3>2. ASSUME NEW m \in InBatch(w), SameKey(j, i, m)
            PROVE  Rows(j)[m].ord <= Rows(j)[i].ord
        <4>1. m \in 1 .. batch[w].hi /\ m > batch[w].lo
          BY <1>4 DEF InBatch
        <4> QED BY <1>9, <2>1, <2>3, <3>2, <4>1
      <3>3. TopOf(w, i)
        BY <2>1, <3>2 DEF TopOf
      <3> QED BY <1>1, <3>1, <3>3 DEF FreshInv
    <2> QED BY <1>4, <2>2, <2>3
  <1>11. ASSUME NEW k \in Jobs, NEW i \in 1 .. checkpoint'[k].done, Wins(k, i)',
                Quiet(k, i, checkpoint[k].done, EndOf(k))'
         PROVE  ShownIn(k, table[k], i)'
    <2>1. CASE k = j
      BY <1>1, <1>3, <1>10, <1>11, <2>1 DEF ShownIn, Current, Rows
    <2>2. CASE k # j
      <3>1. checkpoint'[k] = checkpoint[k] /\ EndOf(k)' = EndOf(k)
        BY <1>3, <1>4, <2>2
      <3>2. Wins(k, i)
        BY <1>7, <1>8, <1>11, <3>1 DEF Wins, SameBatch, Invalid
      <3>3. Quiet(k, i, checkpoint[k].done, EndOf(k))
        BY <1>8, <1>11, <3>1 DEF Quiet
      <3>4. ShownIn(k, table[k], i)
        BY <1>11, <3>1, <3>2, <3>3 DEF FreshInv
      <3> QED BY <1>1, <3>4 DEF ShownIn, Current, Rows
    <2> QED BY <2>1, <2>2
  <1>12. ASSUME NEW x \in Workers, pc'[x] = "commit", NEW i \in InBatch(x)', TopOf(x, i)'
         PROVE  ShownIn(JobOf[x], table[JobOf[x]], i)'
    <2>1. ShownIn(JobOf[x], table[JobOf[x]], i)
      BY <1>1, <1>12, SameTop DEF FreshInv
    <2> QED BY <1>1, <2>1 DEF ShownIn, Current, Rows
  <1>13. FreshInv'
    BY <1>11, <1>12 DEF FreshInv
  <1> QED BY <1>6, <1>13

LEMMA CreateFresh ==
    ASSUME SingleWriter, NoTies, TypeInv, OnPlan, NeverOverwrites, FreshInv,
           NEW w \in Workers, Create(w)
    PROVE  FreshInv'
  <1>1. table[JobOf[w]] = {} /\ pc[w] = "create"
    BY WorkerTypes DEF Create, NeverOverwrites
  <1>2. \A i : ~ShownIn(JobOf[w], table[JobOf[w]], i)
    BY <1>1 DEF ShownIn
  <1>3. CASE WriteTable(w, {}) /\ Goto(w, "retire")
    BY <1>1, <1>2, <1>3, WriteFresh
  <1>4. ASSUME NEW f \in Dedup(Clean(w)), Goto(w, "commit"),
               WriteTable(w, {NewVersion(w, f[k]) : k \in DOMAIN f})
        PROVE  FreshInv'
    <2>1. \A i \in InBatch(w) : TopOf(w, i) =>
             ShownIn(JobOf[w], {NewVersion(w, f[k]) : k \in DOMAIN f}, i)
      BY DedupPicksTop, NewVersionShows
    <2> QED BY <1>1, <1>2, <1>4, <2>1, WriteFresh
  <1> QED BY <1>3, <1>4 DEF Create

LEMMA MergeFresh ==
    ASSUME SingleWriter, NoTies, TypeInv, OnPlan, FreshInv, NEW w \in Workers, MergeType1(w)
    PROVE  FreshInv'
  <1>1. PICK f \in Dedup(Clean(w)) :
          WriteTable(w, {v \in table[JobOf[w]] : v.row.key \notin DOMAIN f}
                        \cup {NewVersion(w, f[k]) : k \in DOMAIN f})
    BY DEF MergeType1
  <1> PICK rows : rows = {v \in table[JobOf[w]] : v.row.key \notin DOMAIN f}
                         \cup {NewVersion(w, f[k]) : k \in DOMAIN f}
    OBVIOUS
  <1>2. ASSUME NEW i, Quiet(JobOf[w], i, batch[w].lo, batch[w].hi),
               ShownIn(JobOf[w], table[JobOf[w]], i)
        PROVE  ShownIn(JobOf[w], rows, i)
    BY <1>2, QuietBatch DEF ShownIn
  <1>3. \A i \in InBatch(w) : TopOf(w, i) => ShownIn(JobOf[w], rows, i)
    BY DedupPicksTop, NewVersionShows
  <1> QED BY <1>1, <1>2, <1>3, WriteFresh DEF MergeType1

LEMMA RetireFresh ==
    ASSUME SingleWriter, TypeInv, OnPlan, FreshInv, NEW w \in Workers, Retire(w)
    PROVE  FreshInv'
  <1>1. PICK f \in Dedup(Clean(w)) :
          WriteTable(w, {IF Superseded(v, f) THEN [v EXCEPT !.until = version[JobOf[w]] + 1]
                                             ELSE v : v \in table[JobOf[w]]})
    BY DEF Retire
  <1> PICK rows : rows = {IF Superseded(v, f) THEN [v EXCEPT !.until = version[JobOf[w]] + 1]
                                              ELSE v : v \in table[JobOf[w]]}
    OBVIOUS
  <1>2. ASSUME NEW i \in 1 .. batch[w].lo, Quiet(JobOf[w], i, batch[w].lo, batch[w].hi),
               ShownIn(JobOf[w], table[JobOf[w]], i)
        PROVE  ShownIn(JobOf[w], rows, i)
    <2>1. PICK v \in table[JobOf[w]] :
            v.row.key = Rows(JobOf[w])[i].key /\ Current(v) /\ v.row.val = Rows(JobOf[w])[i].val
      BY <1>2 DEF ShownIn
    <2>2. ~Superseded(v, f)
      BY <1>2, <2>1, QuietBatch DEF Superseded
    <2>3. v \in rows
      BY <2>2
    <2> QED BY <2>1, <2>3 DEF ShownIn
  <1> QED BY <1>1, <1>2, WriteFresh DEF Retire

LEMMA InsertFresh ==
    ASSUME SingleWriter, NoTies, TypeInv, OnPlan, FreshInv, NEW w \in Workers, Insert(w)
    PROVE  FreshInv'
  <1> PICK j : j = JobOf[w]
    OBVIOUS
  <1>1. PICK f \in Dedup(Clean(w)) :
          WriteTable(w, table[j] \cup
            {NewVersion(w, f[k]) : k \in {m \in DOMAIN f : \A v \in table[j] : ~Identical(v, f[m])}})
    BY DEF Insert
  <1> PICK rows : rows = table[j] \cup
            {NewVersion(w, f[k]) : k \in {m \in DOMAIN f : \A v \in table[j] : ~Identical(v, f[m])}}
    OBVIOUS
  <1>2. \A i : ShownIn(j, table[j], i) => ShownIn(j, rows, i)
    BY DEF ShownIn
  <1>3. ASSUME NEW i \in InBatch(w), TopOf(w, i)
        PROVE  ShownIn(j, rows, i)
    <2>1. Rows(j)[i].key \in DOMAIN f /\ f[Rows(j)[i].key] = Rows(j)[i]
      BY <1>3, DedupPicksTop
    <2>2. CASE \E v \in table[j] : Identical(v, Rows(j)[i])
      BY <2>2 DEF Identical, ShownIn
    <2>3. CASE \A v \in table[j] : ~Identical(v, Rows(j)[i])
      <3>1. NewVersion(w, f[Rows(j)[i].key]) \in rows
        BY <2>1, <2>3
      <3> QED BY <1>3, <3>1, NewVersionShows
    <2> QED BY <2>2, <2>3
  <1> QED BY <1>1, <1>2, <1>3, WriteFresh DEF Insert

LEMMA NextFresh ==
    ASSUME SingleWriter, NoTies, TypeInv, OnPlan, NeverOverwrites, LogEnds, FreshInv, [Next]_vars
    PROVE  FreshInv'
  <1>1. CASE UNCHANGED vars
    BY <1>1, IdleFresh DEF vars
  <1>2. ASSUME NEW w \in Workers, Abort(w) \/ Quarantine(w) \/ Probe(w)
        PROVE  FreshInv'
    <2>1. /\ UNCHANGED <<bronze, checkpoint, table>> /\ pc'[w] # "commit"
          /\ \A x \in Workers \ {w} : pc'[x] = pc[x] /\ batch'[x] = batch[x]
      BY <1>2, GotoMoves DEF Abort, Quarantine, Probe, MergeStep, TypeInv, TypeOK
    <2> QED BY <2>1, IdleFresh
  <1> QED BY <1>1, <1>2, BeginFresh, CommitFresh, CreateFresh, MergeFresh, RetireFresh,
             InsertFresh DEF Next, Handle

\* The commit log grows with what the job has read, whatever else happens.
LEMMA NextLogEnds ==
    ASSUME TypeInv, OnPlan, LogEnds, [Next]_vars
    PROVE  LogEnds'
  <1>1. ASSUME NEW w \in Workers, Commit(w)
        PROVE  LogEnds'
    <2>1. /\ pc[w] = "commit" /\ JobOf[w] \in Jobs
          /\ batch[w].hi \in Nat /\ batch[w].hi > checkpoint[JobOf[w]].done
          /\ checkpoint[JobOf[w]].done \in Nat /\ checkpoint[JobOf[w]].ends \subseteq Nat
      <3>1. pc[w] = "commit" /\ JobOf[w] \in Jobs /\ checkpoint[JobOf[w]].ends \subseteq Nat
        BY <1>1, WorkerTypes DEF Commit, TypeInv, TypeOK
      <3> QED BY <3>1, WorkerTypes, JobTypes DEF OnPlan
    <2>2. CASE checkpoint' = checkpoint
      BY <2>2 DEF LogEnds
    <2>3. CASE checkpoint' = [checkpoint EXCEPT ![JobOf[w]] =
                                [done |-> batch[w].hi, plan |-> 0, id |-> batch[w].id + 1,
                                 ends |-> @.ends \cup {batch[w].hi}]]
      <3>1. /\ checkpoint'[JobOf[w]].done = batch[w].hi
            /\ checkpoint'[JobOf[w]].ends = checkpoint[JobOf[w]].ends \cup {batch[w].hi}
            /\ \A k \in Jobs \ {JobOf[w]} : checkpoint'[k] = checkpoint[k]
        BY <2>1, <2>3 DEF TypeInv, TypeOK
      <3> QED BY <2>1, <3>1 DEF LogEnds
    <2> QED BY <1>1, <2>2, <2>3 DEF Commit
  <1>2. ASSUME NEW w \in Workers, Begin(w)
        PROVE  LogEnds'
    <2>1. \A k \in Jobs : /\ checkpoint'[k].done = checkpoint[k].done
                          /\ checkpoint'[k].ends = checkpoint[k].ends
      BY <1>2 DEF Begin, TypeInv, TypeOK
    <2> QED BY <2>1 DEF LogEnds
  <1>3. ASSUME NEW w \in Workers, Abort(w) \/ Handle(w)
        PROVE  LogEnds'
    <2>1. checkpoint' = checkpoint
      BY <1>3 DEF Abort, Handle, Quarantine, Probe, Create, MergeType1, Retire, Insert, WriteTable
    <2> QED BY <2>1 DEF LogEnds
  <1>4. CASE UNCHANGED vars
    BY <1>4 DEF vars, LogEnds
  <1> QED BY <1>1, <1>2, <1>3, <1>4 DEF Next

\* With one application per job, no ties on the order column, and a probe that has not
\* failed, the target of a job between two batches shows for every key what the last
\* batch with the key made of it, however often batches were replayed and however late
\* their rows were (bronze_to_silver.py 155-260, 312-392).
THEOREM CurrentIsTheLastMerged ==
    ASSUME SingleWriter, NoTies
    PROVE  Spec => []CurrentIsLastMerged
  <1> DEFINE Inv == /\ TypeInv /\ OnPlan /\ LogEnds
                    /\ probeErrors = 0 => NeverOverwrites /\ FreshInv
  <1>1. Init => Inv
    <2>1. Init => OnPlan /\ LogEnds /\ NeverOverwrites /\ FreshInv
      BY DEF Init, OnPlan, LogEnds, NeverOverwrites, FreshInv
    <2> QED BY <2>1, InitTypeInv
  <1>2. Inv /\ [Next]_vars => Inv'
    <2> SUFFICES ASSUME Inv, [Next]_vars PROVE Inv'
      OBVIOUS
    <2>1. TypeInv' /\ OnPlan' /\ LogEnds'
      BY NextTypeInv, NextOnPlan, NextLogEnds
    <2>2. probeErrors' = 0 => probeErrors = 0
      BY NextProbeErrors
    <2>3. probeErrors' = 0 => NeverOverwrites' /\ FreshInv'
      BY <2>2, NextNeverOverwrites, NextFresh
    <2> QED BY <2>1, <2>3
  <1>3. Inv => CurrentIsLastMerged
    <2> SUFFICES ASSUME Inv, NEW j \in Jobs, Settled(j), probeErrors = 0,
                        NEW i \in 1 .. checkpoint[j].done, Wins(j, i)
                 PROVE  \E v \in CurrentOf(j, Rows(j)[i].key) : v.row.val = Rows(j)[i].val
      BY DEF CurrentIsLastMerged
    <2>1. EndOf(j) = checkpoint[j].done
      BY DEF Settled, EndOf
    <2>2. Quiet(j, i, checkpoint[j].done, EndOf(j))
      BY <2>1, JobTypes DEF Quiet
    <2>3. ShownIn(j, table[j], i)
      BY <2>2 DEF FreshInv
    <2> QED BY <2>3 DEF ShownIn, CurrentOf
  <1> QED BY <1>1, <1>2, <1>3, PTL DEF Spec
=============================================================================
