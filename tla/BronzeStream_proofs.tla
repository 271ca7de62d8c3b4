------------------------- MODULE BronzeStream_proofs -------------------------
(***************************************************************************)
(* That no crash, replay, rollback or second application makes the Bronze  *)
(* sink append a Kafka record twice, and that without a rollback none of a *)
(* committed batch is missing, for any number of applications, topics,     *)
(* messages, batches, failures and rollbacks; and that the job therefore   *)
(* implements EffectivelyOnce.                                             *)
(*                                                                         *)
(* NoDuplicateRow is not inductive: what keeps the ranges of two appends   *)
(* apart is that the offset log only grows, that a batch Delta has not     *)
(* seen starts behind every row there is, and that after a rollback the    *)
(* first batch planned anew reaches past all of them (RowBehind).          *)
(***************************************************************************)
EXTENDS BronzeStream, TLAPS

Running(a, t) == status[a][t] \in {"idle", "write", "commit"}

\* A query works on a batch that is committed or the next to be, and calls the sink
\* only for one that is in the offset log.
QueryInv ==
    \A a \in Apps, t \in Topic :
        /\ Running(a, t) => batchId[a][t] <= commits[t]
        /\ status[a][t] \in {"write", "commit"} => batchId[a][t] < Len(offsetLog[t])
        /\ target[a][t] <= produced[t]

\* Batches follow each other: none is empty, none reaches back.
Increasing ==
    \A t \in Topic : \A i, j \in 1 .. Len(offsetLog[t]) :
        i < j => offsetLog[t][i] < offsetLog[t][j]

\* A row of topic t lies before the end of the batch Delta saw last, if the offset
\* log still has it, and of every later one; and whoever plans the next batch
\* plans past the row.
RowBehind(t, row) ==
    /\ row.batch <= txnVersion[t]
    /\ row.offset < produced[t]
    /\ \A j \in 1 .. Len(offsetLog[t]) : j > txnVersion[t] => row.offset < offsetLog[t][j]
    /\ \/ Len(offsetLog[t]) > 0 /\ row.offset < offsetLog[t][Len(offsetLog[t])]
       \/ \A a \in Apps \ Continuous : Running(a, t) => row.offset < target[a][t]

RowsBehind == \A t \in Topic : \A row \in data[t] : RowBehind(t, row)

IInv == TypeOK /\ QueryInv /\ Increasing /\ RowsBehind

\* Every record of batch id of topic t that owes a row is in Bronze.
Complete(t, id) == \A o \in Range(t, id) : Owed(t, o) => Ingested(t, o)

\* Without a rollback: what Delta saw last is complete and at most the next batch
\* to be committed, and so is what a query is about to commit.
CompleteInv ==
    rollbacks = 0 => \A t \in Topic :
        /\ txnVersion[t] <= commits[t] /\ txnVersion[t] < Len(offsetLog[t])
        /\ txnVersion[t] >= 0 => Complete(t, txnVersion[t])
        /\ \A a \in Apps : status[a][t] = "commit" => Complete(t, batchId[a][t])
        /\ \A o \in Committed(t) : Owed(t, o) => Ingested(t, o)
-----------------------------------------------------------------------------
(* Types *)

LEMMA InitTypeOK == Init => TypeOK
  BY BronzeAssumption DEF Init, TypeOK, Topic, Status, Row

\* What the offset log promises: bounded by what was produced, at most one batch
\* ahead of the commit log.
LogOK(t) ==
    /\ produced[t] <= Len(log[t])
    /\ offsetLog[t] \in Seq(1 .. produced[t])
    /\ Len(offsetLog[t]) \in {commits[t], commits[t] + 1}

\* Every entry of the offset log is a number, bounded by what was produced.
LEMMA OffsetIsNat ==
    ASSUME TypeOK, NEW t \in Topic, NEW i \in 1 .. Len(offsetLog[t])
    PROVE  offsetLog[t][i] \in Nat /\ offsetLog[t][i] <= produced[t] /\ produced[t] \in Nat
  <1>1. offsetLog[t] \in Seq(1 .. produced[t]) /\ produced[t] \in Nat
    BY DEF TypeOK
  <1>2. offsetLog[t][i] \in 1 .. produced[t]
    BY <1>1
  <1> QED BY <1>1, <1>2

\* The two parts of TypeOK a micro-batch can disturb beside the sink's.
StatusOK == status \in [Apps -> [Topic -> Status]]

LEMMA GotoStatusOK ==
    ASSUME StatusOK, NEW a \in Apps, NEW t \in Topic, NEW s \in Status, Goto(a, t, s)
    PROVE  StatusOK'
  <1>1. status' = [status EXCEPT ![a] = [status[a] EXCEPT ![t] = s]]
    BY DEF Goto, StatusOK
  <1>2. [status[a] EXCEPT ![t] = s] \in [Topic -> Status]
    BY DEF StatusOK
  <1> QED BY <1>1, <1>2 DEF StatusOK

\* The offset log gets one more entry.
LEMMA AppendLogOK ==
    ASSUME TypeOK, NEW t \in Topic, NEW end \in 1 .. produced[t],
           Len(offsetLog[t]) = commits[t],
           offsetLog' = [offsetLog EXCEPT ![t] = Append(@, end)],
           UNCHANGED <<log, earliest, produced, commits>>
    PROVE  offsetLog' \in [Topic -> Seq(Nat)] /\ \A u \in Topic : LogOK(u)'
  <1>1. end \in Nat /\ produced[t] \in Nat
    BY DEF TypeOK
  <1>2. offsetLog[t] \in Seq(1 .. produced[t]) /\ offsetLog[t] \in Seq(Nat)
    BY DEF TypeOK
  <1>3. /\ Append(offsetLog[t], end) \in Seq(1 .. produced[t])
        /\ Append(offsetLog[t], end) \in Seq(Nat)
        /\ Len(Append(offsetLog[t], end)) = commits[t] + 1
    BY <1>1, <1>2
  <1>4. offsetLog \in [Topic -> Seq(Nat)]
    BY DEF TypeOK
  <1>5. offsetLog'[t] = Append(offsetLog[t], end)
    BY <1>4
  <1>6. ASSUME NEW u \in Topic PROVE LogOK(u)'
    <2>1. CASE u = t
      BY <2>1, <1>3, <1>5 DEF LogOK, TypeOK
    <2>2. CASE u # t
      <3>1. offsetLog'[u] = offsetLog[u]
        BY <2>2, <1>4
      <3> QED BY <3>1 DEF LogOK, TypeOK
    <2> QED BY <2>1, <2>2
  <1> QED BY <1>3, <1>4, <1>6

LEMMA PlanTypeOK ==
    ASSUME TypeOK, QueryInv, NEW a \in Apps, NEW t \in Topic, Plan(a, t)
    PROVE  TypeOK'
  <1>1. StatusOK'
    <2>1. \E s \in Status : Goto(a, t, s)
      BY DEF Plan, Status
    <2> QED BY <2>1, GotoStatusOK DEF TypeOK, StatusOK
  <1>2. offsetLog' \in [Topic -> Seq(Nat)] /\ \A u \in Topic : LogOK(u)'
    <2>1. CASE UNCHANGED offsetLog
      BY <2>1 DEF Plan, TypeOK, LogOK
    <2>2. CASE /\ status[a][t] = "idle"
               /\ Len(offsetLog[t]) = batchId[a][t]
               /\ Latest(a, t) > StartOf(t, batchId[a][t])
               /\ offsetLog' = [offsetLog EXCEPT ![t] = Append(@, Latest(a, t))]
      <3>1. Latest(a, t) \in Nat /\ Latest(a, t) <= produced[t]
        BY DEF Latest, TypeOK, QueryInv
      <3>2. StartOf(t, batchId[a][t]) \in Nat
        BY <2>2 DEF StartOf, TypeOK
      <3>3. PICK end \in 1 .. produced[t] : end = Latest(a, t)
        BY <2>2, <3>1, <3>2 DEF TypeOK
      <3>4. Len(offsetLog[t]) = commits[t]
        BY <2>2 DEF TypeOK, QueryInv, Running
      <3> QED BY <2>2, <3>3, <3>4, AppendLogOK DEF Plan
    <2> QED BY <2>1, <2>2 DEF Plan
  <1> QED BY <1>1, <1>2 DEF Plan, TypeOK, StatusOK, LogOK, bounds

\* A batch in the sink is in the offset log: its offsets are those of messages.
LEMMA RangeIsNat ==
    ASSUME TypeOK, NEW t \in Topic, NEW id \in Nat, id < Len(offsetLog[t])
    PROVE  /\ StartOf(t, id) \in Nat
           /\ offsetLog[t][id + 1] \in 1 .. produced[t]
           /\ Range(t, id) \subseteq Nat
  <1>1. offsetLog[t] \in Seq(1 .. produced[t]) /\ produced[t] \in Nat
    BY DEF TypeOK
  <1>2. id + 1 \in 1 .. Len(offsetLog[t]) /\ (id # 0 => id \in 1 .. Len(offsetLog[t]))
    BY <1>1
  <1>3. StartOf(t, id) \in Nat /\ offsetLog[t][id + 1] \in 1 .. produced[t]
    BY <1>1, <1>2 DEF StartOf
  <1> QED BY <1>3 DEF Range

LEMMA RowsOfFacts ==
    ASSUME NEW t \in Topic, NEW id \in Nat, Range(t, id) \subseteq Nat,
           NEW form, \A o \in Range(t, id) : form[o] \in Form \cup {"no row"}
    PROVE  /\ RowsOf(t, id, form) \in SUBSET Row
           /\ \A row \in RowsOf(t, id, form) :
                 /\ row.batch = id /\ row.offset \in Range(t, id)
                 /\ form[row.offset] # "no row"
           /\ \A r, s \in RowsOf(t, id, form) : r.offset = s.offset => r = s
  <1>1. ASSUME NEW row \in RowsOf(t, id, form)
        PROVE  \E o \in Range(t, id) :
                 /\ row = [offset |-> o, batch |-> id, form |-> form[o]]
                 /\ form[o] \in Form /\ form[o] # "no row"
    BY DEF RowsOf
  <1>2. ASSUME NEW row \in RowsOf(t, id, form)
        PROVE  /\ row \in Row /\ row.batch = id /\ row.offset \in Range(t, id)
               /\ form[row.offset] # "no row"
    <2> PICK o \in Range(t, id) : /\ row = [offset |-> o, batch |-> id, form |-> form[o]]
                                  /\ form[o] \in Form /\ form[o] # "no row"
      BY <1>1
    <2>1. o \in Nat
      OBVIOUS
    <2> QED BY <2>1 DEF Row
  <1>4. ASSUME NEW r \in RowsOf(t, id, form), NEW s \in RowsOf(t, id, form),
               r.offset = s.offset
        PROVE  r = s
    <2>1. PICK o \in Range(t, id) : r = [offset |-> o, batch |-> id, form |-> form[o]]
      BY <1>1
    <2>2. PICK p \in Range(t, id) : s = [offset |-> p, batch |-> id, form |-> form[p]]
      BY <1>1
    <2>3. o = p
      BY <1>4, <2>1, <2>2
    <2> QED BY <2>1, <2>2, <2>3
  <1> QED BY <1>2, <1>4

\* What a call of the sink does, in the terms the invariants need.
SinkEffect(a, t, id, rows) ==
    /\ \A row \in rows : /\ row.batch = id /\ row.offset \in Range(t, id)
                         /\ Owed(t, row.offset)
    /\ \A r, s \in rows : r.offset = s.offset => r = s
    /\ \/ /\ Unseen(t, id)
          /\ data' = [data EXCEPT ![t] = @ \cup rows]
          /\ txnVersion' = [txnVersion EXCEPT ![t] = id]
          /\ Goto(a, t, "commit")
          /\ \A o \in Range(t, id) : Owed(t, o) => \E row \in rows : row.offset = o
       \/ /\ UNCHANGED <<txnVersion, data>>
          /\ \/ Goto(a, t, "dead")
             \/ /\ Goto(a, t, "commit")
                /\ \/ ~Unseen(t, id)
                   \/ \A o \in Range(t, id) : ~Owed(t, o)

\* A record becomes a row, or fails the query, just if it owes one.
LEMMA OwedIsRead ==
    ASSUME NEW a \in Apps, NEW t \in Topic, NEW o \in Nat, earliest[t] \in Nat,
           NEW f \in Reads(a, t, o)
    PROVE  f # "no row" <=> Owed(t, o)
  <1>1. CASE o < earliest[t]
    <2>1. Reads(a, t, o) = {"no row"}
      BY <1>1, Zenon DEF Reads
    <2>2. ~Owed(t, o)
      BY <1>1 DEF Owed
    <2> QED BY <2>1, <2>2
  <1>2. CASE ~(o < earliest[t])
    <2>1. f \in Outcomes(log[t][o + 1], reader[a][t], allowed[a][t])
      BY <1>2, Zenon DEF Reads
    <2>2. f # "no row" <=> log[t][o + 1].wire # "null"
      <3>1. log[t][o + 1].wire = "null" => f = "no row"
        BY <2>1 DEF Outcomes
      <3>2. ASSUME log[t][o + 1].wire # "null" PROVE f # "no row"
        BY <2>1, <3>2 DEF Outcomes
      <3> QED BY <3>1, <3>2
    <2>3. o >= earliest[t]
      BY <1>2
    <2> QED BY <2>2, <2>3, Zenon DEF Owed
  <1> QED BY <1>1, <1>2

LEMMA WriteEffect ==
    ASSUME TypeOK, QueryInv, NEW a \in Apps, NEW t \in Topic, Write(a, t),
           NEW id \in Nat, id = batchId[a][t]
    PROVE  \E rows \in SUBSET Row : SinkEffect(a, t, id, rows)
  <1>1. PICK form \in [Range(t, id) -> Form \cup {"no row", "raise"}] :
             /\ \A o \in Range(t, id) :
                   form[o] \in Reads(a, t, o)
             /\ Sink(a, t, id, form)
    BY DEF Write
  <1>2. Range(t, id) \subseteq Nat
    BY RangeIsNat DEF Write, QueryInv
  <1>3. ASSUME NEW o \in Range(t, id), Owed(t, o)
        PROVE  form[o] # "no row"
    <2>1. form[o] \in Reads(a, t, o)
      BY <1>1
    <2>2. o \in Nat /\ earliest[t] \in Nat
      BY <1>2 DEF TypeOK
    <2> QED BY <1>3, <2>1, <2>2, OwedIsRead
  <1>4. CASE UNCHANGED <<txnVersion, data>> /\ Goto(a, t, "dead")
    <2>1. {} \in SUBSET Row
      OBVIOUS
    <2>2. SinkEffect(a, t, id, {})
      BY <1>4 DEF SinkEffect
    <2> QED BY <2>1, <2>2
  <1>5. CASE /\ ~(Unseen(t, id) /\ RowsOf(t, id, form) # {})
             /\ Goto(a, t, "commit")
             /\ UNCHANGED <<txnVersion, data>>
    <2>1. {} \in SUBSET Row
      OBVIOUS
    <2>2. Unseen(t, id) => \A o \in Range(t, id) : ~Owed(t, o)
      BY <1>5, <1>3 DEF RowsOf
    <2>3. SinkEffect(a, t, id, {})
      BY <1>5, <2>2 DEF SinkEffect
    <2> QED BY <2>1, <2>3
  <1>6. CASE /\ Unseen(t, id)
             /\ \A o \in Range(t, id) : form[o] # "raise"
             /\ data' = [data EXCEPT ![t] = @ \cup RowsOf(t, id, form)]
             /\ txnVersion' = [txnVersion EXCEPT ![t] = id]
             /\ Goto(a, t, "commit")
    <2>1. \A o \in Range(t, id) : form[o] \in Form \cup {"no row"}
      BY <1>6
    <2>2. /\ RowsOf(t, id, form) \in SUBSET Row
          /\ \A row \in RowsOf(t, id, form) :
                /\ row.batch = id /\ row.offset \in Range(t, id)
                /\ form[row.offset] # "no row"
          /\ \A r, s \in RowsOf(t, id, form) : r.offset = s.offset => r = s
      BY <1>2, <2>1, RowsOfFacts, ZenonT(20)
    <2>5. ASSUME NEW row \in RowsOf(t, id, form)
          PROVE  Owed(t, row.offset)
      <3>1. form[row.offset] \in Reads(a, t, row.offset)
        BY <1>1, <2>2
      <3>2. row.offset \in Nat /\ earliest[t] \in Nat
        BY <1>2, <2>2 DEF TypeOK
      <3>3. form[row.offset] # "no row"
        BY <2>2
      <3> QED BY <3>1, <3>2, <3>3, OwedIsRead
    <2>4. ASSUME NEW o \in Range(t, id), Owed(t, o)
          PROVE  \E row \in RowsOf(t, id, form) : row.offset = o
      <3>1. [offset |-> o, batch |-> id, form |-> form[o]] \in RowsOf(t, id, form)
        BY <1>3, <2>4 DEF RowsOf
      <3>2. [offset |-> o, batch |-> id, form |-> form[o]].offset = o
        OBVIOUS
      <3> QED BY <3>1, <3>2
    <2>3. SinkEffect(a, t, id, RowsOf(t, id, form))
      BY <1>6, <2>2, <2>4, <2>5 DEF SinkEffect
    <2> QED BY <2>2, <2>3
  <1> QED BY <1>1, <1>4, <1>5, <1>6 DEF Sink

LEMMA WriteTypeOK ==
    ASSUME TypeOK, QueryInv, NEW a \in Apps, NEW t \in Topic, Write(a, t)
    PROVE  TypeOK'
  <1>1. PICK id \in Nat : id = batchId[a][t]
    BY DEF TypeOK
  <1>2. PICK rows \in SUBSET Row :
           /\ Goto(a, t, "commit") \/ Goto(a, t, "dead")
           /\ \/ /\ data' = [data EXCEPT ![t] = @ \cup rows]
                 /\ txnVersion' = [txnVersion EXCEPT ![t] = id]
              \/ UNCHANGED <<txnVersion, data>>
    <2> PICK rows \in SUBSET Row : SinkEffect(a, t, id, rows)
      BY <1>1, WriteEffect
    <2> QED BY DEF SinkEffect
  <1>3. StatusOK'
    BY <1>2, GotoStatusOK DEF TypeOK, StatusOK, Status
  <1>4. data' \in [Topic -> SUBSET Row] /\ txnVersion' \in [Topic -> Nat \cup {-1}]
    <2>1. data \in [Topic -> SUBSET Row] /\ txnVersion \in [Topic -> Nat \cup {-1}]
      BY DEF TypeOK
    <2>2. CASE UNCHANGED <<txnVersion, data>>
      BY <2>1, <2>2
    <2>3. CASE /\ data' = [data EXCEPT ![t] = @ \cup rows]
               /\ txnVersion' = [txnVersion EXCEPT ![t] = id]
      BY <2>1, <2>3, <1>1
    <2> QED BY <1>2, <2>2, <2>3
  <1> QED BY <1>3, <1>4 DEF Write, TypeOK, StatusOK, bounds

LEMMA CommitTypeOK ==
    ASSUME TypeOK, QueryInv, NEW a \in Apps, NEW t \in Topic, Commit(a, t)
    PROVE  TypeOK'
  <1>1. StatusOK'
    <2>1. \E s \in Status : Goto(a, t, s)
      BY DEF Commit, Status
    <2> QED BY <2>1, GotoStatusOK DEF TypeOK, StatusOK
  <1>2. CASE UNCHANGED <<commits, batchId>>
    BY <1>1, <1>2 DEF Commit, TypeOK, StatusOK, bounds
  <1>3. CASE /\ commits[t] = batchId[a][t]
             /\ commits' = [commits EXCEPT ![t] = @ + 1]
             /\ batchId' = [batchId EXCEPT ![a][t] = @ + 1]
    <2>1. batchId[a][t] < Len(offsetLog[t])
      BY DEF Commit, QueryInv
    <2>2. Len(offsetLog[t]) = commits[t] + 1
      BY <1>3, <2>1 DEF TypeOK
    <2>3. commits' \in [Topic -> Nat] /\ batchId' \in [Apps -> [Topic -> Nat]]
      BY <1>3 DEF TypeOK
    <2>4. \A u \in Topic : LogOK(u)'
      BY <1>3, <2>2 DEF Commit, TypeOK, LogOK
    <2> QED BY <1>1, <2>3, <2>4 DEF Commit, TypeOK, StatusOK, LogOK, bounds
  <1> QED BY <1>2, <1>3 DEF Commit

LEMMA LaunchTypeOK ==
    ASSUME TypeOK, NEW a \in Apps, NEW t \in Topic, Launch(a, t)
    PROVE  TypeOK'
  <1>1. StatusOK'
    <2>1. Goto(a, t, FirstStep(t)) /\ FirstStep(t) \in Status
      BY DEF Launch, Goto, FirstStep, Status
    <2> QED BY <2>1, GotoStatusOK DEF TypeOK, StatusOK
  <1>2. KnownIds(a, t) \in 0 .. Versions
    BY BronzeAssumption DEF KnownIds, TypeOK, Topic
  <1>3. /\ allowed' \in [Apps -> [Topic -> 0 .. Versions]]
        /\ batchId' \in [Apps -> [Topic -> Nat]]
        /\ target' \in [Apps -> [Topic -> Nat]]
    BY <1>2 DEF Launch, TypeOK
  <1> QED BY <1>1, <1>3 DEF Launch, TypeOK, StatusOK, storeVars, bounds

LEMMA PrefixOfSeq ==
    ASSUME NEW S, NEW s \in Seq(S), NEW n \in Nat, n <= Len(s)
    PROVE  /\ SubSeq(s, 1, n) \in Seq(S)
           /\ Len(SubSeq(s, 1, n)) = n
           /\ \A i \in 1 .. n : SubSeq(s, 1, n)[i] = s[i]
  OBVIOUS

LEMMA RollbackTypeOK ==
    ASSUME TypeOK, NEW t \in Topic, Rollback(t)
    PROVE  TypeOK'
  <1> PICK n \in 0 .. (commits[t] - 1) :
         /\ commits' = [commits EXCEPT ![t] = n]
         /\ offsetLog' = [offsetLog EXCEPT ![t] = SubSeq(@, 1, n)]
    BY DEF Rollback
  <1>1. commits[t] \in Nat /\ n \in Nat /\ n <= Len(offsetLog[t])
    BY DEF TypeOK
  <1>2. offsetLog[t] \in Seq(1 .. produced[t]) /\ offsetLog[t] \in Seq(Nat)
    BY DEF TypeOK
  <1>3. /\ SubSeq(offsetLog[t], 1, n) \in Seq(1 .. produced[t])
        /\ SubSeq(offsetLog[t], 1, n) \in Seq(Nat)
        /\ Len(SubSeq(offsetLog[t], 1, n)) = n
    BY <1>1, <1>2, PrefixOfSeq
  <1>4. offsetLog' \in [Topic -> Seq(Nat)] /\ commits' \in [Topic -> Nat]
    BY <1>1, <1>3 DEF TypeOK
  <1>5. ASSUME NEW u \in Topic PROVE LogOK(u)'
    <2>1. produced' = produced /\ log' = log
      BY DEF Rollback
    <2>2. LogOK(u)
      BY DEF TypeOK, LogOK
    <2>3. CASE u = t
      <3>1. commits'[u] = n /\ offsetLog'[u] = SubSeq(offsetLog[t], 1, n)
        BY <2>3 DEF TypeOK
      <3> QED BY <3>1, <2>1, <2>2, <2>3, <1>1, <1>3 DEF LogOK
    <2>4. CASE u # t
      <3>1. commits'[u] = commits[u] /\ offsetLog'[u] = offsetLog[u]
        BY <2>4 DEF TypeOK
      <3> QED BY <3>1, <2>1, <2>2 DEF LogOK
    <2> QED BY <2>3, <2>4
  <1>6. \A u \in Topic : LogOK(u)'
    BY <1>5
  <1>7. /\ log' \in Logs /\ produced' \in [Topic -> Nat] /\ earliest' \in [Topic -> Nat]
        /\ registered' \in 1 .. Versions
    BY DEF Rollback, TypeOK
  <1>8. /\ data' \in [Topic -> SUBSET Row] /\ txnVersion' \in [Topic -> Nat \cup {-1}]
        /\ backfills' \in Nat /\ failures' \in Nat /\ rollbacks' \in Nat
    BY DEF Rollback, TypeOK
  <1>9. /\ status' \in [Apps -> [Topic -> Status]]
        /\ batchId' \in [Apps -> [Topic -> Nat]]
        /\ reader' \in [Apps -> [Topic -> 0 .. Versions]]
        /\ allowed' \in [Apps -> [Topic -> 0 .. Versions]]
        /\ target' \in [Apps -> [Topic -> Nat]]
    BY DEF Rollback, TypeOK, queryVars
  <1> QED BY <1>4, <1>6, <1>7, <1>8, <1>9 DEF TypeOK, LogOK

\* Steps of the producers and of the applications that leave the stores alone.
LEMMA QuietTypeOK ==
    ASSUME TypeOK,
           \/ Register
           \/ \E t \in Topic : Produce(t) \/ Expire(t)
           \/ \E a \in Apps : Start(a) \/ Exit(a) \/ Kill(a)
           \/ \E a \in Apps, t \in Topic : ResolveReader(a, t) \/ Finish(a, t) \/ Fail(a, t)
    PROVE  TypeOK'
  <1>1. CASE Register
    BY <1>1, BronzeAssumption DEF Register, TypeOK, queryVars, storeVars, bounds
  <1>2. ASSUME NEW t \in Topic, Produce(t) PROVE TypeOK'
    <2>1. log[t] \in Seq(Message)
      BY BronzeAssumption DEF TypeOK
    <2>2. produced' \in [Topic -> Nat]
      <3>1. produced \in [Topic -> Nat] /\ produced' = [produced EXCEPT ![t] = produced[t] + 1]
        BY <1>2 DEF Produce, TypeOK
      <3> QED BY <3>1
    <2>3. ASSUME NEW u \in Topic PROVE LogOK(u)'
      <3>1. /\ produced[u] \in Nat /\ produced'[u] \in Nat
            /\ produced[u] <= produced'[u] /\ produced'[u] <= Len(log[u])
        <4>1. CASE u = t
          <5>1. produced'[t] = produced[t] + 1 /\ produced[t] < Len(log[t])
            BY <1>2 DEF Produce, TypeOK
          <5>2. Len(log[t]) \in Nat /\ produced[t] \in Nat
            BY <2>1 DEF TypeOK
          <5> QED BY <4>1, <5>1, <5>2
        <4>2. CASE u # t
          BY <1>2, <4>2 DEF Produce, TypeOK
        <4> QED BY <4>1, <4>2
      <3>3. offsetLog[u] \in Seq(1 .. produced[u])
        BY DEF TypeOK
      <3>4. offsetLog[u] \in Seq(1 .. produced'[u])
        BY <3>1, <3>3
      <3> QED BY <1>2, <3>1, <3>4 DEF Produce, TypeOK, LogOK, storeVars
    <2> QED BY <1>2, <2>2, <2>3 DEF Produce, TypeOK, LogOK, queryVars, storeVars, bounds
  <1>5. ASSUME NEW t \in Topic, Expire(t) PROVE TypeOK'
    <2>1. earliest' \in [Topic -> Nat]
      <3>1. earliest \in [Topic -> Nat] /\ earliest' = [earliest EXCEPT ![t] = earliest[t] + 1]
        BY <1>5 DEF Expire, TypeOK
      <3> QED BY <3>1
    <2> QED BY <1>5, <2>1 DEF Expire, TypeOK, queryVars, storeVars, bounds
  <1>3. ASSUME NEW a \in Apps, Start(a) \/ Exit(a) \/ Kill(a) PROVE TypeOK'
    <2>1. CASE Start(a)
      <3>1. status' \in [Apps -> [Topic -> Status]]
        BY <2>1 DEF Start, TypeOK, Status
      <3>2. backfills' \in Nat
        BY <2>1 DEF Start, TypeOK
      <3> QED BY <2>1, <3>1, <3>2 DEF Start, TypeOK, storeVars
    <2>2. CASE StopAll(a) /\ backfills' \in Nat /\ failures' \in Nat /\ rollbacks' \in Nat
      <3>1. /\ status' \in [Apps -> [Topic -> Status]]
            /\ batchId' \in [Apps -> [Topic -> Nat]]
            /\ target' \in [Apps -> [Topic -> Nat]]
            /\ reader' \in [Apps -> [Topic -> 0 .. Versions]]
            /\ allowed' \in [Apps -> [Topic -> 0 .. Versions]]
        <4>1. /\ [u \in Topic |-> "off"] \in [Topic -> Status]
              /\ [u \in Topic |-> 0] \in [Topic -> Nat]
              /\ [u \in Topic |-> 0] \in [Topic -> 0 .. Versions]
          BY BronzeAssumption DEF Status
        <4>2. /\ status \in [Apps -> [Topic -> Status]]
              /\ batchId \in [Apps -> [Topic -> Nat]]
              /\ target \in [Apps -> [Topic -> Nat]]
              /\ reader \in [Apps -> [Topic -> 0 .. Versions]]
              /\ allowed \in [Apps -> [Topic -> 0 .. Versions]]
          BY DEF TypeOK
        <4> QED BY <2>2, <4>1, <4>2 DEF StopAll
      <3> QED BY <2>2, <3>1 DEF StopAll, TypeOK, storeVars
    <2>3. backfills \in Nat /\ failures \in Nat /\ rollbacks \in Nat
      BY DEF TypeOK
    <2> QED BY <1>3, <2>1, <2>2, <2>3 DEF Exit, Kill, bounds
  <1>4. ASSUME NEW a \in Apps, NEW t \in Topic,
               ResolveReader(a, t) \/ Finish(a, t) \/ Fail(a, t)
        PROVE  TypeOK'
    <2>1. CASE ResolveReader(a, t)
      <3>1. Goto(a, t, "list") /\ "list" \in Status
        BY <2>1 DEF ResolveReader, Goto, Status
      <3>2. StatusOK'
        BY <3>1, GotoStatusOK DEF TypeOK, StatusOK
      <3>3. registered \in 0 .. Versions
        BY BronzeAssumption DEF TypeOK
      <3>4. reader' \in [Apps -> [Topic -> 0 .. Versions]]
        BY <2>1, <3>3 DEF ResolveReader, TypeOK
      <3> QED BY <2>1, <3>2, <3>4 DEF ResolveReader, TypeOK, StatusOK, storeVars, bounds
    <2>2. CASE Finish(a, t)
      <3>1. StatusOK'
        BY <2>2, GotoStatusOK DEF Finish, Status, TypeOK, StatusOK
      <3> QED BY <2>2, <3>1 DEF Finish, TypeOK, StatusOK, storeVars, bounds
    <2>3. CASE Fail(a, t)
      <3>1. StatusOK'
        BY <2>3, GotoStatusOK DEF Fail, Status, TypeOK, StatusOK
      <3>2. failures' \in Nat
        BY <2>3 DEF Fail, TypeOK
      <3> QED BY <2>3, <3>1, <3>2 DEF Fail, TypeOK, StatusOK, storeVars
    <2> QED BY <1>4, <2>1, <2>2, <2>3
  <1> QED BY <1>1, <1>2, <1>3, <1>4, <1>5

LEMMA NextTypeOK ==
    ASSUME TypeOK, QueryInv, [Next]_vars
    PROVE  TypeOK'
  <1>1. CASE UNCHANGED vars
    BY <1>1 DEF vars, queryVars, storeVars, bounds, TypeOK
  <1> QED BY <1>1, PlanTypeOK, WriteTypeOK, CommitTypeOK, LaunchTypeOK, RollbackTypeOK,
             QuietTypeOK DEF Next, Query

-----------------------------------------------------------------------------
(* Where a query is *)

LEMMA InitQueryInv == Init => QueryInv
  BY DEF Init, QueryInv, Running

LEMMA GotoElsewhere ==
    ASSUME TypeOK, NEW a \in Apps, NEW t \in Topic, NEW s, Goto(a, t, s)
    PROVE  /\ status'[a][t] = s
           /\ \A b \in Apps, u \in Topic : b # a \/ u # t => status'[b][u] = status[b][u]
  BY DEF TypeOK, Goto

LEMMA NextQueryInv ==
    ASSUME TypeOK, QueryInv, [Next]_vars
    PROVE  QueryInv'
  <1>1. CASE UNCHANGED vars \/ Register \/ \E t \in Topic : Expire(t)
    BY <1>1 DEF vars, queryVars, storeVars, Register, Expire, QueryInv, Running
  <1>2. ASSUME NEW t \in Topic, Produce(t) PROVE QueryInv'
    <2>1. \A u \in Topic : produced[u] <= produced'[u]
      BY <1>2 DEF Produce, TypeOK
    <2>2. ASSUME NEW a \in Apps, NEW u \in Topic PROVE target[a][u] <= produced'[u]
      <3>1. produced[u] \in Nat /\ produced'[u] \in Nat /\ target[a][u] \in Nat
        BY <1>2 DEF TypeOK, Produce
      <3>2. target[a][u] <= produced[u]
        BY DEF QueryInv
      <3> QED BY <2>1, <3>1, <3>2
    <2> QED BY <1>2, <2>2 DEF Produce, QueryInv, Running, queryVars, storeVars
  <1>3. ASSUME NEW t \in Topic, Rollback(t) PROVE QueryInv'
    BY <1>3 DEF Rollback, Down, QueryInv, Running, queryVars
  <1>4. ASSUME NEW a \in Apps, Start(a) PROVE QueryInv'
    <2>1. /\ \A u \in Topic : status'[a][u] = "resolve"
          /\ \A b \in Apps \ {a} : status'[b] = status[b]
      BY <1>4 DEF Start, TypeOK
    <2> QED BY <1>4, <2>1 DEF Start, QueryInv, Running, storeVars
  <1>5. ASSUME NEW a \in Apps, StopAll(a) PROVE QueryInv'
    <2>1. /\ \A u \in Topic : status'[a][u] = "off" /\ target'[a][u] = 0
          /\ \A b \in Apps \ {a} : /\ status'[b] = status[b] /\ target'[b] = target[b]
                                   /\ batchId'[b] = batchId[b]
      BY <1>5 DEF StopAll, TypeOK
    <2>2. \A u \in Topic : produced[u] \in Nat
      BY DEF TypeOK
    <2> QED BY <1>5, <2>1, <2>2 DEF StopAll, QueryInv, Running, storeVars
  <1>6. ASSUME NEW a \in Apps, NEW t \in Topic,
               ResolveReader(a, t) \/ Finish(a, t) \/ Fail(a, t) PROVE QueryInv'
    <2>1. PICK s \in {"list", "done", "dead"} : Goto(a, t, s)
      BY <1>6 DEF ResolveReader, Finish, Fail, Goto
    <2>2. UNCHANGED <<produced, batchId, target, commits, offsetLog>>
      BY <1>6 DEF ResolveReader, Finish, Fail, storeVars
    <2> QED BY <2>1, <2>2, GotoElsewhere DEF QueryInv, Running
  <1>7. ASSUME NEW a \in Apps, NEW t \in Topic, Launch(a, t) PROVE QueryInv'
    <2>1. Goto(a, t, FirstStep(t))
      BY <1>7 DEF Launch, Goto
    <2>2. /\ status'[a][t] = FirstStep(t)
          /\ \A b \in Apps, u \in Topic : b # a \/ u # t => status'[b][u] = status[b][u]
      BY <2>1 DEF TypeOK, Goto
    <2>3. /\ batchId'[a][t] = commits[t] /\ target'[a][t] = produced[t]
          /\ \A b \in Apps, u \in Topic : b # a \/ u # t =>
                 batchId'[b][u] = batchId[b][u] /\ target'[b][u] = target[b][u]
      BY <1>7 DEF Launch, TypeOK
    <2>4. commits[t] \in Nat /\ produced[t] \in Nat
      BY DEF TypeOK
    <2> QED BY <1>7, <2>2, <2>3, <2>4 DEF Launch, QueryInv, Running, FirstStep, storeVars
  <1>8. ASSUME NEW a \in Apps, NEW t \in Topic, Plan(a, t) PROVE QueryInv'
    <2>1. UNCHANGED <<produced, batchId, target, commits>>
      BY <1>8 DEF Plan
    <2>2. CASE Goto(a, t, "dead") /\ UNCHANGED offsetLog
      BY <2>1, <2>2, GotoElsewhere DEF QueryInv, Running
    <2>3. CASE /\ Len(offsetLog[t]) = batchId[a][t]
               /\ offsetLog' = [offsetLog EXCEPT ![t] = Append(@, Latest(a, t))]
               /\ Goto(a, t, "write")
      <3>1. /\ Len(offsetLog'[t]) = Len(offsetLog[t]) + 1
            /\ \A u \in Topic \ {t} : offsetLog'[u] = offsetLog[u]
        BY <2>3 DEF TypeOK
      <3>2. \A u \in Topic : Len(offsetLog[u]) \in Nat
        BY DEF TypeOK
      <3>3. batchId \in [Apps -> [Topic -> Nat]]
        BY DEF TypeOK
      <3>4. Running(a, t)
        BY <1>8 DEF Plan, Running
      <3>5. /\ status'[a][t] = "write"
            /\ \A b \in Apps, u \in Topic : b # a \/ u # t => status'[b][u] = status[b][u]
        BY <2>3, GotoElsewhere
      <3>6. \A u \in Topic : Len(offsetLog[u]) <= Len(offsetLog'[u])
        BY <3>1, <3>2
      <3>7. batchId[a][t] < Len(offsetLog'[t]) /\ batchId[a][t] <= commits[t]
        BY <2>3, <3>1, <3>3, <3>4 DEF QueryInv
      <3>8. ASSUME NEW b \in Apps, NEW u \in Topic
            PROVE  /\ Running(b, u)' => batchId[b][u] <= commits[u]
                   /\ status'[b][u] \in {"write", "commit"} => batchId[b][u] < Len(offsetLog'[u])
        <4>1. CASE b = a /\ u = t
          BY <4>1, <3>7
        <4>2. CASE b # a \/ u # t
          <5>1. status'[b][u] = status[b][u]
            BY <4>2, <3>5
          <5>2. Len(offsetLog[u]) \in Nat /\ Len(offsetLog'[u]) \in Nat /\ batchId[b][u] \in Nat
            BY <3>1, <3>2, <3>3
          <5> QED BY <2>1, <5>1, <5>2, <3>6 DEF QueryInv, Running
        <4> QED BY <4>1, <4>2
      <3> QED BY <2>1, <3>8 DEF QueryInv, Running
    <2> QED BY <1>8, <2>2, <2>3 DEF Plan
  <1>9. ASSUME NEW a \in Apps, NEW t \in Topic, Write(a, t) PROVE QueryInv'
    <2>1. PICK s \in {"commit", "dead"} : Goto(a, t, s)
      BY <1>9 DEF Write, Sink
    <2>2. /\ status'[a][t] = s
          /\ \A b \in Apps, u \in Topic : b # a \/ u # t => status'[b][u] = status[b][u]
      BY <2>1, GotoElsewhere
    <2>3. UNCHANGED <<produced, batchId, target, commits, offsetLog>> /\ status[a][t] = "write"
      BY <1>9 DEF Write
    <2> QED BY <2>2, <2>3 DEF QueryInv, Running
  <1>10. ASSUME NEW a \in Apps, NEW t \in Topic, Commit(a, t) PROVE QueryInv'
    <2>1. UNCHANGED <<produced, target, offsetLog>>
      BY <1>10 DEF Commit
    <2>2. CASE Goto(a, t, "dead") /\ UNCHANGED <<commits, batchId>>
      <3>1. /\ status'[a][t] = "dead"
            /\ \A b \in Apps, u \in Topic : b # a \/ u # t => status'[b][u] = status[b][u]
        BY <2>2, GotoElsewhere
      <3> QED BY <2>1, <2>2, <3>1 DEF QueryInv, Running
    <2>3. CASE /\ commits[t] = batchId[a][t]
               /\ commits' = [commits EXCEPT ![t] = @ + 1]
               /\ batchId' = [batchId EXCEPT ![a][t] = @ + 1]
               /\ Goto(a, t, "idle")
      <3>1. /\ commits'[t] = commits[t] + 1 /\ commits[t] \in Nat
            /\ \A u \in Topic \ {t} : commits'[u] = commits[u]
        BY <2>3 DEF TypeOK
      <3>2. /\ batchId'[a][t] = batchId[a][t] + 1
            /\ \A b \in Apps, u \in Topic : batchId[b][u] \in Nat
            /\ \A b \in Apps, u \in Topic : b # a \/ u # t => batchId'[b][u] = batchId[b][u]
        BY <2>3 DEF TypeOK
      <3>3. /\ status'[a][t] = "idle"
            /\ \A b \in Apps, u \in Topic : b # a \/ u # t => status'[b][u] = status[b][u]
        BY <2>3, GotoElsewhere
      <3> QED BY <2>1, <2>3, <3>1, <3>2, <3>3 DEF QueryInv, Running
    <2> QED BY <1>10, <2>2, <2>3 DEF Commit
  <1> QED BY <1>1, <1>2, <1>3, <1>4, <1>5, <1>6, <1>7, <1>8, <1>9, <1>10
          DEF Next, Query, Exit, Kill

-----------------------------------------------------------------------------
(* The offset log *)

\* A batch that is planned goes behind all the others.
LEMMA PlanEffect ==
    ASSUME TypeOK, QueryInv, NEW a \in Apps, NEW t \in Topic, Plan(a, t), ~UNCHANGED offsetLog,
           NEW n, n = Len(offsetLog[t])
    PROVE  /\ n \in Nat
           /\ Len(offsetLog'[t]) = n + 1
           /\ \A i \in 1 .. n : offsetLog'[t][i] = offsetLog[t][i]
           /\ offsetLog'[t][n + 1] = Latest(a, t)
           /\ Latest(a, t) \in Nat
           /\ n > 0 => offsetLog[t][n] < Latest(a, t)
           /\ \A u \in Topic \ {t} : offsetLog'[u] = offsetLog[u]
           /\ status[a][t] = "idle"
  <1>1. /\ n = batchId[a][t]
        /\ Latest(a, t) > StartOf(t, batchId[a][t])
        /\ offsetLog' = [offsetLog EXCEPT ![t] = Append(@, Latest(a, t))]
        /\ status[a][t] = "idle"
    BY DEF Plan
  <1>2. Latest(a, t) \in Nat
    BY DEF Latest, TypeOK
  <1>3. offsetLog[t] \in Seq(Nat) /\ offsetLog \in [Topic -> Seq(Nat)] /\ n \in Nat
    BY DEF TypeOK
  <1>4. /\ offsetLog'[t] = Append(offsetLog[t], Latest(a, t))
        /\ \A u \in Topic \ {t} : offsetLog'[u] = offsetLog[u]
    BY <1>1, <1>3
  <1>5. n > 0 => offsetLog[t][n] < Latest(a, t)
    BY <1>1 DEF StartOf
  <1>6. /\ Len(Append(offsetLog[t], Latest(a, t))) = n + 1
        /\ Append(offsetLog[t], Latest(a, t))[n + 1] = Latest(a, t)
        /\ \A i \in 1 .. n : Append(offsetLog[t], Latest(a, t))[i] = offsetLog[t][i]
    BY <1>2, <1>3
  <1> QED BY <1>1, <1>2, <1>3, <1>4, <1>5, <1>6

\* A rollback shortens one topic's log, while nothing runs.
LEMMA RollbackEffect ==
    ASSUME TypeOK, NEW t \in Topic, Rollback(t)
    PROVE  /\ \E n \in Nat : /\ n <= Len(offsetLog[t]) /\ Len(offsetLog'[t]) = n
                            /\ \A i \in 1 .. n : offsetLog'[t][i] = offsetLog[t][i]
           /\ \A u \in Topic \ {t} : offsetLog'[u] = offsetLog[u]
           /\ \A a \in Apps, u \in Topic : ~Running(a, u)
  <1> PICK n \in 0 .. (commits[t] - 1) : offsetLog' = [offsetLog EXCEPT ![t] = SubSeq(@, 1, n)]
    BY DEF Rollback
  <1>1. commits[t] \in Nat /\ n \in Nat /\ n <= Len(offsetLog[t])
    BY DEF TypeOK
  <1>2. offsetLog[t] \in Seq(Nat) /\ offsetLog \in [Topic -> Seq(Nat)]
    BY DEF TypeOK
  <1>3. /\ Len(SubSeq(offsetLog[t], 1, n)) = n
        /\ \A i \in 1 .. n : SubSeq(offsetLog[t], 1, n)[i] = offsetLog[t][i]
    BY <1>1, <1>2, PrefixOfSeq
  <1>4. /\ offsetLog'[t] = SubSeq(offsetLog[t], 1, n)
        /\ \A u \in Topic \ {t} : offsetLog'[u] = offsetLog[u]
    BY <1>2
  <1>5. \A a \in Apps, u \in Topic : ~Running(a, u)
    BY DEF Rollback, Down, Running
  <1> QED BY <1>1, <1>3, <1>4, <1>5

\* No other step touches the offset log.
LEMMA OffsetLogKept ==
    ASSUME [Next]_vars,
           \A a \in Apps, t \in Topic : ~Plan(a, t),
           \A t \in Topic : ~Rollback(t)
    PROVE  UNCHANGED offsetLog
  <1>1. ASSUME NEW t \in Topic, Produce(t) \/ Expire(t) PROVE UNCHANGED offsetLog
    BY <1>1 DEF Produce, Expire, storeVars
  <1>2. CASE Register
    BY <1>2 DEF Register, storeVars
  <1>3. ASSUME NEW a \in Apps, Start(a) PROVE UNCHANGED offsetLog
    BY <1>3 DEF Start, storeVars
  <1>4. ASSUME NEW a \in Apps, Exit(a) \/ Kill(a) PROVE UNCHANGED offsetLog
    BY <1>4 DEF Exit, Kill, StopAll, storeVars
  <1>5. ASSUME NEW a \in Apps, NEW t \in Topic, ResolveReader(a, t) \/ Launch(a, t)
        PROVE  UNCHANGED offsetLog
    BY <1>5 DEF ResolveReader, Launch, storeVars
  <1>6. ASSUME NEW a \in Apps, NEW t \in Topic, Finish(a, t) \/ Fail(a, t)
        PROVE  UNCHANGED offsetLog
    BY <1>6 DEF Finish, Fail, storeVars
  <1>7. ASSUME NEW a \in Apps, NEW t \in Topic, Write(a, t) \/ Commit(a, t)
        PROVE  UNCHANGED offsetLog
    BY <1>7 DEF Write, Commit
  <1>8. CASE UNCHANGED vars
    BY <1>8 DEF vars, storeVars
  <1> QED BY <1>1, <1>2, <1>3, <1>4, <1>5, <1>6, <1>7, <1>8, Zenon DEF Next, Query

LEMMA NextIncreasing ==
    ASSUME TypeOK, QueryInv, Increasing, [Next]_vars
    PROVE  Increasing'
  <1>1. CASE UNCHANGED offsetLog
    BY <1>1 DEF Increasing
  <1>2. ASSUME NEW a \in Apps, NEW t \in Topic, Plan(a, t), ~UNCHANGED offsetLog
        PROVE  Increasing'
    <2> PICK n : n = Len(offsetLog[t])
      OBVIOUS
    <2>1. /\ n \in Nat /\ Len(offsetLog'[t]) = n + 1
          /\ \A i \in 1 .. n : offsetLog'[t][i] = offsetLog[t][i]
          /\ offsetLog'[t][n + 1] = Latest(a, t) /\ Latest(a, t) \in Nat
          /\ n > 0 => offsetLog[t][n] < Latest(a, t)
          /\ \A u \in Topic \ {t} : offsetLog'[u] = offsetLog[u]
      BY <1>2, PlanEffect
    <2>2. \A i \in 1 .. n : offsetLog[t][i] \in Nat
      BY OffsetIsNat
    <2>3. ASSUME NEW i \in 1 .. (n + 1), NEW j \in 1 .. (n + 1), i < j
          PROVE  offsetLog'[t][i] < offsetLog'[t][j]
      <3>1. i \in 1 .. n /\ n > 0
        BY <2>1, <2>3
      <3>2. CASE j = n + 1
        <4>1. i = n \/ offsetLog[t][i] < offsetLog[t][n]
          BY <2>1, <3>1 DEF Increasing
        <4>2. offsetLog[t][i] \in Nat /\ offsetLog[t][n] \in Nat
          BY <2>1, <2>2, <3>1
        <4> QED BY <2>1, <3>1, <3>2, <4>1, <4>2
      <3>3. CASE j # n + 1
        <4>1. j \in 1 .. n
          BY <2>1, <2>3, <3>3
        <4> QED BY <2>1, <2>3, <3>1, <4>1 DEF Increasing
      <3> QED BY <3>2, <3>3
    <2>4. ASSUME NEW u \in Topic, NEW i \in 1 .. Len(offsetLog'[u]),
                 NEW j \in 1 .. Len(offsetLog'[u]), i < j
          PROVE  offsetLog'[u][i] < offsetLog'[u][j]
      <3>1. CASE u = t
        BY <2>1, <2>3, <2>4, <3>1
      <3>2. CASE u # t
        BY <2>1, <2>4, <3>2 DEF Increasing
      <3> QED BY <3>1, <3>2
    <2> QED BY <2>4 DEF Increasing
  <1>3. ASSUME NEW t \in Topic, Rollback(t) PROVE Increasing'
    <2> PICK n \in Nat : /\ n <= Len(offsetLog[t]) /\ Len(offsetLog'[t]) = n
                         /\ \A i \in 1 .. n : offsetLog'[t][i] = offsetLog[t][i]
                         /\ \A u \in Topic \ {t} : offsetLog'[u] = offsetLog[u]
      BY <1>3, RollbackEffect
    <2>1. Len(offsetLog[t]) \in Nat
      BY DEF TypeOK
    <2>2. ASSUME NEW u \in Topic, NEW i \in 1 .. Len(offsetLog'[u]),
                 NEW j \in 1 .. Len(offsetLog'[u]), i < j
          PROVE  offsetLog'[u][i] < offsetLog'[u][j]
      <3>1. CASE u = t
        <4>1. i \in 1 .. n /\ j \in 1 .. n
          BY <2>2, <3>1
        <4>2. i \in 1 .. Len(offsetLog[t]) /\ j \in 1 .. Len(offsetLog[t])
          BY <2>1, <4>1
        <4>3. offsetLog[t][i] < offsetLog[t][j]
          BY <2>2, <4>2 DEF Increasing
        <4>4. offsetLog'[t][i] = offsetLog[t][i] /\ offsetLog'[t][j] = offsetLog[t][j]
          BY <4>1
        <4> QED BY <3>1, <4>3, <4>4
      <3>2. CASE u # t
        <4>1. offsetLog'[u] = offsetLog[u]
          BY <3>2
        <4>2. i \in 1 .. Len(offsetLog[u]) /\ j \in 1 .. Len(offsetLog[u])
          BY <2>2, <4>1
        <4> QED BY <2>2, <4>1, <4>2 DEF Increasing
      <3> QED BY <3>1, <3>2
    <2> QED BY <2>2 DEF Increasing
  <1> QED BY <1>1, <1>2, <1>3, OffsetLogKept

-----------------------------------------------------------------------------
(* Rows and the batches to come *)

LEMMA InitRows == Init => Increasing /\ RowsBehind /\ NoDuplicateRow
  BY DEF Init, Increasing, RowsBehind, NoDuplicateRow

\* A step that leaves the logs and the table alone, and starts no query behind what
\* was produced, keeps every row where it is.
LEMMA RowsKept ==
    ASSUME TypeOK, RowsBehind, UNCHANGED <<offsetLog, txnVersion, data>>,
           \A t \in Topic : produced'[t] \in Nat /\ produced[t] <= produced'[t],
           \A a \in Apps, t \in Topic : Running(a, t)' =>
               \/ Running(a, t) /\ target'[a][t] = target[a][t]
               \/ target'[a][t] = produced[t]
    PROVE  RowsBehind'
  <1>1. ASSUME NEW t \in Topic, NEW row \in data[t]
        PROVE  RowBehind(t, row)'
    <2>1. RowBehind(t, row)
      BY DEF RowsBehind
    <2>2. row.offset \in Nat /\ produced[t] \in Nat
      BY DEF TypeOK, Row
    <2>3. row.offset < produced'[t]
      BY <2>1, <2>2 DEF RowBehind
    <2>4. ASSUME \A a \in Apps \ Continuous : Running(a, t) => row.offset < target[a][t],
                 NEW a \in Apps \ Continuous, Running(a, t)'
          PROVE  row.offset < target'[a][t]
      BY <2>1, <2>4 DEF RowBehind
    <2> QED BY <2>1, <2>3, <2>4 DEF RowBehind
  <1> QED BY <1>1 DEF RowsBehind

LEMMA PlanRows ==
    ASSUME TypeOK, QueryInv, Increasing, RowsBehind, NEW a \in Apps, NEW t \in Topic, Plan(a, t),
           ~UNCHANGED offsetLog
    PROVE  RowsBehind'
  <1> PICK n : n = Len(offsetLog[t])
    OBVIOUS
  <1>1. /\ n \in Nat /\ Len(offsetLog'[t]) = n + 1
        /\ \A i \in 1 .. n : offsetLog'[t][i] = offsetLog[t][i]
        /\ offsetLog'[t][n + 1] = Latest(a, t) /\ Latest(a, t) \in Nat
        /\ n > 0 => offsetLog[t][n] < Latest(a, t)
        /\ \A u \in Topic \ {t} : offsetLog'[u] = offsetLog[u]
        /\ status[a][t] = "idle"
    BY PlanEffect
  <1>2. UNCHANGED <<produced, target, txnVersion, data>>
    BY DEF Plan
  <1>3. ASSUME NEW row \in data[t]
        PROVE  row.offset < Latest(a, t)
    <2>1. RowBehind(t, row)
      BY DEF RowsBehind
    <2>2. row.offset \in Nat
      BY DEF TypeOK, Row
    <2>3. CASE n > 0 /\ row.offset < offsetLog[t][n]
      <3>1. n \in 1 .. Len(offsetLog[t])
        BY <1>1, <2>3
      <3>2. offsetLog[t][n] \in Nat
        BY <3>1, OffsetIsNat
      <3> QED BY <1>1, <2>2, <2>3, <3>2
    <2>4. CASE \A b \in Apps \ Continuous : Running(b, t) => row.offset < target[b][t]
      <3>1. Running(a, t)
        BY <1>1 DEF Running
      <3> QED BY <2>1, <2>4, <3>1 DEF Latest, RowBehind
    <2> QED BY <2>1, <2>3, <2>4 DEF RowBehind
  <1>4. ASSUME NEW u \in Topic, NEW row \in data[u]
        PROVE  RowBehind(u, row)'
    <2>1. RowBehind(u, row)
      BY DEF RowsBehind
    <2>2. CASE u = t
      <3>1. \A j \in 1 .. (n + 1) : j > txnVersion[t] => row.offset < offsetLog'[t][j]
        <4>1. ASSUME NEW j \in 1 .. (n + 1), j > txnVersion[t], j # n + 1
              PROVE  row.offset < offsetLog'[t][j]
          <5>1. j \in 1 .. n
            BY <1>1, <4>1
          <5> QED BY <1>1, <2>1, <2>2, <4>1, <5>1 DEF RowBehind
        <4> QED BY <1>1, <1>3, <2>2, <4>1
      <3>2. Len(offsetLog'[t]) > 0 /\ row.offset < offsetLog'[t][Len(offsetLog'[t])]
        BY <1>1, <1>3, <2>2
      <3> QED BY <1>1, <1>2, <2>1, <2>2, <3>1, <3>2 DEF RowBehind
    <2>3. CASE u # t
      <3>1. offsetLog'[u] = offsetLog[u]
        BY <1>1, <2>3
      <3>2. \A b \in Apps : Running(b, u)' => Running(b, u)
        <4>1. \E s \in Status : Goto(a, t, s)
          BY DEF Plan, Status
        <4> QED BY <2>3, <4>1, GotoElsewhere DEF Running
      <3> QED BY <1>2, <2>1, <3>1, <3>2 DEF RowBehind
    <2> QED BY <2>2, <2>3
  <1> QED BY <1>2, <1>4 DEF RowsBehind

LEMMA RollbackRows ==
    ASSUME TypeOK, RowsBehind, NEW t \in Topic, Rollback(t)
    PROVE  RowsBehind'
  <1> PICK n \in Nat : /\ n <= Len(offsetLog[t]) /\ Len(offsetLog'[t]) = n
                      /\ \A i \in 1 .. n : offsetLog'[t][i] = offsetLog[t][i]
    BY RollbackEffect
  <1>1. /\ \A u \in Topic \ {t} : offsetLog'[u] = offsetLog[u]
        /\ \A a \in Apps, u \in Topic : ~Running(a, u)
    BY RollbackEffect
  <1>2. UNCHANGED <<status, produced, target, txnVersion, data>>
    BY DEF Rollback, queryVars
  <1>3. ASSUME NEW u \in Topic, NEW row \in data[u]
        PROVE  RowBehind(u, row)'
    <2>1. RowBehind(u, row)
      BY DEF RowsBehind
    <2>2. \A a \in Apps : ~Running(a, u)'
      BY <1>1, <1>2 DEF Running
    <2>3. \A j \in 1 .. Len(offsetLog'[u]) : j > txnVersion[u] => row.offset < offsetLog'[u][j]
      <3>1. CASE u = t
        <4>1. Len(offsetLog[t]) \in Nat
          BY DEF TypeOK
        <4>2. \A j \in 1 .. n : j \in 1 .. Len(offsetLog[t])
          BY <4>1
        <4> QED BY <2>1, <3>1, <4>2 DEF RowBehind
      <3>2. CASE u # t
        BY <1>1, <2>1, <3>2 DEF RowBehind
      <3> QED BY <3>1, <3>2
    <2> QED BY <1>2, <2>1, <2>2, <2>3 DEF RowBehind
  <1> QED BY <1>2, <1>3 DEF RowsBehind

\* A row before the batch that is appended is not one of its own.
LEMMA WriteRows ==
    ASSUME TypeOK, QueryInv, Increasing, RowsBehind, NoDuplicateRow,
           NEW a \in Apps, NEW t \in Topic, Write(a, t)
    PROVE  RowsBehind' /\ NoDuplicateRow'
  <1> PICK id \in Nat : id = batchId[a][t]
    BY DEF TypeOK
  <1> PICK rows \in SUBSET Row : SinkEffect(a, t, id, rows)
    BY WriteEffect
  <1>1. /\ UNCHANGED <<produced, target, offsetLog>>
        /\ id < Len(offsetLog[t]) /\ Len(offsetLog[t]) \in Nat
    <2>1. UNCHANGED <<produced, target, offsetLog>> /\ status[a][t] = "write"
      BY DEF Write
    <2>2. id < Len(offsetLog[t])
      BY <2>1 DEF QueryInv
    <2>3. Len(offsetLog[t]) \in Nat
      BY DEF TypeOK
    <2> QED BY <2>1, <2>2, <2>3
  <1>2. /\ StartOf(t, id) \in Nat
        /\ offsetLog[t][id + 1] \in 1 .. produced[t] /\ produced[t] \in Nat
        /\ Range(t, id) \subseteq Nat
    BY <1>1, RangeIsNat DEF TypeOK
  <1>3. \A b \in Apps, u \in Topic : Running(b, u)' => Running(b, u)
    <2>1. \E s : Goto(a, t, s)
      BY DEF SinkEffect
    <2>2. Running(a, t)
      BY DEF Write, Running
    <2> QED BY <2>1, <2>2, GotoElsewhere DEF Running
  <1>4. CASE UNCHANGED <<txnVersion, data>>
    <2>1. RowsBehind'
      <3>1. \A u \in Topic : produced'[u] \in Nat /\ produced[u] <= produced'[u]
        BY <1>1 DEF TypeOK
      <3> QED BY <1>1, <1>3, <1>4, <3>1, RowsKept
    <2> QED BY <1>4, <2>1 DEF NoDuplicateRow
  <1>5. CASE /\ Unseen(t, id)
             /\ data' = [data EXCEPT ![t] = @ \cup rows]
             /\ txnVersion' = [txnVersion EXCEPT ![t] = id]
    <2>1. /\ data'[t] = data[t] \cup rows /\ txnVersion'[t] = id
          /\ \A u \in Topic \ {t} : data'[u] = data[u] /\ txnVersion'[u] = txnVersion[u]
      BY <1>5 DEF TypeOK
    <2>2. id > txnVersion[t] /\ txnVersion[t] \in Int
      BY <1>5 DEF Unseen, TypeOK
    <2>3. ASSUME NEW row \in data[t]
          PROVE  /\ row.batch < id
                 /\ row.offset < StartOf(t, id)
      <3>1. RowBehind(t, row)
        BY DEF RowsBehind
      <3>2. row.batch \in Nat /\ row.offset \in Nat
        BY DEF TypeOK, Row
      <3>3. row.batch < id /\ id # 0
        BY <2>2, <3>1, <3>2 DEF RowBehind
      <3>4. id \in 1 .. Len(offsetLog[t])
        BY <1>1, <3>3
      <3>5. row.offset < offsetLog[t][id]
        BY <2>2, <3>1, <3>4 DEF RowBehind
      <3> QED BY <3>3, <3>5 DEF StartOf
    <2>4. ASSUME NEW row \in rows
          PROVE  /\ row.batch = id /\ row.offset \in Nat
                 /\ StartOf(t, id) <= row.offset
                 /\ row.offset < offsetLog[t][id + 1]
      BY <1>2 DEF SinkEffect, Range
    <2>5. \A row \in rows : RowBehind(t, row)'
      <3>1. ASSUME NEW row \in rows, NEW j \in 1 .. Len(offsetLog[t]), j > id
            PROVE  row.offset < offsetLog[t][j]
        <4>1. offsetLog[t][id + 1] <= offsetLog[t][j] /\ offsetLog[t][j] \in Nat
          <5>1. id + 1 \in 1 .. Len(offsetLog[t]) /\ (j = id + 1 \/ id + 1 < j)
            BY <1>1, <3>1
          <5>2. offsetLog[t][j] \in Nat
            BY OffsetIsNat
          <5> QED BY <1>2, <5>1, <5>2 DEF Increasing
        <4> QED BY <1>2, <2>4, <4>1
      <3>2. ASSUME NEW row \in rows
            PROVE  /\ Len(offsetLog[t]) > 0
                   /\ row.offset < offsetLog[t][Len(offsetLog[t])]
                   /\ row.offset < produced[t]
        <4>1. Len(offsetLog[t]) \in 1 .. Len(offsetLog[t]) /\ Len(offsetLog[t]) > id
          BY <1>1
        <4>2. row.offset < offsetLog[t][Len(offsetLog[t])]
          BY <3>1, <4>1
        <4>3. row.offset < produced[t]
          <5>1. row.offset \in Nat /\ row.offset < offsetLog[t][id + 1]
            BY <2>4
          <5> QED BY <5>1, <1>2
        <4> QED BY <1>1, <4>1, <4>2, <4>3
      <3> QED BY <1>1, <2>1, <2>4, <3>1, <3>2 DEF RowBehind
    <2>6. ASSUME NEW u \in Topic, NEW row \in data[u]
          PROVE  RowBehind(u, row)'
      <3>1. RowBehind(u, row)
        BY DEF RowsBehind
      <3>2. txnVersion'[u] \in Int /\ txnVersion[u] \in Int /\ txnVersion[u] <= txnVersion'[u]
        <4>1. txnVersion[u] \in Int
          BY DEF TypeOK
        <4>2. u = t \/ txnVersion'[u] = txnVersion[u]
          BY <2>1
        <4> QED BY <2>1, <2>2, <4>1, <4>2
      <3>3. row.batch \in Nat
        BY DEF TypeOK, Row
      <3>4. row.batch <= txnVersion'[u]
        BY <3>1, <3>2, <3>3 DEF RowBehind
      <3>5. \A j \in 1 .. Len(offsetLog[u]) : j > txnVersion'[u] => row.offset < offsetLog[u][j]
        BY <3>1, <3>2 DEF RowBehind
      <3> QED BY <1>1, <1>3, <3>1, <3>4, <3>5 DEF RowBehind
    <2>7. RowsBehind'
      BY <2>1, <2>5, <2>6 DEF RowsBehind
    <2>8. ASSUME NEW u \in Topic, NEW r \in data'[u], NEW s \in data'[u], r.offset = s.offset
          PROVE  r = s
      <3>1. CASE r \in data[u] /\ s \in data[u]
        BY <2>8, <3>1 DEF NoDuplicateRow
      <3>2. CASE u = t /\ r \in rows /\ s \in rows
        BY <2>8, <3>2 DEF SinkEffect
      <3>3. ASSUME NEW old \in data[t], NEW new \in rows, old.offset = new.offset
            PROVE  FALSE
        <4>1. old.offset \in Nat
          BY DEF TypeOK, Row
        <4> QED BY <1>2, <2>3, <2>4, <3>3, <4>1
      <3> QED BY <2>1, <2>8, <3>1, <3>2, <3>3
    <2> QED BY <2>7, <2>8 DEF NoDuplicateRow
  <1> QED BY <1>4, <1>5 DEF SinkEffect
LEMMA NextRows ==
    ASSUME TypeOK, QueryInv, Increasing, RowsBehind, NoDuplicateRow, [Next]_vars
    PROVE  RowsBehind' /\ NoDuplicateRow'
  <1>1. ASSUME UNCHANGED <<offsetLog, txnVersion, data>>,
               UNCHANGED <<target, produced>>,
               \A a \in Apps, t \in Topic : Running(a, t)' => Running(a, t)
        PROVE  RowsBehind' /\ NoDuplicateRow'
    <2>1. \A t \in Topic : produced'[t] \in Nat /\ produced[t] <= produced'[t]
      BY <1>1 DEF TypeOK
    <2> QED BY <1>1, <2>1, RowsKept DEF NoDuplicateRow
  <1>2. CASE UNCHANGED vars \/ Register \/ \E t \in Topic : Expire(t)
    BY <1>1, <1>2 DEF vars, queryVars, storeVars, Register, Expire, Running
  <1>3. ASSUME NEW t \in Topic, Produce(t) PROVE RowsBehind' /\ NoDuplicateRow'
    <2>1. UNCHANGED <<offsetLog, txnVersion, data, target, status>>
      BY <1>3 DEF Produce, storeVars, queryVars
    <2>2. \A u \in Topic : produced'[u] \in Nat /\ produced[u] <= produced'[u]
      BY <1>3 DEF Produce, TypeOK
    <2> QED BY <2>1, <2>2, RowsKept DEF NoDuplicateRow, Running
  <1>4. ASSUME NEW a \in Apps, Start(a) PROVE RowsBehind' /\ NoDuplicateRow'
    <2>1. /\ UNCHANGED <<offsetLog, txnVersion, data, target, produced>>
          /\ \A b \in Apps, t \in Topic : Running(b, t)' => Running(b, t)
      BY <1>4 DEF Start, storeVars, TypeOK, Running
    <2> QED BY <1>1, <2>1
  <1>5. ASSUME NEW a \in Apps, StopAll(a) PROVE RowsBehind' /\ NoDuplicateRow'
    <2>1. /\ UNCHANGED <<offsetLog, txnVersion, data, produced>>
          /\ \A t \in Topic : ~Running(a, t)'
          /\ \A b \in Apps \ {a} : status'[b] = status[b] /\ target'[b] = target[b]
      BY <1>5 DEF StopAll, storeVars, TypeOK, Running
    <2>2. \A t \in Topic : produced'[t] \in Nat /\ produced[t] <= produced'[t]
      BY <2>1 DEF TypeOK
    <2>3. \A b \in Apps, t \in Topic :
             Running(b, t)' => Running(b, t) /\ target'[b][t] = target[b][t]
      BY <2>1 DEF Running
    <2> QED BY <2>1, <2>2, <2>3, RowsKept DEF NoDuplicateRow
  <1>6. ASSUME NEW a \in Apps, NEW t \in Topic, NEW s \in Status, Goto(a, t, s),
               s \notin {"idle", "write", "commit"} \/ Running(a, t),
               UNCHANGED <<offsetLog, txnVersion, data, target, produced>>
        PROVE  RowsBehind' /\ NoDuplicateRow'
    <2>1. \A b \in Apps, u \in Topic : Running(b, u)' => Running(b, u)
      BY <1>6, GotoElsewhere DEF Running
    <2> QED BY <1>1, <1>6, <2>1
  <1>7. ASSUME NEW a \in Apps, NEW t \in Topic,
               ResolveReader(a, t) \/ Finish(a, t) \/ Fail(a, t)
        PROVE  RowsBehind' /\ NoDuplicateRow'
    <2>1. PICK s \in {"list", "done", "dead"} : Goto(a, t, s)
      BY <1>7 DEF ResolveReader, Finish, Fail, Goto
    <2>2. UNCHANGED <<offsetLog, txnVersion, data, target, produced>>
      BY <1>7 DEF ResolveReader, Finish, Fail, storeVars
    <2> QED BY <1>6, <2>1, <2>2 DEF Status
  <1>8. ASSUME NEW a \in Apps, NEW t \in Topic, Commit(a, t)
        PROVE  RowsBehind' /\ NoDuplicateRow'
    <2>1. PICK s \in {"idle", "dead"} : Goto(a, t, s)
      BY <1>8 DEF Commit
    <2>2. UNCHANGED <<offsetLog, txnVersion, data, target, produced>> /\ Running(a, t)
      BY <1>8 DEF Commit, Running
    <2> QED BY <1>6, <2>1, <2>2 DEF Status
  <1>9. ASSUME NEW a \in Apps, NEW t \in Topic, Launch(a, t)
        PROVE  RowsBehind' /\ NoDuplicateRow'
    <2>1. UNCHANGED <<offsetLog, txnVersion, data, produced>>
      BY <1>9 DEF Launch, storeVars
    <2>2. \A b \in Apps, u \in Topic : b # a \/ u # t =>
             status'[b][u] = status[b][u] /\ target'[b][u] = target[b][u]
      BY <1>9 DEF Launch, TypeOK
    <2>3. target'[a][t] = produced[t]
      BY <1>9 DEF Launch, TypeOK
    <2>4. \A b \in Apps, u \in Topic : Running(b, u)' =>
             \/ Running(b, u) /\ target'[b][u] = target[b][u]
             \/ target'[b][u] = produced[u]
      BY <2>2, <2>3 DEF Running
    <2>5. \A u \in Topic : produced'[u] \in Nat /\ produced[u] <= produced'[u]
      BY <2>1 DEF TypeOK
    <2> QED BY <2>1, <2>4, <2>5, RowsKept DEF NoDuplicateRow
  <1>10. ASSUME NEW a \in Apps, NEW t \in Topic, Plan(a, t)
         PROVE  RowsBehind' /\ NoDuplicateRow'
    <2>1. CASE UNCHANGED offsetLog
      <3>1. UNCHANGED <<txnVersion, data, target, produced>> /\ Running(a, t)
        BY <1>10 DEF Plan, Running
      <3>2. PICK s \in Status : Goto(a, t, s)
        BY <1>10 DEF Plan, Status
      <3> QED BY <1>6, <2>1, <3>1, <3>2
    <2>2. CASE ~UNCHANGED offsetLog
      <3>1. UNCHANGED data
        BY <1>10 DEF Plan
      <3> QED BY <1>10, <2>2, <3>1, PlanRows DEF NoDuplicateRow
    <2> QED BY <2>1, <2>2
  <1>11. ASSUME NEW t \in Topic, Rollback(t) PROVE RowsBehind' /\ NoDuplicateRow'
    <2>1. UNCHANGED data
      BY <1>11 DEF Rollback
    <2> QED BY <1>11, <2>1, RollbackRows DEF NoDuplicateRow
  <1> QED BY <1>2, <1>3, <1>4, <1>5, <1>7, <1>8, <1>9, <1>10, <1>11, WriteRows
          DEF Next, Query, Exit, Kill

\* The variables keep their types, in every application and for every history of
\* failures, restarts and rollbacks (bronze_streaming.py 171-310).
THEOREM TypeCorrect == Spec => []TypeOK
  <1>1. Init => TypeOK /\ QueryInv
    BY InitTypeOK, InitQueryInv
  <1>2. TypeOK /\ QueryInv /\ [Next]_vars => (TypeOK /\ QueryInv)'
    BY NextTypeOK, NextQueryInv
  <1> QED BY <1>1, <1>2, PTL DEF Spec

\* txnAppId and txnVersion "make retries of the same micro-batch a no-op"
\* (bronze_streaming.py 282-284): no crash, no second application and no rolled-back
\* checkpoint ever puts a Kafka record into Bronze twice.
THEOREM NeverTwice == Spec => []NoDuplicateRow
  <1> DEFINE Inv == IInv /\ NoDuplicateRow
  <1>1. Init => Inv
    BY InitTypeOK, InitQueryInv, InitRows DEF IInv
  <1>2. Inv /\ [Next]_vars => Inv'
    BY NextTypeOK, NextQueryInv, NextIncreasing, NextRows DEF IInv
  <1>3. Inv => NoDuplicateRow
    OBVIOUS
  <1> QED BY <1>1, <1>2, <1>3, PTL DEF Spec

-----------------------------------------------------------------------------
(* What is committed is complete *)

LEMMA CompleteKept ==
    ASSUME CompleteInv,
           UNCHANGED <<log, earliest, offsetLog, txnVersion, data, commits, rollbacks>>,
           \A a \in Apps, t \in Topic : status'[a][t] = "commit" =>
               status[a][t] = "commit" /\ batchId'[a][t] = batchId[a][t]
    PROVE  CompleteInv'
  BY DEF CompleteInv, Complete, Owed, Range, StartOf, Ingested, Committed

\* A record that is deleted owes nothing any more, and no other comes to owe a row.
LEMMA ExpireOwed ==
    ASSUME TypeOK, NEW t \in Topic, Expire(t), NEW u \in Topic, NEW o \in Int, Owed(u, o)'
    PROVE  Owed(u, o)
  <1>1. earliest[u] \in Nat /\ earliest'[u] \in {earliest[u], earliest[u] + 1} /\ log' = log
    BY DEF Expire, TypeOK
  <1> QED BY <1>1 DEF Owed

LEMMA ExpireComplete ==
    ASSUME TypeOK, CompleteInv, NEW t \in Topic, Expire(t)
    PROVE  CompleteInv'
  <1>1. UNCHANGED <<log, queryVars, storeVars, bounds>>
    BY DEF Expire
  <1>2. ASSUME NEW u \in Topic, NEW S, S \subseteq Int, \A o \in S : Owed(u, o) => Ingested(u, o)
        PROVE  \A o \in S : Owed(u, o)' => Ingested(u, o)'
    BY <1>1, <1>2, ExpireOwed DEF Ingested, storeVars
  <1>3. ASSUME NEW u \in Topic
        PROVE  Committed(u)' = Committed(u) /\ Committed(u) \subseteq Int
    BY <1>1 DEF Committed, StartOf, storeVars
  <1>4. ASSUME NEW u \in Topic, NEW id \in Int, Complete(u, id)
        PROVE  Complete(u, id)'
    <2>1. Range(u, id)' = Range(u, id) /\ Range(u, id) \subseteq Int
      BY <1>1 DEF Range, StartOf, storeVars
    <2> QED BY <1>2, <1>4, <2>1 DEF Complete
  <1>5. /\ txnVersion' = txnVersion /\ status' = status /\ batchId' = batchId
        /\ commits' = commits /\ offsetLog' = offsetLog /\ rollbacks' = rollbacks
    BY <1>1 DEF queryVars, storeVars, bounds
  <1>6. ASSUME NEW u \in Topic, txnVersion[u] >= 0, Complete(u, txnVersion[u])
        PROVE  Complete(u, txnVersion[u])'
    <2>0. txnVersion[u] \in Int
      <3>1. txnVersion[u] \in Nat \cup {-1}
        BY DEF TypeOK
      <3> QED BY <3>1
    <2> PICK id \in Int : id = txnVersion[u]
      BY <2>0
    <2>1. Complete(u, id)'
      BY <1>4, <1>6
    <2> QED BY <1>5, <2>1
  <1>7. ASSUME NEW b \in Apps, NEW u \in Topic, Complete(u, batchId[b][u])
        PROVE  Complete(u, batchId[b][u])'
    <2> PICK id \in Int : id = batchId[b][u]
      BY DEF TypeOK
    <2>1. Complete(u, id)'
      BY <1>4, <1>7
    <2> QED BY <1>5, <2>1
  <1>8. ASSUME rollbacks = 0, NEW u \in Topic
        PROVE  \A o \in Committed(u)' : Owed(u, o)' => Ingested(u, o)'
    BY <1>2, <1>3, <1>8 DEF CompleteInv
  <1> QED BY <1>5, <1>6, <1>7, <1>8 DEF CompleteInv

LEMMA PlanComplete ==
    ASSUME TypeOK, QueryInv, CompleteInv, NEW a \in Apps, NEW t \in Topic, Plan(a, t),
           ~UNCHANGED offsetLog
    PROVE  CompleteInv'
  <1> PICK n : n = Len(offsetLog[t])
    OBVIOUS
  <1>1. /\ n \in Nat /\ Len(offsetLog'[t]) = n + 1
        /\ \A i \in 1 .. n : offsetLog'[t][i] = offsetLog[t][i]
        /\ \A u \in Topic \ {t} : offsetLog'[u] = offsetLog[u]
    BY PlanEffect
  <1>2. UNCHANGED <<log, earliest, txnVersion, data, commits, rollbacks, batchId>>
    BY DEF Plan, bounds
  <1>3. \A b \in Apps, u \in Topic : status'[b][u] = "commit" => status[b][u] = "commit"
    <2>1. PICK s \in {"dead", "write"} : Goto(a, t, s)
      BY DEF Plan
    <2> QED BY <2>1, GotoElsewhere
  <1>4. ASSUME NEW id \in Nat, id <= n
        PROVE  StartOf(t, id)' = StartOf(t, id)
    BY <1>1, <1>4 DEF StartOf
  <1>5. ASSUME NEW id \in Nat, id < n
        PROVE  Complete(t, id) => Complete(t, id)'
    <2>0. id + 1 \in 1 .. n
      BY <1>1, <1>5
    <2>1. offsetLog'[t][id + 1] = offsetLog[t][id + 1]
      BY <1>1, <2>0
    <2>2. Range(t, id)' = Range(t, id)
      BY <1>4, <1>5, <2>1 DEF Range
    <2> QED BY <1>2, <2>2 DEF Complete, Owed, Ingested
  <1>6. ASSUME rollbacks = 0
        PROVE  /\ txnVersion[t] <= commits[t] /\ txnVersion[t] < Len(offsetLog'[t])
               /\ txnVersion[t] >= 0 => Complete(t, txnVersion[t])'
               /\ \A b \in Apps : status'[b][t] = "commit" => Complete(t, batchId[b][t])'
               /\ \A o \in Committed(t)' : Owed(t, o) => Ingested(t, o)
    <2>1. /\ txnVersion[t] <= commits[t] /\ txnVersion[t] < n
          /\ txnVersion[t] >= 0 => Complete(t, txnVersion[t])
          /\ \A b \in Apps : status[b][t] = "commit" => Complete(t, batchId[b][t])
          /\ \A o \in Committed(t) : Owed(t, o) => Ingested(t, o)
      BY <1>6 DEF CompleteInv
    <2>2. txnVersion[t] \in Nat \cup {-1} /\ commits[t] \in Nat /\ commits[t] <= n
      <3>1. n \in {commits[t], commits[t] + 1} /\ commits[t] \in Nat
        BY DEF TypeOK
      <3>2. txnVersion[t] \in Nat \cup {-1}
        BY DEF TypeOK
      <3> QED BY <3>1, <3>2
    <2>3. txnVersion[t] >= 0 => Complete(t, txnVersion[t])'
      <3> PICK id : id = txnVersion[t]
        OBVIOUS
      <3>1. id >= 0 => Complete(t, id)'
        BY <1>5, <2>1, <2>2
      <3> QED BY <1>2, <3>1
    <2>4. ASSUME NEW b \in Apps, status'[b][t] = "commit"
          PROVE  Complete(t, batchId[b][t])'
      <3> PICK id \in Nat : id = batchId[b][t]
        BY DEF TypeOK
      <3>1. id < n /\ Complete(t, id)
        BY <1>3, <2>1, <2>4 DEF QueryInv
      <3>2. Complete(t, id)'
        BY <1>5, <3>1
      <3> QED BY <1>2, <3>2
    <2>5. Committed(t)' = Committed(t)
      <3> PICK id : id = commits[t]
        OBVIOUS
      <3>1. StartOf(t, id)' = StartOf(t, id)
        BY <1>4, <2>2
      <3> QED BY <1>2, <3>1 DEF Committed
    <2> QED BY <1>1, <2>1, <2>2, <2>3, <2>4, <2>5
  <1>7. ASSUME rollbacks = 0, NEW u \in Topic \ {t}
        PROVE  /\ txnVersion[u] <= commits[u] /\ txnVersion[u] < Len(offsetLog'[u])
               /\ txnVersion[u] >= 0 => Complete(u, txnVersion[u])'
               /\ \A b \in Apps : status'[b][u] = "commit" => Complete(u, batchId[b][u])'
               /\ \A o \in Committed(u)' : Owed(u, o) => Ingested(u, o)
    BY <1>1, <1>2, <1>3, <1>7
       DEF CompleteInv, Complete, Owed, Range, StartOf, Ingested, Committed
  <1>8. \A u \in Topic, o \in Nat : Ingested(u, o)' <=> Ingested(u, o)
    BY <1>2 DEF Ingested
  <1>9. \A u \in Topic, o \in Int : Owed(u, o)' <=> Owed(u, o)
    BY <1>2 DEF Owed
  <1> QED BY <1>2, <1>6, <1>7, <1>9 DEF CompleteInv, Ingested, Owed

LEMMA WriteComplete ==
    ASSUME TypeOK, QueryInv, Increasing, CompleteInv,
           NEW a \in Apps, NEW t \in Topic, Write(a, t), rollbacks = 0
    PROVE  CompleteInv'
  <1> PICK id \in Nat : id = batchId[a][t]
    BY DEF TypeOK
  <1> PICK rows \in SUBSET Row : SinkEffect(a, t, id, rows)
    BY WriteEffect
  <1>1. UNCHANGED <<log, earliest, offsetLog, commits, rollbacks, batchId>> /\ status[a][t] = "write"
    BY DEF Write, bounds
  <1>2. id < Len(offsetLog[t]) /\ Running(a, t)
    BY <1>1 DEF QueryInv, Running
  <1>3. /\ commits[t] \in Nat /\ txnVersion[t] \in Nat \cup {-1} /\ id <= commits[t]
        /\ Len(offsetLog[t]) \in {commits[t], commits[t] + 1}
    BY <1>2 DEF TypeOK, QueryInv
  <1>4. \A u \in Topic : data[u] \subseteq data'[u]
    <2>1. data \in [Topic -> SUBSET Row]
      BY DEF TypeOK
    <2> QED BY <2>1 DEF SinkEffect
  <1>5. ASSUME NEW u \in Topic, NEW i \in Nat, Complete(u, i)
        PROVE  Complete(u, i)'
    <2>1. Range(u, i)' = Range(u, i)
      BY <1>1 DEF Range, StartOf
    <2> QED BY <1>1, <1>4, <1>5, <2>1 DEF Complete, Owed, Ingested
  <1>6. \A u \in Topic : \A o \in Committed(u)' : Owed(u, o)' => Ingested(u, o)'
    BY <1>1, <1>4 DEF CompleteInv, Committed, StartOf, Ingested, Owed
  <1>7. /\ status'[a][t] \in {"commit", "dead"}
        /\ \A b \in Apps, u \in Topic : b # a \/ u # t => status'[b][u] = status[b][u]
    BY GotoElsewhere DEF SinkEffect
  <1>8. ASSUME NEW b \in Apps, NEW u \in Topic, b # a \/ u # t, status'[b][u] = "commit"
        PROVE  Complete(u, batchId[b][u])'
    <2> PICK i \in Nat : i = batchId[b][u]
      BY DEF TypeOK
    <2>1. Complete(u, i)
      BY <1>7, <1>8 DEF CompleteInv
    <2>2. Complete(u, i)'
      BY <1>5, <2>1
    <2> QED BY <1>1, <2>2
  <1>9. CASE UNCHANGED <<txnVersion, data>>
    <2>1. ASSUME status'[a][t] = "commit"
          PROVE  Complete(t, id)
      <3>1. ~Unseen(t, id) \/ \A o \in Range(t, id) : ~Owed(t, o)
        <4>1. CASE Unseen(t, id) /\ txnVersion' = [txnVersion EXCEPT ![t] = id]
          BY <1>3, <1>9, <4>1 DEF Unseen, TypeOK
        <4>2. CASE Goto(a, t, "dead")
          BY <2>1, <4>2, GotoElsewhere
        <4> QED BY <4>1, <4>2 DEF SinkEffect
      <3>2. CASE id = txnVersion[t]
        BY <3>2 DEF CompleteInv
      <3>3. CASE id < txnVersion[t]
        <4>1. txnVersion[t] <= commits[t]
          BY DEF CompleteInv
        <4>2. id + 1 \in 1 .. Len(offsetLog[t]) /\ commits[t] \in 1 .. Len(offsetLog[t])
              /\ id + 1 <= commits[t]
          BY <1>2, <1>3, <3>3, <4>1
        <4>3. offsetLog[t][id + 1] \in Nat /\ offsetLog[t][commits[t]] \in Nat
          BY <4>2, OffsetIsNat
        <4>4. offsetLog[t][id + 1] <= offsetLog[t][commits[t]]
          <5>1. id + 1 = commits[t] \/ id + 1 < commits[t]
            BY <1>3, <4>2
          <5>2. id + 1 < commits[t] => offsetLog[t][id + 1] < offsetLog[t][commits[t]]
            BY <4>2 DEF Increasing
          <5> QED BY <4>3, <5>1, <5>2
        <4>5. StartOf(t, id) \in Nat
          BY <1>2, RangeIsNat
        <4>6. commits[t] # 0 /\ StartOf(t, commits[t]) = offsetLog[t][commits[t]]
          BY <1>3, <4>2 DEF StartOf
        <4>7. Range(t, id) \subseteq Committed(t)
          BY <4>3, <4>4, <4>5, <4>6 DEF Range, Committed
        <4> QED BY <4>7 DEF CompleteInv, Complete, Owed
      <3>4. CASE \A o \in Range(t, id) : ~Owed(t, o)
        BY <3>4 DEF Complete, Owed
      <3> QED BY <1>3, <3>1, <3>2, <3>3, <3>4 DEF Unseen
    <2>2. status'[a][t] = "commit" => Complete(t, batchId[a][t])'
      BY <1>1, <1>5, <2>1
    <2>3. \A u \in Topic : txnVersion[u] >= 0 => Complete(u, txnVersion[u])'
      <3>1. ASSUME NEW u \in Topic, txnVersion[u] >= 0 PROVE Complete(u, txnVersion[u])'
        <4> PICK i : i = txnVersion[u]
          OBVIOUS
        <4>1. i \in Nat /\ Complete(u, i)
          <5>1. txnVersion[u] \in Nat \cup {-1}
            BY DEF TypeOK
          <5>2. i \in Nat
            BY <3>1, <5>1
          <5> QED BY <3>1, <5>2 DEF CompleteInv
        <4>2. Complete(u, i)'
          BY <1>5, <4>1
        <4> QED BY <1>9, <4>2
      <3> QED BY <3>1
    <2> QED BY <1>1, <1>6, <1>8, <1>9, <2>2, <2>3 DEF CompleteInv
  <1>10. CASE /\ Unseen(t, id)
              /\ data' = [data EXCEPT ![t] = @ \cup rows]
              /\ txnVersion' = [txnVersion EXCEPT ![t] = id]
              /\ \A o \in Range(t, id) : Owed(t, o) =>
                    \E row \in rows : row.offset = o
    <2>1. /\ data'[t] = data[t] \cup rows /\ txnVersion'[t] = id
          /\ \A u \in Topic \ {t} : txnVersion'[u] = txnVersion[u]
      BY <1>10 DEF TypeOK
    <2>2. Complete(t, id)'
      <3>1. Range(t, id)' = Range(t, id)
        BY <1>1 DEF Range, StartOf
      <3> QED BY <1>1, <1>10, <2>1, <3>1 DEF Complete, Owed, Ingested
    <2>3. ASSUME NEW u \in Topic
          PROVE  /\ txnVersion'[u] <= commits[u] /\ txnVersion'[u] < Len(offsetLog[u])
                 /\ txnVersion'[u] >= 0 => Complete(u, txnVersion[u])'
      <3>1. CASE u = t
        BY <1>2, <1>3, <2>1, <2>2, <3>1
      <3>2. CASE u # t
        <4> PICK i : i = txnVersion[u]
          OBVIOUS
        <4>1. i >= 0 => i \in Nat /\ Complete(u, i)
          <5>1. i \in Nat \cup {-1}
            BY DEF TypeOK
          <5>2. i >= 0 => Complete(u, i)
            BY DEF CompleteInv
          <5> QED BY <5>1, <5>2
        <4>2. i >= 0 => Complete(u, i)'
          BY <1>5, <4>1
        <4>3. i <= commits[u] /\ i < Len(offsetLog[u])
          BY DEF CompleteInv
        <4> QED BY <2>1, <3>2, <4>2, <4>3
      <3> QED BY <3>1, <3>2
    <2>4. Complete(t, batchId[a][t])'
      BY <1>1, <2>2
    <2> QED BY <1>1, <1>6, <1>8, <2>3, <2>4 DEF CompleteInv
  <1> QED BY <1>9, <1>10 DEF SinkEffect

LEMMA CommitComplete ==
    ASSUME TypeOK, QueryInv, Increasing, CompleteInv,
           NEW a \in Apps, NEW t \in Topic, Commit(a, t), rollbacks = 0
    PROVE  CompleteInv'
  <1>1. UNCHANGED <<log, earliest, offsetLog, txnVersion, data, rollbacks>> /\ status[a][t] = "commit"
    BY DEF Commit, bounds
  <1>2. /\ status'[a][t] # "commit"
        /\ \A b \in Apps, u \in Topic : b # a \/ u # t => status'[b][u] = status[b][u]
    BY GotoElsewhere DEF Commit
  <1>3. CASE UNCHANGED <<commits, batchId>>
    BY <1>1, <1>2, <1>3, CompleteKept
  <1>4. CASE /\ commits[t] = batchId[a][t]
             /\ commits' = [commits EXCEPT ![t] = @ + 1]
             /\ batchId' = [batchId EXCEPT ![a][t] = @ + 1]
    <2> PICK id \in Nat : id = commits[t]
      BY DEF TypeOK
    <2>1. /\ commits'[t] = id + 1
          /\ \A u \in Topic \ {t} : commits'[u] = commits[u]
      BY <1>4 DEF TypeOK
    <2>2. \A b \in Apps, u \in Topic : b # a \/ u # t => batchId'[b][u] = batchId[b][u]
      BY <1>4 DEF TypeOK
    <2>3. \A u \in Topic, i \in Int : Complete(u, i)' <=> Complete(u, i)
      BY <1>1 DEF Complete, Owed, Range, StartOf, Ingested
    <2>4. ASSUME NEW b \in Apps, NEW u \in Topic, status'[b][u] = "commit"
          PROVE  Complete(u, batchId[b][u])'
      <3> PICK i \in Nat : i = batchId[b][u]
        BY DEF TypeOK
      <3>1. Complete(u, i) /\ batchId'[b][u] = i
        BY <1>2, <2>2, <2>4 DEF CompleteInv
      <3> QED BY <2>3, <3>1
    <2>5. ASSUME NEW u \in Topic
          PROVE  /\ txnVersion[u] <= commits'[u] /\ txnVersion[u] < Len(offsetLog[u])
                 /\ txnVersion[u] >= 0 => Complete(u, txnVersion[u])'
      <3>1. txnVersion[u] \in Int /\ commits[u] \in Nat /\ commits[u] <= commits'[u]
        <4>1. txnVersion[u] \in Int /\ commits[u] \in Nat
          BY DEF TypeOK
        <4>2. u = t \/ commits'[u] = commits[u]
          BY <2>1
        <4> QED BY <2>1, <4>1, <4>2
      <3>2. commits'[u] \in Nat
        BY <2>1, <3>1
      <3>3. /\ txnVersion[u] <= commits[u] /\ txnVersion[u] < Len(offsetLog[u])
            /\ txnVersion[u] >= 0 => Complete(u, txnVersion[u])
        BY DEF CompleteInv
      <3>4. txnVersion[u] >= 0 => Complete(u, txnVersion[u])'
        <4> PICK i \in Int : i = txnVersion[u]
          BY <3>1
        <4>1. i >= 0 => Complete(u, i)'
          BY <2>3, <3>3
        <4> QED BY <1>1, <4>1
      <3> QED BY <3>1, <3>2, <3>3, <3>4
    <2>6. ASSUME NEW o \in Committed(t)', Owed(t, o)
          PROVE  Ingested(t, o)
      <3>1. id < Len(offsetLog[t])
        BY <1>1, <1>4 DEF QueryInv
      <3>2. StartOf(t, id) \in Nat /\ offsetLog[t][id + 1] \in Nat
        BY <3>1, RangeIsNat
      <3>3. o \in 0 .. (offsetLog[t][id + 1] - 1)
        BY <1>1, <2>1, <2>6 DEF Committed, StartOf
      <3>4. CASE o \in Committed(t)
        BY <2>6, <3>4 DEF CompleteInv
      <3>5. CASE o \in Range(t, id)
        <4>1. Complete(t, id)
          BY <1>1, <1>4 DEF CompleteInv
        <4> QED BY <2>6, <3>5, <4>1 DEF Complete, Owed
      <3> QED BY <3>2, <3>3, <3>4, <3>5 DEF Committed, Range
    <2>7. ASSUME NEW u \in Topic, NEW o \in Committed(u)', Owed(u, o)
          PROVE  Ingested(u, o)
      <3>1. CASE u = t
        BY <2>6, <2>7, <3>1
      <3>2. CASE u # t
        BY <1>1, <2>1, <2>7, <3>2 DEF CompleteInv, Committed, StartOf
      <3> QED BY <3>1, <3>2
    <2>8. \A u \in Topic : \A o \in Committed(u)' : Owed(u, o)' => Ingested(u, o)'
      BY <1>1, <2>7 DEF Ingested, Owed
    <2> QED BY <1>1, <2>4, <2>5, <2>8 DEF CompleteInv
  <1> QED BY <1>3, <1>4 DEF Commit

LEMMA NextComplete ==
    ASSUME TypeOK, QueryInv, Increasing, CompleteInv, [Next]_vars
    PROVE  CompleteInv'
  <1>1. CASE UNCHANGED vars \/ Register \/ \E t \in Topic : Produce(t)
    BY <1>1, CompleteKept DEF vars, queryVars, storeVars, bounds, Register, Produce
  <1>2. ASSUME NEW a \in Apps, Start(a) PROVE CompleteInv'
    <2>1. /\ \A b \in Apps, u \in Topic : status'[b][u] = "commit" => status[b][u] = "commit"
          /\ UNCHANGED <<log, earliest, storeVars, rollbacks, batchId>>
      BY <1>2 DEF Start, TypeOK
    <2> QED BY <2>1, CompleteKept DEF storeVars
  <1>3. ASSUME NEW a \in Apps, Exit(a) \/ Kill(a) PROVE CompleteInv'
    <2>1. /\ \A u \in Topic : status'[a][u] = "off"
          /\ \A b \in Apps \ {a} : status'[b] = status[b] /\ batchId'[b] = batchId[b]
      BY <1>3 DEF Exit, Kill, StopAll, TypeOK
    <2>2. UNCHANGED <<log, earliest, storeVars, rollbacks>>
      BY <1>3 DEF Exit, Kill, StopAll, bounds
    <2> QED BY <2>1, <2>2, CompleteKept DEF storeVars
  <1>4. ASSUME NEW a \in Apps, NEW t \in Topic,
               ResolveReader(a, t) \/ Finish(a, t) \/ Fail(a, t)
        PROVE  CompleteInv'
    <2>1. PICK s \in {"list", "done", "dead"} : Goto(a, t, s)
      BY <1>4 DEF ResolveReader, Finish, Fail, Goto
    <2>2. UNCHANGED <<log, earliest, storeVars, rollbacks, batchId>>
      BY <1>4 DEF ResolveReader, Finish, Fail, bounds
    <2>3. \A b \in Apps, u \in Topic : status'[b][u] = "commit" => status[b][u] = "commit"
      BY <2>1, GotoElsewhere
    <2> QED BY <2>2, <2>3, CompleteKept DEF storeVars
  <1>5. ASSUME NEW a \in Apps, NEW t \in Topic, Launch(a, t) PROVE CompleteInv'
    <2>1. /\ status'[a][t] # "commit"
          /\ \A b \in Apps, u \in Topic : b # a \/ u # t =>
                 status'[b][u] = status[b][u] /\ batchId'[b][u] = batchId[b][u]
      BY <1>5 DEF Launch, FirstStep, TypeOK
    <2>2. UNCHANGED <<log, earliest, storeVars, rollbacks>>
      BY <1>5 DEF Launch, bounds
    <2> QED BY <2>1, <2>2, CompleteKept DEF storeVars
  <1>6. ASSUME NEW a \in Apps, NEW t \in Topic, Plan(a, t) PROVE CompleteInv'
    <2>1. CASE UNCHANGED offsetLog
      <3>1. PICK s \in {"dead", "write"} : Goto(a, t, s)
        BY <1>6 DEF Plan
      <3>2. \A b \in Apps, u \in Topic : status'[b][u] = "commit" => status[b][u] = "commit"
        BY <3>1, GotoElsewhere
      <3>3. UNCHANGED <<log, earliest, txnVersion, data, commits, rollbacks, batchId>>
        BY <1>6 DEF Plan, bounds
      <3> QED BY <2>1, <3>2, <3>3, CompleteKept
    <2> QED BY <1>6, <2>1, PlanComplete
  <1>7. ASSUME NEW a \in Apps, NEW t \in Topic, Write(a, t) \/ Commit(a, t) PROVE CompleteInv'
    <2>1. CASE rollbacks = 0
      BY <1>7, <2>1, WriteComplete, CommitComplete
    <2>2. CASE rollbacks # 0
      BY <1>7, <2>2 DEF Write, Commit, bounds, CompleteInv
    <2> QED BY <2>1, <2>2
  <1>8. ASSUME NEW t \in Topic, Rollback(t) PROVE CompleteInv'
    <2>1. rollbacks' # 0
      BY <1>8 DEF Rollback, TypeOK
    <2> QED BY <2>1 DEF CompleteInv
  <1> QED BY <1>1, <1>2, <1>3, <1>4, <1>5, <1>6, <1>7, <1>8, ExpireComplete DEF Next, Query

\* "crash mid-batch replays it" (bronze_streaming.py 11-12): as long as no checkpoint is
\* rolled back, no record that Kafka could still deliver is missing from a committed
\* batch, whichever application wrote or skipped it.
THEOREM NeverLost == Spec => []NoRowLost
  <1> DEFINE Inv == TypeOK /\ QueryInv /\ Increasing /\ CompleteInv
  <1>1. Init => Inv
    <2>1. Init => CompleteInv
      <3>1. Init => \A t \in Topic : Committed(t) = {}
        BY DEF Init, Committed, StartOf
      <3> QED BY <3>1 DEF Init, CompleteInv
    <2> QED BY <2>1, InitTypeOK, InitQueryInv, InitRows
  <1>2. Inv /\ [Next]_vars => Inv'
    BY NextTypeOK, NextQueryInv, NextIncreasing, NextComplete
  <1>3. Inv => NoRowLost
    BY DEF CompleteInv, NoRowLost
  <1> QED BY <1>1, <1>2, <1>3, PTL DEF Spec
-----------------------------------------------------------------------------
(* The reader schema is on the list *)

\* The first query of an application resolves its reader schema before it fetches
\* the list, and versions are only added.  (The topics behind it get the list of
\* the first one, however much later they resolve theirs.)
ListedInv ==
    \A a \in Apps :
        /\ status[a][1] = "list" => reader[a][1] \in 1 .. registered
        /\ Running(a, 1) => reader[a][1] \in 1 .. allowed[a][1]

LEMMA FirstTopic == 1 \in Topic
  BY BronzeAssumption DEF Topic

\* A step that starts no query and changes no query's schemas.
LEMMA ListedKept ==
    ASSUME TypeOK, ListedInv, registered' \in Nat, registered' >= registered,
           UNCHANGED <<reader, allowed>>,
           \A a \in Apps : /\ status'[a][1] = "list" => status[a][1] = "list"
                           /\ Running(a, 1)' => Running(a, 1)
    PROVE  ListedInv'
  BY BronzeAssumption DEF ListedInv, TypeOK

\* A query goes from one of its steps to another, or ends.
LEMMA ListedGoto ==
    ASSUME TypeOK, ListedInv, NEW a \in Apps, NEW t \in Topic, NEW s, Goto(a, t, s),
           s # "list", UNCHANGED <<reader, allowed, registered>>,
           s \in {"idle", "write", "commit"} => Running(a, t)
    PROVE  ListedInv'
  <1>1. \A b \in Apps : b # a \/ t # 1 => status'[b][1] = status[b][1]
    BY FirstTopic, GotoElsewhere
  <1>2. status'[a][t] = s
    BY DEF Goto, TypeOK
  <1>3. \A b \in Apps : /\ status'[b][1] = "list" => status[b][1] = "list"
                        /\ Running(b, 1)' => Running(b, 1)
    BY <1>1, <1>2 DEF Running
  <1>4. registered \in Nat
    BY BronzeAssumption DEF TypeOK
  <1> QED BY <1>3, <1>4, ListedKept

LEMMA NextListed ==
    ASSUME TypeOK, ListedInv, [Next]_vars
    PROVE  ListedInv'
  <1>0. registered \in Nat
    BY BronzeAssumption DEF TypeOK
  <1>1. CASE UNCHANGED vars \/ Register 
          \/ \E t \in Topic : Produce(t) \/ Expire(t) \/ Rollback(t)
    <2>1. UNCHANGED <<status, reader, allowed>> /\ registered' \in {registered, registered + 1}
      BY <1>1 DEF vars, queryVars, Register, Produce, Expire, Rollback
    <2> QED BY <1>0, <2>1, ListedKept DEF Running
  <1>2. ASSUME NEW a \in Apps, Start(a) \/ Exit(a) \/ Kill(a) PROVE ListedInv'
    <2>1. /\ status'[a][1] \in {"resolve", "off"} /\ UNCHANGED registered
          /\ \A b \in Apps \ {a} : status'[b] = status[b] /\ reader'[b] = reader[b]
                                   /\ allowed'[b] = allowed[b]
      BY <1>2, FirstTopic DEF Start, Exit, Kill, StopAll, TypeOK
    <2> QED BY <2>1 DEF ListedInv, Running
  <1>3. ASSUME NEW a \in Apps, NEW t \in Topic, Query(a, t) \/ Fail(a, t) PROVE ListedInv'
    <2>1. CASE ResolveReader(a, t)
      <3>1. /\ reader' = [reader EXCEPT ![a][t] = registered] /\ Goto(a, t, "list")
            /\ UNCHANGED <<allowed, registered>>
        BY <2>1 DEF ResolveReader, Goto
      <3>2. \A b \in Apps : b # a \/ t # 1 =>
                status'[b][1] = status[b][1] /\ reader'[b][1] = reader[b][1]
        <4>1. \A b \in Apps : b # a \/ t # 1 => status'[b][1] = status[b][1]
          BY <3>1, FirstTopic, GotoElsewhere
        <4>2. \A b \in Apps : b # a \/ t # 1 => reader'[b][1] = reader[b][1]
          BY <3>1, FirstTopic DEF TypeOK
        <4> QED BY <4>1, <4>2
      <3>3. t = 1 => status'[a][1] = "list" /\ reader'[a][1] = registered
        BY <3>1 DEF Goto, TypeOK
      <3>4. registered \in 1 .. registered
        BY BronzeAssumption DEF TypeOK
      <3> QED BY <3>1, <3>2, <3>3, <3>4 DEF ListedInv, Running
    <2>2. CASE Launch(a, t)
      <3>1. /\ status[a][t] = "list" /\ allowed' = [allowed EXCEPT ![a][t] = KnownIds(a, t)]
            /\ Goto(a, t, FirstStep(t)) /\ UNCHANGED <<reader, registered>>
        BY <2>2 DEF Launch, Goto
      <3>2. \A b \in Apps : b # a \/ t # 1 =>
                status'[b][1] = status[b][1] /\ allowed'[b][1] = allowed[b][1]
        <4>1. \A b \in Apps : b # a \/ t # 1 => status'[b][1] = status[b][1]
          BY <3>1, FirstTopic, GotoElsewhere
        <4>2. \A b \in Apps : b # a \/ t # 1 => allowed'[b][1] = allowed[b][1]
          BY <3>1, FirstTopic DEF TypeOK
        <4> QED BY <4>1, <4>2
      <3>3. t = 1 => status'[a][1] # "list" /\ allowed'[a][1] = registered
        BY <3>1 DEF Goto, KnownIds, FirstStep, TypeOK
      <3> QED BY <3>1, <3>2, <3>3 DEF ListedInv, Running
    <2>3. CASE Plan(a, t)
      <3>1. PICK s \in {"dead", "write"} : Goto(a, t, s)
        BY <2>3 DEF Plan
      <3> QED BY <2>3, <3>1, ListedGoto DEF Plan, Running
    <2>4. CASE Finish(a, t)
      BY <2>4, ListedGoto DEF Finish
    <2>5. CASE Write(a, t)
      <3>1. PICK s \in {"dead", "commit"} : Goto(a, t, s)
        BY <2>5 DEF Write, Sink
      <3> QED BY <2>5, <3>1, ListedGoto DEF Write, Running
    <2>6. CASE Commit(a, t)
      <3>1. PICK s \in {"dead", "idle"} : Goto(a, t, s)
        BY <2>6 DEF Commit
      <3> QED BY <2>6, <3>1, ListedGoto DEF Commit, Running
    <2>7. CASE Fail(a, t)
      BY <2>7, ListedGoto DEF Fail
    <2> QED BY <1>3, <2>1, <2>2, <2>3, <2>4, <2>5, <2>6, <2>7 DEF Query
  <1> QED BY <1>1, <1>2, <1>3 DEF Next

\* With one topic per application, whatever is registered between the two calls to
\* the registry, a query never quarantines what it can decode (236-237, 253-256).
THEOREM ReaderAlwaysListed ==
    ASSUME NTopics = 1
    PROVE  Spec => []ReaderIsListed
  <1>1. Init => TypeOK /\ QueryInv /\ ListedInv
    BY InitTypeOK, InitQueryInv, FirstTopic DEF Init, ListedInv, Running
  <1>2. TypeOK /\ QueryInv /\ ListedInv /\ [Next]_vars => (TypeOK /\ QueryInv /\ ListedInv)'
    BY NextTypeOK, NextQueryInv, NextListed
  <1>3. TypeOK /\ ListedInv => ReaderIsListed
    <2> SUFFICES ASSUME TypeOK, ListedInv, NEW a \in Apps, NEW t \in Topic,
                        status[a][t] \in {"idle", "write", "commit"},
                        NEW i \in DOMAIN log[t], log[t][i].wire = "ok", log[t][i].sound,
                        log[t][i].id = reader[a][t]
                 PROVE  Outcomes(log[t][i], reader[a][t], allowed[a][t]) = {"decoded"}
      BY DEF ReaderIsListed
    <2>1. t = 1
      BY DEF Topic
    <2>2. log[t][i].id \in 1 .. allowed[a][t]
      BY <2>1 DEF ListedInv, Running
    <2> QED BY <2>2 DEF Outcomes
  <1> QED BY <1>1, <1>2, <1>3, PTL DEF Spec
-----------------------------------------------------------------------------
(* What is committed is settled *)

\* No record of batch id of topic t owes a row.
Rowless(t, id) == \A o \in Range(t, id) : ~Owed(t, o)

\* Delta would not append batch id of topic t any more, or it has no rows.
Settled(t, id) == id <= txnVersion[t] \/ Rowless(t, id)

\* So it is with every batch that is committed or about to be, rolled back or not:
\* Delta never forgets a txnVersion.
SettledInv ==
    \A t \in Topic :
        /\ \A id \in 0 .. (commits[t] - 1) : Settled(t, id)
        /\ \A a \in Apps : status[a][t] = "commit" => Settled(t, batchId[a][t])

\* A batch stays settled while its part of the offset log stays.
LEMMA SettledStays ==
    ASSUME TypeOK, NEW t \in Topic, NEW id \in Nat, Settled(t, id), UNCHANGED <<log, earliest>>,
           txnVersion'[t] \in Int, txnVersion[t] <= txnVersion'[t],
           \A i \in 1 .. (id + 1) : offsetLog'[t][i] = offsetLog[t][i]
    PROVE  Settled(t, id)'
  <1>1. Range(t, id)' = Range(t, id)
    <2>1. id + 1 \in 1 .. (id + 1) /\ (id # 0 => id \in 1 .. (id + 1))
      OBVIOUS
    <2> QED BY <2>1 DEF Range, StartOf
  <1>2. txnVersion[t] \in Int
    BY DEF TypeOK
  <1> QED BY <1>1, <1>2 DEF Settled, Rowless, Owed

\* A step that commits nothing and reaches the commit only with a settled batch.
LEMMA SettledKept ==
    ASSUME TypeOK, QueryInv, SettledInv, UNCHANGED <<log, earliest, commits>>,
           \A t \in Topic : txnVersion'[t] \in Int /\ txnVersion[t] <= txnVersion'[t],
           \A t \in Topic : \A i \in 1 .. Len(offsetLog[t]) : offsetLog'[t][i] = offsetLog[t][i],
           \A a \in Apps, t \in Topic : status'[a][t] = "commit" =>
               \/ status[a][t] = "commit" /\ batchId'[a][t] = batchId[a][t]
               \/ Settled(t, batchId[a][t])'
    PROVE  SettledInv'
  <1>1. ASSUME NEW t \in Topic, NEW id \in Nat, Settled(t, id), id < Len(offsetLog[t])
        PROVE  Settled(t, id)'
    <2>1. \A i \in 1 .. (id + 1) : i \in 1 .. Len(offsetLog[t])
      BY <1>1 DEF TypeOK
    <2> QED BY <1>1, <2>1, SettledStays
  <1>2. ASSUME NEW t \in Topic, NEW id \in 0 .. (commits[t] - 1)
        PROVE  Settled(t, id)'
    <2>1. commits[t] \in Nat /\ commits[t] <= Len(offsetLog[t]) /\ Len(offsetLog[t]) \in Nat
      BY DEF TypeOK
    <2>2. id \in Nat /\ id < Len(offsetLog[t]) /\ Settled(t, id)
      BY <2>1 DEF SettledInv
    <2> QED BY <1>1, <2>2
  <1>3. ASSUME NEW a \in Apps, NEW t \in Topic, status[a][t] = "commit",
               batchId'[a][t] = batchId[a][t]
        PROVE  Settled(t, batchId[a][t])'
    <2> PICK id \in Nat : id = batchId[a][t]
      BY DEF TypeOK
    <2>1. Settled(t, id)'
      BY <1>1, <1>3 DEF SettledInv, QueryInv
    <2> QED BY <1>3, <2>1
  <1> QED BY <1>2, <1>3 DEF SettledInv

\* What the sink lets through is settled.
LEMMA WriteSettled ==
    ASSUME TypeOK, QueryInv, SettledInv, NEW a \in Apps, NEW t \in Topic, Write(a, t)
    PROVE  SettledInv'
  <1> PICK id \in Nat : id = batchId[a][t]
    BY DEF TypeOK
  <1> PICK rows \in SUBSET Row : SinkEffect(a, t, id, rows)
    BY WriteEffect
  <1>1. UNCHANGED <<log, earliest, commits, offsetLog, batchId>>
    BY DEF Write
  <1>2. \A b \in Apps, u \in Topic : b # a \/ u # t => status'[b][u] = status[b][u]
    BY GotoElsewhere DEF SinkEffect
  <1>3. \A u \in Topic : txnVersion[u] \in Int
    BY DEF TypeOK
  <1>4. /\ \A u \in Topic : txnVersion'[u] \in Int /\ txnVersion[u] <= txnVersion'[u]
        /\ status'[a][t] = "commit" => Settled(t, id)'
    <2>1. CASE Unseen(t, id) /\ txnVersion' = [txnVersion EXCEPT ![t] = id]
      <3>1. txnVersion'[t] = id /\ \A u \in Topic \ {t} : txnVersion'[u] = txnVersion[u]
        BY <2>1 DEF TypeOK
      <3> QED BY <1>3, <2>1, <3>1 DEF Unseen, Settled
    <2>2. CASE /\ UNCHANGED txnVersion
               /\ \/ Goto(a, t, "dead")
                  \/ ~Unseen(t, id)
                  \/ \A o \in Range(t, id) : ~Owed(t, o)
      <3>1. Goto(a, t, "dead") => status'[a][t] # "commit"
        BY GotoElsewhere
      <3>2. Range(t, id)' = Range(t, id)
        BY <1>1 DEF Range, StartOf
      <3> QED BY <1>1, <1>3, <2>2, <3>1, <3>2 DEF Unseen, Settled, Rowless, Owed
    <2> QED BY <2>1, <2>2 DEF SinkEffect
  <1>5. Settled(t, id)' => Settled(t, batchId[a][t])'
    BY <1>1
  <1> QED BY <1>1, <1>2, <1>4, <1>5, SettledKept

LEMMA CommitSettled ==
    ASSUME TypeOK, QueryInv, SettledInv, NEW a \in Apps, NEW t \in Topic, Commit(a, t)
    PROVE  SettledInv'
  <1>1. UNCHANGED <<log, earliest, offsetLog, txnVersion>> /\ status[a][t] = "commit"
    BY DEF Commit
  <1>2. /\ status'[a][t] # "commit"
        /\ \A b \in Apps, u \in Topic : b # a \/ u # t => status'[b][u] = status[b][u]
    BY GotoElsewhere DEF Commit
  <1>3. \A u \in Topic, i \in Nat : Settled(u, i)' <=> Settled(u, i)
    BY <1>1 DEF Settled, Rowless, Owed, Range, StartOf
  <1>4. \A b \in Apps, u \in Topic : b # a \/ u # t => batchId'[b][u] = batchId[b][u]
    <2>1. CASE batchId' = [batchId EXCEPT ![a][t] = @ + 1]
      BY <2>1 DEF TypeOK
    <2> QED BY <2>1 DEF Commit
  <1>5. ASSUME NEW b \in Apps, NEW u \in Topic, status'[b][u] = "commit"
        PROVE  Settled(u, batchId[b][u])'
    <2> PICK i \in Nat : i = batchId[b][u]
      BY DEF TypeOK
    <2>1. Settled(u, i) /\ batchId'[b][u] = i
      BY <1>2, <1>4, <1>5 DEF SettledInv
    <2> QED BY <1>3, <2>1
  <1>6. ASSUME NEW u \in Topic, NEW i \in 0 .. (commits'[u] - 1)
        PROVE  Settled(u, i)
    <2>1. commits[u] \in Nat
      BY DEF TypeOK
    <2>2. CASE commits'[u] = commits[u]
      BY <2>2 DEF SettledInv
    <2>3. CASE u = t /\ commits'[t] = commits[t] + 1 /\ commits[t] = batchId[a][t]
      <3>1. i \in 0 .. (commits[t] - 1) \/ i = batchId[a][t]
        BY <2>1, <2>3
      <3> QED BY <1>1, <2>3, <3>1 DEF SettledInv
    <2> QED BY <2>2, <2>3 DEF Commit, TypeOK
  <1>7. \A u \in Topic : commits'[u] \in Nat
    <2>1. CASE commits' = [commits EXCEPT ![t] = @ + 1]
      BY <2>1 DEF TypeOK
    <2>2. CASE UNCHANGED commits
      BY <2>2 DEF TypeOK
    <2> QED BY <2>1, <2>2 DEF Commit
  <1> QED BY <1>3, <1>5, <1>6, <1>7 DEF SettledInv

\* Rolling back leaves fewer batches committed, under the same txnVersion.
LEMMA RollbackSettled ==
    ASSUME TypeOK, SettledInv, NEW t \in Topic, Rollback(t)
    PROVE  SettledInv'
  <1> PICK n \in 0 .. (commits[t] - 1) :
         /\ commits' = [commits EXCEPT ![t] = n]
         /\ offsetLog' = [offsetLog EXCEPT ![t] = SubSeq(@, 1, n)]
    BY DEF Rollback
  <1>1. n \in Nat /\ n < commits[t] /\ commits[t] \in 1 .. Len(offsetLog[t])
    BY DEF TypeOK
  <1>2. /\ commits'[t] = n /\ UNCHANGED <<log, earliest, txnVersion>>
        /\ \A u \in Topic \ {t} : commits'[u] = commits[u] /\ offsetLog'[u] = offsetLog[u]
    BY DEF Rollback, TypeOK
  <1>3. \A i \in 1 .. n : offsetLog'[t][i] = offsetLog[t][i]
    <2>1. offsetLog[t] \in Seq(Nat) /\ n <= Len(offsetLog[t])
      BY <1>1 DEF TypeOK
    <2>2. offsetLog'[t] = SubSeq(offsetLog[t], 1, n)
      BY DEF TypeOK
    <2> QED BY <1>1, <2>1, <2>2, PrefixOfSeq
  <1>4. ASSUME NEW u \in Topic, NEW id \in 0 .. (commits'[u] - 1)
        PROVE  Settled(u, id)'
    <2>1. txnVersion[u] \in Int /\ commits[u] \in Nat
      BY DEF TypeOK
    <2>2. id \in Nat /\ id \in 0 .. (commits[u] - 1)
      BY <1>1, <1>2, <2>1
    <2>3. \A i \in 1 .. (id + 1) : offsetLog'[u][i] = offsetLog[u][i]
      BY <1>1, <1>2, <1>3
    <2>4. Settled(u, id)
      BY <2>2 DEF SettledInv
    <2> QED BY <1>2, <2>1, <2>2, <2>3, <2>4, SettledStays
  <1>5. \A b \in Apps, u \in Topic : status'[b][u] # "commit"
    BY RollbackEffect DEF Rollback, queryVars, Running
  <1> QED BY <1>4, <1>5 DEF SettledInv

\* What owed no row before a record was deleted owes none after it.
LEMMA ExpireSettled ==
    ASSUME TypeOK, SettledInv, NEW t \in Topic, Expire(t)
    PROVE  SettledInv'
  <1>1. UNCHANGED <<log, queryVars, storeVars>>
    BY DEF Expire
  <1>2. /\ txnVersion' = txnVersion /\ status' = status /\ batchId' = batchId
        /\ commits' = commits /\ offsetLog' = offsetLog
    BY <1>1 DEF queryVars, storeVars
  <1>3. ASSUME NEW u \in Topic, NEW id \in Int, Settled(u, id)
        PROVE  Settled(u, id)'
    <2>1. Range(u, id)' = Range(u, id) /\ Range(u, id) \subseteq Int
      BY <1>2 DEF Range, StartOf
    <2>2. Rowless(u, id) => Rowless(u, id)'
      BY <2>1, ExpireOwed DEF Rowless
    <2> QED BY <1>2, <1>3, <2>2 DEF Settled
  <1>4. ASSUME NEW b \in Apps, NEW u \in Topic, Settled(u, batchId[b][u])
        PROVE  Settled(u, batchId[b][u])'
    <2> PICK id \in Int : id = batchId[b][u]
      BY DEF TypeOK
    <2>1. Settled(u, id)'
      BY <1>3, <1>4
    <2> QED BY <1>2, <2>1
  <1>5. \A u \in Topic : commits[u] \in Nat
    BY DEF TypeOK
  <1> QED BY <1>2, <1>3, <1>4, <1>5 DEF SettledInv

LEMMA NextSettled ==
    ASSUME TypeOK, QueryInv, SettledInv, [Next]_vars
    PROVE  SettledInv'
  <1>0. \A t \in Topic : txnVersion[t] \in Int
    BY DEF TypeOK
  <1>1. CASE UNCHANGED vars \/ Register \/ \E t \in Topic : Produce(t)
    <2>1. UNCHANGED <<log, earliest, storeVars, status, batchId>>
      BY <1>1 DEF vars, queryVars, Register, Produce
    <2> QED BY <1>0, <2>1, SettledKept DEF storeVars
  <1>2. ASSUME NEW a \in Apps, Start(a) \/ Exit(a) \/ Kill(a) PROVE SettledInv'
    <2>1. UNCHANGED <<log, earliest, storeVars>>
      BY <1>2 DEF Start, Exit, Kill, StopAll
    <2>2. /\ \A t \in Topic : status'[a][t] # "commit"
          /\ \A b \in Apps \ {a} : status'[b] = status[b] /\ batchId'[b] = batchId[b]
      BY <1>2 DEF Start, Exit, Kill, StopAll, TypeOK
    <2> QED BY <1>0, <2>1, <2>2, SettledKept DEF storeVars
  <1>3. ASSUME NEW a \in Apps, NEW t \in Topic,
               ResolveReader(a, t) \/ Launch(a, t) \/ Finish(a, t) \/ Fail(a, t)
        PROVE  SettledInv'
    <2>1. UNCHANGED <<log, earliest, storeVars>>
      BY <1>3 DEF ResolveReader, Launch, Finish, Fail
    <2>2. PICK s \in {"list", "write", "idle", "done", "dead"} : Goto(a, t, s)
      BY <1>3 DEF ResolveReader, Launch, FirstStep, Finish, Fail, Goto
    <2>3. \A b \in Apps, u \in Topic : b # a \/ u # t => batchId'[b][u] = batchId[b][u]
      <3>1. CASE batchId' = [batchId EXCEPT ![a][t] = commits[t]]
        BY <3>1 DEF TypeOK
      <3> QED BY <1>3, <3>1 DEF ResolveReader, Launch, Finish, Fail
    <2>4. \A b \in Apps, u \in Topic : status'[b][u] = "commit" =>
              status[b][u] = "commit" /\ batchId'[b][u] = batchId[b][u]
      BY <2>2, <2>3, GotoElsewhere
    <2> QED BY <1>0, <2>1, <2>4, SettledKept DEF storeVars
  <1>4. ASSUME NEW a \in Apps, NEW t \in Topic, Plan(a, t) PROVE SettledInv'
    <2>1. UNCHANGED <<log, earliest, txnVersion, commits, batchId>>
      BY <1>4 DEF Plan
    <2>2. PICK s \in {"write", "dead"} : Goto(a, t, s)
      BY <1>4 DEF Plan
    <2>3. \A b \in Apps, u \in Topic : status'[b][u] = "commit" => status[b][u] = "commit"
      BY <2>2, GotoElsewhere
    <2>4. \A u \in Topic : \A i \in 1 .. Len(offsetLog[u]) : offsetLog'[u][i] = offsetLog[u][i]
      <3>1. CASE UNCHANGED offsetLog
        BY <3>1
      <3>2. CASE ~UNCHANGED offsetLog
        BY <1>4, <3>2, PlanEffect
      <3> QED BY <3>1, <3>2
    <2> QED BY <1>0, <2>1, <2>3, <2>4, SettledKept
  <1> QED BY <1>1, <1>2, <1>3, <1>4, WriteSettled, CommitSettled, RollbackSettled, ExpireSettled
          DEF Next, Query
-----------------------------------------------------------------------------
(* The job implements EffectivelyOnce *)

\* The committed end of a topic.
LEMMA EndIsNat ==
    ASSUME TypeOK, NEW t \in Topic
    PROVE  StartOf(t, commits[t]) \in Nat
  <1>1. commits[t] \in Nat /\ commits[t] <= Len(offsetLog[t])
    BY DEF TypeOK
  <1>2. commits[t] # 0 => commits[t] \in 1 .. Len(offsetLog[t])
    BY <1>1 DEF TypeOK
  <1> QED BY <1>1, <1>2, OffsetIsNat DEF StartOf

\* Nothing is in the tables, nothing is committed.
LEMMA InitEffectivelyOnce == Init => Table!Init
  <1> SUFFICES ASSUME Init PROVE Table!Init
    OBVIOUS
  <1>1. \A t \in Topic : StartOf(t, commits[t]) = 0
    BY DEF Init, StartOf
  <1>2. ASSUME NEW t \in Topic
        PROVE  {o \in 0 .. (Len(log[t]) - 1) : ~Owed(t, o)} \in SUBSET Nat
    <2>1. Len(log[t]) \in Nat
      BY BronzeAssumption DEF Init
    <2> QED BY <2>1
  <1>3. (rollbacks > 0) = FALSE
    BY DEF Init
  <1> QED BY <1>1, <1>2, <1>3 DEF Init, Table!Init

\* What readers of a table see of a step: nothing, if topics, table, committed ends
\* and rollbacks stay.
LEMMA Unseeable ==
    ASSUME UNCHANGED <<log, earliest, data, rollbacks>>,
           \A t \in Topic : StartOf(t, commits[t])' = StartOf(t, commits[t])
    PROVE  UNCHANGED Table!vars
  <1>1. [t \in Topic |-> StartOf(t, commits[t])]' = [t \in Topic |-> StartOf(t, commits[t])]
    OBVIOUS
  <1>2. [t \in Topic |-> {o \in 0 .. (Len(log[t]) - 1) : ~Owed(t, o)}]'
          = [t \in Topic |-> {o \in 0 .. (Len(log[t]) - 1) : ~Owed(t, o)}]
    BY DEF Owed
  <1> QED BY <1>1, <1>2 DEF Table!vars

\* Planning a batch puts nothing behind the committed end.
LEMMA PlanEffectivelyOnce ==
    ASSUME TypeOK, QueryInv, NEW a \in Apps, NEW t \in Topic, Plan(a, t)
    PROVE  UNCHANGED Table!vars
  <1>1. UNCHANGED <<log, earliest, data, rollbacks, commits>>
    BY DEF Plan, bounds
  <1>2. CASE UNCHANGED offsetLog
    BY <1>1, <1>2, Unseeable DEF StartOf
  <1>3. CASE ~UNCHANGED offsetLog
    <2> PICK n : n = Len(offsetLog[t])
      OBVIOUS
    <2>1. /\ n \in Nat /\ \A i \in 1 .. n : offsetLog'[t][i] = offsetLog[t][i]
          /\ \A u \in Topic \ {t} : offsetLog'[u] = offsetLog[u]
      BY <1>3, PlanEffect
    <2>2. commits[t] # 0 => commits[t] \in 1 .. n
      BY <2>1 DEF TypeOK
    <2>3. ASSUME NEW u \in Topic PROVE StartOf(u, commits[u])' = StartOf(u, commits[u])
      BY <1>1, <2>1, <2>2 DEF StartOf
    <2> QED BY <1>1, <2>3, Unseeable
  <1> QED BY <1>2, <1>3

\* A batch that Delta takes brings rows of new records, none of them behind the
\* committed end: a committed batch would not be appended any more.
LEMMA WriteEffectivelyOnce ==
    ASSUME TypeOK, QueryInv, SettledInv, NoDuplicateRow', NEW a \in Apps, NEW t \in Topic,
           Write(a, t)
    PROVE  Table!Append(t) \/ UNCHANGED Table!vars
  <1> PICK id \in Nat : id = batchId[a][t]
    BY DEF TypeOK
  <1> PICK rows \in SUBSET Row : SinkEffect(a, t, id, rows)
    BY WriteEffect
  <1>1. /\ UNCHANGED <<log, earliest, rollbacks, commits, offsetLog>>
        /\ id < Len(offsetLog[t]) /\ id <= commits[t]
    BY DEF Write, bounds, QueryInv, Running
  <1>2. \A u \in Topic : StartOf(u, commits[u])' = StartOf(u, commits[u])
    BY <1>1 DEF StartOf
  <1>3. CASE UNCHANGED data
    BY <1>1, <1>2, <1>3, Unseeable
  <1>4. CASE Unseen(t, id) /\ data' = [data EXCEPT ![t] = @ \cup rows]
    <2> DEFINE new == data'[t] \ data[t]
    <2>1. data'[t] = data[t] \cup rows /\ data' = [data EXCEPT ![t] = @ \cup new]
      BY <1>4 DEF TypeOK
    <2>2. Table!Offsets(new) \cap Table!Offsets(data[t]) = {}
      BY <2>1 DEF NoDuplicateRow, Table!Offsets
    <2>3. \A r, s \in new : r.offset = s.offset => r = s
      BY DEF NoDuplicateRow
    <2>4. ASSUME NEW row \in new
          PROVE  row.offset >= StartOf(t, commits[t])
      <3>1. row.offset \in Range(t, id) /\ Owed(t, row.offset)
        BY <2>1 DEF SinkEffect
      <3>2. ~Settled(t, id)
        <4>1. txnVersion[t] \in Int
          BY DEF TypeOK
        <4> QED BY <1>4, <3>1, <4>1 DEF Unseen, Settled, Rowless, Owed
      <3>3. id = commits[t]
        <4>1. commits[t] \in Nat /\ id \notin 0 .. (commits[t] - 1)
          BY <3>2 DEF SettledInv, TypeOK
        <4> QED BY <1>1, <4>1
      <3> QED BY <3>1, <3>3, EndIsNat DEF Range
    <2>5. \A o \in Table!Offsets(new) : o >= StartOf(t, commits[t])
      BY <2>4 DEF Table!Offsets
    <2>6. [u \in Topic |-> StartOf(u, commits[u])]' = [u \in Topic |-> StartOf(u, commits[u])]
      BY <1>2
    <2>7. [u \in Topic |-> {o \in 0 .. (Len(log[u]) - 1) : ~Owed(u, o)}]'
            = [u \in Topic |-> {o \in 0 .. (Len(log[u]) - 1) : ~Owed(u, o)}]
      BY <1>1 DEF Owed
    <2> QED BY <1>1, <2>1, <2>2, <2>3, <2>5, <2>6, <2>7 DEF Table!Append
  <1> QED BY <1>3, <1>4 DEF SinkEffect

\* A batch that enters the commit log is in the table, but for the records that
\* have no row to give.
LEMMA CommitEffectivelyOnce ==
    ASSUME TypeOK, QueryInv, Increasing, CompleteInv', NEW a \in Apps, NEW t \in Topic,
           Commit(a, t)
    PROVE  Table!Commit(t) \/ UNCHANGED Table!vars
  <1>1. UNCHANGED <<log, earliest, data, rollbacks, offsetLog>>
    BY DEF Commit, bounds
  <1>2. CASE UNCHANGED commits
    BY <1>1, <1>2, Unseeable DEF StartOf
  <1>3. CASE /\ commits[t] = batchId[a][t]
             /\ commits' = [commits EXCEPT ![t] = @ + 1]
    <2> PICK id \in Nat : id = commits[t]
      BY DEF TypeOK
    <2> PICK end : end = offsetLog[t][id + 1]
      OBVIOUS
    <2>1. /\ commits'[t] = id + 1 /\ \A u \in Topic \ {t} : commits'[u] = commits[u]
          /\ id < Len(offsetLog[t])
      BY <1>3 DEF TypeOK, Commit, QueryInv
    <2>2. end \in 1 .. produced[t] /\ StartOf(t, id) \in Nat
      BY <2>1, RangeIsNat
    <2>3. /\ StartOf(t, commits[t])' = end
          /\ \A u \in Topic \ {t} : StartOf(u, commits[u])' = StartOf(u, commits[u])
      BY <1>1, <2>1 DEF StartOf
    <2>4. StartOf(t, id) < end
      <3>1. id # 0 => id \in 1 .. Len(offsetLog[t]) /\ id + 1 \in 1 .. Len(offsetLog[t])
        <4>1. Len(offsetLog[t]) \in Nat
          BY DEF TypeOK
        <4> QED BY <2>1, <4>1
      <3> QED BY <2>2, <3>1 DEF StartOf, Increasing
    <2>5. ASSUME rollbacks = 0, NEW o \in StartOf(t, id) .. (end - 1)
          PROVE  \/ o \in Table!Offsets(data[t])
                 \/ o \in 0 .. (Len(log[t]) - 1) /\ ~Owed(t, o)
      <3>1. o \in Committed(t)'
        BY <2>2, <2>3 DEF Committed
      <3>2. Owed(t, o) => Ingested(t, o)
        BY <1>1, <2>5, <3>1 DEF CompleteInv, Ingested, Owed
      <3>3. produced[t] \in Nat /\ Len(log[t]) \in Nat /\ produced[t] <= Len(log[t])
        BY BronzeAssumption DEF TypeOK
      <3>4. o \in 0 .. (Len(log[t]) - 1)
        BY <2>2, <3>3
      <3> QED BY <3>2, <3>4 DEF Ingested, Table!Offsets
    <2>6. [u \in Topic |-> StartOf(u, commits[u])]'
            = [[u \in Topic |-> StartOf(u, commits[u])] EXCEPT ![t] = end]
      BY <2>3
    <2>7. rollbacks > 0 \/ rollbacks = 0
      BY DEF TypeOK
    <2>8. [u \in Topic |-> {o \in 0 .. (Len(log[u]) - 1) : ~Owed(u, o)}]'
            = [u \in Topic |-> {o \in 0 .. (Len(log[u]) - 1) : ~Owed(u, o)}]
      BY <1>1 DEF Owed
    <2> QED BY <1>1, <2>2, <2>3, <2>4, <2>5, <2>6, <2>7, <2>8 DEF Table!Commit
  <1> QED BY <1>2, <1>3 DEF Commit

\* A checkpoint that rolls back takes only the committed end of its topic with it.
LEMMA RollbackEffectivelyOnce ==
    ASSUME TypeOK, Increasing, NEW t \in Topic, Rollback(t)
    PROVE  Table!Restore(t)
  <1> PICK n \in 0 .. (commits[t] - 1) :
         /\ commits' = [commits EXCEPT ![t] = n]
         /\ offsetLog' = [offsetLog EXCEPT ![t] = SubSeq(@, 1, n)]
    BY DEF Rollback
  <1>1. n \in Nat /\ n < commits[t] /\ commits[t] \in 1 .. Len(offsetLog[t])
    BY DEF TypeOK
  <1>2. /\ commits'[t] = n
        /\ \A u \in Topic \ {t} : commits'[u] = commits[u] /\ offsetLog'[u] = offsetLog[u]
    BY DEF TypeOK
  <1>3. n > 0 => offsetLog'[t][n] = offsetLog[t][n]
    <2>1. offsetLog[t] \in Seq(Nat) /\ n <= Len(offsetLog[t])
      BY <1>1 DEF TypeOK
    <2>2. offsetLog'[t] = SubSeq(offsetLog[t], 1, n)
      BY DEF TypeOK
    <2>3. \A i \in 1 .. n : SubSeq(offsetLog[t], 1, n)[i] = offsetLog[t][i]
      BY <1>1, <2>1, PrefixOfSeq
    <2> QED BY <1>1, <2>2, <2>3
  <1>4. StartOf(t, commits[t])' \in 0 .. StartOf(t, commits[t])
    <2>1. StartOf(t, commits[t])' = StartOf(t, n)
      BY <1>1, <1>2, <1>3 DEF StartOf
    <2>2. StartOf(t, n) \in Nat /\ StartOf(t, commits[t]) \in Nat
      <3>1. n < Len(offsetLog[t])
        BY <1>1
      <3> QED BY <3>1, EndIsNat, RangeIsNat
    <2>3. StartOf(t, n) <= StartOf(t, commits[t])
      <3>1. CASE n = 0
        BY <2>2, <3>1 DEF StartOf
      <3>2. CASE n > 0
        <4>1. n \in 1 .. Len(offsetLog[t])
          BY <1>1, <3>2
        <4>2. offsetLog[t][n] < offsetLog[t][commits[t]]
          BY <1>1, <4>1 DEF Increasing
        <4> QED BY <1>1, <2>2, <3>2, <4>2 DEF StartOf
      <3> QED BY <1>1, <3>1, <3>2
    <2> QED BY <2>1, <2>2, <2>3
  <1> PICK end : StartOf(t, commits[t])' = end
    OBVIOUS
  <1>5. /\ StartOf(t, commits[t])' = end
        /\ \A u \in Topic \ {t} : StartOf(u, commits[u])' = StartOf(u, commits[u])
    BY <1>2 DEF StartOf
  <1>6. [u \in Topic |-> StartOf(u, commits[u])]'
          = [[u \in Topic |-> StartOf(u, commits[u])] EXCEPT ![t] = end]
    BY <1>5
  <1>7. UNCHANGED <<log, earliest, data>> /\ (rollbacks > 0)' = TRUE
    BY DEF Rollback, TypeOK
  <1>8. [u \in Topic |-> {o \in 0 .. (Len(log[u]) - 1) : ~Owed(u, o)}]'
          = [u \in Topic |-> {o \in 0 .. (Len(log[u]) - 1) : ~Owed(u, o)}]
    BY DEF Rollback, Owed
  <1> QED BY <1>4, <1>6, <1>7, <1>8 DEF Table!Restore

\* A record that Kafka deletes gives no row any more.
LEMMA ExpireEffectivelyOnce ==
    ASSUME TypeOK, NEW t \in Topic, Expire(t)
    PROVE  Table!Expire(t)
  <1> DEFINE Void(u) == {o \in 0 .. (Len(log[u]) - 1) : ~Owed(u, o)}
  <1>1. UNCHANGED <<log, data, rollbacks, offsetLog, commits>>
    BY DEF Expire, storeVars, bounds
  <1>2. \A u \in Topic \ {t} : Void(u)' = Void(u)
    BY <1>1 DEF Expire, TypeOK, Owed
  <1>3. Void(t) \subseteq Void(t)'
    BY <1>1, ExpireOwed
  <1>4. [u \in Topic |-> Void(u)]' = [[u \in Topic |-> Void(u)] EXCEPT ![t] = @ \cup Void(t)']
    BY <1>2, <1>3
  <1>5. [u \in Topic |-> StartOf(u, commits[u])]' = [u \in Topic |-> StartOf(u, commits[u])]
    BY <1>1 DEF StartOf
  <1> QED BY <1>1, <1>4, <1>5 DEF Table!Expire

\* The other steps are seen by no reader of the tables.
LEMMA QuietEffectivelyOnce ==
    ASSUME \/ UNCHANGED vars
           \/ Register
           \/ \E t \in Topic : Produce(t)
           \/ \E a \in Apps : Start(a) \/ Exit(a) \/ Kill(a)
           \/ \E a \in Apps, t \in Topic :
                 ResolveReader(a, t) \/ Launch(a, t) \/ Finish(a, t) \/ Fail(a, t)
    PROVE  UNCHANGED Table!vars
  <1>1. UNCHANGED <<log, earliest, storeVars, rollbacks>>
    BY DEF vars, Register, Produce, Start, Exit, Kill, StopAll, ResolveReader, Launch, Finish,
           Fail, bounds
  <1> QED BY <1>1, Unseeable DEF storeVars, StartOf

LEMMA NextEffectivelyOnce ==
    ASSUME TypeOK, QueryInv, Increasing, SettledInv, CompleteInv', NoDuplicateRow', [Next]_vars
    PROVE  [Table!Next]_(Table!vars)
  <1>1. ASSUME NEW a \in Apps, NEW t \in Topic, Write(a, t) \/ Commit(a, t)
        PROVE  [Table!Next]_(Table!vars)
    <2>1. Table!Append(t) \/ Table!Commit(t) \/ UNCHANGED Table!vars
      BY <1>1, WriteEffectivelyOnce, CommitEffectivelyOnce
    <2> QED BY <2>1 DEF Table!Next
  <1>2. ASSUME NEW t \in Topic, Rollback(t) PROVE [Table!Next]_(Table!vars)
    <2>1. Table!Restore(t)
      BY <1>2, RollbackEffectivelyOnce
    <2> QED BY <2>1 DEF Table!Next
  <1>3. ASSUME NEW a \in Apps, NEW t \in Topic, Plan(a, t) PROVE UNCHANGED Table!vars
    BY <1>3, PlanEffectivelyOnce
  <1>4. ASSUME NEW t \in Topic, Expire(t) PROVE [Table!Next]_(Table!vars)
    <2>1. Table!Expire(t)
      BY <1>4, ExpireEffectivelyOnce
    <2> QED BY <2>1 DEF Table!Next
  <1> QED BY <1>1, <1>2, <1>3, <1>4, QuietEffectivelyOnce DEF Next, Query

\* "offsets + output commit advance atomically per micro-batch" (bronze_streaming.py
\* 10-11): the queries of any number of applications, their logs, replays and retries
\* are to a reader one table per topic that takes in each record once and before
\* its offset is committed, until a checkpoint is rolled back; and even then each
\* record once, and none that is committed already.
THEOREM ImplementsEffectivelyOnce == Spec => TableSpec
  <1> DEFINE Inv == /\ TypeOK /\ QueryInv /\ Increasing /\ RowsBehind
                    /\ CompleteInv /\ NoDuplicateRow /\ SettledInv
  <1>1. Init => Inv
    <2>1. Init => CompleteInv /\ SettledInv
      <3>1. Init => \A t \in Topic : Committed(t) = {}
        BY DEF Init, Committed, StartOf
      <3> QED BY <3>1 DEF Init, CompleteInv, SettledInv
    <2> QED BY <2>1, InitTypeOK, InitQueryInv, InitRows
  <1>2. Inv /\ [Next]_vars => Inv'
    BY NextTypeOK, NextQueryInv, NextIncreasing, NextRows, NextComplete, NextSettled
  <1>3. Inv /\ Inv' /\ [Next]_vars => [Table!Next]_(Table!vars)
    BY NextEffectivelyOnce
  <1> QED BY <1>1, <1>2, <1>3, InitEffectivelyOnce, PTL DEF Spec, TableSpec, Table!Spec
=============================================================================
