------------------------ MODULE EdgeConsumer_proofs -------------------------
(***************************************************************************)
(* Proofs about EdgeConsumer, for any number of replicas, partitions,       *)
(* messages and faults: type correctness; that no path loses a record       *)
(* silently; that it implements Delivery; and, where nothing is dead-       *)
(* lettered, that the committed offsets never go back and every copy in     *)
(* Bronze is paid for by a fault.                                           *)
(***************************************************************************)
EXTENDS EdgeConsumer, FiniteSetTheorems, TLAPS

-----------------------------------------------------------------------------
(* Type correctness *)

LEMMA InitTypeOK == Init => TypeOK
  BY EdgeAssumption DEF Init, TypeOK, Phase, ReturnTo, Nothing

LEMMA SpendAllTypeOK ==
    ASSUME used \in [FaultKind -> Nat], NEW ks \in SUBSET FaultKind, SpendAll(ks)
    PROVE  used' \in [FaultKind -> Nat]
  BY DEF SpendAll

LEMMA SpendTypeOK ==
    ASSUME used \in [FaultKind -> Nat], NEW k \in FaultKind, Spend(k)
    PROVE  used' \in [FaultKind -> Nat]
  BY SpendAllTypeOK DEF Spend

LEMMA GroupTypeOK ==
    ASSUME TypeOK, NEW r \in Replicas,
           \/ \E p \in Partitions : Assign(r, p)
           \/ Expel(r)
           \/ Rejoin(r)
    PROVE  TypeOK'
  <1>1. CASE \E p \in Partitions : Assign(r, p)
    BY <1>1, EdgeAssumption DEF TypeOK, Assign, StartPosition, sinkVars
  <1>2. CASE Expel(r)
    <2>1. used' \in [FaultKind -> Nat]
      BY <1>2, SpendTypeOK DEF TypeOK, Expel, FaultKind
    <2> QED BY <1>2, <2>1 DEF TypeOK, Expel, sinkVars, workerVars
  <1>3. CASE Rejoin(r)
    BY <1>3 DEF TypeOK, Rejoin, sinkVars, workerVars
  <1> QED BY <1>1, <1>2, <1>3

LEMMA UnassignTypeOK ==
    ASSUME TypeOK, NEW r \in Replicas, NEW ps \in SUBSET Partitions, Unassign(r, ps)
    PROVE  /\ position' \in [Replicas -> [Partitions -> Nat \cup {-1}]]
           /\ owner' \in [Partitions -> Replicas \cup {NoOne}]
  BY DEF TypeOK, Unassign

LEMMA OnRevokeTypeOK ==
    ASSUME TypeOK, NEW r \in Replicas, NEW ps \in SUBSET Partitions, OnRevoke(r, ps),
           used' \in [FaultKind -> Nat]
    PROVE  TypeOK'
  <1>1. CASE batch[r] = {}
    <2> UNCHANGED <<pc, after, revoking, batch, pending, member, committed, sinkVars>>
      BY <1>1 DEF OnRevoke
    <2> Unassign(r, ps)
      BY <1>1 DEF OnRevoke
    <2> QED BY UnassignTypeOK DEF TypeOK, sinkVars
  <1>2. CASE batch[r] # {}
    BY <1>2 DEF TypeOK, OnRevoke, Phase, ReturnTo, sinkVars
  <1> QED BY <1>1, <1>2

LEMMA PollTypeOK ==
    ASSUME TypeOK, NEW r \in Replicas, NEW p \in Partitions, Poll(r, p)
    PROVE  TypeOK'
  <1> DEFINE rec == <<p, position[r][p]>>
  <1>1. rec \in Record /\ position[r][p] \in Nat
    BY EdgeAssumption DEF Poll, Record, Offset
  <1>2. position' \in [Replicas -> [Partitions -> Nat \cup {-1}]]
    BY <1>1 DEF Poll, TypeOK
  <1>3. pending' \in [Replicas -> [Partitions -> Nat \cup {-1}]]
    BY <1>1 DEF Poll, TypeOK, MergeOffset
  <1>4. /\ batch' \in [Replicas -> SUBSET Record]
        /\ dlqQueue' \in [Replicas -> SUBSET Record]
        /\ dlq' \subseteq Record
        /\ dlqLost' \subseteq Record
        /\ used' \in [FaultKind -> Nat]
    <2>1. CASE Decoded(r, rec)
      BY <2>1, <1>1 DEF TypeOK, Decoded
    <2>2. CASE Undecodable(r, rec)
      <3>1. used' \in [FaultKind -> Nat]
        <4> PICK spent : spent = IF rec \in Bad THEN {} ELSE {"registry"}
          OBVIOUS
        <4>1. SpendAll(spent) \/ SpendAll(spent \cup {"dlq"})
          BY <2>2 DEF Undecodable, SendToDlq
        <4>2. spent \in SUBSET FaultKind /\ spent \cup {"dlq"} \in SUBSET FaultKind
          BY DEF FaultKind
        <4> QED BY <4>1, <4>2, SpendAllTypeOK DEF TypeOK
      <3>2. batch' \in [Replicas -> SUBSET Record]
        BY <2>2 DEF TypeOK, Undecodable
      <3>3. dlq' \subseteq Record /\ dlqLost' \subseteq Record
        BY <2>2, <1>1 DEF TypeOK, Undecodable, SendToDlq
      <3>4. dlqQueue' \in [Replicas -> SUBSET Record]
        <4>1. dlqQueue[r] \in SUBSET Record
          BY DEF TypeOK
        <4>2. dlqQueue[r] \cup {rec} \in SUBSET Record
          BY <4>1, <1>1
        <4>3. \A delivered : (dlqQueue[r] \ delivered) \cup {rec} \in SUBSET Record
          BY <4>1, <1>1
        <4>4. \E queue \in SUBSET Record : dlqQueue' = [dlqQueue EXCEPT ![r] = queue]
          BY <2>2, <4>1, <4>2, <4>3 DEF TypeOK, Undecodable, SendToDlq
        <4> QED BY <4>4 DEF TypeOK
      <3> QED BY <3>1, <3>2, <3>3, <3>4
    <2> QED BY <2>1, <2>2 DEF Poll
  <1>5. pc' \in [Replicas -> Phase] /\ after' \in [Replicas -> ReturnTo]
    BY DEF Poll, TypeOK, MaybeFlush, Phase, ReturnTo
  <1> QED BY <1>2, <1>3, <1>4, <1>5 DEF Poll, TypeOK, groupVars

LEMMA FlushReturnsTypeOK ==
    ASSUME TypeOK, NEW r \in Replicas, FlushReturns(r)
    PROVE  /\ pc' \in [Replicas -> Phase]
           /\ after' \in [Replicas -> ReturnTo]
           /\ batch' \in [Replicas -> SUBSET Record]
           /\ pending' \in [Replicas -> [Partitions -> Nat \cup {-1}]]
           /\ position' \in [Replicas -> [Partitions -> Nat \cup {-1}]]
           /\ revoking' \in [Replicas -> SUBSET Partitions]
           /\ member' \in [Replicas -> BOOLEAN]
           /\ owner' \in [Partitions -> Replicas \cup {NoOne}]
  <1>1. /\ pc' \in [Replicas -> Phase]
        /\ after' \in [Replicas -> ReturnTo]
        /\ batch' \in [Replicas -> SUBSET Record]
        /\ pending' \in [Replicas -> [Partitions -> Nat \cup {-1}]]
        /\ revoking' \in [Replicas -> SUBSET Partitions]
        /\ member' \in [Replicas -> BOOLEAN]
    BY DEF TypeOK, FlushReturns, Nothing, Phase
  <1>2. /\ position' \in [Replicas -> [Partitions -> Nat \cup {-1}]]
        /\ owner' \in [Partitions -> Replicas \cup {NoOne}]
    <2>1. CASE UNCHANGED <<position, owner>>
      BY <2>1 DEF TypeOK
    <2>2. CASE Unassign(r, revoking[r])
      <3>1. revoking[r] \in SUBSET Partitions
        BY DEF TypeOK
      <3> QED BY <2>2, <3>1, UnassignTypeOK
    <2> QED BY <2>1, <2>2 DEF FlushReturns
  <1> QED BY <1>1, <1>2

LEMMA FlushTypeOK ==
    ASSUME TypeOK, NEW r \in Replicas,
           \/ PollNothing(r)
           \/ WriteSucceeds(r)
           \/ WriteFails(r)
           \/ CommitSucceeds(r)
           \/ CommitFails(r)
           \/ FlushThrows(r)
    PROVE  TypeOK'
  <1>1. CASE PollNothing(r)
    BY <1>1 DEF TypeOK, PollNothing, Phase, ReturnTo, groupVars, sinkVars
  <1>2. CASE WriteSucceeds(r)
    BY <1>2 DEF TypeOK, WriteSucceeds, Store, Phase, groupVars
  <1>3. CASE WriteFails(r)
    <2>1. FlushReturns(r) /\ UNCHANGED <<committed, dlq, dlqLost, abandoned, dlqQueue>>
      BY <1>3 DEF WriteFails
    <2>2. dropped' \subseteq Record /\ used' \in [FaultKind -> Nat]
      BY <1>3, SpendTypeOK DEF TypeOK, WriteFails, FaultKind
    <2>3. bronze' \in [Record -> Nat]
      BY <1>3 DEF TypeOK, WriteFails, Store
    <2> QED BY <2>1, <2>2, <2>3, FlushReturnsTypeOK DEF TypeOK
  <1>4. CASE CommitSucceeds(r)
    <2>1. FlushReturns(r) /\ UNCHANGED <<sinkVars, used>>
      BY <1>4 DEF CommitSucceeds, CommittedAfter
    <2>2. committed' \in [Partitions -> Nat]
      BY <1>4 DEF TypeOK, CommitSucceeds, CommittedAfter
    <2> QED BY <2>1, <2>2, FlushReturnsTypeOK DEF TypeOK, sinkVars
  <1>5. CASE CommitFails(r)
    <2>1. FlushReturns(r) /\ UNCHANGED <<committed, sinkVars>>
      BY <1>5 DEF CommitFails
    <2>2. used' \in [FaultKind -> Nat]
      BY <1>5, SpendTypeOK DEF TypeOK, CommitFails, FaultKind
    <2> QED BY <2>1, <2>2, FlushReturnsTypeOK DEF TypeOK, sinkVars
  <1>6. CASE FlushThrows(r)
    <2>1. used' \in [FaultKind -> Nat] /\ UNCHANGED sinkVars
      BY <1>6, SpendTypeOK DEF TypeOK, FlushThrows, FaultKind
    <2>2. committed' \in [Partitions -> Nat]
      <3>1. committed' = CommittedAfter(r) \/ UNCHANGED committed
        BY <1>6 DEF FlushThrows
      <3>2. CASE committed' = CommittedAfter(r)
        BY <3>2 DEF TypeOK, CommittedAfter
      <3>3. CASE UNCHANGED committed
        BY <3>3 DEF TypeOK
      <3> QED BY <3>1, <3>2, <3>3
    <2>3. CASE FlushReturns(r)
      BY <2>1, <2>2, <2>3, FlushReturnsTypeOK DEF TypeOK, sinkVars
    <2>4. CASE ~FlushReturns(r)
      <3>1. /\ pc' = [pc EXCEPT ![r] = "write"]
            /\ after' = [after EXCEPT ![r] = IF @ = "stop" THEN "quit" ELSE "die"]
            /\ UNCHANGED <<batch, pending, position, revoking, member, owner>>
        BY <1>6, <2>4 DEF FlushThrows
      <3> QED BY <2>1, <2>2, <3>1 DEF TypeOK, Phase, ReturnTo, sinkVars
    <2> QED BY <2>3, <2>4
  <1> QED BY <1>1, <1>2, <1>3, <1>4, <1>5, <1>6

LEMMA ExitTypeOK ==
    ASSUME TypeOK, NEW r \in Replicas,
           \/ Stop(r) \/ Thrown(r) \/ Close(r) \/ Crash(r) \/ Restart(r) \/ DlqDelivery(r)
    PROVE  TypeOK'
  <1>1. CASE Stop(r) \/ Thrown(r)
    <2>1. used' \in [FaultKind -> Nat]
      BY <1>1, SpendTypeOK DEF TypeOK, Stop, Thrown, FaultKind
    <2> QED BY <1>1, <2>1 DEF TypeOK, Stop, Thrown, LeaveLoop, Phase, ReturnTo,
                              groupVars, sinkVars
  <1>2. CASE Close(r)
    <2>1. /\ dlq' \subseteq Record
          /\ dlqLost' \subseteq Record
          /\ used' \in [FaultKind -> Nat]
      BY <1>2, SpendTypeOK DEF TypeOK, Close, FaultKind
    <2> QED BY <1>2, <2>1 DEF TypeOK, Close, Forget, Nothing, Phase, ReturnTo
  <1>3. CASE Crash(r)
    <2>1. used' \in [FaultKind -> Nat]
      BY <1>3, SpendTypeOK DEF TypeOK, Crash, FaultKind
    <2> QED BY <1>3, <2>1 DEF TypeOK, Crash, Forget, Nothing, Phase, ReturnTo
  <1>4. CASE Restart(r)
    BY <1>4 DEF TypeOK, Restart, Phase, sinkVars
  <1>5. CASE DlqDelivery(r)
    <2>1. used' \in [FaultKind -> Nat]
      BY <1>5, SpendTypeOK DEF TypeOK, DlqDelivery, FaultKind
    <2> QED BY <1>5, <2>1 DEF TypeOK, DlqDelivery, workerVars, groupVars
  <1> QED BY <1>1, <1>2, <1>3, <1>4, <1>5

LEMMA NextTypeOK == TypeOK /\ [Next]_vars => TypeOK'
  <1>1. ASSUME TypeOK, Next
        PROVE  TypeOK'
    <2> PICK r \in Replicas :
          \/ Work(r)
          \/ PollNothing(r)
          \/ WriteFails(r)
          \/ FlushThrows(r)
          \/ \E p \in Partitions : Assign(r, p)
          \/ \E ps \in SUBSET Partitions : Revoke(r, ps)
          \/ Expel(r)
          \/ Rejoin(r)
          \/ Stop(r)
          \/ Thrown(r)
          \/ Crash(r)
          \/ Restart(r)
          \/ DlqDelivery(r)
      BY <1>1 DEF Next
    <2>1. CASE \E p \in Partitions : Poll(r, p)
      BY <2>1, <1>1, PollTypeOK
    <2>2. CASE Lost(r)
      BY <2>2, <1>1, OnRevokeTypeOK DEF Lost, Assigned, TypeOK
    <2>3. ASSUME NEW ps \in SUBSET Partitions, Revoke(r, ps)
          PROVE  TypeOK'
      <3>1. used' \in [FaultKind -> Nat]
        BY <2>3, <1>1, SpendTypeOK DEF Revoke, TypeOK, FaultKind
      <3> QED BY <2>3, <3>1, <1>1, OnRevokeTypeOK DEF Revoke
    <2> QED BY <1>1, <2>1, <2>2, <2>3, GroupTypeOK, FlushTypeOK, ExitTypeOK DEF Work
  <1>2. TypeOK /\ UNCHANGED vars => TypeOK'
    BY DEF TypeOK, vars, workerVars, groupVars, sinkVars
  <1> QED BY <1>1, <1>2

\* Every reachable state of the worker group has its type (_TopicWorker 273-308).
THEOREM TypeCorrect == Spec => []TypeOK
  BY InitTypeOK, NextTypeOK, PTL DEF Spec

-----------------------------------------------------------------------------
(* No silent loss.  PassedTraced alone is not inductive: a commit takes its  *)
(* offsets from pending, so what lies below pending, and below the position  *)
(* pending follows, must be accounted for or still be in the batch; and the  *)
(* batch a commit clears must already be in Bronze.                          *)

\* Accounted for, or a dead letter that went with its process.
Traced(rec) == Accounted(rec) \/ rec \in abandoned

PassedTraced == \A rec \in Record : Passed(rec) => Traced(rec)

HandledBehindPosition ==
    \A r \in Replicas, rec \in Record :
        rec[2] < position[r][rec[1]] => Traced(rec) \/ rec \in batch[r]

HandledBehindPending ==
    \A r \in Replicas, rec \in Record :
        rec[2] < pending[r][rec[1]] => Traced(rec) \/ rec \in batch[r]

WrittenBeforeCommit ==
    \A r \in Replicas : pc[r] = "commit" => \A rec \in batch[r] : Traced(rec)

Inv ==
    /\ TypeOK
    /\ PassedTraced
    /\ HandledBehindPosition
    /\ HandledBehindPending
    /\ WrittenBeforeCommit

LEMMA InitInv == Init => Inv
  <1> SUFFICES ASSUME Init PROVE Inv
    OBVIOUS
  <1>1. \A rec \in Record : rec[1] \in Partitions /\ rec[2] \in Nat
    BY EdgeAssumption DEF Record, Offset
  <1>2. TypeOK
    BY InitTypeOK
  <1>3. PassedTraced
    BY <1>1 DEF Init, PassedTraced, Passed
  <1>4. HandledBehindPosition
    BY <1>1 DEF Init, HandledBehindPosition, Nothing
  <1>5. HandledBehindPending
    BY <1>1 DEF Init, HandledBehindPending, Nothing
  <1>6. WrittenBeforeCommit
    BY DEF Init, WrittenBeforeCommit
  <1> QED BY <1>2, <1>3, <1>4, <1>5, <1>6 DEF Inv

\* A sink never forgets: what was accounted for stays so.
TracedKept == \A rec \in Record : Traced(rec) => Traced(rec)'

LEMMA SinksUnchanged ==
    ASSUME UNCHANGED sinkVars
    PROVE  TracedKept
  BY DEF TracedKept, Traced, Accounted, sinkVars

\* A step that keeps what is traced, passes only what is, and only forgets positions,
\* pending offsets, or batches whose records are traced, keeps the invariant.
LEMMA ForgetfulStep ==
    ASSUME Inv, TypeOK', TracedKept,
           NEW r \in Replicas,
           \/ UNCHANGED committed
           \/ \A rec \in Record : Passed(rec)' => Passed(rec) \/ Traced(rec)',
           \A q \in Replicas : q # r =>
               /\ batch'[q] = batch[q]
               /\ pending'[q] = pending[q]
               /\ position'[q] = position[q]
               /\ pc'[q] = pc[q],
           \A p \in Partitions : position'[r][p] \in {-1, position[r][p]},
           \A p \in Partitions : pending'[r][p] \in {-1, pending[r][p]},
           \/ batch'[r] = batch[r]
           \/ \A rec \in batch[r] : Traced(rec)'
           \/ \A p \in Partitions : position'[r][p] = -1 /\ pending'[r][p] = -1,
           pc'[r] = "commit" => \A rec \in batch'[r] : Traced(rec)'
    PROVE  Inv'
  <1>1. \A rec \in Record : rec[1] \in Partitions /\ rec[2] \in Nat
    BY EdgeAssumption DEF Record, Offset
  <1>2. PassedTraced'
    BY DEF Inv, PassedTraced, TracedKept, Passed
  <1>3. HandledBehindPosition'
    <2> SUFFICES ASSUME NEW q \in Replicas, NEW rec \in Record,
                        rec[2] < position'[q][rec[1]]
                 PROVE  Traced(rec)' \/ rec \in batch'[q]
      BY DEF HandledBehindPosition
    <2>1. rec[2] < position[q][rec[1]] /\ position'[q][rec[1]] # -1
      BY <1>1
    <2>2. Traced(rec) \/ rec \in batch[q]
      BY <2>1 DEF Inv, HandledBehindPosition
    <2> QED BY <1>1, <2>1, <2>2 DEF TracedKept
  <1>4. HandledBehindPending'
    <2> SUFFICES ASSUME NEW q \in Replicas, NEW rec \in Record,
                        rec[2] < pending'[q][rec[1]]
                 PROVE  Traced(rec)' \/ rec \in batch'[q]
      BY DEF HandledBehindPending
    <2>1. rec[2] < pending[q][rec[1]] /\ pending'[q][rec[1]] # -1
      BY <1>1
    <2>2. Traced(rec) \/ rec \in batch[q]
      BY <2>1 DEF Inv, HandledBehindPending
    <2> QED BY <1>1, <2>1, <2>2 DEF TracedKept
  <1>5. WrittenBeforeCommit'
    <2> SUFFICES ASSUME NEW q \in Replicas, pc'[q] = "commit", NEW rec \in batch'[q]
                 PROVE  Traced(rec)'
      BY DEF WrittenBeforeCommit
    <2>1. CASE q = r
      BY <2>1
    <2>2. CASE q # r
      <3>1. Traced(rec)
        BY <2>2 DEF Inv, WrittenBeforeCommit
      <3>2. rec \in Record
        BY DEF TypeOK
      <3> QED BY <3>1, <3>2 DEF TracedKept
    <2> QED BY <2>1, <2>2
  <1> QED BY <1>2, <1>3, <1>4, <1>5 DEF Inv

LEMMA AssignInv ==
    ASSUME Inv, TypeOK', NEW r \in Replicas, NEW p \in Partitions, Assign(r, p)
    PROVE  Inv'
  <1> USE DEF Inv
  <1>1. TracedKept
    BY SinksUnchanged DEF Assign
  <1>2. UNCHANGED <<pc, batch, pending, committed>>
    BY DEF Assign
  <1>3. PassedTraced'
    BY <1>1, <1>2 DEF PassedTraced, TracedKept, Passed
  <1>4. HandledBehindPosition'
    <2> SUFFICES ASSUME NEW q \in Replicas, NEW rec \in Record,
                        rec[2] < position'[q][rec[1]]
                 PROVE  Traced(rec)' \/ rec \in batch'[q]
      BY DEF HandledBehindPosition
    <2>1. \/ position'[q][rec[1]] = position[q][rec[1]]
          \/ position'[q][rec[1]] = committed[rec[1]]
      BY DEF Assign, StartPosition, TypeOK
    <2> QED BY <1>1, <1>2, <2>1 DEF HandledBehindPosition, PassedTraced, Passed, TracedKept
  <1>5. HandledBehindPending'
    BY <1>1, <1>2 DEF HandledBehindPending, TracedKept
  <1>6. WrittenBeforeCommit'
    BY <1>1, <1>2 DEF WrittenBeforeCommit, TracedKept, TypeOK
  <1> QED BY <1>3, <1>4, <1>5, <1>6

LEMMA PollInv ==
    ASSUME Inv, TypeOK', NEW r \in Replicas, NEW p \in Partitions, Poll(r, p)
    PROVE  Inv'
  <1> PICK now : now = <<p, position[r][p]>>
    OBVIOUS
  <1> USE DEF Inv
  <1>1. \A rec \in Record : rec[1] \in Partitions /\ rec[2] \in Nat /\ rec = <<rec[1], rec[2]>>
    BY EdgeAssumption DEF Record, Offset
  <1>2. now \in Record /\ position[r][p] \in Nat
    BY EdgeAssumption DEF Poll, Record, Offset
  <1>3. TracedKept /\ batch[r] \subseteq batch'[r] /\ (now \in batch'[r] \/ Traced(now)')
    <2>1. CASE Decoded(r, now)
      <3>1. TracedKept
        BY <2>1, SinksUnchanged DEF Poll, Decoded, sinkVars
      <3> QED BY <2>1, <3>1 DEF Decoded, TypeOK
    <2>2. CASE Undecodable(r, now)
      <3>1. UNCHANGED <<batch, bronze, dropped, abandoned>>
        BY <2>2 DEF Poll, Undecodable
      <3>2. \A q \in Replicas : \A rec \in dlqQueue[q] :
                rec \in dlqQueue'[q] \/ rec \in dlq'
        <4>1. /\ \A rec \in dlqQueue[r] : rec \in dlqQueue'[r] \/ rec \in dlq'
              /\ \A q \in Replicas : q # r => dlqQueue'[q] = dlqQueue[q]
          BY <2>2 DEF Undecodable, SendToDlq, TypeOK
        <4> QED BY <4>1
      <3>3. dlq \subseteq dlq' /\ dlqLost \subseteq dlqLost'
        BY <2>2 DEF Undecodable, SendToDlq
      <3>4. now \in dlqQueue'[r] \/ now \in dlqLost'
        BY <2>2 DEF Undecodable, SendToDlq, TypeOK
      <3>5. TracedKept
        BY <3>1, <3>2, <3>3 DEF TracedKept, Traced, Accounted
      <3> QED BY <3>1, <3>4, <3>5 DEF Traced, Accounted
    <2> QED BY <2>1, <2>2 DEF Poll
  <1>4. /\ UNCHANGED committed
        /\ \A q \in Replicas : q # r =>
              batch'[q] = batch[q] /\ pending'[q] = pending[q] /\ position'[q] = position[q]
        /\ \A q \in Replicas : pc'[q] = "commit" => q # r /\ pc[q] = "commit"
    BY DEF Poll, groupVars, MaybeFlush, Decoded, Undecodable, TypeOK
  <1>5. \A x \in Partitions :
           /\ x # p => position'[r][x] = position[r][x] /\ pending'[r][x] = pending[r][x]
           /\ x = p => /\ position'[r][x] = position[r][x] + 1
                       /\ pending'[r][x] \in {pending[r][x], position[r][x] + 1}
    BY DEF Poll, MergeOffset, TypeOK
  <1>6. PassedTraced'
    BY <1>3, <1>4 DEF PassedTraced, TracedKept, Passed
  <1>7. ASSUME NEW rec \in Record,
               \/ rec[2] < position'[r][rec[1]]
               \/ rec[2] < pending'[r][rec[1]]
        PROVE  Traced(rec)' \/ rec \in batch'[r]
    <2>1. CASE rec = now
      BY <2>1, <1>3
    <2>2. CASE rec # now
      <3>1. rec[2] < position[r][rec[1]] \/ rec[2] < pending[r][rec[1]]
        <4>1. CASE rec[1] = p
          <5>1. rec[2] # position[r][p]
            BY <4>1, <2>2, <1>1
          <5>2. rec[2] < position[r][p] + 1 \/ rec[2] < pending[r][p]
            BY <4>1, <1>5, <1>7
          <5> QED BY <4>1, <5>1, <5>2, <1>1, <1>2
        <4>2. CASE rec[1] # p
          BY <4>2, <1>1, <1>5, <1>7
        <4> QED BY <4>1, <4>2
      <3> QED BY <3>1, <1>3 DEF HandledBehindPosition, HandledBehindPending, TracedKept
    <2> QED BY <2>1, <2>2
  <1>8. HandledBehindPosition'
    BY <1>3, <1>4, <1>7 DEF HandledBehindPosition, TracedKept
  <1>9. HandledBehindPending'
    BY <1>3, <1>4, <1>7 DEF HandledBehindPending, TracedKept
  <1>10. WrittenBeforeCommit'
    BY <1>3, <1>4 DEF WrittenBeforeCommit, TracedKept, TypeOK
  <1> QED BY <1>6, <1>8, <1>9, <1>10

LEMMA UnassignForgets ==
    ASSUME TypeOK, NEW r \in Replicas, NEW ps \in SUBSET Partitions, Unassign(r, ps)
    PROVE  /\ \A q \in Replicas : q # r => position'[q] = position[q]
           /\ \A p \in Partitions : position'[r][p] \in {-1, position[r][p]}
  BY DEF Unassign, TypeOK

LEMMA FlushReturnsForgets ==
    ASSUME TypeOK, NEW r \in Replicas, FlushReturns(r)
    PROVE  /\ \A q \in Replicas : q # r =>
                /\ batch'[q] = batch[q]
                /\ pending'[q] = pending[q]
                /\ position'[q] = position[q]
                /\ pc'[q] = pc[q]
           /\ \A p \in Partitions : position'[r][p] \in {-1, position[r][p]}
           /\ pending'[r] = Nothing
           /\ batch'[r] = {}
           /\ pc'[r] # "commit"
  <1>1. /\ \A q \in Replicas : q # r => position'[q] = position[q]
        /\ \A p \in Partitions : position'[r][p] \in {-1, position[r][p]}
    <2>1. CASE UNCHANGED <<position, owner>>
      BY <2>1
    <2>2. CASE Unassign(r, revoking[r])
      <3>1. revoking[r] \in SUBSET Partitions
        BY DEF TypeOK
      <3> QED BY <2>2, <3>1, UnassignForgets
    <2> QED BY <2>1, <2>2 DEF FlushReturns
  <1> QED BY <1>1 DEF FlushReturns, TypeOK, Nothing

LEMMA OnRevokeInv ==
    ASSUME Inv, TypeOK', NEW r \in Replicas, NEW ps \in SUBSET Partitions, OnRevoke(r, ps),
           pc[r] = "poll"
    PROVE  Inv'
  <1> USE DEF Inv
  <1>1. TracedKept /\ UNCHANGED <<committed, batch, pending>>
    BY SinksUnchanged DEF OnRevoke
  <1>2. /\ \A q \in Replicas : q # r => position'[q] = position[q] /\ pc'[q] = pc[q]
        /\ \A p \in Partitions : position'[r][p] \in {-1, position[r][p]}
        /\ pc'[r] # "commit"
    BY UnassignForgets DEF OnRevoke, TypeOK
  <1> QED BY <1>1, <1>2, ForgetfulStep

\* The commit passes what lies below pending: traced, or in the batch just written.
LEMMA CommittedTraced ==
    ASSUME Inv, NEW r \in Replicas, pc[r] = "commit", UNCHANGED sinkVars
    PROVE  /\ TracedKept
           /\ \A rec \in batch[r] : Traced(rec)'
           /\ committed' = CommittedAfter(r) =>
                \A rec \in Record : Passed(rec)' => Passed(rec) \/ Traced(rec)'
  <1> USE DEF Inv
  <1>1. TracedKept
    BY SinksUnchanged
  <1>2. \A rec \in batch[r] : Traced(rec)'
    BY <1>1 DEF WrittenBeforeCommit, TracedKept, TypeOK
  <1>3. ASSUME committed' = CommittedAfter(r), NEW rec \in Record, Passed(rec)'
        PROVE  Passed(rec) \/ Traced(rec)'
    <2>1. rec[1] \in Partitions /\ rec[2] \in Nat
      BY EdgeAssumption DEF Record, Offset
    <2>2. rec[2] < committed[rec[1]] \/ rec[2] < pending[r][rec[1]]
      BY <1>3, <2>1 DEF CommittedAfter, Passed
    <2> QED BY <1>1, <1>2, <2>2 DEF HandledBehindPending, TracedKept, Passed
  <1> QED BY <1>1, <1>2, <1>3

LEMMA FlushInv ==
    ASSUME Inv, TypeOK', NEW r \in Replicas,
           \/ WriteSucceeds(r) \/ WriteFails(r)
           \/ CommitFails(r) \/ CommitSucceeds(r) \/ FlushThrows(r)
    PROVE  Inv'
  <1> USE DEF Inv
  <1>1. CASE WriteSucceeds(r)
    <2>1. TracedKept
      BY <1>1 DEF WriteSucceeds, Store, TracedKept, Traced, Accounted, TypeOK
    <2>2. \A rec \in batch'[r] : Traced(rec)'
      BY <1>1 DEF WriteSucceeds, Store, Traced, Accounted, TypeOK
    <2>3. /\ UNCHANGED <<committed, batch, pending, position>>
          /\ \A q \in Replicas : q # r => pc'[q] = pc[q]
      BY <1>1 DEF WriteSucceeds, Store, groupVars, TypeOK
    <2> QED BY <2>1, <2>2, <2>3, ForgetfulStep
  <1>2. CASE WriteFails(r)
    <2>1. TracedKept /\ (\A rec \in batch[r] : Traced(rec)') /\ UNCHANGED committed
      BY <1>2 DEF WriteFails, Store, TracedKept, Traced, Accounted, TypeOK
    <2>2. FlushReturns(r)
      BY <1>2 DEF WriteFails
    <2> QED BY <2>1, <2>2, FlushReturnsForgets, ForgetfulStep DEF Nothing
  <1>3. CASE CommitFails(r)
    <2>1. TracedKept /\ UNCHANGED committed
      BY <1>3, SinksUnchanged DEF CommitFails
    <2>2. \A rec \in batch[r] : Traced(rec)'
      BY <1>3, <2>1 DEF CommitFails, WrittenBeforeCommit, TracedKept, TypeOK
    <2>3. FlushReturns(r)
      BY <1>3 DEF CommitFails
    <2> QED BY <2>1, <2>2, <2>3, FlushReturnsForgets, ForgetfulStep DEF Nothing
  <1>4. CASE CommitSucceeds(r)
    <2>1. FlushReturns(r) /\ UNCHANGED sinkVars /\ committed' = CommittedAfter(r)
      BY <1>4 DEF CommitSucceeds
    <2> QED BY <1>4, <2>1, CommittedTraced, FlushReturnsForgets, ForgetfulStep
            DEF CommitSucceeds, Nothing
  <1>5. CASE FlushThrows(r)
    <2>1. UNCHANGED sinkVars /\ pc[r] = "commit"
          /\ (committed' = CommittedAfter(r) \/ UNCHANGED committed)
      BY <1>5 DEF FlushThrows
    <2>2. TracedKept /\ (\A rec \in batch[r] : Traced(rec)')
      BY <2>1, CommittedTraced
    <2>3. \A rec \in Record : Passed(rec)' => Passed(rec) \/ Traced(rec)'
      <3>1. CASE committed' = CommittedAfter(r)
        BY <2>1, <3>1, CommittedTraced
      <3>2. CASE UNCHANGED committed
        BY <3>2 DEF Passed
      <3> QED BY <2>1, <3>1, <3>2
    <2>4. CASE FlushReturns(r)
      BY <2>2, <2>3, <2>4, FlushReturnsForgets, ForgetfulStep DEF Nothing
    <2>5. CASE UNCHANGED <<batch, pending, position>> /\ pc' = [pc EXCEPT ![r] = "write"]
      <3>1. pc'[r] # "commit" /\ \A q \in Replicas : q # r => pc'[q] = pc[q]
        BY <2>5 DEF TypeOK
      <3> QED BY <2>2, <2>3, <2>5, <3>1, ForgetfulStep
    <2> QED BY <1>5, <2>4, <2>5 DEF FlushThrows
  <1> QED BY <1>1, <1>2, <1>3, <1>4, <1>5

LEMMA ExitInv ==
    ASSUME Inv, TypeOK', NEW r \in Replicas,
           \/ PollNothing(r) \/ Stop(r) \/ Thrown(r) \/ Close(r) \/ Crash(r)
           \/ Restart(r) \/ DlqDelivery(r) \/ Expel(r) \/ Rejoin(r)
    PROVE  Inv'
  <1> USE DEF Inv
  <1>1. CASE Close(r) \/ Crash(r)
    <2>1. TracedKept /\ UNCHANGED committed
      <3>1. UNCHANGED <<committed, bronze, dropped>>
        BY <1>1 DEF Close, Crash
      <3>2. dlq \subseteq dlq' /\ dlqLost \subseteq dlqLost' /\ abandoned \subseteq abandoned'
        BY <1>1 DEF Close, Crash
      <3>3. \A rec \in dlqQueue[r] : rec \in dlq' \cup dlqLost' \cup abandoned'
        BY <1>1 DEF Close, Crash
      <3>4. \A q \in Replicas : q # r => dlqQueue'[q] = dlqQueue[q]
        BY <1>1 DEF Close, Crash, Forget, TypeOK
      <3> QED BY <3>1, <3>2, <3>3, <3>4 DEF TracedKept, Traced, Accounted
    <2>2. /\ \A q \in Replicas : q # r =>
                /\ batch'[q] = batch[q]
                /\ pending'[q] = pending[q]
                /\ position'[q] = position[q]
                /\ pc'[q] = pc[q]
          /\ position'[r] = Nothing
          /\ pending'[r] = Nothing
          /\ pc'[r] # "commit"
      BY <1>1 DEF Close, Crash, Forget, TypeOK
    <2> QED BY <2>1, <2>2, ForgetfulStep DEF Nothing
  <1>2. CASE DlqDelivery(r)
    <2>1. TracedKept
      <3>1. UNCHANGED <<bronze, dropped, abandoned>>
        BY <1>2 DEF DlqDelivery
      <3>2. dlq \subseteq dlq' /\ dlqLost \subseteq dlqLost'
        BY <1>2 DEF DlqDelivery
      <3>3. \A q \in Replicas : \A rec \in dlqQueue[q] :
                rec \in dlqQueue'[q] \/ rec \in dlq' \cup dlqLost'
        BY <1>2 DEF DlqDelivery, TypeOK
      <3> QED BY <3>1, <3>2, <3>3 DEF TracedKept, Traced, Accounted
    <2>2. UNCHANGED <<pc, batch, pending, position, committed>>
      BY <1>2 DEF DlqDelivery, workerVars, groupVars
    <2>3. pc'[r] = "commit" => \A rec \in batch'[r] : Traced(rec)'
      BY <2>1, <2>2 DEF WrittenBeforeCommit, TracedKept, TypeOK
    <2> QED BY <2>1, <2>2, <2>3, ForgetfulStep
  <1>3. CASE Expel(r) \/ Rejoin(r)
    <2>1. TracedKept /\ UNCHANGED <<pc, batch, pending, position, committed>>
      BY <1>3, SinksUnchanged DEF Expel, Rejoin, workerVars
    <2>2. pc'[r] = "commit" => \A rec \in batch'[r] : Traced(rec)'
      BY <2>1 DEF WrittenBeforeCommit, TracedKept, TypeOK
    <2> QED BY <2>1, <2>2, ForgetfulStep
  <1>4. CASE PollNothing(r) \/ Stop(r) \/ Thrown(r) \/ Restart(r)
    <2>1. TracedKept /\ UNCHANGED <<batch, pending, position, committed>>
      BY <1>4, SinksUnchanged DEF PollNothing, Stop, Thrown, LeaveLoop, Restart, groupVars
    <2>2. pc'[r] # "commit" /\ \A q \in Replicas : q # r => pc'[q] = pc[q]
      BY <1>4 DEF PollNothing, Stop, Thrown, LeaveLoop, Restart, TypeOK
    <2> QED BY <2>1, <2>2, ForgetfulStep
  <1> QED BY <1>1, <1>2, <1>3, <1>4

LEMMA NextInv == Inv /\ [Next]_vars => Inv'
  <1>1. ASSUME Inv, Next
        PROVE  Inv'
    <2>0. TypeOK'
      BY <1>1, NextTypeOK DEF Inv
    <2> PICK r \in Replicas :
          \/ Work(r)
          \/ PollNothing(r)
          \/ WriteFails(r)
          \/ FlushThrows(r)
          \/ \E p \in Partitions : Assign(r, p)
          \/ \E ps \in SUBSET Partitions : Revoke(r, ps)
          \/ Expel(r)
          \/ Rejoin(r)
          \/ Stop(r)
          \/ Thrown(r)
          \/ Crash(r)
          \/ Restart(r)
          \/ DlqDelivery(r)
      BY <1>1 DEF Next
    <2>1. CASE \E p \in Partitions : Assign(r, p)
      BY <2>0, <2>1, <1>1, AssignInv
    <2>2. CASE \E p \in Partitions : Poll(r, p)
      BY <2>0, <2>2, <1>1, PollInv
    <2>3. CASE \E ps \in SUBSET Partitions : Revoke(r, ps)
      BY <2>0, <2>3, <1>1, OnRevokeInv DEF Revoke
    <2>4. CASE Lost(r)
      BY <2>0, <2>4, <1>1, OnRevokeInv DEF Lost, Assigned
    <2> QED BY <2>0, <2>1, <2>2, <2>3, <2>4, <1>1, FlushInv, ExitInv DEF Work
  <1>2. Inv /\ UNCHANGED vars => Inv'
    BY DEF Inv, TypeOK, PassedTraced, Passed, Traced, Accounted, HandledBehindPosition,
           HandledBehindPending, WrittenBeforeCommit, vars, workerVars, groupVars, sinkVars
  <1> QED BY <1>1, <1>2

\* What a process may take with it: dead letters only, and only by crashing.
LetterInv ==
    /\ abandoned # {} => used["crash"] > 0
    /\ \A rec \in abandoned : rec \in Bad \/ used["registry"] > 0
    /\ \A r \in Replicas : \A rec \in dlqQueue[r] : rec \in Bad \/ used["registry"] > 0

LEMMA NextLetters == TypeOK /\ LetterInv /\ [Next]_vars => LetterInv'
  <1> SUFFICES ASSUME TypeOK, LetterInv, [Next]_vars
               PROVE  LetterInv'
    OBVIOUS
  <1> USE DEF LetterInv
  <1>0. \A ks \in SUBSET FaultKind : SpendAll(ks) =>
            used'["crash"] >= used["crash"] /\ used'["registry"] >= used["registry"]
    BY DEF SpendAll, TypeOK, FaultKind
  <1>1. ASSUME NEW r \in Replicas, NEW p \in Partitions, Poll(r, p)
        PROVE  LetterInv'
    <2> PICK rec : rec = <<p, position[r][p]>>
      OBVIOUS
    <2>1. UNCHANGED abandoned
      BY <1>1 DEF Poll
    <2>2. CASE Decoded(r, rec)
      BY <2>1, <2>2 DEF Decoded
    <2>3. CASE Undecodable(r, rec)
      <3> PICK spent : spent = IF rec \in Bad THEN {} ELSE {"registry"}
        OBVIOUS
      <3>1. SendToDlq(r, rec, spent)
        BY <2>3 DEF Undecodable
      <3>2. SpendAll(spent) \/ SpendAll(spent \cup {"dlq"})
        BY <3>1 DEF SendToDlq
      <3>3. spent \in SUBSET FaultKind /\ spent \cup {"dlq"} \in SUBSET FaultKind
        BY DEF FaultKind
      <3>4. used'["crash"] >= used["crash"] /\ used'["registry"] >= used["registry"]
        BY <1>0, <3>2, <3>3
      <3>5. rec \in Bad \/ used'["registry"] > 0
        BY <3>2, <3>3 DEF SpendAll, TypeOK, FaultKind
      <3>6. /\ dlqQueue'[r] \subseteq dlqQueue[r] \cup {rec}
            /\ \A q \in Replicas : q # r => dlqQueue'[q] = dlqQueue[q]
        BY <3>1 DEF SendToDlq, TypeOK
      <3>7. used["crash"] \in Nat /\ used["registry"] \in Nat
            /\ used'["crash"] \in Nat /\ used'["registry"] \in Nat
        BY <3>2 DEF SpendAll, TypeOK, FaultKind
      <3> QED BY <2>1, <3>4, <3>5, <3>6, <3>7
    <2> QED BY <1>1, <2>2, <2>3 DEF Poll
  <1>2. ASSUME NEW r \in Replicas, Crash(r)
        PROVE  LetterInv'
    <2>1. /\ used'["crash"] > 0 /\ used'["registry"] = used["registry"]
          /\ abandoned' = abandoned \cup dlqQueue[r]
          /\ \A q \in Replicas : dlqQueue'[q] \subseteq dlqQueue[q]
      BY <1>2 DEF Crash, Forget, Spend, SpendAll, TypeOK, FaultKind
    <2> QED BY <2>1
  <1>3. ASSUME NEW r \in Replicas, Close(r) \/ DlqDelivery(r)
        PROVE  LetterInv'
    <2>1. UNCHANGED abandoned /\ \A q \in Replicas : dlqQueue'[q] \subseteq dlqQueue[q]
      BY <1>3 DEF Close, Forget, DlqDelivery, TypeOK
    <2>2. UNCHANGED used \/ SpendAll({"dlq"})
      BY <1>3 DEF Close, DlqDelivery, Spend
    <2>3. used'["crash"] = used["crash"] /\ used'["registry"] = used["registry"]
      BY <2>2 DEF SpendAll, TypeOK, FaultKind
    <2> QED BY <2>1, <2>3
  <1>4. ASSUME NEW r \in Replicas,
               \/ WriteSucceeds(r) \/ WriteFails(r) \/ CommitSucceeds(r) \/ CommitFails(r)
               \/ FlushThrows(r) \/ \E p \in Partitions : Assign(r, p)
               \/ \E ps \in SUBSET Partitions : Revoke(r, ps)
               \/ Lost(r) \/ PollNothing(r) \/ Expel(r) \/ Rejoin(r)
               \/ Stop(r) \/ Thrown(r) \/ Restart(r)
        PROVE  LetterInv'
    <2>1. UNCHANGED <<abandoned, dlqQueue>>
      BY <1>4 DEF WriteSucceeds, WriteFails, CommitSucceeds, CommitFails, FlushThrows, Assign,
                  Revoke, Lost, OnRevoke, PollNothing, Expel, Rejoin, Stop, Thrown, LeaveLoop,
                  Restart, sinkVars
    <2>2. UNCHANGED used \/ \E k \in FaultKind \ {"crash", "registry"} : SpendAll({k})
      BY <1>4 DEF WriteSucceeds, WriteFails, CommitSucceeds, CommitFails, FlushThrows, Assign,
                  Revoke, Lost, PollNothing, Expel, Rejoin, Stop, Thrown, Restart, Spend,
                  FaultKind
    <2>3. used'["crash"] = used["crash"] /\ used'["registry"] = used["registry"]
      BY <2>2 DEF SpendAll, TypeOK, FaultKind
    <2> QED BY <2>1, <2>3
  <1>5. CASE UNCHANGED vars
    BY <1>5 DEF vars, sinkVars
  <1> QED BY <1>1, <1>2, <1>3, <1>4, <1>5 DEF Next, Work

\* Whatever fails, and in whatever order: a record below a committed offset was
\* written to Bronze, dead-lettered, queued for it, or reported lost (_flush 505-567),
\* or it is a dead letter that a crash took from a producer's queue.
THEOREM OnlyCrashIsSilent == Spec => []OnlyCrashedLettersVanish
  <1>1. Init => LetterInv
    BY DEF Init, LetterInv
  <1>2. Inv /\ LetterInv => OnlyCrashedLettersVanish
    <2> SUFFICES ASSUME Inv, LetterInv, NEW rec \in Record, Passed(rec), ~Accounted(rec)
                 PROVE  /\ rec \in abandoned
                        /\ used["crash"] > 0
                        /\ rec \in Bad \/ used["registry"] > 0
      BY DEF OnlyCrashedLettersVanish
    <2>1. rec \in abandoned
      BY DEF Inv, PassedTraced, Traced
    <2>2. rec \in Bad \/ used["registry"] > 0
      BY <2>1 DEF LetterInv
    <2> QED BY <2>1, <2>2 DEF LetterInv
  <1>3. Inv => TypeOK
    BY DEF Inv
  <1> QED BY <1>1, <1>2, <1>3, InitInv, NextInv, NextLetters, PTL DEF Spec

-----------------------------------------------------------------------------
(* At-least-once, when no GCS write and no schema lookup fails: then nothing *)
(* is ever dropped, and only undecodable messages reach the DLQ producer, so *)
(* a decodable record that is accounted for is in Bronze.                    *)

OnlyBadDeadLettered ==
    /\ dropped = {}
    /\ dlq \cup dlqLost \cup abandoned \subseteq Bad
    /\ \A r \in Replicas : dlqQueue[r] \subseteq Bad

LEMMA NextOnlyBad ==
    ASSUME MaxFaults["gcs"] = 0, MaxFaults["registry"] = 0, TypeOK, OnlyBadDeadLettered, [Next]_vars
    PROVE  OnlyBadDeadLettered'
  <1> USE DEF OnlyBadDeadLettered
  <1>1. CASE UNCHANGED sinkVars
    BY <1>1 DEF sinkVars
  <1>2. ASSUME NEW r \in Replicas, NEW p \in Partitions, Poll(r, p)
        PROVE  OnlyBadDeadLettered'
    <2>1. CASE Decoded(r, <<p, position[r][p]>>)
      BY <1>2, <2>1 DEF Poll, Decoded
    <2>2. CASE Undecodable(r, <<p, position[r][p]>>)
      <3>0. <<p, position[r][p]>> \in Bad
        <4> SUFFICES ASSUME <<p, position[r][p]>> \notin Bad
                     PROVE  FALSE
          OBVIOUS
        <4>1. SpendAll({"registry"}) \/ SpendAll({"registry"} \cup {"dlq"})
          BY <2>2 DEF Undecodable, SendToDlq
        <4>2. used["registry"] < MaxFaults["registry"] /\ used["registry"] \in Nat
          BY <4>1 DEF SpendAll, TypeOK, FaultKind
        <4> QED BY <4>2
      <3>1. <<p, position[r][p]>> \in Bad /\ UNCHANGED dropped
        BY <1>2, <3>0 DEF Poll
      <3>2. dlq' \cup dlqLost' \cup abandoned' \subseteq Bad
        BY <1>2, <2>2, <3>1 DEF Poll, Undecodable, SendToDlq
      <3>3. \A q \in Replicas : dlqQueue'[q] \subseteq Bad
        <4>1. /\ dlqQueue'[r] \subseteq dlqQueue[r] \cup {<<p, position[r][p]>>}
              /\ \A q \in Replicas : q # r => dlqQueue'[q] = dlqQueue[q]
          BY <2>2 DEF Undecodable, SendToDlq, TypeOK
        <4> QED BY <3>1, <4>1
      <3> QED BY <3>1, <3>2, <3>3
    <2> QED BY <1>2, <2>1, <2>2 DEF Poll
  <1>3. ASSUME NEW r \in Replicas, WriteSucceeds(r)
        PROVE  OnlyBadDeadLettered'
    BY <1>3 DEF WriteSucceeds, Store
  <1>4. ASSUME NEW r \in Replicas, WriteFails(r)
        PROVE  FALSE
    BY <1>4 DEF WriteFails, Store, Spend, SpendAll, TypeOK, FaultKind
  <1>5. ASSUME NEW r \in Replicas, Close(r) \/ Crash(r)
        PROVE  OnlyBadDeadLettered'
    BY <1>5 DEF Close, Crash, Forget, TypeOK
  <1>6. ASSUME NEW r \in Replicas, DlqDelivery(r)
        PROVE  OnlyBadDeadLettered'
    BY <1>6 DEF DlqDelivery, TypeOK
  <1>7. CASE UNCHANGED vars
    BY <1>7 DEF vars, sinkVars
  <1>8. ASSUME NEW r \in Replicas,
               \/ \E p \in Partitions : Assign(r, p)
               \/ \E ps \in SUBSET Partitions : Revoke(r, ps)
               \/ Lost(r) \/ PollNothing(r) \/ CommitSucceeds(r) \/ CommitFails(r)
               \/ FlushThrows(r) \/ Expel(r) \/ Rejoin(r) \/ Stop(r) \/ Thrown(r) \/ Restart(r)
        PROVE  UNCHANGED sinkVars
    BY <1>8 DEF Assign, Revoke, Lost, OnRevoke, PollNothing, CommitSucceeds, CommittedAfter, CommitFails,
                FlushThrows, Expel, Rejoin, Stop, Thrown, LeaveLoop, Restart
  <1> QED BY <1>1, <1>2, <1>3, <1>4, <1>5, <1>6, <1>7, <1>8 DEF Next, Work

\* "Offsets are committed only AFTER a confirmed GCS write (at-least-once)"
\* (kafka_consumer.py 16) is true of every run in which no GCS write fails and the
\* schema registry always answers, through any crashes, failed commits, expired
\* sessions and rebalances.
THEOREM AtLeastOnceWithoutGcsFailure ==
    ASSUME MaxFaults["gcs"] = 0, MaxFaults["registry"] = 0
    PROVE  Spec => []AtLeastOnce
  <1>1. Init => OnlyBadDeadLettered
    BY DEF Init, OnlyBadDeadLettered
  <1>2. TypeOK /\ OnlyBadDeadLettered /\ [Next]_vars => OnlyBadDeadLettered'
    BY NextOnlyBad
  <1>3. Inv /\ OnlyBadDeadLettered => AtLeastOnce
    BY DEF Inv, PassedTraced, Traced, OnlyBadDeadLettered, AtLeastOnce, Accounted
  <1>4. Inv => TypeOK
    BY DEF Inv
  <1> QED BY <1>1, <1>2, <1>3, <1>4, InitInv, NextInv, PTL DEF Spec

-----------------------------------------------------------------------------
(* EdgeConsumer implements Delivery: initial states map to initial states,   *)
(* and every step maps to a step of Delivery or leaves its variables alone.  *)

\* Only what decodes gets into a batch.
DecodedOnly == \A r \in Replicas : batch[r] \cap Bad = {}

LEMMA InitDecodedOnly == Init => DecodedOnly
  BY DEF Init, DecodedOnly

LEMMA NextDecodedOnly == TypeOK /\ DecodedOnly /\ [Next]_vars => DecodedOnly'
  <1> SUFFICES ASSUME TypeOK, DecodedOnly, [Next]_vars
               PROVE  DecodedOnly'
    OBVIOUS
  <1> USE DEF DecodedOnly, TypeOK
  <1>1. ASSUME NEW r \in Replicas, NEW p \in Partitions, Poll(r, p)
        PROVE  DecodedOnly'
    <2>1. CASE Decoded(r, <<p, position[r][p]>>)
      BY <2>1 DEF Decoded
    <2>2. CASE Undecodable(r, <<p, position[r][p]>>)
      BY <2>2 DEF Undecodable
    <2> QED BY <1>1, <2>1, <2>2 DEF Poll
  <1>2. ASSUME NEW r \in Replicas,
               \/ WriteFails(r) \/ CommitSucceeds(r) \/ CommitFails(r) \/ FlushThrows(r)
               \/ Close(r) \/ Crash(r)
        PROVE  DecodedOnly'
    BY <1>2 DEF WriteFails, CommitSucceeds, CommitFails, FlushThrows, FlushReturns, Close,
                Crash, Forget
  <1>3. ASSUME NEW r \in Replicas,
               \/ \E p \in Partitions : Assign(r, p)
               \/ \E ps \in SUBSET Partitions : Revoke(r, ps)
               \/ Lost(r) \/ PollNothing(r) \/ WriteSucceeds(r) \/ DlqDelivery(r)
               \/ Expel(r) \/ Rejoin(r) \/ Stop(r) \/ Thrown(r) \/ Restart(r)
        PROVE  UNCHANGED batch
    BY <1>3 DEF Assign, Revoke, Lost, OnRevoke, PollNothing, WriteSucceeds, DlqDelivery,
                Expel, Rejoin, Stop, Thrown, LeaveLoop, Restart, workerVars
  <1>4. CASE UNCHANGED vars
    BY <1>4 DEF vars, workerVars
  <1> QED BY <1>1, <1>2, <1>3, <1>4 DEF Next, Work

-----------------------------------------------------------------------------
(* Initial states *)

LEMMA InitRefines == Init => Delivered!Init
  <1> SUFFICES ASSUME Init
               PROVE  Delivered!Init
    OBVIOUS
  <1>1. Stored = {}
    BY DEF Init, Stored
  <1>2. Queued = {}
    BY DEF Init, Queued
  <1>3. dlq = {} /\ Reported = {} /\ abandoned = {} /\ committed = [p \in Partitions |-> 0]
    BY DEF Init, Reported
  <1> QED BY <1>1, <1>2, <1>3 DEF Delivered!Init

-----------------------------------------------------------------------------
(* Steps *)

\* Nothing that Delivery sees has changed.
LEMMA UnseenStep ==
    ASSUME UNCHANGED sinkVars, UNCHANGED committed
    PROVE  UNCHANGED Delivered!vars
  <1>1. UNCHANGED <<Stored, Queued, dlq, Reported, abandoned, committed>>
    BY DEF sinkVars, Stored, Queued, Reported
  <1> QED BY <1>1 DEF Delivered!vars

\* One replica's queue gains arrived and loses out, every other queue stays.
LEMMA QueueChanges ==
    ASSUME TypeOK, NEW r \in Replicas, NEW arrived, NEW out,
           dlqQueue'[r] \subseteq dlqQueue[r] \cup arrived,
           (dlqQueue[r] \cup arrived) \ out \subseteq dlqQueue'[r],
           \A q \in Replicas : q # r => dlqQueue'[q] = dlqQueue[q]
    PROVE  /\ (Queued \cup arrived) \ out \subseteq Queued'
           /\ Queued' \subseteq Queued \cup arrived
  <1>1. ASSUME NEW rec \in (Queued \cup arrived) \ out
        PROVE  rec \in Queued'
    <2>1. CASE rec \in arrived
      <3>1. rec \in dlqQueue'[r]
        BY <2>1
      <3> QED BY <3>1 DEF Queued
    <2>2. CASE rec \in Queued
      <3> PICK q \in Replicas : rec \in dlqQueue[q]
        BY <2>2 DEF Queued
      <3>1. rec \in dlqQueue'[q]
        OBVIOUS
      <3> QED BY <3>1 DEF Queued
    <2> QED BY <2>1, <2>2
  <1>2. ASSUME NEW rec \in Queued'
        PROVE  rec \in Queued \cup arrived
    <2> PICK q \in Replicas : rec \in dlqQueue'[q]
      BY <1>2 DEF Queued
    <2>1. rec \in dlqQueue[q] \cup arrived
      OBVIOUS
    <2> QED BY <2>1 DEF Queued
  <1> QED BY <1>1, <1>2

\* The same, with what left the queue delivered or reported: the step is a Leave.
LEMMA QueueLeaves ==
    ASSUME TypeOK, NEW r \in Replicas, NEW arrived, NEW out,
           out \subseteq dlqQueue[r] \cup arrived,
           dlqQueue'[r] \subseteq dlqQueue[r] \cup arrived,
           (dlqQueue[r] \cup arrived) \ out \subseteq dlqQueue'[r],
           \A q \in Replicas : q # r => dlqQueue'[q] = dlqQueue[q],
           UNCHANGED dropped,
           dlq \subseteq dlq', dlqLost \subseteq dlqLost',
           dlq' \cup dlqLost' = dlq \cup dlqLost \cup out
    PROVE  Delivered!Leave(Queued \cup arrived)
  <1>1. /\ (Queued \cup arrived) \ out \subseteq Queued'
        /\ Queued' \subseteq Queued \cup arrived
    BY QueueChanges
  <1>2. Reported \subseteq Reported' /\ dlq' \cup Reported' = dlq \cup Reported \cup out
    BY DEF Reported
  <1>3. out \in SUBSET (Queued \cup arrived)
    BY DEF Queued
  <1> QED BY <1>1, <1>2, <1>3 DEF Delivered!Leave

LEMMA DeadLetterRefines ==
    ASSUME TypeOK, NEW r \in Replicas, NEW rec \in Record, Undecodable(r, rec),
           UNCHANGED <<bronze, dropped, abandoned, committed>>
    PROVE  Delivered!DeadLetter
  <1>1. UNCHANGED <<Stored, abandoned, committed>>
    BY DEF Stored
  <1>2. dlqQueue \in [Replicas -> SUBSET Record]
    BY DEF TypeOK
  <1>3. Delivered!Leave(Queued \cup {rec})
    <2>1. CASE UNCHANGED <<dlq, dlqLost>> /\ dlqQueue' = [dlqQueue EXCEPT ![r] = @ \cup {rec}]
      <3> DEFINE out == {}
      <3>1. /\ out \subseteq dlqQueue[r] \cup {rec}
            /\ dlqQueue'[r] \subseteq dlqQueue[r] \cup {rec}
            /\ (dlqQueue[r] \cup {rec}) \ out \subseteq dlqQueue'[r]
            /\ \A q \in Replicas : q # r => dlqQueue'[q] = dlqQueue[q]
            /\ dlq \subseteq dlq' /\ dlqLost \subseteq dlqLost'
            /\ dlq' \cup dlqLost' = dlq \cup dlqLost \cup out
        BY <2>1, <1>2
      <3> HIDE DEF out
      <3> QED BY <3>1, QueueLeaves
    <2>2. ASSUME NEW delivered \in SUBSET dlqQueue[r],
                 dlqQueue' = [dlqQueue EXCEPT ![r] = (@ \ delivered) \cup {rec}],
                 dlq' = dlq \cup delivered, UNCHANGED dlqLost
          PROVE  Delivered!Leave(Queued \cup {rec})
      <3>1. /\ delivered \subseteq dlqQueue[r] \cup {rec}
            /\ dlqQueue'[r] \subseteq dlqQueue[r] \cup {rec}
            /\ (dlqQueue[r] \cup {rec}) \ delivered \subseteq dlqQueue'[r]
            /\ \A q \in Replicas : q # r => dlqQueue'[q] = dlqQueue[q]
            /\ dlq \subseteq dlq' /\ dlqLost \subseteq dlqLost'
            /\ dlq' \cup dlqLost' = dlq \cup dlqLost \cup delivered
        BY <2>2, <1>2
      <3> QED BY <3>1, QueueLeaves
    <2>3. CASE dlqLost' = dlqLost \cup {rec} /\ UNCHANGED <<dlqQueue, dlq>>
      <3>1. /\ {rec} \subseteq dlqQueue[r] \cup {rec}
            /\ dlqQueue'[r] \subseteq dlqQueue[r] \cup {rec}
            /\ (dlqQueue[r] \cup {rec}) \ {rec} \subseteq dlqQueue'[r]
            /\ \A q \in Replicas : q # r => dlqQueue'[q] = dlqQueue[q]
            /\ dlq \subseteq dlq' /\ dlqLost \subseteq dlqLost'
            /\ dlq' \cup dlqLost' = dlq \cup dlqLost \cup {rec}
        BY <2>3
      <3> QED BY <3>1, QueueLeaves
    <2> QED BY <2>1, <2>2, <2>3 DEF Undecodable, SendToDlq
  <1> QED BY <1>1, <1>3 DEF Delivered!DeadLetter

LEMMA SettleRefines ==
    ASSUME TypeOK, NEW r \in Replicas, Close(r) \/ DlqDelivery(r)
    PROVE  Delivered!Settle
  <1>1. UNCHANGED <<Stored, abandoned, committed, dropped>>
    BY DEF Close, DlqDelivery, Stored, groupVars
  <1>2. dlqQueue \in [Replicas -> SUBSET Record]
    BY DEF TypeOK
  <1>3. Delivered!Leave(Queued \cup {})
    <2>1. CASE Close(r)
      <3> PICK out : out = dlqQueue[r]
        OBVIOUS
      <3>1. /\ dlqQueue' = [dlqQueue EXCEPT ![r] = {}]
            /\ dlq \subseteq dlq' /\ dlqLost \subseteq dlqLost'
            /\ dlq' \cup dlqLost' = dlq \cup dlqLost \cup out
        BY <2>1 DEF Close, Forget
      <3>2. /\ out \subseteq dlqQueue[r] \cup {}
            /\ dlqQueue'[r] \subseteq dlqQueue[r] \cup {}
            /\ (dlqQueue[r] \cup {}) \ out \subseteq dlqQueue'[r]
            /\ \A q \in Replicas : q # r => dlqQueue'[q] = dlqQueue[q]
        BY <3>1, <1>2
      <3> QED BY <3>1, <3>2, <1>1, QueueLeaves
    <2>2. CASE DlqDelivery(r)
      <3> PICK rec \in dlqQueue[r] :
             /\ dlqQueue' = [dlqQueue EXCEPT ![r] = @ \ {rec}]
             /\ \/ dlq' = dlq \cup {rec} /\ UNCHANGED <<dlqLost, used>>
                \/ dlqLost' = dlqLost \cup {rec} /\ Spend("dlq") /\ UNCHANGED dlq
        BY <2>2 DEF DlqDelivery
      <3> PICK out : out = {rec}
        OBVIOUS
      <3>1. /\ out \subseteq dlqQueue[r] \cup {}
            /\ dlqQueue'[r] \subseteq dlqQueue[r] \cup {}
            /\ (dlqQueue[r] \cup {}) \ out \subseteq dlqQueue'[r]
            /\ \A q \in Replicas : q # r => dlqQueue'[q] = dlqQueue[q]
        BY <1>2
      <3>2. /\ dlq \subseteq dlq' /\ dlqLost \subseteq dlqLost'
            /\ dlq' \cup dlqLost' = dlq \cup dlqLost \cup out
        OBVIOUS
      <3> QED BY <3>1, <3>2, <1>1, QueueLeaves
    <2> QED BY <2>1, <2>2
  <1>4. Queued \cup {} = Queued
    OBVIOUS
  <1> QED BY <1>1, <1>3, <1>4 DEF Delivered!Settle

LEMMA VanishRefines ==
    ASSUME TypeOK, NEW r \in Replicas, Crash(r)
    PROVE  Delivered!Vanish
  <1> PICK gone : gone = dlqQueue[r]
    OBVIOUS
  <1>1. /\ dlqQueue' = [dlqQueue EXCEPT ![r] = {}] /\ abandoned' = abandoned \cup gone
        /\ UNCHANGED <<Stored, dlq, Reported, committed>>
    BY DEF Crash, Forget, Stored, Reported
  <1>2. dlqQueue'[r] = {} /\ \A q \in Replicas : q # r => dlqQueue'[q] = dlqQueue[q]
    BY <1>1 DEF TypeOK
  <1>3. Queued \ gone \subseteq Queued' /\ Queued' \subseteq Queued
    <2>1. ASSUME NEW rec \in Queued \ gone
          PROVE  rec \in Queued'
      BY <1>2 DEF Queued
    <2>2. Queued' \subseteq Queued
      BY <1>2 DEF Queued
    <2> QED BY <2>1, <2>2
  <1>4. gone \in SUBSET Queued
    BY DEF Queued
  <1> QED BY <1>1, <1>3, <1>4 DEF Delivered!Vanish

LEMMA WriteBatchRefines ==
    ASSUME TypeOK, DecodedOnly, NEW r \in Replicas, WriteSucceeds(r) \/ WriteFails(r)
    PROVE  Delivered!WriteBatch
  <1>1. UNCHANGED <<dlqQueue, dlq, dlqLost, abandoned, committed>>
    BY DEF WriteSucceeds, WriteFails, Store, groupVars
  <1>2. UNCHANGED <<Queued, dlq, abandoned, committed>>
    BY <1>1 DEF Queued
  <1> PICK records : records = batch[r]
    OBVIOUS
  <1>3. records \in SUBSET (Record \ Bad)
    BY DEF TypeOK, DecodedOnly
  <1>4. Stored' \in {Stored, Stored \cup records}
    <2>1. CASE UNCHANGED bronze
      BY <2>1 DEF Stored
    <2>2. CASE Store(r)
      <3>1. \A rec \in Record : bronze'[rec] > 0 <=> bronze[rec] > 0 \/ rec \in records
        BY <2>2 DEF Store, TypeOK
      <3> QED BY <3>1, <1>3 DEF Stored
    <2> QED BY <2>1, <2>2 DEF WriteSucceeds, WriteFails
  <1>5. Reported' \in {Reported, Reported \cup records}
    <2>1. dropped' = dropped \/ dropped' = dropped \cup records
      BY DEF WriteSucceeds, WriteFails
    <2> QED BY <2>1, <1>1 DEF Reported
  <1> QED BY <1>2, <1>3, <1>4, <1>5 DEF Delivered!WriteBatch

LEMMA CommitRefines ==
    ASSUME TypeOK', PassedTraced', UNCHANGED sinkVars
    PROVE  Delivered!Commit
  <1>1. UNCHANGED <<Stored, Queued, dlq, Reported, abandoned>>
    BY DEF sinkVars, Stored, Queued, Reported
  <1>2. committed' \in [Partitions -> Nat]
    BY DEF TypeOK
  <1>3. ASSUME NEW rec \in Record, rec[2] < committed'[rec[1]]
        PROVE  rec \in Delivered!Handled
    <2>1. Traced(rec)'
      BY <1>3 DEF PassedTraced, Passed
    <2>2. rec \in Stored' \cup Queued' \cup dlq' \cup Reported' \cup abandoned'
      BY <2>1 DEF Traced, Accounted, Stored, Queued, Reported
    <2> QED BY <2>2, <1>1 DEF Delivered!Handled
  <1> QED BY <1>1, <1>2, <1>3 DEF Delivered!Commit

LEMMA NextRefines ==
    ASSUME TypeOK, TypeOK', PassedTraced', DecodedOnly, [Next]_vars
    PROVE  [Delivered!Next]_(Delivered!vars)
  <1>1. ASSUME NEW r \in Replicas, NEW p \in Partitions, Poll(r, p)
        PROVE  Delivered!DeadLetter \/ UNCHANGED Delivered!vars
    <2>1. <<p, position[r][p]>> \in Record
      BY <1>1 DEF Poll, Record
    <2>2. CASE Decoded(r, <<p, position[r][p]>>)
      BY <1>1, <2>2, UnseenStep DEF Poll, Decoded, groupVars, sinkVars
    <2>3. CASE Undecodable(r, <<p, position[r][p]>>)
      <3> PICK rec \in Record : rec = <<p, position[r][p]>>
        BY <2>1
      <3>1. Undecodable(r, rec) /\ UNCHANGED <<bronze, dropped, abandoned, committed>>
        BY <1>1, <2>3 DEF Poll, groupVars
      <3> QED BY <3>1, DeadLetterRefines
    <2> QED BY <1>1, <2>2, <2>3 DEF Poll
  <1>2. ASSUME NEW r \in Replicas,
               \/ \E p \in Partitions : Assign(r, p)
               \/ \E ps \in SUBSET Partitions : Revoke(r, ps)
               \/ Lost(r) \/ PollNothing(r) \/ CommitFails(r)
               \/ Expel(r) \/ Rejoin(r) \/ Stop(r) \/ Thrown(r) \/ Restart(r)
        PROVE  UNCHANGED Delivered!vars
    <2>1. UNCHANGED sinkVars /\ UNCHANGED committed
      BY <1>2 DEF Assign, Revoke, Lost, OnRevoke, PollNothing, CommitFails,
                  Expel, Rejoin, Stop, Thrown, LeaveLoop, Restart, groupVars
    <2> QED BY <2>1, UnseenStep
  <1>3. CASE UNCHANGED vars
    BY <1>3, UnseenStep DEF vars, groupVars, sinkVars
  <1>4. ASSUME NEW r \in Replicas, CommitSucceeds(r) \/ FlushThrows(r)
        PROVE  Delivered!Commit
    <2>1. UNCHANGED sinkVars
      BY <1>4 DEF CommitSucceeds, FlushThrows
    <2> QED BY <2>1, CommitRefines
  <1> QED BY <1>1, <1>2, <1>3, <1>4, SettleRefines, VanishRefines, WriteBatchRefines
          DEF Next, Work, Delivered!Next

\* EdgeConsumer implements Delivery: whatever fails, a handled record stays handled,
\* an undecodable one is never stored, and offsets move in steps of their own over
\* records handled before (_flush 505-567, _send_to_dlq 592-629, run 450-452).
THEOREM ImplementsDelivery == Spec => DeliverySpec
  <1>1. TypeOK /\ DecodedOnly /\ [Next]_vars => DecodedOnly'
    BY NextDecodedOnly
  <1>2. Init => Delivered!Init
    BY InitRefines
  <1>3. TypeOK /\ TypeOK' /\ PassedTraced' /\ DecodedOnly /\ [Next]_vars
           => [Delivered!Next]_(Delivered!vars)
    BY NextRefines
  <1>4. Inv => TypeOK /\ PassedTraced
    BY DEF Inv
  <1> QED BY <1>1, <1>2, <1>3, <1>4, InitDecodedOnly, InitInv, NextInv, PTL
          DEF Spec, DeliverySpec, Delivered!Spec

-----------------------------------------------------------------------------
(* Who reads what, when nothing is dead-lettered.  Then a worker has offsets *)
(* to commit only for partitions it is at, up to where it is, and only while *)
(* it has a batch; so no worker carries offsets past a revocation, and only  *)
(* the owner of a partition can move its committed offset, forwards.         *)

\* Every message decodes, and every schema lookup is answered.
NoDeadLetters == Bad = {} /\ MaxFaults["registry"] = 0

PendingFollows ==
    \A r \in Replicas, p \in Partitions :
        pending[r][p] # -1 => pending[r][p] = position[r][p] /\ batch[r] # {}

BatchPending == \A r \in Replicas : \A rec \in batch[r] : rec[2] < pending[r][rec[1]]

OneReader ==
    \A r \in Replicas, p \in Partitions :
        /\ owner[p] = r => /\ member[r] /\ position[r][p] # -1
                           /\ committed[p] <= position[r][p]
        /\ member[r] /\ position[r][p] # -1 => owner[p] = r

LeftEmpty ==
    \A r \in Replicas :
        /\ pc[r] \in {"closing", "dead", "down"} => batch[r] = {}
        /\ pc[r] \in {"dead", "down"} => position[r] = Nothing

GroupInv == TypeOK /\ PendingFollows /\ BatchPending /\ OneReader /\ LeftEmpty

LEMMA RecordParts ==
    ASSUME NEW rec \in Record
    PROVE  rec[1] \in Partitions /\ rec[2] \in Nat /\ rec = <<rec[1], rec[2]>>
  BY EdgeAssumption DEF Record, Offset

LEMMA InitGroup == Init => GroupInv
  <1> SUFFICES ASSUME Init PROVE GroupInv
    OBVIOUS
  <1>1. OneReader
    BY EdgeAssumption DEF Init, OneReader, Nothing
  <1> QED BY <1>1, InitTypeOK
          DEF Init, GroupInv, PendingFollows, BatchPending, LeftEmpty, Nothing

\* A step that leaves everybody's offsets alone.
LEMMA SameReaders ==
    ASSUME GroupInv, TypeOK', UNCHANGED <<batch, pending, position, member, owner, committed>>,
           NEW r \in Replicas, \A q \in Replicas : q # r => pc'[q] = pc[q],
           pc'[r] \in {"closing", "dead", "down"} => batch[r] = {},
           pc'[r] \in {"dead", "down"} => position[r] = Nothing
    PROVE  GroupInv'
  <1> USE DEF GroupInv
  <1>1. PendingFollows' /\ BatchPending'
    BY DEF PendingFollows, BatchPending
  <1>2. OneReader'
    BY DEF OneReader
  <1>3. LeftEmpty'
    BY DEF LeftEmpty
  <1> QED BY <1>1, <1>2, <1>3

\* A step after which r has no batch and no offsets to commit.
LEMMA BatchGone ==
    ASSUME GroupInv, TypeOK', NEW r \in Replicas,
           batch'[r] = {}, pending'[r] = Nothing,
           \A q \in Replicas : q # r =>
               /\ batch'[q] = batch[q]
               /\ pending'[q] = pending[q]
               /\ position'[q] = position[q]
               /\ pc'[q] = pc[q],
           OneReader', pc'[r] \in {"dead", "down"} => position'[r] = Nothing
    PROVE  GroupInv'
  <1> USE DEF GroupInv
  <1>1. PendingFollows' /\ BatchPending'
    BY DEF PendingFollows, BatchPending, Nothing
  <1>2. LeftEmpty'
    BY DEF LeftEmpty
  <1> QED BY <1>1, <1>2

\* What a worker gives up, it no longer owns.
LEMMA UnassignReader ==
    ASSUME TypeOK, OneReader, NEW r \in Replicas, NEW ps, Unassign(r, ps),
           UNCHANGED <<member, committed>>
    PROVE  OneReader'
  <1> SUFFICES ASSUME NEW q \in Replicas, NEW p \in Partitions
               PROVE  /\ owner'[p] = q => /\ member'[q] /\ position'[q][p] # -1
                                          /\ committed'[p] <= position'[q][p]
                      /\ member'[q] /\ position'[q][p] # -1 => owner'[p] = q
    BY DEF OneReader
  <1>1. CASE q = r /\ p \in ps
    <2>1. position'[q][p] = -1
      BY <1>1 DEF Unassign, TypeOK
    <2>2. owner'[p] # r
      BY <1>1, EdgeAssumption DEF Unassign, TypeOK
    <2> QED BY <1>1, <2>1, <2>2
  <1>2. CASE q # r /\ p \in ps
    <2>1. position'[q][p] = position[q][p]
      BY <1>2 DEF Unassign, TypeOK
    <2>2. owner'[p] = q <=> owner[p] = q
      BY <1>2, EdgeAssumption DEF Unassign, TypeOK
    <2> QED BY <2>1, <2>2 DEF OneReader
  <1>3. CASE p \notin ps
    <2>1. position'[q][p] = position[q][p] /\ owner'[p] = owner[p]
      BY <1>3 DEF Unassign, TypeOK
    <2> QED BY <2>1 DEF OneReader
  <1> QED BY <1>1, <1>2, <1>3

\* Only the owner commits, and never behind what is committed.
LEMMA OwnerCommits ==
    ASSUME GroupInv, NEW r \in Replicas, member[r], NEW p \in Partitions, pending[r][p] # -1
    PROVE  owner[p] = r /\ pending[r][p] = position[r][p] /\ committed[p] <= pending[r][p]
  BY DEF GroupInv, OneReader, PendingFollows

LEMMA CommitReaders ==
    ASSUME GroupInv, NEW r \in Replicas, member[r], committed' = CommittedAfter(r)
    PROVE  \A q \in Replicas, p \in Partitions :
             owner[p] = q => /\ member[q] /\ position[q][p] # -1
                             /\ committed'[p] <= position[q][p]
  <1> SUFFICES ASSUME NEW q \in Replicas, NEW p \in Partitions, owner[p] = q
               PROVE  /\ member[q] /\ position[q][p] # -1
                      /\ committed'[p] <= position[q][p]
    OBVIOUS
  <1>1. member[q] /\ position[q][p] # -1 /\ committed[p] <= position[q][p]
    BY DEF GroupInv, OneReader
  <1>2. CASE pending[r][p] = -1
    BY <1>1, <1>2 DEF CommittedAfter
  <1>3. CASE pending[r][p] # -1
    <2>1. owner[p] = r /\ committed'[p] = position[r][p]
      BY <1>3, OwnerCommits DEF CommittedAfter
    <2> QED BY <1>1, <2>1 DEF GroupInv, TypeOK
  <1> QED BY <1>2, <1>3

LEMMA FlushReturnsReader ==
    ASSUME TypeOK, OneReader, NEW r \in Replicas, FlushReturns(r), UNCHANGED committed
    PROVE  OneReader'
  <1>1. CASE UNCHANGED <<position, owner>>
    BY <1>1 DEF FlushReturns, OneReader
  <1>2. CASE Unassign(r, revoking[r])
    BY <1>2, UnassignReader DEF FlushReturns
  <1> QED BY <1>1, <1>2 DEF FlushReturns

LEMMA FlushReturnsOthers ==
    ASSUME TypeOK, NEW r \in Replicas, FlushReturns(r)
    PROVE  /\ batch'[r] = {} /\ pending'[r] = Nothing /\ pc'[r] \in {"poll", "closing"}
           /\ \A q \in Replicas : q # r =>
                /\ batch'[q] = batch[q]
                /\ pending'[q] = pending[q]
                /\ position'[q] = position[q]
                /\ pc'[q] = pc[q]
  BY DEF FlushReturns, Unassign, TypeOK

LEMMA FlushGroup ==
    ASSUME NoDeadLetters, GroupInv, TypeOK', NEW r \in Replicas, FlushReturns(r),
           UNCHANGED committed \/ (member[r] /\ committed' = CommittedAfter(r))
    PROVE  GroupInv'
  <1> USE DEF GroupInv
  <1>1. FlushReturns(r)
    OBVIOUS
  <1>2. OneReader'
    <2>1. CASE UNCHANGED committed
      BY <2>1, <1>1, FlushReturnsReader
    <2>2. CASE member[r] /\ committed' = CommittedAfter(r)
      <3>1. member[r] /\ committed' = CommittedAfter(r) /\ UNCHANGED member
        BY <2>2, <1>1 DEF FlushReturns
      <3>2. \A q \in Replicas, p \in Partitions :
               owner[p] = q => /\ member[q] /\ position[q][p] # -1
                               /\ committed'[p] <= position[q][p]
        BY <3>1, CommitReaders
      <3>3. CASE UNCHANGED <<position, owner>>
        BY <3>1, <3>2, <3>3 DEF OneReader
      <3>4. CASE Unassign(r, revoking[r])
        <4> SUFFICES ASSUME NEW q \in Replicas, NEW p \in Partitions
                     PROVE  /\ owner'[p] = q => /\ member'[q] /\ position'[q][p] # -1
                                                /\ committed'[p] <= position'[q][p]
                            /\ member'[q] /\ position'[q][p] # -1 => owner'[p] = q
          BY DEF OneReader
        <4>1. /\ p \in revoking[r] => position'[r][p] = -1
              /\ q # r \/ p \notin revoking[r] => position'[q][p] = position[q][p]
          BY <3>4 DEF Unassign, TypeOK
        <4>5. p \in revoking[r] => owner'[p] # r
          BY <3>4, EdgeAssumption DEF Unassign, TypeOK
        <4>6. owner'[p] = owner[p] \/ (p \in revoking[r] /\ owner[p] = r)
          <5>1. owner' = [x \in Partitions |->
                            IF x \in revoking[r] /\ owner[x] = r THEN NoOne ELSE owner[x]]
            BY <3>4 DEF Unassign
          <5> QED BY <5>1
        <4>2. owner[p] = q => /\ member[q] /\ position[q][p] # -1
                              /\ committed'[p] <= position[q][p]
          BY <3>2
        <4>3. member[q] /\ position[q][p] # -1 => owner[p] = q
          BY DEF OneReader
        <4>4. owner'[p] = q => owner[p] = q
          BY <3>4, EdgeAssumption DEF Unassign, TypeOK
        <4> QED BY <3>1, <4>1, <4>2, <4>3, <4>4, <4>5, <4>6
      <3> QED BY <1>1, <3>3, <3>4 DEF FlushReturns
    <2> QED BY <2>1, <2>2
  <1> QED BY <1>1, <1>2, FlushReturnsOthers, BatchGone

\* A flush that throws leaves the batch as it is, or clears it like any other.
LEMMA FlushThrowsGroup ==
    ASSUME NoDeadLetters, GroupInv, TypeOK', NEW r \in Replicas, FlushThrows(r)
    PROVE  GroupInv'
  <1> USE DEF GroupInv
  <1>1. UNCHANGED committed \/ (member[r] /\ committed' = CommittedAfter(r))
    BY DEF FlushThrows
  <1>2. CASE FlushReturns(r)
    BY <1>1, <1>2, FlushGroup
  <1>3. CASE ~FlushReturns(r)
    <2>1. /\ UNCHANGED <<batch, pending, position, member, owner>>
          /\ pc'[r] = "write" /\ \A q \in Replicas : q # r => pc'[q] = pc[q]
      BY <1>3 DEF FlushThrows, TypeOK
    <2>2. OneReader'
      <3>1. CASE UNCHANGED committed
        BY <2>1, <3>1 DEF OneReader
      <3>2. CASE member[r] /\ committed' = CommittedAfter(r)
        <4>1. \A q \in Replicas, p \in Partitions :
                 owner[p] = q => /\ member[q] /\ position[q][p] # -1
                                 /\ committed'[p] <= position[q][p]
          BY <3>2, CommitReaders
        <4> QED BY <2>1, <4>1 DEF OneReader
      <3> QED BY <1>1, <3>1, <3>2
    <2>3. PendingFollows' /\ BatchPending' /\ LeftEmpty'
      BY <2>1 DEF PendingFollows, BatchPending, LeftEmpty
    <2> QED BY <2>2, <2>3
  <1> QED BY <1>2, <1>3

LEMMA OnRevokeGroup ==
    ASSUME GroupInv, TypeOK', NEW r \in Replicas, NEW ps, OnRevoke(r, ps), pc[r] = "poll"
    PROVE  GroupInv'
  <1> USE DEF GroupInv
  <1>1. CASE batch[r] = {} /\ Unassign(r, ps) /\ UNCHANGED pc
    <2>1. pending[r] = Nothing
      BY <1>1 DEF PendingFollows, TypeOK, Nothing
    <2>2. OneReader'
      BY <1>1, UnassignReader DEF OnRevoke
    <2>3. /\ batch'[r] = {} /\ pending'[r] = Nothing /\ pc'[r] = "poll"
          /\ \A q \in Replicas : q # r =>
               /\ batch'[q] = batch[q]
               /\ pending'[q] = pending[q]
               /\ position'[q] = position[q]
               /\ pc'[q] = pc[q]
      BY <1>1, <2>1 DEF OnRevoke, Unassign, TypeOK
    <2> QED BY <2>2, <2>3, BatchGone
  <1>2. CASE batch[r] # {} /\ pc' = [pc EXCEPT ![r] = "write"] /\ UNCHANGED <<position, owner>>
    <2>1. pc'[r] = "write" /\ \A q \in Replicas : q # r => pc'[q] = pc[q]
      BY <1>2 DEF TypeOK
    <2> QED BY <1>2, <2>1, SameReaders DEF OnRevoke
  <1> QED BY <1>1, <1>2 DEF OnRevoke

\* With nothing to dead-letter, a polled record joins the batch.
LEMMA PolledIsDecoded ==
    ASSUME NoDeadLetters, TypeOK, NEW r \in Replicas, NEW p \in Partitions, Poll(r, p)
    PROVE  /\ Decoded(r, <<p, position[r][p]>>)
           /\ <<p, position[r][p]>> \in Record /\ position[r][p] \in Nat
  <1> PICK rec : rec = <<p, position[r][p]>>
    OBVIOUS
  <1>1. rec \in Record /\ position[r][p] \in Nat
    BY EdgeAssumption DEF Poll, Record, Offset
  <1>2. rec \notin Bad
    BY DEF NoDeadLetters
  <1>3. ~Undecodable(r, rec)
    <2> SUFFICES ASSUME Undecodable(r, rec) PROVE FALSE
      OBVIOUS
    <2>1. SpendAll({"registry"}) \/ SpendAll({"registry"} \cup {"dlq"})
      BY <1>2 DEF Undecodable, SendToDlq
    <2>2. used["registry"] < MaxFaults["registry"] /\ used["registry"] \in Nat
      BY <2>1 DEF SpendAll, TypeOK, FaultKind
    <2> QED BY <2>2 DEF NoDeadLetters
  <1> QED BY <1>1, <1>3 DEF Poll

LEMMA PollGroup ==
    ASSUME NoDeadLetters, GroupInv, TypeOK', NEW r \in Replicas, NEW p \in Partitions, Poll(r, p)
    PROVE  GroupInv'
  <1> USE DEF GroupInv
  <1> PICK at \in Nat : at = position[r][p]
    BY PolledIsDecoded
  <1>1. /\ batch' = [batch EXCEPT ![r] = @ \cup {<<p, at>>}]
        /\ position' = [position EXCEPT ![r][p] = @ + 1]
        /\ pc[r] = "poll" /\ UNCHANGED <<member, owner, committed>>
    BY PolledIsDecoded DEF Poll, Decoded, groupVars
  <1>2. pending[r][p] \in {-1, at}
    BY DEF PendingFollows, TypeOK
  <1>3. pending' = [pending EXCEPT ![r][p] = at + 1]
    <2>1. MergeOffset(pending[r][p], at) = at + 1
      BY <1>2 DEF MergeOffset
    <2>2. pending' = [pending EXCEPT ![r][p] = MergeOffset(@, at)]
      BY DEF Poll
    <2> QED BY <2>1, <2>2 DEF TypeOK
  <1>4. \A q \in Replicas : /\ q # r => pc'[q] = pc[q]
                            /\ pc'[q] \in {"closing", "dead", "down"} => q # r
    BY <1>1 DEF Poll, MaybeFlush, TypeOK
  <1>5. \A q \in Replicas, x \in Partitions :
           IF q = r /\ x = p THEN pending'[q][x] = at + 1 /\ position'[q][x] = at + 1
           ELSE pending'[q][x] = pending[q][x] /\ position'[q][x] = position[q][x]
    BY <1>1, <1>3 DEF TypeOK
  <1>6. \A q \in Replicas : /\ q # r => batch'[q] = batch[q] /\ position'[q] = position[q]
                            /\ q = r => batch'[q] = batch[q] \cup {<<p, at>>}
    BY <1>1 DEF TypeOK
  <1>7. PendingFollows'
    <2> SUFFICES ASSUME NEW q \in Replicas, NEW x \in Partitions, pending'[q][x] # -1
                 PROVE  pending'[q][x] = position'[q][x] /\ batch'[q] # {}
      BY DEF PendingFollows
    <2>1. CASE q = r /\ x = p
      BY <2>1, <1>5, <1>6
    <2>2. CASE ~(q = r /\ x = p)
      <3>1. pending'[q][x] = pending[q][x] /\ position'[q][x] = position[q][x]
        BY <2>2, <1>5
      <3>2. pending[q][x] = position[q][x] /\ batch[q] # {}
        BY <3>1 DEF PendingFollows
      <3> QED BY <3>1, <3>2, <1>6
    <2> QED BY <2>1, <2>2
  <1>8. BatchPending'
    <2> SUFFICES ASSUME NEW q \in Replicas, NEW rec \in batch'[q]
                 PROVE  rec[2] < pending'[q][rec[1]]
      BY DEF BatchPending
    <2>1. CASE rec \in batch[q]
      <3>1. rec[1] \in Partitions /\ rec[2] \in Nat /\ rec[2] < pending[q][rec[1]]
        BY <2>1, RecordParts DEF BatchPending, TypeOK
      <3> QED BY <3>1, <1>2, <1>5
    <2>2. CASE rec \notin batch[q]
      BY <2>2, <1>5, <1>6
    <2> QED BY <2>1, <2>2
  <1>9. OneReader'
    <2> SUFFICES ASSUME NEW q \in Replicas, NEW x \in Partitions
                 PROVE  /\ owner[x] = q => /\ member[q] /\ position'[q][x] # -1
                                           /\ committed[x] <= position'[q][x]
                        /\ member[q] /\ position'[q][x] # -1 => owner[x] = q
      BY <1>1 DEF OneReader
    <2>1. committed[x] \in Nat /\ position[q][x] \in Nat \cup {-1}
      BY DEF TypeOK
    <2> QED BY <1>5, <2>1 DEF OneReader
  <1>10. LeftEmpty'
    BY <1>4, <1>6 DEF LeftEmpty
  <1> QED BY <1>7, <1>8, <1>9, <1>10

\* What is forgotten at a crash or at the end is no longer owned.
LEMMA ForgetGroup ==
    ASSUME GroupInv, TypeOK', NEW r \in Replicas, Close(r) \/ Crash(r)
    PROVE  GroupInv'
  <1> USE DEF GroupInv
  <1>1. Forget(r) /\ UNCHANGED committed /\ \A q \in Replicas : q # r => pc'[q] = pc[q]
    BY DEF Close, Crash, TypeOK
  <1>2. /\ batch'[r] = {} /\ pending'[r] = Nothing /\ position'[r] = Nothing
        /\ member'[r] = FALSE
        /\ \A q \in Replicas : q # r =>
               /\ batch'[q] = batch[q]
               /\ pending'[q] = pending[q]
               /\ position'[q] = position[q]
               /\ member'[q] = member[q]
    BY <1>1 DEF Forget, TypeOK
  <1>3. \A p \in Partitions, q \in Replicas : owner'[p] = q <=> owner[p] = q /\ q # r
    BY <1>1, EdgeAssumption DEF Forget, TypeOK
  <1>4. OneReader'
    <2> SUFFICES ASSUME NEW q \in Replicas, NEW p \in Partitions
                 PROVE  /\ owner'[p] = q => /\ member'[q] /\ position'[q][p] # -1
                                            /\ committed'[p] <= position'[q][p]
                        /\ member'[q] /\ position'[q][p] # -1 => owner'[p] = q
      BY DEF OneReader
    <2> QED BY <1>1, <1>2, <1>3 DEF OneReader, Nothing
  <1> QED BY <1>1, <1>2, <1>4, BatchGone

LEMMA CoordinatorGroup ==
    ASSUME GroupInv, TypeOK', NEW r \in Replicas,
           (\E p \in Partitions : Assign(r, p)) \/ Expel(r) \/ Rejoin(r) \/ Restart(r)
    PROVE  GroupInv'
  <1> USE DEF GroupInv
  <1>1. ASSUME NEW p \in Partitions, Assign(r, p)
        PROVE  GroupInv'
    <2>1. /\ position' = [position EXCEPT ![r][p] = committed[p]]
          /\ owner' = [owner EXCEPT ![p] = r] /\ owner[p] = NoOne /\ member[r] /\ pc[r] = "poll"
          /\ UNCHANGED <<pc, batch, pending, member, committed>>
      BY <1>1 DEF Assign, StartPosition
    <2>2. position[r][p] = -1
      BY <2>1, EdgeAssumption DEF OneReader, TypeOK
    <2>3. pending[r][p] = -1
      BY <2>2 DEF PendingFollows, TypeOK
    <2>4. \A q \in Replicas, x \in Partitions :
             /\ q = r /\ x = p => position'[q][x] = committed[x] /\ owner'[x] = q
             /\ q # r \/ x # p => position'[q][x] = position[q][x]
             /\ q # r /\ x = p => owner'[x] # q /\ owner[x] # q
             /\ x # p => owner'[x] = owner[x]
      BY <2>1, EdgeAssumption DEF TypeOK
    <2>5. PendingFollows' /\ BatchPending'
      BY <2>1, <2>3, <2>4 DEF PendingFollows, BatchPending
    <2>6. OneReader'
      BY <2>1, <2>4 DEF OneReader, TypeOK
    <2>7. LeftEmpty'
      BY <2>1, <2>4 DEF LeftEmpty, TypeOK
    <2> QED BY <2>5, <2>6, <2>7
  <1>2. CASE Expel(r)
    <2>1. /\ UNCHANGED <<pc, batch, pending, position, committed>>
          /\ member'[r] = FALSE /\ \A q \in Replicas : q # r => member'[q] = member[q]
      BY <1>2 DEF Expel, workerVars, TypeOK
    <2>2. \A p \in Partitions, q \in Replicas : owner'[p] = q <=> owner[p] = q /\ q # r
      BY <1>2, EdgeAssumption DEF Expel, TypeOK
    <2>3. OneReader'
      BY <2>1, <2>2 DEF OneReader
    <2> QED BY <2>1, <2>3 DEF PendingFollows, BatchPending, LeftEmpty
  <1>3. CASE Rejoin(r) \/ Restart(r)
    <2>1. /\ UNCHANGED <<batch, pending, position, owner, committed>>
          /\ member'[r] = TRUE /\ pc'[r] = "poll"
          /\ \A q \in Replicas : q # r => member'[q] = member[q] /\ pc'[q] = pc[q]
      BY <1>3 DEF Rejoin, Restart, workerVars, TypeOK
    <2>2. \A p \in Partitions : position[r][p] = -1
      BY <1>3 DEF Rejoin, Restart, Assigned, LeftEmpty, Nothing
    <2>3. OneReader'
      BY <2>1, <2>2 DEF OneReader
    <2> QED BY <2>1, <2>3 DEF PendingFollows, BatchPending, LeftEmpty
  <1> QED BY <1>1, <1>2, <1>3

LEMMA NextGroup ==
    ASSUME NoDeadLetters, GroupInv, [Next]_vars
    PROVE  GroupInv'
  <1>0. TypeOK'
    BY NextTypeOK DEF GroupInv
  <1>1. CASE UNCHANGED vars
    BY <1>1 DEF vars, workerVars, groupVars, sinkVars, GroupInv, TypeOK, PendingFollows,
                BatchPending, OneReader, LeftEmpty
  <1>2. ASSUME NEW r \in Replicas,
               \/ PollNothing(r) \/ WriteSucceeds(r) \/ Stop(r) \/ Thrown(r) \/ DlqDelivery(r)
        PROVE  GroupInv'
    <2>1. UNCHANGED <<batch, pending, position, member, owner, committed>>
      BY <1>2 DEF PollNothing, WriteSucceeds, Stop, Thrown, LeaveLoop, DlqDelivery,
                  workerVars, groupVars
    <2>2. \A q \in Replicas : q # r => pc'[q] = pc[q]
      BY <1>2 DEF PollNothing, WriteSucceeds, Stop, Thrown, LeaveLoop, DlqDelivery,
                  workerVars, GroupInv, TypeOK
    <2>3. pc'[r] \in {"closing", "dead", "down"} => batch[r] = {} /\ (pc'[r] = "closing" \/ pc'[r] = pc[r])
      BY <1>2 DEF PollNothing, WriteSucceeds, Stop, Thrown, LeaveLoop, DlqDelivery,
                  workerVars, GroupInv, TypeOK, LeftEmpty
    <2> QED BY <1>0, <2>1, <2>2, <2>3, SameReaders DEF GroupInv, LeftEmpty
  <1>3. ASSUME NEW r \in Replicas, Lost(r) \/ \E ps \in SUBSET Partitions : Revoke(r, ps)
        PROVE  GroupInv'
    BY <1>0, <1>3, OnRevokeGroup DEF Lost, Revoke
  <1>4. ASSUME NEW r \in Replicas, WriteFails(r) \/ CommitSucceeds(r) \/ CommitFails(r)
        PROVE  GroupInv'
    BY <1>0, <1>4, FlushGroup DEF WriteFails, CommitSucceeds, CommitFails
  <1> QED BY <1>0, <1>1, <1>2, <1>3, <1>4, FlushThrowsGroup, PollGroup, ForgetGroup,
             CoordinatorGroup
          DEF Next, Work

LEMMA OnlyCommits ==
    ASSUME [Next]_vars
    PROVE  \/ UNCHANGED committed
           \/ \E r \in Replicas : member[r] /\ committed' = CommittedAfter(r)
  <1>1. CASE UNCHANGED vars
    BY <1>1 DEF vars, groupVars
  <1>2. ASSUME NEW r \in Replicas,
               \/ PollNothing(r) \/ WriteSucceeds(r) \/ WriteFails(r) \/ CommitFails(r)
               \/ Expel(r) \/ Rejoin(r) \/ Stop(r) \/ Thrown(r)
               \/ Close(r) \/ Crash(r) \/ Restart(r) \/ DlqDelivery(r)
        PROVE  UNCHANGED committed
    BY <1>2 DEF PollNothing, WriteSucceeds, WriteFails, CommitFails, Expel, Rejoin, Stop, Thrown,
                LeaveLoop, Close, Crash, Restart, DlqDelivery, groupVars
  <1>3. ASSUME NEW r \in Replicas,
               \/ \E p \in Partitions : Poll(r, p) \/ Assign(r, p)
               \/ Lost(r)
               \/ \E ps \in SUBSET Partitions : Revoke(r, ps)
        PROVE  UNCHANGED committed
    BY <1>3 DEF Poll, Assign, Lost, Revoke, OnRevoke, groupVars
  <1>4. ASSUME NEW r \in Replicas, CommitSucceeds(r) \/ FlushThrows(r)
        PROVE  UNCHANGED committed \/ (member[r] /\ committed' = CommittedAfter(r))
    BY <1>4 DEF CommitSucceeds, FlushThrows
  <1> QED BY <1>1, <1>2, <1>3, <1>4 DEF Next, Work

\* When every message decodes and the registry answers, no failure, rebalance or
\* expired session ever makes the group's committed offset go back (_flush 538-542).
THEOREM OffsetsNeverGoBack ==
    ASSUME NoDeadLetters
    PROVE  Spec => CommittedMonotonic
  <1>1. GroupInv /\ [Next]_vars => GroupInv'
    BY NextGroup
  <1>2. GroupInv /\ [Next]_vars => [\A p \in Partitions : committed'[p] >= committed[p]]_committed
    <2> SUFFICES ASSUME GroupInv, [Next]_vars, committed' # committed, NEW p \in Partitions
                 PROVE  committed'[p] >= committed[p]
      OBVIOUS
    <2>2. PICK r \in Replicas : member[r] /\ committed' = CommittedAfter(r)
      BY OnlyCommits
    <2>3. committed[p] \in Nat /\ pending[r][p] \in Nat \cup {-1}
      BY DEF GroupInv, TypeOK
    <2>4. pending[r][p] # -1 => committed[p] <= pending[r][p]
      BY <2>2, OwnerCommits
    <2> QED BY <2>2, <2>3, <2>4 DEF CommittedAfter
  <1> QED BY <1>1, <1>2, InitGroup, PTL DEF Spec, CommittedMonotonic

-----------------------------------------------------------------------------
(* What every copy in Bronze costs.  A record can be stored once more by     *)
(* each worker that holds it or has yet to come to it, and, while its offset *)
(* is not committed, by whoever gets its partition next.  A step either      *)
(* turns one of these into a copy or into another of them, or it is a fault. *)

Holds(r, rec) ==
    \/ position[r][rec[1]] \in 0 .. rec[2]
    \/ rec \in batch[r] /\ pc[r] # "commit"

Holders(rec) == {r \in Replicas : Holds(r, rec)}

\* Nobody's to read now, and not behind the committed offset: the next owner
\* reads it again.
Reopens(rec) ==
    /\ committed[rec[1]] <= rec[2]
    /\ \A r \in Replicas :
          owner[rec[1]] = r => position[r][rec[1]] > rec[2] /\ rec \notin batch[r]

Faults == used["crash"] + used["gcs"] + used["commit"] + used["expel"] + used["throw"]

Copies(rec) == bronze[rec] + Cardinality(Holders(rec)) + (IF Reopens(rec) THEN 1 ELSE 0)

CopiesPaidFor ==
    \A rec \in Record : IsFiniteSet(Holders(rec)) /\ Copies(rec) <= 1 + Faults

\* What r and the coordinator may still add to the copies of rec.
Due(r, rec) ==
    bronze[rec] + (IF Holds(r, rec) THEN 1 ELSE 0) + (IF Reopens(rec) THEN 1 ELSE 0)

LEMMA FaultsType == TypeOK => Faults \in Nat
  BY DEF TypeOK, Faults, FaultKind

\* A step of r changes the copies by what is due from r.
LEMMA OneHolderMoves ==
    ASSUME TypeOK, TypeOK', NEW r \in Replicas, NEW rec \in Record,
           IsFiniteSet(Holders(rec)), Copies(rec) <= 1 + Faults,
           \A q \in Replicas : q # r =>
               batch'[q] = batch[q] /\ position'[q] = position[q] /\ pc'[q] = pc[q],
           Due(r, rec)' - Faults' <= Due(r, rec) - Faults
    PROVE  IsFiniteSet(Holders(rec))' /\ Copies(rec)' <= 1 + Faults'
  <1> PICK rest : rest = Holders(rec) \ {r}
    OBVIOUS
  <1>1. IsFiniteSet(rest) /\ Cardinality(rest) \in Nat
    BY FS_RemoveElement, FS_CardinalityType
  <1>2. \A q \in Replicas : q # r => (Holds(q, rec)' <=> Holds(q, rec))
    BY DEF Holds
  <1>3. Holders(rec) = IF Holds(r, rec) THEN rest \cup {r} ELSE rest
    BY DEF Holders
  <1>4. Holders(rec)' = IF Holds(r, rec)' THEN rest \cup {r} ELSE rest
    BY <1>2 DEF Holders
  <1>5. r \notin rest
    OBVIOUS
  <1>6. /\ IsFiniteSet(rest \cup {r})
        /\ Cardinality(rest \cup {r}) = Cardinality(rest) + 1
    BY <1>1, <1>5, FS_AddElement
  <1>7. Cardinality(Holders(rec)) = Cardinality(rest) + (IF Holds(r, rec) THEN 1 ELSE 0)
    <2>1. CASE Holds(r, rec)
      BY <2>1, <1>3, <1>6
    <2>2. CASE ~Holds(r, rec)
      <3>1. Holders(rec) = rest
        BY <2>2, <1>3
      <3>2. Cardinality(rest) = Cardinality(rest) + 0
        BY <1>1
      <3> QED BY <2>2, <3>1, <3>2
    <2> QED BY <2>1, <2>2
  <1>8. /\ IsFiniteSet(Holders(rec)')
        /\ Cardinality(Holders(rec)') = Cardinality(rest) + (IF Holds(r, rec)' THEN 1 ELSE 0)
    <2>1. CASE Holds(r, rec)'
      BY <2>1, <1>4, <1>6
    <2>2. CASE ~Holds(r, rec)'
      BY <2>2, <1>1, <1>4
    <2> QED BY <2>1, <2>2
  <1>9. bronze[rec] \in Nat /\ bronze'[rec] \in Nat /\ Faults \in Nat /\ Faults' \in Nat
    BY DEF TypeOK, Faults, FaultKind
  <1> QED BY <1>1, <1>7, <1>8, <1>9 DEF Copies, Due

\* One fault of kind k is one more.
LEMMA FaultCounted ==
    ASSUME TypeOK, NEW k \in {"crash", "gcs", "commit", "expel", "throw"}, Spend(k)
    PROVE  Faults' = Faults + 1
  BY DEF TypeOK, FaultKind, Spend, SpendAll, Faults

LEMMA FaultsGrow ==
    ASSUME TypeOK, NEW ks \in SUBSET FaultKind, SpendAll(ks)
    PROVE  Faults' >= Faults
  BY DEF TypeOK, FaultKind, SpendAll, Faults

LEMMA BatchBehind ==
    ASSUME GroupInv, NEW r \in Replicas, NEW rec \in batch[r]
    PROVE  /\ rec \in Record /\ rec[1] \in Partitions /\ rec[2] \in Nat
           /\ pending[r][rec[1]] = position[r][rec[1]] /\ rec[2] < position[r][rec[1]]
           /\ position[r][rec[1]] \notin 0 .. rec[2]
  <1>1. rec \in Record /\ rec[1] \in Partitions /\ rec[2] \in Nat
    BY RecordParts DEF GroupInv, TypeOK
  <1>2. rec[2] < pending[r][rec[1]]
    BY DEF GroupInv, BatchPending
  <1>3. pending[r][rec[1]] # -1
    BY <1>1, <1>2
  <1>4. pending[r][rec[1]] = position[r][rec[1]]
    BY <1>1, <1>3 DEF GroupInv, PendingFollows
  <1> QED BY <1>1, <1>2, <1>4

\* r forgets its batch and perhaps gives up the partition of rec, with what is in
\* the batch committed: what r had still to read, the next owner has.
LEMMA HandBack ==
    ASSUME GroupInv, NEW r \in Replicas, NEW rec \in Record,
           UNCHANGED bronze, batch'[r] = {},
           \A q \in Replicas : q # r => batch'[q] = batch[q] /\ position'[q] = position[q],
           committed'[rec[1]] \in Nat, committed'[rec[1]] >= committed[rec[1]],
           rec \notin batch[r] \/ committed'[rec[1]] > rec[2],
           \/ /\ owner'[rec[1]] = owner[rec[1]]
              /\ position'[r][rec[1]] = position[r][rec[1]]
           \/ /\ owner'[rec[1]] = IF owner[rec[1]] = r THEN NoOne ELSE owner[rec[1]]
              /\ position'[r][rec[1]] = -1
    PROVE  Due(r, rec)' <= Due(r, rec)
  <1> PICK p \in Partitions : p = rec[1]
    BY RecordParts
  <1>1. /\ rec[2] \in Nat /\ bronze[rec] \in Nat /\ committed[p] \in Nat
        /\ position[r][p] \in Nat \cup {-1}
    BY RecordParts DEF GroupInv, TypeOK
  <1>2. Holds(r, rec)' => Holds(r, rec)
    BY <1>1 DEF Holds
  <1>3. ASSUME Reopens(rec)', ~Reopens(rec)
        PROVE  Holds(r, rec) /\ ~Holds(r, rec)'
    <2>1. committed'[p] <= rec[2] /\ committed[p] <= rec[2] /\ rec \notin batch[r]
      BY <1>1, <1>3 DEF Reopens
    <2>2. PICK q \in Replicas : owner[p] = q /\ ~(position[q][p] > rec[2] /\ rec \notin batch[q])
      BY <1>3, <2>1 DEF Reopens
    <2>3. CASE q # r
      <3>1. owner'[p] = q
        BY <2>2, <2>3
      <3> QED BY <1>3, <2>2, <2>3, <3>1 DEF Reopens
    <2>4. CASE q = r
      <3>1. ~(position[r][p] > rec[2])
        BY <2>1, <2>2, <2>4
      <3>2. position[r][p] # -1
        BY <2>2, <2>4 DEF GroupInv, OneReader
      <3>3. Holds(r, rec)
        BY <1>1, <3>1, <3>2 DEF Holds
      <3>4. position'[r][p] = -1
        BY <1>3, <2>2, <2>4, <3>1 DEF Reopens
      <3> QED BY <1>1, <3>3, <3>4 DEF Holds
    <2> QED BY <2>3, <2>4
  <1>4. bronze'[rec] = bronze[rec]
    OBVIOUS
  <1> QED BY <1>1, <1>2, <1>3, <1>4 DEF Due

\* A fault pays for one more copy, that r holds, that the next owner will, or that
\* what r held has become.
LEMMA FaultPays ==
    ASSUME TypeOK, TypeOK', NEW r \in Replicas, NEW rec \in Record,
           NEW k \in {"crash", "gcs", "commit", "expel", "throw"}, Spend(k),
           \/ bronze'[rec] = bronze[rec] /\ (Holds(r, rec)' => Holds(r, rec))
           \/ bronze'[rec] = bronze[rec] /\ (Reopens(rec)' => Reopens(rec))
           \/ bronze'[rec] = bronze[rec] + 1 /\ Holds(r, rec) /\ ~Holds(r, rec)'
    PROVE  Due(r, rec)' - Faults' <= Due(r, rec) - Faults
  <1>1. Faults' = Faults + 1
    BY FaultCounted
  <1>2. Faults \in Nat /\ bronze[rec] \in Nat
    BY FaultsType DEF TypeOK
  <1> QED BY <1>1, <1>2 DEF Due

\* What is due from r does not rise, and no fault is taken back.
LEMMA NoMoreDue ==
    ASSUME TypeOK, TypeOK', NEW r \in Replicas, NEW rec \in Record,
           Due(r, rec)' <= Due(r, rec), Faults' >= Faults
    PROVE  Due(r, rec)' - Faults' <= Due(r, rec) - Faults
  <1>1. Faults \in Nat /\ Faults' \in Nat /\ bronze[rec] \in Nat /\ bronze'[rec] \in Nat
    BY FaultsType DEF TypeOK, Faults, FaultKind
  <1>2. Due(r, rec) \in Nat
    BY <1>1 DEF Due
  <1>3. Due(r, rec)' \in Nat
    BY <1>1 DEF Due
  <1> QED BY <1>1, <1>2, <1>3

LEMMA AssignCopies ==
    ASSUME GroupInv, NEW r \in Replicas, NEW p \in Partitions, Assign(r, p), NEW rec \in Record
    PROVE  Due(r, rec)' <= Due(r, rec)
  <1> USE DEF GroupInv
  <1>1. /\ position' = [position EXCEPT ![r][p] = committed[p]]
        /\ owner' = [owner EXCEPT ![p] = r] /\ owner[p] = NoOne /\ member[r] /\ pc[r] = "poll"
        /\ UNCHANGED <<pc, batch, pending, member, committed, bronze>>
    BY DEF Assign, StartPosition, sinkVars
  <1>2. position[r][p] = -1
    BY <1>1, EdgeAssumption DEF OneReader, TypeOK
  <1>3. rec[1] \in Partitions /\ rec[2] \in Nat /\ committed[rec[1]] \in Nat /\ bronze[rec] \in Nat
    BY RecordParts DEF TypeOK
  <1>4. CASE rec[1] = p
    <2>1. rec \notin batch[r]
      BY <1>2, <1>3, <1>4, BatchBehind
    <2>2. position'[r][p] = committed[p] /\ owner'[p] = r
      BY <1>1 DEF TypeOK
    <2>3. Reopens(rec) <=> committed[p] <= rec[2]
      BY <1>1, <1>4, EdgeAssumption DEF Reopens
    <2>4. Holds(r, rec)' <=> committed[p] <= rec[2]
      BY <1>1, <1>3, <1>4, <2>1, <2>2 DEF Holds
    <2>5. ~Reopens(rec)'
      BY <1>1, <1>3, <1>4, <2>2 DEF Reopens
    <2> QED BY <1>1, <1>3, <2>3, <2>4, <2>5 DEF Due
  <1>5. CASE rec[1] # p
    <2>1. owner'[rec[1]] = owner[rec[1]] /\ \A q \in Replicas : position'[q][rec[1]] = position[q][rec[1]]
      BY <1>1, <1>3, <1>5 DEF TypeOK
    <2>2. Holds(r, rec)' <=> Holds(r, rec)
      BY <1>1, <2>1 DEF Holds
    <2>3. Reopens(rec)' <=> Reopens(rec)
      BY <1>1, <2>1 DEF Reopens
    <2> QED BY <1>1, <1>3, <2>2, <2>3 DEF Due
  <1> QED BY <1>4, <1>5

LEMMA PollCopies ==
    ASSUME NoDeadLetters, GroupInv, NEW r \in Replicas, NEW p \in Partitions, Poll(r, p),
           NEW rec \in Record
    PROVE  Due(r, rec)' <= Due(r, rec)
  <1> USE DEF GroupInv
  <1> PICK at \in Nat : at = position[r][p]
    BY PolledIsDecoded
  <1>1. /\ batch' = [batch EXCEPT ![r] = @ \cup {<<p, at>>}]
        /\ position' = [position EXCEPT ![r][p] = @ + 1]
        /\ pc[r] = "poll" /\ UNCHANGED <<member, owner, committed, bronze>>
    BY PolledIsDecoded DEF Poll, Decoded, groupVars
  <1>2. pc'[r] # "commit"
    BY <1>1 DEF Poll, MaybeFlush, TypeOK
  <1>3. /\ batch'[r] = batch[r] \cup {<<p, at>>}
        /\ \A q \in Replicas : q # r => batch'[q] = batch[q] /\ position'[q] = position[q]
        /\ position'[r][p] = at + 1
        /\ \A x \in Partitions : x # p => position'[r][x] = position[r][x]
    BY <1>1 DEF TypeOK
  <1>4. rec[1] \in Partitions /\ rec[2] \in Nat /\ bronze[rec] \in Nat /\ rec = <<rec[1], rec[2]>>
    BY RecordParts DEF TypeOK
  <1>5. CASE rec = <<p, at>>
    <2>1. Holds(r, rec) /\ Holds(r, rec)'
      BY <1>2, <1>3, <1>4, <1>5 DEF Holds
    <2>2. Reopens(rec)' => Reopens(rec)
      <3>1. \A q \in Replicas : owner[p] = q /\ Reopens(rec)' => q # r
        BY <1>1, <1>3, <1>5 DEF Reopens
      <3> QED BY <1>1, <1>3, <1>5, <3>1 DEF Reopens
    <2> QED BY <1>1, <1>4, <2>1, <2>2 DEF Due
  <1>6. CASE rec # <<p, at>>
    <2>1. rec[1] # p \/ rec[2] # at
      BY <1>4, <1>6
    <2>2. position'[r][rec[1]] \in 0 .. rec[2] <=> position[r][rec[1]] \in 0 .. rec[2]
      BY <1>3, <1>4, <2>1
    <2>3. position'[r][rec[1]] > rec[2] <=> position[r][rec[1]] > rec[2]
      BY <1>3, <1>4, <2>1
    <2>4. rec \in batch'[r] <=> rec \in batch[r]
      BY <1>3, <1>6
    <2>5. Holds(r, rec)' <=> Holds(r, rec)
      BY <1>1, <1>2, <2>2, <2>4 DEF Holds
    <2>6. Reopens(rec)' <=> Reopens(rec)
      BY <1>1, <1>3, <2>3, <2>4 DEF Reopens
    <2> QED BY <1>1, <1>4, <2>5, <2>6 DEF Due
  <1> QED BY <1>5, <1>6

LEMMA FlushCopies ==
    ASSUME GroupInv, TypeOK', NEW r \in Replicas, NEW rec \in Record,
           CommitSucceeds(r) \/ CommitFails(r) \/ WriteFails(r)
    PROVE  Due(r, rec)' - Faults' <= Due(r, rec) - Faults
  <1> USE DEF GroupInv
  <1> PICK p \in Partitions : p = rec[1]
    BY RecordParts
  <1>1. /\ FlushReturns(r) /\ batch'[r] = {}
        /\ \A q \in Replicas : q # r => batch'[q] = batch[q] /\ position'[q] = position[q]
    BY FlushReturnsOthers DEF CommitSucceeds, CommitFails, WriteFails
  <1>2. \/ owner'[p] = owner[p] /\ position'[r][p] = position[r][p]
        \/ /\ owner'[p] = IF owner[p] = r THEN NoOne ELSE owner[p]
           /\ position'[r][p] = -1
    <2>1. CASE UNCHANGED <<position, owner>>
      BY <2>1
    <2>2. CASE Unassign(r, revoking[r])
      <3>1. owner' = [x \in Partitions |->
                        IF x \in revoking[r] /\ owner[x] = r THEN NoOne ELSE owner[x]]
        BY <2>2 DEF Unassign
      <3>2. position'[r][p] = IF p \in revoking[r] THEN -1 ELSE position[r][p]
        BY <2>2 DEF Unassign, TypeOK
      <3> QED BY <3>1, <3>2
    <2> QED BY <1>1, <2>1, <2>2 DEF FlushReturns
  <1>3. /\ committed[p] \in Nat /\ committed'[p] \in Nat /\ rec[2] \in Nat
        /\ Faults \in Nat /\ Faults' \in Nat /\ bronze[rec] \in Nat
    BY RecordParts DEF TypeOK, Faults, FaultKind
  <1>4. pc'[r] # "commit"
    BY <1>1 DEF FlushReturns, TypeOK
  <1>5. Holds(r, rec)' => position[r][p] \in 0 .. rec[2]
    BY <1>1, <1>2, <1>3 DEF Holds
  <1>6. CASE CommitSucceeds(r)
    <2>1. /\ member[r] /\ committed' = CommittedAfter(r) /\ UNCHANGED <<bronze, used>>
      BY <1>6 DEF CommitSucceeds, sinkVars
    <2>2. committed'[p] = IF pending[r][p] # -1 THEN pending[r][p] ELSE committed[p]
      BY <2>1 DEF CommittedAfter
    <2>3. committed'[p] >= committed[p]
      BY <1>3, <2>1, <2>2, OwnerCommits
    <2>4. rec \in batch[r] => committed'[p] > rec[2]
      BY <1>3, <2>2, BatchBehind
    <2>5. Due(r, rec)' <= Due(r, rec)
      BY <1>1, <1>2, <1>3, <2>1, <2>3, <2>4, HandBack
    <2>6. Faults' >= Faults
      BY <1>3, <2>1 DEF Faults
    <2> QED BY <2>5, <2>6, NoMoreDue
  <1>7. CASE CommitFails(r) /\ Spend("commit")
    <2>1. bronze'[rec] = bronze[rec] /\ (Holds(r, rec)' => Holds(r, rec))
      BY <1>5, <1>7 DEF CommitFails, sinkVars, Holds
    <2> QED BY <1>7, <2>1, FaultPays
  <1>8. CASE CommitFails(r) /\ ~member[r] /\ UNCHANGED used
    <2>1. UNCHANGED <<committed, bronze>>
      BY <1>8 DEF CommitFails, sinkVars
    <2>2. owner[p] # r
      BY <1>8 DEF OneReader
    <2>3. owner'[p] = owner[p]
      BY <1>2, <2>2
    <2>4. Reopens(rec)' <=> Reopens(rec)
      BY <1>1, <2>1, <2>2, <2>3 DEF Reopens
    <2>5. Holds(r, rec)' => Holds(r, rec)
      BY <1>5 DEF Holds
    <2>6. Faults' = Faults
      BY <1>8 DEF Faults
    <2> QED BY <1>3, <2>1, <2>4, <2>5, <2>6 DEF Due
  <1>9. CASE WriteFails(r)
    <2>1. pc[r] = "write" /\ Spend("gcs") /\ (Store(r) \/ UNCHANGED bronze)
      BY <1>9 DEF WriteFails
    <2>2. Holds(r, rec)' => Holds(r, rec)
      BY <1>5 DEF Holds
    <2>3. rec \in batch[r] => Holds(r, rec) /\ ~Holds(r, rec)'
      BY <1>5, <2>1, BatchBehind DEF Holds
    <2>4. \/ bronze'[rec] = bronze[rec]
          \/ bronze'[rec] = bronze[rec] + 1 /\ rec \in batch[r]
      BY <2>1 DEF Store
    <2> QED BY <2>1, <2>2, <2>3, <2>4, FaultPays
  <1> QED BY <1>6, <1>7, <1>8, <1>9 DEF CommitFails

\* The batch in hand is written again, or, thrown in _on_revoke, cleared.
LEMMA ThrowCopies ==
    ASSUME GroupInv, TypeOK', NEW r \in Replicas, NEW rec \in Record, FlushThrows(r)
    PROVE  Due(r, rec)' - Faults' <= Due(r, rec) - Faults
  <1> USE DEF GroupInv
  <1> PICK p \in Partitions : p = rec[1]
    BY RecordParts
  <1>1. /\ Spend("throw") /\ UNCHANGED bronze
        /\ UNCHANGED committed \/ (member[r] /\ committed' = CommittedAfter(r))
    BY DEF FlushThrows, sinkVars
  <1>2. committed[p] \in Nat /\ committed'[p] \in Nat /\ rec[2] \in Nat
    BY RecordParts DEF TypeOK
  <1>3. committed'[p] >= committed[p]
    <2>1. CASE UNCHANGED committed
      BY <1>2, <2>1
    <2>2. CASE member[r] /\ committed' = CommittedAfter(r)
      BY <1>2, <2>2, OwnerCommits DEF CommittedAfter
    <2> QED BY <1>1, <2>1, <2>2
  <1>4. CASE FlushReturns(r)
    <2>1. batch'[r] = {} /\ position'[r][p] \in {-1, position[r][p]}
      BY <1>4, FlushReturnsForgets, FlushReturnsOthers
    <2>2. Holds(r, rec)' => Holds(r, rec)
      BY <1>2, <2>1 DEF Holds
    <2> QED BY <1>1, <2>2, FaultPays
  <1>5. CASE UNCHANGED <<batch, position, owner>>
    <2>1. Reopens(rec)' => Reopens(rec)
      BY <1>2, <1>3, <1>5 DEF Reopens
    <2> QED BY <1>1, <2>1, FaultPays
  <1> QED BY <1>4, <1>5 DEF FlushThrows

LEMMA RevokeCopies ==
    ASSUME GroupInv, TypeOK', NEW r \in Replicas, NEW rec \in Record, NEW ps, OnRevoke(r, ps),
           pc[r] = "poll"
    PROVE  Due(r, rec)' <= Due(r, rec)
  <1> USE DEF GroupInv
  <1> PICK p \in Partitions : p = rec[1]
    BY RecordParts
  <1>1. UNCHANGED <<batch, committed, bronze>> /\ committed[p] \in Nat /\ bronze[rec] \in Nat
    BY DEF OnRevoke, sinkVars, TypeOK
  <1>2. CASE batch[r] = {} /\ Unassign(r, ps)
    <2>1. owner' = [x \in Partitions |-> IF x \in ps /\ owner[x] = r THEN NoOne ELSE owner[x]]
      BY <1>2 DEF Unassign
    <2>2. /\ position'[r][p] = IF p \in ps THEN -1 ELSE position[r][p]
          /\ \A q \in Replicas : q # r => position'[q] = position[q]
      BY <1>2 DEF Unassign, TypeOK
    <2> QED BY <1>1, <1>2, <2>1, <2>2, HandBack
  <1>3. CASE pc' = [pc EXCEPT ![r] = "write"] /\ UNCHANGED <<position, owner>>
    <2>1. Holds(r, rec)' <=> Holds(r, rec)
      BY <1>1, <1>3 DEF Holds, TypeOK
    <2>2. Reopens(rec)' <=> Reopens(rec)
      BY <1>1, <1>3 DEF Reopens
    <2> QED BY <1>1, <2>1, <2>2 DEF Due
  <1> QED BY <1>2, <1>3 DEF OnRevoke

LEMMA ForgetCopies ==
    ASSUME GroupInv, TypeOK', NEW r \in Replicas, NEW rec \in Record, Close(r) \/ Crash(r)
    PROVE  Due(r, rec)' - Faults' <= Due(r, rec) - Faults
  <1> USE DEF GroupInv
  <1> PICK p \in Partitions : p = rec[1]
    BY RecordParts
  <1>1. /\ batch'[r] = {} /\ position'[r][p] = -1 /\ UNCHANGED <<bronze, committed>>
        /\ \A q \in Replicas : q # r => batch'[q] = batch[q] /\ position'[q] = position[q]
        /\ owner'[p] = IF owner[p] = r THEN NoOne ELSE owner[p]
    BY DEF Close, Crash, Forget, Nothing, TypeOK
  <1>2. /\ committed[p] \in Nat /\ rec[2] \in Nat /\ bronze[rec] \in Nat
        /\ Faults \in Nat /\ Faults' \in Nat
    BY RecordParts DEF TypeOK, Faults, FaultKind
  <1>3. CASE Crash(r)
    <2>1. ~Holds(r, rec)'
      BY <1>1, <1>2 DEF Holds
    <2> QED BY <1>1, <1>3, <2>1, FaultPays DEF Crash
  <1>4. CASE Close(r)
    <2>1. batch[r] = {}
      BY <1>4 DEF Close, LeftEmpty
    <2>2. Due(r, rec)' <= Due(r, rec)
      BY <1>1, <1>2, <2>1, HandBack
    <2>3. Faults' >= Faults
      <3>1. CASE Spend("dlq")
        BY <3>1, FaultsGrow DEF Spend, FaultKind
      <3>2. CASE UNCHANGED used
        BY <3>2, <1>2 DEF Faults
      <3> QED BY <1>4, <3>1, <3>2 DEF Close
    <2>4. Due(r, rec) \in Nat /\ Due(r, rec)' \in Nat
      BY <1>1, <1>2 DEF Due
    <2> QED BY <1>2, <2>2, <2>3, <2>4
  <1> QED BY <1>3, <1>4

\* Stopping, going on and leaving: who holds what, and what it costs, stay.
LEMMA IdleCopies ==
    ASSUME GroupInv, TypeOK', NEW r \in Replicas, NEW rec \in Record,
           \/ Rejoin(r) \/ Restart(r) \/ PollNothing(r) \/ Stop(r) \/ Thrown(r) \/ DlqDelivery(r)
    PROVE  Due(r, rec)' <= Due(r, rec) /\ Faults' >= Faults
  <1> USE DEF GroupInv
  <1>1. /\ UNCHANGED <<batch, position, owner, committed, bronze>>
        /\ pc[r] = "down" \/ (pc[r] = "commit" <=> pc'[r] = "commit")
    BY DEF Rejoin, Restart, PollNothing, Stop, Thrown, LeaveLoop, DlqDelivery, workerVars,
           groupVars, sinkVars, TypeOK
  <1>2. pc[r] = "down" => batch[r] = {}
    BY DEF LeftEmpty
  <1>3. Holds(r, rec)' <=> Holds(r, rec)
    BY <1>1, <1>2 DEF Holds
  <1>4. Reopens(rec)' <=> Reopens(rec)
    BY <1>1 DEF Reopens
  <1>5. Faults \in Nat /\ bronze[rec] \in Nat
    BY FaultsType DEF TypeOK
  <1>6. Due(r, rec)' <= Due(r, rec)
    BY <1>1, <1>3, <1>4, <1>5 DEF Due
  <1>7. Faults' >= Faults
    <2>1. UNCHANGED used \/ Spend("stop") \/ Spend("throw") \/ Spend("dlq")
      BY DEF Rejoin, Restart, PollNothing, Stop, Thrown, DlqDelivery
    <2>2. CASE UNCHANGED used
      BY <1>5, <2>2 DEF Faults
    <2> QED BY <2>1, <2>2, FaultsGrow DEF Spend, FaultKind
  <1> QED BY <1>6, <1>7

\* The write turns what the batch holds into a copy.
LEMMA WriteCopies ==
    ASSUME GroupInv, TypeOK', NEW r \in Replicas, NEW rec \in Record, WriteSucceeds(r)
    PROVE  Due(r, rec)' <= Due(r, rec) /\ Faults' = Faults
  <1> USE DEF GroupInv
  <1>1. /\ pc[r] = "write" /\ pc'[r] = "commit"
        /\ UNCHANGED <<batch, position, owner, committed, used>>
        /\ bronze'[rec] = IF rec \in batch[r] THEN bronze[rec] + 1 ELSE bronze[rec]
    BY DEF WriteSucceeds, Store, groupVars, TypeOK
  <1>2. bronze[rec] \in Nat
    BY DEF TypeOK
  <1>3. Reopens(rec)' <=> Reopens(rec)
    BY <1>1 DEF Reopens
  <1>4. CASE rec \in batch[r]
    <2>1. Holds(r, rec)
      BY <1>1, <1>4 DEF Holds
    <2>2. ~Holds(r, rec)'
      BY <1>1, <1>4, BatchBehind DEF Holds
    <2> QED BY <1>1, <1>2, <1>3, <1>4, <2>1, <2>2 DEF Due, Faults
  <1>5. CASE rec \notin batch[r]
    <2>1. Holds(r, rec)' <=> Holds(r, rec)
      BY <1>1, <1>5 DEF Holds
    <2> QED BY <1>1, <1>2, <1>3, <1>5, <2>1 DEF Due, Faults
  <1> QED BY <1>4, <1>5

\* The next owner reads again what the expelled worker goes on to write.
LEMMA ExpelCopies ==
    ASSUME GroupInv, TypeOK', NEW r \in Replicas, NEW rec \in Record, Expel(r)
    PROVE  Due(r, rec)' - Faults' <= Due(r, rec) - Faults
  <1>1. Spend("expel") /\ UNCHANGED <<batch, position, pc, bronze>>
    BY DEF Expel, workerVars, sinkVars
  <1>2. bronze'[rec] = bronze[rec] /\ (Holds(r, rec)' => Holds(r, rec))
    BY <1>1 DEF Holds
  <1> QED BY <1>1, <1>2, FaultPays DEF GroupInv

LEMMA OnlyRMoves ==
    ASSUME TypeOK, NEW r \in Replicas, NEW q \in Replicas, q # r,
           \/ \E p \in Partitions : Poll(r, p) \/ Assign(r, p)
           \/ \E ps \in SUBSET Partitions : Revoke(r, ps)
           \/ WriteSucceeds(r) \/ WriteFails(r) \/ CommitSucceeds(r) \/ CommitFails(r)
           \/ FlushThrows(r) \/ Lost(r) \/ Close(r) \/ Crash(r) \/ PollNothing(r) \/ Expel(r) \/ Rejoin(r)
           \/ Stop(r) \/ Thrown(r) \/ Restart(r) \/ DlqDelivery(r)
    PROVE  batch'[q] = batch[q] /\ position'[q] = position[q] /\ pc'[q] = pc[q]
  <1>1. CASE \E p \in Partitions : Poll(r, p) \/ Assign(r, p)
    BY <1>1 DEF Poll, Decoded, Undecodable, MaybeFlush, Assign, TypeOK
  <1>2. CASE Lost(r) \/ \E ps \in SUBSET Partitions : Revoke(r, ps)
    BY <1>2 DEF Lost, Revoke, OnRevoke, Unassign, TypeOK
  <1>3. CASE WriteFails(r) \/ CommitSucceeds(r) \/ CommitFails(r) \/ FlushThrows(r)
    BY <1>3 DEF WriteFails, CommitSucceeds, CommitFails, FlushThrows, FlushReturns, Unassign,
                TypeOK
  <1>4. CASE WriteSucceeds(r) \/ PollNothing(r) \/ Expel(r) \/ Rejoin(r) \/ Restart(r) \/ DlqDelivery(r)
    BY <1>4 DEF WriteSucceeds, PollNothing, Expel, Rejoin, Restart, DlqDelivery, workerVars, TypeOK
  <1>5. CASE Stop(r) \/ Thrown(r)
    BY <1>5 DEF Stop, Thrown, LeaveLoop, TypeOK
  <1>6. CASE Close(r) \/ Crash(r)
    BY <1>6 DEF Close, Crash, Forget, TypeOK
  <1> QED BY <1>1, <1>2, <1>3, <1>4, <1>5, <1>6

LEMMA StepPays ==
    ASSUME NoDeadLetters, GroupInv, TypeOK', NEW r \in Replicas, NEW rec \in Record,
           \/ \E p \in Partitions : Poll(r, p) \/ Assign(r, p)
           \/ \E ps \in SUBSET Partitions : Revoke(r, ps)
           \/ WriteSucceeds(r) \/ WriteFails(r) \/ CommitSucceeds(r) \/ CommitFails(r)
           \/ FlushThrows(r) \/ Lost(r) \/ Close(r) \/ Crash(r) \/ PollNothing(r) \/ Expel(r) \/ Rejoin(r)
           \/ Stop(r) \/ Thrown(r) \/ Restart(r) \/ DlqDelivery(r)
    PROVE  Due(r, rec)' - Faults' <= Due(r, rec) - Faults
  <1>1. TypeOK /\ Faults \in Nat
    BY FaultsType DEF GroupInv
  <1>2. CASE \E p \in Partitions : Assign(r, p)
    <2>1. Faults' = Faults
      BY <1>2 DEF Assign, Faults
    <2> QED BY <1>1, <1>2, <2>1, AssignCopies, NoMoreDue
  <1>3. CASE \E p \in Partitions : Poll(r, p)
    <2>1. Faults' >= Faults
      <3>1. PICK p \in Partitions : Poll(r, p)
        BY <1>3
      <3>2. UNCHANGED used
        BY <1>1, <3>1, PolledIsDecoded DEF Decoded
      <3> QED BY <1>1, <3>2 DEF Faults
    <2> QED BY <1>1, <1>3, <2>1, PollCopies, NoMoreDue
  <1>4. CASE Lost(r) \/ \E ps \in SUBSET Partitions : Revoke(r, ps)
    <2>1. pc[r] = "poll" /\ \E ps : OnRevoke(r, ps)
      BY <1>4 DEF Lost, Revoke
    <2>2. Faults' >= Faults
      <3>1. CASE UNCHANGED used
        BY <1>1, <3>1 DEF Faults
      <3>2. CASE Spend("rebalance")
        BY <1>1, <3>2, FaultsGrow DEF Spend, FaultKind
      <3> QED BY <1>4, <3>1, <3>2 DEF Lost, Revoke
    <2> QED BY <1>1, <2>1, <2>2, RevokeCopies, NoMoreDue
  <1>5. CASE Rejoin(r) \/ Restart(r) \/ PollNothing(r) \/ Stop(r) \/ Thrown(r) \/ DlqDelivery(r)
    BY <1>1, <1>5, IdleCopies, NoMoreDue
  <1>6. CASE WriteSucceeds(r)
    BY <1>1, <1>6, WriteCopies, NoMoreDue
  <1> QED BY <1>2, <1>3, <1>4, <1>5, <1>6, FlushCopies, ThrowCopies, ForgetCopies, ExpelCopies

LEMMA NextCopies ==
    ASSUME NoDeadLetters, GroupInv, CopiesPaidFor, [Next]_vars
    PROVE  CopiesPaidFor'
  <1>0. TypeOK /\ TypeOK'
    BY NextTypeOK DEF GroupInv
  <1>1. CASE UNCHANGED vars
    BY <1>1 DEF vars, workerVars, groupVars, sinkVars, CopiesPaidFor, Holders, Holds, Copies,
                Reopens, Faults
  <1>2. ASSUME Next, NEW rec \in Record
        PROVE  IsFiniteSet(Holders(rec))' /\ Copies(rec)' <= 1 + Faults'
    <2>1. PICK r \in Replicas :
            \/ \E p \in Partitions : Poll(r, p) \/ Assign(r, p)
            \/ \E ps \in SUBSET Partitions : Revoke(r, ps)
            \/ WriteSucceeds(r) \/ WriteFails(r) \/ CommitSucceeds(r) \/ CommitFails(r)
            \/ FlushThrows(r) \/ Lost(r) \/ Close(r) \/ Crash(r) \/ PollNothing(r) \/ Expel(r) \/ Rejoin(r)
            \/ Stop(r) \/ Thrown(r) \/ Restart(r) \/ DlqDelivery(r)
      BY <1>2 DEF Next, Work
    <2>2. \A q \in Replicas : q # r =>
            batch'[q] = batch[q] /\ position'[q] = position[q] /\ pc'[q] = pc[q]
      BY <1>0, <2>1, OnlyRMoves
    <2>3. Due(r, rec)' - Faults' <= Due(r, rec) - Faults
      BY <1>0, <2>1, StepPays
    <2>4. IsFiniteSet(Holders(rec)) /\ Copies(rec) <= 1 + Faults
      BY DEF CopiesPaidFor
    <2> QED BY <1>0, <2>2, <2>3, <2>4, OneHolderMoves
  <1> QED BY <1>1, <1>2 DEF CopiesPaidFor

LEMMA InitCopies == Init => CopiesPaidFor
  <1> SUFFICES ASSUME Init, NEW rec \in Record
               PROVE  IsFiniteSet(Holders(rec)) /\ Copies(rec) <= 1 + Faults
    BY DEF CopiesPaidFor
  <1>1. Holders(rec) = {}
    BY RecordParts DEF Init, Holders, Holds, Nothing
  <1>2. bronze[rec] = 0 /\ Faults = 0
    BY DEF Init, Faults, FaultKind
  <1> QED BY <1>1, <1>2, FS_EmptySet DEF Copies

\* When every message decodes and the registry answers, every copy of a record
\* after its first is paid for by a crash, a failed write or commit, an expired
\* session or an exception, however many workers and rebalances there are (_on_revoke 369-395).
THEOREM CopiesArePaidFor ==
    ASSUME NoDeadLetters
    PROVE  Spec => []DuplicatesArePaidFor
  <1>1. Init => GroupInv /\ CopiesPaidFor
    BY InitGroup, InitCopies
  <1>2. GroupInv /\ CopiesPaidFor /\ [Next]_vars => (GroupInv /\ CopiesPaidFor)'
    BY NextGroup, NextCopies
  <1>3. GroupInv /\ CopiesPaidFor => DuplicatesArePaidFor
    <2> SUFFICES ASSUME GroupInv, CopiesPaidFor, NEW rec \in Record
                 PROVE  bronze[rec]
                          <= 1 + used["crash"] + used["gcs"] + used["commit"] + used["expel"]
                               + used["throw"]
      BY DEF DuplicatesArePaidFor
    <2>1. bronze[rec] \in Nat /\ Faults \in Nat
      BY FaultsType DEF GroupInv, TypeOK
    <2>2. Cardinality(Holders(rec)) \in Nat
      BY FS_CardinalityType DEF CopiesPaidFor
    <2>3. bronze[rec] <= 1 + Faults
      BY <2>1, <2>2 DEF CopiesPaidFor, Copies
    <2> QED BY <2>3 DEF Faults, GroupInv, TypeOK, FaultKind
  <1> QED BY <1>1, <1>2, <1>3, PTL DEF Spec
=============================================================================
