---------------------------- MODULE EdgeConsumer ----------------------------
(***************************************************************************)
(* The Kafka edge consumer: several replicas of one _TopicWorker           *)
(* (src/ingestion/kafka_consumer.py) in one consumer group.  A worker      *)
(* polls, decodes, batches, writes the batch to GCS and then commits the   *)
(* offsets of everything it handled; undecodable messages go to the dead-  *)
(* letter producer.  The group coordinator (external) moves partitions     *)
(* between replicas, and calls _on_revoke from inside poll().              *)
(*                                                                         *)
(* A GCS write, an offset commit and a DLQ delivery are steps of their own:*)
(* crashes, session expiry and rebalances happen between them.             *)
(***************************************************************************)
EXTENDS Integers, FiniteSets

CONSTANTS Replicas,    \* the worker processes of the group
          Partitions,  \* the partitions of the topic
          LogLen,      \* messages in each partition's log (bound)
          Bad,         \* the messages that do not decode
          BatchSize,   \* TopicConfig.batch_size
          DlqCap,      \* messages the DLQ producer's local queue holds
          MaxFaults,   \* how often each kind of fault may happen (bound)
          NoOne        \* the coordinator's "owned by nobody"

Offset == 0 .. (LogLen - 1)
Record == Partitions \X Offset

FaultKind == {"gcs", "commit", "dlq", "registry", "crash", "expel", "rebalance", "stop",
              "throw"}

ASSUME EdgeAssumption ==
    /\ LogLen \in Nat
    /\ Bad \subseteq Record
    /\ BatchSize \in Nat \ {0}
    /\ DlqCap \in Nat
    /\ MaxFaults \in [FaultKind -> Nat]
    /\ NoOne \notin Replicas

VARIABLES
    \* one worker
    pc,         \* where its thread is: see Phase
    after,      \* what _flush returns to: the loop, _on_revoke, the end of run()
                \* (stop), or close(), of a dying or a stopped worker (die, quit)
    batch,      \* self.batch, as the set of records in it
    pending,    \* self.pending_offsets; -1 stands for "no entry"
    position,   \* next offset to fetch; -1 when the partition is not assigned
    revoking,   \* the partitions _on_revoke was called with
    dlqQueue,   \* produced to the DLQ, delivery report still outstanding
    \* the group coordinator
    member,     \* the worker's generation is current: its commits are accepted
    owner,      \* the replica a partition is assigned to
    committed,  \* the group's committed offset; 0 when there is none
    \* what outlives a process
    bronze,     \* how many Bronze files hold the record
    dlq,        \* delivered to the dead-letter topic
    \* history
    dropped,    \* was in a batch whose GCS write failed (gcs_write_errors)
    dlqLost,    \* was refused or given up by the DLQ producer (logged or counted)
    abandoned,  \* was in the DLQ producer's queue when its process died
    used        \* faults spent so far

workerVars == <<pc, after, batch, pending, position, revoking>>
groupVars  == <<member, owner, committed>>
sinkVars   == <<bronze, dlq, dropped, dlqLost, abandoned, dlqQueue>>
vars == <<workerVars, groupVars, sinkVars, used>>

Phase == {"poll",     \* at the top of the loop
          "write",    \* in _flush, before write_batch
          "commit",   \* in _flush, the batch is in GCS, before commit
          "closing",  \* left the loop: consumer.close(), dlq_producer.flush()
          "dead",     \* the thread ended on an exception, the process lives on
          "down"}     \* the process is gone
ReturnTo == {"loop", "revoke", "stop", "die", "quit"}

Nothing == [p \in Partitions |-> -1]
Assigned(r) == {p \in Partitions : position[r][p] # -1}

TypeOK ==
    /\ pc \in [Replicas -> Phase]
    /\ after \in [Replicas -> ReturnTo]
    /\ batch \in [Replicas -> SUBSET Record]
    /\ pending \in [Replicas -> [Partitions -> Nat \cup {-1}]]
    /\ position \in [Replicas -> [Partitions -> Nat \cup {-1}]]
    /\ revoking \in [Replicas -> SUBSET Partitions]
    /\ dlqQueue \in [Replicas -> SUBSET Record]
    /\ member \in [Replicas -> BOOLEAN]
    /\ owner \in [Partitions -> Replicas \cup {NoOne}]
    /\ committed \in [Partitions -> Nat]
    /\ bronze \in [Record -> Nat]
    /\ dlq \subseteq Record
    /\ dropped \subseteq Record
    /\ dlqLost \subseteq Record
    /\ abandoned \subseteq Record
    /\ used \in [FaultKind -> Nat]

Init ==
    /\ pc = [r \in Replicas |-> "poll"]
    /\ after = [r \in Replicas |-> "loop"]
    /\ batch = [r \in Replicas |-> {}]
    /\ pending = [r \in Replicas |-> Nothing]
    /\ position = [r \in Replicas |-> Nothing]
    /\ revoking = [r \in Replicas |-> {}]
    /\ dlqQueue = [r \in Replicas |-> {}]
    /\ member = [r \in Replicas |-> TRUE]
    /\ owner = [p \in Partitions |-> NoOne]
    /\ committed = [p \in Partitions |-> 0]
    /\ bronze = [rec \in Record |-> 0]
    /\ dlq = {}
    /\ dropped = {}
    /\ dlqLost = {}
    /\ abandoned = {}
    /\ used = [k \in FaultKind |-> 0]

\* The faults of kinds ks happen, within their bounds.
SpendAll(ks) ==
    /\ \A k \in ks : used[k] < MaxFaults[k]
    /\ used' = [k \in FaultKind |-> IF k \in ks THEN used[k] + 1 ELSE used[k]]

Spend(k) == SpendAll({k})

-----------------------------------------------------------------------------
(* Rebalancing: external, as librdkafka and the broker drive the worker.    *)

\* Mutants: auto.offset.reset = latest, whatever was committed; the committed
\* offset is taken for the last one handled.
StartAtEnd(p) == LogLen
StartPastCommitted(p) == committed[p] + 1

\* The offset a newly assigned partition is fetched from: the committed one,
\* or the earliest (auto.offset.reset) when there is none.
StartPosition(p) == committed[p]

\* The coordinator gives an unowned partition to a member (cooperative-sticky:
\* what the member already has stays), and poll() serves _on_assign.
Assign(r, p) ==
    /\ pc[r] = "poll"
    /\ member[r]
    /\ owner[p] = NoOne
    /\ owner' = [owner EXCEPT ![p] = r]
    /\ position' = [position EXCEPT ![r][p] = StartPosition(p)]
    /\ UNCHANGED <<pc, after, batch, pending, revoking, member, committed, sinkVars, used>>

\* The session of r expires (no heartbeat, or max.poll.interval exceeded): its
\* partitions are free for others while r, unaware, still holds them.
Expel(r) ==
    /\ pc[r] \in {"poll", "write", "commit"}
    /\ member[r]
    /\ Spend("expel")
    /\ member' = [member EXCEPT ![r] = FALSE]
    /\ owner' = [p \in Partitions |-> IF owner[p] = r THEN NoOne ELSE owner[p]]
    /\ UNCHANGED <<workerVars, committed, sinkVars>>

\* After an expulsion, and with its old assignment given up, r joins anew.
Rejoin(r) ==
    /\ pc[r] = "poll"
    /\ ~member[r]
    /\ Assigned(r) = {}
    /\ member' = [member EXCEPT ![r] = TRUE]
    /\ UNCHANGED <<workerVars, owner, committed, sinkVars, used>>

\* The partitions ps leave r's assignment (incremental_unassign).
Unassign(r, ps) ==
    /\ position' = [position EXCEPT ![r] =
                      [p \in Partitions |-> IF p \in ps THEN -1 ELSE @[p]]]
    /\ owner' = [p \in Partitions |->
                   IF p \in ps /\ owner[p] = r THEN NoOne ELSE owner[p]]

\* Mutant: the callback does not flush the batch in hand.
RevokeWithoutFlush(r, ps) ==
    /\ ps # {}
    /\ Unassign(r, ps)
    /\ UNCHANGED <<pc, after, revoking, batch, pending, member, committed, sinkVars>>

\* _on_revoke, called inside poll(): _flush first.  With an empty batch _flush
\* returns at once, and pending_offsets stays as it is.
OnRevoke(r, ps) ==
    /\ ps # {}
    /\ \/ /\ batch[r] = {}
          /\ Unassign(r, ps)
          /\ UNCHANGED <<pc, after, revoking>>
       \/ /\ batch[r] # {}
          /\ pc' = [pc EXCEPT ![r] = "write"]
          /\ after' = [after EXCEPT ![r] = "revoke"]
          /\ revoking' = [revoking EXCEPT ![r] = ps]
          /\ UNCHANGED <<position, owner>>
    /\ UNCHANGED <<batch, pending, member, committed, sinkVars>>

\* A rebalance takes ps away from a member.
Revoke(r, ps) ==
    /\ pc[r] = "poll"
    /\ member[r]
    /\ ps \subseteq Assigned(r)
    /\ Spend("rebalance")
    /\ OnRevoke(r, ps)

\* An expelled worker learns that its partitions are lost: no on_lost callback
\* is configured, so librdkafka calls on_revoke with all of them.
Lost(r) ==
    /\ pc[r] = "poll"
    /\ ~member[r]
    /\ OnRevoke(r, Assigned(r))
    /\ UNCHANGED used

-----------------------------------------------------------------------------
(* _handle_message *)

\* merge_offset: the next offset to commit for one partition.
MergeOffset(current, offset) == IF offset + 1 > current THEN offset + 1 ELSE current

\* The message decodes: it joins the batch.
Decoded(r, rec) ==
    /\ rec \notin Bad
    /\ batch' = [batch EXCEPT ![r] = @ \cup {rec}]
    /\ UNCHANGED <<dlqQueue, dlq, dlqLost, used>>

\* _send_to_dlq: produce() is queued locally; on BufferError the queue is
\* flushed and the produce retried once; any other error gives the message up.
\* The faults in spent brought the message here.
SendToDlq(r, rec, spent) ==
    \/ /\ Cardinality(dlqQueue[r]) < DlqCap
       /\ dlqQueue' = [dlqQueue EXCEPT ![r] = @ \cup {rec}]
       /\ SpendAll(spent)
       /\ UNCHANGED <<dlq, dlqLost>>
    \/ /\ Cardinality(dlqQueue[r]) >= DlqCap
       /\ \E delivered \in SUBSET dlqQueue[r] :
             /\ delivered # {}
             /\ dlqQueue' = [dlqQueue EXCEPT ![r] = (@ \ delivered) \cup {rec}]
             /\ dlq' = dlq \cup delivered
       /\ SpendAll(spent)
       /\ UNCHANGED dlqLost
    \/ /\ SpendAll(spent \cup {"dlq"})
       /\ dlqLost' = dlqLost \cup {rec}
       /\ UNCHANGED <<dlqQueue, dlq>>

\* The message does not decode, or its schema cannot be fetched (any exception of
\* the registry client ends here too): it is dead-lettered and its offset is
\* merged all the same.
Undecodable(r, rec) ==
    /\ SendToDlq(r, rec, IF rec \in Bad THEN {} ELSE {"registry"})
    /\ UNCHANGED batch

\* _maybe_flush: a full batch is flushed, a non-empty one whose timer (which the
\* model leaves open) has run out too.
MaybeFlush(r, records) ==
    \/ /\ records # {}
       /\ pc' = [pc EXCEPT ![r] = "write"]
       /\ after' = [after EXCEPT ![r] = "loop"]
    \/ /\ Cardinality(records) < BatchSize
       /\ UNCHANGED <<pc, after>>

\* One turn of the loop that gets a message.
Poll(r, p) ==
    /\ pc[r] = "poll"
    /\ position[r][p] \in Offset
    /\ LET rec == <<p, position[r][p]>> IN
         /\ position' = [position EXCEPT ![r][p] = @ + 1]
         /\ pending' = [pending EXCEPT ![r][p] = MergeOffset(@, position[r][p])]
         /\ Decoded(r, rec) \/ Undecodable(r, rec)
    /\ MaybeFlush(r, batch'[r])
    /\ UNCHANGED <<revoking, groupVars, bronze, dropped, abandoned>>

\* One turn of the loop that gets none: only the timer can flush the batch.
PollNothing(r) ==
    /\ pc[r] = "poll"
    /\ batch[r] # {}
    /\ pc' = [pc EXCEPT ![r] = "write"]
    /\ after' = [after EXCEPT ![r] = "loop"]
    /\ UNCHANGED <<batch, pending, position, revoking, groupVars, sinkVars, used>>

-----------------------------------------------------------------------------
(* _flush: the write, then the commit *)

\* _flush clears its state and returns to its caller.
FlushReturns(r) ==
    /\ batch' = [batch EXCEPT ![r] = {}]
    /\ pending' = [pending EXCEPT ![r] = Nothing]
    /\ revoking' = [revoking EXCEPT ![r] = {}]
    /\ \/ /\ after[r] = "loop"
          /\ pc' = [pc EXCEPT ![r] = "poll"]
          /\ UNCHANGED <<position, owner>>
       \/ /\ after[r] = "revoke"
          /\ pc' = [pc EXCEPT ![r] = "poll"]
          /\ Unassign(r, revoking[r])
       \/ /\ after[r] \in {"stop", "die", "quit"}
          /\ pc' = [pc EXCEPT ![r] = "closing"]
          /\ UNCHANGED <<position, owner>>
    /\ UNCHANGED <<after, member>>

\* write_batch: one more file, with the records of the batch.
Store(r) ==
    bronze' = [rec \in Record |-> IF rec \in batch[r] THEN bronze[rec] + 1 ELSE bronze[rec]]

WriteSucceeds(r) ==
    /\ pc[r] = "write"
    /\ Store(r)
    /\ pc' = [pc EXCEPT ![r] = "commit"]
    /\ UNCHANGED <<after, batch, pending, position, revoking, groupVars,
                   dlq, dropped, dlqLost, abandoned, dlqQueue, used>>

\* Mutant: the error of the write is swallowed, and the flush goes on.
WriteErrorIgnored(r) ==
    /\ pc[r] = "write"
    /\ Spend("gcs")
    /\ pc' = [pc EXCEPT ![r] = "commit"]
    /\ UNCHANGED <<after, batch, pending, position, revoking, groupVars, sinkVars>>

\* write_batch raises, with the object stored (a timeout) or not: the batch and
\* its offsets are forgotten.  The consumer's position stays where it is.
WriteFails(r) ==
    /\ pc[r] = "write"
    /\ Spend("gcs")
    /\ Store(r) \/ UNCHANGED bronze
    /\ dropped' = dropped \cup batch[r]
    /\ FlushReturns(r)
    /\ UNCHANGED <<committed, dlq, dlqLost, abandoned, dlqQueue>>

\* The committed offsets once pending_offsets is committed.
CommittedAfter(r) ==
    [p \in Partitions |-> IF pending[r][p] # -1 THEN pending[r][p] ELSE committed[p]]

\* The broker checks the member's generation, not who owns the partition.
CommitSucceeds(r) ==
    /\ pc[r] = "commit"
    /\ member[r]
    /\ committed' = CommittedAfter(r)
    /\ FlushReturns(r)
    /\ UNCHANGED <<sinkVars, used>>

\* KafkaException: logged and counted, the flush completes all the same.
CommitFails(r) ==
    /\ pc[r] = "commit"
    /\ \/ ~member[r] /\ UNCHANGED used
       \/ member[r] /\ Spend("commit")
    /\ FlushReturns(r)
    /\ UNCHANGED <<committed, sinkVars>>

\* What _flush does not catch leaves it after the write: out of the commit (anything
\* but a KafkaException) or, the offsets committed or not, out of the metrics.
\* _on_revoke swallows it and clears the batch.  Elsewhere it ends the thread, batch
\* in hand, and close() calls _on_revoke, which writes the batch once more.
FlushThrows(r) ==
    /\ pc[r] = "commit"
    /\ Spend("throw")
    /\ \/ member[r] /\ committed' = CommittedAfter(r)
       \/ UNCHANGED committed
    /\ \/ after[r] \in {"revoke", "die", "quit"} /\ FlushReturns(r)
       \/ /\ after[r] \in {"loop", "stop"}
          /\ pc' = [pc EXCEPT ![r] = "write"]
          /\ after' = [after EXCEPT ![r] = IF @ = "stop" THEN "quit" ELSE "die"]
          /\ UNCHANGED <<batch, pending, position, revoking, member, owner>>
    /\ UNCHANGED sinkVars

-----------------------------------------------------------------------------
(* Leaving the loop, crashes, restarts *)

\* The loop ends: on the shutdown event (stop), or on an exception out of poll
\* (die).  A batch in hand is flushed, by run() or by _on_revoke from close();
\* with an empty one no flush happens, whatever pending_offsets holds.
LeaveLoop(r, why) ==
    /\ pc[r] = "poll"
    /\ after' = [after EXCEPT ![r] = why]
    /\ pc' = [pc EXCEPT ![r] = IF batch[r] = {} THEN "closing" ELSE "write"]
    /\ UNCHANGED <<batch, pending, position, revoking, groupVars, sinkVars>>

Stop(r)   == Spend("stop") /\ LeaveLoop(r, "stop")
Thrown(r) == Spend("throw") /\ LeaveLoop(r, "die")

\* The worker's memory and its place in the group are gone.
Forget(r) ==
    /\ batch' = [batch EXCEPT ![r] = {}]
    /\ pending' = [pending EXCEPT ![r] = Nothing]
    /\ revoking' = [revoking EXCEPT ![r] = {}]
    /\ position' = [position EXCEPT ![r] = Nothing]
    /\ owner' = [p \in Partitions |-> IF owner[p] = r THEN NoOne ELSE owner[p]]
    /\ member' = [member EXCEPT ![r] = FALSE]
    /\ dlqQueue' = [dlqQueue EXCEPT ![r] = {}]

\* The finally block: leave the group, then wait (10 s) for the DLQ producer.
Close(r) ==
    /\ pc[r] = "closing"
    /\ pc' = [pc EXCEPT ![r] = IF after[r] = "die" THEN "dead" ELSE "down"]
    /\ after' = [after EXCEPT ![r] = "loop"]
    /\ \E undelivered \in SUBSET dlqQueue[r] :
          /\ IF undelivered = {} THEN UNCHANGED used ELSE Spend("dlq")
          /\ dlq' = dlq \cup (dlqQueue[r] \ undelivered)
          /\ dlqLost' = dlqLost \cup undelivered
    /\ Forget(r)
    /\ UNCHANGED <<committed, bronze, dropped, abandoned>>

\* The process dies: out of memory, eviction, a join timeout of stop().  What its
\* DLQ producer still had queued goes with it, and nothing is logged or counted.
Crash(r) ==
    /\ pc[r] # "down"
    /\ Spend("crash")
    /\ pc' = [pc EXCEPT ![r] = "down"]
    /\ after' = [after EXCEPT ![r] = "loop"]
    /\ abandoned' = abandoned \cup dlqQueue[r]
    /\ Forget(r)
    /\ UNCHANGED <<committed, bronze, dlq, dropped, dlqLost>>

\* The process is started again: __init__, start(), subscribe().
Restart(r) ==
    /\ pc[r] = "down"
    /\ pc' = [pc EXCEPT ![r] = "poll"]
    /\ member' = [member EXCEPT ![r] = TRUE]
    /\ UNCHANGED <<after, batch, pending, position, revoking, owner, committed, sinkVars, used>>

\* librdkafka's sender delivers a queued dead letter, or gives it up: the
\* delivery report is only logged.
DlqDelivery(r) ==
    \E rec \in dlqQueue[r] :
        /\ dlqQueue' = [dlqQueue EXCEPT ![r] = @ \ {rec}]
        /\ \/ dlq' = dlq \cup {rec} /\ UNCHANGED <<dlqLost, used>>
           \/ dlqLost' = dlqLost \cup {rec} /\ Spend("dlq") /\ UNCHANGED dlq
        /\ UNCHANGED <<workerVars, groupVars, bronze, dropped, abandoned>>

-----------------------------------------------------------------------------

\* What the worker's thread does when it is scheduled and nothing goes wrong.
Work(r) ==
    \/ \E p \in Partitions : Poll(r, p)
    \/ WriteSucceeds(r)
    \/ CommitSucceeds(r)
    \/ CommitFails(r)
    \/ Lost(r)
    \/ Close(r)

Next ==
    \E r \in Replicas :
        \/ Work(r)
        \/ PollNothing(r)
        \/ WriteFails(r)
        \/ FlushThrows(r)
        \/ \E p \in Partitions : Assign(r, p)
        \/ \E ps \in SUBSET Partitions : Revoke(r, ps)
        \/ Expel(r)
        \/ Rejoin(r)
        \/ Stop(r)
        \/ Thrown(r)
        \/ Crash(r)
        \/ Restart(r)
        \/ DlqDelivery(r)

Spec == Init /\ [][Next]_vars

\* The thread is scheduled, the batch timer runs, the coordinator hands out
\* unowned partitions, a replica that is down is restarted, and the DLQ producer
\* delivers or times out.  Nothing restarts a thread that died in a live process.
Fairness ==
    /\ \A r \in Replicas : WF_vars(Work(r))
    /\ \A r \in Replicas : WF_vars(PollNothing(r))
    /\ \A r \in Replicas : WF_vars(Rejoin(r))
    /\ \A r \in Replicas : WF_vars(Restart(r))
    /\ \A r \in Replicas : WF_vars(DlqDelivery(r))
    /\ \A p \in Partitions : WF_vars(\E r \in Replicas : Assign(r, p))

FairSpec == Spec /\ Fairness
-----------------------------------------------------------------------------
(* Properties *)

\* Below the committed offset: no replica will ever fetch the record again.
Passed(rec) == rec[2] < committed[rec[1]]

\* The record reached a sink, is on its way to the dead-letter topic, or its loss was
\* counted or logged.
Accounted(rec) ==
    \/ bronze[rec] > 0
    \/ rec \in dlq \cup dlqLost \cup dropped
    \/ \E r \in Replicas : rec \in dlqQueue[r]

\* The one silent loss there is: when a commit has passed a record (_flush 538-542)
\* that was not written, dead-lettered, queued for it, or reported as a failed write
\* or produce, it is a dead letter that a crash took from the producer's queue (600,
\* 631-634).  A record that decodes, its schema fetched, is never lost that way.
OnlyCrashedLettersVanish ==
    \A rec \in Record :
        Passed(rec) => \/ Accounted(rec)
                       \/ /\ rec \in abandoned
                          /\ used["crash"] > 0
                          /\ rec \in Bad \/ used["registry"] > 0

\* "Offsets are committed only AFTER a confirmed GCS write (at-least-once)"
\* (kafka_consumer.py 16): a decodable record below the committed offset is in
\* Bronze.  Holds as long as no GCS write fails and the registry answers.
AtLeastOnce ==
    \A rec \in Record \ Bad : Passed(rec) => bronze[rec] > 0

\* "flush + commit the in-flight batch BEFORE partitions are revoked, preventing
\* duplicate Bronze files after rebalances" (kafka_consumer.py 14-15).
NoDuplicateBronze == \A rec \in Record : bronze[rec] <= 1

\* The topic as one reader sees it who knows nothing of the group.
Stored == {rec \in Record : bronze[rec] > 0}
Queued == UNION {dlqQueue[r] : r \in Replicas}
Reported == dropped \cup dlqLost

Delivered == INSTANCE Delivery WITH
    stored <- Stored, queued <- Queued, dead <- dlq, reported <- Reported,
    vanished <- abandoned

\* The replicas together implement Delivery: a handled record stays handled through
\* every crash and rebalance, an undecodable one never reaches Bronze, and offsets
\* move in steps of their own over what was handled before (_flush 505-567).
DeliverySpec == Delivered!Spec

\* A second Bronze copy of a record is always the price of a crash, a failed write
\* or commit, an expired session or an exception out of _flush (whose batch close()
\* writes again), one copy each; rebalances and stops alone never make one
\* (_on_revoke 369-395, run 429-448).
DuplicatesArePaidFor ==
    \A rec \in Record :
        bronze[rec] <= 1 + used["crash"] + used["gcs"] + used["commit"] + used["expel"]
                         + used["throw"]

\* The group's committed offset never moves backwards: what one owner finished
\* is not handed to the next one again (_flush 538-542).
CommittedMonotonic ==
    [][\A p \in Partitions : committed'[p] >= committed[p]]_committed

\* A dead letter whose offset is committed is in the DLQ, still on its way, or
\* was reported lost (_send_to_dlq 592-629, run 450-452); a crash reports nothing.
DeadLetterKept ==
    \A rec \in Bad : Passed(rec) =>
        \/ rec \in dlq
        \/ \E r \in Replicas : rec \in dlqQueue[r]

\* Once faults cease, every message is handled: no interleaving of expulsions, stops,
\* crashes and failed flushes leaves a partition without a worker that reads it.
EventuallyAccounted == \A rec \in Record : <>Accounted(rec)

\* update_lag: committed minus position, for an assigned partition with a commit.
SampledLag(r, p) ==
    IF committed[p] > position[r][p] THEN committed[p] - position[r][p] ELSE 0

\* "per-partition lag" (update_lag 641): a worker that has not read to the end of
\* a partition reports some lag for it.
LagShowsBacklog ==
    \A r \in Replicas : \A p \in Assigned(r) :
        committed[p] > 0 /\ position[r][p] < LogLen => SampledLag(r, p) > 0
=============================================================================
