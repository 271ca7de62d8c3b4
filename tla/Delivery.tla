------------------------------ MODULE Delivery ------------------------------
(***************************************************************************)
(* What the edge consumer promises of one topic, without replicas, batches *)
(* or rebalances: a record is handled when it is stored, dead-lettered,    *)
(* reported as lost or, as a queued dead letter, gone with its process;    *)
(* what is handled stays handled; and the group's offset moves in a step   *)
(* of its own, and only over records handled before it.                    *)
(* EdgeConsumer implements this specification (its DeliverySpec).          *)
(***************************************************************************)
EXTENDS Integers

CONSTANTS Partitions,  \* the partitions of the topic
          Record,      \* the messages: pairs of a partition and an offset
          Bad          \* those that do not decode

VARIABLES stored,      \* in Bronze
          queued,      \* handed to the dead-letter producer, not yet delivered
          dead,        \* in the dead-letter topic
          reported,    \* counted or logged as lost
          vanished,    \* died with the process whose producer had it queued
          committed    \* the group's committed offsets

vars == <<stored, queued, dead, reported, vanished, committed>>

Handled == stored \cup queued \cup dead \cup reported \cup vanished

Init ==
    /\ stored = {} /\ queued = {} /\ dead = {} /\ reported = {} /\ vanished = {}
    /\ committed = [p \in Partitions |-> 0]

\* A batch of decoded records is stored, or reported, or both: a write that
\* timed out may have stored it all the same.
WriteBatch ==
    /\ \E batch \in SUBSET (Record \ Bad) :
          /\ stored' \in {stored, stored \cup batch}
          /\ reported' \in {reported, reported \cup batch}
    /\ UNCHANGED <<queued, dead, vanished, committed>>

\* Some of the waiting dead letters are delivered or reported.  Another replica
\* may have the same letter in its queue still.
Leave(waiting) ==
    \E out \in SUBSET waiting :
        /\ waiting \ out \subseteq queued'
        /\ queued' \subseteq waiting
        /\ dead \subseteq dead' /\ reported \subseteq reported'
        /\ dead' \cup reported' = dead \cup reported \cup out

\* A message that did not decode is handed to the dead-letter producer.
DeadLetter ==
    /\ \E rec \in Record : Leave(queued \cup {rec})
    /\ UNCHANGED <<stored, vanished, committed>>

\* The producer delivers or gives up, and says so.
Settle ==
    /\ Leave(queued)
    /\ UNCHANGED <<stored, vanished, committed>>

\* The producer dies with its process, and what only it had queued leaves no trace.
Vanish ==
    /\ \E gone \in SUBSET queued :
          /\ queued \ gone \subseteq queued'
          /\ queued' \subseteq queued
          /\ vanished' = vanished \cup gone
    /\ UNCHANGED <<stored, dead, reported, committed>>

\* The offsets move, over handled records only.
Commit ==
    /\ committed' \in [Partitions -> Nat]
    /\ \A rec \in Record : rec[2] < committed'[rec[1]] => rec \in Handled
    /\ UNCHANGED <<stored, queued, dead, reported, vanished>>

Next == WriteBatch \/ DeadLetter \/ Settle \/ Vanish \/ Commit

Spec == Init /\ [][Next]_vars
=============================================================================
