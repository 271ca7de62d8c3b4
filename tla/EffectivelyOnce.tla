---------------------------- MODULE EffectivelyOnce ----------------------------
(***************************************************************************)
(* What the Bronze job promises of its tables, without applications,       *)
(* queries, batches or retries: a table only grows, and by rows of records *)
(* it does not have; the committed end of a topic moves in a step of its   *)
(* own, and the table takes nothing behind it any more; and it moves over  *)
(* records that are in the table or have no row to give (any more: Kafka   *)
(* may have deleted them).  The last holds until a checkpoint is restored  *)
(* from an older copy.  BronzeStream implements this specification (its    *)
(* TableSpec).                                                             *)
(***************************************************************************)
EXTENDS Integers

CONSTANT Topic

VARIABLES table,     \* per topic: the rows, each with the offset of its record
          void,      \* per topic: the offsets of the records that give no row
          done,      \* per topic: the end of what is committed
          restored   \* some checkpoint was restored

vars == <<table, void, done, restored>>

Offsets(rows) == {row.offset : row \in rows}

Init ==
    /\ table = [t \in Topic |-> {}]
    /\ void \in [Topic -> SUBSET Nat]
    /\ done = [t \in Topic |-> 0]
    /\ restored = FALSE

\* Rows of new records come to the table, at once, and none behind what is committed.
Append(t) ==
    LET new == table'[t] \ table[t] IN
    /\ table' = [table EXCEPT ![t] = @ \cup new]
    /\ Offsets(new) \cap Offsets(table[t]) = {}
    /\ \A r, s \in new : r.offset = s.offset => r = s
    /\ \A o \in Offsets(new) : o >= done[t]
    /\ UNCHANGED <<void, done, restored>>

\* The committed end moves on.
Commit(t) ==
    /\ done' = [done EXCEPT ![t] = done'[t]]
    /\ done'[t] > done[t]
    /\ restored \/ done[t] .. (done'[t] - 1) \subseteq Offsets(table[t]) \cup void[t]
    /\ UNCHANGED <<table, void, restored>>

\* Records are deleted from the topic, in the table or not.
Expire(t) ==
    /\ void' = [void EXCEPT ![t] = @ \cup void'[t]]
    /\ UNCHANGED <<table, done, restored>>

\* The topic's checkpoint is restored: only the committed end goes back.
Restore(t) ==
    /\ done' = [done EXCEPT ![t] = done'[t]]
    /\ done'[t] \in 0 .. done[t]
    /\ restored' = TRUE
    /\ UNCHANGED <<table, void>>

Next == \E t \in Topic : Append(t) \/ Commit(t) \/ Expire(t) \/ Restore(t)

Spec == Init /\ [][Next]_vars
================================================================================
