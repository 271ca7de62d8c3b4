----------------------------- MODULE MCErasure -----------------------------
(* Erasure on small instances, and what it does not promise. *)
EXTENDS Erasure

\* After a successful erasure, and without new rows of hers, the subject is not
\* seen again in any table.
NoWayBack ==
    [][succeeded /\ succeeded' /\ ingested' = ingested
        => \A t \in Table : LiveFiles(t) = {} => LiveFiles(t)' = {}]_vars

\* Every run that deleted something leaves its audit record.
EveryRunAudited == [][eraser.at # "idle" /\ eraser'.at = "idle" => eraser.at = "audit" /\ ~Crash]_vars

\* The reported counts are never above what the run deleted.
NeverOverstated == overstated = {}
=============================================================================
