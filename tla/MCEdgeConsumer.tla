--------------------------- MODULE MCEdgeConsumer ---------------------------
(* Small instances of EdgeConsumer for TLC. *)
EXTENDS EdgeConsumer, TLC

CONSTANTS p1, p2

\* No message, or the first message of p1, does not decode.
NoBad == {}
FirstBad == {<<p1, 0>>}

\* Every kind of fault in S may happen once, in any order and combination.
OnceEach(S) == [k \in FaultKind |-> IF k \in S THEN 1 ELSE 0]

WriterFaults   == OnceEach({"crash", "commit", "expel", "rebalance", "throw"})
LossFaults     == OnceEach({"gcs", "dlq", "registry", "crash", "expel", "throw", "stop"})
RegistryOnly   == OnceEach({"registry"})
TwoRebalances  == [OnceEach({}) EXCEPT !["rebalance"] = 2]
GcsOnly        == OnceEach({"gcs"})
CrashOnly      == OnceEach({"crash"})
NoFault        == OnceEach({})

\* At most three faults in one behaviour, of any kinds.
AtMostThree == Cardinality({k \in FaultKind : used[k] > 0}) <= 3

\* Replicas are interchangeable, and so are partitions when every message decodes.
Symmetry == Permutations(Replicas) \cup Permutations(Partitions)
=============================================================================
