--------------------------- MODULE MCEdgeProcess ---------------------------
(* EdgeProcess on small instances: what it does not promise, and mutants. *)
EXTENDS EdgeProcess

\* The same promise for a signal at any time: start() may go on starting threads
\* after the handler has joined those it knew.
NoneAbandoned ==
    main = "exited" => \A w \in Worker : thread[w] = "ended" \/ w \in overdue

\* The second signal never hangs the process.
NoSelfDeadlock == ~SelfDeadlock

\* The same for a signal between install_signal_handlers() and start().
EverySignalEnds ==
    (depth > 0) ~> (main = "exited" \/ SelfDeadlock)

\* A worker that died of an exception ends the process, so that something
\* restarts it.
DeadWorkerNoticed ==
    (\E w \in Worker : thread[w] = "ended" /\ ~event) ~> (main = "exited")
=============================================================================
