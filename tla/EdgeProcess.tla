---------------------------- MODULE EdgeProcess ----------------------------
(***************************************************************************)
(* The life of one edge-consumer process: DataPlatformConsumer             *)
(* (src/ingestion/kafka_consumer.py) as the module's entry point runs it.  *)
(* The main thread installs the signal handlers, calls start() and then    *)
(* waits for is_running() to become false; SIGTERM and SIGINT run stop() on *)
(* that same thread, on top of whatever it was doing, and on top of an     *)
(* earlier stop() too.  The topic workers, the metrics reporter and the    *)
(* lag sampler are daemon threads; all of them, and stop(), take one       *)
(* non-reentrant lock around the metrics.                                  *)
(*                                                                         *)
(* What a worker does with its messages is EdgeConsumer's; here it only    *)
(* goes round its loop, flushes and closes.                                *)
(***************************************************************************)
EXTENDS Integers

CONSTANTS Topics,      \* number of configured topics: one worker thread each
          MaxSignals   \* how many signals the process is sent (bound)

ASSUME ProcessAssumption == Topics \in Nat \ {0} /\ MaxSignals \in Nat

\* Threads are numbered in the order start() starts them.
Worker == 1 .. Topics
Reporter == Topics + 1
Sampler  == Topics + 2
Thread == 1 .. (Topics + 2)
MainThread == Topics + 3
Nobody == 0

VARIABLES
    main,      \* where the main thread is when no handler runs on it
    frame,     \* the handler calls on the main thread's stack, outermost first
    depth,     \* how many there are; the innermost one runs
    running,   \* self._running
    event,     \* self._shutdown_event is set
    recorded,  \* self._threads holds threads 1 .. recorded
    lock,      \* who holds self._metrics_lock
    thread,    \* where each thread is: see ThreadState
    leaving,   \* workers that saw the event and left their loop
    \* history
    overdue,   \* threads some join gave up on
    early,     \* a signal came before start() had returned
    signals    \* signals sent so far

mainVars == <<main, frame, depth, running, event, recorded>>
threadVars == <<thread, leaving>>
history == <<overdue, early, signals>>
vars == <<mainVars, lock, threadVars, history>>

MainState == {"start", "clear", "spawn", "record", "loop", "exited"}

\* "head" is the loop condition, "busy" the body (a worker's poll, GCS write,
\* commit, or its final flush), "closing" a worker's finally block.
ThreadState == {"unborn", "head", "busy", "wants", "holds", "closing", "ended"}

FrameState == {"none", "flag", "event", "join", "lock", "report"}

NoFrame == [at |-> "none", next |-> 1]

Init ==
    /\ main = "start"
    /\ frame = [d \in 1 .. MaxSignals |-> NoFrame]
    /\ depth = 0
    /\ running = FALSE
    /\ event = FALSE
    /\ recorded = 0
    /\ lock = Nobody
    /\ thread = [t \in Thread |-> "unborn"]
    /\ leaving = {}
    /\ overdue = {}
    /\ early = FALSE
    /\ signals = 0

----------------------------------------------------------------------------
(* The main thread: start(), then the wait of the entry point *)

MainAt(label) == main = label /\ depth = 0

RaiseFlag ==
    /\ MainAt("start")
    /\ running' = TRUE
    /\ main' = "clear"
    /\ UNCHANGED <<frame, depth, event, recorded, lock, threadVars, history>>

ClearEvent ==
    /\ MainAt("clear")
    /\ event' = FALSE
    /\ main' = "spawn"
    /\ UNCHANGED <<frame, depth, running, recorded, lock, threadVars, history>>

StartThread ==
    /\ MainAt("spawn")
    /\ thread' = [thread EXCEPT ![recorded + 1] = "head"]
    /\ main' = "record"
    /\ UNCHANGED <<frame, depth, running, event, recorded, lock, leaving, history>>

RecordThread ==
    /\ MainAt("record")
    /\ recorded' = recorded + 1
    /\ main' = IF recorded' = Sampler THEN "loop" ELSE "spawn"
    /\ UNCHANGED <<frame, depth, running, event, lock, threadVars, history>>

\* The interpreter exits, and daemon threads stop where they are.
Exit ==
    /\ MainAt("loop")
    /\ ~running
    /\ main' = "exited"
    /\ UNCHANGED <<frame, depth, running, event, recorded, lock, threadVars, history>>

----------------------------------------------------------------------------
(* _handle_signal: stop() in the innermost frame *)

Signal ==
    /\ main # "exited"
    /\ signals < MaxSignals
    /\ signals' = signals + 1
    /\ early' = (early \/ main # "loop")
    /\ depth' = depth + 1
    /\ frame' = [frame EXCEPT ![depth + 1] = [at |-> "flag", next |-> 1]]
    /\ UNCHANGED <<main, running, event, recorded, lock, threadVars, overdue>>

HandlerAt(label) == main # "exited" /\ depth > 0 /\ frame[depth].at = label

Goto(label) == frame' = [frame EXCEPT ![depth].at = label]

\* Mutant of LowerFlag: stop() only sets the event.
KeepFlag ==
    /\ HandlerAt("flag")
    /\ Goto("event")
    /\ UNCHANGED <<main, depth, running, event, recorded, lock, threadVars, history>>

LowerFlag ==
    /\ HandlerAt("flag")
    /\ running' = FALSE
    /\ Goto("event")
    /\ UNCHANGED <<main, depth, event, recorded, lock, threadVars, history>>

SetEvent ==
    /\ HandlerAt("event")
    /\ event' = TRUE
    /\ Goto("join")
    /\ UNCHANGED <<main, depth, running, recorded, lock, threadVars, history>>

\* The loop over self._threads.  A join gives up after 30 seconds: a GCS write
\* alone may take twice that.
Joined == frame[depth].next

Join ==
    /\ HandlerAt("join")
    /\ Joined <= recorded
    /\ overdue' = IF thread[Joined] = "ended" THEN overdue ELSE overdue \cup {Joined}
    /\ frame' = [frame EXCEPT ![depth].next = Joined + 1]
    /\ UNCHANGED <<main, depth, running, event, recorded, lock, threadVars, early, signals>>

\* Mutant of JoinsDone: stop() does not wait for the threads.
NoJoins ==
    /\ HandlerAt("join")
    /\ Goto("lock")
    /\ UNCHANGED <<main, depth, running, event, recorded, lock, threadVars, history>>

JoinsDone ==
    /\ HandlerAt("join")
    /\ Joined > recorded
    /\ Goto("lock")
    /\ UNCHANGED <<main, depth, running, event, recorded, lock, threadVars, history>>

TakeLock ==
    /\ HandlerAt("lock")
    /\ lock = Nobody
    /\ lock' = MainThread
    /\ Goto("report")
    /\ UNCHANGED <<main, depth, running, event, recorded, threadVars, history>>

\* log_snapshot(), the release, and the return into what was interrupted.
Report ==
    /\ HandlerAt("report")
    /\ lock' = Nobody
    /\ frame' = [frame EXCEPT ![depth] = NoFrame]
    /\ depth' = depth - 1
    /\ UNCHANGED <<main, running, event, recorded, threadVars, history>>

----------------------------------------------------------------------------
(* The daemon threads *)

Move(t, from, to) ==
    /\ main # "exited"
    /\ thread[t] = from
    /\ thread' = [thread EXCEPT ![t] = to]

\* One round of a thread's loop: the condition, the body with its uses of the
\* lock, and for a worker the way out by an exception, the final flush, and
\* consumer.close() with the DLQ producer's last flush.
Run(t) ==
    /\ \/ ~event /\ Move(t, "head", "busy")
       \/ event /\ t \notin Worker /\ Move(t, "head", "ended")
       \/ Move(t, "busy", "wants")
       \/ Move(t, "busy", IF t \in leaving THEN "closing" ELSE "head")
       \/ t \in Worker /\ Move(t, "busy", "closing")
       \/ Move(t, "closing", "ended")
    /\ UNCHANGED <<mainVars, lock, leaving, history>>

LeaveLoop(t) ==
    /\ event /\ t \in Worker
    /\ Move(t, "head", "busy")
    /\ leaving' = leaving \cup {t}
    /\ UNCHANGED <<mainVars, lock, history>>

Acquire(t) ==
    /\ lock = Nobody
    /\ Move(t, "wants", "holds")
    /\ lock' = t
    /\ UNCHANGED <<mainVars, leaving, history>>

Release(t) ==
    /\ Move(t, "holds", "busy")
    /\ lock' = Nobody
    /\ UNCHANGED <<mainVars, leaving, history>>

----------------------------------------------------------------------------

StartSteps == RaiseFlag \/ ClearEvent \/ StartThread \/ RecordThread \/ Exit

HandlerSteps ==
    LowerFlag \/ SetEvent \/ Join \/ JoinsDone \/ TakeLock \/ Report

ThreadSteps(t) == Run(t) \/ LeaveLoop(t) \/ Acquire(t) \/ Release(t)

Next == StartSteps \/ HandlerSteps \/ Signal \/ \E t \in Thread : ThreadSteps(t)

\* The main thread runs when it can; a lock that is free again and again is
\* granted to it in the end; a thread leaves its critical section.  Nothing is
\* assumed of the rest of a thread: joins have a timeout.
Fairness ==
    /\ WF_vars(StartSteps)
    /\ WF_vars(LowerFlag \/ SetEvent \/ Join \/ JoinsDone \/ Report)
    /\ SF_vars(TakeLock)
    /\ \A t \in Thread : WF_vars(Release(t))

Spec == Init /\ [][Next]_vars /\ Fairness

----------------------------------------------------------------------------

TypeOK ==
    /\ main \in MainState
    /\ depth \in 0 .. MaxSignals
    /\ signals \in 0 .. MaxSignals
    /\ frame \in [1 .. MaxSignals -> [at : FrameState, next : 1 .. (Sampler + 1)]]
    /\ running \in BOOLEAN /\ event \in BOOLEAN /\ early \in BOOLEAN
    /\ recorded \in 0 .. Sampler
    /\ lock \in Thread \cup {Nobody, MainThread}
    /\ thread \in [Thread -> ThreadState]
    /\ leaving \in SUBSET Worker
    /\ overdue \in SUBSET Thread

\* When the process exits after a start that no signal disturbed, a worker that
\* is not through with its final flush and close is one a join gave up on.
GracefulExit ==
    main = "exited" /\ ~early
        => \A w \in Worker : thread[w] = "ended" \/ w \in overdue

\* stop() waits for the lock that the stop() it interrupted holds.
SelfDeadlock == HandlerAt("lock") /\ lock = MainThread

\* Once start() has begun, a signal ends the process, however slow or dead the
\* threads are, whoever holds the lock, and whatever other signals come; only a
\* signal during another stop()'s snapshot keeps it from that.
ShutdownEnds ==
    (depth > 0 /\ main # "start") ~> (main = "exited" \/ SelfDeadlock)
=============================================================================
