------------------------ MODULE EdgeProcess_proofs ------------------------
(***************************************************************************)
(* Proofs about EdgeProcess, for any number of topics and of signals: its  *)
(* type invariant, and GracefulExit.                                       *)
(*                                                                         *)
(* A completed stop() has settled every thread: ended, or given up on.     *)
(* Inductively, each handler frame has settled the threads its loop has    *)
(* passed, all of them once it is behind the loop; the flag is only down   *)
(* while a frame is still on the stack, or after one settled everything.   *)
(***************************************************************************)
EXTENDS EdgeProcess, TLAPS

Settled(t) == thread[t] = "ended" \/ t \in overdue
AllSettled == \A t \in Thread : Settled(t)

\* How far start() is, and what it has seen of signals.
StartInv ==
    /\ depth <= signals
    /\ main \in {"start", "clear"} => recorded = 0
    /\ main \in {"spawn", "record"} => recorded < Sampler
    /\ main \in {"loop", "exited"} => recorded = Sampler
    /\ ~early /\ main \in {"start", "clear", "spawn", "record"} => signals = 0
    /\ ~early /\ main \in {"clear", "spawn", "record"} => running

\* What each handler call has settled, and what a lowered flag says.
FrameInv(d) ==
    /\ frame[d].at \in {"flag", "event"} => frame[d].next = 1
    /\ frame[d].at = "join" => \A t \in 1 .. (frame[d].next - 1) : Settled(t)
    /\ frame[d].at \in {"lock", "report"} => AllSettled

SettledInv ==
    ~early =>
        /\ \A d \in 1 .. depth : FrameInv(d)
        /\ ~running /\ main = "loop" => depth > 0 \/ AllSettled
        /\ main = "exited" => AllSettled

IInv == TypeOK /\ StartInv /\ SettledInv

THEOREM InitIInv == Init => IInv
<1> SUFFICES ASSUME Init PROVE IInv
  OBVIOUS
<1> USE ProcessAssumption DEF Init
<1>1. NoFrame \in [at : FrameState, next : 1 .. (Sampler + 1)]
  BY DEF NoFrame, FrameState, Sampler
<1>2. TypeOK
  <2>1. /\ frame \in [1 .. MaxSignals -> [at : FrameState, next : 1 .. (Sampler + 1)]]
        /\ thread \in [Thread -> ThreadState]
    BY <1>1 DEF ThreadState
  <2>2. depth \in 0 .. MaxSignals /\ signals \in 0 .. MaxSignals /\ recorded \in 0 .. Sampler
    BY DEF Sampler
  <2> QED BY <2>1, <2>2 DEF TypeOK, MainState
<1>3. StartInv /\ SettledInv
  BY DEF StartInv, SettledInv, FrameInv
<1> QED BY <1>2, <1>3 DEF IInv

\* What a step that leaves the handlers alone must not do to the threads.
Keeps == \A t \in Thread : Settled(t) => Settled(t)'

LEMMA SettledStays ==
    ASSUME TypeOK, SettledInv, Keeps,
           UNCHANGED <<frame, depth, early, running, main>>
    PROVE  SettledInv'
<1>1. AllSettled => AllSettled'
  BY DEF AllSettled, Keeps
<1>2. ASSUME NEW d \in 1 .. depth, FrameInv(d) PROVE FrameInv(d)'
  <2>1. frame[d].next \in 1 .. (Sampler + 1)
    BY <1>2, ProcessAssumption DEF TypeOK
  <2> QED BY <1>1, <1>2, <2>1, ProcessAssumption DEF FrameInv, Keeps, Thread, Sampler
<1> QED BY <1>1, <1>2 DEF SettledInv

\* A thread's own step: it ends at most once.
LEMMA MoveKeeps ==
    ASSUME TypeOK, NEW t \in Thread, NEW from, NEW to \in ThreadState,
           from # "ended", Move(t, from, to), UNCHANGED overdue
    PROVE  Keeps /\ thread' \in [Thread -> ThreadState]
BY DEF Move, Keeps, Settled, TypeOK

LEMMA StartStep == IInv /\ StartSteps => IInv'
<1> SUFFICES ASSUME IInv, StartSteps PROVE IInv'
  OBVIOUS
<1> USE ProcessAssumption
<1> USE DEF IInv, TypeOK, StartInv, SettledInv, MainState, history, threadVars, MainAt,
            Thread, Sampler, Worker, Nobody, MainThread
<1>1. CASE RaiseFlag
  BY <1>1 DEF RaiseFlag
<1>2. CASE ClearEvent
  <2>1. TypeOK'
    BY <1>2 DEF ClearEvent
  <2>2. StartInv'
    BY <1>2 DEF ClearEvent
  <2>3. SettledInv'
    BY <1>2 DEF ClearEvent
  <2> QED BY <2>1, <2>2, <2>3
<1>3. CASE StartThread
  <2>1. TypeOK' /\ StartInv'
    BY <1>3 DEF StartThread, ThreadState
  <2>2. SettledInv'
    BY <1>3 DEF StartThread
  <2> QED BY <2>1, <2>2
<1>4. CASE RecordThread
  <2>1. recorded + 1 \in 0 .. Sampler
    BY <1>4 DEF RecordThread
  <2>2. TypeOK' /\ StartInv'
    BY <1>4, <2>1 DEF RecordThread
  <2>3. SettledInv'
    BY <1>4 DEF RecordThread
  <2> QED BY <2>2, <2>3
<1>5. CASE Exit
  <2>1. TypeOK' /\ StartInv'
    BY <1>5 DEF Exit
  <2>2. ~early => AllSettled'
    BY <1>5 DEF Exit, AllSettled, Settled
  <2> QED BY <1>5, <2>1, <2>2 DEF Exit
<1> QED BY <1>1, <1>2, <1>3, <1>4, <1>5 DEF StartSteps

\* A handler's step writes its own frame only, so it is enough to look at that.
\* (It may lower the flag: there is a frame on the stack.)
RestSteady == /\ main' = main /\ depth' = depth /\ thread' = thread /\ early' = early
              /\ overdue \subseteq overdue'
              /\ main # "exited" /\ depth \in 1 .. MaxSignals
              /\ \A d \in 1 .. (depth - 1) : frame'[d] = frame[d]

LEMMA HandlerSettles ==
    ASSUME IInv, RestSteady, ~early => FrameInv(depth)'
    PROVE  SettledInv'
<1> USE ProcessAssumption DEF RestSteady
<1>1. Keeps
  BY DEF Keeps, Settled
<1>2. AllSettled => AllSettled'
  BY <1>1 DEF AllSettled, Keeps
<1>3. ASSUME NEW d \in 1 .. depth, d # depth, FrameInv(d) PROVE FrameInv(d)'
  <2>1. d \in 1 .. (depth - 1) /\ d \in 1 .. MaxSignals
    BY <1>3
  <2>2. frame'[d] = frame[d]
    BY <2>1
  <2>3. frame[d].next \in 1 .. (Sampler + 1)
    BY <2>1 DEF IInv, TypeOK
  <2> QED BY <1>1, <1>2, <1>3, <2>2, <2>3 DEF FrameInv, Keeps, Thread, Sampler
<1>4. \A d \in 1 .. depth : ~early => FrameInv(d)'
  BY <1>3 DEF IInv, SettledInv
<1> QED BY <1>4 DEF IInv, SettledInv

LEMMA HandlerStep == IInv /\ HandlerSteps => IInv'
<1> SUFFICES ASSUME IInv, HandlerSteps PROVE IInv'
  OBVIOUS
<1> USE ProcessAssumption
<1>1. main # "exited" /\ depth \in 1 .. MaxSignals
  BY DEF HandlerSteps, LowerFlag, SetEvent, Join, JoinsDone, TakeLock, Report, HandlerAt,
         IInv, TypeOK
<1>2. frame[depth] \in [at : FrameState, next : 1 .. (Sampler + 1)]
  BY <1>1 DEF IInv, TypeOK
<1>3. PICK f : f = frame[depth]
  OBVIOUS
<1>4. f \in [at : FrameState, next : 1 .. (Sampler + 1)]
  BY <1>2, <1>3
<1>5. ~early => FrameInv(depth)
  BY <1>1 DEF IInv, SettledInv
<1>6. CASE LowerFlag
  <2>1. PICK g : g = [f EXCEPT !.at = "event"]
    OBVIOUS
  <2>2. /\ g \in [at : FrameState, next : 1 .. (Sampler + 1)]
        /\ g.at = "event" /\ g.next = f.next
        /\ frame' = [frame EXCEPT ![depth] = g]
    BY <1>3, <1>4, <1>6, <2>1 DEF LowerFlag, Goto, FrameState
  <2>3. frame'[depth] = g /\ f.at = "flag"
    BY <1>1, <1>3, <1>6, <2>2 DEF LowerFlag, HandlerAt, IInv, TypeOK
  <2>4. ~early => FrameInv(depth)'
    BY <1>3, <1>5, <1>6, <2>2, <2>3 DEF FrameInv, LowerFlag
  <2>5. SettledInv'
    <3>1. RestSteady
      BY <1>1, <1>6, <2>2, <2>4 DEF LowerFlag, threadVars, history, RestSteady, IInv, TypeOK
    <3> QED BY <2>2, <2>4, <3>1, HandlerSettles
  <2>6. TypeOK'
    BY <1>1, <1>6, <2>2 DEF LowerFlag, IInv, TypeOK, history, threadVars
  <2>7. early \/ main \notin {"clear", "spawn", "record"}
    BY <1>1 DEF IInv, TypeOK, StartInv
  <2>8. StartInv'
    BY <1>6, <2>7 DEF LowerFlag, IInv, StartInv, history
  <2> QED BY <2>5, <2>6, <2>8 DEF IInv
<1>7. CASE SetEvent
  <2>1. PICK g : g = [f EXCEPT !.at = "join"]
    OBVIOUS
  <2>2. /\ g \in [at : FrameState, next : 1 .. (Sampler + 1)]
        /\ g.at = "join" /\ g.next = f.next
        /\ frame' = [frame EXCEPT ![depth] = g]
    BY <1>3, <1>4, <1>7, <2>1 DEF SetEvent, Goto, FrameState
  <2>3. frame'[depth] = g /\ f.at = "event"
    BY <1>1, <1>3, <1>7, <2>2 DEF SetEvent, HandlerAt, IInv, TypeOK
  <2>4. ~early => FrameInv(depth)'
    BY <1>3, <1>5, <1>7, <2>2, <2>3 DEF FrameInv, SetEvent
  <2>5. SettledInv'
    <3>1. RestSteady
      BY <1>1, <1>7, <2>2, <2>4 DEF SetEvent, threadVars, history, RestSteady, IInv, TypeOK
    <3> QED BY <2>2, <2>4, <3>1, HandlerSettles
  <2>6. TypeOK' /\ StartInv'
    BY <1>1, <1>7, <2>2 DEF SetEvent, IInv, TypeOK, StartInv, history, threadVars
  <2> QED BY <2>5, <2>6 DEF IInv
<1>8. CASE Join
  <2>1. f.next \in Thread /\ f.at = "join"
    BY <1>1, <1>3, <1>4, <1>8 DEF Join, Joined, HandlerAt, Thread, IInv, TypeOK, Sampler
  <2>2. PICK g : g = [f EXCEPT !.next = f.next + 1]
    OBVIOUS
  <2>3. /\ g \in [at : FrameState, next : 1 .. (Sampler + 1)]
        /\ g.at = "join" /\ g.next = f.next + 1
        /\ frame' = [frame EXCEPT ![depth] = g]
    BY <1>3, <1>4, <1>8, <2>1, <2>2 DEF Join, Joined, FrameState, Thread, Sampler
  <2>4. frame'[depth] = g
    BY <1>1, <2>3 DEF IInv, TypeOK
  <2>5. overdue \subseteq overdue' /\ overdue' \in SUBSET Thread /\ Settled(f.next)'
    BY <1>3, <1>8, <2>1 DEF Join, Joined, Settled, threadVars, IInv, TypeOK
  <2>6. ~early => FrameInv(depth)'
    <3>1. ~early => \A t \in 1 .. (f.next - 1) : Settled(t)
      BY <1>3, <1>5, <2>1 DEF FrameInv
    <3>2. ~early => \A t \in 1 .. (f.next - 1) : Settled(t)'
      BY <1>8, <2>5, <3>1 DEF Settled, Join, threadVars
    <3>3. ~early => \A t \in 1 .. (g.next - 1) : Settled(t)'
      BY <2>1, <2>3, <2>5, <3>2 DEF Thread
    <3> QED BY <1>8, <2>3, <2>4, <3>3 DEF FrameInv, Join
  <2>7. SettledInv'
    <3>1. RestSteady
      BY <1>1, <1>8, <2>3, <2>5, <2>6 DEF Join, threadVars, history, RestSteady, IInv, TypeOK
    <3> QED BY <2>3, <2>5, <2>6, <3>1, HandlerSettles
  <2>8. TypeOK'
    BY <1>1, <1>8, <2>3, <2>5 DEF Join, IInv, TypeOK, threadVars
  <2>9. StartInv'
    BY <1>8 DEF Join, IInv, StartInv
  <2> QED BY <2>7, <2>8, <2>9 DEF IInv
<1>9. CASE JoinsDone
  <2>1. PICK g : g = [f EXCEPT !.at = "lock"]
    OBVIOUS
  <2>2. /\ g \in [at : FrameState, next : 1 .. (Sampler + 1)]
        /\ g.at = "lock"
        /\ frame' = [frame EXCEPT ![depth] = g]
    BY <1>3, <1>4, <1>9, <2>1 DEF JoinsDone, Goto, FrameState
  <2>3. frame'[depth] = g /\ f.at = "join" /\ f.next > recorded
    BY <1>1, <1>3, <1>9, <2>2 DEF JoinsDone, Joined, HandlerAt, IInv, TypeOK
  <2>4. ~early => AllSettled
    <3>1. ~early => recorded = Sampler
      BY <1>1, <1>9 DEF IInv, StartInv, TypeOK, MainState, JoinsDone
    <3> QED BY <1>3, <1>4, <1>5, <2>3, <3>1 DEF FrameInv, AllSettled, Thread, Sampler
  <2>5. ~early => FrameInv(depth)'
    BY <1>9, <2>2, <2>3, <2>4
       DEF FrameInv, JoinsDone, AllSettled, Settled, threadVars, history
  <2>6. SettledInv'
    <3>1. RestSteady
      BY <1>1, <1>9, <2>2, <2>5 DEF JoinsDone, threadVars, history, RestSteady, IInv, TypeOK
    <3> QED BY <2>2, <2>5, <3>1, HandlerSettles
  <2>7. TypeOK' /\ StartInv'
    BY <1>1, <1>9, <2>2 DEF JoinsDone, IInv, TypeOK, StartInv, history, threadVars
  <2> QED BY <2>6, <2>7 DEF IInv
<1>10. CASE TakeLock
  <2>1. PICK g : g = [f EXCEPT !.at = "report"]
    OBVIOUS
  <2>2. /\ g \in [at : FrameState, next : 1 .. (Sampler + 1)]
        /\ g.at = "report"
        /\ frame' = [frame EXCEPT ![depth] = g]
    BY <1>3, <1>4, <1>10, <2>1 DEF TakeLock, Goto, FrameState
  <2>3. frame'[depth] = g /\ f.at = "lock"
    BY <1>1, <1>3, <1>10, <2>2 DEF TakeLock, HandlerAt, IInv, TypeOK
  <2>4. ~early => FrameInv(depth)'
    BY <1>3, <1>5, <1>10, <2>2, <2>3
       DEF FrameInv, TakeLock, AllSettled, Settled, threadVars, history
  <2>5. SettledInv'
    <3>1. RestSteady
      BY <1>1, <1>10, <2>2, <2>4 DEF TakeLock, threadVars, history, RestSteady, IInv, TypeOK
    <3> QED BY <2>2, <2>4, <3>1, HandlerSettles
  <2>6. TypeOK' /\ StartInv'
    BY <1>1, <1>10, <2>2 DEF TakeLock, IInv, TypeOK, StartInv, history, threadVars
  <2> QED BY <2>5, <2>6 DEF IInv
<1>11. CASE Report
  <2>1. NoFrame \in [at : FrameState, next : 1 .. (Sampler + 1)]
    BY DEF NoFrame, FrameState, Sampler
  <2>2. f.at = "report" /\ (~early => AllSettled)
    BY <1>3, <1>5, <1>11 DEF Report, HandlerAt, FrameInv
  <2>3. AllSettled => AllSettled'
    BY <1>11 DEF Report, AllSettled, Settled, threadVars, history
  <2>4. ~early => \A d \in 1 .. (depth - 1) : frame'[d] = frame[d] /\ FrameInv(d)
    BY <1>1, <1>11 DEF Report, IInv, TypeOK, SettledInv
  <2>5. ~early => \A d \in 1 .. (depth - 1) : FrameInv(d)'
    BY <1>11, <2>4 DEF FrameInv, Report, AllSettled, Settled, threadVars, history
  <2>6. SettledInv'
    BY <1>1, <1>11, <2>2, <2>3, <2>5 DEF Report, SettledInv, history
  <2>7. TypeOK' /\ StartInv'
    BY <1>1, <1>11, <2>1 DEF Report, IInv, TypeOK, StartInv, history, threadVars
  <2> QED BY <2>6, <2>7 DEF IInv
<1> QED BY <1>6, <1>7, <1>8, <1>9, <1>10, <1>11 DEF HandlerSteps

LEMMA SignalStep == IInv /\ Signal => IInv'
<1> SUFFICES ASSUME IInv, Signal PROVE IInv'
  OBVIOUS
<1> USE ProcessAssumption
<1>1. PICK g : g = [at |-> "flag", next |-> 1]
  OBVIOUS
<1>2. g \in [at : FrameState, next : 1 .. (Sampler + 1)] /\ g.at = "flag" /\ g.next = 1
  BY <1>1 DEF FrameState, Sampler
<1>3. depth + 1 \in 1 .. MaxSignals /\ frame' = [frame EXCEPT ![depth + 1] = g]
  BY <1>1 DEF Signal, IInv, TypeOK, StartInv
<1>4. TypeOK'
  BY <1>2, <1>3 DEF Signal, IInv, TypeOK, threadVars
<1>5. StartInv'
  <2>1. early' \/ (main = "loop" /\ ~early)
    BY Zenon DEF Signal
  <2>2. depth' <= signals'
    BY DEF Signal, IInv, StartInv, TypeOK
  <2> QED BY <2>1, <2>2 DEF Signal, IInv, StartInv
<1>6. ~early' => SettledInv'
  <2>1. ASSUME NEW d \in 1 .. depth, FrameInv(d) PROVE FrameInv(d)'
    <3>1. frame'[d] = frame[d]
      BY <1>3, <2>1 DEF IInv, TypeOK
    <3> QED BY <2>1, <3>1 DEF FrameInv, AllSettled, Settled, Signal, threadVars
  <2>2. frame'[depth + 1] = g
    BY <1>3 DEF IInv, TypeOK
  <2>3. depth' = depth + 1
    BY DEF Signal
  <2>4. FrameInv(depth)'
    BY <1>2, <2>2, <2>3 DEF FrameInv
  <2>5. ASSUME NEW d \in 1 .. depth', ~early' PROVE FrameInv(d)'
    <3>1. CASE d = depth'
      BY <2>4, <3>1 DEF FrameInv
    <3>2. CASE d # depth'
      <4>1. d \in 1 .. depth
        BY <2>3, <3>2 DEF IInv, TypeOK
      <4>2. ~early
        BY <2>5, Zenon DEF Signal
      <4> QED BY <2>1, <4>1, <4>2 DEF IInv, SettledInv
    <3> QED BY <3>1, <3>2
  <2>6. main' = main /\ main # "exited" /\ depth' > 0
    BY <2>3 DEF Signal, IInv, TypeOK
  <2> QED BY <2>5, <2>6 DEF SettledInv
<1> QED BY <1>4, <1>5, <1>6 DEF IInv, SettledInv

LEMMA ThreadStep == ASSUME IInv, NEW t \in Thread, ThreadSteps(t) PROVE IInv'
<1>1. /\ Keeps
      /\ thread' \in [Thread -> ThreadState]
      /\ leaving' \in SUBSET Worker
      /\ lock' \in Thread \cup {Nobody, MainThread}
      /\ UNCHANGED <<mainVars, history>>
  BY MoveKeeps
     DEF ThreadSteps, Run, LeaveLoop, Acquire, Release, IInv, TypeOK, ThreadState, history
<1>2. SettledInv'
  BY <1>1, SettledStays DEF IInv, mainVars, history
<1> QED BY <1>1, <1>2 DEF IInv, TypeOK, StartInv, mainVars, history

LEMMA StepIInv == IInv /\ [Next]_vars => IInv'
<1> SUFFICES ASSUME IInv, [Next]_vars PROVE IInv'
  OBVIOUS
<1>1. CASE UNCHANGED vars
  BY <1>1 DEF IInv, TypeOK, StartInv, SettledInv, FrameInv, AllSettled, Settled, vars,
              mainVars, threadVars, history
<1> QED
  BY <1>1, StartStep, HandlerStep, SignalStep, ThreadStep DEF Next

LEMMA Invariance == Spec => []IInv
<1> QED BY InitIInv, StepIInv, PTL DEF Spec

\* The flags, the handler frames, the list of threads and the owner of the lock
\* of DataPlatformConsumer keep their types, whatever signals come when.
THEOREM TypeCorrect == Spec => []TypeOK
<1>1. IInv => TypeOK
  BY DEF IInv
<1> QED BY <1>1, Invariance, PTL

\* A process that exits after an undisturbed start() has waited for every worker's
\* final flush and close, or given up on it after a full join timeout: however
\* many signals came, and wherever they interrupted an earlier stop().
THEOREM ExitsGracefully == Spec => []GracefulExit
<1>1. IInv => GracefulExit
  BY ProcessAssumption
     DEF IInv, SettledInv, GracefulExit, AllSettled, Settled, Worker, Thread
<1> QED BY <1>1, Invariance, PTL
=============================================================================
