------------------------- MODULE Orchestration_proofs -------------------------
(***************************************************************************)
(* Whatever the number of slots and the times the tasks declare, however   *)
(* attempts end and whatever they leave behind: the sweep fails the row of *)
(* no attempt whose worker waits for its application.  It rests on OneRun: *)
(* a DAG has one active run at most.                                       *)
(***************************************************************************)
EXTENDS Orchestration, FiniteSetTheorems, TLAPS

\* max_active_runs=1.
OneRun == \A r, q \in Run : Active(r) /\ Active(q) /\ DagOf[r] = DagOf[q] => r = q

\* TypeOK of the applications left behind.
OrphansOK == orphans \subseteq [task : Applications, age : 0 .. StaleAfter, failed : BOOLEAN]

IInv == TypeOK /\ OneRun /\ AttendedRunsKept

----------------------------------------------------------------------------
(* The DAGs' tasks *)

\* A task belongs to one DAG and has one position in it.
LEMMA TaskPlaces ==
    ASSUME NEW d \in Dag
    PROVE  /\ Len(Tasks(d)) \in {2, 3}
           /\ \A i \in 1 .. Len(Tasks(d)) :
                 /\ Tasks(d)[i] \in Task
                 /\ Tasks(d)[i] \in {"silver_merge", "silver_dq_gate"} => d = "silver_hourly"
                 /\ Tasks(d)[i] = "optimize_zorder_vacuum" => d = "maintenance_nightly" /\ i = 2
                 /\ Tasks(d)[i] = "reconcile_stale_runs" => d = "maintenance_nightly" /\ i = 1
<1>1. \A i \in 1 .. Len(Tasks(d)) : Tasks(d)[i] \in Task
  BY DEF Task
<1>2. CASE d = "silver_hourly"
  <2>1. Tasks(d) = <<"freshness_sla_sweep", "silver_merge", "silver_dq_gate">>
    BY <1>2 DEF Tasks, HourlyTasks
  <2> QED  BY <2>1, <1>1, <1>2
<1>3. CASE d = "maintenance_nightly"
  <2>1. Tasks(d) = <<"reconcile_stale_runs", "optimize_zorder_vacuum">>
    BY <1>3 DEF Tasks, NightlyTasks
  <2> QED  BY <2>1, <1>1, <1>3
<1>4. CASE d = "backfill_manual"
  <2>1. Tasks(d) = <<"bronze_backfill", "silver_backfill">>
    BY <1>4 DEF Tasks, BackfillTasks
  <2> QED  BY <2>1, <1>1, <1>4
<1> QED  BY <1>2, <1>3, <1>4 DEF Dag

\* The applications with a run row: an hourly one or the optimisation.
LEMMA MonitoredApplications ==
    ASSUME NEW t \in Monitored \cap Applications
    PROVE  t \in {"silver_merge", "silver_dq_gate", "optimize_zorder_vacuum"}
<1>1. PICK d \in Dag : \E i \in 1 .. Len(Tasks(d)) : t = Tasks(d)[i]
  BY DEF Monitored, Applications, Task
<1>2. CASE d = "silver_hourly"
  <2>1. Tasks(d) = <<"freshness_sla_sweep", "silver_merge", "silver_dq_gate">>
    BY <1>2 DEF Tasks, HourlyTasks
  <2> QED  BY <2>1, <1>1 DEF Monitored, Applications, Sweeps
<1>3. CASE d = "maintenance_nightly"
  <2>1. Tasks(d) = <<"reconcile_stale_runs", "optimize_zorder_vacuum">>
    BY <1>3 DEF Tasks, NightlyTasks
  <2> QED  BY <2>1, <1>1 DEF Monitored, Applications, Sweeps
<1>4. CASE d = "backfill_manual"
  <2>1. Tasks(d) = <<"bronze_backfill", "silver_backfill">>
    BY <1>4 DEF Tasks, BackfillTasks
  <2> QED  BY <2>1, <1>1 DEF Monitored, Applications, Sweeps
<1> QED  BY <1>2, <1>3, <1>4 DEF Dag

LEMMA LimitIsNat ==
    ASSUME NEW t
    PROVE  Limit(t) \in Nat
BY OrchestrationAssumption DEF Limit

\* MayStart says that the DAG has no active run.
LEMMA NoneActive ==
    ASSUME NEW r \in Run, MayStart(DagOf[r])
    PROVE  \A q \in Run : DagOf[q] = DagOf[r] => ~Active(q)
<1> DEFINE S == {q \in Run : DagOf[q] = DagOf[r] /\ Active(q)}
<1>1. IsFiniteSet(S)
  BY FS_Subset, OrchestrationAssumption
<1>2. Cardinality(S) < 1
  BY DEF MayStart, MaxActiveRuns
<1>3. S = {}
  BY <1>1, <1>2, FS_CardinalityType, FS_EmptySet
<1> QED  BY <1>3

----------------------------------------------------------------------------
(* The invariant *)

LEMMA InitInvariant == Init => IInv
<1> SUFFICES ASSUME Init PROVE IInv
  OBVIOUS
<1> USE DEF Init
<1>1. \A r \in Run : ~Active(r) /\ Len(Tasks(DagOf[r])) \in {2, 3}
  BY TaskPlaces, OrchestrationAssumption DEF Active
<1>2. TypeOK
  BY <1>1 DEF TypeOK, Working, Retries
<1>3. OneRun /\ AttendedRunsKept
  BY <1>1 DEF OneRun, AttendedRunsKept
<1> QED  BY <1>2, <1>3 DEF IInv

\* What the actions share: a slot's task, and whether the sweep could reach it.
LEMMA SweptIsDead ==
    ASSUME IInv, NEW r \in Run, Reconcile(r)
    PROVE  AttendedRunsKept'
<1> SUFFICES ASSUME NEW x \in Run, Working(x, Monitored \cap Applications),
                    age[x] >= StaleAfter
             PROVE  FALSE
  BY DEF Reconcile, AttendedRunsKept, IInv
<1> DEFINE t == Current(x)
<1>1. /\ DagOf[x] \in Dag /\ DagOf[r] \in Dag
      /\ at[x] \in 1 .. Len(Tasks(DagOf[x])) /\ at[r] \in 1 .. Len(Tasks(DagOf[r]))
  BY TaskPlaces, OrchestrationAssumption DEF IInv, TypeOK, Working, Reconcile, Active
<1>2. age[x] \in Nat /\ age[x] <= Limit(t)
  BY DEF IInv, TypeOK, Working
<1>3. CASE t \in {"silver_merge", "silver_dq_gate"}
  <2>1. Limit(t) < StaleAfter
    BY <1>3, OrchestrationAssumption DEF Limit
  <2> QED  BY <2>1, <1>2, LimitIsNat, OrchestrationAssumption
<1>4. CASE t = "optimize_zorder_vacuum"
  <2>1. DagOf[x] = "maintenance_nightly" /\ at[x] = 2
    BY <1>1, <1>4, TaskPlaces DEF Current
  <2>2. Current(r) = "reconcile_stale_runs"
    BY DEF Reconcile, Working
  <2>3. DagOf[r] = "maintenance_nightly" /\ at[r] = 1
    BY <1>1, <2>2, TaskPlaces DEF Current
  <2> QED  BY <2>1, <2>3 DEF IInv, OneRun, Active
<1> QED  BY <1>3, <1>4, MonitoredApplications DEF Working

----------------------------------------------------------------------------
(* The applications left behind *)

LEMMA RowAgeIsBounded ==
    ASSUME NEW t, NEW a \in Nat
    PROVE  RowAge(t, a) \in 0 .. StaleAfter
BY OrchestrationAssumption DEF RowAge

LEMMA LeftBehind ==
    ASSUME IInv, NEW r \in Run, WorkerDies(r)
    PROVE  OrphansOK'
<1>1. OrphansOK /\ age[r] \in Nat
  BY DEF IInv, TypeOK, OrphansOK
<1>2. CASE Current(r) \in Applications
  <2>1. orphans' = orphans \cup
            {[task |-> Current(r), age |-> RowAge(Current(r), age[r]), failed |-> r \in failed]}
    BY <1>2 DEF WorkerDies
  <2>2. RowAge(Current(r), age[r]) \in 0 .. StaleAfter
    BY <1>1, RowAgeIsBounded
  <2>3. (r \in failed) = FALSE
    BY DEF IInv, AttendedRunsKept
  <2>4. [task |-> Current(r), age |-> RowAge(Current(r), age[r]), failed |-> FALSE]
            \in [task : Applications, age : 0 .. StaleAfter, failed : BOOLEAN]
    BY <1>2, <2>2
  <2> QED  BY <1>1, <2>1, <2>3, <2>4 DEF OrphansOK
<1>3. CASE Current(r) \notin Applications
  BY <1>1, <1>3 DEF WorkerDies, OrphansOK
<1> QED  BY <1>2, <1>3

LEMMA OrphansAge ==
    ASSUME IInv, Tick
    PROVE  OrphansOK'
<1> SUFFICES ASSUME NEW o \in orphans
             PROVE  [o EXCEPT !.age = RowAge(o.task, @ + 1)]
                        \in [task : Applications, age : 0 .. StaleAfter, failed : BOOLEAN]
  BY DEF Tick, OrphansOK
<1>1. o \in [task : Applications, age : 0 .. StaleAfter, failed : BOOLEAN]
  BY DEF IInv, TypeOK
<1>2. RowAge(o.task, o.age + 1) \in 0 .. StaleAfter
  BY <1>1, RowAgeIsBounded, OrchestrationAssumption
<1> QED  BY <1>1, <1>2

----------------------------------------------------------------------------
(* The steps *)

\* TypeOK of one slot.
SlotOK(r) ==
    /\ at[r] <= Len(Tasks(DagOf[r])) /\ try[r] <= Retries(DagOf[r]) + 1
    /\ working[r] => Active(r) /\ try[r] > 0
    /\ ~working[r] /\ Active(r) => try[r] <= Retries(DagOf[r])
    /\ Working(r, Applications) => age[r] <= Limit(Current(r))

\* A step on one slot leaves the others as they are.
LEMMA OtherSlotsKept ==
    ASSUME TypeOK, NEW r \in Run, NEW q \in Run, q # r,
           at'[q] = at[q], try'[q] = try[q], working'[q] = working[q], age'[q] = age[q]
    PROVE  SlotOK(q)'
BY DEF TypeOK, SlotOK, Active, Working, Current

\* The end of an attempt frees the slot or leaves its run to be tried again.
LEMMA AttemptEnds ==
    ASSUME IInv, NEW r \in Run, Stops(r), AttemptSucceeds(r) \/ AttemptFails(r),
           OrphansOK'
    PROVE  IInv'
<1> USE DEF IInv, Stops
<1>1. Len(Tasks(DagOf[r])) \in {2, 3} /\ Retries(DagOf[r]) \in Nat
  BY TaskPlaces, OrchestrationAssumption DEF Retries
<1>2. /\ at[r] \in Nat /\ at[r] > 0 /\ try[r] \in Nat
      /\ at[r] <= Len(Tasks(DagOf[r]))
      /\ at \in [Run -> Nat] /\ try \in [Run -> Nat]
      /\ working \in [Run -> BOOLEAN] /\ age \in [Run -> Nat]
      /\ try[r] <= Retries(DagOf[r]) + 1
  BY DEF TypeOK, Active
<1>3. /\ at' \in [Run -> Nat] /\ try' \in [Run -> Nat]
      /\ \A q \in Run \ {r} : at'[q] = at[q] /\ try'[q] = try[q]
      /\ at'[r] <= Len(Tasks(DagOf[r])) /\ try'[r] <= Retries(DagOf[r])
  <2>1. PICK n : n = Len(Tasks(DagOf[r]))
    OBVIOUS
  <2>2. PICK m : m = Retries(DagOf[r])
    OBVIOUS
  <2>3. n \in Nat /\ m \in Nat /\ n > 0 /\ at[r] <= n
    BY <1>1, <1>2, <2>1, <2>2
  <2>4. CASE AttemptSucceeds(r)
    <3>1. at' = [at EXCEPT ![r] = IF @ = n THEN 0 ELSE @ + 1] /\ try' = [try EXCEPT ![r] = 0]
      BY <2>1, <2>4 DEF AttemptSucceeds
    <3> HIDE DEF IInv, Stops
    <3>2. at' \in [Run -> Nat] /\ try' \in [Run -> Nat]
      BY <3>1, <2>3, <1>2
    <3>3. \A q \in Run \ {r} : at'[q] = at[q] /\ try'[q] = try[q]
      BY <3>1, <1>2
    <3>4. at'[r] <= n /\ try'[r] <= m
      BY <3>1, <2>3, <1>2
    <3> QED  BY <3>2, <3>3, <3>4, <2>1, <2>2
  <2>5. CASE AttemptFails(r)
    <3>1. IF try[r] > m THEN at' = [at EXCEPT ![r] = 0] /\ try' = [try EXCEPT ![r] = 0]
                        ELSE at' = at /\ try' = try
      BY <2>2, <2>5 DEF AttemptFails
    <3> HIDE DEF IInv, Stops
    <3>2. at' \in [Run -> Nat] /\ try' \in [Run -> Nat]
      <4>1. CASE try[r] > m
        <5>1. at' = [at EXCEPT ![r] = 0] /\ try' = [try EXCEPT ![r] = 0]
          BY <3>1, <4>1
        <5> QED  BY <5>1, <1>2
      <4>2. CASE ~(try[r] > m)
        BY <3>1, <4>2, <1>2
      <4> QED  BY <4>1, <4>2
    <3>3. \A q \in Run \ {r} : at'[q] = at[q] /\ try'[q] = try[q]
      BY <3>1, <1>2
    <3>4. at'[r] <= n /\ try'[r] <= m
      BY <3>1, <2>3, <1>2
    <3> QED  BY <3>2, <3>3, <3>4, <2>1, <2>2
  <2> QED  BY <2>4, <2>5
<1>4. /\ working' \in [Run -> BOOLEAN] /\ age' \in [Run -> Nat]
      /\ \A q \in Run \ {r} : working'[q] = working[q] /\ age'[q] = age[q]
      /\ ~working'[r]
  BY <1>2
<1>5. SlotOK(r)'
  BY <1>1, <1>2, <1>3, <1>4 DEF SlotOK, Working
<1>6. \A q \in Run \ {r} : SlotOK(q)'
  BY <1>3, <1>4, OtherSlotsKept
<1>7. TypeOK'
  BY <1>3, <1>4, <1>5, <1>6 DEF TypeOK, SlotOK, OrphansOK
<1>8. OneRun'
  BY <1>2, <1>3 DEF OneRun, Active
<1> QED  BY <1>7, <1>8 DEF AttendedRunsKept

LEMMA StartRunKeeps ==
    ASSUME IInv, NEW r \in Run, StartRun(r)
    PROVE  IInv'
<1> USE DEF IInv, StartRun
<1>1. Len(Tasks(DagOf[r])) \in {2, 3} /\ Retries(DagOf[r]) \in Nat
  BY TaskPlaces, OrchestrationAssumption DEF Retries
<1>2. /\ at' \in [Run -> Nat] /\ try' \in [Run -> Nat]
      /\ at'[r] = 1 /\ try'[r] = 0 /\ ~working'[r]
      /\ \A q \in Run \ {r} : /\ at'[q] = at[q] /\ try'[q] = try[q]
                             /\ working'[q] = working[q] /\ age'[q] = age[q]
  BY DEF TypeOK
<1>3. SlotOK(r)'
  <2> HIDE DEF IInv, StartRun
  <2>1. at'[r] <= Len(Tasks(DagOf[r]))
    <3>1. PICK n : n = Len(Tasks(DagOf[r]))
      OBVIOUS
    <3>2. n \in {2, 3} /\ at'[r] = 1
      BY <1>1, <1>2, <3>1
    <3>3. at'[r] <= n
      BY <3>2
    <3> QED  BY <3>1, <3>3
  <2>2. try'[r] <= Retries(DagOf[r]) /\ try'[r] <= Retries(DagOf[r]) + 1
    BY <1>1, <1>2
  <2> QED  BY <2>1, <2>2, <1>2 DEF SlotOK, Working
<1>4. \A q \in Run \ {r} : SlotOK(q)'
  BY <1>2, OtherSlotsKept
<1>5. TypeOK'
  BY <1>2, <1>3, <1>4 DEF TypeOK, SlotOK
<1>6. OneRun'
  BY <1>2, NoneActive DEF OneRun, Active
<1> QED  BY <1>5, <1>6 DEF AttendedRunsKept

LEMMA StartAttemptKeeps ==
    ASSUME IInv, NEW r \in Run, StartAttempt(r)
    PROVE  IInv'
<1> USE DEF IInv, StartAttempt
<1>1. Limit(Current(r)) \in Nat /\ Retries(DagOf[r]) \in Nat
  BY LimitIsNat DEF Retries
<1>2. /\ working' \in [Run -> BOOLEAN] /\ try' \in [Run -> Nat] /\ age' \in [Run -> Nat]
      /\ try[r] \in Nat /\ try'[r] = try[r] + 1 /\ working'[r] /\ age'[r] = 0
      /\ \A q \in Run \ {r} : /\ at'[q] = at[q] /\ try'[q] = try[q]
                             /\ working'[q] = working[q] /\ age'[q] = age[q]
  BY DEF TypeOK
<1>3. at[r] <= Len(Tasks(DagOf[r])) /\ try[r] <= Retries(DagOf[r]) /\ Active(r)
  BY DEF TypeOK
<1>4. SlotOK(r)'
  BY <1>1, <1>2, <1>3 DEF SlotOK, Working, Active, Current
<1>5. \A q \in Run \ {r} : SlotOK(q)'
  BY <1>2, OtherSlotsKept
<1>6. TypeOK'
  BY <1>2, <1>4, <1>5 DEF TypeOK, SlotOK
<1>7. OneRun'
  BY DEF OneRun, Active
<1> QED  BY <1>6, <1>7 DEF AttendedRunsKept

LEMMA TickKeeps ==
    ASSUME IInv, Tick
    PROVE  IInv'
<1> USE DEF IInv, Tick
<1>1. age \in [Run -> Nat] /\ age' \in [Run -> Nat]
  BY DEF TypeOK
<1>2. ASSUME NEW r \in Run
      PROVE  SlotOK(r)'
  <2>1. Limit(Current(r)) \in Nat
    BY LimitIsNat
  <2>2. Working(r, Applications)' => Working(r, Applications)
    BY DEF Working, Active, Current
  <2>3. Working(r, Applications) => age'[r] <= Limit(Current(r))
    BY <1>1, <2>1
  <2>4. Working(r, Applications)' => age'[r] <= Limit(Current(r))'
    BY <2>2, <2>3 DEF Current
  <2> QED  BY <2>4 DEF TypeOK, SlotOK, Active
<1>3. TypeOK'
  BY <1>1, <1>2, OrphansAge DEF TypeOK, SlotOK, OrphansOK
<1>4. OneRun'
  BY DEF OneRun, Active
<1> QED  BY <1>3, <1>4 DEF AttendedRunsKept

LEMMA ReconcileKeeps ==
    ASSUME IInv, NEW r \in Run, Reconcile(r)
    PROVE  IInv'
<1>1. AttendedRunsKept'
  BY SweptIsDead
<1>2. TypeOK'
  BY <1>1 DEF IInv, TypeOK, AttendedRunsKept, Reconcile, runVars, Working, Active, Current
<1>3. OneRun'
  BY DEF IInv, OneRun, Reconcile, runVars, Active
<1> QED  BY <1>1, <1>2, <1>3 DEF IInv

\* A step that leaves the slots alone, and no application behind.
LEMMA RunsUntouched ==
    ASSUME IInv, UNCHANGED <<runVars, failed>>, OrphansOK'
    PROVE  IInv'
BY DEF IInv, TypeOK, OneRun, AttendedRunsKept, OrphansOK, runVars, Working, Active, Current

THEOREM StepInvariant == IInv /\ [Next]_vars => IInv'
<1> SUFFICES ASSUME IInv, [Next]_vars PROVE IInv'
  OBVIOUS
<1>0. OrphansOK
  BY DEF IInv, TypeOK, OrphansOK
<1>1. ASSUME NEW r \in Run, StartRun(r) PROVE IInv'
  BY <1>1, StartRunKeeps
<1>2. ASSUME NEW r \in Run, StartAttempt(r) PROVE IInv'
  BY <1>2, StartAttemptKeeps
<1>3. ASSUME NEW r \in Run, Return(r) PROVE IInv'
  BY <1>3, <1>0, AttemptEnds DEF Return, OrphansOK
<1>4. ASSUME NEW r \in Run, TimesOut(r) PROVE IInv'
  BY <1>4, <1>0, AttemptEnds DEF TimesOut, OrphansOK
<1>5. ASSUME NEW r \in Run, WorkerDies(r) PROVE IInv'
  BY <1>5, LeftBehind, AttemptEnds DEF WorkerDies
<1>6. ASSUME NEW r \in Run, Reconcile(r) PROVE IInv'
  BY <1>6, ReconcileKeeps
<1>7. ASSUME NEW o \in orphans, OrphanEnds(o) PROVE IInv'
  BY <1>7, <1>0, RunsUntouched DEF OrphanEnds, OrphansOK
<1>8. CASE Tick
  BY <1>8, TickKeeps
<1>9. CASE UNCHANGED vars
  BY <1>9, <1>0, RunsUntouched DEF vars, OrphansOK
<1> QED  BY <1>1, <1>2, <1>3, <1>4, <1>5, <1>6, <1>7, <1>8, <1>9 DEF Next

LEMMA Invariance == Spec => []IInv
BY InitInvariant, StepInvariant, PTL DEF Spec

----------------------------------------------------------------------------
(* The theorems *)

\* Every run is at a task of its DAG, within its retries, and no application
\* outlives its limit while its worker waits: the retry arithmetic of the three DAGs.
THEOREM TypeCorrect == Spec => []TypeOK
<1>1. IInv => TypeOK
  BY DEF IInv
<1> QED  BY <1>1, Invariance, PTL

\* The nightly sweep, which fails every open row that is old enough, attended or left
\* behind, fails none of an attempt whose worker is waiting (spark_jobs 104-137, 234).
THEOREM SweepSparesTheAttended == Spec => []AttendedRunsKept
<1>1. IInv => AttendedRunsKept
  BY DEF IInv
<1> QED  BY <1>1, Invariance, PTL
=============================================================================
