----------------------- MODULE PipelineMonitor_proofs -----------------------
(***************************************************************************)
(* That a run is on record as failed without anybody being told only for a *)
(* process that died in between or for a call that was lost, one run for   *)
(* each, whatever sweeps, tasks, crashes and losses interleave, for any    *)
(* number of runs and pipelines.                                           *)
(*                                                                         *)
(* FailuresAreReported is not inductive: a sweep that was told of a run    *)
(* must still find it stale when it comes to it, so no selected run has    *)
(* started since, and it comes to one run at a time (SweepInv).            *)
(***************************************************************************)
EXTENDS PipelineMonitor, FiniteSetTheorems, TLAPS

\* Slack's threshold lets P2 through, as the default does (107): reconcile_stale_runs
\* fires no incident at all where it does not (629).
SweepIsLoud == Rank["P2"] >= Rank[SlackMin]

\* Nothing is on record of a run before it starts; what is selected has started, and
\* was stale then; only a task that is over has an outcome to write.
SweepInv ==
    /\ \A r \in Runs :
        /\ pc[r] = "unborn" => recorded[r] = {} /\ r \notin sweep \cup turn
        /\ r \in sweep \cup turn => now - started[r] >= StaleAfter
        /\ pc[r] \in {"unborn", "running"} => outcome[r] = "none"
        /\ pc[r] \in {"finishing", "checking", "alarming", "ended"} => outcome[r] # "none"
    /\ \A r, q \in turn : r = q

ReportInv == TypeOK /\ SweepInv /\ (SweepIsLoud => FailuresAreReported)

-----------------------------------------------------------------------------
(* What a step may do *)

LEMMA InitReport == Init => ReportInv
  <1> SUFFICES ASSUME Init PROVE ReportInv
    OBVIOUS
  <1>1. TypeOK /\ SweepInv
    BY MonitorAssumption DEF Init, TypeOK, SweepInv
  <1>2. Silent = {}
    BY DEF Init, Silent
  <1>3. Cardinality(Silent) = 0
    BY <1>2, FS_EmptySet
  <1> QED BY <1>1, <1>3 DEF Init, ReportInv, FailuresAreReported

LEMMA Counters ==
    ASSUME TypeOK
    PROVE  /\ now \in Nat /\ crashes \in Nat /\ lost \in Nat /\ StaleAfter \in Nat
           /\ \A q \in Runs : started[q] \in Nat
  BY MonitorAssumption DEF TypeOK

\* No further run is put on record as failed before it is stale.
NobodyFailedEarly ==
    \A q \in Runs : "failed" \in recorded'[q] /\ outcome'[q] # "failed" =>
        \/ "failed" \in recorded[q] /\ outcome[q] # "failed" /\ started'[q] = started[q]
        \/ now' - started'[q] >= StaleAfter

LEMMA FailedLate ==
    ASSUME SweepIsLoud, ReportInv, TypeOK', now' >= now, NobodyFailedEarly
    PROVE  \A q \in Runs : "failed" \in recorded'[q] /\ outcome'[q] # "failed"
                              => now' - started'[q] >= StaleAfter
  <1> SUFFICES ASSUME NEW q \in Runs, "failed" \in recorded'[q], outcome'[q] # "failed"
               PROVE  now' - started'[q] >= StaleAfter
    OBVIOUS
  <1>1. /\ now \in Nat /\ now' \in Nat /\ started[q] \in Nat /\ started'[q] \in Nat
        /\ StaleAfter \in Nat
    BY Counters, MonitorAssumption DEF ReportInv, TypeOK
  <1>2. CASE "failed" \in recorded[q] /\ outcome[q] # "failed" /\ started'[q] = started[q]
    <2>1. now - started[q] >= StaleAfter
      BY <1>2 DEF ReportInv, FailuresAreReported
    <2> QED BY <1>1, <1>2, <2>1
  <1> QED BY <1>2 DEF NobodyFailedEarly

\* A step that leaves no further run silent keeps the count.
LEMMA QuietStep ==
    ASSUME ReportInv, TypeOK', SweepInv', now' >= now, NobodyFailedEarly,
           Silent' \subseteq Silent, crashes' >= crashes, lost' >= lost
    PROVE  ReportInv'
  <1> SUFFICES ASSUME SweepIsLoud PROVE FailuresAreReported'
    BY DEF ReportInv
  <1>1. IsFiniteSet(Silent)
    BY MonitorAssumption, FS_Subset DEF Silent
  <1>2. /\ Cardinality(Silent') <= Cardinality(Silent) /\ IsFiniteSet(Silent')
        /\ Cardinality(Silent) \in Nat /\ Cardinality(Silent') \in Nat
    BY <1>1, FS_Subset, FS_CardinalityType
  <1>3. crashes \in Nat /\ lost \in Nat /\ crashes' \in Nat /\ lost' \in Nat
    BY DEF ReportInv, TypeOK
  <1>4. Cardinality(Silent) <= crashes + lost
    BY DEF ReportInv, FailuresAreReported
  <1>5. Cardinality(Silent') <= crashes' + lost'
    BY <1>2, <1>3, <1>4
  <1> QED BY <1>5, FailedLate DEF ReportInv, FailuresAreReported

LEMMA Paid ==
    ASSUME NEW a \in Nat, NEW b \in Nat, NEW c \in Nat, NEW l \in Nat, NEW d \in Nat, NEW m \in Nat,
           b <= a + 1, a <= c + l, d + m >= c + l + 1
    PROVE  b <= d + m
  OBVIOUS

\* One that silences one more has paid for it.
LEMMA PaidStep ==
    ASSUME ReportInv, TypeOK', SweepInv', now' >= now, NobodyFailedEarly, NEW r,
           Silent' \subseteq Silent \cup {r}, crashes' + lost' >= crashes + lost + 1
    PROVE  ReportInv'
  <1> SUFFICES ASSUME SweepIsLoud PROVE FailuresAreReported'
    BY DEF ReportInv
  <1>1. IsFiniteSet(Silent)
    BY MonitorAssumption, FS_Subset DEF Silent
  <1>2. /\ IsFiniteSet(Silent \cup {r}) /\ Cardinality(Silent) \in Nat
        /\ Cardinality(Silent \cup {r}) \in {Cardinality(Silent), Cardinality(Silent) + 1}
    <2>1. CASE r \in Silent
      <3>1. Silent \cup {r} = Silent
        BY <2>1
      <3> QED BY <1>1, <3>1, FS_CardinalityType
    <2>2. CASE r \notin Silent
      BY <1>1, <2>2, FS_AddElement, FS_CardinalityType
    <2> QED BY <2>1, <2>2
  <1>3. Cardinality(Silent') <= Cardinality(Silent \cup {r}) /\ Cardinality(Silent') \in Nat
    BY <1>2, FS_Subset, FS_CardinalityType
  <1>4. crashes \in Nat /\ lost \in Nat /\ crashes' \in Nat /\ lost' \in Nat
    BY DEF ReportInv, TypeOK
  <1>5. Cardinality(Silent) <= crashes + lost
    BY DEF ReportInv, FailuresAreReported
  <1>6. Cardinality(Silent') <= crashes' + lost'
    <2>1. Cardinality(Silent') <= Cardinality(Silent) + 1
      BY <1>2, <1>3
    <2> QED BY <1>2, <1>3, <1>4, <1>5, <2>1, Paid
  <1> QED BY <1>6, FailedLate DEF ReportInv, FailuresAreReported

\* An insert of a row, stored or lost.
LEMMA WriteRunType ==
    ASSUME TypeOK, NEW r \in Runs, NEW s \in {"running", "success", "failed"}, WriteRun(r, s)
    PROVE  /\ recorded' \in [Runs -> SUBSET {"running", "success", "failed"}]
           /\ verdict' \in [Runs -> {"none", "running", "success", "failed"}]
           /\ \A q \in Runs : verdict'[q] = "none" <=> recorded'[q] = {}
           /\ lost' \in Nat /\ lost' >= lost
           /\ recorded'[r] \subseteq recorded[r] \cup {s}
           /\ \A q \in Runs \ {r} : recorded'[q] = recorded[q]
  <1>1. CASE /\ recorded' = [recorded EXCEPT ![r] = @ \cup {s}]
             /\ verdict' = [verdict EXCEPT ![r] = s]
             /\ UNCHANGED lost
    <2>1. /\ recorded'[r] = recorded[r] \cup {s} /\ verdict'[r] = s
          /\ \A q \in Runs \ {r} : recorded'[q] = recorded[q] /\ verdict'[q] = verdict[q]
      BY <1>1 DEF TypeOK
    <2>2. /\ recorded' \in [Runs -> SUBSET {"running", "success", "failed"}]
          /\ verdict' \in [Runs -> {"none", "running", "success", "failed"}]
      BY <1>1 DEF TypeOK
    <2>3. \A q \in Runs : verdict'[q] = "none" <=> recorded'[q] = {}
      BY <2>1 DEF TypeOK
    <2> QED BY <1>1, <2>1, <2>2, <2>3 DEF TypeOK
  <1>2. CASE Lose /\ UNCHANGED rowVars
    BY <1>2 DEF TypeOK, rowVars, Lose
  <1> QED BY <1>1, <1>2 DEF WriteRun

\* An incident that is fired is on record, or something was lost.
LEMMA FireType ==
    ASSUME TypeOK, NEW s \in Subject, NEW p \in Pipelines, NEW type \in Type,
           NEW severity \in Severity, Fire(s, p, <<type, severity>>)
    PROVE  /\ incidents' \subseteq Subject \X Type \X Severity
           /\ paged' \subseteq Pipelines \X Type
           /\ incidents \subseteq incidents'
           /\ lost' \in Nat /\ lost' >= lost
           /\ lost' >= lost + 1 \/ <<s, type, severity>> \in incidents'
  <1>1. paged' = paged \/ paged' = paged \cup {<<p, type>>}
    BY DEF Fire, Page, alertVars
  <1>2. \/ incidents' = incidents /\ lost' = lost + 1
        \/ incidents' = incidents \cup {<<s, type, severity>>} /\ lost' \in {lost, lost + 1}
    BY DEF Fire, StoreIncident, alertVars, Lose
  <1> QED BY <1>1, <1>2 DEF TypeOK

-----------------------------------------------------------------------------
(* A task *)

LEMMA TickReport == ReportInv /\ Tick => ReportInv'
  <1> SUFFICES ASSUME ReportInv, Tick PROVE ReportInv'
    OBVIOUS
  <1>1. TypeOK' /\ now' >= now /\ SweepInv'
    BY MonitorAssumption DEF ReportInv, Tick, TypeOK, SweepInv, runVars, rowVars, sweepVars, alertVars
  <1>2. Silent' = Silent
    BY DEF Tick, Silent, Announced, BeingAnnounced, runVars, rowVars, sweepVars, alertVars
  <1>3. NobodyFailedEarly /\ UNCHANGED <<crashes, lost>>
    BY DEF Tick, NobodyFailedEarly, runVars, rowVars
  <1> QED BY <1>1, <1>2, <1>3, QuietStep, Counters DEF ReportInv

\* The row of a run that starts says nothing of a failure.
LEMMA StartRunReport ==
    ASSUME ReportInv, NEW r \in Runs, StartRun(r)
    PROVE  ReportInv'
  <1> USE DEF ReportInv
  <1>1. /\ pc[r] = "unborn" /\ pc' = [pc EXCEPT ![r] = "running"]
        /\ started' = [started EXCEPT ![r] = now] /\ WriteRun(r, "running")
        /\ UNCHANGED <<now, outcome, ended, alarms, sweep, turn, incidents, paged, crashes>>
    BY DEF StartRun, sweepVars, alertVars
  <1>2. /\ pc'[r] = "running" /\ started'[r] = now
        /\ \A q \in Runs \ {r} : pc'[q] = pc[q] /\ started'[q] = started[q]
    BY <1>1 DEF TypeOK
  <1>3. /\ recorded'[r] \subseteq {"running"} /\ \A q \in Runs \ {r} : recorded'[q] = recorded[q]
        /\ lost' >= lost
    BY <1>1, WriteRunType DEF SweepInv
  <1>4. TypeOK' /\ now' >= now
    BY <1>1, WriteRunType, MonitorAssumption DEF TypeOK
  <1>5. SweepInv'
    BY <1>1, <1>2, <1>3 DEF SweepInv
  <1>6. Silent' \subseteq Silent
    BY <1>1, <1>2, <1>3 DEF Silent, Announced, BeingAnnounced
  <1>7. NobodyFailedEarly
    BY <1>1, <1>2, <1>3 DEF NobodyFailedEarly
  <1> QED BY <1>1, <1>3, <1>4, <1>5, <1>6, <1>7, QuietStep, Counters

LEMMA WorkReport ==
    ASSUME ReportInv, NEW r \in Runs, Work(r)
    PROVE  ReportInv'
  <1> USE DEF ReportInv
  <1>1. PICK s \in {"success", "failed"} : outcome' = [outcome EXCEPT ![r] = s]
    BY DEF Work
  <1>2. /\ pc[r] = "running" /\ pc' = [pc EXCEPT ![r] = "finishing"]
        /\ UNCHANGED <<now, started, ended, alarms, recorded, verdict, sweep, turn, incidents,
                       paged, crashes, lost>>
    BY DEF Work, rowVars, sweepVars, alertVars
  <1>3. TypeOK' /\ now' >= now
    BY <1>1, <1>2, MonitorAssumption DEF TypeOK
  <1>4. /\ pc'[r] = "finishing" /\ outcome'[r] = s /\ outcome[r] = "none"
        /\ \A q \in Runs \ {r} : pc'[q] = pc[q] /\ outcome'[q] = outcome[q]
    BY <1>1, <1>2 DEF TypeOK, SweepInv
  <1>5. SweepInv'
    BY <1>2, <1>4 DEF SweepInv
  <1>6. Silent' \subseteq Silent
    BY <1>2, <1>4 DEF Silent, Announced, BeingAnnounced
  <1>7. NobodyFailedEarly
    BY <1>2, <1>4 DEF NobodyFailedEarly
  <1> QED BY <1>2, <1>3, <1>5, <1>6, <1>7, QuietStep, Counters

\* Until it has raised its alarms, a task that wrote its failure is checking.
LEMMA EndRunReport ==
    ASSUME ReportInv, NEW r \in Runs, EndRun(r)
    PROVE  ReportInv'
  <1> USE DEF ReportInv
  <1>1. /\ pc[r] = "finishing" /\ pc' = [pc EXCEPT ![r] = "checking"]
        /\ ended' = [ended EXCEPT ![r] = now] /\ WriteRun(r, outcome[r])
        /\ UNCHANGED <<now, outcome, started, alarms, sweep, turn, incidents, paged, crashes>>
        /\ outcome[r] \in {"success", "failed"}
    BY DEF EndRun, SweepInv, TypeOK, sweepVars, alertVars
  <1>2. pc'[r] = "checking" /\ \A q \in Runs \ {r} : pc'[q] = pc[q]
    BY <1>1 DEF TypeOK
  <1>3. /\ recorded'[r] \subseteq recorded[r] \cup {outcome[r]} /\ lost' >= lost
        /\ \A q \in Runs \ {r} : recorded'[q] = recorded[q]
    BY <1>1, WriteRunType
  <1>4. TypeOK' /\ now' >= now
    BY <1>1, WriteRunType, MonitorAssumption DEF TypeOK
  <1>5. SweepInv'
    BY <1>1, <1>2, <1>3 DEF SweepInv
  <1>6. Silent' \subseteq Silent
    BY <1>1, <1>2, <1>3 DEF Silent, Announced, BeingAnnounced
  <1>7. NobodyFailedEarly
    BY <1>1, <1>3 DEF NobodyFailedEarly
  <1> QED BY <1>1, <1>3, <1>4, <1>5, <1>6, <1>7, QuietStep, Counters

LEMMA RunChecksReport ==
    ASSUME ReportInv, NEW r \in Runs, RunChecks(r)
    PROVE  ReportInv'
  <1> USE DEF ReportInv
  <1>1. PICK found \in SUBSET (BaselineAlarms(r) \cup SlaAlarms(r)) :
          LET loud == {alarm \in FailureAlarm(r) \cup found : alarm[2] \in {"P1", "P2"}}
          IN  /\ alarms' = [alarms EXCEPT ![r] = loud]
              /\ pc' = [pc EXCEPT ![r] = IF loud = {} THEN "ended" ELSE "alarming"]
    BY DEF RunChecks
  <1>2. /\ pc[r] = "checking"
        /\ UNCHANGED <<now, outcome, started, ended, recorded, verdict, sweep, turn, incidents,
                       paged, crashes, lost>>
    BY DEF RunChecks, rowVars, sweepVars, alertVars
  <1>3. PICK loud : /\ loud = {alarm \in FailureAlarm(r) \cup found : alarm[2] \in {"P1", "P2"}}
                    /\ alarms' = [alarms EXCEPT ![r] = loud]
                    /\ pc' = [pc EXCEPT ![r] = IF loud = {} THEN "ended" ELSE "alarming"]
    BY <1>1
  <1>4. loud \in SUBSET (Type \X Severity)
    BY <1>3 DEF FailureAlarm, BaselineAlarms, SlaAlarms, Type, Severity
  <1>5. outcome[r] = "failed" => <<"pipeline_failure", "P1">> \in loud
    BY <1>3 DEF FailureAlarm
  <1>6. /\ pc'[r] \in {"ended", "alarming"} /\ alarms'[r] = loud
        /\ outcome[r] = "failed" => pc'[r] = "alarming"
        /\ \A q \in Runs \ {r} : pc'[q] = pc[q] /\ alarms'[q] = alarms[q]
    BY <1>3, <1>5 DEF TypeOK
  <1>7. TypeOK' /\ now' >= now
    <2>1. alarms' \in [Runs -> SUBSET (Type \X Severity)]
      BY <1>3, <1>4 DEF TypeOK
    <2>2. pc' \in [Runs -> {"unborn", "running", "finishing", "checking", "alarming",
                            "ended", "died"}]
      BY <1>3 DEF TypeOK
    <2> QED BY <2>1, <2>2, <1>2, MonitorAssumption DEF TypeOK
  <1>8. SweepInv'
    BY <1>2, <1>6 DEF SweepInv
  <1>9. Silent' \subseteq Silent
    BY <1>2, <1>5, <1>6 DEF Silent, Announced, BeingAnnounced
  <1>10. NobodyFailedEarly
    BY <1>2 DEF NobodyFailedEarly
  <1> QED BY <1>2, <1>7, <1>8, <1>9, <1>10, QuietStep, Counters

\* The failure's own incident is on record, or lost, when it is no longer to be fired.
LEMMA FireAlarmReport ==
    ASSUME ReportInv, NEW r \in Runs, FireAlarm(r)
    PROVE  ReportInv'
  <1> USE DEF ReportInv
  <1>1. PICK alarm \in alarms[r] :
          /\ Fire(r, PipelineOf[r], alarm)
          /\ alarms' = [alarms EXCEPT ![r] = @ \ {alarm}]
          /\ pc' = [pc EXCEPT ![r] = IF alarms[r] = {alarm} THEN "ended" ELSE "alarming"]
    BY DEF FireAlarm
  <1>2. /\ pc[r] = "alarming"
        /\ UNCHANGED <<now, outcome, started, ended, recorded, verdict, sweep, turn, crashes>>
    BY DEF FireAlarm, rowVars, sweepVars
  <1>3. PICK type \in Type, severity \in Severity : alarm = <<type, severity>>
    BY DEF TypeOK
  <1>4. /\ incidents' \subseteq Subject \X Type \X Severity /\ paged' \subseteq Pipelines \X Type
        /\ incidents \subseteq incidents' /\ lost' \in Nat /\ lost' >= lost
        /\ lost' >= lost + 1 \/ <<r, type, severity>> \in incidents'
    BY <1>1, <1>3, FireType, MonitorAssumption DEF Subject
  <1>5. /\ pc'[r] = IF alarms[r] = {alarm} THEN "ended" ELSE "alarming"
        /\ alarms'[r] = alarms[r] \ {alarm}
        /\ \A q \in Runs \ {r} : pc'[q] = pc[q] /\ alarms'[q] = alarms[q]
    BY <1>1 DEF TypeOK
  <1>6. TypeOK' /\ now' >= now
    <2>1. alarms' \in [Runs -> SUBSET (Type \X Severity)]
      BY <1>1 DEF TypeOK
    <2>2. pc' \in [Runs -> {"unborn", "running", "finishing", "checking", "alarming",
                            "ended", "died"}]
      BY <1>1 DEF TypeOK
    <2> QED BY <2>1, <2>2, <1>2, <1>4, MonitorAssumption DEF TypeOK
  <1>7. SweepInv'
    BY <1>2, <1>5 DEF SweepInv
  <1>8. Silent' \subseteq Silent \/ (Silent' \subseteq Silent \cup {r} /\ lost' >= lost + 1)
    <2>1. Silent' \subseteq Silent \cup {r}
      BY <1>2, <1>4, <1>5 DEF Silent, Announced, BeingAnnounced
    <2>2. CASE alarm = <<"pipeline_failure", "P1">> /\ <<r, type, severity>> \in incidents'
      <3>1. r \notin Silent'
        BY <2>2, <1>3 DEF Silent, Announced
      <3> QED BY <2>1, <3>1
    <2>3. CASE alarm # <<"pipeline_failure", "P1">>
      <3>1. r \in Silent' => r \in Silent
        BY <2>3, <1>2, <1>4, <1>5 DEF Silent, Announced, BeingAnnounced
      <3> QED BY <2>1, <3>1
    <2> QED BY <1>4, <2>1, <2>2, <2>3
  <1>9. NobodyFailedEarly
    BY <1>2 DEF NobodyFailedEarly
  <1>10. CASE Silent' \subseteq Silent
    BY <1>2, <1>4, <1>6, <1>7, <1>9, <1>10, QuietStep, Counters
  <1>11. CASE Silent' \subseteq Silent \cup {r} /\ lost' >= lost + 1
    <2>1. crashes' + lost' >= crashes + lost + 1
      BY <1>2, <1>4, <1>11, Counters
    <2> QED BY <1>6, <1>7, <1>9, <1>11, <2>1, PaidStep
  <1> QED BY <1>8, <1>10, <1>11

LEMMA CrashReport ==
    ASSUME ReportInv, NEW r \in Runs, Crash(r)
    PROVE  ReportInv'
  <1> USE DEF ReportInv
  <1>1. /\ pc[r] \in {"running", "finishing", "checking", "alarming"}
        /\ pc' = [pc EXCEPT ![r] = "died"] /\ alarms' = [alarms EXCEPT ![r] = {}]
        /\ crashes' = crashes + 1
        /\ UNCHANGED <<now, outcome, started, ended, recorded, verdict, sweep, turn, incidents,
                       paged, lost>>
    BY DEF Crash, rowVars, sweepVars, alertVars
  <1>2. TypeOK' /\ now' >= now
    BY <1>1, MonitorAssumption DEF TypeOK
  <1>3. pc'[r] = "died" /\ \A q \in Runs \ {r} : pc'[q] = pc[q] /\ alarms'[q] = alarms[q]
    BY <1>1 DEF TypeOK
  <1>4. SweepInv'
    BY <1>1, <1>3 DEF SweepInv
  <1>5. Silent' \subseteq Silent \cup {r}
    BY <1>1, <1>3 DEF Silent, Announced, BeingAnnounced
  <1>6. NobodyFailedEarly
    BY <1>1 DEF NobodyFailedEarly
  <1>7. crashes' + lost' >= crashes + lost + 1
    BY <1>1, Counters
  <1> QED BY <1>2, <1>4, <1>5, <1>6, <1>7, PaidStep

-----------------------------------------------------------------------------
(* The sweeps *)

LEMMA SelectReport == ReportInv /\ SelectStaleRuns => ReportInv'
  <1> SUFFICES ASSUME ReportInv, SelectStaleRuns PROVE ReportInv'
    OBVIOUS
  <1> USE DEF ReportInv
  <1>1. /\ turn = {} /\ \A r \in sweep' : MaySelect(r) /\ r \in Runs
        /\ UNCHANGED <<now, pc, outcome, started, ended, alarms, recorded, verdict, turn,
                       incidents, paged, crashes, lost>>
    BY DEF SelectStaleRuns, runVars, rowVars, alertVars
  <1>2. TypeOK' /\ now' >= now
    BY <1>1, MonitorAssumption DEF TypeOK
  <1>3. SweepInv'
    BY <1>1 DEF SweepInv, MaySelect, Stale
  <1>4. Silent' = Silent
    BY <1>1 DEF Silent, Announced, BeingAnnounced
  <1>5. NobodyFailedEarly
    BY <1>1 DEF NobodyFailedEarly
  <1> QED BY <1>1, <1>2, <1>3, <1>4, <1>5, QuietStep, Counters

LEMMA SupersedeReport ==
    ASSUME ReportInv, NEW r \in Runs, Supersede(r)
    PROVE  ReportInv'
  <1> USE DEF ReportInv
  <1>1. /\ turn = {} /\ r \in sweep /\ sweep' = sweep \ {r} /\ turn' = {r}
        /\ WriteRun(r, "failed")
        /\ UNCHANGED <<now, pc, outcome, started, ended, alarms, incidents, paged, crashes>>
    BY DEF Supersede, runVars, alertVars
  <1>2. (\A q \in Runs \ {r} : recorded'[q] = recorded[q]) /\ lost' >= lost
    BY <1>1, WriteRunType
  <1>3. now - started[r] >= StaleAfter /\ pc[r] # "unborn"
    BY <1>1 DEF SweepInv
  <1>4. TypeOK' /\ now' >= now
    BY <1>1, WriteRunType, MonitorAssumption DEF TypeOK
  <1>5. SweepInv'
    BY <1>1, <1>2, <1>3 DEF SweepInv
  <1>6. Silent' \subseteq Silent
    BY <1>1, <1>2 DEF Silent, Announced, BeingAnnounced
  <1>7. NobodyFailedEarly
    BY <1>1, <1>2, <1>3 DEF NobodyFailedEarly
  <1> QED BY <1>1, <1>2, <1>4, <1>5, <1>6, <1>7, QuietStep, Counters

LEMMA AnnounceReport ==
    ASSUME ReportInv, NEW r \in Runs, Announce(r)
    PROVE  ReportInv'
  <1> USE DEF ReportInv
  <1>1. /\ r \in turn /\ turn' = {}
        /\ UNCHANGED <<now, pc, outcome, started, ended, alarms, recorded, verdict, sweep, crashes>>
    BY DEF Announce, runVars, rowVars
  <1>2. SweepInv'
    BY <1>1 DEF SweepInv
  <1>3. CASE Fire(r, PipelineOf[r], <<"pipeline_failure", "P2">>)
    <2>1. "pipeline_failure" \in Type /\ "P2" \in Severity
      BY DEF Type, Severity
    <2>2. /\ incidents' \subseteq Subject \X Type \X Severity /\ paged' \subseteq Pipelines \X Type
          /\ incidents \subseteq incidents' /\ lost' \in Nat /\ lost' >= lost
          /\ lost' >= lost + 1 \/ <<r, "pipeline_failure", "P2">> \in incidents'
      BY <1>1, <1>3, <2>1, FireType, MonitorAssumption DEF Subject
    <2>3. TypeOK' /\ now' >= now
      BY <1>1, <2>2, MonitorAssumption DEF TypeOK
    <2>4. turn = {r}
      BY <1>1 DEF SweepInv
    <2>5. Silent' \subseteq Silent \cup {r}
      BY <1>1, <2>2, <2>4 DEF Silent, Announced, BeingAnnounced
    <2>6. NobodyFailedEarly
      BY <1>1 DEF NobodyFailedEarly
    <2>7. CASE <<r, "pipeline_failure", "P2">> \in incidents'
      <3>1. r \notin Silent'
        BY <2>7 DEF Silent, Announced
      <3>2. Silent' \subseteq Silent
        BY <2>5, <3>1
      <3> QED BY <1>1, <1>2, <2>2, <2>3, <2>6, <3>2, QuietStep, Counters
    <2>8. CASE lost' >= lost + 1
      <3>1. crashes' + lost' >= crashes + lost + 1
        BY <1>1, <2>2, <2>8, Counters
      <3> QED BY <1>2, <2>3, <2>5, <2>6, <3>1, PaidStep
    <2> QED BY <2>2, <2>7, <2>8
  <1>4. CASE ~SweepIsLoud /\ UNCHANGED <<alertVars, lost>>
    BY <1>1, <1>2, <1>4, MonitorAssumption DEF TypeOK, alertVars, SweepIsLoud
  <1> QED BY <1>3, <1>4 DEF Announce, SweepIsLoud

LEMMA SweepDiesReport == ReportInv /\ SweepDies => ReportInv'
  <1> SUFFICES ASSUME ReportInv, SweepDies PROVE ReportInv'
    OBVIOUS
  <1> USE DEF ReportInv
  <1>1. /\ sweep' = {} /\ turn' = {} /\ crashes' = crashes + 1
        /\ UNCHANGED <<now, pc, outcome, started, ended, alarms, recorded, verdict, incidents,
                       paged, lost>>
    BY DEF SweepDies, runVars, rowVars, alertVars
  <1>2. TypeOK' /\ now' >= now
    BY <1>1, MonitorAssumption DEF TypeOK
  <1>3. SweepInv'
    BY <1>1 DEF SweepInv
  <1>4. PICK r : turn \subseteq {r}
    BY DEF SweepInv
  <1>5. Silent' \subseteq Silent \cup {r}
    BY <1>1, <1>4 DEF Silent, Announced, BeingAnnounced
  <1>6. NobodyFailedEarly
    BY <1>1 DEF NobodyFailedEarly
  <1>7. crashes' + lost' >= crashes + lost + 1
    BY <1>1, Counters
  <1> QED BY <1>2, <1>3, <1>5, <1>6, <1>7, PaidStep

LEMMA FreshnessReport ==
    ASSUME ReportInv, NEW p \in Pipelines, CheckFreshness(p)
    PROVE  ReportInv'
  <1> USE DEF ReportInv
  <1>1. /\ Fire(p, p, <<"freshness_breach", BreachSeverity(p)>>)
        /\ UNCHANGED <<now, pc, outcome, started, ended, alarms, recorded, verdict, sweep, turn,
                       crashes>>
    BY DEF CheckFreshness, runVars, rowVars, sweepVars
  <1>2. "freshness_breach" \in Type /\ BreachSeverity(p) \in Severity
    BY DEF BreachSeverity, Type, Severity
  <1>3. /\ incidents' \subseteq Subject \X Type \X Severity /\ paged' \subseteq Pipelines \X Type
        /\ incidents \subseteq incidents' /\ lost' \in Nat /\ lost' >= lost
    BY <1>1, <1>2, FireType DEF Subject
  <1>4. TypeOK' /\ SweepInv' /\ now' >= now
    BY <1>1, <1>3, MonitorAssumption DEF TypeOK, SweepInv
  <1>5. Silent' \subseteq Silent
    BY <1>1, <1>3 DEF Silent, Announced, BeingAnnounced
  <1>6. NobodyFailedEarly
    BY <1>1 DEF NobodyFailedEarly
  <1> QED BY <1>1, <1>3, <1>4, <1>5, <1>6, QuietStep, Counters

-----------------------------------------------------------------------------

LEMMA NextReport == ReportInv /\ [Next]_vars => ReportInv'
  <1>1. ASSUME ReportInv, UNCHANGED vars PROVE ReportInv'
    BY <1>1 DEF vars, runVars, rowVars, sweepVars, alertVars, ReportInv, TypeOK, SweepInv,
                FailuresAreReported, Silent, Announced, BeingAnnounced
  <1> QED BY <1>1, TickReport, StartRunReport, WorkReport, EndRunReport, RunChecksReport,
             FireAlarmReport, CrashReport, SelectReport, SupersedeReport, AnnounceReport,
             SweepDiesReport, FreshnessReport DEF Next

\* Every reachable state of the run bookkeeping has its type (start_run 360-407,
\* end_run 409-474, reconcile_stale_runs 551-635).
THEOREM TypeCorrect == Spec => []TypeOK
  <1>1. ReportInv => TypeOK
    BY DEF ReportInv
  <1> QED BY <1>1, InitReport, NextReport, PTL DEF Spec

\* Whatever dies, is lost or overtakes what: a run is on record as failed and nobody
\* told of it only for a process that died between its row and its incident or for a
\* lost call, one run for each, wherever the sweep's incidents are fired at all
\* (end_run 461-472, reconcile_stale_runs 588-631, _fire_incident 936-979).
THEOREM FailuresReported == ASSUME SweepIsLoud PROVE Spec => []FailuresAreReported
  <1> SUFFICES ASSUME SweepIsLoud PROVE Spec => []FailuresAreReported
    OBVIOUS
  <1>1. ReportInv => FailuresAreReported
    BY DEF ReportInv
  <1> QED BY <1>1, InitReport, NextReport, PTL DEF Spec
=============================================================================
