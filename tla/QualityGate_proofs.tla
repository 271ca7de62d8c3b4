------------------------- MODULE QualityGate_proofs -------------------------
(* Proofs about QualityGate: type correctness; that the gate opens only on   *)
(* tables the same attempt reported within five points of their thresholds,  *)
(* after trying every one of them; that reports agree with outcomes and      *)
(* alerts; and that a P1 whose page was skipped is no verdict.  And about    *)
(* the engines that score: on every table and suite outside the listed       *)
(* differences the two agree, and the extractor names what was counted.      *)
EXTENDS QualityGate, FiniteSetTheorems, TLAPS

-----------------------------------------------------------------------------
(* Type correctness *)

\* A program without tables has nothing to do.
TypeInv == TypeOK /\ (Specs = <<>> => pc = "passed")

LEMMA AtIsATable ==
    ASSUME TypeInv, pc # "passed"
    PROVE  /\ at \in DOMAIN Specs
           /\ at \in 1 .. Len(Specs)
           /\ Len(Specs) \in Nat
           /\ Run \in RunIds
  BY SpecsAreASequence, BoundsAreNaturals DEF TypeInv, TypeOK, Run, RunIds

LEMMA SeverityIsP ==
    ASSUME NEW rs, NEW th
    PROVE  Severity(rs, th) \in {"P1", "P2", "P3"}
  BY DEF Severity

\* The variables that Ends assigns, and at and pc, keep their types.
LEMMA EndsTypes ==
    ASSUME TypeInv, pc # "passed", NEW how \in Ended, Ends(how)
    PROVE  /\ pc' \in {"read", "exit"}
           /\ at' \in DOMAIN Specs
           /\ outcome' \in [DOMAIN Specs -> Ended \cup {"pending"}]
           /\ failures' \in Nat
  <1>1. at \in DOMAIN Specs /\ at \in 1 .. Len(Specs) /\ Len(Specs) \in Nat
    BY AtIsATable
  <1>2. DOMAIN Specs = 1 .. Len(Specs)
    BY SpecsAreASequence
  <1>3. at < Len(Specs) => at + 1 \in DOMAIN Specs
    BY <1>1, <1>2
  <1> QED BY <1>1, <1>3 DEF Ends, TypeInv, TypeOK, Ended

LEMMA InitTypes == Init => TypeInv
  <1>1. Specs # <<>> => 1 \in DOMAIN Specs
    BY SpecsAreASequence
  <1> QED BY <1>1, BoundsAreNaturals DEF Init, TypeInv, TypeOK, Stages, RunIds

LEMMA NextTypes == TypeInv /\ [Next]_vars => TypeInv'
  <1> SUFFICES ASSUME TypeInv, [Next]_vars
               PROVE  TypeInv'
    OBVIOUS
  <1> USE DEF Stages
  <1>1. CASE Build \/ ReadTable
    BY <1>1 DEF Build, ReadTable, TypeInv, TypeOK, validation, effects
  <1>2. CASE LoadSuite
    <2>1. pc = "load" /\ UNCHANGED <<effects, attempt, breaks>>
      BY <1>2 DEF LoadSuite
    <2>2. CASE Ends("error")
      BY <2>1, <2>2, EndsTypes DEF TypeInv, TypeOK, effects, Ended
    <2>3. CASE pc' = "evaluate" /\ UNCHANGED <<at, outcome, failures>>
      BY <2>1, <2>3 DEF TypeInv, TypeOK, effects
    <2> QED BY <1>2, <2>2, <2>3 DEF LoadSuite
  <1>3. CASE Evaluate
    <2>1. pc = "evaluate" /\ UNCHANGED <<effects, attempt, breaks>>
      BY <1>3 DEF Evaluate
    <2>2. CASE Ends("error")
      BY <2>1, <2>2, EndsTypes DEF TypeInv, TypeOK, effects, Ended
    <2>3. CASE pc' = "report" /\ UNCHANGED <<at, outcome, failures>>
      BY <2>1, <2>3 DEF TypeInv, TypeOK, effects
    <2> QED BY <1>3, <2>2, <2>3 DEF Evaluate
  <1>4. CASE Report
    BY <1>4, AtIsATable, SeverityIsP
       DEF Report, TypeInv, TypeOK, validation, ThisReport, MySeverity
  <1>5. CASE RecordScore
    BY <1>5, AtIsATable DEF RecordScore, TypeInv, TypeOK, validation
  <1>6. CASE SendSlack
    <2>1. pc = "slack" /\ UNCHANGED <<reports, scores, paged, attempt, breaks>>
      BY <1>6 DEF SendSlack
    <2>2. CASE Ends("error") /\ UNCHANGED slacked
      BY <2>1, <2>2, EndsTypes DEF TypeInv, TypeOK, Ended
    <2>3. CASE /\ slacked' \in {slacked, slacked \cup {Run}}
               /\ pc' = "page"
               /\ UNCHANGED <<at, outcome, failures>>
      BY <2>1, <2>3, AtIsATable DEF TypeInv, TypeOK
    <2> QED BY <1>6, <2>2, <2>3 DEF SendSlack
  <1>7. CASE SendPage
    BY <1>7, AtIsATable DEF SendPage, TypeInv, TypeOK, validation
  <1>8. CASE Verdict
    <2>1. PICK how \in {"ok", "p1", "soft"} : Ends(how)
      BY <1>8 DEF Verdict
    <2> QED BY <1>8, <2>1, EndsTypes DEF Verdict, TypeInv, TypeOK, effects, Ended
  <1>9. CASE Exit
    BY <1>9 DEF Exit, TypeInv, TypeOK, validation, effects
  <1>10. CASE Breaks
    <2>1. /\ pc # "passed" /\ Ends("error")
          /\ breaks' \in 0 .. MaxBreaks
          /\ attempt' = attempt
      BY <1>10, BoundsAreNaturals DEF Breaks, TypeInv, TypeOK
    <2>2. /\ reports' \in {reports, reports \cup {ThisReport}}
          /\ scores' \in {scores, scores \cup {Run}}
          /\ slacked' = slacked /\ paged' = paged
      BY <1>10 DEF Breaks, effects
    <2>3. \A r \in reports' : r.run \in RunIds /\ r.severity \in {"P1", "P2", "P3"}
      BY <2>1, <2>2, AtIsATable, SeverityIsP DEF TypeInv, TypeOK, ThisReport, MySeverity
    <2>4. scores' \subseteq RunIds
      BY <2>1, <2>2, AtIsATable DEF TypeInv, TypeOK
    <2> QED BY <2>1, <2>2, <2>3, <2>4, EndsTypes DEF TypeInv, TypeOK, Ended
  <1>11. CASE Retry
    <2>1. attempt' \in 1 .. MaxAttempts
      BY <1>11, BoundsAreNaturals DEF Retry, TypeInv, TypeOK
    <2>2. Specs # <<>> /\ 1 \in DOMAIN Specs
      BY <1>11, SpecsAreASequence DEF Retry, TypeInv
    <2> QED BY <1>11, <2>1, <2>2 DEF Retry, TypeInv, TypeOK, effects
  <1>12. CASE Dies
    <2>1. breaks' \in 0 .. MaxBreaks
      BY <1>12, BoundsAreNaturals DEF Dies, TypeInv, TypeOK
    <2> QED BY <1>12, <2>1 DEF Dies, Stopped, TypeInv, TypeOK, validation, effects
  <1>13. CASE UNCHANGED vars
    BY <1>13 DEF vars, validation, effects, TypeInv, TypeOK
  <1> QED BY <1>1, <1>2, <1>3, <1>4, <1>5, <1>6, <1>7, <1>8, <1>9, <1>10, <1>11, <1>12, <1>13
          DEF Next, Step

(* TypeCorrect: in every reachable state of the gate, for all suites,        *)
(* tables and numbers of tries, the variables have their types.              *)
THEOREM TypeCorrect == Spec => []TypeOK
  <1>1. TypeInv => TypeOK
    BY DEF TypeInv
  <1> QED BY <1>1, InitTypes, NextTypes, PTL DEF Spec

-----------------------------------------------------------------------------
(* The loop over the tables *)

Busy == {"build", "read", "load", "evaluate", "report", "score", "slack", "page", "verdict"}

Blocked == {k \in DOMAIN Specs : outcome[k] \in {"p1", "error"}}

\* The tables before the one at hand have ended, the others are pending; the
\* counter of failures counts something exactly if a table was blocked, and
\* the exit code is taken from it.
LoopInv ==
    /\ pc \in Busy => \A k \in DOMAIN Specs : outcome[k] = "pending" <=> k >= at
    /\ pc \notin Busy \cup {"died"} => \A k \in DOMAIN Specs : outcome[k] \in Ended
    /\ failures > 0 <=> Blocked # {}
    /\ pc = "passed" => failures = 0
    /\ pc = "failed" => failures > 0

LEMMA LastOrNot ==
    ASSUME NEW n \in Nat, NEW k \in 1 .. n
    PROVE  k < n \/ k = n
  OBVIOUS

LEMMA EndsLoop ==
    ASSUME TypeInv, LoopInv, pc \in Busy, NEW how \in Ended, Ends(how)
    PROVE  LoopInv'
  <1>1. at \in 1 .. Len(Specs) /\ Len(Specs) \in Nat /\ DOMAIN Specs = 1 .. Len(Specs)
    BY AtIsATable, SpecsAreASequence DEF Busy
  <1>2. \A k \in DOMAIN Specs : outcome'[k] = IF k = at THEN how ELSE outcome[k]
    BY DEF Ends, TypeInv, TypeOK
  <1>3. \A k \in DOMAIN Specs : outcome[k] = "pending" <=> k >= at
    BY DEF LoopInv
  <1>4. failures \in Nat /\ \A k \in DOMAIN Specs : outcome[k] \in Ended \cup {"pending"}
    BY DEF TypeInv, TypeOK
  <1>5. CASE at < Len(Specs)
    <2>1. pc' = "read" /\ at' = at + 1
      BY <1>5 DEF Ends
    <2>2. \A k \in DOMAIN Specs : outcome'[k] = "pending" <=> k >= at + 1
      BY <1>1, <1>2, <1>3 DEF Ended
    <2>3. failures' > 0 <=> Blocked' # {}
      BY <1>1, <1>2, <1>3, <1>4 DEF Ends, LoopInv, Blocked, Ended
    <2> QED BY <2>1, <2>2, <2>3 DEF LoopInv, Busy
  <1>6. CASE at = Len(Specs)
    <2>1. pc' = "exit"
      BY <1>1, <1>6 DEF Ends
    <2>2. \A k \in DOMAIN Specs : outcome'[k] \in Ended
      BY <1>1, <1>2, <1>3, <1>4, <1>6
    <2>3. failures' > 0 <=> Blocked' # {}
      BY <1>1, <1>2, <1>3, <1>4 DEF Ends, LoopInv, Blocked, Ended
    <2> QED BY <2>1, <2>2, <2>3 DEF LoopInv, Busy
  <1>7. at < Len(Specs) \/ at = Len(Specs)
    BY <1>1, LastOrNot
  <1> QED BY <1>5, <1>6, <1>7

\* A step within the validation of a table leaves the loop alone.
LEMMA StaysLoop ==
    ASSUME LoopInv, pc \in Busy, pc' \in Busy, UNCHANGED <<at, outcome, failures>>
    PROVE  LoopInv'
  BY DEF LoopInv, Busy, Blocked

LEMMA NextLoop == TypeInv /\ LoopInv /\ [Next]_vars => LoopInv'
  <1> SUFFICES ASSUME TypeInv, LoopInv, [Next]_vars
               PROVE  LoopInv'
    OBVIOUS
  <1>1. CASE Build \/ ReadTable
    BY <1>1, StaysLoop DEF Build, ReadTable, validation, Busy
  <1>2. CASE LoadSuite
    <2>1. pc \in Busy
      BY <1>2 DEF LoadSuite, Busy
    <2>2. \/ Ends("error")
          \/ pc' = "evaluate" /\ UNCHANGED <<at, outcome, failures>>
      BY <1>2 DEF LoadSuite
    <2> QED BY <2>1, <2>2, EndsLoop, StaysLoop DEF Busy, Ended
  <1>3. CASE Evaluate
    <2>1. pc \in Busy
      BY <1>3 DEF Evaluate, Busy
    <2>2. \/ Ends("error")
          \/ pc' = "report" /\ UNCHANGED <<at, outcome, failures>>
      BY <1>3 DEF Evaluate
    <2> QED BY <2>1, <2>2, EndsLoop, StaysLoop DEF Busy, Ended
  <1>4. CASE Report
    BY <1>4, StaysLoop DEF Report, validation, Busy
  <1>5. CASE RecordScore
    BY <1>5, StaysLoop DEF RecordScore, validation, Busy
  <1>6. CASE SendSlack
    <2>1. pc \in Busy
      BY <1>6 DEF SendSlack, Busy
    <2>2. \/ Ends("error")
          \/ pc' = "page" /\ UNCHANGED <<at, outcome, failures>>
      BY <1>6 DEF SendSlack
    <2> QED BY <2>1, <2>2, EndsLoop, StaysLoop DEF Busy, Ended
  <1>7. CASE SendPage
    BY <1>7, StaysLoop DEF SendPage, validation, Busy
  <1>8. CASE Verdict
    <2>1. PICK how \in {"ok", "p1", "soft"} : Ends(how)
      BY <1>8 DEF Verdict
    <2> QED BY <1>8, <2>1, EndsLoop DEF Verdict, Busy, Ended
  <1>9. CASE Exit
    <2>1. pc = "exit" /\ UNCHANGED <<outcome, failures>>
      BY <1>9 DEF Exit
    <2>2. pc' = IF failures > 0 THEN "failed" ELSE "passed"
      BY <1>9 DEF Exit
    <2> QED BY <2>1, <2>2 DEF LoopInv, Busy, Blocked, TypeInv, TypeOK
  <1>10. CASE Breaks
    BY <1>10, EndsLoop DEF Breaks, Busy, Ended
  <1>11. CASE Retry
    <2>1. pc' = "build" /\ at' = 1 /\ failures' = 0
      BY <1>11 DEF Retry
    <2>2. \A k \in DOMAIN Specs : outcome'[k] = "pending" /\ k >= 1
      BY <1>11, SpecsAreASequence DEF Retry
    <2>3. Blocked' = {}
      BY <2>2 DEF Blocked
    <2> QED BY <2>1, <2>2, <2>3 DEF LoopInv, Busy
  <1>12. CASE Dies
    BY <1>12 DEF Dies, validation, LoopInv, Busy, Blocked
  <1>13. CASE UNCHANGED vars
    BY <1>13 DEF vars, validation, LoopInv, Blocked
  <1> QED BY <1>1, <1>2, <1>3, <1>4, <1>5, <1>6, <1>7, <1>8, <1>9, <1>10, <1>11, <1>12, <1>13
          DEF Next, Step

LEMMA InitLoop == Init => LoopInv
  <1> SUFFICES ASSUME Init
               PROVE  LoopInv
    OBVIOUS
  <1>1. \A k \in DOMAIN Specs : outcome[k] = "pending" /\ k >= at
    BY SpecsAreASequence DEF Init
  <1>2. Blocked = {} /\ failures = 0
    BY <1>1 DEF Blocked, Init
  <1>3. pc = "passed" => DOMAIN Specs = {}
    BY DEF Init
  <1> QED BY <1>1, <1>2, <1>3 DEF LoopInv, Busy, Init

(* EveryTableIsTried: an attempt decides only when every table has ended,    *)
(* and it closes the gate exactly if one of them was blocked, for every list *)
(* of tables and whatever raises on the way.                                 *)
THEOREM EveryTableIsTried == Spec => []EveryTableTried
  <1>1. TypeInv /\ LoopInv => EveryTableTried
    BY DEF LoopInv, EveryTableTried, Busy, Blocked, TypeInv, TypeOK
  <1> QED BY <1>1, InitTypes, NextTypes, InitLoop, NextLoop, PTL DEF Spec

-----------------------------------------------------------------------------
(* Scores: five points less are reached whenever the threshold is *)

LEMMA ThresholdIsInt ==
    ASSUME NEW k \in DOMAIN Specs
    PROVE  Threshold(Specs[k]) \in Int
  <1>1. Specs[k].layer \in {"bronze", "silver", "gold"} /\ Specs[k].override \subseteq Nat
    <2>1. Specs[k] \in SuiteConfig
      BY SpecsAreASequence
    <2>2. Specs[k].override \in SUBSET Nat /\ Specs[k].layer \in {"bronze", "silver", "gold"}
      BY <2>1 DEF SuiteConfig
    <2> QED BY <2>2
  <1>2. CASE Specs[k].override \subseteq {0}
    BY <1>1, <1>2 DEF Threshold, DefaultThreshold
  <1>3. CASE ~(Specs[k].override \subseteq {0})
    <2>1. PICK any \in Specs[k].override : TRUE
      BY <1>3
    <2>2. (CHOOSE th \in Specs[k].override : TRUE) \in Specs[k].override
      BY <2>1
    <2> QED BY <1>1, <1>3, <2>2 DEF Threshold
  <1> QED BY <1>2, <1>3

LEMMA FivePointsLess ==
    ASSUME NEW p \in Nat, NEW n \in Nat, NEW th \in Int, p >= th * n
    PROVE  p >= (th - 5) * n
  <1>1. (th - 5) * n = th * n - 5 * n
    OBVIOUS
  <1>2. th * n \in Int /\ 5 * n \in Nat
    OBVIOUS
  <1> QED BY <1>1, <1>2

LEMMA ReachesLess ==
    ASSUME NEW rs, IsFiniteSet(DOMAIN rs), NEW th \in Int, Reaches(rs, th)
    PROVE  Reaches(rs, th - 5)
  <1>1. Total(rs) \in Nat
    BY FS_CardinalityType DEF Total
  <1>2. Passed(rs) \in Nat
    <2>1. {k \in DOMAIN rs : rs[k].success} \subseteq DOMAIN rs
      OBVIOUS
    <2> QED BY <2>1, FS_Subset, FS_CardinalityType DEF Passed
  <1>3. CASE Total(rs) = 0
    BY <1>3 DEF Reaches
  <1>4. CASE Total(rs) # 0
    <2>1. 100 * Passed(rs) \in Nat /\ 100 * Passed(rs) >= th * Total(rs)
      BY <1>2, <1>4 DEF Reaches
    <2> QED BY <1>1, <1>4, <2>1, FivePointsLess DEF Reaches
  <1> QED BY <1>3, <1>4

-----------------------------------------------------------------------------
(* A table that got through was reported healthy by this attempt *)

FiniteInv ==
    /\ IsFiniteSet(DOMAIN suite)
    /\ IsFiniteSet(DOMAIN results)
    /\ \A n \in DOMAIN cache : IsFiniteSet(DOMAIN cache[n])

Healthy(k) ==
    \E r \in reports : /\ r.run = <<attempt, k>>
                       /\ Reaches(r.results, Threshold(Specs[k]) - 5)

ReportInv ==
    /\ pc \in {"score", "slack", "page", "verdict"} => ThisReport \in reports
    /\ RaiseOnFailure => \A k \in DOMAIN Specs : outcome[k] \in {"ok", "soft"} => Healthy(k)

LEMMA NoSuiteIsFinite == IsFiniteSet(DOMAIN <<>>)
  <1>1. DOMAIN <<>> = {}
    OBVIOUS
  <1> QED BY <1>1, FS_EmptySet

LEMMA InitFinite == Init => FiniteInv
  BY NoSuiteIsFinite DEF Init, FiniteInv

LEMMA NextFinite == FiniteInv /\ [Next]_vars => FiniteInv'
  <1> SUFFICES ASSUME FiniteInv, [Next]_vars
               PROVE  FiniteInv'
    OBVIOUS
  <1>1. CASE UNCHANGED <<suite, results, cache>>
    BY <1>1 DEF FiniteInv
  <1>2. CASE ReadTable
    BY <1>2, NoSuiteIsFinite DEF ReadTable, FiniteInv
  <1>3. CASE LoadSuite
    <2>1. results' = results
      BY <1>3 DEF LoadSuite
    <2>2. CASE (\E n \in Cached(Current) : suite' = cache[n]) /\ cache' = cache
      BY <2>1, <2>2 DEF FiniteInv, Cached
    <2>3. CASE /\ SuitePath(Current) \in DOMAIN Files
               /\ suite' = Files[SuitePath(Current)]
               /\ cache' = [n \in DOMAIN cache \cup {Current.name} |->
                              IF n = Current.name THEN Files[SuitePath(Current)] ELSE cache[n]]
      BY <2>1, <2>3, FilesHoldSuites DEF FiniteInv
    <2>4. CASE UNCHANGED <<suite, cache>>
      BY <2>1, <2>4 DEF FiniteInv
    <2> QED BY <1>3, <2>2, <2>3, <2>4 DEF LoadSuite
  <1>4. CASE Evaluate
    <2>1. UNCHANGED <<suite, cache>>
      BY <1>4 DEF Evaluate
    <2>2. DOMAIN SparkResults(suite, table) \subseteq DOMAIN suite
      BY DEF SparkResults
    <2>3. IsFiniteSet(DOMAIN SparkResults(suite, table))
      BY <2>2, FS_Subset DEF FiniteInv
    <2>4. results' = results \/ results' = SparkResults(suite, table)
      BY <1>4 DEF Evaluate
    <2> QED BY <2>1, <2>3, <2>4 DEF FiniteInv
  <1>5. CASE Retry
    BY <1>5, NoSuiteIsFinite DEF Retry, FiniteInv
  <1>6. CASE Report \/ RecordScore \/ SendSlack \/ SendPage \/ Verdict \/ Exit \/ Breaks
           \/ Build \/ Dies
    <2>1. UNCHANGED <<suite, results, cache>>
      BY <1>6 DEF Report, RecordScore, SendSlack, SendPage, Verdict, Exit, Breaks, Build, Dies,
                   validation
    <2> QED BY <2>1, <1>1
  <1>7. CASE UNCHANGED vars
    BY <1>7 DEF vars, validation, FiniteInv
  <1> QED BY <1>2, <1>3, <1>4, <1>5, <1>6, <1>7 DEF Next, Step

\* Reports are only added within an attempt, so what was healthy stays so.
LEMMA HealthyStays ==
    ASSUME reports \subseteq reports', attempt' = attempt, NEW k, Healthy(k)
    PROVE  Healthy(k)'
  BY DEF Healthy

\* A validation that ends without letting its table through.
LEMMA BlockedReport ==
    ASSUME TypeInv, ReportInv, NEW how \in {"p1", "error"}, Ends(how), pc # "passed",
           reports \subseteq reports', attempt' = attempt
    PROVE  ReportInv'
  <1>1. pc' \in {"read", "exit"}
    BY EndsTypes DEF Ended
  <1>2. \A k \in DOMAIN Specs : outcome'[k] = IF k = at THEN how ELSE outcome[k]
    BY DEF Ends, TypeInv, TypeOK
  <1>3. ASSUME RaiseOnFailure, NEW k \in DOMAIN Specs, outcome'[k] \in {"ok", "soft"}
        PROVE  Healthy(k)'
    <2>1. outcome[k] \in {"ok", "soft"}
      BY <1>2, <1>3
    <2>2. Healthy(k)
      BY <1>3, <2>1 DEF ReportInv
    <2> QED BY <2>2, HealthyStays
  <1> QED BY <1>1, <1>3 DEF ReportInv

\* A step within a validation, after which the report of an evaluated table
\* is on record.
LEMMA StaysReport ==
    ASSUME ReportInv, reports \subseteq reports', UNCHANGED <<attempt, outcome>>,
           pc' \in {"score", "slack", "page", "verdict"} => ThisReport' \in reports'
    PROVE  ReportInv'
  <1>1. ASSUME RaiseOnFailure, NEW k \in DOMAIN Specs, outcome'[k] \in {"ok", "soft"}
        PROVE  Healthy(k)'
    <2>1. Healthy(k)
      BY <1>1 DEF ReportInv
    <2> QED BY <2>1, HealthyStays
  <1> QED BY <1>1 DEF ReportInv

\* The report of the table at hand does not change while nothing it is made
\* of does.
LEMMA ReportStays ==
    ASSUME UNCHANGED <<at, attempt, results>>
    PROVE  ThisReport' = ThisReport
  BY DEF ThisReport, Run, MySeverity, Current

LEMMA NextReport == TypeInv /\ FiniteInv /\ ReportInv /\ [Next]_vars => ReportInv'
  <1> SUFFICES ASSUME TypeInv, FiniteInv, ReportInv, [Next]_vars
               PROVE  ReportInv'
    OBVIOUS
  <1>1. CASE Build \/ ReadTable \/ Dies
    BY <1>1, StaysReport DEF Build, ReadTable, Dies, effects
  <1>2. CASE LoadSuite
    <2>1. pc # "passed" /\ reports \subseteq reports' /\ attempt' = attempt
      BY <1>2 DEF LoadSuite, effects
    <2>2. Ends("error") \/ (pc' = "evaluate" /\ outcome' = outcome)
      BY <1>2 DEF LoadSuite
    <2> QED BY <2>1, <2>2, BlockedReport, StaysReport
  <1>3. CASE Evaluate
    <2>1. pc # "passed" /\ reports \subseteq reports' /\ attempt' = attempt
      BY <1>3 DEF Evaluate, effects
    <2>2. Ends("error") \/ (pc' = "report" /\ outcome' = outcome)
      BY <1>3 DEF Evaluate
    <2> QED BY <2>1, <2>2, BlockedReport, StaysReport
  <1>4. CASE Report
    BY <1>4, ReportStays, StaysReport DEF Report, validation
  <1>5. CASE RecordScore
    BY <1>5, ReportStays, StaysReport DEF RecordScore, validation, ReportInv
  <1>6. CASE SendSlack
    <2>1. /\ pc = "slack" /\ reports' = reports
          /\ UNCHANGED <<results, attempt>>
      BY <1>6 DEF SendSlack
    <2>2. Ends("error") \/ (pc' = "page" /\ UNCHANGED <<at, outcome>>)
      BY <1>6 DEF SendSlack
    <2>3. CASE Ends("error")
      BY <2>1, <2>3, BlockedReport
    <2>4. CASE pc' = "page" /\ UNCHANGED <<at, outcome>>
      BY <2>1, <2>4, ReportStays, StaysReport DEF ReportInv
    <2> QED BY <2>2, <2>3, <2>4
  <1>7. CASE SendPage
    BY <1>7, ReportStays, StaysReport DEF SendPage, validation, ReportInv
  <1>8. CASE Verdict
    <2>1. pc = "verdict" /\ UNCHANGED <<reports, attempt>>
      BY <1>8 DEF Verdict, effects
    <2>2. PICK how \in {"ok", "p1", "soft"} :
              /\ how = IF MySeverity = "P3" THEN "ok"
                       ELSE IF RaiseOnFailure /\ MySeverity = "P1" THEN "p1" ELSE "soft"
              /\ Ends(how)
      BY <1>8 DEF Verdict
    <2>3. CASE how = "p1"
      BY <2>1, <2>2, <2>3, BlockedReport
    <2>4. CASE how # "p1"
      <3>1. at \in DOMAIN Specs /\ Threshold(Specs[at]) \in Int
        BY <2>1, AtIsATable, ThresholdIsInt
      <3>2. ASSUME RaiseOnFailure
            PROVE  Reaches(results, Threshold(Specs[at]) - 5)
        <4>1. MySeverity # "P1"
          BY <2>2, <2>4, <3>2
        <4>2. Reaches(results, Threshold(Specs[at]))
              \/ Reaches(results, Threshold(Specs[at]) - 5)
          BY <4>1 DEF MySeverity, Severity, Current
        <4> QED BY <4>2, <3>1, ReachesLess DEF FiniteInv
      <3>3. ThisReport \in reports
        BY <2>1 DEF ReportInv
      <3>4. RaiseOnFailure => Healthy(at)
        BY <3>2, <3>3 DEF Healthy, ThisReport, Run
      <3>5. \A k \in DOMAIN Specs : outcome'[k] = IF k = at THEN how ELSE outcome[k]
        BY <2>2 DEF Ends, TypeInv, TypeOK
      <3>6. ASSUME RaiseOnFailure, NEW k \in DOMAIN Specs, outcome'[k] \in {"ok", "soft"}
            PROVE  Healthy(k)'
        <4>1. Healthy(k)
          BY <3>4, <3>5, <3>6 DEF ReportInv
        <4> QED BY <2>1, <4>1, HealthyStays
      <3>7. pc' \in {"read", "exit"}
        BY <2>1, <2>2, EndsTypes DEF Ended
      <3> QED BY <3>6, <3>7 DEF ReportInv
    <2> QED BY <2>3, <2>4
  <1>9. CASE Exit
    BY <1>9, StaysReport DEF Exit, effects
  <1>10. CASE Breaks
    <2>1. pc # "passed" /\ reports \subseteq reports' /\ attempt' = attempt /\ Ends("error")
      BY <1>10 DEF Breaks, effects
    <2> QED BY <2>1, BlockedReport
  <1>11. CASE Retry
    BY <1>11 DEF Retry, ReportInv
  <1>12. CASE UNCHANGED vars
    <2>1. UNCHANGED <<pc, at, results, reports, attempt, outcome>>
      BY <1>12 DEF vars, validation, effects
    <2> QED BY <2>1, ReportStays, StaysReport DEF ReportInv
  <1> QED BY <1>1, <1>2, <1>3, <1>4, <1>5, <1>6, <1>7, <1>8, <1>9, <1>10, <1>11, <1>12
          DEF Next, Step

LEMMA InitReport == Init => ReportInv
  BY DEF Init, ReportInv

(* OpensOnHealthyTables: if the framework raises on failure, the gate opens  *)
(* only when this attempt reported every table at no more than five points   *)
(* below its threshold, for all suites, thresholds, tables and failures.     *)
THEOREM OpensOnHealthyTables == Spec => []PassMeansHealthy
  <1>1. TypeInv /\ LoopInv /\ ReportInv => PassMeansHealthy
    <2> SUFFICES ASSUME TypeInv, LoopInv, ReportInv, pc = "passed", RaiseOnFailure,
                        NEW k \in DOMAIN Specs
                 PROVE  Healthy(k)
      BY DEF PassMeansHealthy, Healthy
    <2>1. failures = 0 /\ outcome[k] \in Ended
      BY DEF LoopInv, Busy
    <2>2. outcome[k] \notin {"p1", "error"}
      BY <2>1 DEF LoopInv, Blocked
    <2> QED BY <2>1, <2>2 DEF ReportInv, Ended
  <1> QED BY <1>1, InitTypes, NextTypes, InitLoop, NextLoop, InitFinite, NextFinite,
             InitReport, NextReport, PTL DEF Spec

-----------------------------------------------------------------------------
(* How a validation ended and what it reported agree *)

\* Reports are only added within an attempt.
LEMMA ReportedStays ==
    ASSUME reports \subseteq reports', attempt' = attempt, NEW k, NEW sev, Reported(k, sev)
    PROVE  Reported(k, sev)'
  BY DEF Reported

\* What outcome how of table k promises about the report of this attempt.
Matches(k, how) ==
    /\ how = "ok" => Reported(k, "P3")
    /\ how = "soft" => Reported(k, "P2") \/ (Reported(k, "P1") /\ ~RaiseOnFailure)
    /\ how = "p1" => Reported(k, "P1")

LEMMA MatchesStays ==
    ASSUME reports \subseteq reports', attempt' = attempt, NEW k, NEW how, Matches(k, how)
    PROVE  Matches(k, how)'
  <1>1. \A sev \in {"P1", "P2", "P3"} : Reported(k, sev) => Reported(k, sev)'
    BY ReportedStays
  <1> QED BY <1>1 DEF Matches

LEMMA KeepsMatch ==
    ASSUME OutcomeMatchesReport, reports \subseteq reports', UNCHANGED <<attempt, outcome>>
    PROVE  OutcomeMatchesReport'
  <1>1. ASSUME NEW k \in DOMAIN Specs PROVE Matches(k, outcome[k])'
    <2>1. Matches(k, outcome[k])
      BY DEF OutcomeMatchesReport, Matches
    <2>2. PICK how : how = outcome[k]
      OBVIOUS
    <2>3. Matches(k, how)'
      BY <2>1, <2>2, MatchesStays
    <2> QED BY <2>2, <2>3 DEF Matches
  <1> QED BY <1>1 DEF OutcomeMatchesReport, Matches

\* An end of a validation that keeps its promise.
LEMMA EndsMatch ==
    ASSUME TypeInv, OutcomeMatchesReport, NEW how, Ends(how), Matches(at, how),
           reports \subseteq reports', attempt' = attempt
    PROVE  OutcomeMatchesReport'
  <1>1. \A k \in DOMAIN Specs : outcome'[k] = IF k = at THEN how ELSE outcome[k]
    BY DEF Ends, TypeInv, TypeOK
  <1>2. ASSUME NEW k \in DOMAIN Specs PROVE Matches(k, outcome[k])'
    <2>1. PICK h : h = outcome'[k]
      OBVIOUS
    <2>2. Matches(k, h)
      BY <1>1, <2>1 DEF OutcomeMatchesReport, Matches
    <2>3. Matches(k, h)'
      BY <2>2, MatchesStays
    <2> QED BY <2>1, <2>3 DEF Matches
  <1> QED BY <1>2 DEF OutcomeMatchesReport, Matches

LEMMA NextMatch ==
    TypeInv /\ ReportInv /\ OutcomeMatchesReport /\ [Next]_vars => OutcomeMatchesReport'
  <1> SUFFICES ASSUME TypeInv, ReportInv, OutcomeMatchesReport, [Next]_vars
               PROVE  OutcomeMatchesReport'
    OBVIOUS
  <1>1. Matches(at, "error")
    BY DEF Matches
  <1>2. CASE Build \/ ReadTable \/ Report \/ RecordScore \/ SendPage \/ Exit \/ Dies
    <2>1. reports \subseteq reports' /\ UNCHANGED <<attempt, outcome>>
      BY <1>2 DEF Build, ReadTable, Report, RecordScore, SendPage, Exit, Dies, effects
    <2> QED BY <2>1, KeepsMatch
  <1>3. CASE LoadSuite \/ Evaluate \/ SendSlack
    <2>1. reports \subseteq reports' /\ attempt' = attempt
      BY <1>3 DEF LoadSuite, Evaluate, SendSlack, effects
    <2>2. Ends("error") \/ outcome' = outcome
      BY <1>3 DEF LoadSuite, Evaluate, SendSlack
    <2> QED BY <1>1, <2>1, <2>2, KeepsMatch, EndsMatch
  <1>4. CASE Verdict
    <2>1. pc = "verdict" /\ UNCHANGED <<reports, attempt>>
      BY <1>4 DEF Verdict, effects
    <2>2. PICK how \in {"ok", "p1", "soft"} :
              /\ how = IF MySeverity = "P3" THEN "ok"
                       ELSE IF RaiseOnFailure /\ MySeverity = "P1" THEN "p1" ELSE "soft"
              /\ Ends(how)
      BY <1>4 DEF Verdict
    <2>3. Reported(at, MySeverity)
      BY <2>1 DEF ReportInv, Reported, ThisReport, Run
    <2>4. MySeverity \in {"P1", "P2", "P3"}
      BY SeverityIsP DEF MySeverity
    <2>5. Matches(at, how)
      BY <2>2, <2>3, <2>4 DEF Matches
    <2> QED BY <2>1, <2>2, <2>5, EndsMatch
  <1>5. CASE Breaks
    <2>1. reports \subseteq reports' /\ attempt' = attempt /\ Ends("error")
      BY <1>5 DEF Breaks, effects
    <2> QED BY <1>1, <2>1, EndsMatch
  <1>6. CASE Retry
    BY <1>6 DEF Retry, OutcomeMatchesReport
  <1>7. CASE UNCHANGED vars
    <2>1. reports \subseteq reports' /\ UNCHANGED <<attempt, outcome>>
      BY <1>7 DEF vars, effects
    <2> QED BY <2>1, KeepsMatch
  <1> QED BY <1>2, <1>3, <1>4, <1>5, <1>6, <1>7 DEF Next, Step

(* OutcomesAreReported: how main sees a validation end and what its report   *)
(* says agree, for all suites, tables and failures.                          *)
THEOREM OutcomesAreReported == Spec => []OutcomeMatchesReport
  <1>1. Init => OutcomeMatchesReport
    BY DEF Init, OutcomeMatchesReport
  <1> QED BY <1>1, NextMatch, InitTypes, NextTypes, InitFinite, NextFinite,
             InitReport, NextReport, PTL DEF Spec

-----------------------------------------------------------------------------
(* Whoever is alerted finds the report *)

\* An alert is on its way only for a score below the threshold.
AlertInv == AlertsHaveReports /\ (pc \in {"slack", "page"} => MySeverity # "P3")

\* Reports are only added, so an alert sent before keeps its report.
LEMMA NoNewAlert ==
    ASSUME AlertInv, reports \subseteq reports', UNCHANGED <<scores, slacked, paged>>
    PROVE  AlertsHaveReports'
  BY DEF AlertInv, AlertsHaveReports

LEMMA NextAlert ==
    TypeInv /\ ReportInv /\ AlertInv /\ [Next]_vars => AlertInv'
  <1> SUFFICES ASSUME TypeInv, ReportInv, AlertInv, [Next]_vars
               PROVE  AlertInv'
    OBVIOUS
  <1>1. CASE \/ Build \/ ReadTable \/ Report \/ Verdict \/ Exit \/ Dies \/ Retry
             \/ LoadSuite \/ Evaluate
    <2>1. reports \subseteq reports' /\ UNCHANGED <<scores, slacked, paged>>
      BY <1>1 DEF Build, ReadTable, Report, Verdict, Exit, Dies, Retry, LoadSuite, Evaluate, effects
    <2>2. pc' \notin {"slack", "page"}
      BY <1>1 DEF Build, ReadTable, Report, Verdict, Exit, Dies, Retry, LoadSuite, Evaluate, Ends
    <2> QED BY <2>1, <2>2, NoNewAlert DEF AlertInv
  <1>2. CASE RecordScore
    <2>1. /\ pc = "score" /\ UNCHANGED <<at, attempt, results, reports, slacked, paged>>
          /\ scores' \subseteq scores \cup {Run}
          /\ pc' = IF MySeverity = "P3" THEN "verdict" ELSE "slack"
      BY <1>2 DEF RecordScore, validation
    <2>2. \E r \in reports : r.run = Run
      BY <2>1 DEF ReportInv, ThisReport
    <2>3. \A run \in scores' : \E r \in reports : r.run = run
      BY <2>1, <2>2 DEF AlertInv, AlertsHaveReports
    <2>4. MySeverity' = MySeverity
      BY <2>1 DEF MySeverity, Current
    <2> QED BY <2>1, <2>3, <2>4 DEF AlertInv, AlertsHaveReports
  <1>3. CASE SendSlack
    <2>1. /\ pc = "slack" /\ UNCHANGED <<results, reports, scores, paged>>
          /\ slacked' \subseteq slacked \cup {Run}
          /\ pc' = "page" => at' = at
      BY <1>3 DEF SendSlack, Ends
    <2>2. \E r \in reports : r.run = Run /\ r.severity # "P3"
      BY <2>1 DEF ReportInv, AlertInv, ThisReport
    <2>3. \A run \in slacked' : \E r \in reports : r.run = run /\ r.severity # "P3"
      BY <2>1, <2>2 DEF AlertInv, AlertsHaveReports
    <2>4. pc' # "slack"
      BY <1>3 DEF SendSlack, Ends
    <2>5. pc' = "page" => MySeverity' # "P3"
      BY <2>1 DEF AlertInv, MySeverity, Current
    <2> QED BY <2>1, <2>3, <2>4, <2>5 DEF AlertInv, AlertsHaveReports
  <1>4. CASE SendPage
    <2>1. /\ pc = "page" /\ pc' = "verdict" /\ UNCHANGED <<reports, scores, slacked>>
          /\ paged' = paged \/ (MySeverity = "P1" /\ paged' = paged \cup {Run})
      BY <1>4 DEF SendPage
    <2>2. MySeverity = "P1" => \E r \in reports : r.run = Run /\ r.severity = "P1"
      BY <2>1 DEF ReportInv, ThisReport
    <2>3. \A run \in paged' : \E r \in reports : r.run = run /\ r.severity = "P1"
      BY <2>1, <2>2 DEF AlertInv, AlertsHaveReports
    <2> QED BY <2>1, <2>3 DEF AlertInv, AlertsHaveReports
  <1>5. CASE Breaks
    <2>1. /\ reports \subseteq reports' /\ UNCHANGED <<slacked, paged>>
          /\ pc' \notin {"slack", "page"}
      BY <1>5 DEF Breaks, Ends, effects
    <2>2. scores' = scores \/ (pc = "score" /\ scores' \subseteq scores \cup {Run})
      BY <1>5 DEF Breaks, effects
    <2>3. pc = "score" => \E r \in reports : r.run = Run
      BY DEF ReportInv, ThisReport
    <2>4. \A run \in scores' : \E r \in reports' : r.run = run
      BY <2>1, <2>2, <2>3 DEF AlertInv, AlertsHaveReports
    <2> QED BY <2>1, <2>4 DEF AlertInv, AlertsHaveReports
  <1>6. CASE UNCHANGED vars
    BY <1>6 DEF vars, validation, effects, AlertInv, AlertsHaveReports, MySeverity, Current
  <1> QED BY <1>1, <1>2, <1>3, <1>4, <1>5, <1>6 DEF Next, Step

(* AlertsAreReported: whoever is paged or reads Slack or the score table     *)
(* finds the report of that run, whatever raises between the four writes.    *)
THEOREM AlertsAreReported == Spec => []AlertsHaveReports
  <1>1. Init => AlertInv
    BY DEF Init, AlertInv, AlertsHaveReports
  <1>2. AlertInv => AlertsHaveReports
    BY DEF AlertInv
  <1> QED BY <1>1, <1>2, NextAlert, InitTypes, NextTypes, InitFinite, NextFinite,
             InitReport, NextReport, PTL DEF Spec

-----------------------------------------------------------------------------
(* A P1 whose page was skipped is an infrastructure error *)

\* What the outcome how of table k says of its page, if a P1 was reported.
PagedOr(k, how) ==
    Reported(k, "P1") /\ how \in Ended /\ PagerDuty => <<attempt, k>> \in paged \/ how = "error"

Announcing == {"score", "slack", "page", "verdict"}

\* Only the table at hand has a report and no outcome yet, and it is the report of
\* this validation; a P1 comes to the verdict paged for.
PageInv ==
    /\ \A k \in DOMAIN Specs : PagedOr(k, outcome[k])
    /\ \A r \in reports : r.run[1] <= attempt
    /\ \A r \in reports :
          r.run[1] = attempt /\ outcome[r.run[2]] = "pending" /\ pc # "died"
          => pc \in Announcing /\ r = ThisReport
    /\ pc = "verdict" /\ MySeverity = "P1" /\ PagerDuty => Run \in paged

\* What is known of the reports at hand.
LEMMA ReportRuns ==
    ASSUME TypeInv
    PROVE  /\ \A r \in reports : r.run = <<r.run[1], r.run[2]>> /\ r.run[1] \in Nat
                                 /\ r.run[2] \in DOMAIN Specs
           /\ attempt \in Nat
  <1>1. \A x \in RunIds : x = <<x[1], x[2]>> /\ x[1] \in Nat /\ x[2] \in DOMAIN Specs
    BY BoundsAreNaturals DEF RunIds
  <1>2. \A r \in reports : r.run \in RunIds
    BY DEF TypeInv, TypeOK
  <1>3. attempt \in Nat
    BY BoundsAreNaturals DEF TypeInv, TypeOK
  <1> QED BY <1>1, <1>2, <1>3

\* A validation ends as it should.
LEMMA EndsPage ==
    ASSUME TypeInv, PageInv, pc \notin Stopped, NEW how \in Ended, Ends(how), attempt' = attempt,
           reports \subseteq reports', reports' \subseteq reports \cup {ThisReport},
           paged \subseteq paged', NEW here, here = at, PagedOr(here, how)'
    PROVE  PageInv'
  <1>1. at \in DOMAIN Specs /\ pc' \in {"read", "exit"}
    BY AtIsATable, EndsTypes DEF Stopped
  <1>2. \A k \in DOMAIN Specs : outcome'[k] = IF k = at THEN how ELSE outcome[k]
    BY DEF Ends, TypeInv, TypeOK
  <1>3. ThisReport.run = <<attempt, at>> /\ ThisReport.run[1] = attempt /\ ThisReport.run[2] = at
    BY DEF ThisReport, Run
  <1>4. ASSUME NEW k \in DOMAIN Specs PROVE PagedOr(k, outcome[k])'
    <2>1. CASE k = at
      <3>1. outcome'[k] = how /\ k = here
        BY <1>2, <2>1
      <3> QED BY <3>1 DEF PagedOr
    <2>2. CASE k # at
      <3>1. Reported(k, "P1")' => Reported(k, "P1")
        BY <1>3, <2>2 DEF Reported
      <3> QED BY <1>2, <2>2, <3>1 DEF PageInv, PagedOr
    <2> QED BY <2>1, <2>2
  <1>5. \A r \in reports' : r.run[1] <= attempt
    BY <1>3, ReportRuns DEF PageInv
  <1>6. ASSUME NEW r \in reports', r.run[1] = attempt, outcome'[r.run[2]] = "pending"
        PROVE  FALSE
    <2>1. CASE r = ThisReport
      BY <1>1, <1>2, <1>3, <1>6, <2>1 DEF Ended
    <2>2. CASE r \in reports /\ r # ThisReport
      <3>1. r.run[2] \in DOMAIN Specs
        BY <2>2, ReportRuns
      <3>2. outcome[r.run[2]] = "pending"
        BY <1>2, <1>6, <3>1 DEF Ended
      <3> QED BY <1>6, <2>2, <3>2 DEF PageInv, Stopped
    <2> QED BY <2>1, <2>2
  <1> QED BY <1>1, <1>4, <1>5, <1>6 DEF PageInv

\* A step that ends no validation and writes no report.
LEMMA StaysPage ==
    ASSUME TypeInv, PageInv, UNCHANGED <<at, results, outcome, reports, attempt>>,
           paged \subseteq paged', pc \in Announcing /\ pc' # "died" => pc' \in Announcing,
           pc = "died" => pc' = "died",
           pc' = "verdict" /\ MySeverity = "P1" /\ PagerDuty => Run \in paged'
    PROVE  PageInv'
  <1>1. ThisReport' = ThisReport /\ Run' = Run /\ MySeverity' = MySeverity
    BY DEF ThisReport, Run, MySeverity, Current
  <1>2. ASSUME NEW k \in DOMAIN Specs PROVE PagedOr(k, outcome[k])'
    BY DEF PageInv, PagedOr, Reported
  <1> QED BY <1>1, <1>2 DEF PageInv

LEMMA NextPage == TypeInv /\ LoopInv /\ PageInv /\ [Next]_vars => PageInv'
  <1> SUFFICES ASSUME TypeInv, LoopInv, PageInv, [Next]_vars
               PROVE  PageInv'
    OBVIOUS
  <1> USE DEF Announcing, Stopped
  <1>1. PICK here : here = at /\ PagedOr(here, "error")'
    BY DEF PagedOr
  <1>2. pc \in Busy => at \in DOMAIN Specs /\ outcome[at] = "pending"
    <2>1. pc \in Busy => at \in DOMAIN Specs /\ at >= at
      BY AtIsATable DEF Busy
    <2> QED BY <2>1 DEF LoopInv
  <1>3. CASE Build \/ ReadTable \/ Exit \/ Dies
    <2>1. /\ UNCHANGED <<at, outcome, reports, attempt, paged>>
          /\ pc \notin Announcing \/ pc' = "died"
          /\ pc # "died" /\ pc' # "verdict"
      BY <1>3 DEF Build, ReadTable, Exit, Dies, validation, effects
    <2>2. \A k \in DOMAIN Specs : PagedOr(k, outcome[k])'
      BY <2>1 DEF PageInv, PagedOr, Reported
    <2> QED BY <2>1, <2>2 DEF PageInv
  <1>4. CASE LoadSuite \/ Evaluate
    <2>1. /\ pc \in {"load", "evaluate"} /\ UNCHANGED <<reports, attempt, paged>>
          /\ \/ Ends("error")
             \/ pc' \in {"evaluate", "report"} /\ UNCHANGED <<at, outcome>>
      BY <1>4 DEF LoadSuite, Evaluate, effects
    <2>2. CASE Ends("error")
      BY <1>1, <2>1, <2>2, EndsPage DEF Ended
    <2>3. CASE pc' \in {"evaluate", "report"} /\ UNCHANGED <<at, outcome>>
      <3>1. \A k \in DOMAIN Specs : PagedOr(k, outcome[k])'
        BY <2>1, <2>3 DEF PageInv, PagedOr, Reported
      <3> QED BY <2>1, <2>3, <3>1 DEF PageInv
    <2> QED BY <2>1, <2>2, <2>3
  <1>5. CASE Report
    <2>1. /\ pc = "report" /\ pc' = "score" /\ reports' = reports \cup {ThisReport}
          /\ UNCHANGED <<at, results, outcome, attempt, paged>>
      BY <1>5 DEF Report, validation
    <2>2. ThisReport' = ThisReport /\ ThisReport.run = <<attempt, at>>
          /\ ThisReport.run[1] = attempt
      BY <2>1, ReportStays DEF ThisReport, Run
    <2>3. at \in DOMAIN Specs /\ outcome[at] = "pending" /\ attempt \in Nat
      BY <1>2, <2>1, ReportRuns DEF Busy
    <2>4. ASSUME NEW k \in DOMAIN Specs PROVE PagedOr(k, outcome[k])'
      <3>1. CASE k = at
        BY <2>1, <2>3, <3>1 DEF PagedOr, Ended
      <3>2. CASE k # at
        <4>1. Reported(k, "P1")' => Reported(k, "P1")
          BY <2>1, <2>2, <3>2 DEF Reported
        <4> QED BY <2>1, <4>1 DEF PageInv, PagedOr
      <3> QED BY <3>1, <3>2
    <2> QED BY <2>1, <2>2, <2>3, <2>4 DEF PageInv
  <1>6. CASE RecordScore
    <2>1. /\ pc = "score" /\ UNCHANGED <<at, results, outcome, reports, attempt, paged>>
          /\ pc' = IF MySeverity = "P3" THEN "verdict" ELSE "slack"
      BY <1>6 DEF RecordScore, validation
    <2> QED BY <2>1, StaysPage
  <1>7. CASE SendSlack
    <2>1. /\ pc = "slack" /\ UNCHANGED <<results, reports, attempt, paged>>
          /\ \/ Ends("error")
             \/ pc' = "page" /\ UNCHANGED <<at, outcome>>
      BY <1>7 DEF SendSlack
    <2> QED BY <1>1, <2>1, EndsPage, StaysPage DEF Ended
  <1>8. CASE SendPage
    <2>1. /\ pc = "page" /\ pc' = "verdict"
          /\ UNCHANGED <<at, results, outcome, reports, attempt>>
          /\ paged' = IF PagerDuty /\ MySeverity = "P1" THEN paged \cup {Run} ELSE paged
      BY <1>8 DEF SendPage, validation
    <2> QED BY <2>1, StaysPage
  <1>9. CASE Verdict
    <2>1. pc = "verdict" /\ UNCHANGED <<reports, attempt, paged>>
      BY <1>9 DEF Verdict, effects
    <2>2. PICK how \in Ended : Ends(how)
      BY <1>9 DEF Verdict, Ended
    <2>3. ASSUME Reported(at, "P1"), PagerDuty PROVE <<attempt, at>> \in paged
      <3>1. PICK r \in reports : r.run = <<attempt, at>> /\ r.severity = "P1"
        BY <2>3 DEF Reported
      <3>2. outcome[at] = "pending" /\ r.run[1] = attempt /\ r.run[2] = at
        BY <1>2, <2>1, <3>1 DEF Busy
      <3>3. r = ThisReport
        BY <2>1, <3>2 DEF PageInv
      <3>4. MySeverity = "P1"
        BY <3>1, <3>3 DEF ThisReport
      <3> QED BY <2>1, <2>3, <3>4 DEF PageInv, Run
    <2>4. PagedOr(here, how)'
      BY <1>1, <2>1, <2>3 DEF PagedOr, Reported
    <2> QED BY <1>1, <2>1, <2>2, <2>4, EndsPage
  <1>10. CASE Breaks
    <2>1. /\ pc \notin Stopped /\ Ends("error") /\ UNCHANGED <<attempt, paged>>
          /\ reports' \in {reports, reports \cup {ThisReport}}
      BY <1>10 DEF Breaks, effects
    <2> QED BY <1>1, <2>1, EndsPage DEF Ended
  <1>11. CASE Retry
    <2>1. /\ attempt' = attempt + 1 /\ reports' = reports /\ pc' = "build"
          /\ \A k \in DOMAIN Specs : outcome'[k] = "pending"
      BY <1>11 DEF Retry, effects
    <2>2. \A r \in reports : r.run[1] <= attempt /\ r.run[1] \in Nat /\ attempt \in Nat
      BY ReportRuns DEF PageInv
    <2>3. \A r \in reports' : r.run[1] <= attempt' /\ r.run[1] # attempt'
      BY <2>1, <2>2
    <2>4. \A k \in DOMAIN Specs : PagedOr(k, outcome[k])'
      BY <2>1 DEF PagedOr, Ended
    <2> QED BY <2>1, <2>3, <2>4 DEF PageInv
  <1>12. CASE UNCHANGED vars
    <2>1. UNCHANGED <<pc, at, results, outcome, reports, attempt, paged>>
      BY <1>12 DEF vars, validation, effects
    <2> QED BY <2>1, StaysPage DEF PageInv
  <1> QED BY <1>3, <1>4, <1>5, <1>6, <1>7, <1>8, <1>9, <1>10, <1>11, <1>12 DEF Next, Step

(* SkippedPagesFail: whatever raises between the report of a P1 and its page, *)
(* a validation that ends without asking for the page ends as an              *)
(* infrastructure error, for all suites, tables and failures.                 *)
THEOREM SkippedPagesFail == Spec => []UnpagedP1Fails
  <1>1. Init => PageInv
    BY DEF Init, PageInv, PagedOr, Ended
  <1>2. PageInv => UnpagedP1Fails
    BY DEF PageInv, PagedOr, UnpagedP1Fails
  <1> QED BY <1>1, <1>2, NextPage, InitTypes, NextTypes, InitLoop, NextLoop, PTL DEF Spec

-----------------------------------------------------------------------------
(* The two expectation engines *)

\* The tables and the suites the engines are compared on: rows in a sequence,
\* bounds that are integers, alternatives of a pattern in a sequence.
IsTable(t) == Len(t.rows) \in Nat /\ DOMAIN t.rows = 1 .. Len(t.rows)

IsExpectation(e) ==
    /\ e.min \in SUBSET Int /\ e.max \in SUBSET Int
    /\ Len(e.pattern) \in Nat /\ DOMAIN e.pattern = 1 .. Len(e.pattern)

LEMMA RowsAreFinite ==
    ASSUME NEW t, IsTable(t)
    PROVE  /\ IsFiniteSet(Rows(t))
           /\ Cardinality(Rows(t)) = Len(t.rows)
  <1>1. Rows(t) = 1 .. Len(t.rows) /\ Len(t.rows) \in Nat
    BY DEF IsTable, Rows
  <1> QED BY <1>1, FS_Interval

\* A number is not a null.
LEMMA NumericIsNonNull ==
    ASSUME NEW e, NEW t
    PROVE  /\ Numeric(e, t) \in SUBSET NonNull(e, t)
           /\ NonNull(e, t) \in SUBSET Rows(t)
           /\ \A r \in Numeric(e, t) : Number(e, t, r) \in Int
  BY NullIsNotANumber, NumbersAreIntegers
     DEF Numeric, NonNull, Number

\* One null among the rows is one more row and one more distinct value, so it
\* is a duplicate for neither engine; the second one is, for pandas only.
LEMMA OneNullIsNoDuplicate ==
    ASSUME NEW e, NEW t, IsTable(t),
           Cardinality(Rows(t) \ NonNull(e, t)) <= 1
    PROVE  SparkDuplicates(e, t) = PandasDuplicates(e, t)
  <1> DEFINE all == Rows(t)
             some == NonNull(e, t)
             nulls == all \ some
             values == Values(e, t, some)
  <1>1. IsFiniteSet(all) /\ Cardinality(all) = Len(t.rows)
    BY RowsAreFinite
  <1>2. some \in SUBSET all /\ nulls \in SUBSET all
    BY NumericIsNonNull
  <1>3. IsFiniteSet(some) /\ IsFiniteSet(nulls)
    BY <1>1, <1>2, FS_Subset
  <1>4. IsFiniteSet(values)
    <2> DEFINE f == [r \in some |-> t.rows[r][e.column]]
    <2>1. f \in Surjection(some, values)
      BY DEF Values, Surjection
    <2> QED BY <1>3, <2>1, FS_Surjection
  <1>5. Cardinality(some) \in Nat /\ Cardinality(values) \in Nat /\ Cardinality(nulls) \in Nat
    BY <1>3, <1>4, FS_CardinalityType
  <1>6. CASE nulls = {}
    <2>1. some = all
      BY <1>2, <1>6
    <2> QED BY <1>1, <2>1 DEF SparkDuplicates, PandasDuplicates
  <1>7. CASE nulls # {}
    <2>1. PICK r : nulls = {r}
      <3>1. Cardinality(nulls) = 1
        <4>1. Cardinality(nulls) # 0
          BY <1>3, <1>7, FS_EmptySet
        <4>2. Cardinality(nulls) <= 1
          OBVIOUS
        <4> QED BY <1>5, <4>1, <4>2
      <3> QED BY <1>3, <3>1, FS_Singleton
    <2>2. r \notin some /\ all = some \cup {r} /\ r \in all
      BY <1>2, <2>1
    <2>3. t.rows[r][e.column] = Null
      BY <2>2 DEF NonNull
    <2>4. Null \notin values
      BY DEF Values, NonNull
    <2>5. Values(e, t, all) = values \cup {Null}
      BY <2>2, <2>3 DEF Values
    <2>6. Cardinality(all) = Cardinality(some) + 1
      BY <1>3, <2>2, FS_AddElement
    <2>7. Cardinality(Values(e, t, all)) = Cardinality(values) + 1
      BY <1>4, <2>4, <2>5, FS_AddElement
    <2> QED BY <1>1, <1>5, <2>6, <2>7
            DEF SparkDuplicates, PandasDuplicates
  <1> QED BY <1>6, <1>7

\* The rows the two engines call violations of one row-level expectation.
LEMMA SameViolations ==
    ASSUME NEW e, NEW t, IsExpectation(e), Comparable(e, t)
    PROVE  /\ e.type = "in_set" => SparkNotInSet(e, t) = PandasNotInSet(e, t)
           /\ e.type = "between" => SparkOutOfRange(e, t) = PandasOutOfRange(e, t)
           /\ e.type = "regex" => SparkUnmatched(e, t) = PandasUnmatched(e, t)
  <1>1. ASSUME e.type = "in_set"
        PROVE  SparkNotInSet(e, t) = PandasNotInSet(e, t)
    BY <1>1 DEF Comparable, SparkNotInSet
  <1>2. ASSUME e.type = "between"
        PROVE  SparkOutOfRange(e, t) = PandasOutOfRange(e, t)
    BY <1>2, NumericIsNonNull
       DEF Comparable, SparkOutOfRange, PandasOutOfRange
  <1>3. ASSUME e.type = "regex"
        PROVE  SparkUnmatched(e, t) = PandasUnmatched(e, t)
    <2>1. Len(e.pattern) = 1
      BY <1>3 DEF Comparable
    <2>2. DOMAIN e.pattern = 1 .. 1
      BY <2>1 DEF IsExpectation
    <2>3. \A k \in DOMAIN e.pattern : k = 1
      BY <2>2
    <2> QED BY <2>3 DEF SparkUnmatched, PandasUnmatched
  <1> QED BY <1>1, <1>2, <1>3

\* One expectation: the verdicts, type by type.
LEMMA SameVerdict ==
    ASSUME NEW e, NEW t, IsTable(t), IsExpectation(e), Comparable(e, t)
    PROVE  (PandasEvaluates(e, t) /\ PandasHolds(e, t))
           <=> (SparkEvaluates(e) /\ SparkHolds(e, t))
  <1> DEFINE Agreed == (PandasEvaluates(e, t) /\ PandasHolds(e, t))
                       <=> (SparkEvaluates(e) /\ SparkHolds(e, t))
             Types == {"not_null", "between", "in_set", "regex", "unique", "mean", "sum",
                       "row_count", "ordered", "exists", "of_type"}
  <1> USE DEF PandasEvaluates, SparkEvaluates, Dynamic, RowLevel
  <1>1. e.type \in Dynamic => e.column \in Columns(t)
    BY DEF Comparable
  <1>2. CASE e.type = "not_null"
    <2>1. e.mostly = 100
      BY <1>2 DEF Comparable
    <2>2. Cardinality(Rows(t)) = Len(t.rows)
      BY RowsAreFinite
    <2>3. PandasHolds(e, t)
          <=> Enough(Cardinality(Rows(t) \ NonNull(e, t)),
                             Len(t.rows), 100)
      BY <1>2, <2>1 DEF PandasHolds
    <2>4. SparkHolds(e, t)
          <=> Enough(Cardinality(Rows(t) \ NonNull(e, t)),
                             Len(t.rows), 100)
      BY <1>2, <2>2 DEF SparkHolds, SparkViolations,
                        SparkDenominator, SparkMostly
    <2> QED BY <1>1, <1>2, <2>3, <2>4
  <1>3. ASSUME e.type \in {"between", "in_set", "regex"}
        PROVE  Agreed
    <2> DEFINE bad == SparkViolations(e, t)
    <2>1. SparkHolds(e, t)
          <=> Enough(Cardinality(bad),
                             Cardinality(NonNull(e, t)), e.mostly)
      BY <1>3 DEF SparkHolds, SparkDenominator, SparkMostly
    <2>2. PandasHolds(e, t)
          <=> Enough(Cardinality(bad),
                             Cardinality(NonNull(e, t)), e.mostly)
      <3>1. CASE e.type = "in_set"
        <4>1. bad = PandasNotInSet(e, t)
          BY <3>1, SameViolations DEF SparkViolations
        <4> QED BY <3>1, <4>1 DEF PandasHolds
      <3>2. CASE e.type = "between"
        <4>1. bad = PandasOutOfRange(e, t)
          BY <3>2, SameViolations DEF SparkViolations
        <4> QED BY <3>2, <4>1 DEF PandasHolds
      <3>3. CASE e.type = "regex"
        <4>1. bad = PandasUnmatched(e, t)
          BY <3>3, SameViolations DEF SparkViolations
        <4> QED BY <3>3, <4>1 DEF PandasHolds
      <3> QED BY <1>3, <3>1, <3>2, <3>3
    <2> QED BY <1>1, <1>3, <2>1, <2>2
  <1>4. CASE e.type = "unique"
    <2>1. Cardinality(Rows(t) \ NonNull(e, t)) <= 1
      BY <1>4 DEF Comparable
    <2>2. SparkDuplicates(e, t) = PandasDuplicates(e, t)
      BY <2>1, OneNullIsNoDuplicate
    <2> QED BY <1>1, <1>4, <2>2
            DEF PandasHolds, SparkHolds, SparkMostly
  <1>5. CASE e.type = "mean"
    <2>1. Bounded(e) \/ Numeric(e, t) # {}
      BY <1>5 DEF Comparable
    <2> QED BY <1>1, <1>5, <2>1
            DEF PandasHolds, SparkHolds, PandasMeanHolds
  <1>6. CASE e.type = "sum"
    <2>1. Numeric(e, t) # {}
      BY <1>6 DEF Comparable
    <2> QED BY <1>1, <1>6, <2>1 DEF PandasHolds, SparkHolds
  <1>7. ASSUME e.type \in {"row_count", "ordered", "exists"}
        PROVE  Agreed
    BY <1>7 DEF PandasHolds, SparkHolds
  <1>8. CASE e.type = "of_type"
    <2>1. e.want \in PandasTypes <=> e.want \in SparkTypes
      BY <1>8 DEF Comparable
    <2> QED BY <1>8, <2>1 DEF PandasHolds, SparkHolds
  <1>9. ASSUME e.type \notin Types
        PROVE  Agreed
    BY <1>9
  <1> QED BY <1>2, <1>3, <1>4, <1>5, <1>6, <1>7, <1>8, <1>9

\* A whole suite.
LEMMA SameSuiteVerdicts ==
    ASSUME NEW s, NEW t, IsTable(t), \A k \in DOMAIN s : IsExpectation(s[k]),
           SuiteComparable(s, t)
    PROVE  Agree(s, t)
  <1>1. Superseded(s) = {} /\ \A k \in DOMAIN s : Comparable(s[k], t)
    BY DEF SuiteComparable
  <1>2. ~SparkAborts(s, t)
    BY <1>1 DEF SparkAborts, Comparable
  <1>3. DOMAIN PandasResults(s, t) = DOMAIN SparkResults(s, t)
    BY <1>1 DEF PandasResults, SparkResults
  <1>4. ASSUME NEW k \in DOMAIN s
        PROVE  PandasResults(s, t)[k].success <=> SparkResults(s, t)[k].success
    <2> DEFINE e == s[k]
    <2>1. (PandasEvaluates(e, t) /\ PandasHolds(e, t))
          <=> (SparkEvaluates(e) /\ SparkHolds(e, t))
      BY <1>1, <1>4, SameVerdict
    <2>2. PandasResults(s, t)[k] =
            IF PandasEvaluates(e, t) THEN Result(PandasHolds(e, t))
            ELSE Errored
      BY <1>4 DEF PandasResults
    <2>3. SparkResults(s, t)[k] =
            IF SparkEvaluates(e) THEN Result(SparkHolds(e, t))
            ELSE Errored
      BY <1>1, <1>4 DEF SparkResults
    <2>4. CASE PandasEvaluates(e, t) /\ SparkEvaluates(e)
      BY <2>1, <2>2, <2>3, <2>4 DEF Result
    <2>5. CASE ~(PandasEvaluates(e, t) /\ SparkEvaluates(e))
      BY <2>1, <2>2, <2>3, <2>5 DEF Result, Errored
    <2> QED BY <2>4, <2>5
  <1> QED BY <1>2, <1>3, <1>4 DEF Agree

\* The extractor's test for one row of one row-level expectation.
LEMMA OffenderIsViolation ==
    ASSUME NEW e, NEW t, IsExpectation(e), NEW r \in Rows(t), e.type \in RowLevel
    PROVE  Offender(e, t, r) <=> r \in SparkViolations(e, t)
  <1>1. CASE e.type = "between"
    <2>1. Offender(e, t, r)
          <=> \/ r \in NonNull(e, t) \ Numeric(e, t)
              \/ r \in Numeric(e, t) /\ ~Within(Number(e, t, r), e)
      <3>1. r \in Numeric(e, t) => Number(e, t, r) \in Int
        BY NumericIsNonNull
      <3>2. \A m \in e.min \cup e.max : m \in Int
        BY DEF IsExpectation
      <3> QED BY <1>1, <3>1, <3>2 DEF Offender, Within
    <2>2. Numeric(e, t) \in SUBSET NonNull(e, t)
      BY NumericIsNonNull
    <2> QED BY <1>1, <2>1, <2>2 DEF SparkViolations, SparkOutOfRange
  <1>2. CASE e.type # "between"
    BY <1>2 DEF Offender, SparkViolations, RowLevel
  <1> QED BY <1>1, <1>2

LEMMA FlaggedAreViolations ==
    ASSUME NEW s, NEW t, \A k \in DOMAIN s : IsExpectation(s[k])
    PROVE  Flagged(s, t) =
             UNION {SparkViolations(s[k], t) :
                      k \in {j \in DOMAIN s : s[j].type \in RowLevel}}
  <1>1. \A k \in DOMAIN s : s[k].type \in RowLevel =>
            SparkViolations(s[k], t) \in SUBSET Rows(t)
    BY DEF SparkViolations, RowLevel, SparkOutOfRange,
           SparkNotInSet, PandasNotInSet, SparkUnmatched,
           NonNull
  <1>2. \A k \in DOMAIN s : \A r \in Rows(t) : s[k].type \in RowLevel =>
            (Offender(s[k], t, r) <=> r \in SparkViolations(s[k], t))
    BY OffenderIsViolation
  <1> QED BY <1>1, <1>2 DEF Flagged

\* The table and the suite at hand are some table and some suite.
AtHand == IsTable(table) /\ \A k \in DOMAIN suite : IsExpectation(suite[k])

(* EnginesAgree: on every table and every suite outside the listed           *)
(* differences the distributed engine returns the verdicts of the pandas     *)
(* engine, for any number of rows and expectations and whatever the cells    *)
(* denote as numbers and match as text (distributed_dq.py 302-354).          *)
THEOREM EnginesAgree ==
    ASSUME AtHand
    PROVE  SameVerdicts
  BY SameSuiteVerdicts DEF AtHand, SameVerdicts

(* ExtractorNamesTheViolations: the rows the extractor names to an incident  *)
(* are those the aggregate pass counted, again for every table and suite     *)
(* (distributed_dq.py 464-509).                                              *)
THEOREM ExtractorNamesTheViolations ==
    ASSUME AtHand
    PROVE  OffendersAreCounted
  BY FlaggedAreViolations DEF AtHand, OffendersAreCounted
=============================================================================
