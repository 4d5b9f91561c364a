------------------------------ MODULE MotorProofs ------------------------------
(* Proofs about MotorStateMachine and its history: for every configuration,      *)
(* limits of zero and unordered thresholds included, and every set of samples.   *)
EXTENDS MotorHistory, TLAPS

\* The events the machine is given.
LEMMA EventType ==
    ASSUME NEW e \in Events
    PROVE  e.sample \in SampleType
<1>1. DefaultSample \in SampleType
  BY DEF DefaultSample, SampleType
<1>2. CASE \E k : e = EventOf(k)
  BY <1>1, <1>2 DEF EventOf
<1>3. CASE \E s \in Samples : e = SampleEvent(s)
  BY <1>3, SamplesAssumption DEF SampleEvent
<1>4. QED
  BY <1>2, <1>3 DEF Events

\* The counters after a sample are natural numbers.
LEMMA RunType ==
    ASSUME TypeOK, NEW s \in SampleType
    PROVE  /\ OfflineRun(s) \in Nat
           /\ CriticalRun(s) \in Nat
           /\ WarningRun(s) \in Nat
           /\ RecoveryRun(s) \in Nat
BY DEF TypeOK, OfflineRun, CriticalRun, WarningRun, RecoveryRun

\* transition_to and unchanged keep the types of what they assign.
LEMMA TransitionType ==
    ASSUME TypeOK, NEW next \in MotorState, NEW reason \in TransitionReason,
           transition_to(next, reason)
    PROVE  /\ state_' \in MotorState
           /\ warning_count_' \in Nat /\ critical_count_' \in Nat
           /\ recovery_count_' \in Nat /\ offline_count_' \in Nat
           /\ transition' \in [previous : MotorState, current : MotorState,
                               reason : TransitionReason, changed : BOOLEAN]
BY DEF TypeOK, transition_to, reset_counters

LEMMA UnchangedType ==
    ASSUME TypeOK, unchanged
    PROVE  /\ state_' \in MotorState
           /\ transition' \in [previous : MotorState, current : MotorState,
                               reason : TransitionReason, changed : BOOLEAN]
BY DEF TypeOK, unchanged, TransitionReason

---------------------------------------------------------------------------------

\* A step of the machine is one of three things: it changes nothing that is counted,
\* it is a transition, or it counts one more sample.
Idle == UNCHANGED <<state_, warning_count_, critical_count_, recovery_count_, offline_count_, recent>>

Transits ==
    /\ state_' \in MotorState
    /\ warning_count_' = 0 /\ critical_count_' = 0
    /\ recovery_count_' = 0 /\ offline_count_' = 0
    /\ recent' = <<>>

Counts(s) ==
    /\ s \in SampleType
    /\ state_ \in Active
    /\ ~OfflineTrips(s) /\ ~CriticalTrips(s) /\ ~WarningTrips(s) /\ ~RecoveryTrips(s)
    /\ warning_count_' = WarningRun(s)
    /\ critical_count_' = CriticalRun(s)
    /\ recovery_count_' = RecoveryRun(s)
    /\ offline_count_' = OfflineRun(s)
    /\ recent' = Append(recent, s)
    /\ state_' = state_

LEMMA TransitionForgets ==
    ASSUME NEW next \in MotorState, NEW reason, reason # "none",
           NEW e, transition_to(next, reason), Remember(e)
    PROVE  Transits
BY DEF transition_to, reset_counters, Remember, Transits

LEMMA UnchangedIdles ==
    ASSUME NEW e, unchanged, UNCHANGED counters, Remember(e),
           e.kind # "sensor_sample" \/ state_ \notin Active
    PROVE  Idle
BY DEF unchanged, counters, Remember, Idle

LEMMA StepCases ==
    ASSUME TypeOK, NEW e \in Events, handle(e), Remember(e)
    PROVE  Idle \/ Transits \/ (e.kind = "sensor_sample" /\ Counts(e.sample))
<1>1. CASE state_ = "safe_shutdown" /\ unchanged /\ UNCHANGED counters
  BY <1>1, UnchangedIdles DEF Active
<1>2. CASE e.kind = "sensor_sample" /\ handle_sample(e.sample)
  <2>1. CASE state_ \notin Active /\ unchanged /\ UNCHANGED counters
    BY <2>1, UnchangedIdles
  <2>2. CASE \/ transition_to("fault_latched", "sensor_offline")
             \/ transition_to("fault_latched", "critical_reading")
             \/ transition_to("degraded", "warning_persisted")
             \/ transition_to("healthy", "readings_recovered")
    BY <2>2, TransitionForgets DEF MotorState
  <2>3. CASE /\ state_ \in Active
             /\ ~OfflineTrips(e.sample) /\ ~CriticalTrips(e.sample)
             /\ ~WarningTrips(e.sample) /\ ~RecoveryTrips(e.sample)
             /\ warning_count_' = WarningRun(e.sample)
             /\ critical_count_' = CriticalRun(e.sample)
             /\ recovery_count_' = RecoveryRun(e.sample)
             /\ offline_count_' = OfflineRun(e.sample)
             /\ unchanged
    BY <1>2, <2>3, EventType DEF unchanged, Remember, Counts
  <2>4. QED
    BY <1>2, <2>1, <2>2, <2>3 DEF handle_sample
<1>3. CASE e.kind # "sensor_sample" /\ unchanged /\ UNCHANGED counters
  BY <1>3, UnchangedIdles
<1>4. CASE \/ transition_to("safe_shutdown", "shutdown_requested")
           \/ transition_to("fault_latched", "internal_resource_failure")
           \/ transition_to("self_test", "startup_requested")
           \/ transition_to("healthy", "self_test_succeeded")
           \/ transition_to("self_test", "manual_reset")
  BY <1>4, TransitionForgets DEF MotorState
<1>5. QED
  BY <1>1, <1>2, <1>3, <1>4 DEF handle

\* Type correctness of the machine, its counters and the history: every member
\* handle() assigns keeps its type, whatever the event and the configuration.
THEOREM TypeCorrect == HistorySpec => []TypeOK
<1>1. HistoryInit => TypeOK
  <2>1. DefaultSample \in SampleType
    BY DEF DefaultSample, SampleType
  <2>2. [previous |-> "booting", current |-> "booting", reason |-> "none", changed |-> FALSE]
          \in [previous : MotorState, current : MotorState,
               reason : TransitionReason, changed : BOOLEAN]
    BY DEF MotorState, TransitionReason
  <2>3. <<>> \in Seq(SampleType)
    OBVIOUS
  <2>4. HistoryInit => has_sample_ \in BOOLEAN
    BY Zenon DEF HistoryInit, Init
  <2>5. HistoryInit => /\ warning_count_ \in Nat /\ critical_count_ \in Nat
                       /\ recovery_count_ \in Nat /\ offline_count_ \in Nat
                       /\ state_ \in MotorState
    BY DEF HistoryInit, Init, MotorState
  <2>6. QED
    BY <2>1, <2>2, <2>3, <2>4, <2>5, Zenon DEF HistoryInit, Init, TypeOK
<1>2. TypeOK /\ [HistoryNext]_historyVars => TypeOK'
  <2>1. CASE UNCHANGED historyVars
    BY <2>1 DEF historyVars, machineVars, counters, TypeOK
  <2>2. ASSUME TypeOK, NEW e \in Events, handle(e), Remember(e)
        PROVE  TypeOK'
    <3>1. Idle \/ Transits \/ Counts(e.sample)
      BY <2>2, StepCases
    <3>2. /\ warning_count_' \in Nat /\ critical_count_' \in Nat
          /\ recovery_count_' \in Nat /\ offline_count_' \in Nat
          /\ recent' \in Seq(SampleType) /\ state_' \in MotorState
      <4>1. CASE Idle
        BY <2>2, <4>1 DEF Idle, TypeOK
      <4>2. CASE Transits
        BY <4>2 DEF Transits
      <4>3. CASE Counts(e.sample)
        BY <2>2, <4>3, RunType DEF Counts, TypeOK
      <4>4. QED
        BY <3>1, <4>1, <4>2, <4>3
    <3>3. last_sample_' \in SampleType /\ has_sample_' \in BOOLEAN
      BY <2>2, EventType DEF handle, handle_sample, TypeOK
    <3>4. transition' \in [previous : MotorState, current : MotorState,
                           reason : TransitionReason, changed : BOOLEAN]
      <4>1. \/ unchanged
            \/ \E next \in MotorState, reason \in TransitionReason : transition_to(next, reason)
        BY <2>2 DEF handle, handle_sample, MotorState, TransitionReason
      <4>2. QED
        BY <2>2, <4>1, TransitionType, UnchangedType
    <3>5. QED
      BY <3>2, <3>3, <3>4 DEF TypeOK
  <2>3. QED
    BY <2>1, <2>2 DEF HistoryNext
<1>3. QED
  BY <1>1, <1>2, PTL DEF HistorySpec

---------------------------------------------------------------------------------

\* h ends in a run of exactly n members of S.
EndsInRun(h, n, S) ==
    /\ n <= Len(h)
    /\ \A i \in 1 .. Len(h) : i > Len(h) - n => h[i] \in S
    /\ n < Len(h) => h[Len(h) - n] \notin S

\* Appending a sample extends the run or ends it, and the last k samples are in S
\* exactly when the new run is at least k long.
LEMMA RunGrows ==
    ASSUME NEW h \in Seq(SampleType), NEW S, NEW n \in Nat, NEW k \in Nat,
           NEW s \in SampleType, NEW r, r = IF s \in S THEN n + 1 ELSE 0,
           EndsInRun(h, n, S)
    PROVE  LET g == Append(h, s) IN
           /\ EndsInRun(g, r, S)
           /\ (k <= Len(g) /\ \A i \in 1 .. Len(g) : i > Len(g) - k => g[i] \in S) <=> r >= k
<1> DEFINE g == Append(h, s)
<1>1. /\ Len(h) \in Nat /\ Len(g) = Len(h) + 1
      /\ g[Len(g)] = s
      /\ \A i \in 1 .. Len(h) : g[i] = h[i]
  OBVIOUS
<1> HIDE DEF g
<1>2. CASE s \in S
  <2>1. EndsInRun(g, r, S)
    BY <1>1, <1>2 DEF EndsInRun
  <2>2. ASSUME r >= k
        PROVE  k <= Len(g) /\ \A i \in 1 .. Len(g) : i > Len(g) - k => g[i] \in S
    BY <1>1, <1>2, <2>1, <2>2 DEF EndsInRun
  <2>3. ASSUME k <= Len(g), \A i \in 1 .. Len(g) : i > Len(g) - k => g[i] \in S, ~(r >= k)
        PROVE  FALSE
    <3>1. Len(g) - r \in 1 .. Len(g) /\ Len(g) - r > Len(g) - k
      BY <1>1, <1>2, <2>3
    <3>2. g[Len(g) - r] \notin S
      BY <1>1, <1>2, <2>1, <3>1 DEF EndsInRun
    <3>3. QED
      BY <2>3, <3>1, <3>2
  <2>4. QED
    BY <2>1, <2>2, <2>3 DEF g
<1>3. CASE s \notin S
  <2>1. EndsInRun(g, r, S)
    BY <1>1, <1>3 DEF EndsInRun
  <2>2. (k <= Len(g) /\ \A i \in 1 .. Len(g) : i > Len(g) - k => g[i] \in S) <=> r >= k
    BY <1>1, <1>3
  <2>3. QED
    BY <2>1, <2>2 DEF g
<1>4. QED
  BY <1>2, <1>3

Offlines == {s \in SampleType : IsOffline(s)}
Criticals == {s \in SampleType : IsCritical(s)}
Warnings == {s \in SampleType : IsWarning(s)}
Recoveries == {s \in SampleType : IsRecovered(s)}

\* CountersAreRuns in terms of the sets.
CountersEndInRuns ==
    /\ EndsInRun(recent, offline_count_, Offlines)
    /\ EndsInRun(recent, critical_count_, Criticals)
    /\ EndsInRun(recent, warning_count_, Warnings)
    /\ IF state_ = "degraded" THEN EndsInRun(recent, recovery_count_, Recoveries)
                              ELSE recovery_count_ = 0

LEMMA RunsAsSets ==
    ASSUME TypeOK
    PROVE  CountersAreRuns <=> CountersEndInRuns
<1>1. \A i \in 1 .. Len(recent) : recent[i] \in SampleType
  BY DEF TypeOK
<1>2. \A n \in Nat : n < Len(recent) => Len(recent) - n \in 1 .. Len(recent)
  BY DEF TypeOK
<1>3. IsRun(offline_count_, IsOffline) <=> EndsInRun(recent, offline_count_, Offlines)
  BY <1>1, <1>2 DEF IsRun, EndsInRun, Offlines, TypeOK
<1>4. IsRun(critical_count_, IsCritical) <=> EndsInRun(recent, critical_count_, Criticals)
  BY <1>1, <1>2 DEF IsRun, EndsInRun, Criticals, TypeOK
<1>5. IsRun(warning_count_, IsWarning) <=> EndsInRun(recent, warning_count_, Warnings)
  BY <1>1, <1>2 DEF IsRun, EndsInRun, Warnings, TypeOK
<1>6. IsRun(recovery_count_, IsRecovered) <=> EndsInRun(recent, recovery_count_, Recoveries)
  BY <1>1, <1>2 DEF IsRun, EndsInRun, Recoveries, TypeOK
<1>7. QED
  BY <1>3, <1>4, <1>5, <1>6 DEF CountersAreRuns, CountersEndInRuns

\* One more sample, for each of the four counters.
LEMMA CountersGrow ==
    ASSUME TypeOK, CountersEndInRuns, NEW s \in SampleType, state_ \in Active
    PROVE  LET g == Append(recent, s) IN
           /\ EndsInRun(g, OfflineRun(s), Offlines)
           /\ EndsInRun(g, CriticalRun(s), Criticals)
           /\ EndsInRun(g, WarningRun(s), Warnings)
           /\ IF state_ = "degraded" THEN EndsInRun(g, RecoveryRun(s), Recoveries)
                                     ELSE RecoveryRun(s) = 0
<1>1. /\ recent \in Seq(SampleType)
      /\ offline_count_ \in Nat /\ critical_count_ \in Nat
      /\ warning_count_ \in Nat /\ recovery_count_ \in Nat
  BY DEF TypeOK
<1>2. OfflineRun(s) = IF s \in Offlines THEN offline_count_ + 1 ELSE 0
  BY DEF OfflineRun, Offlines, IsOffline
<1>3. CriticalRun(s) = IF s \in Criticals THEN critical_count_ + 1 ELSE 0
  BY DEF CriticalRun, Criticals, IsCritical
<1>4. WarningRun(s) = IF s \in Warnings THEN warning_count_ + 1 ELSE 0
  BY DEF WarningRun, Warnings, IsWarning
<1>5. RecoveryRun(s) = IF s \in Recoveries /\ state_ = "degraded" THEN recovery_count_ + 1 ELSE 0
  BY DEF RecoveryRun, Recoveries, IsRecovered
<1>6. EndsInRun(Append(recent, s), OfflineRun(s), Offlines)
  BY <1>1, <1>2, RunGrows, 0 \in Nat DEF CountersEndInRuns
<1>7. EndsInRun(Append(recent, s), CriticalRun(s), Criticals)
  BY <1>1, <1>3, RunGrows, 0 \in Nat DEF CountersEndInRuns
<1>8. EndsInRun(Append(recent, s), WarningRun(s), Warnings)
  BY <1>1, <1>4, RunGrows, 0 \in Nat DEF CountersEndInRuns
<1>9. CASE state_ = "degraded"
  <2>1. EndsInRun(Append(recent, s), RecoveryRun(s), Recoveries)
    BY <1>1, <1>5, <1>9, RunGrows, 0 \in Nat DEF CountersEndInRuns
  <2>2. QED
    BY <1>6, <1>7, <1>8, <1>9, <2>1
<1>10. CASE state_ # "degraded"
  BY <1>5, <1>6, <1>7, <1>8, <1>10
<1>11. QED
  BY <1>9, <1>10

LEMMA RunsPreserved ==
    ASSUME TypeOK, CountersEndInRuns, NEW e \in Events, handle(e), Remember(e)
    PROVE  CountersEndInRuns'
<1>1. CASE Idle
  BY <1>1 DEF Idle, CountersEndInRuns, EndsInRun, Offlines, Criticals, Warnings, Recoveries
<1>2. CASE Transits
  <2>1. \A S : EndsInRun(<<>>, 0, S)
    BY DEF EndsInRun
  <2>2. QED
    BY <1>2, <2>1 DEF Transits, CountersEndInRuns
<1>3. CASE Counts(e.sample)
  BY <1>3, CountersGrow DEF Counts, CountersEndInRuns
<1>4. QED
  BY <1>1, <1>2, <1>3, StepCases

LEMMA NoRunOverduePreserved ==
    ASSUME TypeOK, NoRunOverdue, NEW e \in Events, handle(e), Remember(e)
    PROVE  NoRunOverdue'
<1>1. CASE Idle
  BY <1>1 DEF Idle, NoRunOverdue
<1>2. CASE Transits
  BY <1>2 DEF Transits, NoRunOverdue
<1>3. CASE Counts(e.sample)
  <2>1. /\ OfflineRun(e.sample) \in Nat /\ CriticalRun(e.sample) \in Nat
        /\ WarningRun(e.sample) \in Nat /\ RecoveryRun(e.sample) \in Nat
    BY <1>3, RunType DEF Counts
  <2>2. /\ config_.offline_samples \in Nat /\ config_.critical_samples \in Nat
        /\ config_.warning_samples \in Nat /\ config_.recovery_samples \in Nat
    BY ConfigAssumption DEF ProtectionConfig
  <2>3. /\ e.sample.online => OfflineRun(e.sample) = 0
        /\ ~e.sample.online => /\ CriticalRun(e.sample) = 0
                               /\ WarningRun(e.sample) = 0
                               /\ RecoveryRun(e.sample) = 0
    BY DEF OfflineRun, CriticalRun, WarningRun, RecoveryRun
  <2>4. QED
    BY <1>3, <2>1, <2>2, <2>3
       DEF Counts, NoRunOverdue, OfflineTrips, CriticalTrips, WarningTrips, RecoveryTrips
<1>4. QED
  BY <1>1, <1>2, <1>3, StepCases

\* The counters stand for the runs of samples they are named after, in every
\* reachable state and for every configuration.
THEOREM CountersCorrect == HistorySpec => []CountersAreRuns
<1>1. HistoryInit => CountersEndInRuns
  BY DEF HistoryInit, Init, CountersEndInRuns, EndsInRun
<1>2. TypeOK /\ CountersEndInRuns /\ [HistoryNext]_historyVars => CountersEndInRuns'
  <2>1. CASE UNCHANGED historyVars
    BY <2>1 DEF historyVars, machineVars, counters, CountersEndInRuns, EndsInRun,
                Offlines, Criticals, Warnings, Recoveries
  <2>2. QED
    BY <2>1, RunsPreserved DEF HistoryNext
<1>3. TypeOK /\ CountersEndInRuns => CountersAreRuns
  BY RunsAsSets
<1>4. QED
  BY <1>1, <1>2, <1>3, TypeCorrect, PTL DEF HistorySpec

\* No run of samples that should have been acted on is still being counted, and
\* nothing is counted outside healthy and degraded.
THEOREM OverdueNever == HistorySpec => []NoRunOverdue
<1>1. HistoryInit => NoRunOverdue
  BY DEF HistoryInit, Init, NoRunOverdue
<1>2. TypeOK /\ NoRunOverdue /\ [HistoryNext]_historyVars => NoRunOverdue'
  <2>1. CASE UNCHANGED historyVars
    BY <2>1 DEF historyVars, machineVars, counters, NoRunOverdue
  <2>2. QED
    BY <2>1, NoRunOverduePreserved DEF HistoryNext
<1>3. QED
  BY <1>1, <1>2, TypeCorrect, PTL DEF HistorySpec

---------------------------------------------------------------------------------

\* The machine's comparisons decide what the policy asks of the last samples.
LEMMA TripsAreVerdicts ==
    ASSUME TypeOK, CountersEndInRuns, NEW s \in SampleType, state_ \in Active
    PROVE  LET h == Append(recent, s) IN
           /\ (OfflineTrips(s) \/ CriticalTrips(s)) <=> Policy!MustLatch(h, s)
           /\ WarningTrips(s) <=> Policy!MustDegrade(h, s)
           /\ RecoveryTrips(s) <=> Policy!MayRecover(h, s)
<1> DEFINE h == Append(recent, s)
           Last(k, S) == k <= Len(h) /\ \A i \in 1 .. Len(h) : i > Len(h) - k => h[i] \in S
<1>1. /\ recent \in Seq(SampleType)
      /\ offline_count_ \in Nat /\ critical_count_ \in Nat
      /\ warning_count_ \in Nat /\ recovery_count_ \in Nat
      /\ \A i \in 1 .. Len(h) : h[i] \in SampleType
  BY DEF TypeOK
<1>2. /\ config_.offline_samples \in Nat /\ config_.critical_samples \in Nat
      /\ config_.warning_samples \in Nat /\ config_.recovery_samples \in Nat
  BY ConfigAssumption DEF ProtectionConfig
<1>3. Last(config_.offline_samples, Offlines) <=> OfflineRun(s) >= config_.offline_samples
  <2>1. OfflineRun(s) = IF s \in Offlines THEN offline_count_ + 1 ELSE 0
    BY DEF OfflineRun, Offlines, IsOffline
  <2>2. QED
    BY <1>1, <1>2, <2>1, RunGrows DEF CountersEndInRuns
<1>4. Last(config_.critical_samples, Criticals) <=> CriticalRun(s) >= config_.critical_samples
  <2>1. CriticalRun(s) = IF s \in Criticals THEN critical_count_ + 1 ELSE 0
    BY DEF CriticalRun, Criticals, IsCritical
  <2>2. QED
    BY <1>1, <1>2, <2>1, RunGrows DEF CountersEndInRuns
<1>5. Last(config_.warning_samples, Warnings) <=> WarningRun(s) >= config_.warning_samples
  <2>1. WarningRun(s) = IF s \in Warnings THEN warning_count_ + 1 ELSE 0
    BY DEF WarningRun, Warnings, IsWarning
  <2>2. QED
    BY <1>1, <1>2, <2>1, RunGrows DEF CountersEndInRuns
<1>6. ASSUME state_ = "degraded"
      PROVE  Last(config_.recovery_samples, Recoveries) <=> RecoveryRun(s) >= config_.recovery_samples
  <2>1. RecoveryRun(s) = IF s \in Recoveries THEN recovery_count_ + 1 ELSE 0
    BY <1>6 DEF RecoveryRun, Recoveries, IsRecovered
  <2>2. QED
    BY <1>1, <1>2, <1>6, <2>1, RunGrows DEF CountersEndInRuns
<1>7. /\ Last(config_.offline_samples, Offlines)
            <=> Policy!LastAll(h, config_.offline_samples, Policy!Offline)
      /\ Last(config_.critical_samples, Criticals)
            <=> Policy!LastAll(h, config_.critical_samples, Policy!Critical)
      /\ Last(config_.warning_samples, Warnings)
            <=> Policy!LastAll(h, config_.warning_samples, Policy!Warning)
      /\ Last(config_.recovery_samples, Recoveries)
            <=> Policy!LastAll(h, config_.recovery_samples, Policy!Recovered)
  <2> HIDE DEF h
  <2> QED
    BY <1>1 DEF Policy!LastAll, Policy!Offline, Policy!Critical, Policy!Warning,
                Policy!Recovered, Offlines, Criticals, Warnings, Recoveries,
                IsOffline, IsCritical, IsWarning, IsRecovered,
                Policy!is_warning, Policy!is_critical, Policy!is_recovered,
                is_warning, is_critical, is_recovered
<1> HIDE DEF Last, h
<1>8. QED
  BY <1>3, <1>4, <1>5, <1>6, <1>7
     DEF OfflineTrips, CriticalTrips, WarningTrips, RecoveryTrips,
         Policy!MustLatch, Policy!MustDegrade, Policy!MayRecover, h

\* A sample the machine is given is one of Samples.
LEMMA SampleGiven ==
    ASSUME NEW e \in Events, e.kind = "sensor_sample"
    PROVE  e.sample \in Samples
<1>1. CASE \E k \in {"startup", "self_test_passed", "reset_requested",
                     "shutdown_requested", "internal_fault"} : e = EventOf(k)
  BY <1>1 DEF EventOf
<1>2. CASE \E s \in Samples : e = SampleEvent(s)
  BY <1>2 DEF SampleEvent
<1>3. QED
  BY <1>1, <1>2 DEF Events

\* transition_to is the policy's Enter.
LEMMA TransitionEnters ==
    ASSUME NEW next, NEW reason, reason # "none", NEW e,
           transition_to(next, reason), Remember(e)
    PROVE  Policy!Enter(next)
BY DEF transition_to, Remember, Policy!Enter

LEMMA JudgeStep ==
    ASSUME TypeOK, CountersEndInRuns, NEW e \in Events, e.kind = "sensor_sample",
           state_ \in Active, handle_sample(e.sample), Remember(e)
    PROVE  Policy!Judge(e.sample)
<1> DEFINE s == e.sample
           h == Append(recent, s)
<1>1. s \in SampleType
  BY EventType
<1>2. /\ (OfflineTrips(s) \/ CriticalTrips(s)) <=> Policy!MustLatch(h, s)
      /\ WarningTrips(s) <=> Policy!MustDegrade(h, s)
      /\ RecoveryTrips(s) <=> Policy!MayRecover(h, s)
  BY <1>1, TripsAreVerdicts
<1>3. (WarningTrips(s) \/ RecoveryTrips(s)) => ~OfflineTrips(s)
  BY DEF WarningTrips, RecoveryTrips, OfflineTrips
<1>4. state_ \in Policy!Judging
  BY DEF Active, Policy!Judging
<1>5. CASE \/ OfflineTrips(s) /\ transition_to("fault_latched", "sensor_offline")
           \/ CriticalTrips(s) /\ transition_to("fault_latched", "critical_reading")
  <2>1. Policy!Enter("fault_latched")
    BY <1>5, TransitionEnters
  <2>2. QED
    BY <1>2, <1>4, <1>5, <2>1 DEF Policy!Judge
<1>6. CASE ~CriticalTrips(s) /\ WarningTrips(s) /\ transition_to("degraded", "warning_persisted")
  <2>1. Policy!Enter("degraded")
    BY <1>6, TransitionEnters
  <2>2. QED
    BY <1>2, <1>3, <1>4, <1>6, <2>1 DEF Policy!Judge
<1>7. CASE ~CriticalTrips(s) /\ RecoveryTrips(s) /\ transition_to("healthy", "readings_recovered")
  <2>1. Policy!Enter("healthy")
    BY <1>7, TransitionEnters
  <2>2. QED
    BY <1>2, <1>3, <1>4, <1>7, <2>1 DEF Policy!Judge
<1>8. CASE /\ ~OfflineTrips(s) /\ ~CriticalTrips(s) /\ ~WarningTrips(s) /\ ~RecoveryTrips(s)
           /\ unchanged
  <2>1. recent' = h /\ state_' = state_
    BY <1>8 DEF unchanged, Remember
  <2>2. QED
    BY <1>2, <1>4, <1>8, <2>1 DEF Policy!Judge
<1>9. QED
  BY <1>5, <1>6, <1>7, <1>8 DEF handle_sample

LEMMA PolicyStep ==
    ASSUME TypeOK, CountersEndInRuns, NEW e \in Events, handle(e), Remember(e)
    PROVE  Policy!Next \/ UNCHANGED Policy!policyVars
<1>1. CASE state_ = "safe_shutdown" /\ unchanged /\ UNCHANGED counters
  BY <1>1, UnchangedIdles DEF Idle, Active, Policy!policyVars
<1>2. CASE e.kind = "sensor_sample" /\ handle_sample(e.sample)
  <2>1. CASE state_ \in Active
    BY <1>2, <2>1, JudgeStep, SampleGiven DEF Policy!Next
  <2>2. CASE state_ \notin Active
    BY <1>2, <2>2, UnchangedIdles DEF handle_sample, Idle, Policy!policyVars
  <2>3. QED
    BY <2>1, <2>2
<1>3. CASE e.kind # "sensor_sample" /\ unchanged /\ UNCHANGED counters
  BY <1>3, UnchangedIdles DEF Idle, Policy!policyVars
<1>4. CASE state_ # "safe_shutdown" /\ transition_to("safe_shutdown", "shutdown_requested")
  BY <1>4, TransitionEnters DEF Policy!Next, Policy!Shutdown
<1>5. CASE state_ # "safe_shutdown" /\ transition_to("fault_latched", "internal_resource_failure")
  BY <1>5, TransitionEnters DEF Policy!Next, Policy!InternalFault
<1>6. CASE state_ = "booting" /\ transition_to("self_test", "startup_requested")
  BY <1>6, TransitionEnters DEF Policy!Next, Policy!Command
<1>7. CASE state_ = "self_test" /\ transition_to("healthy", "self_test_succeeded")
  BY <1>7, TransitionEnters DEF Policy!Next, Policy!Command
<1>8. CASE state_ = "fault_latched" /\ transition_to("self_test", "manual_reset")
  BY <1>8, TransitionEnters DEF Policy!Next, Policy!Command
<1>9. QED
  BY <1>1, <1>2, <1>3, <1>4, <1>5, <1>6, <1>7, <1>8 DEF handle, Acts

\* The machine with its four counters implements the policy stated on the samples,
\* for every configuration and every sequence of events.
THEOREM PolicyImplemented == HistorySpec => ImplementsPolicy
<1>1. HistoryInit => Policy!Init
  BY DEF HistoryInit, Init, Policy!Init
<1>2. TypeOK /\ CountersAreRuns /\ [HistoryNext]_historyVars => [Policy!Next]_(Policy!policyVars)
  <2>1. CASE UNCHANGED historyVars
    BY <2>1 DEF historyVars, machineVars, Policy!policyVars
  <2>2. QED
    BY <2>1, PolicyStep, RunsAsSets DEF HistoryNext
<1>3. QED
  BY <1>1, <1>2, TypeCorrect, CountersCorrect, PTL DEF HistorySpec, ImplementsPolicy, Policy!Spec
=================================================================================
