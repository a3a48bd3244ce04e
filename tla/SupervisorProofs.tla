-------------------------- MODULE SupervisorProofs --------------------------
(***************************************************************************)
(* Proofs about Supervisor: the cap on restarts, the flag and the grace    *)
(* period, for every choice of the durations and of the cap.               *)
(***************************************************************************)
EXTENDS Supervisor, TLAPS

LEMMA Helpers ==
  /\ \A n, m \in Nat : UpTo(n, m) \in Nat /\ UpTo(n, m) <= n
  /\ \A n, m \in Nat : UpTo(n + 1, m) < m => n < m
  /\ \A n \in Nat : Less(n) \in Nat
BY DEF UpTo, Less

LEMMA GovernType ==
  ASSUME TypeOK, Govern
  PROVE  level' \in 0 .. THERM_STEP3
BY SupervisorAssumption DEF TypeOK, Govern

LEMMA InvariantInit == Init => IInv
<1> SUFFICES ASSUME Init PROVE IInv
  OBVIOUS
<1>1. /\ loading \in Nat /\ sinceRestart \in Nat /\ graceIn \in Nat
      /\ consecutive \in 0 .. MaxRestarts /\ level \in 0 .. THERM_STEP3
      /\ age \in Nat /\ futile \in Nat /\ reboots \in Nat /\ strays \in Nat
  BY SupervisorAssumption DEF Init, Uptimes, StartGrace
<1>2. /\ source \in BOOLEAN /\ have \in BOOLEAN /\ due \in BOOLEAN
      /\ was_stale \in BOOLEAN /\ vision_stale \in BOOLEAN /\ temp \in Temps
      /\ stray \in BOOLEAN
  BY DEF Init, Temps
<1>3. FutileCounted
  BY DEF Init, FutileCounted
<1> QED
  BY <1>1, <1>2, <1>3 DEF IInv, TypeOK

LEMMA TickStep ==
  ASSUME IInv, Tick
  PROVE  IInv'
<1>1. /\ loading \in Nat /\ age \in Nat /\ futile \in Nat /\ graceIn \in Nat
      /\ sinceRestart \in Nat /\ StaleAfter \in Nat /\ Spacing \in Nat
      /\ age + 1 \in Nat /\ sinceRestart + 1 \in Nat
  BY SupervisorAssumption DEF IInv, TypeOK
<1>2. loading' \in Nat /\ graceIn' \in Nat /\ sinceRestart' \in Nat
  BY <1>1, Helpers DEF Tick
<1>3. have' \in BOOLEAN /\ age' \in Nat /\ futile' \in Nat
  <2>1. CASE source /\ loading = 0
    BY <2>1 DEF Tick
  <2>2. CASE ~(source /\ loading = 0)
    <3>1. have' = have /\ age' = UpTo(age + 1, StaleAfter) /\ futile' = futile
      BY <2>2 DEF Tick
    <3>2. have \in BOOLEAN
      BY DEF IInv, TypeOK
    <3> QED
      BY <1>1, <3>1, <3>2, Helpers
  <2> QED
    BY <2>1, <2>2
<1>4. TypeOK'
  BY <1>2, <1>3 DEF IInv, TypeOK, Tick, others
<1>5. CASE source /\ loading = 0
  BY <1>4, <1>5 DEF IInv, TypeOK, FutileCounted, Tick
<1>6. CASE ~(source /\ loading = 0)
  <2>1. /\ have' = have /\ futile' = futile /\ consecutive' = consecutive
        /\ age' = UpTo(age + 1, StaleAfter)
    BY <1>6 DEF Tick
  <2>2. age' < StaleAfter => age < StaleAfter
    BY <1>1, <2>1, Helpers
  <2>3. FutileCounted'
    BY <2>1, <2>2 DEF IInv, FutileCounted
  <2> QED
    BY <1>4, <2>3 DEF IInv
<1> QED
  BY <1>5, <1>6

\* The watchdog's half of a pass; the governor's half only moves `level`.
LEMMA PassStep ==
  ASSUME IInv, Pass
  PROVE  IInv'
<1>1. level' \in 0 .. THERM_STEP3 /\ due' = FALSE
      /\ UNCHANGED <<source, have, age, temp, reboots, strays>>
  BY GovernType DEF IInv, Pass
<1>2. /\ loading \in Nat /\ futile \in Nat /\ age \in Nat
      /\ LoadTime \in Nat /\ Grace \in Nat /\ MaxRestarts \in Nat /\ StaleAfter \in Nat
      /\ consecutive \in 0 .. MaxRestarts
      /\ futile + 1 \in Nat /\ MaxRestarts + 1 \in Nat
  BY SupervisorAssumption DEF IInv, TypeOK
<1>3. ASSUME NEW accepted \in BOOLEAN, Restart(accepted)
      PROVE  IInv'
  <2>1. /\ consecutive' \in 0 .. MaxRestarts /\ loading' \in Nat /\ futile' \in Nat
        /\ futile <= consecutive => futile' <= consecutive'
    <3>1. CASE accepted
      <4>1. /\ consecutive' = consecutive + 1 /\ consecutive < MaxRestarts
            /\ loading' = LoadTime /\ futile' = UpTo(futile + 1, MaxRestarts + 1)
        BY <1>3, <3>1 DEF Restart
      <4>2. futile' \in Nat /\ futile' <= futile + 1
        BY <1>2, <4>1, Helpers
      <4> QED
        BY <1>2, <4>1, <4>2
    <3>2. CASE ~accepted
      BY <1>2, <1>3, <3>2 DEF Restart
    <3> QED
      BY <3>1, <3>2
  <2>2. have => age >= StaleAfter
    BY <1>3 DEF Restart, Stale
  <2>3. TypeOK'
    BY <1>1, <1>2, <1>3, <2>1 DEF IInv, TypeOK, Restart
  <2>4. FutileCounted'
    BY <1>1, <1>2, <2>1, <2>2 DEF IInv, FutileCounted
  <2> QED
    BY <2>3, <2>4 DEF IInv
<1>4. CASE HoldOff \/ Patient
  BY <1>1, <1>4 DEF IInv, TypeOK, FutileCounted, HoldOff, Patient, watchdog
<1>5. CASE Healthy
  <2>1. have => age < StaleAfter
    BY <1>2, <1>5 DEF Healthy, Stale
  <2>2. TypeOK'
    <3>1. /\ consecutive' = 0 /\ was_stale' = FALSE /\ vision_stale' = FALSE
          /\ UNCHANGED <<loading, graceIn, sinceRestart, futile, stray>>
      BY <1>5 DEF Healthy
    <3>2. 0 \in 0 .. MaxRestarts
      BY <1>2
    <3> QED
      BY <1>1, <3>1, <3>2 DEF IInv, TypeOK
  <2>3. FutileCounted'
    BY <1>1, <1>5, <2>1 DEF IInv, FutileCounted, Healthy
  <2> QED
    BY <2>2, <2>3 DEF IInv
<1> QED
  BY <1>3, <1>4, <1>5 DEF Pass

LEMMA InvariantStep == IInv /\ [Next]_vars => IInv'
<1> SUFFICES ASSUME IInv, [Next]_vars PROVE IInv'
  OBVIOUS
<1>1. CASE SourceChanges
  BY <1>1 DEF IInv, TypeOK, FutileCounted, SourceChanges, watchdog, others
<1>2. CASE TemperatureChanges
  BY <1>2 DEF IInv, TypeOK, FutileCounted, TemperatureChanges, watchdog, detector, others
<1>5. CASE DetectorRestarts
  <2>1. /\ strays' \in Nat /\ loading' \in Nat /\ stray' \in BOOLEAN
        /\ UNCHANGED <<source, have, age, due, watchdog, temp, level, reboots>>
    BY <1>5, SupervisorAssumption DEF IInv, TypeOK, DetectorRestarts
  <2> QED
    BY <2>1 DEF IInv, TypeOK, FutileCounted, watchdog
<1>3. CASE Reboot
  <2>1. /\ graceIn' \in Nat /\ sinceRestart' \in Nat /\ reboots' \in Nat
        /\ consecutive' \in 0 .. MaxRestarts /\ level' \in 0 .. THERM_STEP3
        /\ futile' = 0 /\ futile' <= consecutive'
    BY <1>3, SupervisorAssumption DEF IInv, TypeOK, Reboot, Uptimes, StartGrace
  <2>2. /\ due' = FALSE /\ was_stale' = FALSE /\ vision_stale' = FALSE
        /\ stray' = FALSE
        /\ UNCHANGED <<source, loading, have, age, temp, strays>>
    BY <1>3 DEF Reboot, detector
  <2> QED
    BY <2>1, <2>2 DEF IInv, TypeOK, FutileCounted
<1>4. CASE UNCHANGED vars
  BY <1>4 DEF IInv, TypeOK, FutileCounted, vars, watchdog, detector, others
<1> QED
  BY <1>1, <1>2, <1>3, <1>4, <1>5, TickStep, PassStep DEF Next

-----------------------------------------------------------------------------
\* Every variable keeps its type.
THEOREM TypeCorrect == Spec => []TypeOK
<1>1. IInv => TypeOK
  BY DEF IInv
<1> QED
  BY <1>1, InvariantInit, InvariantStep, PTL DEF Spec

\* Once some real frame was seen, the watchdog makes at most MaxRestarts
\* restarts without a new one (events.c:334-336), for any stale threshold,
\* grace period, spacing and load time.
THEOREM RestartCap == Spec => []RestartsBounded
<1>1. IInv => RestartsBounded
  BY SupervisorAssumption DEF IInv, TypeOK, FutileCounted, RestartsBounded
<1> QED
  BY <1>1, InvariantInit, InvariantStep, PTL DEF Spec

-----------------------------------------------------------------------------
(***************************************************************************)
(* The flag.                                                               *)
(***************************************************************************)
LEMMA FlagStep ==
  ASSUME TypeOK, Grace > 0, FlagTellsAge, [Next]_vars
  PROVE  FlagTellsAge'
<1>1. age \in Nat /\ StaleAfter \in Nat /\ graceIn \in Nat /\ Grace \in Nat
  BY SupervisorAssumption DEF TypeOK
<1>2. CASE Tick
  BY <1>2 DEF Tick, FlagTellsAge
<1>3. CASE Reboot
  BY <1>1, <1>3 DEF Reboot, StartGrace, FlagTellsAge, detector
<1>4. CASE Pass
  <2>1. UNCHANGED <<have, age>>
    BY <1>4 DEF Pass
  <2>2. ASSUME NEW accepted \in BOOLEAN, Restart(accepted)
        PROVE  FlagTellsAge'
    BY <1>1, <2>1, <2>2 DEF Restart, Stale, FlagTellsAge
  <2>3. CASE HoldOff
    BY <1>1, <2>1, <2>3 DEF HoldOff, Stale, FlagTellsAge
  <2>4. CASE Healthy
    BY <1>1, <2>1, <2>4 DEF Healthy, Stale, FlagTellsAge
  <2>5. CASE Patient
    BY <1>1, <2>1, <2>5 DEF Patient, Stale, GraceOver, FlagTellsAge, watchdog
  <2> QED
    BY <1>4, <2>2, <2>3, <2>4, <2>5 DEF Pass
<1>5. CASE SourceChanges \/ TemperatureChanges \/ DetectorRestarts \/ UNCHANGED vars
  BY <1>5 DEF SourceChanges, TemperatureChanges, DetectorRestarts, FlagTellsAge, vars, detector, watchdog
<1> QED
  BY <1>2, <1>3, <1>4, <1>5 DEF Next

\* state_set_vision_stale is called whenever the age has crossed the threshold
\* (events.c:332, 401), whatever the temperature, the restarts of the daemon and
\* the refusals of systemd, if there is a grace period at all.
THEOREM FlagIsTrue == Grace > 0 => (Spec => []FlagTellsAge)
<1> SUFFICES ASSUME Grace > 0 PROVE Spec => []FlagTellsAge
  OBVIOUS
<1>1. Init => FlagTellsAge
  BY DEF Init, FlagTellsAge
<1>2. FlagTellsAge /\ TypeOK /\ [Next]_vars => FlagTellsAge'
  BY FlagStep
<1> QED
  BY <1>1, <1>2, TypeCorrect, PTL DEF Spec

-----------------------------------------------------------------------------
(***************************************************************************)
(* The grace period.                                                       *)
(***************************************************************************)
LEMMA GraceTick ==
  ASSUME TypeOK, GraceCovers, Tick
  PROVE  GraceCovers'
<1>1. /\ loading \in Nat /\ graceIn \in Nat /\ Grace \in Nat /\ LoadTime \in Nat
      /\ age \in Nat /\ StaleAfter \in Nat
  BY SupervisorAssumption DEF TypeOK
<1>2. loading' = Less(loading) /\ graceIn' = Less(graceIn) /\ stray' = stray
  BY DEF Tick, others
<1>3. loading' \in Nat /\ loading' <= LoadTime /\ graceIn' <= Grace
  BY <1>1, <1>2 DEF Less, GraceCovers
<1>4. loading <= graceIn => loading' <= graceIn'
  BY <1>1, <1>2 DEF Less
<1>5. CASE loading = 0
  <2>1. loading' = 0 /\ graceIn' \in Nat
    BY <1>1, <1>2, <1>5 DEF Less
  <2> QED
    BY <1>3, <2>1 DEF GraceCovers
<1>6. CASE loading > 0 /\ have /\ age + loading <= StaleAfter
  <2>1. have' /\ age' = UpTo(age + 1, StaleAfter) /\ loading' = loading - 1
    <3>1. ~(source /\ loading = 0)
      BY <1>6
    <3>2. have' = have /\ age' = UpTo(age + 1, StaleAfter)
      BY <3>1, Zenon DEF Tick
    <3>3. loading' = loading - 1
      BY <1>1, <1>2, <1>6 DEF Less
    <3> QED
      BY <1>6, <3>2, <3>3, Zenon
  <2>2. age' <= age + 1 /\ age' \in Nat
    BY <1>1, <2>1 DEF UpTo
  <2>3. age' + loading' <= StaleAfter
    BY <1>1, <1>6, <2>1, <2>2
  <2> QED
    BY <1>3, <1>6, <2>1, <2>3 DEF GraceCovers
<1> QED
  BY <1>1, <1>2, <1>3, <1>4, <1>5, <1>6 DEF GraceCovers

LEMMA GraceStep ==
  ASSUME TypeOK, LoadTime <= Grace, GraceCovers, [Next]_vars
  PROVE  GraceCovers'
<1>1. /\ loading \in Nat /\ graceIn \in Nat /\ Grace \in Nat /\ LoadTime \in Nat
      /\ loading <= LoadTime /\ graceIn <= Grace
  BY SupervisorAssumption DEF TypeOK, GraceCovers
<1>2. CASE Tick
  BY <1>2, GraceTick
<1>3. CASE Pass
  <2>1. ASSUME NEW accepted \in BOOLEAN, Restart(accepted)
        PROVE  GraceCovers'
    <3>1. graceIn' = Grace /\ loading' \in {loading, LoadTime}
      BY <2>1 DEF Restart
    <3> QED
      BY <1>1, <3>1 DEF GraceCovers
  <2>2. CASE HoldOff \/ Healthy \/ Patient
    BY <1>3, <2>2 DEF Pass, HoldOff, Healthy, Patient, GraceCovers, watchdog
  <2> QED
    BY <1>3, <2>1, <2>2 DEF Pass
<1>4. CASE Reboot
  BY <1>1, <1>4 DEF Reboot, StartGrace, GraceCovers, detector
<1>5. CASE DetectorRestarts
  <2>1. /\ loading' = LoadTime /\ stray' = ~Covered
        /\ UNCHANGED <<have, age, graceIn>>
    BY <1>5 DEF DetectorRestarts, watchdog
  <2>2. stray' \/ LoadTime <= graceIn \/ (have /\ age + LoadTime <= StaleAfter)
    BY <2>1, Zenon DEF Covered
  <2> QED
    BY <1>1, <2>1, <2>2 DEF GraceCovers
<1>6. CASE SourceChanges \/ TemperatureChanges \/ UNCHANGED vars
  BY <1>6 DEF SourceChanges, TemperatureChanges, GraceCovers, vars, detector, watchdog, others
<1> QED
  BY <1>2, <1>3, <1>4, <1>5, <1>6 DEF Next

\* No watchdog disturbs a detector that loads, if loading takes no longer than
\* the grace period ("a few seconds", events.c:310-312, against 45), and if the
\* detector was not restarted by others outside a grace period and with less time
\* than that until its last real frame is old (api.c:351-358 sets no period).
THEOREM LoadsInPeace == LoadTime <= Grace => (Spec => LoadsUndisturbed)
<1> SUFFICES ASSUME LoadTime <= Grace PROVE Spec => LoadsUndisturbed
  OBVIOUS
<1>1. Init => GraceCovers
  BY SupervisorAssumption DEF Init, StartGrace, GraceCovers
<1>2. GraceCovers /\ TypeOK /\ [Next]_vars => GraceCovers'
  BY GraceStep
<1>3. GraceCovers /\ TypeOK /\ [Next]_vars =>
        [consecutive' > consecutive \/ (vision_stale' /\ ~vision_stale)
           => loading = 0 \/ stray]_vars
  <2> SUFFICES ASSUME GraceCovers, TypeOK, [Next]_vars,
                      consecutive' > consecutive \/ (vision_stale' /\ ~vision_stale)
               PROVE  loading = 0 \/ stray
    OBVIOUS
  <2>1. /\ consecutive \in Nat /\ loading \in Nat /\ age \in Nat
        /\ StaleAfter \in Nat
    BY SupervisorAssumption DEF TypeOK
  <2>2. Pass
    BY <2>1 DEF Next, SourceChanges, TemperatureChanges, DetectorRestarts, Tick, Reboot, vars, watchdog
  <2>3. GraceOver /\ Stale
    BY <2>1, <2>2 DEF Pass, Restart, HoldOff, Healthy, Patient, watchdog
  <2>4. have => age >= StaleAfter
    BY <2>3 DEF Stale
  <2> QED
    BY <2>1, <2>3, <2>4 DEF GraceOver, GraceCovers
<1> QED
  BY <1>1, <1>2, <1>3, TypeCorrect, PTL DEF Spec, LoadsUndisturbed
=============================================================================
