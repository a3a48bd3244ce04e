----------------------------- MODULE Supervisor -----------------------------
(***************************************************************************)
(* The supervisor thread (supervisor_loop in events.c): the watchdog that  *)
(* restarts the detector when no frame with real capture input arrives,    *)
(* and the thermal governor, both evaluated once per pass.                 *)
(*                                                                         *)
(* Time is counted in passes (nap(5.0)) and kept as distances from now, no *)
(* further than matters.  A nap and the pass after it take a little more   *)
(* than five seconds together: what is n passes old is older than 5 n      *)
(* seconds.  Around the thread: the capture source, which comes and goes,  *)
(* the detector, which needs a while to load its model after a restart,    *)
(* whoever restarts it, the temperature, and systemd, which may refuse.    *)
(***************************************************************************)
EXTENDS Integers

CONSTANTS
  StaleAfter,   \* watchdog_stale_sec
  Grace,        \* 45 s after the start and after each restart
  Spacing,      \* 60 s between two restarts
  MaxRestarts,  \* five
  LoadTime,     \* the detector's start-up, until it can publish real frames
  THERM_STEP3,  \* the top of the thermal ladder
  MaxReboots,   \* bound: restarts of the daemon
  MaxStrays     \* bound: restarts of the detector by others than the watchdog

ASSUME SupervisorAssumption ==
  /\ StaleAfter \in Nat /\ Grace \in Nat /\ Spacing \in Nat
  /\ MaxRestarts \in Nat
  /\ LoadTime \in Nat
  /\ THERM_STEP3 \in Nat
  /\ MaxReboots \in Nat /\ MaxStrays \in Nat

VARIABLES
  source,        \* the capture host is connected
  loading,       \* passes until the detector publishes again
  have,          \* some real frame was ever published (last_real_ts # 0)
  age,           \* of the last real frame
  due,           \* the nap is over
  graceIn,       \* passes until now > grace_until
  sinceRestart,  \* now - last_restart
  consecutive,   \* consecutive_restarts
  was_stale,
  vision_stale,  \* the flag in the state record
  temp,          \* "unknown", or where it lies between the two thresholds
  level,         \* thermal_level
  futile,        \* history: accepted restarts since the last real frame
  reboots,       \* restarts of the daemon so far
  stray,         \* history: somebody else restarted the detector, and nothing covers its loading
  strays         \* such restarts so far, covered or not

detector == <<source, loading, have, age>>
watchdog == <<graceIn, sinceRestart, consecutive, was_stale, vision_stale, futile>>
others == <<stray, strays>>
vars == <<detector, due, watchdog, temp, level, reboots, others>>

Temps == {"unknown", "low", "between", "high"}
UpTo(n, max) == IF n < max THEN n ELSE max
Less(n) == IF n > 0 THEN n - 1 ELSE 0

-----------------------------------------------------------------------------
(***************************************************************************)
(* The surroundings.                                                       *)
(***************************************************************************)
SourceChanges ==
  /\ source' = ~source
  /\ UNCHANGED <<loading, have, age, due, watchdog, temp, level, reboots, others>>

TemperatureChanges ==
  /\ \E t \in Temps \ {temp} : temp' = t
  /\ UNCHANGED <<detector, due, watchdog, level, reboots, others>>

\* Loading that begins now ends before the watchdog may act: within the grace
\* period, or before the last real frame is old.
Covered == LoadTime <= graceIn \/ (have /\ age + LoadTime <= StaleAfter)

\* The detector dies and systemd starts it again (Restart=always), or the API's
\* restart_vision command does: no grace period is set for it.
DetectorRestarts ==
  /\ strays < MaxStrays
  /\ strays' = strays + 1
  /\ loading' = LoadTime
  /\ stray' = ~Covered
  /\ UNCHANGED <<source, have, age, due, watchdog, temp, level, reboots>>

\* One nap.  A detector that has loaded and has its source publishes real
\* frames meanwhile; otherwise the last one ages.
Tick ==
  /\ ~due
  /\ due' = TRUE
  /\ loading' = Less(loading)
  /\ IF source /\ loading = 0
     THEN have' = TRUE /\ age' = 0 /\ futile' = 0
     ELSE have' = have /\ age' = UpTo(age + 1, StaleAfter) /\ futile' = futile
  /\ graceIn' = Less(graceIn)
  /\ sinceRestart' = UpTo(sinceRestart + 1, Spacing)
  /\ UNCHANGED <<source, consecutive, was_stale, vision_stale, temp, level, reboots, others>>

-----------------------------------------------------------------------------
(***************************************************************************)
(* One pass of supervisor_loop.                                            *)
(***************************************************************************)
GraceOver == graceIn = 0

\* Mutant: nothing is stale during the grace period.
StaleOutsideGrace == GraceOver /\ (have => age >= StaleAfter)

Stale == IF have THEN age >= StaleAfter ELSE GraceOver

\* sdctl_restart_unit succeeds or is refused; the alerts go out either way.
Restart(accepted) ==
  /\ Stale /\ GraceOver
  /\ sinceRestart >= Spacing /\ consecutive < MaxRestarts
  /\ vision_stale' = TRUE
  /\ was_stale' = TRUE
  /\ sinceRestart' = 0
  /\ graceIn' = Grace
  /\ stray' = FALSE
  /\ IF accepted
     THEN /\ consecutive' = consecutive + 1
          /\ loading' = LoadTime
          /\ futile' = UpTo(futile + 1, MaxRestarts + 1)
     ELSE UNCHANGED <<consecutive, loading, futile>>

HoldOff ==
  /\ Stale /\ GraceOver
  /\ sinceRestart < Spacing \/ consecutive >= MaxRestarts
  /\ vision_stale' = TRUE
  /\ was_stale' = TRUE
  /\ UNCHANGED <<loading, graceIn, sinceRestart, consecutive, futile, stray>>

\* Mutant: the count of restarts is never cleared.
HealthyKeepsCount ==
  /\ ~Stale
  /\ vision_stale' = FALSE
  /\ was_stale' = FALSE
  /\ UNCHANGED <<loading, graceIn, sinceRestart, consecutive, futile, stray>>

Healthy ==
  /\ ~Stale
  /\ vision_stale' = FALSE
  /\ was_stale' = FALSE
  /\ consecutive' = 0
  /\ UNCHANGED <<loading, graceIn, sinceRestart, futile, stray>>

Patient ==
  /\ Stale /\ ~GraceOver
  /\ UNCHANGED <<loading, watchdog, stray>>

\* Mutant: the governor steps past the end of its ladder.
GovernPastTop ==
  level' = CASE temp = "high" -> level + 1
             [] temp = "low" /\ level > 0 -> level - 1
             [] OTHER -> level

Govern ==
  level' = CASE temp = "high" /\ level < THERM_STEP3 -> level + 1
             [] temp = "low" /\ level > 0 -> level - 1
             [] OTHER -> level

Pass ==
  /\ due
  /\ due' = FALSE
  /\ \/ \E accepted \in BOOLEAN : Restart(accepted)
     \/ HoldOff
     \/ Healthy
     \/ Patient
  /\ Govern
  /\ UNCHANGED <<source, have, age, temp, reboots, strays>>

\* last_restart = 0.0 makes sinceRestart the uptime of the board.
Uptimes == {0, Spacing}

\* Mutant: the daemon starts without a grace period.
NoGrace == 0

StartGrace == Grace

\* The daemon restarts; the detector and the segment go on.  The count that it
\* keeps is gone, and with it the history that is compared to the count.
Reboot ==
  /\ reboots < MaxReboots
  /\ reboots' = reboots + 1
  /\ due' = FALSE
  /\ graceIn' = StartGrace /\ sinceRestart' \in Uptimes
  /\ consecutive' = 0 /\ was_stale' = FALSE /\ vision_stale' = FALSE
  /\ level' = 0
  /\ futile' = 0 /\ stray' = FALSE
  /\ UNCHANGED <<detector, temp, strays>>

-----------------------------------------------------------------------------
Init ==
  /\ source \in BOOLEAN /\ loading \in {0, LoadTime}
  /\ have = FALSE /\ age = 0
  /\ due = FALSE
  /\ graceIn = StartGrace /\ sinceRestart \in Uptimes
  /\ consecutive = 0 /\ was_stale = FALSE /\ vision_stale = FALSE
  /\ temp = "between" /\ level = 0
  /\ futile = 0 /\ reboots = 0 /\ stray = FALSE /\ strays = 0

Next == SourceChanges \/ TemperatureChanges \/ DetectorRestarts \/ Tick \/ Pass \/ Reboot

Spec == Init /\ [][Next]_vars /\ WF_vars(Tick) /\ WF_vars(Pass)

-----------------------------------------------------------------------------
\* Every variable has its type; the level stays on the ladder.
TypeOK ==
  /\ source \in BOOLEAN /\ have \in BOOLEAN /\ due \in BOOLEAN
  /\ loading \in Nat /\ age \in Nat
  /\ graceIn \in Nat /\ sinceRestart \in Nat
  /\ consecutive \in 0 .. MaxRestarts
  /\ was_stale \in BOOLEAN /\ vision_stale \in BOOLEAN
  /\ temp \in Temps
  /\ level \in 0 .. THERM_STEP3
  /\ futile \in Nat /\ reboots \in Nat
  /\ stray \in BOOLEAN /\ strays \in Nat

\* "Stop trying after five consecutive failures so a permanently unplugged
\* camera does not thrash the board" (events.c:334-336), for a camera that has
\* delivered some frame: without a new one there are no more restarts in one
\* life of the daemon (the count does not outlive it).
RestartsBounded == have => futile <= MaxRestarts

\* The same without the exception.
RestartsAlwaysBounded == futile <= MaxRestarts

\* A source that is lost for good ends in a stale flag that stays up, through
\* restarts, refusals, grace periods and giving up; one that is back for good
\* clears the flag and the restart count, even after the watchdog has given up:
\* its restarts do not keep the detector from loading.
SourceReported ==
  /\ <>[](~source /\ have) => <>[]vision_stale
  /\ <>[]source => <>[](~vision_stale /\ consecutive = 0)

\* The grace period is there to "let it load the model" (events.c:389): a
\* detector that is still loading is neither restarted nor reported as stale,
\* whether the watchdog of this daemon or of the one before it started it, or
\* systemd with the daemon.  One that was restarted by others, for which nobody
\* sets a grace period, has the rest of an earlier one, or the time until its
\* last real frame is old; `stray` excepts it only if neither is long enough.
LoadsUndisturbed ==
  [][consecutive' > consecutive \/ (vision_stale' /\ ~vision_stale)
       => loading = 0 \/ stray]_vars

\* After a pass the flag of the state record tells the age of the last real
\* frame, except that a grace period leaves it as it was; and a fresh frame
\* means that the watchdog has all its restarts left.
FlagTellsAge ==
  ~due /\ have =>
    /\ age < StaleAfter => ~vision_stale /\ consecutive = 0
    /\ age >= StaleAfter /\ graceIn = 0 => vision_stale

-----------------------------------------------------------------------------
\* The inductive invariant behind RestartsBounded: every accepted restart
\* since the last real frame is still in the count, because the count is only
\* cleared by a frame that is recent enough to have cleared `futile` too.
FutileCounted ==
  have => /\ age < StaleAfter => futile = 0
          /\ futile <= consecutive

IInv == TypeOK /\ FutileCounted

\* The inductive invariant behind LoadsUndisturbed: the grace period outlasts
\* the loading, or the last real frame stays fresh until it is over.
GraceCovers ==
  /\ \/ stray \/ loading <= graceIn
     \/ have /\ age + loading <= StaleAfter
  /\ loading <= LoadTime /\ graceIn <= Grace
=============================================================================
