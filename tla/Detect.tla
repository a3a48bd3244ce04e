------------------------------- MODULE Detect -------------------------------
(***************************************************************************)
(* The detection consumer (detect_loop of events.c) and the black box it   *)
(* writes to (store.c): from the person counts of the frames to confirmed  *)
(* changes, alarms, rows of the ring and lifetime statistics.  The daemon  *)
(* may be killed between any two steps; what SQLite has committed stays.   *)
(*                                                                         *)
(* A frame is its person count and whether it is synthetic.  A statement   *)
(* that SQLite runs in a transaction of its own is one step and may fail.  *)
(***************************************************************************)
EXTENDS Integers, FiniteSets

CONSTANTS
  MaxPersons,     \* bound: persons in a frame
  Rings,          \* the values db_ring_size takes from one start to the next
  GuardDefault,   \* guard_default
  MaxRows,        \* bound: the scene keeps still once so many rows were written
  MaxFaults       \* bound: statements that fail and daemons that are killed

CONFIRM_FRAMES == 2

ASSUME DetectAssumption ==
  /\ MaxPersons \in Nat \ {0}
  /\ Rings \subseteq Nat \ {0}
  /\ GuardDefault \in BOOLEAN
  /\ MaxRows \in Nat /\ MaxFaults \in Nat

VARIABLES
  pc,             \* the thread, "closed" while no daemon runs
  reported,       \* the count last acted on
  candidate,      \* the count awaiting confirmation, NoCount if none
  hits,           \* candidate_hits
  cur,            \* the transition at hand: persons, rising, guard, mailed
  guard_mode,     \* state.c
  zeroOpen,       \* now_mono() - last_zero_report > 60.0 (from boot on at first)
  ring,           \* RING of this daemon
  trigger,        \* database: the ring size in trg_detections_ring, 0 if dropped
  rows,           \* database: detections, of a row its id and its guard flag
  lastId,         \* database: the last id AUTOINCREMENT gave out
  stats,          \* database: total_events, total_persons, peak_persons
  truth,          \* history: what stats would be if nothing ever failed
  lost,           \* history: a statistics transaction did not happen
  seen,           \* history: the counts of this daemon's last two real frames
  raised,         \* history: an alarm was raised for the transition at hand
  bounded,        \* history: rows were trimmed since the store was opened
  faults

consumer == <<reported, candidate, hits, cur, seen, raised>>
database == <<trigger, rows, lastId, stats>>
history == <<truth, lost, bounded>>
vars == <<pc, consumer, guard_mode, zeroOpen, ring, database, history, faults>>

NoCount == -1
Persons == 0 .. MaxPersons
NoTransition == [persons |-> 0, rising |-> FALSE, guard |-> FALSE, mailed |-> FALSE]
NoStats == [events |-> 0, persons |-> 0, peak |-> 0]

Most(a, b) == IF a > b THEN a ELSE b

\* The statement at hand fails: SQLITE_BUSY after 3 s, SQLITE_FULL, an I/O error.
Fails ==
  /\ faults < MaxFaults
  /\ faults' = faults + 1

-----------------------------------------------------------------------------
(***************************************************************************)
(* store_open, called before the threads exist.  The two statements of the *)
(* trigger commit separately; if one fails the daemon gives up, and        *)
(* systemd starts it again.                                                *)
(***************************************************************************)
Start(n) ==
  /\ pc = "closed"
  /\ pc' = "drop"
  /\ ring' = n
  /\ UNCHANGED <<consumer, guard_mode, zeroOpen, database, history, faults>>

DropTrigger ==
  /\ pc = "drop"
  /\ \/ pc' = "create" /\ trigger' = 0 /\ UNCHANGED faults
     \/ pc' = "closed" /\ Fails /\ UNCHANGED trigger
  /\ UNCHANGED <<consumer, guard_mode, zeroOpen, ring, rows, lastId, stats, history>>

\* Mutant: NEW.id - (N + 1).
TriggerOffByOne == ring + 1

NewTrigger == ring

CreateTrigger ==
  /\ pc = "create"
  /\ \/ pc' = "trim" /\ trigger' = NewTrigger /\ UNCHANGED faults
     \/ pc' = "closed" /\ Fails /\ UNCHANGED trigger
  /\ UNCHANGED <<consumer, guard_mode, zeroOpen, ring, rows, lastId, stats, history>>

Newest(table, last, n) == {r \in table : r.id > last - n}

\* The result of the trim is not looked at.
Trim ==
  /\ pc = "trim"
  /\ pc' = "poll"
  /\ \/ /\ rows' = Newest(rows, lastId, ring)
        /\ bounded' = TRUE
        /\ UNCHANGED faults
     \/ Fails /\ UNCHANGED <<rows, bounded>>
  /\ UNCHANGED <<consumer, guard_mode, zeroOpen, ring, trigger, lastId, stats, truth, lost>>

-----------------------------------------------------------------------------
\* The loop is done with a transition and takes the next frame.
Loop ==
  /\ pc' = "poll"
  /\ cur' = NoTransition /\ raised' = FALSE
  /\ UNCHANGED <<reported, candidate, hits, seen>>

(***************************************************************************)
(* detect_loop: a frame.  A count that differs from the reported one must  *)
(* be seen in CONFIRM_FRAMES frames in a row.  A synthetic frame changes   *)
(* nothing, which makes it a stuttering step.                              *)
(***************************************************************************)
\* Mutant: the hits of another count are kept.
HitsKept(p) == hits + 1
\* Mutant: the hits of a count that stays are not counted.
HitsStuck(p) == 1

HitsOf(p) == IF p = candidate THEN hits + 1 ELSE 1

Frame(p) ==
  /\ pc = "poll"
  /\ seen' = <<seen[2], p>>
  /\ UNCHANGED <<guard_mode, zeroOpen, ring, database, history, faults>>

Unchanged(p) ==
  /\ Frame(p)
  /\ p = reported
  /\ candidate' = NoCount /\ hits' = 0
  /\ UNCHANGED <<pc, reported, cur, raised>>

Unconfirmed(p) ==
  /\ Frame(p)
  /\ p # reported
  /\ HitsOf(p) < CONFIRM_FRAMES
  /\ candidate' = p /\ hits' = HitsOf(p)
  /\ UNCHANGED <<pc, reported, cur, raised>>

\* The count is published and stored in the state record; guard mode is read
\* here, once for the whole transition.
Confirmed(p) ==
  /\ Frame(p)
  /\ p # reported
  /\ HitsOf(p) >= CONFIRM_FRAMES
  /\ reported' = p
  /\ candidate' = NoCount /\ hits' = 0
  /\ cur' = [persons |-> p, rising |-> p > reported, guard |-> guard_mode, mailed |-> FALSE]
  /\ raised' = FALSE
  /\ pc' = CASE p = 0 -> "cleared"
             [] p # 0 /\ guard_mode -> "alarm"
             [] OTHER -> "mail"

\* "scene cleared" is recorded at most once a minute.
Cleared ==
  /\ pc = "cleared"
  /\ \/ zeroOpen /\ pc' = "insert" /\ UNCHANGED consumer
     \/ ~zeroOpen /\ Loop
  /\ UNCHANGED <<guard_mode, zeroOpen, ring, database, history, faults>>

\* The alarm on MQTT, by mail and by Telegram.
Alarm ==
  /\ pc = "alarm"
  /\ raised' = TRUE
  /\ pc' = "mail"
  /\ UNCHANGED <<reported, candidate, hits, cur, seen, guard_mode, zeroOpen, ring, database,
                 history, faults>>

\* mailer_notify_detection (its answer is Mailer's) and telegram_notify_detection.
Mail ==
  /\ pc = "mail"
  /\ \E answer \in BOOLEAN : cur' = [cur EXCEPT !.mailed = cur.rising /\ answer]
  /\ pc' = "insert"
  /\ UNCHANGED <<reported, candidate, hits, seen, raised, guard_mode, zeroOpen, ring,
                 database, history, faults>>

-----------------------------------------------------------------------------
(***************************************************************************)
(* store_add_detection: the row, with the deletion its trigger does in the *)
(* same transaction, then the three statistics, each on its own; the first *)
(* that fails skips the rest.                                              *)
(***************************************************************************)
\* Mutant: guard mode is read again for the row.
RowRereadingGuard == [id |-> lastId + 1, guard |-> guard_mode]

NewRow == [id |-> lastId + 1, guard |-> cur.guard]

\* A zero report counts as made whether its row was stored or not.
StoreCalled == zeroOpen' = (zeroOpen /\ cur.persons # 0)

Insert ==
  /\ pc = "insert"
  /\ pc' = "events"
  /\ StoreCalled
  /\ lastId' = lastId + 1
  /\ rows' = IF trigger = 0 THEN rows \union {NewRow}
             ELSE Newest(rows \union {NewRow}, lastId + 1, trigger)
  /\ bounded' = (bounded \/ trigger # 0)
  /\ truth' = [events |-> truth.events + 1, persons |-> truth.persons + cur.persons,
               peak |-> Most(truth.peak, cur.persons)]
  /\ UNCHANGED <<consumer, guard_mode, ring, trigger, stats, lost, faults>>

InsertFails ==
  /\ pc = "insert"
  /\ Fails
  /\ StoreCalled
  /\ Loop
  /\ UNCHANGED <<guard_mode, ring, database, history>>

\* Mutant: the peak is summed like the line above it.
PeakSummed == [stats EXCEPT !.peak = @ + cur.persons]
\* Mutant: the peak is overwritten.
PeakOverwritten == [stats EXCEPT !.peak = cur.persons]

PeakUpdated == [stats EXCEPT !.peak = Most(@, cur.persons)]

Update(at, new) ==
  /\ pc = at
  /\ stats' = new
  /\ UNCHANGED <<guard_mode, zeroOpen, ring, trigger, rows, lastId, history, faults>>

CountEvent ==
  /\ Update("events", [stats EXCEPT !.events = @ + 1])
  /\ pc' = "persons"
  /\ UNCHANGED consumer

CountPersons ==
  /\ Update("persons", [stats EXCEPT !.persons = @ + cur.persons])
  /\ pc' = "peak"
  /\ UNCHANGED consumer

RaisePeak == Update("peak", PeakUpdated) /\ Loop

InStats == pc \in {"events", "persons", "peak"}

UpdateFails ==
  /\ InStats
  /\ Fails
  /\ lost' = TRUE
  /\ Loop
  /\ UNCHANGED <<guard_mode, zeroOpen, ring, database, truth, bounded>>

-----------------------------------------------------------------------------
\* The guard command of the API (api_guard_set), at any time.
SetGuard(on) ==
  /\ pc # "closed"
  /\ guard_mode # on
  /\ guard_mode' = on
  /\ UNCHANGED <<pc, consumer, zeroOpen, ring, database, history, faults>>

MinutePasses ==
  /\ pc # "closed"
  /\ ~zeroOpen
  /\ zeroOpen' = TRUE
  /\ UNCHANGED <<pc, consumer, guard_mode, ring, database, history, faults>>

\* The process dies; the database keeps what was committed.
Kill ==
  /\ pc # "closed"
  /\ Fails
  /\ pc' = "closed"
  /\ reported' = 0 /\ candidate' = NoCount /\ hits' = 0
  /\ cur' = NoTransition
  /\ seen' = <<NoCount, NoCount>> /\ raised' = FALSE
  /\ guard_mode' = GuardDefault /\ zeroOpen' = FALSE
  /\ lost' = (lost \/ InStats) /\ bounded' = FALSE
  /\ UNCHANGED <<ring, database, truth>>

Init ==
  /\ pc = "closed"
  /\ reported = 0 /\ candidate = NoCount /\ hits = 0
  /\ cur = NoTransition /\ raised = FALSE
  /\ seen = <<NoCount, NoCount>>
  /\ guard_mode = GuardDefault /\ zeroOpen = FALSE
  /\ ring \in Rings
  /\ trigger = 0 /\ rows = {} /\ lastId = 0 /\ stats = NoStats
  /\ truth = NoStats /\ lost = FALSE /\ bounded = FALSE
  /\ faults = 0

\* The bound MaxRows: after so many rows every frame shows what the last one did.
Shown(p) == p = seen[2] \/ lastId < MaxRows

RealFrame(p) == Shown(p) /\ (Unchanged(p) \/ Unconfirmed(p) \/ Confirmed(p))

Opening == (\E n \in Rings : Start(n)) \/ DropTrigger \/ CreateTrigger \/ Trim
Reacting == Cleared \/ Alarm \/ Mail
Storing == Insert \/ InsertFails \/ CountEvent \/ CountPersons \/ RaisePeak \/ UpdateFails

Next ==
  \/ Opening
  \/ \E p \in Persons : RealFrame(p)
  \/ Reacting
  \/ Storing
  \/ \E on \in BOOLEAN : SetGuard(on)
  \/ MinutePasses
  \/ Kill

\* systemd restarts the daemon, its threads run, and a scene that stays the
\* same goes on being filmed.
Fairness ==
  /\ WF_vars(Opening)
  /\ WF_vars(\E p \in Persons : p = seen[2] /\ RealFrame(p))
  /\ WF_vars(Reacting)
  /\ WF_vars(Storing)

Spec == Init /\ [][Next]_vars /\ Fairness

-----------------------------------------------------------------------------
(***************************************************************************)
(* Properties.                                                             *)
(***************************************************************************)
Table == [id : 1 .. lastId, guard : BOOLEAN]

\* Every variable has its type; an unconfirmed count has one hit at most, the
\* trigger in the database has the size of some start, and ids are not reused.
TypeOK ==
  /\ pc \in {"closed", "drop", "create", "trim", "poll", "cleared", "alarm", "mail", "insert",
             "events", "persons", "peak"}
  /\ reported \in Persons /\ candidate \in Persons \union {NoCount}
  /\ hits \in 0 .. CONFIRM_FRAMES - 1
  /\ cur \in [persons : Persons, rising : BOOLEAN, guard : BOOLEAN, mailed : BOOLEAN]
  /\ guard_mode \in BOOLEAN /\ zeroOpen \in BOOLEAN
  /\ ring \in Rings /\ trigger \in Rings \union {0}
  /\ lastId \in Nat /\ rows \subseteq Table
  /\ stats \in [events : Nat, persons : Nat, peak : Persons]
  /\ truth \in [events : Nat, persons : Nat, peak : Persons]
  /\ seen \in (Persons \union {NoCount}) \X (Persons \union {NoCount})
  /\ lost \in BOOLEAN /\ raised \in BOOLEAN /\ bounded \in BOOLEAN
  /\ faults \in 0 .. MaxFaults

Running == pc \notin {"closed", "drop", "create", "trim"}

\* "the invariant holds even if the daemon is killed mid-write" (store.h): the
\* ring is the newest rows without a gap, and from the first insertion or
\* trimming of a daemon on it is no longer than its db_ring_size, whatever
\* sizes, kills and failed statements came before.
RingKeepsNewest ==
  /\ {r.id : r \in rows} = lastId - Cardinality(rows) + 1 .. lastId
  /\ Running /\ bounded => Cardinality(rows) <= ring

\* The lifetime statistics (store.c:126-137) are those of all the rows ever
\* stored, deleted ones included, unless one of their transactions failed or
\* was cut off by a kill; even then they never count too much.
StatsAgree ==
  /\ ~lost /\ ~InStats => stats = truth
  /\ stats.events <= truth.events /\ stats.persons <= truth.persons
  /\ stats.peak <= truth.peak

\* "Two consecutive agreeing frames before we believe a change", neither fewer
\* nor more: what changes the reported count was the count of the last two real
\* frames (this daemon's), and a count that both of them show is the reported one
\* at once, whatever counts came in between.
ConfirmedChange ==
  [][/\ reported' # reported /\ pc' # "closed" => seen'[1] = reported' /\ seen'[2] = reported'
     /\ seen'[1] = seen'[2] /\ seen'[2] # NoCount => reported' = seen'[2]]_vars

\* The guard flag of a row that has persons says whether the alarm was raised,
\* although guard mode can be switched between the two.
RowTellsAlarm ==
  [][\A r \in rows' \ rows : cur.persons > 0 => r.guard = raised]_vars

\* However the detector flickered and whatever failed before, a scene that
\* stays the same ends up as the reported count.
SceneReported ==
  \A p \in Persons : <>[](pc # "closed" /\ seen[2] = p) => <>[](reported = p)
-----------------------------------------------------------------------------
(***************************************************************************)
(* The inductive invariant behind RingKeepsNewest, StatsAgree,             *)
(* ConfirmedChange and RowTellsAlarm.                                      *)
(***************************************************************************)
\* A count with a hit is that of the last frame, which has one unless it is
\* reported; a count with two is reported.
HitsShown ==
  /\ hits > 0 => candidate = seen[2]
  /\ seen[2] \notin {NoCount, reported} => hits > 0
  /\ seen[1] = seen[2] => seen[2] \in {NoCount, reported}

\* The guard flag of the transition and the alarm go together on the way to
\* the row, and only a cleared scene reaches the row without passing the mail.
AlarmFollowsGuard ==
  /\ pc \in {"mail", "insert"} /\ cur.persons > 0 => cur.guard = raised
  /\ pc = "alarm" => cur.guard
  /\ pc = "cleared" => cur.persons = 0

\* What the statistics still owe the row that was just stored.
OwedEvents == IF pc = "events" THEN 1 ELSE 0
OwedPersons == IF pc \in {"events", "persons"} THEN cur.persons ELSE 0
OwedPeak == IF InStats THEN cur.persons ELSE 0

StatsCatchUp ==
  /\ stats.events + OwedEvents <= truth.events
  /\ stats.persons + OwedPersons <= truth.persons
  /\ Most(stats.peak, OwedPeak) <= truth.peak
  /\ ~lost => /\ stats.events + OwedEvents = truth.events
              /\ stats.persons + OwedPersons = truth.persons
              /\ Most(stats.peak, OwedPeak) = truth.peak

\* The rows are those of an interval of ids that ends with the last one given
\* out, one row each; the trigger is that of this daemon once it runs.
RingInterval ==
  /\ \E n \in 0 .. lastId : {r.id : r \in rows} = n + 1 .. lastId
  /\ \A r, s \in rows : r.id = s.id => r = s
  /\ Running \/ pc = "trim" => trigger = ring
  /\ ~Running => ~bounded
  /\ bounded => \A r \in rows : r.id > lastId - ring

IInv == TypeOK /\ HitsShown /\ AlarmFollowsGuard /\ StatsCatchUp /\ RingInterval
=============================================================================
