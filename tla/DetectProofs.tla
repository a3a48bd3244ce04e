---------------------------- MODULE DetectProofs ----------------------------
(***************************************************************************)
(* Proofs about Detect: the confirmation of counts, the guard flag of the  *)
(* rows, the lifetime statistics and the ring, for any number of persons,  *)
(* ring sizes, rows, kills and failed statements.                          *)
(***************************************************************************)
EXTENDS Detect, FiniteSetTheorems, TLAPS

LEMMA MostType ==
  \A a, b \in Nat : Most(a, b) \in {a, b} /\ a <= Most(a, b) /\ b <= Most(a, b)
BY DEF Most

LEMMA MostZero == \A a \in Nat : Most(a, 0) = a
BY DEF Most

-----------------------------------------------------------------------------
(***************************************************************************)
(* Facts about rows: an insertion and a trimming keep an interval.         *)
(***************************************************************************)
LEMMA InsertedInterval ==
  ASSUME NEW last \in Nat, NEW table, NEW new, new.id = last + 1,
         NEW n \in 0 .. last, {r.id : r \in table} = n + 1 .. last,
         \A r, s \in table : r.id = s.id => r = s
  PROVE  /\ {r.id : r \in table \union {new}} = n + 1 .. last + 1
         /\ \A r, s \in table \union {new} : r.id = s.id => r = s
<1>1. \A r \in table : r.id \in n + 1 .. last
  OBVIOUS
<1>2. {r.id : r \in table \union {new}} = {r.id : r \in table} \union {new.id}
  OBVIOUS
<1>3. (n + 1 .. last) \union {last + 1} = n + 1 .. last + 1
  OBVIOUS
<1>4. \A r \in table : r.id # new.id
  BY <1>1
<1> QED
  BY <1>2, <1>3, <1>4

LEMMA TrimmedInterval ==
  ASSUME NEW last \in Nat, NEW table, NEW size \in Nat,
         NEW n \in 0 .. last, {r.id : r \in table} = n + 1 .. last
  PROVE  \E m \in 0 .. last : {r.id : r \in Newest(table, last, size)} = m + 1 .. last
<1> DEFINE m == IF n > last - size THEN n ELSE last - size
<1>1. m \in 0 .. last
  OBVIOUS
<1>2. {r.id : r \in Newest(table, last, size)} = {i \in n + 1 .. last : i > last - size}
  BY DEF Newest
<1>3. {i \in n + 1 .. last : i > last - size} = m + 1 .. last
  OBVIOUS
<1> QED
  BY <1>1, <1>2, <1>3

-----------------------------------------------------------------------------
LEMMA InvariantInit == Init => IInv
<1> SUFFICES ASSUME Init PROVE IInv
  OBVIOUS
<1>1. TypeOK
  <2>1. 0 \in Persons /\ 0 \in Nat /\ 0 \in 0 .. MaxFaults /\ 0 \in 0 .. CONFIRM_FRAMES - 1
    BY DetectAssumption DEF Persons, CONFIRM_FRAMES
  <2>2. NoTransition \in [persons : Persons, rising : BOOLEAN, guard : BOOLEAN, mailed : BOOLEAN]
    BY <2>1 DEF NoTransition
  <2>3. NoStats \in [events : Nat, persons : Nat, peak : Persons]
    BY <2>1 DEF NoStats
  <2>4. GuardDefault \in BOOLEAN
    BY DetectAssumption
  <2> QED
    BY <2>1, <2>2, <2>3, <2>4 DEF Init, TypeOK
<1>2. HitsShown /\ AlarmFollowsGuard
  BY DEF Init, HitsShown, AlarmFollowsGuard
<1>3. StatsCatchUp
  BY DEF Init, StatsCatchUp, OwedEvents, OwedPersons, OwedPeak, InStats, NoStats, Most
<1>4. RingInterval
  <2>1. 0 \in 0 .. lastId /\ {r.id : r \in rows} = 0 + 1 .. lastId
    BY DEF Init
  <2> QED
    BY <2>1 DEF Init, RingInterval, Running
<1> QED
  BY <1>1, <1>2, <1>3, <1>4 DEF IInv

-----------------------------------------------------------------------------
(***************************************************************************)
(* Steps that leave the database and the statistics' history alone.        *)
(***************************************************************************)
LEMMA StatsUntouched ==
  ASSUME StatsCatchUp, UNCHANGED <<stats, truth, lost>>, ~InStats, ~InStats'
  PROVE  StatsCatchUp'
BY DEF StatsCatchUp, OwedEvents, OwedPersons, OwedPeak, InStats

LEMMA RingUntouched ==
  ASSUME RingInterval, UNCHANGED <<ring, trigger, rows, lastId, bounded>>, Running, Running'
  PROVE  RingInterval'
BY DEF RingInterval

LEMMA OpeningStep ==
  ASSUME IInv, Opening
  PROVE  IInv'
<1>1. CASE \E n \in Rings : Start(n)
  <2>1. PICK n \in Rings : Start(n)
    BY <1>1
  <2>2. TypeOK' /\ HitsShown' /\ AlarmFollowsGuard'
    BY <2>1 DEF IInv, TypeOK, HitsShown, AlarmFollowsGuard, Start, Table, consumer, database, history
  <2>3. StatsCatchUp'
    BY <2>1, StatsUntouched DEF IInv, Start, InStats, database, history
  <2>4. RingInterval'
    BY <2>1 DEF IInv, RingInterval, Running, Start, database, history
  <2> QED
    BY <2>2, <2>3, <2>4 DEF IInv
<1>2. CASE DropTrigger
  <2>1. pc' \in {"create", "closed"} /\ trigger' \in {trigger, 0} /\ faults' \in 0 .. MaxFaults
    BY <1>2, DetectAssumption DEF IInv, TypeOK, DropTrigger, Fails
  <2>2. TypeOK' /\ HitsShown' /\ AlarmFollowsGuard'
    BY <1>2, <2>1 DEF IInv, TypeOK, HitsShown, AlarmFollowsGuard, DropTrigger, Table, consumer, history
  <2>3. StatsCatchUp'
    BY <1>2, <2>1, StatsUntouched DEF IInv, DropTrigger, InStats, history
  <2>4. RingInterval'
    BY <1>2, <2>1 DEF IInv, RingInterval, Running, DropTrigger, history
  <2> QED
    BY <2>2, <2>3, <2>4 DEF IInv
<1>3. CASE CreateTrigger
  <2>1. /\ pc' \in {"trim", "closed"} /\ faults' \in 0 .. MaxFaults
        /\ trigger' \in {trigger, ring} /\ (pc' = "trim" => trigger' = ring)
    BY <1>3, DetectAssumption DEF IInv, TypeOK, CreateTrigger, NewTrigger, Fails
  <2>2. TypeOK' /\ HitsShown' /\ AlarmFollowsGuard'
    BY <1>3, <2>1 DEF IInv, TypeOK, HitsShown, AlarmFollowsGuard, CreateTrigger, Table, consumer, history
  <2>3. StatsCatchUp'
    BY <1>3, <2>1, StatsUntouched DEF IInv, CreateTrigger, InStats, history
  <2>4. RingInterval'
    BY <1>3, <2>1 DEF IInv, RingInterval, Running, CreateTrigger, history
  <2> QED
    BY <2>2, <2>3, <2>4 DEF IInv
<1>4. CASE Trim
  <2>1. /\ pc = "trim" /\ pc' = "poll" /\ faults' \in 0 .. MaxFaults /\ bounded' \in BOOLEAN
        /\ UNCHANGED <<consumer, guard_mode, zeroOpen, ring, trigger, lastId, stats, truth, lost>>
        /\ \/ rows' = Newest(rows, lastId, ring)
           \/ rows' = rows /\ bounded' = bounded
    <3>1. faults' \in 0 .. MaxFaults
      BY <1>4, DetectAssumption DEF IInv, TypeOK, Trim, Fails
    <3>2. \/ rows' = Newest(rows, lastId, ring) /\ bounded' = TRUE
          \/ rows' = rows /\ bounded' = bounded
      BY <1>4 DEF Trim
    <3>3. bounded \in BOOLEAN
      BY DEF IInv, TypeOK
    <3> QED
      BY <1>4, <3>1, <3>2, <3>3 DEF Trim
  <2>2. rows' \subseteq rows
    BY <2>1 DEF Newest
  <2>3. TypeOK' /\ HitsShown' /\ AlarmFollowsGuard'
    BY <2>1, <2>2 DEF IInv, TypeOK, HitsShown, AlarmFollowsGuard, Table, consumer
  <2>4. StatsCatchUp'
    BY <2>1, StatsUntouched DEF IInv, InStats
  <2>5. RingInterval'
    <3>1. lastId \in Nat /\ ring \in Nat
      BY DetectAssumption DEF IInv, TypeOK
    <3>2. PICK n \in 0 .. lastId : {r.id : r \in rows} = n + 1 .. lastId
      BY DEF IInv, RingInterval
    <3>3. \E m \in 0 .. lastId : {r.id : r \in rows'} = m + 1 .. lastId
      BY <2>1, <3>1, <3>2, TrimmedInterval
    <3>4. \A r \in Newest(rows, lastId, ring) : r.id > lastId - ring
      BY DEF Newest
    <3>5. bounded' => \A r \in rows' : r.id > lastId - ring
      BY <2>1, <3>4 DEF IInv, RingInterval
    <3> QED
      BY <2>1, <2>2, <3>3, <3>5 DEF IInv, RingInterval, Running
  <2> QED
    BY <2>3, <2>4, <2>5 DEF IInv
<1> QED
  BY <1>1, <1>2, <1>3, <1>4 DEF Opening

LEMMA FrameStep ==
  ASSUME IInv, NEW p \in Persons, RealFrame(p)
  PROVE  IInv'
<1>1. /\ pc = "poll" /\ pc' \in {"poll", "cleared", "alarm", "mail"}
      /\ seen' = <<seen[2], p>>
      /\ UNCHANGED <<guard_mode, zeroOpen, ring, database, history, faults>>
  BY DEF RealFrame, Unchanged, Unconfirmed, Confirmed, Frame
<1>2. p \in Nat /\ reported \in Nat /\ hits \in 0 .. 1
  BY DetectAssumption DEF IInv, TypeOK, Persons, CONFIRM_FRAMES
<1>3. seen' \in (Persons \union {NoCount}) \X (Persons \union {NoCount})
  BY <1>1 DEF IInv, TypeOK
<1>4. /\ reported' \in Persons /\ candidate' \in Persons \union {NoCount} /\ hits' \in 0 .. 1
      /\ cur' \in [persons : Persons, rising : BOOLEAN, guard : BOOLEAN, mailed : BOOLEAN]
      /\ raised' \in BOOLEAN
  <2>1. CASE Unchanged(p)
    BY <1>2, <2>1 DEF IInv, TypeOK, Unchanged
  <2>2. CASE Unconfirmed(p)
    BY <1>2, <2>2 DEF IInv, TypeOK, Unconfirmed, HitsOf, CONFIRM_FRAMES
  <2>3. CASE Confirmed(p)
    <3>1. /\ reported' = p /\ candidate' = NoCount /\ hits' = 0 /\ raised' = FALSE
          /\ cur' = [persons |-> p, rising |-> p > reported, guard |-> guard_mode, mailed |-> FALSE]
      BY <2>3 DEF Confirmed
    <3>2. guard_mode \in BOOLEAN /\ (p > reported) \in BOOLEAN
      BY <1>2 DEF IInv, TypeOK
    <3>3. cur' \in [persons : Persons, rising : BOOLEAN, guard : BOOLEAN, mailed : BOOLEAN]
      BY <3>1, <3>2
    <3>4. reported' \in Persons /\ candidate' \in Persons \union {NoCount} /\ raised' \in BOOLEAN
      BY <3>1, Zenon
    <3>5. hits' \in 0 .. 1
      BY <3>1
    <3> QED
      BY <3>3, <3>4, <3>5
  <2> QED
    BY <2>1, <2>2, <2>3 DEF RealFrame
<1>5. TypeOK'
  BY <1>1, <1>3, <1>4 DEF IInv, TypeOK, Table, database, history, CONFIRM_FRAMES
<1>6. HitsShown'
  <2>1. seen'[2] = p /\ seen'[1] = seen[2] /\ p # NoCount
    BY <1>1, <1>2 DEF NoCount
  <2>2. CASE Unchanged(p) \/ Confirmed(p)
    BY <2>1, <2>2 DEF HitsShown, Unchanged, Confirmed
  <2>3. CASE Unconfirmed(p)
    <3>1. /\ p # reported /\ HitsOf(p) < 2 /\ candidate' = p /\ hits' = HitsOf(p)
          /\ reported' = reported
      BY <2>3 DEF Unconfirmed, CONFIRM_FRAMES
    <3>2. hits' > 0
      BY <1>2, <3>1 DEF HitsOf
    <3>3. seen[2] # p
      <4>1. seen[2] = p => hits > 0 /\ candidate = p
        BY <2>1, <3>1 DEF IInv, HitsShown
      <4> QED
        BY <1>2, <3>1, <4>1 DEF HitsOf
    <3> QED
      BY <2>1, <3>1, <3>2, <3>3 DEF HitsShown
  <2> QED
    BY <2>2, <2>3 DEF RealFrame
<1>7. AlarmFollowsGuard'
  <2>1. CASE Confirmed(p)
    BY <1>2, <2>1 DEF IInv, TypeOK, AlarmFollowsGuard, Confirmed
  <2>2. CASE ~Confirmed(p)
    BY <1>1, <2>2 DEF AlarmFollowsGuard, RealFrame, Unchanged, Unconfirmed
  <2> QED
    BY <2>1, <2>2
<1>8. StatsCatchUp'
  BY <1>1, StatsUntouched DEF IInv, InStats, database, history
<1>9. RingInterval'
  BY <1>1, RingUntouched DEF IInv, Running, database, history
<1> QED
  BY <1>5, <1>6, <1>7, <1>8, <1>9 DEF IInv

LEMMA LoopType ==
  ASSUME TypeOK, Loop
  PROVE  /\ pc' = "poll" /\ cur' = NoTransition /\ raised' = FALSE
         /\ UNCHANGED <<reported, candidate, hits, seen>>
         /\ cur' \in [persons : Persons, rising : BOOLEAN, guard : BOOLEAN, mailed : BOOLEAN]
BY DetectAssumption DEF Loop, NoTransition, Persons

LEMMA ReactingStep ==
  ASSUME IInv, Reacting
  PROVE  IInv'
<1>1. /\ pc \in {"cleared", "alarm", "mail"} /\ pc' \in {"poll", "mail", "insert"}
      /\ UNCHANGED <<reported, candidate, hits, seen, guard_mode, zeroOpen, ring, database,
                     history, faults>>
  BY DEF Reacting, Cleared, Alarm, Mail, Loop, consumer
<1>2. /\ cur' \in [persons : Persons, rising : BOOLEAN, guard : BOOLEAN, mailed : BOOLEAN]
      /\ raised' \in BOOLEAN
      /\ AlarmFollowsGuard'
  <2>1. CASE Cleared
    <3>1. CASE Loop
      BY <3>1, LoopType DEF IInv, AlarmFollowsGuard
    <3>2. CASE pc' = "insert" /\ UNCHANGED consumer
      BY <2>1, <3>2 DEF IInv, TypeOK, AlarmFollowsGuard, Cleared, consumer
    <3> QED
      BY <2>1, <3>1, <3>2 DEF Cleared
  <2>2. CASE Alarm
    BY <2>2 DEF IInv, TypeOK, AlarmFollowsGuard, Alarm
  <2>3. CASE Mail
    <3>1. PICK answer \in BOOLEAN : cur' = [cur EXCEPT !.mailed = cur.rising /\ answer]
      BY <2>3 DEF Mail
    <3>2. /\ cur' \in [persons : Persons, rising : BOOLEAN, guard : BOOLEAN, mailed : BOOLEAN]
          /\ cur'.persons = cur.persons /\ cur'.guard = cur.guard
      BY <3>1 DEF IInv, TypeOK
    <3> QED
      BY <2>3, <3>2 DEF IInv, TypeOK, AlarmFollowsGuard, Mail
  <2> QED
    BY <2>1, <2>2, <2>3 DEF Reacting
<1>3. TypeOK'
  BY <1>1, <1>2 DEF IInv, TypeOK, Table, database, history
<1>4. HitsShown'
  BY <1>1 DEF IInv, HitsShown
<1>5. StatsCatchUp'
  BY <1>1, StatsUntouched DEF IInv, InStats, database, history
<1>6. RingInterval'
  BY <1>1, RingUntouched DEF IInv, Running, database, history
<1> QED
  BY <1>2, <1>3, <1>4, <1>5, <1>6 DEF IInv

-----------------------------------------------------------------------------
(***************************************************************************)
(* store_add_detection.                                                    *)
(***************************************************************************)
LEMMA StoringType ==
  ASSUME TypeOK
  PROVE  /\ lastId \in Nat /\ ring \in Nat \ {0} /\ cur.persons \in Nat
         /\ cur.persons \in Persons /\ cur.guard \in BOOLEAN
         /\ stats.events \in Nat /\ stats.persons \in Nat /\ stats.peak \in Nat
         /\ truth.events \in Nat /\ truth.persons \in Nat /\ truth.peak \in Nat
         /\ stats.peak \in Persons /\ truth.peak \in Persons
BY DetectAssumption DEF TypeOK, Persons

LEMMA InsertStep ==
  ASSUME IInv, Insert
  PROVE  IInv'
<1>1. /\ pc = "insert" /\ pc' = "events" /\ lastId' = lastId + 1
      /\ UNCHANGED <<consumer, guard_mode, ring, trigger, stats, lost, faults>>
      /\ truth' = [events |-> truth.events + 1, persons |-> truth.persons + cur.persons,
                   peak |-> Most(truth.peak, cur.persons)]
  BY DEF Insert
<1>2. /\ lastId \in Nat /\ ring \in Nat \ {0} /\ cur.persons \in Nat
      /\ cur.persons \in Persons /\ cur.guard \in BOOLEAN
      /\ stats.events \in Nat /\ stats.persons \in Nat /\ stats.peak \in Nat
      /\ truth.events \in Nat /\ truth.persons \in Nat /\ truth.peak \in Nat
      /\ truth.peak \in Persons
  BY StoringType DEF IInv
<1>3. trigger = ring /\ trigger # 0
  BY <1>1, <1>2 DEF IInv, RingInterval, Running
<1>4. /\ rows' = Newest(rows \union {NewRow}, lastId + 1, ring)
      /\ bounded' = TRUE
  BY <1>3 DEF Insert
<1>5. TypeOK'
  <2>1. NewRow \in [id : 1 .. lastId + 1, guard : BOOLEAN]
    BY <1>2 DEF NewRow
  <2>2. rows \subseteq [id : 1 .. lastId + 1, guard : BOOLEAN]
    BY <1>2 DEF IInv, TypeOK, Table
  <2>3. rows' \subseteq Table'
    BY <1>1, <1>4, <2>1, <2>2 DEF Newest, Table
  <2>4. truth' \in [events : Nat, persons : Nat, peak : Persons]
    BY <1>1, <1>2, MostType
  <2>5. zeroOpen' \in BOOLEAN
    BY DEF Insert, StoreCalled
  <2>6. pc' = "events" /\ lastId' \in Nat /\ bounded' \in BOOLEAN
    BY <1>1, <1>2, <1>4
  <2> QED
    BY <1>1, <2>3, <2>4, <2>5, <2>6 DEF IInv, TypeOK, consumer
<1>6. HitsShown' /\ AlarmFollowsGuard'
  BY <1>1 DEF IInv, HitsShown, AlarmFollowsGuard, consumer
<1>7. StatsCatchUp'
  <2>1. /\ OwedEvents = 0 /\ OwedPersons = 0 /\ OwedPeak = 0
        /\ OwedEvents' = 1 /\ OwedPersons' = cur.persons /\ OwedPeak' = cur.persons
    BY <1>1 DEF OwedEvents, OwedPersons, OwedPeak, InStats, consumer
  <2>2. Most(stats.peak, 0) = stats.peak
    BY <1>2, MostZero
  <2>3. /\ stats.events <= truth.events /\ stats.persons <= truth.persons
        /\ stats.peak <= truth.peak
        /\ ~lost => stats.events = truth.events /\ stats.persons = truth.persons
                    /\ stats.peak = truth.peak
    BY <1>2, <2>1, <2>2 DEF IInv, StatsCatchUp
  <2>4. /\ truth'.events = truth.events + 1 /\ truth'.persons = truth.persons + cur.persons
        /\ truth'.peak = Most(truth.peak, cur.persons)
    BY <1>1
  <2>5. Most(stats.peak, cur.persons) <= Most(truth.peak, cur.persons)
    BY <1>2, <2>3 DEF Most
  <2> QED
    BY <1>1, <1>2, <2>1, <2>3, <2>4, <2>5 DEF StatsCatchUp
<1>8. RingInterval'
  <2>1. PICK n \in 0 .. lastId : {r.id : r \in rows} = n + 1 .. lastId
    BY DEF IInv, RingInterval
  <2>2. /\ {r.id : r \in rows \union {NewRow}} = n + 1 .. lastId + 1
        /\ \A r, s \in rows \union {NewRow} : r.id = s.id => r = s
    <3>1. NewRow.id = lastId + 1
      BY DEF NewRow
    <3>2. \A r, s \in rows : r.id = s.id => r = s
      BY DEF IInv, RingInterval
    <3> QED
      BY <1>2, <2>1, <3>1, <3>2, InsertedInterval
  <2>3. lastId + 1 \in Nat /\ n \in 0 .. lastId + 1
    BY <1>2
  <2>4. \E m \in 0 .. lastId + 1 : {r.id : r \in rows'} = m + 1 .. lastId + 1
    BY <1>2, <1>4, <2>2, <2>3, TrimmedInterval
  <2>5. \A r \in rows' : r \in rows \union {NewRow} /\ r.id > (lastId + 1) - ring
    BY <1>4 DEF Newest
  <2> QED
    BY <1>1, <1>3, <1>4, <2>2, <2>4, <2>5 DEF RingInterval, Running
<1> QED
  BY <1>5, <1>6, <1>7, <1>8 DEF IInv

LEMMA StatisticsStep ==
  ASSUME IInv, CountEvent \/ CountPersons \/ RaisePeak
  PROVE  IInv'
<1>1. /\ pc \in {"events", "persons", "peak"} /\ pc' \in {"persons", "peak", "poll"}
      /\ UNCHANGED <<guard_mode, zeroOpen, ring, trigger, rows, lastId, history, faults>>
      /\ UNCHANGED <<reported, candidate, hits, seen>>
  BY DEF CountEvent, CountPersons, RaisePeak, Update, Loop, consumer
<1>2. /\ cur.persons \in Nat /\ cur.persons \in Persons
      /\ stats.events \in Nat /\ stats.persons \in Nat /\ stats.peak \in Nat
      /\ truth.events \in Nat /\ truth.persons \in Nat /\ truth.peak \in Nat
      /\ stats.peak \in Persons
  BY StoringType DEF IInv
<1>3. /\ cur' \in [persons : Persons, rising : BOOLEAN, guard : BOOLEAN, mailed : BOOLEAN]
      /\ raised' \in BOOLEAN
  <2>1. CASE Loop
    BY <2>1, LoopType DEF IInv
  <2>2. CASE UNCHANGED consumer
    BY <2>2 DEF IInv, TypeOK, consumer
  <2> QED
    BY <2>1, <2>2 DEF CountEvent, CountPersons, RaisePeak
<1>4. /\ stats' \in [events : Nat, persons : Nat, peak : Persons]
      /\ StatsCatchUp'
  <2>1. CASE CountEvent
    <3>1. stats' = [stats EXCEPT !.events = stats.events + 1]
      BY <2>1 DEF CountEvent, Update
    <3>2. /\ stats' \in [events : Nat, persons : Nat, peak : Persons]
          /\ stats'.events = stats.events + 1 /\ stats'.persons = stats.persons
          /\ stats'.peak = stats.peak
      BY <1>2, <3>1 DEF IInv, TypeOK
    <3>3. /\ OwedEvents = 1 /\ OwedEvents' = 0 /\ OwedPersons' = OwedPersons /\ OwedPeak' = OwedPeak
          /\ OwedPersons = cur.persons /\ OwedPeak = cur.persons
      BY <2>1 DEF CountEvent, Update, OwedEvents, OwedPersons, OwedPeak, InStats, consumer
    <3> QED
      BY <1>1, <1>2, <3>2, <3>3 DEF IInv, StatsCatchUp, history
  <2>2. CASE CountPersons
    <3>1. stats' = [stats EXCEPT !.persons = stats.persons + cur.persons]
      BY <2>2 DEF CountPersons, Update
    <3>2. /\ stats' \in [events : Nat, persons : Nat, peak : Persons]
          /\ stats'.events = stats.events /\ stats'.persons = stats.persons + cur.persons
          /\ stats'.peak = stats.peak
      BY <1>2, <3>1 DEF IInv, TypeOK
    <3>3. /\ OwedEvents = 0 /\ OwedEvents' = 0 /\ OwedPersons = cur.persons /\ OwedPersons' = 0
          /\ OwedPeak' = OwedPeak /\ OwedPeak = cur.persons
      BY <2>2 DEF CountPersons, Update, OwedEvents, OwedPersons, OwedPeak, InStats, consumer
    <3> QED
      BY <1>1, <1>2, <3>2, <3>3 DEF IInv, StatsCatchUp, history
  <2>3. CASE RaisePeak
    <3>1. stats' = [stats EXCEPT !.peak = Most(stats.peak, cur.persons)]
      BY <2>3 DEF RaisePeak, Update, PeakUpdated
    <3>2. Most(stats.peak, cur.persons) \in Persons /\ Most(stats.peak, cur.persons) \in Nat
      BY <1>2, MostType
    <3>3. /\ stats' \in [events : Nat, persons : Nat, peak : Persons]
          /\ stats'.events = stats.events /\ stats'.persons = stats.persons
          /\ stats'.peak = Most(stats.peak, cur.persons)
      BY <1>2, <3>1, <3>2 DEF IInv, TypeOK
    <3>4. /\ OwedEvents = 0 /\ OwedEvents' = 0 /\ OwedPersons = 0 /\ OwedPersons' = 0
          /\ OwedPeak = cur.persons /\ OwedPeak' = 0
      BY <2>3 DEF RaisePeak, Update, Loop, OwedEvents, OwedPersons, OwedPeak, InStats
    <3>5. Most(stats'.peak, 0) = stats'.peak
      BY <3>2, <3>3, MostZero
    <3> QED
      BY <1>1, <1>2, <3>3, <3>4, <3>5 DEF IInv, StatsCatchUp, history
  <2> QED
    BY <2>1, <2>2, <2>3
<1>5. TypeOK'
  BY <1>1, <1>3, <1>4 DEF IInv, TypeOK, Table, history
<1>6. HitsShown' /\ AlarmFollowsGuard'
  BY <1>1 DEF IInv, HitsShown, AlarmFollowsGuard
<1>7. RingInterval'
  BY <1>1, RingUntouched DEF IInv, Running, history
<1> QED
  BY <1>4, <1>5, <1>6, <1>7 DEF IInv

\* A statement fails, or the process dies: what was owed is owed for ever.
LEMMA OwedIsLost ==
  ASSUME TypeOK, StatsCatchUp, UNCHANGED <<stats, truth>>, InStats \/ UNCHANGED lost, InStats => lost',
         ~InStats'
  PROVE  StatsCatchUp'
<1>1. /\ cur.persons \in Nat
      /\ stats.events \in Nat /\ stats.persons \in Nat /\ stats.peak \in Nat
      /\ truth.events \in Nat /\ truth.persons \in Nat /\ truth.peak \in Nat
  BY StoringType
<1>2. OwedEvents' = 0 /\ OwedPersons' = 0 /\ OwedPeak' = 0
  BY DEF OwedEvents, OwedPersons, OwedPeak, InStats
<1>3. OwedEvents \in Nat /\ OwedPersons \in Nat /\ OwedPeak \in Nat
  BY <1>1 DEF OwedEvents, OwedPersons, OwedPeak
<1>4. Most(stats.peak, 0) = stats.peak /\ stats.peak <= Most(stats.peak, OwedPeak)
      /\ Most(stats.peak, OwedPeak) \in Nat
  BY <1>1, <1>3, MostZero, MostType
<1>5. CASE InStats
  BY <1>1, <1>2, <1>3, <1>4, <1>5 DEF StatsCatchUp
<1>6. CASE ~InStats
  <2>1. OwedEvents = 0 /\ OwedPersons = 0 /\ OwedPeak = 0
    BY <1>6 DEF OwedEvents, OwedPersons, OwedPeak, InStats
  <2> QED
    BY <1>1, <1>2, <1>4, <1>6, <2>1 DEF StatsCatchUp
<1> QED
  BY <1>5, <1>6

LEMMA FailingStep ==
  ASSUME IInv, InsertFails \/ UpdateFails
  PROVE  IInv'
<1>1. /\ pc \in {"insert", "events", "persons", "peak"} /\ Loop
      /\ faults' \in 0 .. MaxFaults /\ zeroOpen' \in BOOLEAN /\ lost' \in BOOLEAN
      /\ UNCHANGED <<guard_mode, ring, database, truth, bounded>>
      /\ (InStats => lost') /\ (InStats \/ UNCHANGED lost)
  <2>1. faults' \in 0 .. MaxFaults
    BY DetectAssumption DEF IInv, TypeOK, InsertFails, UpdateFails, Fails
  <2>2. CASE InsertFails
    BY <2>1, <2>2 DEF IInv, TypeOK, InsertFails, StoreCalled, InStats, history
  <2>3. CASE UpdateFails
    BY <2>1, <2>3 DEF IInv, TypeOK, UpdateFails, InStats
  <2> QED
    BY <2>2, <2>3
<1>2. /\ pc' = "poll" /\ raised' = FALSE
      /\ UNCHANGED <<reported, candidate, hits, seen>>
      /\ cur' \in [persons : Persons, rising : BOOLEAN, guard : BOOLEAN, mailed : BOOLEAN]
  BY <1>1, LoopType DEF IInv
<1>3. TypeOK'
  BY <1>1, <1>2 DEF IInv, TypeOK, Table, database
<1>4. HitsShown' /\ AlarmFollowsGuard'
  BY <1>2 DEF IInv, HitsShown, AlarmFollowsGuard
<1>5. StatsCatchUp'
  BY <1>1, <1>2, OwedIsLost DEF IInv, InStats, database
<1>6. RingInterval'
  BY <1>1, <1>2, RingUntouched DEF IInv, Running, database
<1> QED
  BY <1>3, <1>4, <1>5, <1>6 DEF IInv

LEMMA KillStep ==
  ASSUME IInv, Kill
  PROVE  IInv'
<1>1. /\ pc' = "closed" /\ candidate' = NoCount /\ hits' = 0 /\ cur' = NoTransition
      /\ reported' = 0 /\ seen' = <<NoCount, NoCount>> /\ raised' = FALSE
      /\ guard_mode' = GuardDefault /\ zeroOpen' = FALSE /\ bounded' = FALSE
      /\ lost' = (lost \/ InStats)
      /\ UNCHANGED <<ring, database, truth>>
  BY DEF Kill
<1>2. 0 \in Persons /\ GuardDefault \in BOOLEAN /\ faults' \in 0 .. MaxFaults
      /\ 0 \in 0 .. CONFIRM_FRAMES - 1
  BY DetectAssumption DEF IInv, TypeOK, Persons, Kill, Fails, CONFIRM_FRAMES
<1>3. NoTransition \in [persons : Persons, rising : BOOLEAN, guard : BOOLEAN, mailed : BOOLEAN]
  BY <1>2 DEF NoTransition
<1>4. TypeOK'
  BY <1>1, <1>2, <1>3 DEF IInv, TypeOK, Table, database
<1>5. HitsShown' /\ AlarmFollowsGuard'
  BY <1>1 DEF HitsShown, AlarmFollowsGuard
<1>6. StatsCatchUp'
  <2>1. ~InStats' /\ (InStats => lost') /\ (InStats \/ lost' = lost)
    BY <1>1 DEF IInv, TypeOK, InStats
  <2> QED
    BY <1>1, <2>1, OwedIsLost DEF IInv, database
<1>7. RingInterval'
  BY <1>1 DEF IInv, RingInterval, Running, database
<1> QED
  BY <1>4, <1>5, <1>6, <1>7 DEF IInv

LEMMA InvariantStep == IInv /\ [Next]_vars => IInv'
<1> SUFFICES ASSUME IInv, [Next]_vars PROVE IInv'
  OBVIOUS
<1>1. ASSUME NEW on \in BOOLEAN, SetGuard(on)
      PROVE  IInv'
  BY <1>1 DEF SetGuard, IInv, TypeOK, Table, HitsShown, AlarmFollowsGuard, StatsCatchUp, OwedEvents,
     OwedPersons, OwedPeak, InStats, RingInterval, Running, consumer, database, history
<1>2. CASE MinutePasses
  BY <1>2 DEF MinutePasses, IInv, TypeOK, Table, HitsShown, AlarmFollowsGuard, StatsCatchUp, OwedEvents,
     OwedPersons, OwedPeak, InStats, RingInterval, Running, consumer, database, history
<1>3. CASE UNCHANGED vars
  BY <1>3 DEF vars, IInv, TypeOK, Table, HitsShown, AlarmFollowsGuard, StatsCatchUp, OwedEvents,
     OwedPersons, OwedPeak, InStats, RingInterval, Running, consumer, database, history
<1>4. CASE Storing
  BY <1>4, InsertStep, StatisticsStep, FailingStep DEF Storing
<1> QED
  BY <1>1, <1>2, <1>3, <1>4, OpeningStep, FrameStep, ReactingStep, KillStep DEF Next

LEMMA Invariance == Spec => []IInv
BY InvariantInit, InvariantStep, PTL DEF Spec

-----------------------------------------------------------------------------
\* Every variable keeps its type.
THEOREM TypeCorrect == Spec => []TypeOK
<1>1. IInv => TypeOK
  BY DEF IInv
<1> QED
  BY <1>1, Invariance, PTL

\* The statistics of the black box are those of the rows ever stored unless a
\* transaction was lost, and never count too much (store.c:126-137), whatever
\* was killed and whichever statements failed.
THEOREM StatisticsAgree == Spec => []StatsAgree
<1>1. IInv => StatsAgree
  <2> SUFFICES ASSUME IInv PROVE StatsAgree
    OBVIOUS
  <2>1. /\ cur.persons \in Nat
        /\ stats.events \in Nat /\ stats.persons \in Nat /\ stats.peak \in Nat
        /\ truth.events \in Nat /\ truth.persons \in Nat /\ truth.peak \in Nat
    BY StoringType DEF IInv
  <2>2. OwedEvents \in Nat /\ OwedPersons \in Nat /\ OwedPeak \in Nat
    BY <2>1 DEF OwedEvents, OwedPersons, OwedPeak
  <2>3. stats.peak <= Most(stats.peak, OwedPeak) /\ Most(stats.peak, OwedPeak) \in Nat
        /\ Most(stats.peak, 0) = stats.peak
    BY <2>1, <2>2, MostType, MostZero
  <2>4. /\ stats.events <= truth.events /\ stats.persons <= truth.persons
        /\ stats.peak <= truth.peak
    BY <2>1, <2>2, <2>3 DEF IInv, StatsCatchUp
  <2>5. ASSUME ~lost, ~InStats
        PROVE  stats = truth
    <3>1. OwedEvents = 0 /\ OwedPersons = 0 /\ OwedPeak = 0
      BY <2>5 DEF OwedEvents, OwedPersons, OwedPeak, InStats
    <3>2. stats.events = truth.events /\ stats.persons = truth.persons /\ stats.peak = truth.peak
      BY <2>1, <2>3, <2>5, <3>1 DEF IInv, StatsCatchUp
    <3>3. /\ stats \in [events : Nat, persons : Nat, peak : Persons]
          /\ truth \in [events : Nat, persons : Nat, peak : Persons]
      BY DEF IInv, TypeOK
    <3> QED
      BY <3>2, <3>3
  <2> QED
    BY <2>4, <2>5 DEF StatsAgree
<1> QED
  BY <1>1, Invariance, PTL

\* The ring holds the newest rows without a gap and, once a daemon has inserted
\* or trimmed, no more of them than its own db_ring_size, whatever sizes,
\* kills and failures came before (store.h).
THEOREM RingHoldsNewest == Spec => []RingKeepsNewest
<1>1. IInv => RingKeepsNewest
  <2> SUFFICES ASSUME IInv PROVE RingKeepsNewest
    OBVIOUS
  <2>1. lastId \in Nat /\ ring \in Nat
    BY StoringType DEF IInv
  <2>2. PICK n \in 0 .. lastId : {r.id : r \in rows} = n + 1 .. lastId
    BY DEF IInv, RingInterval
  <2> DEFINE f == [r \in rows |-> r.id]
  <2>3. f \in Bijection(rows, n + 1 .. lastId)
    <3>1. f \in [rows -> n + 1 .. lastId]
      BY <2>2
    <3>2. \A r, s \in rows : f[r] = f[s] => r = s
      BY DEF IInv, RingInterval
    <3>3. \A i \in n + 1 .. lastId : \E r \in rows : f[r] = i
      BY <2>2
    <3> HIDE DEF f
    <3> QED
      BY <3>1, <3>2, <3>3 DEF Bijection, Injection, Surjection, IsInjective
  <2>4. IsFiniteSet(n + 1 .. lastId) /\ Cardinality(n + 1 .. lastId) = lastId - n
    <3>1. n + 1 \in Int /\ lastId \in Int /\ n \in Int /\ n <= lastId
      BY <2>1
    <3>2. /\ IsFiniteSet(n + 1 .. lastId)
          /\ Cardinality(n + 1 .. lastId) = IF n + 1 > lastId THEN 0 ELSE lastId - (n + 1) + 1
      BY <3>1, FS_Interval
    <3> QED
      BY <3>1, <3>2
  <2>5. Cardinality(rows) = lastId - n
    <3>1. f \in Injection(rows, n + 1 .. lastId) /\ f \in Surjection(rows, n + 1 .. lastId)
      BY <2>3 DEF Bijection
    <3> QED
      BY <2>4, <3>1, FS_Injection
  <2>6. {r.id : r \in rows} = lastId - Cardinality(rows) + 1 .. lastId
    BY <2>1, <2>2, <2>5
  <2>7. ASSUME bounded
        PROVE  Cardinality(rows) <= ring
    <3>1. \A i \in n + 1 .. lastId : i > lastId - ring
      BY <2>2, <2>7 DEF IInv, RingInterval
    <3> QED
      BY <2>1, <2>5, <3>1
  <2> QED
    BY <2>6, <2>7 DEF RingKeepsNewest
<1> QED
  BY <1>1, Invariance, PTL

\* A change of the reported count takes two frames in a row, and two frames in
\* a row suffice (events.c:76-79), for any number of persons and however they
\* flicker.
THEOREM ChangeIsConfirmed == Spec => ConfirmedChange
<1>1. ASSUME IInv, IInv', [Next]_vars
      PROVE  [/\ reported' # reported /\ pc' # "closed" => seen'[1] = reported' /\ seen'[2] = reported'
              /\ seen'[1] = seen'[2] /\ seen'[2] # NoCount => reported' = seen'[2]]_vars
  <2>1. ASSUME reported' # reported, pc' # "closed"
        PROVE  seen'[1] = reported' /\ seen'[2] = reported'
    <3>1. PICK p \in Persons : Confirmed(p)
      BY <1>1, <2>1 DEF Next, Opening, Start, DropTrigger, CreateTrigger, Trim, RealFrame, Unchanged,
         Unconfirmed, Reacting, Cleared, Alarm, Mail, Storing, Insert, InsertFails, CountEvent,
         CountPersons, RaisePeak, UpdateFails, Loop, SetGuard, MinutePasses, Kill, consumer, vars
    <3>2. hits \in 0 .. 1 /\ HitsOf(p) >= 2
      BY <1>1, <3>1 DEF IInv, TypeOK, Confirmed, CONFIRM_FRAMES
    <3>3. p = candidate /\ hits > 0
      BY <3>2 DEF HitsOf
    <3>4. seen[2] = p
      BY <1>1, <3>3 DEF IInv, HitsShown
    <3> QED
      BY <3>1, <3>4 DEF Confirmed, Frame
  <2>2. seen'[1] = seen'[2] /\ seen'[2] # NoCount => reported' = seen'[2]
    BY <1>1 DEF IInv, HitsShown
  <2> QED
    BY <2>1, <2>2
<1> QED
  BY <1>1, Invariance, PTL DEF Spec, ConfirmedChange

\* The guard flag of a row with persons says whether its alarm was raised
\* (events.c:134), whenever guard mode is switched.
THEOREM RowsTellAlarms == Spec => RowTellsAlarm
<1>1. ASSUME IInv, [Next]_vars
      PROVE  [\A r \in rows' \ rows : cur.persons > 0 => r.guard = raised]_vars
  <2> SUFFICES ASSUME NEW r \in rows' \ rows, cur.persons > 0
               PROVE  r.guard = raised
    OBVIOUS
  <2>1. Insert
    BY <1>1 DEF Next, Opening, Start, DropTrigger, CreateTrigger, Trim, Newest, RealFrame, Unchanged,
       Unconfirmed, Confirmed, Frame, Reacting, Cleared, Alarm, Mail, Storing, InsertFails, CountEvent,
       CountPersons, RaisePeak, Update, UpdateFails, SetGuard, MinutePasses, Kill, database, vars
  <2>2. r = NewRow
    BY <2>1 DEF Insert, Newest
  <2> QED
    BY <1>1, <2>1, <2>2 DEF IInv, AlarmFollowsGuard, Insert, NewRow
<1> QED
  BY <1>1, Invariance, PTL DEF Spec, RowTellsAlarm
=============================================================================
