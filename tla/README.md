# A TLA+ development of the guardian camera

The repository holds a camera guardian for a small board: a C daemon
(`src/code/pi/src`, fifteen modules, about 5 900 lines), a Python detector
(`src/code/pi/vision`), a stateless HTTP proxy (`src/code/pi/api`), their
systemd units, tools for a laptop (`src/code/mac`) and measurement scripts
(`src/code/tests`). This directory models the daemon and its detector, checks
the models with TLC and proves theorems about them with TLAPS.

Contents: [the system](#1-the-system), [the modules](#2-the-modules),
[what the runs show](#3-the-runs), [what is proved](#4-the-theorems),
[disagreements found](#5-where-code-and-text-disagree),
[what is left](#6-what-is-left-to-do), [what stays out](#7-what-is-not-modelled).
Paths below are relative to `src/code/pi/src` unless they start elsewhere.

## 1. The system

### Processes and threads

    capture host --RTSP--> detector (Python) ==shared memory==> daemon (C)
                                ^                                |  |  |
                                |  control fields (target, net)  |  |  +-- SMTP (mailer)
                                +--------------------------------+  +----- Telegram, MQTT
                           systemd <---- restart unit (watchdog) ---+      HTTP, SQLite

The daemon runs a telemetry thread, a detection thread and a supervisor thread
(`events.c`), a mail worker, a Telegram send worker and poller, libmosquitto's
thread and a fail-over thread, and the HTTP server's threads. `main.c` starts
the modules in order (config, state, sysinfo, shared memory, store, curl,
mailer, Telegram, MQTT, HTTP, events) and tears them down in its own order
(events, HTTP, MQTT, Telegram, mailer, store, shared memory).

### Inventory

| Component | State it keeps | Operations | Interacts with | What is hard | What makes it correct |
|---|---|---|---|---|---|
| Frame transport: `shmframe.c`, `vision/shmframe.py` | segment with magic, `active`, two seqlock slots, `frames_total`, `last_real_ts` | open, attach, publish, last_ts, read | detector writes; detection thread, MJPEG handler, API snapshot read | no lock at all; torn copies; restart of either side over old contents | a snapshot is one frame, no older than what was published; the real-input clock never runs ahead; readable again after a crash |
| Control channel: same files, `api.c`, `vision/guardian_vision.py` | target size, rate, network size, `ctrl_seq` | set_target, get_target, the detector's poll | governor, API and start-up write; detector reads | three writers without a lock, fields stored one by one, `ctrl_seq` last | the detector ends on the last request, never on a mixture |
| Mailer: `mailer.c` | FIFO of 8, one pending detection, due time, last send times, stop flag | notify_detection, notify_event, worker, stop | detection thread, supervisor, MQTT and API offer | timed waits, ownership of attachments, lost wake-ups, starvation, shutdown while sending | debounce kept, attachments owned once, pending detections leave, stop returns |
| Supervisor: `supervisor_loop` in `events.c`, `sdctl.c` | grace, last restart, consecutive restarts, stale flags, thermal level | one pass every 5 s | reads the transport's real-input clock, restarts the detector's unit, publishes and mails | several timers of different length against a source that comes and goes | restarts bounded, loss and return reported, the level stays on its ladder |
| Detection consumer: `detect_loop` in `events.c` | last seen timestamp, confirmation counters, cooldowns | one poll per 100 ms or so | transport, guard mode, mailer, Telegram, MQTT, black box | the answer of the mailer is stored as a fact; guard mode read once | a change needs two agreeing frames; what the black box says was mailed was mailed |
| Black box: `store.c` | event ring (SQLite trigger), statistics | open, log, stats, close | detection thread, API, supervisor | four separate transactions, ring resized at start, kill in between | ring never above its size, newest rows kept, statistics agree with rows |
| Telegram: `telegram.c` | send queue with two reserved slots, reply slots, poll offset | alert, reply, worker with two attempts, poller, stop | detection thread, supervisor, API, Telegram's servers | retries, priming of the offset, batches, long poll during shutdown | alerts find a slot, commands at most once, stop returns |
| MQTT: `mqttc.c` | connected flag, active broker, last message time | callbacks, publish, fail-over supervisor, stop | every publisher, libmosquitto's thread | check-then-act against callbacks, last will | one broker at a time, `online` is true when connected |
| Image processing: `guardian_vision.py` | RTSP slot, inference slots, result, adaptive rate | main loop, capture thread, inference worker | transport, control channel | results in flight across a change of settings | no result of old settings is published as current |
| Life cycle: `main.c` | STOP flag, READY | start, wait, tear down | all modules | a signal between test and `pause()`, partial start | all started modules are stopped, in order |
| Web server and API: `httpd.c`, `api.c` | per-request body, stream state | body chunks, setters, snapshot, MJPEG | all modules | one reader per stream, request bodies in chunks | the handler sees the body that was sent |
| State record: `state.c` | one struct under one mutex | getters, setters | all threads | none by itself | atomic accessors |
| Configuration, log, helpers, sensors | none to speak of | parse, format, read `/proc` | start-up, telemetry | none | sequential |
| Proxy, units, laptop tools | none | forward, restart, stream | the daemon | `Restart=always` is what others rely on | declarative |

The hazards of the code, each at its line and with the properties aimed at it,
are listed in `PROJECT.json`. Five have none; each says why.

## 2. The modules

| Module | Role |
|---|---|
| `FrameChannel` | abstract: what the transport promises its readers |
| `ShmFrame` | the transport, one step per access to shared memory; implements `FrameChannel` |
| `ShmFrameProofs` | theorems about `ShmFrame` |
| `ShmFrameRefines` | the proof that `ShmFrame` implements `FrameChannel` |
| `Mailer` | both queues, the worker, time, shutdown |
| `MailerProofs` | theorems about `Mailer` |
| `Supervisor` | watchdog and thermal governor with their surroundings |
| `SupervisorProofs` | theorems about `Supervisor` |
| `Detect` | the detection consumer composed with the black box it writes to |
| `DetectProofs` | theorems about `Detect` |
| `Telegram` | send worker and poller, with the Bot API as their surroundings |
| `TelegramProofs` | theorems about `Telegram` |
| `Control` | targets in the segment, their three setters, the detector that picks them up, its inference thread |
| `ControlProofs` | theorems about `Control` |
| `Mqtt` | the MQTT client, libmosquitto and two brokers; has no run of its own |
| `Daemon` | start, signal and stop of the process; extends `Mqtt` |
| `DaemonProofs` | theorems about `Daemon`, `Mqtt` included |

The specification modules are small enough to be instantiated by the `.cfg`
files directly. Each contains, beside the mapped actions, the *variants* that
its comments call mutants: the same action with one plausible bug. No
next-state relation uses them. `PROJECT.json` says which property each breaks;
replacing the action by its variant shows that the property can fail.

### ShmFrame

A frame is a natural number, its capture time; the detector's clock is
monotonic over its restarts, so the number only grows. A slot is its sequence
number and two parts: `head` (the header fields, among them the timestamp that
`shmframe_last_ts` reads) and `body` (the detection list and the JPEG). A part
carries the number of the frame whose bytes it holds, and a snapshot with
`head # body` is a torn one.

| Action | Code |
|---|---|
| `WriteMagic`, `MarkUnpublished` | the two stores of `shmframe_open` into a segment without magic; a detector may attach in between |
| `Attach` | `ShmWriter.__init__`: slot 0, sequence numbers 0, whatever the segment holds |
| `BeginWrite`, `WriteHead`, `WriteBody`, `Seal`, `Flip`, `Account` | the stores of `ShmWriter.publish` in order; `Account` is the frame total and, unless the frame is a placeholder, `last_real_ts` |
| `Crash` | the detector dies between any two stores; `Attach` is its restart |
| `Poll`, `PollTs` | `shmframe_last_ts` and the comparison of its caller (`detect_loop`, `mjpeg_cb`) |
| `StartRead` | a caller that reads without polling (the API, Telegram's preview); `seen` is `NeverPolls` for it |
| `LoadActive`, `LoadSeq`, `CopyHead`, `CopyBody`, `Check`, with `Retry` | one attempt of `read_slot`, retried up to `MaxAttempts` times |
| `Consume` | the caller is done; a polling caller stores the timestamp it saw |
| `DaemonRestart` | the readers lose their locals, the segment stays; a daemon that died between the two stores of `shmframe_open` never makes up for the second |

`newest` and `sealed`, and `floor` and `exposed` in a reader's locals, are
history. Memory is sequentially consistent: the C side uses acquire loads and fences, the
Python side has no barriers, so reordering by the processor is outside the
model.

`FrameChannel` is the same transport without slots, sequence numbers and
retries. A writer begins, completes and publishes frames; an attempt to read
fails, or returns one whole, completed frame that is no older than the frame that
was published when the attempt began. What restarts cost is part of the promise:
a restarted writer gives up the frame it was at, and may begin as many frames as
there are buffers unnoticed by attempts under way (`unnoticed`, `exposed`). Only
those attempts may return two parts of different frames, and even they return
nothing older than what was published when they began. A channel whose
preparation was cut short (`prepared`) may show a frame of zeros before the first
publication. `unnoticed` is mapped to the number of slots whose sequence number
is not the one the detector is going to continue from.

Fairness: `WF(Open)` and `WF(Detector)`. The detector publishes placeholder
frames even without a source, and its unit has `Restart=always`. Nothing is
assumed of the readers.

### Mailer

One step per critical section. Producers (`NotifyDetection`, `NotifyEvent`)
run under the mutex and wake the worker; the worker checks under the mutex
(`TakeEvent`, `TakeDetection`, `Wait`, `Exit`), waits (`WaitOver`) or sends
outside the mutex (`Sent`). `Stop` and `Drain` are the two halves of
`mailer_stop`, before and after the join. A message is the heap block that
holds its JPEG; `NULL` stands for a frame without one and for a failed
`malloc`.

Times are distances from now: `dueIn`, `sinceDet`, `sinceKind`, `busy`. That
keeps the state space finite without bounding the run, because a distance that
exceeds the longest interval it is compared with is not counted further. `Tick`
is one unit of time. It does not happen while the worker holds the mutex, while
a timed wait is due, or when a send has used up curl's time-out.

`WaitOver` may also come early: the timed wait uses the wall clock, which may
be stepped forward, and condition variables may wake spuriously. A wall clock
that is stepped backwards would make the wait late; that is not modelled.

Fairness: weak for the worker's own steps, for the end of a *timed* wait (an
untimed one need not end by itself), and for `Drain`; strong for `Tick`: time
goes on however often the producers call.

### Supervisor

One `Pass` is one iteration of `supervisor_loop`: exactly one of `Restart`
(accepted or refused by systemd), `HoldOff`, `Healthy` and `Patient`, followed
by the thermal governor (`Govern`). `Tick` is `nap(5.0)` together with what the
surroundings do meanwhile: a detector that has loaded and has its source
publishes real frames, otherwise the last one ages. `SourceChanges` and
`TemperatureChanges` let the surroundings change at any moment, `Reboot`
restarts the daemon, which forgets its counters while the segment keeps the
age of the last real frame. With the counters goes their history `futile`: the
cap of five restarts is one per life of the daemon.

A nap and the pass after it take a little more than five seconds together, so
what is *n* ticks old is older than *n* times five seconds: a strict comparison
of the code is a comparison with `>=` of distances in ticks. `last_restart = 0.0`
makes the distance to the last restart the uptime of the board: both a fresh and
an old board are initial.

`DetectorRestarts` is every restart of the detector that is not the watchdog's:
it crashes and systemd starts it again (`Restart=always`), or the API's
`restart_vision` does. Nobody sets a grace period for it. What is left of an
earlier one, or the time until the last real frame counts as old, may outlast the
load (`Covered`); if neither does, the history `stray` says so until the watchdog
restarts the detector itself, and such a load may be interrupted. `LoadTime`
(15 s) is an assumption about the detector; what matters is that it is shorter
than the 45 s of grace.

Fairness: `WF(Tick)` and `WF(Pass)`: the thread runs and time passes.

### Detect

`detect_loop` and `store.c` in one module, because what matters about a row is
how it relates to what was done for it. `pc` is the place of the thread: the
three steps of `store_open`, `poll`, the branches of a confirmed change, and the
four transactions of `store_add_detection`. A frame is its person count;
synthetic frames change nothing and so are stuttering steps. The two frames of
a confirmation are taken as given: that one frame may be read twice is the
subject of `shm_consumed_twice`.

| Action | Code |
|---|---|
| `Start`, `DropTrigger`, `CreateTrigger`, `Trim` | `store_open`: the two statements of the trigger commit separately, the result of the trim is ignored |
| `Unchanged`, `Unconfirmed`, `Confirmed` | one real frame in `detect_loop`; guard mode is read in `Confirmed` |
| `Cleared`, `Alarm`, `Mail` | the once-a-minute rule, the alarm, `mailer_notify_detection` and `telegram_notify_detection` |
| `Insert`, `InsertFails` | the row with the deletion by its trigger |
| `CountEvent`, `CountPersons`, `RaisePeak`, `UpdateFails` | the three statistics; the first that fails skips the rest |
| `SetGuard`, `MinutePasses`, `Kill` | the API, the clock, a crash at any step |

`rows` are ids with their guard flags. `truth`, `lost`, `seen`, `raised` and
`bounded` are history. The mailer's answer is either value, as in `Mailer`.

Fairness: weak for each part of the thread. `WF` of a frame that shows what the
last one showed says only that the camera goes on filming; which counts it
shows is free.

### Telegram

The worker takes from the queue first, then the detection that is due, and
makes up to `TG_ATTEMPTS` attempts with a nap between them. The poller primes
itself with offset -1, then repeats `getUpdates`. The Bot API is two numbers:
`sent` and `confirmed`. A request with an offset confirms what lies below it,
*also when its answer is lost* (`PrimeFails`, `PollFails`). This is how the code
uses the service, and the map calls it external.

| Action | Code |
|---|---|
| `NotifyDetection`, `NotifyEvent` | the two notifiers, with debounce, floor and the ring's capacity |
| `TakeQueued`, `TakeDetection`, `Post`, `NapOver`, `Exit` | `worker`, `tg_post`, `retry_nap` |
| `PrimeAnswered`, `PrimeFails` | the priming call of `poll_worker` |
| `PollAnswered`, `BacklogAnswered`, `PollFails`, `PollerExits` | its loop; `BacklogAnswered` is the batch that an unprimed poller throws away |
| `Dispatch` | `process_updates` and `handle_message` for one update: stranger, command or chatter, with `tg_enqueue_reply` |
| `Stop`, `PollerJoined`, `Drain` | `telegram_stop`: poller first, then the worker, then the rest is freed |
| `Crash` | the process dies, also in the middle of `telegram_stop`, and is started again; only the Bot API remembers |

`actsFrom` is history: the first update that the poller of this life is going to
act on, which is the one after the priming call or, if that failed, after the
batch that is thrown away.

Time is a choice here: `DebounceOver`, `FloorOver` and `StrangerFloorOver` may
happen at any moment. No property depends on how long an interval is; that is
`Mailer`'s subject, whose code is the same.

Fairness: weak for both threads, strong for `Answered`: requests that are
repeated for ever are answered in the end. Without it only `StopCompletes` would
be left. Taking a detection that is due has no property: the queue is served
first, so alerts and replies that keep coming may starve it.

### Control

`shmframe_set_target` stores up to three fields and then raises `ctrl_seq`; the
detector compares `ctrl_seq` and then loads the three fields. All of these are
steps of their own. `next` and `want` hold how far each setter is: `main`
(`events_start`), `governor` (`apply_thermal`) and the web server's threads
(`Clients`, one field per request). Those serve requests before `events_start`
has set the configured targets. The inference thread is here because
its result is only valid for the geometry that the targets prescribe.

| Action | Code |
|---|---|
| `Govern`, `Request`, `RestartDaemon` | the callers of `shmframe_set_target` |
| `StoreField`, `RaiseSeq` | its stores |
| `ReadSeq`, `ReadField`, `Apply` | the control poll of the main loop |
| `Frame` | the rest of an iteration: resize, hand-over to a free worker, draw the newest boxes |
| `CompareGeometry`, `StoreResult`, `InferenceFails` | `infer_worker` |
| `RestartDetector` | a new detector with its own configuration |

`overridden` is history. Fairness: weak for the setters, the main loop and the
inference thread; strong for `Frame(TRUE)`, because `MOTION_HEARTBEAT` hands a
frame to a free worker however still the scene is, and for `CompareGeometry`,
so that inference does not fail for ever.

### Mqtt and Daemon

`Daemon` walks through `StartOrder` and `StopOrder` as `main()` does.
A subsystem is `no`, `up`, `failed`, `stopping` (its RUN flag is cleared), `told`
(MQTT only: `offline` is published) or `closed`. What threads do is in the other
modules; here a thread is a name and the set of subsystems it calls into
(`UsedBy`, one definition for each kind of thread). One connection of the web server is a request or a stream; the
accumulation of its body is the function `Uploaded`.

| Action | Code |
|---|---|
| `Start`, `StartFails`, `WorkersFail` | start-up; Telegram and MQTT may fail; `events_start` may fail half-way |
| `Signal`, `TestStop`, `Pause` | `on_signal` and the loop around `pause()` |
| `SkipStop`, `TellToStop`, `SayOffline`, `CloseSubsystem`, `Return` | the tear-down with its joins; `SkipStop` also destroys an MQTT client that `mqttc_start` left half-way, which is not connected |
| `ThreadsReturn` | the threads of a subsystem that was told to stop leave their loops |
| `Connect`, `UploadChunk`, `OpenStream`, `RequestDone` | `route`, `mjpeg_cb`, `request_done` |
| `Killed` | a crash, or SIGKILL at any moment |
| `Connack`, `OnConnect`, `LinkLost` | libmosquitto, `on_connect`, `on_disconnect` |
| `Decide`, `SwitchHost` | the fail-over thread: it looks, and acts later |
| `Outage`, `WillPublished` | the network and the brokers |

Of libmosquitto and the brokers the model takes: the client goes on trying the
address it was last given, also after `mosquitto_disconnect` and
`mosquitto_connect_async`; a broker publishes the will of a session that ends
without a DISCONNECT or is taken over by a new connection of the same client;
what is sent on a connection arrives in order until the connection is cut.
`cut` is a connection that is dead although nobody noticed yet.

`lingering` is history, and names a weakness of the code. The fail-over thread
disconnects without publishing `offline` (`mqttc.c:109`), and so a connection
that came up since it looked is closed cleanly, without will, with `online`
retained. The same happens if `on_connect` runs between the last two statements
of `mqttc_stop`. `StatusHonest` excepts exactly these.

Fairness: weak for `main()`, the threads' return, the end of connections while
the server stops, the fail-over thread, and for noticing a dead link and the
passing of `SWITCH_AFTER`; strong for `Connack` and `on_connect`: fail-over makes
a fresh attempt, so that an attempt succeeds in the end although libmosquitto's
own delay between attempts (30 s) is longer than `SWITCH_AFTER` (25 s). Nothing is
assumed of `Signal`, `Killed`, `Outage` or the clients of the web server.

## 3. The runs

| Run | Configuration | Shows |
|---|---|---|
| `shm` | `ShmFrame.cfg` | one reader of either kind, five frames, two restarts anywhere, two attempts per read: no torn snapshot outside the restart exception, snapshots fresh and never older than the one before, the real-input clock behind the publication, the active slot readable again after a crash; every step is a step of `FrameChannel` or a stutter |
| `shm_torn_after_restart` | `ShmFrameTorn.cfg` | violated: with one restart a torn snapshot is returned |
| `shm_consumed_twice` | `ShmFrameTwice.cfg` | violated: a polling consumer sees one frame twice |
| `mailer` | `Mailer.cfg` | two modes, three kinds of alert, a FIFO of two, sends that take up to a tick, shutdown at any moment: ownership, debounce, delivery once the alerts cease, and shutdown |
| `mailer_not_the_worst` | `MailerWorst.cfg` | violated: a smaller observation replaces a larger one |
| `supervisor` | `Supervisor.cfg` | all durations of the code, one daemon restart, and one restart of the detector by others: the restart cap, both reports, loads that nobody disturbs, a thermal level that stays on its ladder |
| `supervisor_never_connected` | `SupervisorNever.cfg` | violated: without a first real frame the cap does not hold |
| `detect` | `Detect.cfg` | the ring holds the newest rows and the statistics agree, through failing statements, kills and a ring size that changes; changes are confirmed; rows tell whether the alarm was raised; a scene that stays is reported |
| `telegram` | `Telegram.cfg` | replies leave room for alerts; updates are acted on in order and never twice, a primed poller passes none of those that follow, stale ones are skipped; commands are handled in the end; shutdown ends and leaves nothing behind |
| `telegram_crash_loses` | `TelegramCrash.cfg` | violated: the rest of a batch is lost when the process dies |
| `control` | `Control.cfg` | no update of the targets is missed and no two rungs are mixed; the detector ends up at the rung of the ladder or at the API's last request; boxes fit the frames they are drawn on |
| `daemon` | `Daemon.cfg` | nothing is used before it is started or after it is closed; bodies fit their buffer; the retained status is honest; a signal ends the process; the client finds the broker that can be reached |

Deadlock is not checked: the frames of the transport are bounded, the mailer,
Telegram and the process end after shutdown, the counters of the other runs are
bounded, and the supervisor's runs differ only in stuttering.

Why the bounds are enough.

- *Transport.* Five frames let the detector write each slot twice and publish a
  fifth frame over the first. The torn read needs one restart and two frames,
  the frame consumed twice needs four. Readers never
  influence each other or the detector, so one reader is enough, which polls or
  does not (`NewReaders`); the theorems, the refinement among them, hold for any
  number.
- *Mailer.* A tick is curl's 45 s, and every interval is rounded up to ticks: the
  floor of 120 s is three. A FIFO of two can be empty, partly full and full.
  Debounce 2 and guard debounce 1 keep the order of the code's 30 s and 3 s, and
  the gap between them is what a change of mode could break. Three kinds at one
  tick each fill the floor of three, so the worker can be occupied without a pause:
  `mailer` includes the executions in which a detection starves.
- *Supervisor.* No scaling: stale after 30 s, grace 45 s, spacing 60 s, five
  restarts, three thermal steps, in passes of 5 s. One restart of the detector by
  others, at any moment of any phase of the watchdog; `SupervisorNever.cfg` has
  none, so that the counterexample is the watchdog's own doing.
- *Detect.* Two persons give a count that rises, falls, and flickers between
  two values other than the reported one. Rings of one and two rows let the ring
  shrink and grow between starts; three rows overflow both. After `MaxRows` rows
  the scene stays as it is, but nothing else stops. Two faults let a failed
  statement meet a kill, and a failed `CREATE` the start that follows.
- *Telegram.* A queue of three with two reserved slots leaves one for replies.
  Two updates per batch and three updates in all give full, partial and empty
  batches, and a backlog longer than a batch; one crash separates what the
  poller has handled from what the server has confirmed. Two attempts are the
  first and the last.
- *Control.* Two levels of the governor, two requests of the API (narrower
  frames, detection off), one restart of either process at any store or load. One
  client suffices for two setters that mix, since it meets `main()` and the
  governor; requests are made until `ctrl_seq` is 2, which those under way then
  exceed. Further levels are further values of the same fields, and `Settled` is
  proved for any number of clients.
- *Daemon.* All subsystems, all threads, any start may fail. Bodies of up to four
  chunks in five sizes, two just below a power of two and two that together reach
  the limit to the byte. One outage changes the set of reachable brokers to any
  other; that more of them do no harm to `StatusHonest` is a theorem.

What the mailer promises about delivery is conditional. The FIFO is served first,
and three messages of 45 s fill the floor of 120 s, so a pending detection may
never leave while alerts keep coming. `DetectionGoesOut` says that it always does;
put into `Mailer.cfg` it is refuted, and so it is with the code's four kinds
(both intervals 1, 890 000 states). It takes a mail server that times out on
every message for as long as the kinds keep being raised. `DetectionLeaves` says
what is left: once the FIFO stays empty, the detection goes out. That is what a
lost wake-up would break.

## 4. The theorems

All hold for every value of the constants that satisfies the modules' named
assumptions (`ShmAssumption`, `MailerAssumption`, `SupervisorAssumption`,
`DetectAssumption`, `TelegramAssumption`, `ControlAssumption`,
`DaemonAssumption`): any queue, ring, batch, number of frames, crashes, faults
or outages.

| Theorem | Statement |
|---|---|
| `ShmFrameProofs!TypeCorrect` | `Spec => []TypeOK` |
| `ShmFrameProofs!Invariance` | `Spec => []IInv` |
| `ShmFrameProofs!SnapshotsAreWhole` | `Spec => []NoTornSnapshot` |
| `ShmFrameProofs!SnapshotsAreFresh` | `Spec => []FreshSnapshot` |
| `ShmFrameProofs!ConsumersGoForward` | `Spec => []NeverOlder` |
| `ShmFrameProofs!ClockIsBehind` | `Spec => []RealInputIsPublished` |
| `ShmFrameRefines!TransportImplementsChannel` | `Spec => ImplementsChannel` |
| `MailerProofs!TypeCorrect` | `Spec => []TypeOK` |
| `MailerProofs!AttachmentsOwned` | `Spec => []JpegsOwned` |
| `MailerProofs!IntervalKept` | `Spec => DebounceKept` |
| `MailerProofs!SleepsWithoutWork` | `Spec => []NoLostWakeup` |
| `SupervisorProofs!TypeCorrect` | `Spec => []TypeOK` |
| `SupervisorProofs!RestartCap` | `Spec => []RestartsBounded` |
| `SupervisorProofs!FlagIsTrue` | `Grace > 0` implies `Spec => []FlagTellsAge` |
| `SupervisorProofs!LoadsInPeace` | `LoadTime <= Grace` implies `Spec => LoadsUndisturbed` |
| `DetectProofs!TypeCorrect` | `Spec => []TypeOK` |
| `DetectProofs!RingHoldsNewest` | `Spec => []RingKeepsNewest` |
| `DetectProofs!StatisticsAgree` | `Spec => []StatsAgree` |
| `DetectProofs!ChangeIsConfirmed` | `Spec => ConfirmedChange` |
| `DetectProofs!RowsTellAlarms` | `Spec => RowTellsAlarm` |
| `TelegramProofs!TypeCorrect` | `Spec => []TypeOK` |
| `TelegramProofs!AlertsFindRoom` | `Spec => []AlertsKeepRoom` |
| `TelegramProofs!HandledAtMostOnce` | `Spec => []AtMostOnce` |
| `TelegramProofs!ActedOnInOrder` | `Spec => HandledInOrder` |
| `TelegramProofs!NoneForgotten` | `Spec => []ActsOnAll` |
| `TelegramProofs!BacklogIsSkipped` | `Spec => StaleSkipped` |
| `TelegramProofs!StopsEmpty` | `Spec => []StoppedIsEmpty` |
| `ControlProofs!TypeCorrect` | `Spec => []TypeOK` |
| `ControlProofs!TargetsArrive` | `Spec => []Settled` |
| `DaemonProofs!TypeCorrect` | `Spec => []TypeOK` |
| `DaemonProofs!StatusIsHonest` | `Spec => []StatusHonest` |
| `DaemonProofs!NobodyUsesTheDead` | `Spec => []UsesAreLive` |
| `DaemonProofs!BodyAlwaysFits` | `Spec => []BodyFits` |

*Transport.* `NoTornSnapshot` speaks of a reader that is done; what makes it
true is what its locals say about the slot while it copies. `IInv` therefore
adds: the detector's private counters agree with the slot it writes, and what
it has stored so far is the current frame (`WriterInv`); a slot with an even
number is whole (`SealedIsWhole`); the active slot is never behind the
published frame (`FramesOrdered`); and each reader's copied parts equal the
slot's as long as the slot still has the number the reader loaded
(`ReaderInv`). The last is stable because an unexposed reader's number is never
above the slot's, and writing only raises it. The proof takes the detector's
steps that change slots, those that do not, and the reader's steps separately;
a reader's step leaves every other reader's clause alone (`ReaderFrame`).

Two further parts rest on `IInv`. `ClockInv`: the clock is not ahead of the
published frame, and when `publish` gets to storing it, the frame at hand is the
published one. `GatesInv` says, reader by reader,
that once the gate was passed, or once the slot that was polled is no longer
active, the active slot is not older than what the reader was given before. It
is stable because nothing but a flip to the newest frame changes `active`.

The refinement maps the odd number to `Begin`, the seal to `Complete`, the flip
to `Publish`, the load of `active` to `Attempt`, the comparison to `Return` or
`Fail`, the hand-over to `Release`, and the two restarts to those of the channel;
the other steps change nothing the channel sees. It holds with restarts, because
the channel says what they cost (finding 1) and nothing more. Beside `IInv` it
needs `ChannelInv`: an even number marks a slot that holds a completed frame or
none yet (`WholeIsSealed`, with `sealed`), and a reader outside an attempt has no
floor, is not exposed, and holds no part of a frame that was not captured yet
(`AttemptInv`). The counting is in `DetectorSimulates`: a write that exposes
readers goes to a slot that is out of step and puts it in step, so each detector
does it at most once per slot. The same run refutes the obvious repair: a detector that
continues the numbers it finds in the segment (`AttachResumesSeq`) starts odd
after a crash in the middle of a write, and its half-written slots look whole.

*Mailer.* `JpegsOwned` is inductive with the type invariant and "no job unless
sending". The lemmas about sequences say which blocks `Append` and `Tail` leave
in the FIFO. `DebounceKept` is an action property; it follows from
`DueAfterDebounce`: the pending message cannot be due before its own mode's
debounce has passed since the last detection mail. Time preserves it because
`dueIn` falls only as fast as `sinceDet` grows, and where `sinceDet` stops
counting it already equals the longer debounce (`GuardDebounce <= Debounce` is
the assumption that is needed here). `NoLostWakeup` says that a worker that sleeps
has nothing to do and that it sleeps without a time limit only while nothing is
pending; every producer that makes that false also wakes it (`Broadcast`), and this
is the safety half of `DetectionLeaves`.

*Supervisor.* `futile` counts accepted restarts since the last real frame, and
the code never looks at it. `FutileCounted` ties it to the code's counter: once
there was a real frame, `futile <= consecutive`, and a frame that is young
enough to clear the counter has already cleared `futile`. The clause has
`have` in it, and has to: without a first frame it is false, which is what
`supervisor_never_connected` shows. `LoadsUndisturbed` rests on `GraceCovers`: the
rest of the loading is never longer than the rest of the grace period or the time
until the last real frame is old, whoever started the detector, except after a
restart by others that neither of the two covers (`stray`). Its hypothesis holds
for the code's 45 s if a detector loads within them; with a slower one, restarts
hit detectors that load. `FlagTellsAge` needs a grace period at all: without one,
the flag of a new watchdog would be wrong until its first pass.

*Detect.* Four independent parts. `HitsShown`: a count that has a hit is the
count of the last frame, and after a frame of another count than the confirmed
one there is a hit, so the hit that confirms it makes two in a row, and two in a
row confirm it.
`AlarmFollowsGuard`: on each way to the row the guard flag of the transition says
whether the alarm step was passed. `StatsCatchUp`: during the three transactions
the statistics lag behind `truth` by exactly what the place in the code still
owes; that is an equation as long as nothing was lost and an inequality
afterwards. `RingInterval`: the rows are an interval of ids that ends with the
last one, one row each; trimming an interval from below leaves an interval,
and its length is its cardinality (`FiniteSetTheorems`).

*Telegram.* `AlertsKeepRoom` follows from `RepliesBounded`, which the reserve
keeps, and from a full ring being the disjoint union of its alerts and its
replies. For the poller the state at the server must be related to what was
handled. `BatchFresh`: a batch is a run of updates without gap, above both the
confirmed ones and the offset. `HandledBehind`: handled updates lie within one
batch above the confirmed ones. That is what saves `HandledInOrder`, and with it `AtMostOnce`, after a crash in
the middle of a batch: the poller comes back unprimed, and if its priming call
fails it throws away one batch, which is precisely as much as could have been
handled. `NonePassedOver`: from `actsFrom` on, whatever lies below the offset or is
confirmed was handled or is in the batch at hand. `ActsOnAll` speaks of one life
of the poller; section 5 has what a crash costs beyond that, and what a poller
loses that is not primed.

*Control.* `Settled` looks at a moment when no setter is at work. Its
strengthening says what a detector that loads in such a moment has: if the
`ctrl_seq` it has read is still the current one, the fields loaded so far are
those in the segment (`LoadsTargets`); if not, `SeqBehind` says that it will look
again. A setter at work needs no clause for that: it is going to raise
`ctrl_seq`, beyond what any detector has seen. The second half of `Settled`, that
the targets are those of the rung the level names, needs one: `RungPending` says of
each field that it has the rung's value already or that the governor or `main()`
has it still to store. `BootFirst` says that the governor does not start before
`main()` is done, so that the two never mix rungs. `RestartDaemon` fits into this because a new daemon
starts as a setter at work.

*Daemon.* `StatusHonest` speaks of the end of the process. Throughout, a
connection that is not cut has a session (`LinkHasSession`), a broker that tells
`online` has a session or was left with a late DISCONNECT (`OnlineIsWatched`), and
a connection that may be closed cleanly without `offline` does not tell `online`
(`EndsOffline`).

`UsesAreLive` has an invariant of its own, `OrderInv`. While `main()` starts, what
is before its position is there and what is behind it untouched
(`StartedInOrder`); while it stops, what is before its position is down
(`StoppedInOrder`); threads and the connection have hosts that are not closed
(`UsersAreHosted`); and what the users of a subsystem that is up would call is
there (`NeedsAreLive`). Two lemmas carry the proof, `NeedsStartFirst` and
`NeedsStopLast`: in the two orders of `main.c` everything a subsystem's users need
is started before it and stopped after it. A new subsystem, or a new call between
two of them, has to keep these two.

`BodyFits` is about a recursive function, `Uploaded`: the buffer after every chunk
of a body. Its values are computed by induction over the number of chunks, without
an induction theorem: the least number for which a claim fails (`LeastExists`, from
the well-foundedness of the natural numbers) has a predecessor for which it holds.
The step from chunk to chunk is that the smallest sufficient capacity exists
because the body limit is itself one (`DaemonAssumption`), and doubling stops there.

Three theorems state definitions that no run lists. Two because their runs check
the liveness these are the safety halves of: `NoLostWakeup` beside
`DetectionLeaves`, `FlagTellsAge` beside `SourceReported`. `AtMostOnce`, the third,
follows from `HandledInOrder`.

Model-checked only: the liveness properties `ReadableAgain`, `DetectionLeaves`, `StopCompletes`, `SourceReported`,
`SceneReported`, `CommandHandled`, `Converges`, `BoxesFit` and
`Reconnects`, which rest on fairness and so are out of the proof system's reach.

## 5. Where code and text disagree

1. `shmframe.h:19-20` promises that a reader of a torn slot retries. A restarted
   detector numbers its writes from 0 again over slots that hold old numbers, so
   a torn copy can pass the comparison (`shm_torn_after_restart`).
2. `events.c:76` wants two consecutive agreeing frames. The gate reads a
   timestamp without its sequence number and `shmframe_read` loads `active`
   again, so one frame can be consumed twice and agree with itself
   (`shm_consumed_twice`, without any restart).
3. `mailer.h:24-25` says that the mail carries the worst observation of its
   interval. The pending message is replaced without a comparison
   (`mailer_not_the_worst`).
4. `events.c:334-336` says that the watchdog gives up after five failures. While
   no real frame was ever seen, each restart's own grace period passes for a
   recovery and clears the count (`supervisor_never_connected`).
5. `telegram.c:990-992` says that a crash in the middle of a batch replays it. The
   offset lives in the poller's thread, and the priming call of the next life, with
   offset -1, forgets everything before the newest update: the rest of the batch is
   lost (`telegram_crash_loses`). That is also why nothing is handled twice.

Further, without a run of their own:

- `mailer.h:19-21` says that the worker fires a pending detection the instant its
  window opens. The FIFO is served first (`mailer.c:249`), and three kinds of alert
  that time out after 45 s fill the floor of 120 s, while there are four kinds: the
  detection may wait for ever. Section 3 says what TLC makes of `DetectionGoesOut`.
- `telegram.c:1090-1091` says that the first batch is what Telegram had queued if
  priming failed. An empty backlog counts as a failure too (`1060-1063`), so that
  the first batch sent afterwards, however fresh, is thrown away. TLC refutes
  `FreshNotDropped` with the constants of `Telegram.cfg` and no crash at all.
  `StaleSkipped` and `CommandHandled` speak of primed pollers for this reason.
- `mailer.c:409-410` says that a replaced message's due time stays put, but the
  code computes it afresh. The code is right: keeping it would break
  `DebounceKept` when the mode changes (the variant `DueKept`).
- `telegram.h` makes the mailer's promise of the worst observation as well, and
  keeps it as little.
- `telegram.c:566-570` says that alerts always win. They do as long as no more
  than the two reserved slots' worth of them waits; that is what `AlertsKeepRoom`
  says.
- `main.c:164-165`: a signal between the test of `STOP` and `pause()` is noticed
  only with the next signal (`asleep`); `StopCompletes` of `Daemon` excepts it.
  systemd's SIGKILL then ends the process.
- `api.c:372`: after a request the governor's targets come back only with the
  next change of level. `Converges` excepts it (`overridden`).
- `guardian_vision.py:980-982`: after a change of width alone the boxes of the
  old width stay until the next inference. `BoxesFit` therefore says "in the end".
- A body chunk that exceeds the limit is dropped, smaller ones behind it are not
  (`httpd.c:330`): the body fits but has a hole.
- `events.c:437-445`: when a worker thread cannot be created, those created before
  are not joined while `main()` closes what they use. `UsesAreLive` excepts them.
- Arming guard mode while somebody is in view raises no alarm (`events.c:159`), a
  restart returns guard mode to its default (`state.c:24`), and the first row for a
  cleared scene is dropped during the first minute (`events.c:146`). `Detect` has
  all three; no text denies them.

## 6. What is left to do

Every step of the original plan has its module. What a continuation would take
up, in this order:

| What | Why it is not there | How |
|---|---|---|
| a module for ingest (`MjpegSource`, `RtspSource`, placeholder frames, rate limit) | its shared state is one slot with one writer; what the rest of the system sees of it is in `Supervisor` (a source that comes and goes) and `ShmFrame` | capture thread and main loop over the slot |

## 7. What is not modelled

- Pixel data, JPEG coding, drawing, motion detection and the network's inference:
  no state that another part depends on.
- The detector's ingest: reception, reconnection and dropping of a backlog, the
  placeholder frames, the rate limit of the main loop, the vehicles and their
  hysteresis (they are only displayed).
- MIME assembly, SMTP, Telegram's and MQTT's wire formats, JSON: data only. What
  their failure means for control (a send that fails, a call that times out) is
  in the modules. So a batch of updates larger than the receive buffer
  (`telegram.c:654`), which would fail again and again, is outside `CommandHandled`.
- A CONNACK that refuses (`mqttc.c:46-53`), and a fail-over thread that could not
  be created.
- `telemetry_loop`: it keeps no state. It is one of the threads of `Daemon`.
- The mailer's and Telegram's health records, counters and log lines: nothing
  reads them but the status page.
- The web server's URL table, authorisation, page and answers; the read-only
  queries of the black box; the API's formatting and the commands that forward one
  call (reboot, snapshot). Restarting the detector is in `Supervisor`.
- Configuration values, except as constants, and the parser that reads them; the
  sensors.
- Processor reordering between the Python writer and the C readers.
- The proxy, the units and the laptop's scripts, except for what the daemon's
  fairness takes from the units.
