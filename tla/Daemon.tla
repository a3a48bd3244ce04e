------------------------------- MODULE Daemon -------------------------------
(***************************************************************************)
(* The life of the guardian process: main() starts the subsystems, waits   *)
(* for a signal and stops them again (main.c), around the threads they own *)
(* (events.c, mailer.c, telegram.c, mqttc.c) and the connections that the  *)
(* web server serves (httpd.c).  The MQTT client is the module Mqtt.       *)
(*                                                                         *)
(* The work of the threads is in the other modules: what matters here is   *)
(* which subsystems they use, and that they are joined.                    *)
(***************************************************************************)
EXTENDS Mqtt, Sequences, FiniteSetsExt

CONSTANTS
  FirstCap,    \* 1024: the first buffer of a body
  BodyLimit,   \* 64 KB: a chunk that does not fit any more is dropped
  Chunks,      \* the sizes in which bodies arrive
  MaxChunks    \* bound: the calls of route for one body

Capacities == {FirstCap * m : m \in {1, 2, 4, 8, 16, 32, 64}}

ASSUME DaemonAssumption ==
  /\ FirstCap \in Nat \ {0} /\ Chunks \subseteq Nat \ {0} /\ MaxChunks \in Nat /\ MaxOutages \in Nat
  /\ InitiallyReachable \subseteq Hosts
  /\ BodyLimit \in Capacities

StartOrder == <<"shm", "store", "curl", "mailer", "telegram", "mqtt", "httpd", "events">>

StopOrder == <<"events", "httpd", "mqtt", "telegram", "mailer", "store", "shm", "curl">>

Subsystems == {StartOrder[i] : i \in 1 .. Len(StartOrder)}
Optional == {"telegram", "mqtt"}      \* "allowed to fail"

Workers == <<"telemetry", "detect", "watchdog">>     \* in the order of their creation
Threads == {"telemetry", "detect", "watchdog", "mail", "sender", "poller"}

OwnerOf(t) ==
  CASE t \in {"sender", "poller"} -> "telegram"
    [] t = "mail" -> "mailer"
    [] OTHER -> "events"

\* The subsystems whose functions each thread and a connection call: the
\* telemetry reports the persons in the newest frame.
TelemetryUses == {"shm", "mqtt"}
DetectUses == {"shm", "store", "mailer", "telegram", "mqtt"}
WatchdogUses == {"shm", "mailer", "telegram", "mqtt"}
ConnectionUses == {"shm", "store", "mailer", "telegram", "mqtt"}
PollerUses == {"shm", "curl"}
SenderUses == {"curl"}

UsedBy(user) ==
  CASE user = "telemetry"  -> TelemetryUses
    [] user = "detect"     -> DetectUses
    [] user = "watchdog"   -> WatchdogUses
    [] user = "connection" -> ConnectionUses
    [] user = "poller"     -> PollerUses
    [] OTHER -> SenderUses

VARIABLES
  phase,     \* of main(): "start", "test", "pausing", "paused", "stop", "gone",
             \* "asleep" when it has paused after the only signal
  at,        \* main: its position in StartOrder or StopOrder
  STOP,
  sub,       \* per subsystem: "no", "up", "failed", "stopping", "told", "closed"
  running,   \* the threads that have been created and have not returned
  conn       \* one connection: "none", "request", "stream"

process == <<phase, at, STOP, sub, running>>
vars == <<process, conn, mqtt>>

-----------------------------------------------------------------------------
(***************************************************************************)
(* main() starts one subsystem after the other.  "stopping" says that the  *)
(* RUN flag of a subsystem is cleared and that its threads are joined,     *)
(* "told" that mqttc_stop has published its status as well.                *)
(***************************************************************************)
Starting(s) == phase = "start" /\ s = StartOrder[at]

StartThreads(s, threads) ==
  /\ sub' = [sub EXCEPT ![s] = "up"]
  /\ running' = running \union threads
  /\ IF at = Len(StartOrder) THEN phase' = "test" /\ at' = 1
     ELSE phase' = phase /\ at' = at + 1
  /\ UNCHANGED <<STOP, conn>>

Start(s) ==
  /\ Starting(s)
  /\ StartThreads(s, {t \in Threads : OwnerOf(t) = s})
  /\ IF s = "mqtt" THEN MqttStart ELSE UNCHANGED mqtt

\* What was started is stopped again; what failed is passed over (see AfterSkip).
GiveUp(s, threads) ==
  /\ sub' = [sub EXCEPT ![s] = "failed"]
  /\ running' = running \union threads
  /\ IF s \in Optional THEN phase' = phase /\ at' = at + 1
     ELSE phase' = "stop" /\ at' = 1
  /\ UNCHANGED <<STOP, conn, mqtt>>

StartFails(s) ==
  /\ Starting(s) /\ s \notin {"curl", "events"}
  /\ GiveUp(s, {})

\* events_start: the workers it could create are told to stop and not joined.
WorkersFail ==
  /\ Starting("events")
  /\ \E n \in 0 .. Len(Workers) - 1 : GiveUp("events", {Workers[i] : i \in 1 .. n})

-----------------------------------------------------------------------------
(***************************************************************************)
(* The signal.  It wakes main() from pause(), not on the way to it.        *)
(***************************************************************************)
\* Mutant: pause() is restarted when on_signal returns.
NotWoken == phase

Woken == IF phase = "paused" THEN "test" ELSE phase

Signal ==
  /\ phase # "gone" /\ ~STOP
  /\ STOP' = TRUE
  /\ phase' = Woken
  /\ UNCHANGED <<at, sub, running, conn, mqtt>>

TestStop ==
  /\ phase = "test"
  /\ phase' = IF STOP THEN "stop" ELSE "pausing"
  /\ UNCHANGED <<at, STOP, sub, running, conn, mqtt>>

Pause ==
  /\ phase = "pausing"
  /\ phase' = IF STOP THEN "asleep" ELSE "paused"
  /\ UNCHANGED <<at, STOP, sub, running, conn, mqtt>>

-----------------------------------------------------------------------------
(***************************************************************************)
(* main() stops what is up.                                                *)
(***************************************************************************)
Stopping(s) == phase = "stop" /\ at <= Len(StopOrder) /\ s = StopOrder[at]

\* A client of which mqttc_start has set up only a part is not connected, but
\* mqttc_stop destroys it.
AfterSkip(s) == IF s = "mqtt" /\ sub[s] = "failed" THEN "closed" ELSE sub[s]

SkipStop(s) ==
  /\ Stopping(s) /\ sub[s] \in {"no", "failed"}
  /\ at' = at + 1
  /\ sub' = [sub EXCEPT ![s] = AfterSkip(s)]
  /\ UNCHANGED <<phase, STOP, running, conn, mqtt>>

TellToStop(s) ==
  /\ Stopping(s) /\ sub[s] = "up"
  /\ sub' = [sub EXCEPT ![s] = "stopping"]
  /\ UNCHANGED <<phase, at, STOP, running, conn, mqtt>>

SayOffline ==
  /\ sub["mqtt"] = "stopping"
  /\ sub' = [sub EXCEPT !["mqtt"] = "told"]
  /\ MqttSayOffline
  /\ UNCHANGED <<phase, at, STOP, running, conn>>

\* Mutant: nobody waits for the threads.
NotJoined(s) == TRUE

\* MHD_stop_daemon waits for the connections.
Joined(s) ==
  /\ \A t \in running : OwnerOf(t) # s
  /\ s = "httpd" => conn = "none"

CloseSubsystem(s) ==
  /\ Stopping(s) /\ sub[s] = IF s = "mqtt" THEN "told" ELSE "stopping"
  /\ Joined(s)
  /\ sub' = [sub EXCEPT ![s] = "closed"]
  /\ at' = at + 1
  /\ IF s = "mqtt" THEN MqttClose ELSE UNCHANGED mqtt
  /\ UNCHANGED <<phase, STOP, running, conn>>

\* Without its process there is no thread and no connection.
Gone ==
  /\ phase' = "gone" /\ at' = 1 /\ running' = {}
  /\ sub' = [s \in Subsystems |-> "no"]
  /\ conn' = "none"
  /\ MqttGone
  /\ UNCHANGED STOP

Return == phase = "stop" /\ at > Len(StopOrder) /\ Gone

\* A crash, or SIGKILL when TimeoutStopSec has passed.
Killed == phase # "gone" /\ Gone

ThreadsOf(s) == {t \in running : OwnerOf(t) = s}

\* The threads of a subsystem leave their loops, the last of them here.
ThreadsReturn(s) ==
  /\ sub[s] \in {"stopping", "failed"} /\ ThreadsOf(s) # {}
  /\ running' = running \ ThreadsOf(s)
  /\ UNCHANGED <<phase, at, STOP, sub, conn, mqtt>>

-----------------------------------------------------------------------------
(***************************************************************************)
(* A connection of the web server, in a thread of its own.                 *)
(***************************************************************************)
\* The first call of route.
Connect ==
  /\ sub["httpd"] = "up" /\ conn = "none"
  /\ conn' = "request"
  /\ UNCHANGED <<process, mqtt>>

\* Mutant: the terminator is forgotten.
UnterminatedSize(len, n) == len + n

\* What the body and its terminator take with n more bytes.
NeededSize(len, n) == len + n + 1

\* Doubled once, from FirstCap on, and then as often as it takes.
DoubledCap(cap, need) ==
  Min({c \in Capacities : c > cap /\ c >= need})

\* One more call of route with a chunk of the body.
UploadChunk(ctx, n) ==
  LET need == NeededSize(ctx.body_len, n)
  IN IF need > BodyLimit THEN ctx
     ELSE [body_len |-> ctx.body_len + n,
           body_cap |-> IF need > ctx.body_cap THEN DoubledCap(ctx.body_cap, need) ELSE ctx.body_cap]

NewUpload == [body_len |-> 0, body_cap |-> 0]

\* The conn_ctx after all the chunks.
Uploaded(chunks) ==
  LET ctx[i \in 0 .. Len(chunks)] ==
        IF i = 0 THEN NewUpload ELSE UploadChunk(ctx[i - 1], chunks[i])
  IN ctx[Len(chunks)]

\* mjpeg_cb sends frame after frame and waits for the next, half a minute at
\* most.  What it sends, ShmFrame says.
OpenStream ==
  /\ conn = "request"
  /\ conn' = "stream"
  /\ UNCHANGED <<process, mqtt>>

\* request_done: the answer is sent, no frame came, the client is gone or the
\* server is stopped.  While mjpeg_cb waits it notices none of the last two:
\* that is the time its 600 sleeps take.
RequestDone ==
  /\ conn # "none"
  /\ conn' = "none"
  /\ UNCHANGED <<process, mqtt>>

-----------------------------------------------------------------------------
Main ==
  \/ phase = "start" /\ \E s \in Subsystems : Start(s) \/ StartFails(s)
  \/ phase = "stop" /\ \E s \in Subsystems : SkipStop(s) \/ TellToStop(s) \/ CloseSubsystem(s)
  \/ WorkersFail \/ SayOffline
  \/ TestStop \/ Pause \/ Return

Http ==
  \/ Connect \/ OpenStream \/ RequestDone

\* on_connect, which may run after mqttc_stop has published "offline".
Connected == OnConnect(sub["mqtt"] = "told") /\ UNCHANGED <<process, conn>>

ConnackArrives == Connack /\ UNCHANGED <<process, conn>>

Network == MqttNetwork /\ UNCHANGED <<process, conn>>
Failover == MqttSupervisor(sub["mqtt"] = "up") /\ UNCHANGED <<process, conn>>

Init ==
  /\ phase = "start" /\ at = 1 /\ STOP = FALSE
  /\ sub = [s \in Subsystems |-> "no"]
  /\ running = {}
  /\ conn = "none"
  /\ MqttInit

Next ==
  \/ Main
  \/ Signal \/ Killed
  \/ \E s \in Subsystems : ThreadsReturn(s)
  \/ Http
  \/ Connected \/ Network \/ Failover

\* The process and its threads are scheduled; a connection ends or, while
\* mjpeg_cb waits, its 600 sleeps do; the brokers answer a client that tries
\* again and again, and find out that a client is gone.
Fairness ==
  /\ WF_vars(Main)
  /\ WF_vars(\E s \in Subsystems : ThreadsReturn(s))
  /\ WF_vars(sub["httpd"] = "stopping" /\ RequestDone)
  /\ WF_vars(Failover)
  /\ SF_vars(ConnackArrives)
  /\ SF_vars(Connected)
  /\ WF_vars((LinkLost \/ SwitchTime) /\ UNCHANGED <<process, conn>>)

Spec == Init /\ [][Next]_vars /\ Fairness

-----------------------------------------------------------------------------
(***************************************************************************)
(* Properties.                                                             *)
(***************************************************************************)
\* Every variable has its type.
TypeOK ==
  /\ phase \in {"start", "test", "pausing", "paused", "asleep", "stop", "gone"}
  /\ at \in 1 .. Len(StopOrder) + 1
  /\ STOP \in BOOLEAN
  /\ sub \in [Subsystems -> {"no", "up", "failed", "stopping", "told", "closed"}]
  /\ running \subseteq Threads
  /\ conn \in {"none", "request", "stream"}
  /\ MqttTypeOK

\* Started, or one of those that the daemon goes without, and not yet closed.
Live(s) == sub[s] \in {"up", "stopping"} \/ (s \in Optional /\ sub[s] = "failed")

\* The order in which main() starts, joins and closes: no thread and no
\* connection is left that could call into a subsystem which is not there.
\* The exception are the workers of an events_start that failed half-way.
UsesAreLive ==
  /\ \A t \in running :
       sub[OwnerOf(t)] # "failed" => \A s \in UsedBy(t) : Live(s)
  /\ conn # "none" => \A s \in UsedBy("connection") : Live(s)

Bodies == UNION {[1 .. n -> Chunks] : n \in 1 .. MaxChunks}

BufferSuffices ==
  \A chunks \in Bodies :
    LET ctx == Uploaded(chunks)
    IN /\ ctx.body_len > 0 => ctx.body_len < ctx.body_cap
       /\ ctx.body_cap <= BodyLimit

\* route: whatever body a request brings, it and its terminator fit into the
\* buffer, however the chunks are cut, and the buffer never exceeds the limit.
BodyFits ==
  conn = "request" => BufferSuffices

\* A signal leads to the end of the process by way of all the joins, without
\* the help of SIGKILL, unless it arrives between the test of STOP and pause().
StopCompletes == (STOP /\ phase \notin {"pausing", "asleep"}) ~> phase = "gone"

\* However the process ends, no broker keeps telling that it is online: the
\* message of mqttc_stop sees to it, or the broker still holds the will.  The
\* exception are those that were left with a DISCONNECT after the "online".
StatusHonest ==
  phase = "gone" => online \subseteq session \union lingering

\* Once a broker can be reached and stays, the client finds it, whichever of
\* the two addresses it is, and the flag says so.
Reconnects ==
  <>[](spc # "off" /\ reachable # {}) => []<>(client = "up" /\ mqtt_connected)

-----------------------------------------------------------------------------
(***************************************************************************)
(* The inductive invariant behind StatusHonest.                            *)
(***************************************************************************)
\* A connection that is not cut has a session with its broker.
LinkHasSession == Linked /\ ~cut => ACTIVE_HOST \in session

\* A broker that tells "online" will publish the will, or lost it too early.
OnlineIsWatched == online \subseteq session \union lingering

\* What a DISCONNECT may end: a connection that has not told "online" yet, or
\* has taken it back.
EndsOffline ==
  \/ client = "connack" \/ (client = "up" /\ sub["mqtt"] = "told")
  => (~cut => ACTIVE_HOST \notin online \/ ACTIVE_HOST \in lingering)

\* main() is at a subsystem as long as it starts them.
StartsInRange == phase = "start" => at <= Len(StartOrder)

IInv == TypeOK /\ StartsInRange /\ LinkHasSession /\ OnlineIsWatched /\ EndsOffline

-----------------------------------------------------------------------------
(***************************************************************************)
(* The inductive invariant behind UsesAreLive.                             *)
(***************************************************************************)
Users == Threads \union {"connection"}

Host(user) == IF user = "connection" THEN "httpd" ELSE OwnerOf(user)

\* What has been started so far, and nothing else, is there.
StartedInOrder ==
  phase = "start" =>
    \A i \in 1 .. Len(StartOrder) : IF i < at THEN Live(StartOrder[i]) ELSE sub[StartOrder[i]] = "no"

\* What has been stopped so far is not there any more.
StoppedInOrder ==
  /\ phase \notin {"start", "stop"} => at = 1
  /\ phase = "stop" => \A i \in 1 .. Len(StopOrder) : i < at => sub[StopOrder[i]] \in {"no", "failed", "closed"}
  /\ \A s \in Subsystems : sub[s] \in {"stopping", "told"} => Stopping(s)

\* Nobody runs in a subsystem that is not up, or after it is joined.
UsersAreHosted ==
  /\ \A t \in running : sub[OwnerOf(t)] \in {"up", "stopping", "failed"}
  /\ conn # "none" => sub["httpd"] \in {"up", "stopping"}

\* As long as a subsystem may have users, what they use is there.
NeedsAreLive ==
  \A user \in Users : sub[Host(user)] \in {"up", "stopping"} => \A s \in UsedBy(user) : Live(s)

OrderInv == StartedInOrder /\ StoppedInOrder /\ UsersAreHosted /\ NeedsAreLive
=============================================================================
