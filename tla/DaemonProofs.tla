---------------------------- MODULE DaemonProofs ----------------------------
(***************************************************************************)
(* Proofs about Daemon: the retained MQTT status, for any number of        *)
(* outages and whichever brokers can be reached at the start, and the      *)
(* order in which main() starts and stops the subsystems, and the bodies   *)
(* that the web server collects.                                           *)
(***************************************************************************)
EXTENDS Daemon, TLAPS, WellFoundedInduction

LEMMA OrdersName ==
  /\ Subsystems = {"shm", "store", "curl", "mailer", "telegram", "mqtt", "httpd", "events"}
  /\ Len(StartOrder) = 8 /\ Len(StopOrder) = 8
  /\ \A i \in 1 .. 8 : StartOrder[i] \in Subsystems
<1>1. Len(StartOrder) = 8 /\ Len(StopOrder) = 8
  BY DEF StartOrder, StopOrder
<1>2. /\ StartOrder[1] = "shm" /\ StartOrder[2] = "store" /\ StartOrder[3] = "curl"
      /\ StartOrder[4] = "mailer" /\ StartOrder[5] = "telegram" /\ StartOrder[6] = "mqtt"
      /\ StartOrder[7] = "httpd" /\ StartOrder[8] = "events"
  BY DEF StartOrder
<1>3. 1 .. 8 = {1, 2, 3, 4, 5, 6, 7, 8}
  OBVIOUS
<1> HIDE DEF StartOrder
<1>4. Subsystems = {StartOrder[i] : i \in {1, 2, 3, 4, 5, 6, 7, 8}}
  BY <1>1, <1>3 DEF Subsystems
<1>5. Subsystems = {"shm", "store", "curl", "mailer", "telegram", "mqtt", "httpd", "events"}
  BY <1>2, <1>4
<1> QED
  BY <1>1, <1>2, <1>3, <1>5

-----------------------------------------------------------------------------
(***************************************************************************)
(* The process: main(), its subsystems and their threads.                  *)
(***************************************************************************)
Statuses == {"no", "up", "failed", "stopping", "told", "closed"}

ProcessOK ==
  /\ phase \in {"start", "test", "pausing", "paused", "asleep", "stop", "gone"}
  /\ at \in 1 .. 9 /\ (phase = "start" => at <= 8)
  /\ STOP \in BOOLEAN
  /\ sub \in [Subsystems -> Statuses]
  /\ running \subseteq Threads
  /\ conn \in {"none", "request", "stream"}

MqttInv == MqttTypeOK /\ LinkHasSession /\ OnlineIsWatched /\ EndsOffline

LEMMA InvariantParts == IInv <=> ProcessOK /\ MqttInv
<1>1. Len(StopOrder) + 1 = 9 /\ Len(StartOrder) = 8
  BY OrdersName
<1>2. StartsInRange <=> (phase = "start" => at <= 8)
  BY <1>1 DEF StartsInRange
<1>3. TypeOK /\ (phase = "start" => at <= 8) <=> ProcessOK /\ MqttTypeOK
  BY <1>1, Zenon DEF TypeOK, ProcessOK, Statuses
<1> QED
  BY <1>2, <1>3, Zenon DEF IInv, MqttInv

LEMMA ThreadsTyped ==
  /\ \A n \in 0 .. Len(Workers) - 1 : {Workers[i] : i \in 1 .. n} \subseteq Threads
<1>1. Len(Workers) = 3 /\ Workers[1] = "telemetry" /\ Workers[2] = "detect" /\ Workers[3] = "watchdog"
  BY DEF Workers
<1>2. \A i \in 1 .. 3 : Workers[i] \in Threads
  <2>1. 1 .. 3 = {1, 2, 3}
    OBVIOUS
  <2> HIDE DEF Workers
  <2> QED
    BY <1>1, <2>1 DEF Threads
<1> HIDE DEF Workers
<1>3. \A n \in 0 .. 2 : 1 .. n \subseteq 1 .. 3
  OBVIOUS
<1> QED
  BY <1>1, <1>2, <1>3

LEMMA StartStep ==
  ASSUME ProcessOK, NEW s \in Subsystems, Start(s) \/ StartFails(s) \/ WorkersFail
  PROVE  ProcessOK'
<1>1. phase = "start" /\ at \in 1 .. 8 /\ STOP' = STOP /\ conn' = conn
  BY DEF ProcessOK, Start, StartFails, WorkersFail, StartThreads, GiveUp, Starting
<1>2. CASE Start(s)
  <2>1. /\ sub' = [sub EXCEPT ![s] = "up"]
        /\ running' = running \union {t \in Threads : OwnerOf(t) = s}
        /\ IF at = 8 THEN phase' = "test" /\ at' = 1 ELSE phase' = phase /\ at' = at + 1
    BY <1>2, OrdersName DEF Start, StartThreads
  <2>2. sub' \in [Subsystems -> Statuses]
    BY <2>1 DEF ProcessOK, Statuses
  <2>3. running' \subseteq Threads
    BY <2>1 DEF ProcessOK
  <2>4. at' \in 1 .. 8 /\ phase' \in {"start", "test"}
    BY <1>1, <2>1
  <2> QED
    BY <1>1, <2>2, <2>3, <2>4 DEF ProcessOK
<1>3. ASSUME NEW z \in Subsystems, NEW threads \in SUBSET Threads, Starting(z), GiveUp(z, threads)
      PROVE  ProcessOK'
  <2>1. /\ sub' = [sub EXCEPT ![z] = "failed"]
        /\ running' = running \union threads
        /\ z = StartOrder[at]
        /\ IF z \in Optional THEN phase' = phase /\ at' = at + 1 ELSE phase' = "stop" /\ at' = 1
    BY <1>3 DEF GiveUp, Starting
  <2>2. sub' \in [Subsystems -> Statuses]
    BY <2>1 DEF ProcessOK, Statuses
  <2>3. running' \subseteq Threads
    BY <2>1 DEF ProcessOK
  <2>4. at = 8 => z \notin Optional
    BY <2>1 DEF StartOrder, Optional
  <2>5. at' \in 1 .. 8 /\ phase' \in {"start", "stop"}
    BY <1>1, <2>1, <2>4
  <2> QED
    BY <1>1, <2>2, <2>3, <2>5 DEF ProcessOK
<1>4. CASE StartFails(s)
  BY <1>3, <1>4 DEF StartFails
<1>5. CASE WorkersFail
  <2>1. Starting("events") /\ "events" \in Subsystems
    BY <1>5, OrdersName DEF WorkersFail
  <2>2. \E threads \in SUBSET Threads : GiveUp("events", threads)
    BY <1>5, ThreadsTyped DEF WorkersFail
  <2> QED
    BY <1>3, <2>1, <2>2
<1> QED
  BY <1>2, <1>4, <1>5

LEMMA RunStep ==
  ASSUME ProcessOK,
         \/ Signal \/ TestStop \/ Pause \/ Killed \/ Return \/ SayOffline \/ Http
         \/ \E s \in Subsystems :
              SkipStop(s) \/ TellToStop(s) \/ CloseSubsystem(s) \/ ThreadsReturn(s)
  PROVE  ProcessOK'
<1>1. CASE Signal \/ TestStop \/ Pause
  BY <1>1 DEF ProcessOK, Signal, Woken, TestStop, Pause
<1>2. CASE Killed \/ Return
  <2>1. /\ phase' = "gone" /\ at' = 1 /\ running' = {} /\ sub' = [s \in Subsystems |-> "no"]
        /\ conn' = "none" /\ STOP' = STOP
    BY <1>2 DEF Killed, Return, Gone
  <2>2. sub' \in [Subsystems -> Statuses]
    BY <2>1 DEF Statuses
  <2> QED
    BY <2>1, <2>2 DEF ProcessOK
<1>3. CASE Http
  BY <1>3 DEF ProcessOK, Http, Connect, OpenStream, RequestDone, process
<1>4. CASE SayOffline
  <2>1. sub' \in [Subsystems -> Statuses]
    BY <1>4, OrdersName DEF ProcessOK, SayOffline, Statuses
  <2> QED
    BY <1>4, <2>1 DEF ProcessOK, SayOffline
<1>5. CASE \E s \in Subsystems : SkipStop(s) \/ CloseSubsystem(s)
  <2>1. phase = "stop" /\ at <= 8 /\ phase' = "stop" /\ at' = at + 1
    BY <1>5, OrdersName DEF SkipStop, CloseSubsystem, Stopping
  <2>2. sub' \in [Subsystems -> Statuses]
    BY <1>5 DEF ProcessOK, SkipStop, AfterSkip, CloseSubsystem, Statuses
  <2>3. running' = running /\ conn' = conn /\ STOP' = STOP
    BY <1>5 DEF SkipStop, CloseSubsystem
  <2> QED
    BY <2>1, <2>2, <2>3 DEF ProcessOK
<1>6. CASE \E s \in Subsystems : TellToStop(s)
  <2>1. sub' \in [Subsystems -> Statuses]
    BY <1>6 DEF ProcessOK, TellToStop, Statuses
  <2> QED
    BY <1>6, <2>1 DEF ProcessOK, TellToStop
<1>7. CASE \E s \in Subsystems : ThreadsReturn(s)
  BY <1>7 DEF ProcessOK, ThreadsReturn
<1> QED
  BY <1>1, <1>2, <1>3, <1>4, <1>5, <1>6, <1>7

-----------------------------------------------------------------------------
(***************************************************************************)
(* The MQTT client.                                                        *)
(***************************************************************************)
\* A subsystem's step that leaves the client alone.
LEMMA ClientUntouched ==
  ASSUME MqttInv, UNCHANGED mqtt, sub'["mqtt"] = "told" => sub["mqtt"] = "told"
  PROVE  MqttInv'
<1>1. UNCHANGED <<ACTIVE_HOST, mqtt_connected, windowOver, spc, client, reachable, cut, session,
                  online, lingering, outages>>
  BY DEF mqtt, network
<1> QED
  BY <1>1 DEF MqttInv, MqttTypeOK, LinkHasSession, OnlineIsWatched, EndsOffline, Linked

LEMMA ClientStarts ==
  ASSUME MqttInv, MqttStart
  PROVE  MqttInv'
BY DEF MqttInv, MqttStart, MqttTypeOK, LinkHasSession, OnlineIsWatched, EndsOffline, Linked, Hosts

LEMMA ClientSaysOffline ==
  ASSUME MqttInv, MqttSayOffline
  PROVE  MqttInv'
<1>1. MqttTypeOK'
  BY DEF MqttInv, MqttSayOffline, MqttTypeOK, StatusOffline
<1>2. LinkHasSession' /\ OnlineIsWatched'
  BY DEF MqttInv, MqttSayOffline, LinkHasSession, OnlineIsWatched, Linked, StatusOffline
<1>3. EndsOffline'
  BY DEF MqttInv, MqttSayOffline, EndsOffline, Linked, StatusOffline
<1> QED
  BY <1>1, <1>2, <1>3 DEF MqttInv

LEMMA ClientCloses ==
  ASSUME MqttInv, MqttClose, sub["mqtt"] = "told"
  PROVE  MqttInv'
<1>1. MqttTypeOK'
  BY DEF MqttInv, MqttClose, MqttTypeOK, Disconnected
<1>2. LinkHasSession' /\ EndsOffline'
  BY DEF MqttClose, LinkHasSession, EndsOffline, Linked
<1>3. OnlineIsWatched'
  BY DEF MqttInv, MqttClose, OnlineIsWatched, EndsOffline, Disconnected, Linked
<1> QED
  BY <1>1, <1>2, <1>3 DEF MqttInv

LEMMA ClientGone ==
  ASSUME MqttInv, MqttGone
  PROVE  MqttInv'
BY DEF MqttInv, MqttGone, MqttTypeOK, LinkHasSession, OnlineIsWatched, EndsOffline, Linked

LEMMA CallbackStep ==
  ASSUME MqttInv, OnConnect(sub["mqtt"] = "told"), sub' = sub
  PROVE  MqttInv'
<1>1. MqttTypeOK'
  BY DEF MqttInv, OnConnect, MqttTypeOK
<1>2. LinkHasSession'
  BY DEF MqttInv, OnConnect, LinkHasSession, Linked
<1>3. OnlineIsWatched'
  BY DEF MqttInv, OnConnect, OnlineIsWatched, LinkHasSession, Linked
<1>4. EndsOffline'
  BY DEF MqttInv, OnConnect, EndsOffline
<1> QED
  BY <1>1, <1>2, <1>3, <1>4 DEF MqttInv

LEMMA NetworkStep ==
  ASSUME MqttInv, MqttNetwork, sub' = sub
  PROVE  MqttInv'
<1>1. CASE \E hosts \in SUBSET Hosts \ {reachable} : Outage(hosts)
  <2>1. /\ outages < MaxOutages /\ outages' = outages + 1
        /\ cut => cut'
        /\ reachable' \subseteq Hosts /\ cut' \in BOOLEAN
        /\ UNCHANGED <<ACTIVE_HOST, mqtt_connected, windowOver, spc, client, session, online, lingering>>
    BY <1>1 DEF Outage, MqttInv, MqttTypeOK
  <2>2. outages' \in 0 .. MaxOutages
    BY <2>1, DaemonAssumption DEF MqttInv, MqttTypeOK
  <2> QED
    BY <2>1, <2>2 DEF MqttInv, MqttTypeOK, LinkHasSession, OnlineIsWatched, EndsOffline, Linked
<1>2. CASE \E h \in Hosts : WillPublished(h)
  <2>1. MqttTypeOK'
    BY <1>2 DEF MqttInv, WillPublished, MqttTypeOK
  <2>2. LinkHasSession' /\ OnlineIsWatched' /\ EndsOffline'
    BY <1>2 DEF MqttInv, WillPublished, LinkHasSession, OnlineIsWatched, EndsOffline, Linked
  <2> QED
    BY <2>1, <2>2 DEF MqttInv
<1>3. CASE Connack
  <2>1. MqttTypeOK'
    BY <1>3 DEF MqttInv, Connack, MqttTypeOK
  <2>2. LinkHasSession' /\ OnlineIsWatched' /\ EndsOffline'
    BY <1>3 DEF MqttInv, Connack, LinkHasSession, OnlineIsWatched, EndsOffline, Linked
  <2> QED
    BY <2>1, <2>2 DEF MqttInv
<1>4. CASE LinkLost
  <2>1. MqttTypeOK'
    BY <1>4 DEF MqttInv, LinkLost, OnDisconnect, FlagDown, MqttTypeOK
  <2>2. LinkHasSession' /\ OnlineIsWatched' /\ EndsOffline'
    BY <1>4 DEF MqttInv, LinkLost, LinkHasSession, OnlineIsWatched, EndsOffline, Linked
  <2> QED
    BY <2>1, <2>2 DEF MqttInv
<1>5. CASE SwitchTime
  BY <1>5 DEF MqttInv, SwitchTime, MqttTypeOK, LinkHasSession, OnlineIsWatched, EndsOffline, Linked, network
<1> QED
  BY <1>1, <1>2, <1>3, <1>4, <1>5 DEF MqttNetwork

LEMMA FailoverStep ==
  ASSUME MqttInv, NEW up \in BOOLEAN, MqttSupervisor(up), sub' = sub
  PROVE  MqttInv'
<1>1. CASE Decide(up)
  BY <1>1 DEF MqttInv, Decide, MqttTypeOK, LinkHasSession, OnlineIsWatched, EndsOffline, Linked, network
<1>2. CASE SwitchHost
  <2>1. MqttTypeOK'
    <3>1. ACTIVE_HOST' \in Hosts
      BY <1>2 DEF MqttInv, SwitchHost, OtherHost, MqttTypeOK, Hosts
    <3>2. session' \subseteq Hosts /\ lingering' \subseteq Hosts
      BY <1>2 DEF MqttInv, SwitchHost, Disconnected, MqttTypeOK
    <3> QED
      BY <1>2, <3>1, <3>2 DEF MqttInv, SwitchHost, MqttTypeOK
  <2>2. LinkHasSession' /\ EndsOffline'
    BY <1>2 DEF SwitchHost, LinkHasSession, EndsOffline, Linked
  <2>3. OnlineIsWatched'
    BY <1>2 DEF MqttInv, SwitchHost, OnlineIsWatched, EndsOffline, Disconnected, Linked
  <2> QED
    BY <2>1, <2>2, <2>3 DEF MqttInv
<1> QED
  BY <1>1, <1>2 DEF MqttSupervisor

-----------------------------------------------------------------------------
LEMMA InvariantInit == Init => IInv
<1> SUFFICES ASSUME Init PROVE ProcessOK /\ MqttInv
  BY InvariantParts
<1>1. sub \in [Subsystems -> Statuses]
  BY DEF Init, Statuses
<1>2. ProcessOK
  <2>1. phase = "start" /\ at = 1 /\ STOP = FALSE /\ running = {} /\ conn = "none"
    BY DEF Init
  <2>2. at \in 1 .. 9 /\ at <= 8
    BY <2>1
  <2> QED
    BY <1>1, <2>1, <2>2, Zenon DEF ProcessOK
<1>3. MqttInv
  <2>1. 0 \in 0 .. MaxOutages /\ InitiallyReachable \subseteq Hosts /\ 0 \in Hosts
    BY DaemonAssumption DEF Hosts
  <2>2. MqttTypeOK
    BY <2>1, Zenon DEF Init, MqttInit, MqttTypeOK
  <2>3. LinkHasSession /\ OnlineIsWatched /\ EndsOffline
    BY DEF Init, MqttInit, LinkHasSession, OnlineIsWatched, EndsOffline, Linked
  <2> QED
    BY <2>2, <2>3 DEF MqttInv
<1> QED
  BY <1>2, <1>3

LEMMA PartsStep ==
  ASSUME ProcessOK, MqttInv, [Next]_vars
  PROVE  ProcessOK' /\ MqttInv'
<1>0. sub \in [Subsystems -> Statuses] /\ "mqtt" \in Subsystems
  BY OrdersName DEF ProcessOK
<1>1. CASE UNCHANGED vars
  <2>1. ProcessOK'
    BY <1>1 DEF ProcessOK, vars, process
  <2> QED
    BY <1>1, <2>1, ClientUntouched DEF vars, process
<1>2. ASSUME NEW s \in Subsystems, Start(s) PROVE ProcessOK' /\ MqttInv'
  <2>1. CASE s = "mqtt"
    BY <1>2, <2>1, StartStep, ClientStarts DEF Start
  <2>2. CASE s # "mqtt"
    <3>1. UNCHANGED mqtt /\ sub'["mqtt"] = sub["mqtt"]
      BY <1>0, <1>2, <2>2 DEF Start, StartThreads
    <3> QED
      BY <1>2, <3>1, StartStep, ClientUntouched
  <2> QED
    BY <2>1, <2>2
<1>3. ASSUME NEW s \in Subsystems, StartFails(s) \/ WorkersFail PROVE ProcessOK' /\ MqttInv'
  <2>1. UNCHANGED mqtt /\ (sub'["mqtt"] = "told" => sub["mqtt"] = "told")
    BY <1>0, <1>3 DEF StartFails, WorkersFail, GiveUp
  <2> QED
    BY <1>3, <2>1, StartStep, ClientUntouched
<1>4. CASE Signal \/ TestStop \/ Pause \/ Http
  <2>1. UNCHANGED mqtt /\ sub' = sub
    BY <1>4 DEF Signal, TestStop, Pause, Http, Connect, OpenStream, RequestDone, process
  <2> QED
    BY <1>4, <2>1, RunStep, ClientUntouched
<1>5. CASE Killed \/ Return
  BY <1>5, RunStep, ClientGone DEF Killed, Return, Gone
<1>6. CASE SayOffline
  BY <1>6, RunStep, ClientSaysOffline DEF SayOffline
<1>7. ASSUME NEW s \in Subsystems, SkipStop(s) \/ TellToStop(s) \/ ThreadsReturn(s)
      PROVE  ProcessOK' /\ MqttInv'
  <2>1. UNCHANGED mqtt /\ (sub'["mqtt"] = "told" => sub["mqtt"] = "told")
    BY <1>0, <1>7 DEF SkipStop, AfterSkip, TellToStop, ThreadsReturn
  <2> QED
    BY <1>7, <2>1, RunStep, ClientUntouched
<1>8. ASSUME NEW s \in Subsystems, CloseSubsystem(s) PROVE ProcessOK' /\ MqttInv'
  <2>1. CASE s = "mqtt"
    BY <1>8, <2>1, RunStep, ClientCloses DEF CloseSubsystem
  <2>2. CASE s # "mqtt"
    <3>1. UNCHANGED mqtt /\ sub'["mqtt"] = sub["mqtt"]
      BY <1>0, <1>8, <2>2 DEF CloseSubsystem
    <3> QED
      BY <1>8, <3>1, RunStep, ClientUntouched
  <2> QED
    BY <2>1, <2>2
<1>9. CASE Connected \/ Network \/ Failover
  <2>1. UNCHANGED <<process, conn>>
    BY <1>9 DEF Connected, Network, Failover
  <2>2. ProcessOK' /\ sub' = sub
    BY <2>1 DEF ProcessOK, process
  <2>3. (sub["mqtt"] = "up") \in BOOLEAN
    OBVIOUS
  <2>4. MqttInv'
    BY <1>9, <2>2, <2>3, CallbackStep, NetworkStep, FailoverStep DEF Connected, Network, Failover
  <2> QED
    BY <2>2, <2>4
<1> QED
  BY <1>0, <1>1, <1>2, <1>3, <1>4, <1>5, <1>6, <1>7, <1>8, <1>9 DEF Next, Main

LEMMA InvariantStep == IInv /\ [Next]_vars => IInv'
<1>1. ProcessOK /\ MqttInv /\ [Next]_vars => ProcessOK' /\ MqttInv'
  BY PartsStep
<1>2. IInv <=> ProcessOK /\ MqttInv
  BY InvariantParts
<1> QED
  BY <1>1, <1>2, PTL

LEMMA Invariance == Spec => []IInv
BY InvariantInit, InvariantStep, PTL DEF Spec

-----------------------------------------------------------------------------
(***************************************************************************)
(* The theorems.                                                           *)
(***************************************************************************)
\* Every variable of the process and of its MQTT client keeps its type.
THEOREM TypeCorrect == Spec => []TypeOK
BY Invariance, PTL DEF IInv

\* mqttc_stop publishes "offline" before the DISCONNECT that drops the will
\* (mqttc.c:229-239), and a process that is killed leaves the will: no broker
\* goes on telling "online", except one that was left with a DISCONNECT too
\* late, by the fail-over or by a callback that came after the "offline".
THEOREM StatusIsHonest == Spec => []StatusHonest
<1>1. IInv => StatusHonest
  BY DEF IInv, OnlineIsWatched, StatusHonest
<1> QED
  BY <1>1, Invariance, PTL

-----------------------------------------------------------------------------
(***************************************************************************)
(* The order of the subsystems: what a subsystem's users need is started   *)
(* before it and stopped after it.                                         *)
(***************************************************************************)
LEMMA PlacesName ==
  /\ 1 .. 8 = {1, 2, 3, 4, 5, 6, 7, 8}
  /\ StartOrder[1] = "shm" /\ StartOrder[2] = "store" /\ StartOrder[3] = "curl"
  /\ StartOrder[4] = "mailer" /\ StartOrder[5] = "telegram" /\ StartOrder[6] = "mqtt"
  /\ StartOrder[7] = "httpd" /\ StartOrder[8] = "events"
  /\ StopOrder[1] = "events" /\ StopOrder[2] = "httpd" /\ StopOrder[3] = "mqtt"
  /\ StopOrder[4] = "telegram" /\ StopOrder[5] = "mailer" /\ StopOrder[6] = "store"
  /\ StopOrder[7] = "shm" /\ StopOrder[8] = "curl"
BY DEF StartOrder, StopOrder

LEMMA NoPlaceTwice ==
  \A i, j \in 1 .. 8 : (StartOrder[i] = StartOrder[j] \/ StopOrder[i] = StopOrder[j]) => i = j
BY PlacesName

LEMMA HostsName ==
  /\ Users = {"telemetry", "detect", "watchdog", "mail", "sender", "poller", "connection"}
  /\ Host("telemetry") = "events" /\ Host("detect") = "events" /\ Host("watchdog") = "events"
  /\ Host("mail") = "mailer" /\ Host("sender") = "telegram" /\ Host("poller") = "telegram"
  /\ Host("connection") = "httpd"
BY DEF Users, Threads, Host, OwnerOf

LEMMA NeedsName ==
  /\ UsedBy("telemetry") = {"shm", "mqtt"}
  /\ UsedBy("detect") = {"shm", "store", "mailer", "telegram", "mqtt"}
  /\ UsedBy("watchdog") = {"shm", "mailer", "telegram", "mqtt"}
  /\ UsedBy("connection") = {"shm", "store", "mailer", "telegram", "mqtt"}
  /\ UsedBy("poller") = {"shm", "curl"} /\ UsedBy("sender") = {"curl"} /\ UsedBy("mail") = {"curl"}
BY DEF UsedBy, TelemetryUses, DetectUses, WatchdogUses, ConnectionUses, PollerUses, SenderUses

LEMMA NeedsStartFirst ==
  ASSUME NEW user \in Users, NEW s \in UsedBy(user), NEW j \in 1 .. 8, StartOrder[j] = Host(user)
  PROVE  \E i \in 1 .. 8 : i < j /\ StartOrder[i] = s
<1>1. CASE Host(user) = "events"
  <2>1. j = 8 /\ s \in {"shm", "store", "mailer", "telegram", "mqtt"}
    BY <1>1, PlacesName, HostsName, NeedsName
  <2> QED
    BY <2>1, PlacesName
<1>2. CASE Host(user) = "httpd"
  <2>1. j = 7 /\ s \in {"shm", "store", "mailer", "telegram", "mqtt"}
    BY <1>2, PlacesName, HostsName, NeedsName
  <2> QED
    BY <2>1, PlacesName
<1>3. CASE Host(user) \in {"mailer", "telegram"}
  <2>1. j \in {4, 5} /\ s \in {"shm", "curl"}
    BY <1>3, PlacesName, HostsName, NeedsName
  <2> QED
    BY <2>1, PlacesName
<1> QED
  BY <1>1, <1>2, <1>3, HostsName

LEMMA NeedsStopLast ==
  ASSUME NEW user \in Users, NEW s \in UsedBy(user), NEW j \in 1 .. 8, StopOrder[j] = s
  PROVE  \E i \in 1 .. 8 : i < j /\ StopOrder[i] = Host(user)
<1>1. CASE Host(user) \in {"events", "httpd"}
  <2>1. j \in {3, 4, 5, 6, 7}
    BY <1>1, PlacesName, HostsName, NeedsName
  <2> QED
    BY <1>1, <2>1, PlacesName
<1>2. CASE Host(user) \in {"mailer", "telegram"}
  <2>1. j \in {7, 8}
    BY <1>2, PlacesName, HostsName, NeedsName
  <2> QED
    BY <1>2, <2>1, PlacesName
<1> QED
  BY <1>1, <1>2, HostsName

LEMMA UsersTyped ==
  /\ Threads \subseteq Users
  /\ \A t \in Threads : Host(t) = OwnerOf(t)
  /\ \A user \in Users : Host(user) \in Subsystems /\ UsedBy(user) \subseteq Subsystems
  /\ \A i \in 1 .. Len(Workers) : OwnerOf(Workers[i]) = "events"
<1>1. \A user \in Users : Host(user) \in Subsystems /\ UsedBy(user) \subseteq Subsystems
  BY HostsName, NeedsName, OrdersName
<1>2. Threads \subseteq Users /\ \A t \in Threads : Host(t) = OwnerOf(t)
  BY DEF Users, Threads, Host
<1>3. \A i \in 1 .. Len(Workers) : OwnerOf(Workers[i]) = "events"
  <2>1. Len(Workers) = 3 /\ Workers[1] = "telemetry" /\ Workers[2] = "detect" /\ Workers[3] = "watchdog"
    BY DEF Workers
  <2>2. 1 .. 3 = {1, 2, 3}
    OBVIOUS
  <2> HIDE DEF Workers
  <2> QED
    BY <2>1, <2>2 DEF OwnerOf
<1> QED
  BY <1>1, <1>2, <1>3

\* Who is stopped before s is, is not up any more.
LEMMA UsersAreDown ==
  ASSUME ProcessOK, OrderInv, NEW user \in Users, NEW s \in UsedBy(user), Stopping(s)
  PROVE  sub[Host(user)] \notin {"up", "stopping"}
<1>1. at \in 1 .. 8 /\ StopOrder[at] = s /\ phase = "stop"
  BY OrdersName DEF Stopping, ProcessOK
<1>2. PICK i \in 1 .. 8 : i < at /\ StopOrder[i] = Host(user)
  BY <1>1, NeedsStopLast
<1> QED
  BY <1>1, <1>2, OrdersName DEF OrderInv, StoppedInOrder

\* A subsystem is up once what its users need is there.
LEMMA StartKeepsOrder ==
  ASSUME ProcessOK, OrderInv, NEW s \in Subsystems, Start(s)
  PROVE  OrderInv'
<1>1. /\ phase = "start" /\ at \in 1 .. 8 /\ s = StartOrder[at]
      /\ sub' = [sub EXCEPT ![s] = "up"] /\ sub \in [Subsystems -> Statuses] /\ conn' = conn
      /\ running' = running \union {t \in Threads : OwnerOf(t) = s}
      /\ IF at = 8 THEN phase' = "test" /\ at' = 1 ELSE phase' = phase /\ at' = at + 1
  BY OrdersName DEF ProcessOK, Start, StartThreads, Starting
<1>2. sub[s] = "no"
  BY <1>1, OrdersName DEF OrderInv, StartedInOrder
<1>3. StartedInOrder'
  <2> SUFFICES ASSUME phase' = "start", NEW i \in 1 .. 8
               PROVE  IF i < at' THEN Live(StartOrder[i])' ELSE sub'[StartOrder[i]] = "no"
    BY OrdersName DEF StartedInOrder
  <2>1. at' = at + 1
    BY <1>1
  <2>2. CASE i = at
    BY <1>1, <2>1, <2>2 DEF Live
  <2>3. CASE i # at
    <3>1. StartOrder[i] # s /\ StartOrder[i] \in Subsystems
      BY <1>1, <2>3, NoPlaceTwice, OrdersName
    <3>2. IF i < at THEN Live(StartOrder[i]) ELSE sub[StartOrder[i]] = "no"
      BY <1>1, OrdersName DEF OrderInv, StartedInOrder
    <3>3. sub'[StartOrder[i]] = sub[StartOrder[i]]
      BY <1>1, <3>1
    <3>4. Live(StartOrder[i])' <=> Live(StartOrder[i])
      BY <3>3 DEF Live
    <3> QED
      BY <1>1, <2>1, <2>3, <3>2, <3>3, <3>4
  <2> QED
    BY <2>2, <2>3
<1>4. StoppedInOrder'
  <2>1. \A z \in Subsystems : sub[z] \notin {"stopping", "told"}
    BY <1>1 DEF OrderInv, StoppedInOrder, Stopping
  <2>2. \A z \in Subsystems : sub'[z] \notin {"stopping", "told"}
    BY <1>1, <2>1
  <2> QED
    BY <1>1, <2>2 DEF StoppedInOrder
<1>5. UsersAreHosted'
  <2>1. \A t \in running' : sub'[OwnerOf(t)] \in {"up", "stopping", "failed"}
    <3> SUFFICES ASSUME NEW t \in running' PROVE sub'[OwnerOf(t)] \in {"up", "stopping", "failed"}
      OBVIOUS
    <3>1. t \in Threads /\ OwnerOf(t) \in Subsystems
      BY <1>1, UsersTyped DEF ProcessOK
    <3>2. CASE OwnerOf(t) = s
      BY <1>1, <3>2
    <3>3. CASE OwnerOf(t) # s
      BY <1>1, <3>1, <3>3 DEF OrderInv, UsersAreHosted
    <3> QED
      BY <3>2, <3>3
  <2>2. conn' # "none" => sub'["httpd"] \in {"up", "stopping"}
    BY <1>1, OrdersName DEF OrderInv, UsersAreHosted
  <2> QED
    BY <2>1, <2>2 DEF UsersAreHosted
<1>6. NeedsAreLive'
  <2> SUFFICES ASSUME NEW user \in Users, sub'[Host(user)] \in {"up", "stopping"}, NEW z \in UsedBy(user)
               PROVE  Live(z)'
    BY DEF NeedsAreLive
  <2>1. Host(user) \in Subsystems /\ z \in Subsystems
    BY UsersTyped
  <2>2. Live(z) => Live(z)'
    BY <1>1, <1>2, <2>1 DEF Live
  <2>3. CASE Host(user) = s
    <3>1. PICK i \in 1 .. 8 : i < at /\ StartOrder[i] = z
      BY <1>1, <2>3, NeedsStartFirst
    <3> QED
      BY <1>1, <2>2, <3>1, OrdersName DEF OrderInv, StartedInOrder
  <2>4. CASE Host(user) # s
    BY <1>1, <2>1, <2>2, <2>4 DEF OrderInv, NeedsAreLive
  <2> QED
    BY <2>3, <2>4
<1> QED
  BY <1>3, <1>4, <1>5, <1>6 DEF OrderInv

\* What could not be started has no users, but for the workers of events_start.
LEMMA FailureKeepsOrder ==
  ASSUME ProcessOK, OrderInv, NEW s \in Subsystems, Starting(s), NEW threads \in SUBSET Threads,
         \A t \in threads : OwnerOf(t) = s, GiveUp(s, threads)
  PROVE  OrderInv'
<1>1. /\ phase = "start" /\ at \in 1 .. 8 /\ s = StartOrder[at]
      /\ sub' = [sub EXCEPT ![s] = "failed"] /\ sub \in [Subsystems -> Statuses] /\ conn' = conn
      /\ running' = running \union threads
      /\ IF s \in Optional THEN phase' = phase /\ at' = at + 1 ELSE phase' = "stop" /\ at' = 1
  BY OrdersName DEF ProcessOK, GiveUp, Starting
<1>2. sub[s] = "no"
  BY <1>1, OrdersName DEF OrderInv, StartedInOrder
<1>3. StartedInOrder'
  <2> SUFFICES ASSUME phase' = "start", NEW i \in 1 .. 8
               PROVE  IF i < at' THEN Live(StartOrder[i])' ELSE sub'[StartOrder[i]] = "no"
    BY OrdersName DEF StartedInOrder
  <2>1. at' = at + 1 /\ s \in Optional
    BY <1>1
  <2>2. CASE i = at
    BY <1>1, <2>1, <2>2 DEF Live
  <2>3. CASE i # at
    <3>1. StartOrder[i] # s /\ StartOrder[i] \in Subsystems
      BY <1>1, <2>3, NoPlaceTwice, OrdersName
    <3>2. IF i < at THEN Live(StartOrder[i]) ELSE sub[StartOrder[i]] = "no"
      BY <1>1, OrdersName DEF OrderInv, StartedInOrder
    <3>3. sub'[StartOrder[i]] = sub[StartOrder[i]]
      BY <1>1, <3>1
    <3>4. Live(StartOrder[i])' <=> Live(StartOrder[i])
      BY <3>3 DEF Live
    <3> QED
      BY <1>1, <2>1, <2>3, <3>2, <3>3, <3>4
  <2> QED
    BY <2>2, <2>3
<1>4. StoppedInOrder'
  <2>1. \A z \in Subsystems : sub[z] \notin {"stopping", "told"}
    BY <1>1 DEF OrderInv, StoppedInOrder, Stopping
  <2>2. \A z \in Subsystems : sub'[z] \notin {"stopping", "told"}
    BY <1>1, <2>1
  <2>3. phase' = "stop" => at' = 1
    BY <1>1
  <2> QED
    BY <1>1, <2>2, <2>3 DEF StoppedInOrder
<1>5. UsersAreHosted'
  <2>1. \A t \in running' : sub'[OwnerOf(t)] \in {"up", "stopping", "failed"}
    <3> SUFFICES ASSUME NEW t \in running' PROVE sub'[OwnerOf(t)] \in {"up", "stopping", "failed"}
      OBVIOUS
    <3>1. t \in Threads /\ OwnerOf(t) \in Subsystems
      BY <1>1, UsersTyped DEF ProcessOK
    <3>2. CASE OwnerOf(t) = s
      BY <1>1, <3>2
    <3>3. CASE OwnerOf(t) # s
      BY <1>1, <3>1, <3>3 DEF OrderInv, UsersAreHosted
    <3> QED
      BY <3>2, <3>3
  <2>2. conn' # "none" => sub'["httpd"] \in {"up", "stopping"}
    BY <1>1, <1>2, OrdersName DEF OrderInv, UsersAreHosted
  <2> QED
    BY <2>1, <2>2 DEF UsersAreHosted
<1>6. NeedsAreLive'
  <2> SUFFICES ASSUME NEW user \in Users, sub'[Host(user)] \in {"up", "stopping"}, NEW z \in UsedBy(user)
               PROVE  Live(z)'
    BY DEF NeedsAreLive
  <2>1. Host(user) \in Subsystems /\ z \in Subsystems
    BY UsersTyped
  <2>2. Host(user) # s /\ sub[Host(user)] \in {"up", "stopping"}
    BY <1>1, <2>1
  <2>3. Live(z)
    BY <2>2 DEF OrderInv, NeedsAreLive
  <2>4. z # s
    BY <1>2, <2>3 DEF Live
  <2> QED
    BY <1>1, <2>1, <2>3, <2>4 DEF Live
<1> QED
  BY <1>3, <1>4, <1>5, <1>6 DEF OrderInv

\* Nothing that the order speaks of changes, or main() only goes on waiting.
LEMMA RunKeepsOrder ==
  ASSUME ProcessOK, OrderInv, sub' = sub, running' \subseteq running,
         \/ UNCHANGED <<phase, at>>
         \/ /\ phase \notin {"start", "stop"} /\ phase' # "start" /\ at' = at,
         conn' # "none" => conn # "none" \/ sub["httpd"] = "up"
  PROVE  OrderInv'
<1>1. \A s : Live(s)' <=> Live(s)
  BY DEF Live
<1>2. StartedInOrder' /\ NeedsAreLive' /\ UsersAreHosted'
  BY <1>1 DEF OrderInv, StartedInOrder, NeedsAreLive, UsersAreHosted
<1>3. StoppedInOrder'
  <2>1. CASE UNCHANGED <<phase, at>>
    BY <2>1 DEF OrderInv, StoppedInOrder, Stopping
  <2>2. CASE phase \notin {"start", "stop"} /\ phase' # "start" /\ at' = at
    <3>1. at' = 1 /\ \A s \in Subsystems : sub'[s] \notin {"stopping", "told"}
      BY <2>2 DEF OrderInv, StoppedInOrder, Stopping
    <3> QED
      BY <3>1, OrdersName DEF StoppedInOrder
  <2> QED
    BY <2>1, <2>2
<1> QED
  BY <1>2, <1>3 DEF OrderInv

LEMMA StopKeepsOrder ==
  ASSUME ProcessOK, OrderInv, NEW s \in Subsystems,
         SkipStop(s) \/ TellToStop(s) \/ CloseSubsystem(s) \/ (s = "mqtt" /\ SayOffline)
  PROVE  OrderInv'
<1>1. /\ phase = "stop" /\ at \in 1 .. 8 /\ StopOrder[at] = s /\ Stopping(s)
      /\ sub \in [Subsystems -> Statuses]
      /\ phase' = "stop" /\ running' = running /\ conn' = conn
  <2>1. Stopping(s)
    BY DEF OrderInv, StoppedInOrder, SkipStop, TellToStop, CloseSubsystem, SayOffline
  <2> QED
    BY <2>1, OrdersName DEF Stopping, ProcessOK, SkipStop, TellToStop, CloseSubsystem, SayOffline
\* The step changes s alone: to "stopping" or "told" while main() stays, or
\* main() goes on and s is not up any more.
<1>2. /\ sub' \in [Subsystems -> Statuses]
      /\ \A z \in Subsystems : z # s => sub'[z] = sub[z]
      /\ \/ at' = at /\ sub'[s] \in {"stopping", "told"} /\ sub[s] \in {"up", "stopping"}
         \/ at' = at + 1 /\ sub'[s] \in {"no", "failed", "closed"} /\ (sub'[s] = sub[s] \/ sub'[s] = "closed")
      /\ sub'[s] = "told" => s = "mqtt"
  <2>1. CASE SkipStop(s)
    BY <1>1, <2>1 DEF SkipStop, AfterSkip, Statuses
  <2>2. CASE TellToStop(s)
    BY <1>1, <2>2 DEF TellToStop, Statuses
  <2>3. CASE CloseSubsystem(s)
    BY <1>1, <2>3 DEF CloseSubsystem, Statuses
  <2>4. CASE s = "mqtt" /\ SayOffline
    BY <1>1, <2>4 DEF SayOffline, Statuses
  <2> QED
    BY <2>1, <2>2, <2>3, <2>4
<1>3. StartedInOrder'
  BY <1>1 DEF StartedInOrder
<1>4. StoppedInOrder'
  <2>1. \A i \in 1 .. 8 : i < at' => sub'[StopOrder[i]] \in {"no", "failed", "closed"}
    <3> SUFFICES ASSUME NEW i \in 1 .. 8, i < at' PROVE sub'[StopOrder[i]] \in {"no", "failed", "closed"}
      OBVIOUS
    <3>1. StopOrder[i] \in Subsystems
      BY PlacesName, OrdersName
    <3>2. CASE i = at
      BY <1>1, <1>2, <3>2
    <3>3. CASE i # at
      <4>1. i < at /\ StopOrder[i] # s
        BY <1>1, <1>2, <3>3, NoPlaceTwice
      <4>2. sub[StopOrder[i]] \in {"no", "failed", "closed"}
        BY <1>1, <4>1, OrdersName DEF OrderInv, StoppedInOrder
      <4> QED
        BY <1>2, <3>1, <4>1, <4>2
    <3> QED
      BY <3>2, <3>3
  <2>2. ASSUME NEW z \in Subsystems, sub'[z] \in {"stopping", "told"} PROVE Stopping(z)'
    <3>1. CASE z = s
      <4>1. at' = at
        BY <1>2, <2>2, <3>1
      <4> QED
        BY <1>1, <3>1, <4>1 DEF Stopping
    <3>2. CASE z # s
      BY <1>1, <1>2, <2>2, <3>2 DEF OrderInv, StoppedInOrder, Stopping
    <3> QED
      BY <3>1, <3>2
  <2> QED
    BY <1>1, <2>1, <2>2, OrdersName DEF StoppedInOrder
<1>5. UsersAreHosted'
  <2>1. ASSUME NEW t \in running PROVE sub'[OwnerOf(t)] \in {"up", "stopping", "failed"}
    <3>1. t \in Threads /\ OwnerOf(t) \in Subsystems /\ OwnerOf(t) # "mqtt"
      BY UsersTyped, HostsName DEF ProcessOK
    <3>2. sub[OwnerOf(t)] \in {"up", "stopping", "failed"}
      BY DEF OrderInv, UsersAreHosted
    <3>3. CASE OwnerOf(t) # s
      BY <1>2, <3>1, <3>2, <3>3
    <3>4. CASE OwnerOf(t) = s
      <4>1. ~CloseSubsystem(s)
        BY <2>1, <3>4 DEF CloseSubsystem, Joined
      <4> QED
        BY <1>1, <3>1, <3>2, <3>4, <4>1 DEF SkipStop, AfterSkip, TellToStop
    <3> QED
      BY <3>3, <3>4
  <2>2. ASSUME conn # "none" PROVE sub'["httpd"] \in {"up", "stopping"}
    <3>1. sub["httpd"] \in {"up", "stopping"} /\ "httpd" \in Subsystems
      BY <2>2, OrdersName DEF OrderInv, UsersAreHosted
    <3>2. CASE s # "httpd"
      BY <1>2, <3>1, <3>2
    <3>3. CASE s = "httpd"
      <4>1. ~CloseSubsystem(s)
        BY <2>2, <3>3 DEF CloseSubsystem, Joined
      <4> QED
        BY <1>1, <3>1, <3>3, <4>1 DEF SkipStop, AfterSkip, TellToStop
    <3> QED
      BY <3>2, <3>3
  <2> QED
    BY <1>1, <2>1, <2>2 DEF UsersAreHosted
<1>6. NeedsAreLive'
  <2> SUFFICES ASSUME NEW user \in Users, sub'[Host(user)] \in {"up", "stopping"}, NEW z \in UsedBy(user)
               PROVE  Live(z)'
    BY DEF NeedsAreLive
  <2>1. Host(user) \in Subsystems /\ z \in Subsystems
    BY UsersTyped
  <2>2. sub[Host(user)] \in {"up", "stopping"}
    BY <1>2, <2>1
  <2>3. z # s
    BY <1>1, <2>2, UsersAreDown
  <2>4. Live(z)
    BY <2>2 DEF OrderInv, NeedsAreLive
  <2> QED
    BY <1>2, <2>1, <2>3, <2>4 DEF Live
<1> QED
  BY <1>3, <1>4, <1>5, <1>6 DEF OrderInv

LEMMA GoneKeepsOrder ==
  ASSUME Gone
  PROVE  OrderInv'
<1>1. /\ phase' = "gone" /\ at' = 1 /\ running' = {} /\ conn' = "none"
      /\ \A s \in Subsystems : sub'[s] = "no"
  BY DEF Gone
<1> QED
  BY <1>1, UsersTyped
  DEF OrderInv, StartedInOrder, StoppedInOrder, UsersAreHosted, NeedsAreLive

LEMMA OrderInit == Init => OrderInv
<1> SUFFICES ASSUME Init PROVE OrderInv
  OBVIOUS
<1>1. /\ phase = "start" /\ at = 1 /\ running = {} /\ conn = "none"
      /\ \A s \in Subsystems : sub[s] = "no"
  BY DEF Init
<1>2. StartedInOrder
  BY <1>1, OrdersName DEF StartedInOrder
<1> QED
  BY <1>1, <1>2, UsersTyped
  DEF OrderInv, StoppedInOrder, UsersAreHosted, NeedsAreLive

LEMMA OrderStep ==
  ASSUME ProcessOK, OrderInv, [Next]_vars
  PROVE  OrderInv'
<1>1. CASE UNCHANGED vars
  BY <1>1, RunKeepsOrder DEF vars, process
<1>2. ASSUME NEW s \in Subsystems, StartFails(s) PROVE OrderInv'
  BY <1>2, FailureKeepsOrder DEF StartFails
<1>3. CASE WorkersFail
  <2>1. "events" \in Subsystems /\ Starting("events")
    BY <1>3, OrdersName DEF WorkersFail
  <2>2. PICK n \in 0 .. Len(Workers) - 1 : GiveUp("events", {Workers[i] : i \in 1 .. n})
    BY <1>3 DEF WorkersFail
  <2>3. {Workers[i] : i \in 1 .. n} \subseteq Threads
    BY ThreadsTyped
  <2>4. \A t \in {Workers[i] : i \in 1 .. n} : OwnerOf(t) = "events"
    <3>1. Len(Workers) = 3
      BY DEF Workers
    <3>2. 1 .. n \subseteq 1 .. Len(Workers)
      BY <3>1
    <3> QED
      BY <3>2, UsersTyped
  <2> QED
    BY <2>1, <2>2, <2>3, <2>4, FailureKeepsOrder
<1>4. CASE Signal \/ TestStop \/ Pause
  <2>1. sub' = sub /\ running' = running /\ conn' = conn /\ at' = at
    BY <1>4 DEF Signal, TestStop, Pause
  <2>2. phase' = phase \/ (phase \notin {"start", "stop"} /\ phase' # "start")
    BY <1>4 DEF Signal, Woken, TestStop, Pause, ProcessOK
  <2> QED
    BY <2>1, <2>2, RunKeepsOrder
<1>5. CASE Http
  <2>1. UNCHANGED process /\ (conn' # "none" => conn # "none" \/ sub["httpd"] = "up")
    BY <1>5 DEF Http, Connect, OpenStream, RequestDone
  <2> QED
    BY <2>1, RunKeepsOrder DEF process
<1>6. CASE Connected \/ Network \/ Failover
  <2>1. UNCHANGED <<process, conn>>
    BY <1>6 DEF Connected, Network, Failover
  <2> QED
    BY <2>1, RunKeepsOrder DEF process
<1>7. CASE Killed \/ Return
  BY <1>7, GoneKeepsOrder DEF Killed, Return
<1>8. ASSUME NEW s \in Subsystems, ThreadsReturn(s) PROVE OrderInv'
  <2>1. running' \subseteq running /\ UNCHANGED <<phase, at, sub, conn>>
    BY <1>8 DEF ThreadsReturn
  <2> QED
    BY <2>1, RunKeepsOrder
<1>9. CASE SayOffline
  BY <1>9, OrdersName, StopKeepsOrder
<1> QED
  BY <1>1, <1>2, <1>3, <1>4, <1>5, <1>6, <1>7, <1>8, <1>9, StartKeepsOrder, StopKeepsOrder DEF Next, Main

\* The order in which main() starts and stops the subsystems (main.c:92-176):
\* no thread and no connection is left that could call into a subsystem which
\* is not there, whatever fails at the start and whenever the process is told
\* to stop, but for the workers of an events_start that failed half-way.
THEOREM NobodyUsesTheDead == Spec => []UsesAreLive
<1>1. Init => OrderInv
  BY OrderInit
<1>2. IInv /\ OrderInv /\ [Next]_vars => OrderInv'
  BY InvariantParts, OrderStep
<1>3. IInv /\ OrderInv => UsesAreLive
  <2> SUFFICES ASSUME ProcessOK, OrderInv PROVE UsesAreLive
    BY InvariantParts
  <2>1. ASSUME NEW t \in running, sub[OwnerOf(t)] # "failed", NEW s \in UsedBy(t)
        PROVE  Live(s)
    <3>1. t \in Users /\ Host(t) = OwnerOf(t)
      BY UsersTyped DEF ProcessOK
    <3> QED
      BY <2>1, <3>1 DEF OrderInv, UsersAreHosted, NeedsAreLive
  <2>2. ASSUME conn # "none", NEW s \in UsedBy("connection") PROVE Live(s)
    BY <2>2, HostsName DEF OrderInv, UsersAreHosted, NeedsAreLive
  <2> QED
    BY <2>1, <2>2 DEF UsesAreLive
<1> QED
  BY <1>1, <1>2, <1>3, Invariance, PTL DEF Spec

-----------------------------------------------------------------------------
(***************************************************************************)
(* The request bodies: what route makes of them chunk by chunk.            *)
(***************************************************************************)
\* The least-number principle, from the theorems about well-founded relations.
LEMMA LeastExists ==
  ASSUME NEW T \in SUBSET Nat, T # {}
  PROVE  \E n \in T : \A m \in T : n <= m
<1> DEFINE R == OpToRel(<, Nat)
<1>1. IsWellFoundedOn(R, Nat)
  BY NatLessThanWellFounded
<1>2. \A x, y \in Nat : x < y => <<x, y>> \in R
  BY DEF OpToRel
<1> HIDE DEF R
<1>3. PICK x \in T : \A y \in T : ~ (<<y, x>> \in R)
  BY <1>1, WFMin
<1>4. ASSUME NEW m \in T PROVE x <= m
  <2>1. x \in Nat /\ m \in Nat /\ <<m, x>> \notin R
    BY <1>3
  <2>2. ~ (m < x)
    BY <1>2, <2>1, Zenon
  <2> QED
    BY <2>1, <2>2
<1> QED
  BY <1>4

LEMMA CapacitiesTyped == Capacities \subseteq Nat \ {0}
BY DaemonAssumption DEF Capacities

\* What route keeps between its calls for one body.
BodyOK(ctx) ==
  /\ ctx \in [body_len : Nat, body_cap : Nat]
  /\ ctx.body_cap <= BodyLimit
  /\ ctx.body_len > 0 => ctx.body_len < ctx.body_cap

LEMMA DoublingSuffices ==
  ASSUME NEW cap \in Nat, NEW need \in Nat, cap < need, need <= BodyLimit
  PROVE  DoubledCap(cap, need) \in Nat /\ need <= DoubledCap(cap, need) /\ DoubledCap(cap, need) <= BodyLimit
<1> DEFINE T == {c \in Capacities : c > cap /\ c >= need}
<1>0. BodyLimit \in Capacities /\ BodyLimit \in Nat
  BY CapacitiesTyped, DaemonAssumption
<1>1. BodyLimit \in T /\ T \in SUBSET Nat
  <2>1. BodyLimit > cap /\ BodyLimit >= need
    BY <1>0
  <2> QED
    BY <1>0, <2>1, CapacitiesTyped
<1>2. \E n \in T : \A m \in T : n <= m
  BY <1>1, LeastExists
<1>3. DoubledCap(cap, need) \in T /\ \A m \in T : DoubledCap(cap, need) <= m
  BY <1>2 DEF DoubledCap, Min
<1> QED
  BY <1>1, <1>3

LEMMA ChunkKeepsBodyOK ==
  ASSUME NEW ctx, BodyOK(ctx), NEW n \in Nat \ {0}
  PROVE  BodyOK(UploadChunk(ctx, n))
<1>1. ctx.body_len \in Nat /\ ctx.body_cap \in Nat /\ BodyLimit \in Nat
  BY CapacitiesTyped, DaemonAssumption DEF BodyOK
<1> DEFINE need == NeededSize(ctx.body_len, n)
<1>2. need = ctx.body_len + n + 1 /\ need \in Nat
  BY <1>1 DEF NeededSize
<1>3. CASE need > BodyLimit
  BY <1>3 DEF UploadChunk
<1>4. CASE ~(need > BodyLimit)
  <2> DEFINE new == IF need > ctx.body_cap THEN DoubledCap(ctx.body_cap, need) ELSE ctx.body_cap
  <2>0. need <= BodyLimit
    BY <1>1, <1>2, <1>4
  <2>1. new \in Nat /\ need <= new /\ new <= BodyLimit
    <3>1. CASE need > ctx.body_cap
      <4>1. ctx.body_cap < need
        BY <1>1, <1>2, <3>1
      <4> HIDE DEF need
      <4> QED
        BY <1>1, <1>2, <2>0, <3>1, <4>1, DoublingSuffices
    <3>2. CASE ~(need > ctx.body_cap)
      BY <1>1, <1>2, <3>2 DEF BodyOK
    <3> QED
      BY <3>1, <3>2
  <2>2. UploadChunk(ctx, n) = [body_len |-> ctx.body_len + n, body_cap |-> new]
    BY <1>4 DEF UploadChunk
  <2> HIDE DEF need, new
  <2> QED
    BY <1>1, <1>2, <2>1, <2>2 DEF BodyOK
<1> QED
  BY <1>3, <1>4

\* f are the contexts after each of the calls of route for n chunks.
Calls(f, chunks, n) ==
  f = [i \in 0 .. n |-> IF i = 0 THEN NewUpload ELSE UploadChunk(f[i - 1], chunks[i])]

\* The recursion of Uploaded defines a function, for any number of chunks.
LEMMA CallsExist ==
  ASSUME NEW chunks, NEW n \in Nat
  PROVE  \E f : Calls(f, chunks, n)
<1> SUFFICES ASSUME \A f : ~Calls(f, chunks, n) PROVE FALSE
  OBVIOUS
<1> DEFINE T == {k \in Nat : \A f : ~Calls(f, chunks, k)}
<1>1. PICK k \in T : \A m \in T : k <= m
  BY LeastExists
<1>2. CASE k = 0
  <2> DEFINE f == [i \in 0 .. 0 |-> NewUpload]
  <2>1. Calls(f, chunks, 0)
    BY DEF Calls
  <2> QED
    BY <1>1, <1>2, <2>1
<1>3. CASE k # 0
  <2>1. k - 1 \in Nat /\ k - 1 \notin T
    BY <1>1, <1>3
  <2>2. PICK g : Calls(g, chunks, k - 1)
    BY <2>1
  <2> DEFINE f == [i \in 0 .. k |-> IF i = k THEN UploadChunk(g[k - 1], chunks[k]) ELSE g[i]]
  <2>3. \A i \in 0 .. k - 1 : g[i] = IF i = 0 THEN NewUpload ELSE UploadChunk(g[i - 1], chunks[i])
    BY <2>2 DEF Calls
  <2>4. \A i \in 0 .. k : f[i] = IF i = 0 THEN NewUpload ELSE UploadChunk(f[i - 1], chunks[i])
    BY <1>3, <2>1, <2>3
  <2>5. f = [i \in 0 .. k |-> IF i = 0 THEN NewUpload ELSE UploadChunk(f[i - 1], chunks[i])]
    BY <2>4
  <2> HIDE DEF f
  <2>6. Calls(f, chunks, k)
    BY <2>5 DEF Calls
  <2> QED
    BY <1>1, <2>6
<1> QED
  BY <1>2, <1>3

LEMMA CallsKeepBodyOK ==
  ASSUME NEW n \in Nat, NEW chunks \in [1 .. n -> Nat \ {0}], NEW f, Calls(f, chunks, n),
         NEW j \in 0 .. n
  PROVE  BodyOK(f[j])
<1> SUFFICES ASSUME ~BodyOK(f[j]) PROVE FALSE
  OBVIOUS
<1> DEFINE T == {k \in 0 .. n : ~BodyOK(f[k])}
<1>1. PICK k \in T : \A m \in T : k <= m
  <2>1. T \in SUBSET Nat /\ j \in T
    OBVIOUS
  <2> HIDE DEF T
  <2> QED
    BY <2>1, LeastExists
<1>2. \A i \in 0 .. n : f[i] = IF i = 0 THEN NewUpload ELSE UploadChunk(f[i - 1], chunks[i])
  BY DEF Calls
<1>3. CASE k = 0
  <2>1. BodyOK(NewUpload)
    BY CapacitiesTyped, DaemonAssumption DEF BodyOK, NewUpload
  <2> QED
    BY <1>1, <1>2, <1>3, <2>1
<1>4. CASE k # 0
  <2>1. k - 1 \in 0 .. n /\ k - 1 \notin T /\ k \in 1 .. n
    BY <1>1, <1>4
  <2>2. BodyOK(f[k - 1]) /\ chunks[k] \in Nat \ {0}
    BY <2>1
  <2>3. BodyOK(UploadChunk(f[k - 1], chunks[k]))
    BY <2>2, ChunkKeepsBodyOK
  <2> QED
    BY <1>1, <1>2, <1>4, <2>1, <2>3
<1> QED
  BY <1>3, <1>4

LEMMA BodiesFit == \A chunks \in Bodies : BodyOK(Uploaded(chunks))
<1> SUFFICES ASSUME NEW chunks \in Bodies PROVE BodyOK(Uploaded(chunks))
  OBVIOUS
<1>1. PICK n \in Nat : chunks \in [1 .. n -> Nat \ {0}] /\ Len(chunks) = n
  <2>1. PICK n \in 1 .. MaxChunks : chunks \in [1 .. n -> Chunks]
    BY DEF Bodies
  <2>2. n \in Nat /\ chunks \in [1 .. n -> Nat \ {0}]
    <3>1. MaxChunks \in Nat /\ Chunks \subseteq Nat \ {0}
      BY DaemonAssumption
    <3>2. n \in Nat
      BY <3>1
    <3>3. \A i \in 1 .. n : chunks[i] \in Nat \ {0}
      BY <2>1, <3>1
    <3> QED
      BY <2>1, <3>2, <3>3
  <2>3. Len(chunks) = n
    BY <2>2
  <2> QED
    BY <2>2, <2>3
<1>2. PICK g : Calls(g, chunks, n)
  BY <1>1, CallsExist
<1> DEFINE f == CHOOSE h : h = [i \in 0 .. Len(chunks) |->
                                  IF i = 0 THEN NewUpload ELSE UploadChunk(h[i - 1], chunks[i])]
<1>3. Uploaded(chunks) = f[Len(chunks)]
  BY DEF Uploaded
<1>4. Calls(f, chunks, n)
  BY <1>1, <1>2 DEF Calls
<1> HIDE DEF f
<1> QED
  BY <1>1, <1>3, <1>4, CallsKeepBodyOK

\* route (httpd.c:327-348): whatever chunks a body comes in, it and its
\* terminator fit into the buffer, which never outgrows the limit, for any
\* number of chunks of any size.
THEOREM BodyAlwaysFits == Spec => []BodyFits
<1>1. BodyFits
  BY BodiesFit DEF BodyFits, BufferSuffices, BodyOK
<1> QED
  BY <1>1, PTL
=============================================================================
