-------------------------------- MODULE Mqtt --------------------------------
(***************************************************************************)
(* The MQTT client (mqttc.c): the connection that libmosquitto's thread    *)
(* keeps up, the callbacks it runs, the last will, and the thread that     *)
(* fails over between the two broker addresses.  Daemon starts and stops   *)
(* it.  The credentials are right: a broker that answers accepts.          *)
(*                                                                         *)
(* Of libmosquitto and the brokers only what the code relies on is here:   *)
(* the client tries to connect to the address it was last given, a broker  *)
(* publishes the will of a session that ends without a DISCONNECT, also    *)
(* when the client itself takes it over with a new connection, and what is *)
(* sent on a connection arrives in order until it is cut.                  *)
(***************************************************************************)
EXTENDS Integers

CONSTANTS
  MaxOutages,           \* bound: changes of which brokers can be reached
  InitiallyReachable    \* the brokers that can be reached at the start

Hosts == {0, 1}         \* mqtt_host and mqtt_host_fallback, which differ

VARIABLES
  ACTIVE_HOST,
  mqtt_connected,  \* the flag in the state record
  windowOver,      \* now_mono() - LAST_CONNECT_CHANGE >= SWITCH_AFTER
  spc,             \* supervisor: "off", "nap", "switch" (it has decided to)
  client,          \* libmosquitto: "off" (M is NULL), "down", "connack", "up"
  reachable,       \* the brokers that the network lets through
  cut,             \* the connection is dead, though nobody has noticed yet
  session,         \* the brokers that hold a session, and with it the will
  online,          \* the brokers whose retained status is "online"
  lingering,       \* history: brokers left "online" with a DISCONNECT, see below
  outages

network == <<client, reachable, cut, session, online, lingering, outages>>
mqtt == <<ACTIVE_HOST, mqtt_connected, windowOver, spc, network>>

-----------------------------------------------------------------------------
(***************************************************************************)
(* The network and the brokers.                                            *)
(***************************************************************************)
Linked == client \in {"connack", "up"}

\* An outage that a connection survives only delays it: that is none here.
Outage(hosts) ==
  /\ outages < MaxOutages
  /\ outages' = outages + 1
  /\ reachable' = hosts
  /\ cut' = (cut \/ (Linked /\ ACTIVE_HOST \notin hosts))
  /\ UNCHANGED <<ACTIVE_HOST, mqtt_connected, windowOver, spc, client, session, online, lingering>>

\* The keepalive of a session without a working connection runs out.
WillPublished(h) ==
  /\ h \in session
  /\ Linked /\ ACTIVE_HOST = h => cut
  /\ session' = session \ {h}
  /\ online' = online \ {h}
  /\ UNCHANGED <<ACTIVE_HOST, mqtt_connected, windowOver, spc, client, reachable, cut, lingering, outages>>

\* The broker accepts the connection: it has the will from here on, and
\* publishes that of the session it still holds, if any.
Connack ==
  /\ client = "down"
  /\ ACTIVE_HOST \in reachable
  /\ client' = "connack"
  /\ session' = session \union {ACTIVE_HOST}
  /\ online' = online \ (session \intersect {ACTIVE_HOST})
  /\ UNCHANGED <<ACTIVE_HOST, mqtt_connected, windowOver, spc, reachable, cut, lingering, outages>>

SwitchTime ==
  /\ ~windowOver /\ spc = "nap"
  /\ windowOver' = TRUE
  /\ UNCHANGED <<ACTIVE_HOST, mqtt_connected, spc, network>>

-----------------------------------------------------------------------------
(***************************************************************************)
(* The callbacks, on libmosquitto's thread.                                *)
(***************************************************************************)
\* on_connect: should the retained "online" not arrive, the will follows it.
\* Once mqttc_stop has published "offline" (late), it is never taken back.
OnConnect(late) ==
  /\ client = "connack"
  /\ client' = "up"
  /\ mqtt_connected' = TRUE /\ windowOver' = FALSE
  /\ IF ~cut
     THEN /\ online' = online \union {ACTIVE_HOST}
          /\ lingering' = IF late THEN lingering \union {ACTIVE_HOST} ELSE lingering \ {ACTIVE_HOST}
     ELSE UNCHANGED <<online, lingering>>
  /\ UNCHANGED <<ACTIVE_HOST, spc, reachable, cut, session, outages>>

\* Mutant: the flag of the state record is left alone.
FlagKept == mqtt_connected

FlagDown == FALSE

OnDisconnect ==
  /\ mqtt_connected' = FlagDown
  /\ windowOver' = (windowOver /\ ~mqtt_connected)

\* The connection breaks, and libmosquitto will try again.
LinkLost ==
  /\ Linked /\ cut
  /\ client' = "down" /\ cut' = FALSE
  /\ OnDisconnect
  /\ UNCHANGED <<ACTIVE_HOST, spc, reachable, session, online, lingering, outages>>

-----------------------------------------------------------------------------
(***************************************************************************)
(* supervisor: while SUP_RUN is set it looks at the flag and the clock, and *)
(* then acts.                                                              *)
(***************************************************************************)
Decide(SUP_RUN) ==
  /\ SUP_RUN /\ spc = "nap"
  /\ ~mqtt_connected /\ windowOver
  /\ spc' = "switch"
  /\ UNCHANGED <<ACTIVE_HOST, mqtt_connected, windowOver, network>>

\* mosquitto_disconnect: a broker that still hears it drops the will.
Disconnected == IF Linked /\ ~cut THEN session \ {ACTIVE_HOST} ELSE session

\* Mutant: the other address is tried only once.
FallbackOnly == 1

\* Mutant: counted up where the code takes the exclusive or.
NextHost == ACTIVE_HOST + 1

OtherHost == 1 - ACTIVE_HOST

\* A connection that came up since the decision is left without a will and
\* with the status it had: "online" if the callback has run.
SwitchHost ==
  /\ spc = "switch"
  /\ spc' = "nap"
  /\ ACTIVE_HOST' = OtherHost
  /\ session' = Disconnected
  /\ lingering' = IF client = "up" /\ ACTIVE_HOST \notin session' THEN lingering \union {ACTIVE_HOST}
                  ELSE lingering
  /\ client' = "down" /\ cut' = FALSE
  /\ mqtt_connected' = FALSE /\ windowOver' = FALSE
  /\ UNCHANGED <<reachable, online, outages>>

-----------------------------------------------------------------------------
(***************************************************************************)
(* mqttc_start and mqttc_stop.                                             *)
(***************************************************************************)
MqttStart ==
  /\ ACTIVE_HOST' = 0 /\ windowOver' = FALSE
  /\ client' = "down"
  /\ spc' = "nap"
  /\ UNCHANGED <<mqtt_connected, reachable, cut, session, online, lingering, outages>>

\* Mutant: nothing is published on a clean shutdown.
StatusKept == online

StatusOffline == IF Linked /\ ~cut THEN online \ {ACTIVE_HOST} ELSE online

\* The thread is joined first: a switch it has decided on is carried out.
MqttSayOffline ==
  /\ spc # "switch"
  /\ spc' = "off"
  /\ online' = StatusOffline
  /\ UNCHANGED <<ACTIVE_HOST, mqtt_connected, windowOver, client, reachable, cut, session, lingering, outages>>

MqttClose ==
  /\ session' = Disconnected
  /\ client' = "off" /\ cut' = FALSE
  /\ mqtt_connected' = FALSE
  /\ UNCHANGED <<ACTIVE_HOST, windowOver, spc, reachable, online, lingering, outages>>

\* The process is gone.
MqttGone ==
  /\ client' = "off" /\ cut' = FALSE /\ spc' = "off" /\ mqtt_connected' = FALSE
  /\ UNCHANGED <<ACTIVE_HOST, windowOver, reachable, session, online, lingering, outages>>

MqttInit ==
  /\ ACTIVE_HOST = 0 /\ mqtt_connected = FALSE /\ windowOver = FALSE /\ spc = "off"
  /\ client = "off" /\ cut = FALSE
  /\ reachable = InitiallyReachable
  /\ session = {} /\ online = {}
  /\ lingering = {} /\ outages = 0

MqttNetwork ==
  \/ \E hosts \in SUBSET Hosts \ {reachable} : Outage(hosts)
  \/ \E h \in Hosts : WillPublished(h)
  \/ Connack
  \/ LinkLost
  \/ SwitchTime

MqttSupervisor(SUP_RUN) == Decide(SUP_RUN) \/ SwitchHost

MqttTypeOK ==
  /\ ACTIVE_HOST \in Hosts
  /\ mqtt_connected \in BOOLEAN /\ windowOver \in BOOLEAN
  /\ spc \in {"off", "nap", "switch"}
  /\ client \in {"off", "down", "connack", "up"} /\ cut \in BOOLEAN
  /\ reachable \subseteq Hosts /\ session \subseteq Hosts /\ online \subseteq Hosts /\ lingering \subseteq Hosts
  /\ outages \in 0 .. MaxOutages
=============================================================================
