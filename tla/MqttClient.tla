----------------------------- MODULE MqttClient -----------------------------
(***************************************************************************)
(* A Contiki sensor, iot/contiki/mqtt-demo: the state machine that keeps   *)
(* an MQTT connection and publishes a noise level on it periodically.      *)
(*                                                                         *)
(* The process runs when its event timer has expired; in between the MQTT  *)
(* library runs, which calls mqtt_event back.  Contiki never preempts      *)
(* either of them, so each handler is one action.  The library and the     *)
(* network are modelled as far as the sensor depends on them.              *)
(*                                                                         *)
(* Time passes in ticks; a handler may run later than its timer says.      *)
(***************************************************************************)
EXTENDS NoiseWindow

CONSTANTS
    Off, \* a timer that is not set
    NET_CONNECT_PERIODIC, STATE_MACHINE_PERIODIC, RECONNECT_INTERVAL,
    CONNECTION_STABLE_TIME, DEFAULT_PUBLISH_INTERVAL, \* ticks
    AttemptValues \* number of values of connect_attempt, 256 for a uint8_t

Intervals == {NET_CONNECT_PERIODIC, STATE_MACHINE_PERIODIC, RECONNECT_INTERVAL,
              CONNECTION_STABLE_TIME, DEFAULT_PUBLISH_INTERVAL}

ASSUME OffAssumption       == Off \notin Nat
ASSUME IntervalsAssumption == Intervals \subseteq Nat \ {0}
ASSUME AttemptAssumption   == AttemptValues \in Nat /\ AttemptValues > 3

VARIABLES
    state,           \* of the state machine
    timer,           \* ticks until publish_periodic_timer expires, or Off
    connection_life, \* ticks until the connection counts as stable
    connect_attempt,
    address,         \* the node has a global IPv6 address
    conn,            \* what the library makes of the connection
    out_queue_full,  \* the library holds a message
    out_buffer_sent, \* the library waits for no acknowledgement
    wire,            \* the message on its way to the broker, or Nothing
    received,        \* the last message the broker received, or Nothing
    quiet            \* ticks since the last mqtt_connect, if fewer than
                     \* RECONNECT_INTERVAL

libraryVars == <<conn, out_queue_full, out_buffer_sent, wire, received>>
vars == <<state, timer, connection_life, connect_attempt, address, quiet,
          libraryVars, windowVars>>

States == {"init", "registered", "connecting", "connected", "publishing",
           "disconnected"}

\* The connection: `posted' from mqtt_connect until the library acts on it,
\* `refused' when the broker did not accept it.
Connections == {"none", "posted", "connecting", "connected", "disconnecting",
                "refused"}

\* update_config, called when the process starts, sets the timer to zero.
Init ==
    /\ state = "init" /\ timer = 0
    /\ connection_life = 0 /\ connect_attempt = 0
    /\ address \in BOOLEAN
    /\ conn = "none" /\ out_queue_full = FALSE /\ out_buffer_sent = FALSE
    /\ wire = Nothing /\ received = Nothing
    /\ quiet = RECONNECT_INTERVAL
    /\ WindowInit

-----------------------------------------------------------------------------
(* What the sensor asks of the library *)

MqttConnect ==
    /\ conn'  = IF conn \in {"none", "refused"} THEN "posted" ELSE conn
    /\ quiet' = 0
    /\ UNCHANGED <<out_queue_full, out_buffer_sent, wire, received>>

MqttDisconnect ==
    /\ conn' = IF conn = "connected" THEN "disconnecting" ELSE conn
    /\ UNCHANGED <<out_queue_full, out_buffer_sent, wire, received, quiet>>

\* The message stays in app_buffer until the library has sent it.
MqttPublish ==
    /\ out_queue_full' = TRUE
    /\ UNCHANGED <<conn, out_buffer_sent, wire, received, quiet>>

ReadyWhileQueued == conn = "connected" /\ out_buffer_sent \* mutant

\* mqtt_ready, and the last message is acknowledged.
Ready == conn = "connected" /\ ~out_queue_full /\ out_buffer_sent

-----------------------------------------------------------------------------
(* state_machine, called when the timer has expired *)

NetTimerIfJoined == IF address THEN NET_CONNECT_PERIODIC ELSE Off \* mutant
NetTimer         == NET_CONNECT_PERIODIC

\* STATE_INIT falls through to STATE_REGISTERED.
Register ==
    /\ timer = 0 /\ state \in {"init", "registered"}
    /\ connect_attempt' = IF state = "init" THEN 1 ELSE connect_attempt
    /\ IF address
         THEN state' = "connecting" /\ MqttConnect
         ELSE state' = "registered" /\ UNCHANGED <<libraryVars, quiet>>
    /\ timer' = NetTimer
    /\ UNCHANGED <<connection_life, address, windowVars>>

AwaitConnection ==
    /\ timer = 0 /\ state = "connecting"
    /\ timer' = STATE_MACHINE_PERIODIC
    /\ UNCHANGED <<state, connection_life, connect_attempt, address, quiet,
                   libraryVars, windowVars>>

\* Common to all that the machine does while it believes to be connected.
Online ==
    /\ timer = 0 /\ state \in {"connected", "publishing"}
    /\ connect_attempt' = IF connection_life = 0 THEN 0 ELSE connect_attempt
    /\ UNCHANGED <<connection_life, address>>

\* The first time the timer fires on a new connection nothing is published.
SkipFirst ==
    /\ Online /\ Ready /\ state = "connected"
    /\ state' = "publishing"
    /\ timer' = DEFAULT_PUBLISH_INTERVAL
    /\ UNCHANGED <<quiet, libraryVars, windowVars>>

Publish(reading) ==
    /\ Online /\ Ready /\ state = "publishing"
    /\ AverageNoise(reading)
    /\ MqttPublish
    /\ timer' = DEFAULT_PUBLISH_INTERVAL
    /\ UNCHANGED state

AwaitAcknowledgement ==
    /\ Online /\ ~Ready
    /\ timer' = STATE_MACHINE_PERIODIC
    /\ UNCHANGED <<state, quiet, libraryVars, windowVars>>

UnboundedAttempt == connect_attempt + 1 \* mutant
NextAttempt == (connect_attempt + 1) % AttemptValues

LinearBackoff(n) == RECONNECT_INTERVAL * n \* mutant
\* RECONNECT_INTERVAL << n, with n at most 3.
Backoff(n) == RECONNECT_INTERVAL * (CASE n = 0 -> 1 [] n = 1 -> 2 [] n = 2 -> 4 [] OTHER -> 8)

WaitingToConnect == "connecting" \* mutant
AfterBackoff     == "registered"

\* RECONNECT_ATTEMPTS is RETRY_FOREVER, so the machine never gives up.
Disconnected ==
    /\ timer = 0 /\ state = "disconnected"
    /\ MqttDisconnect
    /\ connect_attempt' = NextAttempt
    /\ timer' = Backoff(NextAttempt)
    /\ state' = AfterBackoff
    /\ UNCHANGED <<connection_life, address, windowVars>>

StateMachine ==
    \/ Register  \/ AwaitConnection \/ SkipFirst
    \/ AwaitAcknowledgement \/ Disconnected
    \/ \E reading \in Readings : Publish(reading)

-----------------------------------------------------------------------------
(* mqtt_event, called by the library *)

EventConnected ==
    /\ connection_life' = CONNECTION_STABLE_TIME
    /\ state' = "connected"

DisconnectOnlyWhenIdle == IF state = "publishing" THEN state ELSE "disconnected" \* mutant
AfterDisconnect        == "disconnected"

\* process_poll wakes the process, which heeds nothing but its timer.
EventDisconnected ==
    /\ state' = AfterDisconnect
    /\ UNCHANGED connection_life

-----------------------------------------------------------------------------
(* The library and the network *)

OpenTcp ==
    /\ conn = "posted" /\ conn' = "connecting"
    /\ UNCHANGED <<state, timer, connection_life, connect_attempt, address, quiet,
                   out_queue_full, out_buffer_sent, wire, received, windowVars>>

Accepted ==
    /\ conn = "connecting" /\ conn' = "connected"
    /\ out_buffer_sent' = TRUE
    /\ EventConnected
    /\ UNCHANGED <<timer, connect_attempt, address, quiet, out_queue_full, wire,
                   received, windowVars>>

\* The broker answers, but refuses.  mqtt_event only logs it.
Refused ==
    /\ conn = "connecting" /\ conn' = "refused"
    /\ UNCHANGED <<state, timer, connection_life, connect_attempt, address, quiet,
                   out_queue_full, out_buffer_sent, wire, received, windowVars>>

\* The connection cannot be opened, is lost or was closed.
Closed ==
    /\ conn \in {"connecting", "connected", "disconnecting"} /\ conn' = "none"
    /\ out_queue_full' = FALSE
    /\ wire' = Nothing
    /\ EventDisconnected
    /\ UNCHANGED <<timer, connect_attempt, address, quiet, out_buffer_sent, received,
                   windowVars>>

Send ==
    /\ conn = "connected" /\ out_queue_full /\ out_buffer_sent
    /\ wire' = app_buffer
    /\ out_buffer_sent' = FALSE
    /\ UNCHANGED <<state, timer, connection_life, connect_attempt, address, quiet,
                   conn, out_queue_full, received, windowVars>>

Receive ==
    /\ wire # Nothing
    /\ received' = wire
    /\ wire' = Nothing
    /\ UNCHANGED <<state, timer, connection_life, connect_attempt, address, quiet,
                   conn, out_queue_full, out_buffer_sent, windowVars>>

Acknowledge ==
    /\ conn = "connected" /\ ~out_buffer_sent /\ wire = Nothing
    /\ out_buffer_sent' = TRUE
    /\ out_queue_full'  = FALSE
    /\ UNCHANGED <<state, timer, connection_life, connect_attempt, address, quiet,
                   conn, wire, received, windowVars>>

JoinNetwork ==
    /\ ~address /\ address' = TRUE
    /\ UNCHANGED <<state, timer, connection_life, connect_attempt, quiet,
                   libraryVars, windowVars>>

LeaveNetwork ==
    /\ address /\ address' = FALSE
    /\ UNCHANGED <<state, timer, connection_life, connect_attempt, quiet,
                   libraryVars, windowVars>>

Tick ==
    /\ timer \in Nat \ {0} \/ connection_life > 0 \/ quiet < RECONNECT_INTERVAL
    /\ timer' = IF timer \in Nat \ {0} THEN timer - 1 ELSE timer
    /\ connection_life' = IF connection_life > 0 THEN connection_life - 1 ELSE 0
    /\ quiet' = IF quiet < RECONNECT_INTERVAL THEN quiet + 1 ELSE quiet
    /\ UNCHANGED <<state, connect_attempt, address, libraryVars, windowVars>>

Progress == \/ OpenTcp \/ Accepted \/ Send \/ Receive \/ Acknowledge \/ JoinNetwork
Fault    == \/ Refused \/ Closed \/ LeaveNetwork

-----------------------------------------------------------------------------
Next == StateMachine \/ Progress \/ Fault \/ Tick

\* Contiki's scheduler runs every process whose event is due; clocks advance;
\* a broker that neither refuses nor drops a connection answers; a node that
\* lost its address is given one again.
Fairness ==
    /\ WF_vars(StateMachine) /\ WF_vars(Tick)
    /\ WF_vars(OpenTcp) /\ WF_vars(Accepted) /\ WF_vars(Send)
    /\ WF_vars(Receive) /\ WF_vars(Acknowledge) /\ WF_vars(JoinNetwork)

Spec == Init /\ [][Next]_vars /\ Fairness

-----------------------------------------------------------------------------
(* Properties *)

TypeOK ==
    /\ state           \in States
    /\ timer           \in Nat \cup {Off}
    /\ connection_life \in 0 .. CONNECTION_STABLE_TIME
    /\ connect_attempt \in 0 .. AttemptValues - 1
    /\ address         \in BOOLEAN
    /\ conn            \in Connections
    /\ out_queue_full  \in BOOLEAN
    /\ out_buffer_sent \in BOOLEAN
    /\ wire            \in Int \cup {Nothing}
    /\ received        \in Int \cup {Nothing}
    /\ quiet           \in 0 .. RECONNECT_INTERVAL
    /\ readings_window \in [Slots -> Int]
    /\ cur_reading     \in Slots
    /\ cur_reading_sum \in Int
    /\ app_buffer      \in Int \cup {Nothing}

\* The state machine and the library agree on the connection, although each
\* learns of the other's steps only later: the machine is online exactly while
\* the library is connected, it connects only when nothing is left of an
\* earlier connection, and mqtt_disconnect (mqtt-demo.c:456) never finds one.
ConnectionAgreed ==
    /\ state \in {"connected", "publishing"} <=> conn = "connected"
    /\ state \in {"init", "registered", "disconnected"} <=> conn = "none"

\* The machine runs only when its timer fires, and no library event sets the
\* timer (process_poll at mqtt-demo.c:230 does not help): it must never return
\* from a handler without having set the timer again.
NeverAsleep == timer # Off

\* Whatever the broker does, and even when the uint8_t connect_attempt wraps
\* around (mqtt-demo.c:457), two connection attempts are RECONNECT_INTERVAL
\* or more apart.
NoHammering ==
    [][conn # "posted" /\ conn' = "posted" => quiet >= RECONNECT_INTERVAL]_vars

\* The sensor implements SensorFeed: the message stays unchanged in the one
\* static app_buffer (noise.c:33-66) as long as the library needs it there.
Pending == IF out_queue_full /\ out_buffer_sent THEN app_buffer ELSE wire

Feed == INSTANCE SensorFeed
    WITH recent <- Recent, reported <- app_buffer, pending <- Pending

ImplementsFeed == Feed!FeedSpec

\* If from some time on the network is up, the sensor publishes again and
\* again, after whatever happened before; unless its last attempt to connect
\* was refused.
KeepsPublishing ==
    <>[][~Fault]_vars => []<>out_queue_full \/ <>[](conn = "refused")

\* mqtt-demo.c:81-86: the number of times to try reconnecting to the broker
\* can be set to RETRY_FOREVER, as it is.  No attempt is waited for forever.
RetriesForever == state = "connecting" ~> state # "connecting"
=============================================================================
