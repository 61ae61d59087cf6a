-------------------------- MODULE MqttClientProofs --------------------------
(***************************************************************************)
(* Proofs about the sensor: for every set of readings, the ring buffer and *)
(* the running sum of noise.c report the mean of the last six readings;    *)
(* and about its MQTT client, for all intervals, readings and widths of    *)
(* connect_attempt.                                                        *)
(***************************************************************************)
EXTENDS MqttClient, TLAPS

-----------------------------------------------------------------------------
(* The noise window *)

\* The inductive invariant: the variables' types, and the running sum.
WindowInv ==
    /\ readings_window \in [Slots -> Int]
    /\ cur_reading \in Slots
    /\ cur_reading_sum \in Int
    /\ SumIsCurrent

LEMMA SlotsAreSix == Slots = 0 .. 5 /\ Slots = {0, 1, 2, 3, 4, 5}
  BY DEF Slots, WINDOW

LEMMA WindowStart == WindowInit => WindowInv /\ Noise!NoiseInit
<1> SUFFICES ASSUME WindowInit PROVE WindowInv /\ Noise!NoiseInit
  OBVIOUS
<1>1. WindowInv
  BY SlotsAreSix DEF WindowInit, WindowInv, SumIsCurrent
<1>2. \A k \in 1 .. WINDOW : (cur_reading + WINDOW - k) % WINDOW \in Slots
  BY DEF WindowInit, WINDOW, Slots
<1>3. Recent = Noise!Silence
  BY <1>2 DEF WindowInit, Recent, Noise!Silence, Noise!WINDOW, WINDOW
<1> QED  BY <1>1, <1>3 DEF WindowInit, Noise!NoiseInit

\* Where the readings lie in the ring after a step: the new one is the latest,
\* each other one has become one older, and the oldest is gone.
LEMMA RingShift ==
    ASSUME WindowInv, NEW reading \in Int, AverageNoise(reading)
    PROVE  Recent' = [k \in 1 .. WINDOW |-> IF k = 1 THEN reading ELSE Recent[k - 1]]
<1>1. /\ cur_reading \in Slots /\ cur_reading' = (cur_reading + 1) % WINDOW
      /\ readings_window \in [Slots -> Int]
      /\ readings_window' = [readings_window EXCEPT ![cur_reading] = reading]
  BY DEF WindowInv, AverageNoise, NextSlot
<1>2. ASSUME NEW k \in 1 .. WINDOW
      PROVE  /\ (cur_reading' + WINDOW - k) % WINDOW \in Slots
             /\ (k = 1) <=> ((cur_reading' + WINDOW - k) % WINDOW = cur_reading)
             /\ k # 1 => /\ k - 1 \in 1 .. WINDOW
                         /\ (cur_reading + WINDOW - (k - 1)) % WINDOW = (cur_reading' + WINDOW - k) % WINDOW
  <2> HIDE DEF Slots
  <2>1. cur_reading \in {0, 1, 2, 3, 4, 5} /\ k \in {1, 2, 3, 4, 5, 6}
    BY <1>1, SlotsAreSix DEF WINDOW
  <2> QED  BY <2>1, <1>1 DEF WINDOW, Slots
<1>3. \A k \in 1 .. WINDOW : readings_window'[(cur_reading' + WINDOW - k) % WINDOW]
                           = IF k = 1 THEN reading ELSE Recent[k - 1]
  BY <1>1, <1>2 DEF Recent
<1> QED  BY <1>3 DEF Recent

LEMMA SumStep ==
    ASSUME WindowInv, NEW reading \in Int, AverageNoise(reading)
    PROVE  WindowInv'
<1>1. /\ cur_reading \in {0, 1, 2, 3, 4, 5} /\ cur_reading_sum \in Int
      /\ readings_window \in [Slots -> Int] /\ Slots = {0, 1, 2, 3, 4, 5}
  BY SlotsAreSix DEF WindowInv
<1>2. readings_window' = [readings_window EXCEPT ![cur_reading] = reading]
      /\ cur_reading_sum' = cur_reading_sum - readings_window[cur_reading] + reading
  BY DEF AverageNoise, SumWith
<1>3. readings_window' \in [Slots -> Int] /\ cur_reading_sum' \in Int
  BY <1>1, <1>2
<1>4. cur_reading' \in Slots
  BY <1>1 DEF AverageNoise, NextSlot, Slots, WINDOW
<1>5. \A i \in Slots : readings_window'[i] = IF i = cur_reading THEN reading ELSE readings_window[i]
  BY <1>1, <1>2
<1>6. \A i \in Slots : readings_window[i] \in Int
  BY <1>1
<1>7. SumIsCurrent'
  BY <1>1, <1>2, <1>5, <1>6 DEF WindowInv, SumIsCurrent
<1> QED  BY <1>3, <1>4, <1>7 DEF WindowInv

\* The sum over the ring, read in the order of the readings.
LEMMA SumOfRecent == WindowInv => Noise!Sum(Recent) = cur_reading_sum
<1> SUFFICES ASSUME WindowInv PROVE Noise!Sum(Recent) = cur_reading_sum
  OBVIOUS
<1>1. cur_reading \in {0, 1, 2, 3, 4, 5} /\ \A i \in {0, 1, 2, 3, 4, 5} : readings_window[i] \in Int
  BY SlotsAreSix DEF WindowInv
<1>2. /\ Recent[1] = readings_window[(cur_reading + 6 - 1) % 6]
      /\ Recent[2] = readings_window[(cur_reading + 6 - 2) % 6]
      /\ Recent[3] = readings_window[(cur_reading + 6 - 3) % 6]
      /\ Recent[4] = readings_window[(cur_reading + 6 - 4) % 6]
      /\ Recent[5] = readings_window[(cur_reading + 6 - 5) % 6]
      /\ Recent[6] = readings_window[(cur_reading + 6 - 6) % 6]
  BY DEF Recent, WINDOW
<1>3. CASE cur_reading = 0
  BY <1>1, <1>2, <1>3 DEF WindowInv, SumIsCurrent, Noise!Sum
<1>4. CASE cur_reading = 1
  BY <1>1, <1>2, <1>4 DEF WindowInv, SumIsCurrent, Noise!Sum
<1>5. CASE cur_reading = 2
  BY <1>1, <1>2, <1>5 DEF WindowInv, SumIsCurrent, Noise!Sum
<1>6. CASE cur_reading = 3
  BY <1>1, <1>2, <1>6 DEF WindowInv, SumIsCurrent, Noise!Sum
<1>7. CASE cur_reading = 4
  BY <1>1, <1>2, <1>7 DEF WindowInv, SumIsCurrent, Noise!Sum
<1>8. CASE cur_reading = 5
  BY <1>1, <1>2, <1>8 DEF WindowInv, SumIsCurrent, Noise!Sum
<1> QED  BY <1>1, <1>3, <1>4, <1>5, <1>6, <1>7, <1>8

\* One call of get_noise_average is one report, and keeps the invariant.
THEOREM NoiseStep ==
    ASSUME WindowInv, NEW reading \in Int, AverageNoise(reading)
    PROVE  WindowInv' /\ Noise!Report(reading)
<1>1. WindowInv'
  BY SumStep
<1>2. Recent' = [k \in 1 .. Noise!WINDOW |-> IF k = 1 THEN reading ELSE Recent[k - 1]]
  BY RingShift DEF Noise!WINDOW, WINDOW
<1>3. (Noise!Sum(Recent) = cur_reading_sum)'
  BY <1>1, SumOfRecent, PTL
<1>4. Recent'[1] = reading
  BY <1>2 DEF Noise!WINDOW
<1>5. app_buffer' = Noise!Level(Recent')
  BY <1>3, <1>4 DEF AverageNoise, Average, Noise!Level, Noise!K, K, Noise!WINDOW, WINDOW
<1> QED  BY <1>1, <1>2, <1>5 DEF Noise!Report

LEMMA WindowStep == WindowInv /\ [\E reading \in Readings : AverageNoise(reading)]_windowVars
                    => WindowInv' /\ [\E reading \in Readings : Noise!Report(reading)]_<<Recent, app_buffer>>
<1> SUFFICES ASSUME WindowInv, [\E reading \in Readings : AverageNoise(reading)]_windowVars
             PROVE  WindowInv' /\ [\E reading \in Readings : Noise!Report(reading)]_<<Recent, app_buffer>>
  OBVIOUS
<1>1. ASSUME NEW reading \in Readings, AverageNoise(reading)
      PROVE  WindowInv' /\ \E r \in Readings : Noise!Report(r)
  BY <1>1, NoiseStep, ReadingsAssumption
<1>2. ASSUME UNCHANGED windowVars PROVE WindowInv' /\ UNCHANGED <<Recent, app_buffer>>
  BY <1>2 DEF windowVars, WindowInv, SumIsCurrent, Recent
<1> QED  BY <1>1, <1>2

\* The running sum never departs from the ring's contents (noise.c:19-31),
\* whatever is read.
THEOREM RunningSumCorrect == WindowSpec => []SumIsCurrent
<1>1. WindowInv => SumIsCurrent
  BY DEF WindowInv
<1> QED  BY WindowStart, WindowStep, <1>1, PTL DEF WindowSpec

\* get_noise_average reports the mean of the last six readings, or the last
\* one when that mean is loud, for all sequences of readings.
THEOREM WindowImplementsRecentNoise == WindowSpec => ImplementsRecentNoise
<1>1. WindowSpec => [][\E reading \in Readings : Noise!Report(reading)]_<<Recent, app_buffer>>
  BY WindowStart, WindowStep, PTL DEF WindowSpec
<1> QED
  BY WindowStart, <1>1, PTL DEF WindowSpec, ImplementsRecentNoise, Noise!NoiseSpec, Noise!noiseVars

-----------------------------------------------------------------------------
(* The MQTT client *)

\* Two connection attempts are apart: what is left of the timer while the
\* machine waits makes up for what is missing since the last attempt.
Spacing ==
    /\ state = "init" => quiet = RECONNECT_INTERVAL
    /\ state = "registered" => timer + quiet >= RECONNECT_INTERVAL

\* Which stage of the message's way the library's two flags tell.
BufferInUse ==
    /\ out_queue_full => conn = "connected" /\ app_buffer # Nothing
    /\ wire # Nothing => out_queue_full /\ ~out_buffer_sent

\* The inductive invariant.  ConnectionAgreed says why mqtt_connect and
\* mqtt_disconnect find the library as they expect it, WindowInv what the
\* published level is made of.
Inv == TypeOK /\ ConnectionAgreed /\ NeverAsleep /\ Spacing /\ BufferInUse /\ WindowInv

LEMMA IntervalTypes ==
    /\ NET_CONNECT_PERIODIC \in Nat \ {0}
    /\ STATE_MACHINE_PERIODIC \in Nat \ {0}
    /\ RECONNECT_INTERVAL \in Nat \ {0}
    /\ CONNECTION_STABLE_TIME \in Nat \ {0}
    /\ DEFAULT_PUBLISH_INTERVAL \in Nat \ {0}
  BY IntervalsAssumption DEF Intervals

LEMMA Arithmetic ==
    /\ \A a, b, r \in Nat : a >= r => a + b >= r
    /\ \A a, b, c, d, r \in Nat :
           a + b >= r /\ (c + d >= a + b \/ d = r) => c + d >= r
  OBVIOUS

\* The count of attempts stays in its type, and no back-off is shorter than
\* RECONNECT_INTERVAL.
LEMMA BackoffType ==
    ASSUME TypeOK
    PROVE  /\ NextAttempt \in 0 .. AttemptValues - 1
           /\ Backoff(NextAttempt) \in Nat \ {0}
           /\ Backoff(NextAttempt) >= RECONNECT_INTERVAL
<1>1. connect_attempt \in Nat /\ AttemptValues \in Nat \ {0}
  BY AttemptAssumption DEF TypeOK
<1>2. NextAttempt \in 0 .. AttemptValues - 1
  BY <1>1 DEF NextAttempt
<1> DEFINE factor == CASE NextAttempt = 0 -> 1 [] NextAttempt = 1 -> 2
                       [] NextAttempt = 2 -> 4 [] OTHER -> 8
<1>3. factor \in {1, 2, 4, 8}
  OBVIOUS
<1>4. RECONNECT_INTERVAL \in Nat \ {0}
  BY IntervalTypes
<1>5. Backoff(NextAttempt) = RECONNECT_INTERVAL * factor
  BY DEF Backoff
<1> HIDE DEF factor
<1> QED  BY <1>2, <1>3, <1>4, <1>5

LEMMA InvInit == Init => Inv
<1> SUFFICES ASSUME Init PROVE Inv
  OBVIOUS
<1>1. WindowInv
  BY WindowStart DEF Init
<1>2. TypeOK
  <2>1. /\ 0 \in 0 .. AttemptValues - 1 /\ 0 \in 0 .. CONNECTION_STABLE_TIME
        /\ RECONNECT_INTERVAL \in 0 .. RECONNECT_INTERVAL
    BY IntervalTypes, AttemptAssumption
  <2>2. timer \in Nat /\ app_buffer = Nothing
    BY DEF Init, WindowInit
  <2> QED  BY <1>1, <2>1, <2>2 DEF Init, TypeOK, WindowInv, States, Connections
<1>3. ConnectionAgreed /\ Spacing /\ BufferInUse
  BY DEF Init, ConnectionAgreed, Spacing, BufferInUse
<1>4. NeverAsleep
  BY OffAssumption DEF Init, NeverAsleep
<1> QED  BY <1>1, <1>2, <1>3, <1>4 DEF Inv

\* Only Publish touches the ring and the message.
LEMMA WindowUntouched ==
    ASSUME Inv, UNCHANGED windowVars
    PROVE  /\ WindowInv'
           /\ readings_window' \in [Slots -> Int] /\ cur_reading' \in Slots
           /\ cur_reading_sum' \in Int /\ app_buffer' \in Int \cup {Nothing}
           /\ app_buffer' = app_buffer
           /\ Recent' = Recent
<1>1. WindowInv' /\ app_buffer' = app_buffer /\ Recent' = Recent
  BY DEF Inv, WindowInv, SumIsCurrent, windowVars, Recent
<1>2. app_buffer \in Int \cup {Nothing}
  BY DEF Inv, TypeOK
<1> QED  BY <1>1, <1>2 DEF WindowInv

LEMMA PublishKeepsWindow ==
    ASSUME Inv, NEW reading \in Readings, Publish(reading)
    PROVE  WindowInv' /\ app_buffer' \in Int /\ Noise!Report(reading)
<1>1. reading \in Int
  BY ReadingsAssumption
<1>2. AverageNoise(reading) /\ WindowInv
  BY DEF Publish, Inv
<1>3. WindowInv' /\ Noise!Report(reading)
  BY <1>1, <1>2, NoiseStep
<1>4. cur_reading_sum' \in Int
  BY <1>3 DEF WindowInv
<1>5. app_buffer' \in Int
  BY <1>1, <1>2, <1>4 DEF AverageNoise, Average, K, WINDOW
<1> QED  BY <1>3, <1>5

-----------------------------------------------------------------------------
(* The state machine's handlers *)

LEMMA RegisterStep == Inv /\ Register => Inv'
<1> SUFFICES ASSUME Inv, Register PROVE Inv'
  OBVIOUS
<1> USE IntervalTypes
<1>1. WindowInv' /\ TypeOK'
  BY WindowUntouched, AttemptAssumption
     DEF Inv, TypeOK, Register, NetTimer, MqttConnect, libraryVars, States, Connections
<1>2. ConnectionAgreed'
  BY DEF Inv, ConnectionAgreed, Register, MqttConnect, libraryVars
<1>3. NeverAsleep'
  BY OffAssumption DEF Register, NetTimer, NeverAsleep
<1>4. Spacing'
  BY DEF Inv, TypeOK, Spacing, Register, NetTimer, MqttConnect
<1>5. BufferInUse'
  BY WindowUntouched DEF Inv, BufferInUse, ConnectionAgreed, Register, MqttConnect, libraryVars
<1> QED  BY <1>1, <1>2, <1>3, <1>4, <1>5 DEF Inv

LEMMA DisconnectedStep == Inv /\ Disconnected => Inv'
<1> SUFFICES ASSUME Inv, Disconnected PROVE Inv'
  OBVIOUS
<1>1. WindowInv' /\ TypeOK'
  BY WindowUntouched, BackoffType
     DEF Inv, TypeOK, Disconnected, AfterBackoff, MqttDisconnect, States, Connections
<1>2. ConnectionAgreed'
  BY DEF Inv, ConnectionAgreed, Disconnected, AfterBackoff, MqttDisconnect
<1>3. NeverAsleep'
  BY OffAssumption, BackoffType DEF Inv, Disconnected, NeverAsleep
<1>4. Spacing'
  <2>1. timer' >= RECONNECT_INTERVAL /\ timer' \in Nat
    BY BackoffType DEF Inv, Disconnected
  <2>2. state' = "registered" /\ quiet' \in Nat
    BY IntervalTypes DEF Inv, TypeOK, Disconnected, AfterBackoff, MqttDisconnect
  <2>3. timer' + quiet' >= RECONNECT_INTERVAL
    BY <2>1, <2>2, IntervalTypes, Arithmetic
  <2> QED  BY <2>2, <2>3 DEF Spacing
<1>5. BufferInUse'
  BY WindowUntouched DEF Inv, BufferInUse, ConnectionAgreed, Disconnected, MqttDisconnect
<1> QED  BY <1>1, <1>2, <1>3, <1>4, <1>5 DEF Inv

\* The handlers that only wait, and the first one on a new connection.
LEMMA WaitingStep == Inv /\ (AwaitConnection \/ AwaitAcknowledgement \/ SkipFirst) => Inv'
<1> SUFFICES ASSUME Inv, AwaitConnection \/ AwaitAcknowledgement \/ SkipFirst PROVE Inv'
  OBVIOUS
<1>1. /\ UNCHANGED <<connection_life, address, quiet, libraryVars, windowVars>>
      /\ timer' \in {STATE_MACHINE_PERIODIC, DEFAULT_PUBLISH_INTERVAL}
      /\ connect_attempt' \in {connect_attempt, 0}
      /\ \/ state' = state /\ state \in {"connecting", "connected", "publishing"}
         \/ state = "connected" /\ state' = "publishing"
  BY DEF AwaitConnection, AwaitAcknowledgement, SkipFirst, Online
<1>2. WindowInv' /\ TypeOK'
  BY <1>1, WindowUntouched, IntervalTypes, AttemptAssumption
     DEF Inv, TypeOK, libraryVars, States
<1>3. ConnectionAgreed'
  BY <1>1 DEF Inv, ConnectionAgreed, libraryVars
<1>4. NeverAsleep'
  BY <1>1, IntervalTypes, OffAssumption DEF NeverAsleep
<1>5. Spacing'
  BY <1>1 DEF Spacing
<1>6. BufferInUse'
  BY <1>1, WindowUntouched DEF Inv, BufferInUse, libraryVars
<1> QED  BY <1>2, <1>3, <1>4, <1>5, <1>6 DEF Inv

LEMMA PublishStep == ASSUME Inv, NEW reading \in Readings, Publish(reading) PROVE Inv'
<1>1. WindowInv' /\ app_buffer' \in Int
  BY PublishKeepsWindow
<1>2. TypeOK'
  BY <1>1, IntervalTypes, AttemptAssumption
     DEF Inv, TypeOK, WindowInv, Publish, MqttPublish, Online
<1>3. ConnectionAgreed'
  BY DEF Inv, ConnectionAgreed, Publish, MqttPublish
<1>4. NeverAsleep'
  BY IntervalTypes, OffAssumption DEF Publish, NeverAsleep
<1>5. Spacing'
  BY DEF Spacing, Publish
<1>6. BufferInUse'
  BY <1>1, NothingAssumption DEF Inv, BufferInUse, Publish, MqttPublish, Ready
<1> QED  BY <1>1, <1>2, <1>3, <1>4, <1>5, <1>6 DEF Inv

-----------------------------------------------------------------------------
(* The library, the network and time *)

LEMMA LibraryStep == Inv /\ (OpenTcp \/ Refused \/ Send \/ Receive \/ Acknowledge) => Inv'
<1> SUFFICES ASSUME Inv, OpenTcp \/ Refused \/ Send \/ Receive \/ Acknowledge PROVE Inv'
  OBVIOUS
<1>1. UNCHANGED <<state, timer, connection_life, connect_attempt, address, quiet, windowVars>>
  BY DEF OpenTcp, Refused, Send, Receive, Acknowledge
<1>2. WindowInv' /\ TypeOK'
  BY <1>1, WindowUntouched
     DEF Inv, TypeOK, Connections, OpenTcp, Refused, Send, Receive, Acknowledge
<1>3. ConnectionAgreed'
  BY <1>1 DEF Inv, ConnectionAgreed, OpenTcp, Refused, Send, Receive, Acknowledge
<1>4. NeverAsleep' /\ Spacing'
  BY <1>1 DEF Inv, NeverAsleep, Spacing
<1>5. BufferInUse'
  BY <1>1, WindowUntouched DEF Inv, BufferInUse, OpenTcp, Refused, Send, Receive, Acknowledge
<1> QED  BY <1>2, <1>3, <1>4, <1>5 DEF Inv

LEMMA EventStep == Inv /\ (Accepted \/ Closed) => Inv'
<1> SUFFICES ASSUME Inv, Accepted \/ Closed PROVE Inv'
  OBVIOUS
<1>1. UNCHANGED <<timer, connect_attempt, address, quiet, windowVars>>
      /\ state' \in {"connected", "disconnected"}
  BY DEF Accepted, Closed, EventConnected, EventDisconnected, AfterDisconnect
<1>2. WindowInv' /\ TypeOK'
  <2>1. connection_life' \in 0 .. CONNECTION_STABLE_TIME
    BY IntervalTypes DEF Inv, TypeOK, Accepted, Closed, EventConnected, EventDisconnected
  <2>2. /\ conn' \in Connections /\ state' \in States
        /\ out_queue_full' \in BOOLEAN /\ out_buffer_sent' \in BOOLEAN
        /\ wire' \in Int \cup {Nothing} /\ received' \in Int \cup {Nothing}
    BY <1>1 DEF Inv, TypeOK, Connections, States, Accepted, Closed
  <2> QED  BY <1>1, <2>1, <2>2, WindowUntouched DEF Inv, TypeOK
<1>3. ConnectionAgreed'
  BY DEF Inv, ConnectionAgreed, Accepted, Closed, EventConnected, EventDisconnected,
         AfterDisconnect
<1>4. NeverAsleep' /\ Spacing'
  BY <1>1 DEF Inv, NeverAsleep, Spacing
<1>5. BufferInUse'
  BY <1>1, WindowUntouched DEF Inv, BufferInUse, Accepted, Closed
<1> QED  BY <1>2, <1>3, <1>4, <1>5 DEF Inv

LEMMA AddressStep == Inv /\ (JoinNetwork \/ LeaveNetwork) => Inv'
<1> SUFFICES ASSUME Inv, JoinNetwork \/ LeaveNetwork PROVE Inv'
  OBVIOUS
<1>1. /\ UNCHANGED <<state, timer, connection_life, connect_attempt, quiet,
                     libraryVars, windowVars>>
      /\ address' \in BOOLEAN
  BY DEF JoinNetwork, LeaveNetwork
<1>2. WindowInv' /\ TypeOK'
  BY <1>1, WindowUntouched DEF Inv, TypeOK, libraryVars
<1>3. ConnectionAgreed' /\ NeverAsleep' /\ Spacing' /\ BufferInUse'
  BY <1>1, WindowUntouched
     DEF Inv, ConnectionAgreed, NeverAsleep, Spacing, BufferInUse, libraryVars
<1> QED  BY <1>2, <1>3 DEF Inv

LEMMA TickStep == Inv /\ Tick => Inv'
<1> SUFFICES ASSUME Inv, Tick PROVE Inv'
  OBVIOUS
<1> USE IntervalTypes
<1>1. UNCHANGED <<state, connect_attempt, address, libraryVars, windowVars>>
  BY DEF Tick
<1>2. timer \in Nat /\ timer' \in Nat
  BY DEF Inv, TypeOK, NeverAsleep, Tick
<1>3. quiet' \in 0 .. RECONNECT_INTERVAL /\ connection_life' \in 0 .. CONNECTION_STABLE_TIME
  BY DEF Inv, TypeOK, Tick
<1>4. WindowInv' /\ TypeOK'
  BY <1>1, <1>2, <1>3, WindowUntouched DEF Inv, TypeOK, libraryVars
<1>5. NeverAsleep'
  BY <1>2, OffAssumption DEF NeverAsleep
<1>6. Spacing'
  <2>1. \/ timer' + quiet' >= timer + quiet
        \/ quiet' = RECONNECT_INTERVAL
    BY <1>2 DEF Inv, TypeOK, Tick
  <2>2. quiet = RECONNECT_INTERVAL => quiet' = RECONNECT_INTERVAL
    BY DEF Inv, TypeOK, Tick
  <2>3. quiet \in Nat /\ quiet' \in Nat
    BY <1>3 DEF Inv, TypeOK
  <2>4. CASE state = "init"
    BY <1>1, <2>2, <2>4 DEF Inv, Spacing
  <2>5. CASE state = "registered"
    <3>1. timer + quiet >= RECONNECT_INTERVAL
      BY <2>5 DEF Inv, Spacing
    <3> HIDE IntervalTypes
    <3>2. timer' + quiet' >= RECONNECT_INTERVAL
      <4>1. RECONNECT_INTERVAL \in Nat
        BY IntervalTypes
      <4> QED  BY <1>2, <2>1, <2>3, <3>1, <4>1, Arithmetic
    <3> QED  BY <1>1, <2>5, <3>2 DEF Spacing
  <2> QED  BY <1>1, <2>4, <2>5 DEF Spacing
<1>7. ConnectionAgreed' /\ BufferInUse'
  BY <1>1, WindowUntouched DEF Inv, ConnectionAgreed, BufferInUse, libraryVars
<1> QED  BY <1>4, <1>5, <1>6, <1>7 DEF Inv

LEMMA InvStep == Inv /\ [Next]_vars => Inv'
<1>1. ASSUME Inv, UNCHANGED vars PROVE Inv'
  BY <1>1, WindowUntouched
     DEF vars, Inv, TypeOK, ConnectionAgreed, NeverAsleep, Spacing, BufferInUse, libraryVars
<1> QED
  BY <1>1, RegisterStep, DisconnectedStep, WaitingStep, PublishStep, LibraryStep, EventStep,
     AddressStep, TickStep
     DEF Next, StateMachine, Progress, Fault

LEMMA Invariance == Spec => []Inv
  BY InvInit, InvStep, PTL DEF Spec

\* Every variable of the client has its type, connect_attempt among them.
THEOREM ClientTypeCorrect == Spec => []TypeOK
<1>1. Inv => TypeOK
  BY DEF Inv
<1> QED  BY Invariance, <1>1, PTL

\* The state machine and the MQTT library agree on the connection in every
\* interleaving of the machine's handlers and the library's events.
THEOREM ConnectionCorrect == Spec => []ConnectionAgreed
<1>1. Inv => ConnectionAgreed
  BY DEF Inv
<1> QED  BY Invariance, <1>1, PTL

\* No handler of the state machine returns without setting its timer.
THEOREM AlwaysAwake == Spec => []NeverAsleep
<1>1. Inv => NeverAsleep
  BY DEF Inv
<1> QED  BY Invariance, <1>1, PTL

\* Connection attempts are RECONNECT_INTERVAL or more apart, for every width
\* of connect_attempt.
THEOREM AttemptsApart == Spec => NoHammering
<1>1. Inv /\ [Next]_vars => [conn # "posted" /\ conn' = "posted" => quiet >= RECONNECT_INTERVAL]_vars
  <2> SUFFICES ASSUME Inv, Next, conn # "posted", conn' = "posted"
               PROVE  quiet >= RECONNECT_INTERVAL
    OBVIOUS
  <2>1. Register
    BY DEF Next, StateMachine, Progress, Fault, AwaitConnection, SkipFirst, Publish, Online,
           AwaitAcknowledgement, Disconnected, MqttDisconnect, MqttPublish, OpenTcp, Accepted,
           Send, Receive, Acknowledge, JoinNetwork, Refused, Closed, LeaveNetwork, Tick,
           libraryVars
  <2>2. timer = 0 /\ state \in {"init", "registered"} /\ quiet \in 0 .. RECONNECT_INTERVAL
    BY <2>1 DEF Register, Inv, TypeOK
  <2> QED  BY <2>2, IntervalTypes DEF Inv, Spacing
<1> QED  BY Invariance, <1>1, PTL DEF Spec, NoHammering

Stuck == conn = "refused" /\ state = "connecting"

\* Once the broker has refused, nothing leads the client out of
\* STATE_CONNECTING again (mqtt_event has no case for a refusal, and
\* state_machine only sets its timer): whatever happens to the network later,
\* the sensor stays without a connection, though RECONNECT_ATTEMPTS is
\* RETRY_FOREVER.
THEOREM RefusedForGood == Spec => [](conn = "refused" => []Stuck)
<1>1. Inv /\ conn = "refused" => Stuck
  BY DEF Inv, TypeOK, States, ConnectionAgreed, Stuck
<1>2. Stuck /\ [Next]_vars => Stuck'
  <2> SUFFICES ASSUME Stuck, [Next]_vars PROVE Stuck'
    OBVIOUS
  <2>1. CASE UNCHANGED vars
    BY <2>1 DEF vars, libraryVars, Stuck
  <2>2. CASE Next
    BY <2>2 DEF Stuck, Next, StateMachine, Progress, Fault, Register, AwaitConnection, SkipFirst,
                Publish, Online, AwaitAcknowledgement, Disconnected, OpenTcp, Accepted, Send, Receive,
                Acknowledge, JoinNetwork, Refused, Closed, LeaveNetwork, Tick, libraryVars
  <2> QED  BY <2>1, <2>2
<1> QED  BY Invariance, <1>1, <1>2, PTL DEF Spec

-----------------------------------------------------------------------------
(* The refinement of SensorFeed *)

LEMMA FeedStart == Init => Feed!FeedInit
  BY WindowStart
     DEF Init, Pending, WindowInit, Feed!FeedInit, Feed!NoiseInit, Noise!NoiseInit,
         Feed!Silence, Noise!Silence, Feed!WINDOW, Noise!WINDOW

\* A published message is an offer: nothing is on its way by then.
LEMMA PublishOffers ==
    ASSUME Inv, NEW reading \in Readings, Publish(reading)
    PROVE  Feed!Offer(reading)
<1>1. Pending = Nothing /\ Pending' = app_buffer'
  BY DEF Inv, BufferInUse, Pending, Publish, Ready, MqttPublish
<1>2. Noise!Report(reading)
  BY PublishKeepsWindow
<1>3. Feed!Report(reading)
  BY <1>2 DEF Noise!Report, Feed!Report, Noise!Level, Feed!Level, Noise!Sum, Feed!Sum,
              Noise!K, Feed!K, Noise!WINDOW, Feed!WINDOW
<1>4. received' = received
  BY DEF Publish, MqttPublish
<1> QED  BY <1>1, <1>3, <1>4 DEF Feed!Offer

\* What a broker can see of a step that leaves ring and message alone.
LEMMA FeedFrame ==
    ASSUME Inv, UNCHANGED windowVars,
           \/ Pending' = Pending /\ received' = received
           \/ Pending # Nothing /\ Pending' = Nothing /\ received' \in {received, Pending}
    PROVE  [Feed!FeedNext]_(Feed!feedVars)
<1>1. Recent' = Recent /\ app_buffer' = app_buffer
  BY WindowUntouched
<1> QED  BY <1>1 DEF Feed!FeedNext, Feed!Deliver, Feed!Lose, Feed!feedVars, Feed!noiseVars

LEMMA FeedStep == Inv /\ [Next]_vars => [Feed!FeedNext]_(Feed!feedVars)
<1> SUFFICES ASSUME Inv, [Next]_vars PROVE [Feed!FeedNext]_(Feed!feedVars)
  OBVIOUS
<1>1. ASSUME NEW reading \in Readings, Publish(reading) PROVE Feed!FeedNext
  BY <1>1, PublishOffers DEF Feed!FeedNext
<1>2. ASSUME UNCHANGED <<out_queue_full, out_buffer_sent, wire, received, windowVars>>
      PROVE  [Feed!FeedNext]_(Feed!feedVars)
  BY <1>2, FeedFrame DEF Pending, windowVars
<1>3. ASSUME Register \/ AwaitConnection \/ SkipFirst \/ AwaitAcknowledgement \/ Disconnected
             \/ OpenTcp \/ Refused \/ JoinNetwork \/ LeaveNetwork \/ Tick \/ UNCHANGED vars
      PROVE  [Feed!FeedNext]_(Feed!feedVars)
  BY <1>2, <1>3
     DEF Register, MqttConnect, AwaitConnection, SkipFirst, AwaitAcknowledgement,
         Disconnected, MqttDisconnect, OpenTcp, Refused, JoinNetwork, LeaveNetwork, Tick,
         vars, libraryVars
<1>4. CASE Accepted \/ Send \/ Receive \/ Acknowledge \/ Closed
  <2>1. UNCHANGED windowVars
    BY <1>4 DEF Accepted, Send, Receive, Acknowledge, Closed
  <2>2. app_buffer' = app_buffer
    BY <2>1 DEF windowVars
  <2>3. \/ Pending' = Pending /\ received' = received
        \/ Pending # Nothing /\ Pending' = Nothing /\ received' \in {received, Pending}
    <3>1. CASE Accepted
      BY <2>2, <3>1 DEF Inv, BufferInUse, Pending, Accepted
    <3>2. CASE Send
      BY <2>2, <3>2 DEF Inv, BufferInUse, Pending, Send
    <3>3. CASE Receive
      BY <2>2, <3>3 DEF Inv, BufferInUse, Pending, Receive
    <3>4. CASE Acknowledge
      BY <2>2, <3>4 DEF Inv, BufferInUse, Pending, Acknowledge
    <3>5. CASE Closed
      BY <2>2, <3>5 DEF Inv, BufferInUse, Pending, Closed
    <3> QED  BY <1>4, <3>1, <3>2, <3>3, <3>4, <3>5
  <2> QED  BY <2>1, <2>3, FeedFrame
<1> QED
  BY <1>1, <1>3, <1>4 DEF Next, StateMachine, Progress, Fault

\* The client implements SensorFeed: each published level is that of the last
\* six readings and arrives once and unchanged or never.
THEOREM ClientImplementsFeed == Spec => ImplementsFeed
<1>1. Spec => [][Feed!FeedNext]_(Feed!feedVars)
  BY Invariance, FeedStep, PTL DEF Spec
<1> QED  BY FeedStart, <1>1, PTL DEF Spec, ImplementsFeed, Feed!FeedSpec
=============================================================================
