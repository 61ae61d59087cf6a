------------------------------ MODULE EdgeFlow ------------------------------
(***************************************************************************)
(* node-red/flows.json: readings of sensors are cleaned, assigned to a     *)
(* point of interest and published, and the noise levels of the points of  *)
(* interest are moved towards them.                                        *)
(*                                                                         *)
(* A node's handler is not interrupted.  What it sends is delivered later, *)
(* in the order of sending among all nodes (Node-RED's setImmediate).      *)
(*                                                                         *)
(* A coordinate is a small integer and a distance the sum of differences.  *)
(* A level is the sequence of the readings that were blended into it.      *)
(***************************************************************************)
EXTENDS Integers, Sequences

CONSTANTS
    Undefined,   \* a missing field of a message, and what is computed from it
    PoiFile,     \* the rows of poi.csv, [id, lat, lon]
    Inputs,      \* payloads of sensors, [noise, lat, lon, reliability]
    MaxReadings, \* bound: readings since Node-RED's start
    MaxUpdates   \* bound: updates since Node-RED's start

ASSUME UndefinedAssumption == Undefined \notin Int /\ Undefined # PoiFile

ASSUME PoiFileAssumption == PoiFile # <<>> /\ PoiFile \in Seq({PoiFile[i] : i \in DOMAIN PoiFile})

ASSUME BoundsAssumption == MaxReadings \in Nat /\ MaxUpdates \in Nat

VARIABLES
    received,      \* the readings received since the start
    listRead,      \* whether "Trigger read" has fired
    updates,       \* how often "POI trigger update" has fired
    queue,         \* messages on their way to a node
    aggregatorMap, \* the context of "POI Aggregator": each POI's blended readings
    enrichmentMap, \* the context of "Enrichment"; Undefined until it is set
    joined,        \* the messages that the join node has collected
    produced       \* what has reached "Kafka producer" since the start

vars == <<received, listRead, updates, queue, aggregatorMap, enrichmentMap, joined, produced>>

Init ==
    /\ received = <<>> /\ listRead = FALSE /\ updates = 0
    /\ queue = <<>>
    /\ aggregatorMap = <<>>
    /\ enrichmentMap = Undefined
    /\ joined = <<>> /\ produced = <<>>

\* A node has the name it has in the flow, without spaces.
Send(to, msg) == [to |-> to, msg |-> msg]

Msg == Head(queue).msg

\* A node takes the oldest message, and sends others.
Takes(node) == Head(queue).to = node
TakesKind(node, kind) == Takes(node) /\ Msg.kind = kind
Reply(sends) == queue' = Tail(queue) \o sends

-----------------------------------------------------------------------------
(* Sources *)

\* "Recv sensor data"; the message is known by its number.
Receive(payload) ==
    /\ Len(received) < MaxReadings
    /\ received' = Append(received, payload)
    /\ queue' = Append(queue, Send("Data_cleaning", [id |-> Len(received) + 1, payload |-> payload]))
    /\ UNCHANGED <<listRead, updates, aggregatorMap, enrichmentMap, joined, produced>>

\* "Trigger read", and "poi.csv" when the file has been read.
ReadList ==
    /\ ~listRead
    /\ listRead' = TRUE
    /\ queue' = Append(queue, Send("Points_of_interest", PoiFile))
    /\ UNCHANGED <<received, updates, aggregatorMap, enrichmentMap, joined, produced>>

TriggerUpdate ==
    /\ updates < MaxUpdates
    /\ updates' = updates + 1
    /\ queue' = Append(queue, Send("POI_Aggregator", [kind |-> "update"]))
    /\ UNCHANGED <<received, listRead, aggregatorMap, enrichmentMap, joined, produced>>

-----------------------------------------------------------------------------
(* Cleaning *)

Outside(value, low, high) == value # Undefined /\ (value < low \/ value > high)

Default(value, default) == IF value = Undefined THEN default ELSE value

ReliabilityAsIs(reading) == reading.reliability \* mutant
Reliability(reading) == Default(reading.reliability, 5)

\* A missing noise compares false with every number.  Reliability is counted
\* in tenths.  The bounds of lat and lon are those of the code.
Usable(reading) ==
    /\ ~Outside(Default(reading.lat, 0), -180, 180)
    /\ ~Outside(Default(reading.lon, 0), -90, 90)
    /\ ~Outside(reading.noise, 0, 200)
    /\ ~Outside(reading.reliability, 0, 10)

Cleaned(reading) ==
    [noise       |-> reading.noise,
     lat         |-> Default(reading.lat, 0),
     lon         |-> Default(reading.lon, 0),
     reliability |-> Reliability(reading)]

Clean ==
    /\ Takes("Data_cleaning")
    /\ Reply(IF Usable(Msg.payload)
             THEN <<Send("change", [kind |-> "sensor-data", id |-> Msg.id, payload |-> Cleaned(Msg.payload)])>>
             ELSE <<>>)
    /\ UNCHANGED <<received, listRead, updates, aggregatorMap, enrichmentMap, joined, produced>>

ParseByLine == \* mutant
    /\ Takes("Points_of_interest")
    /\ Reply([i \in 1 .. Len(Msg) |-> Send("change", [kind |-> "poi", payload |-> <<Msg[i]>>])])
    /\ UNCHANGED <<received, listRead, updates, aggregatorMap, enrichmentMap, joined, produced>>

\* The csv node sends one message with all lines.
ParseList ==
    /\ Takes("Points_of_interest")
    /\ Reply(<<Send("change", [kind |-> "poi", payload |-> Msg])>>)
    /\ UNCHANGED <<received, listRead, updates, aggregatorMap, enrichmentMap, joined, produced>>

ToBoth(msg) == <<Send("POI_Aggregator", msg), Send("Enrichment", msg)>>

\* Both change nodes.
Change ==
    /\ Takes("change")
    /\ Reply(ToBoth(Msg))
    /\ UNCHANGED <<received, listRead, updates, aggregatorMap, enrichmentMap, joined, produced>>

-----------------------------------------------------------------------------
(* POI Aggregator *)

BlendedOnChange(poi) == \* mutant
    IF poi.blended # <<>> /\ poi.blended[Len(poi.blended)].payload = Msg.payload THEN poi
    ELSE [poi EXCEPT !.blended = Append(@, [id |-> Msg.id, payload |-> Msg.payload])]

Blended(poi) == [poi EXCEPT !.blended = Append(@, [id |-> Msg.id, payload |-> Msg.payload])]

Aggregate ==
    /\ TakesKind("POI_Aggregator", "sensor-data")
    /\ Reply(<<>>)
    /\ aggregatorMap' = [i \in DOMAIN aggregatorMap |-> Blended(aggregatorMap[i])]
    /\ UNCHANGED <<received, listRead, updates, enrichmentMap, joined, produced>>

Levels(map) == [topic |-> "poi-data", payload |-> map]

PublishLevels ==
    /\ TakesKind("POI_Aggregator", "update")
    /\ Reply(IF Len(aggregatorMap) > 0
             THEN <<Send("Kafka_producer", Levels(aggregatorMap))>> ELSE <<>>)
    /\ UNCHANGED <<received, listRead, updates, aggregatorMap, enrichmentMap, joined, produced>>

AggregatorSetsMap ==
    /\ TakesKind("POI_Aggregator", "poi")
    /\ Reply(<<>>)
    /\ aggregatorMap' = [i \in DOMAIN Msg.payload |-> [poi |-> Msg.payload[i], blended |-> <<>>]]
    /\ UNCHANGED <<received, listRead, updates, enrichmentMap, joined, produced>>

-----------------------------------------------------------------------------
(* Enrichment *)

Diff(a, b) == IF a > b THEN a - b ELSE b - a

Distance(lat0, lon0, lat1, lon1) ==
    IF Undefined \in {lat1, lon1} THEN Undefined ELSE Diff(lat0, lat1) + Diff(lon0, lon1)

\* As in JavaScript, a comparison with NaN is false.
Nearer(d, e) == Undefined \notin {d, e} /\ d < e

\* The reduce over the POIs: msg.payload.lan is not a field of the message.
Closest(pois, reading) ==
    LET d(i) == Distance(pois[i].lat, pois[i].lon, Undefined, reading.lon)
        closest[i \in 1 .. Len(pois)] ==
            IF i = 1 THEN 1
            ELSE IF Nearer(d(closest[i - 1]), d(i)) THEN closest[i - 1] ELSE i
    IN  pois[closest[Len(pois)]].id

WithPoiAnyway == \* mutant
    <<Send("join", [id |-> Msg.id, payload |-> Msg.payload,
                    poi |-> IF enrichmentMap = Undefined THEN Undefined
                            ELSE Closest(enrichmentMap, Msg.payload)])>>

\* Without a map the function throws, and the message is lost.
WithPoi ==
    IF enrichmentMap = Undefined THEN <<>>
    ELSE <<Send("join", [id |-> Msg.id, payload |-> Msg.payload,
                         poi |-> Closest(enrichmentMap, Msg.payload)])>>

Enrich ==
    /\ TakesKind("Enrichment", "sensor-data")
    /\ Reply(WithPoi)
    /\ UNCHANGED <<received, listRead, updates, aggregatorMap, enrichmentMap, joined, produced>>

EnrichmentSetsMap ==
    /\ TakesKind("Enrichment", "poi")
    /\ Reply(<<>>)
    /\ enrichmentMap' = Msg.payload
    /\ UNCHANGED <<received, listRead, updates, aggregatorMap, joined, produced>>

-----------------------------------------------------------------------------
(* Join and producer *)

Join ==
    /\ Takes("join")
    /\ Reply(<<>>)
    /\ joined' = Append(joined, Msg)
    /\ UNCHANGED <<received, listRead, updates, aggregatorMap, enrichmentMap, produced>>

JoinCount == \* mutant
    /\ Len(joined) > 1
    /\ queue' = Append(queue, Send("Kafka_producer", [topic |-> "sensor-data", payload |-> joined]))
    /\ joined' = <<>>
    /\ UNCHANGED <<received, listRead, updates, aggregatorMap, enrichmentMap, produced>>

JoinTimeout ==
    /\ joined # <<>>
    /\ queue' = Append(queue, Send("Kafka_producer", [topic |-> "sensor-data", payload |-> joined]))
    /\ joined' = <<>>
    /\ UNCHANGED <<received, listRead, updates, aggregatorMap, enrichmentMap, produced>>

\* run(): what becomes of the send is the subject of PoiUpdates.
Produce ==
    /\ Takes("Kafka_producer")
    /\ Reply(<<>>)
    /\ produced' = Append(produced, Msg)
    /\ UNCHANGED <<received, listRead, updates, aggregatorMap, enrichmentMap, joined>>

\* Contexts are kept in memory.
Restart ==
    /\ received' = <<>> /\ listRead' = FALSE /\ updates' = 0
    /\ queue' = <<>>
    /\ aggregatorMap' = <<>>
    /\ enrichmentMap' = Undefined
    /\ joined' = <<>> /\ produced' = <<>>

Deliver ==
    /\ queue # <<>>
    /\ \/ Clean \/ ParseList \/ Change
       \/ Aggregate \/ PublishLevels \/ AggregatorSetsMap
       \/ Enrich \/ EnrichmentSetsMap
       \/ Join \/ Produce

Next ==
    \/ \E payload \in Inputs : Receive(payload)
    \/ ReadList
    \/ TriggerUpdate
    \/ Deliver
    \/ JoinTimeout
    \/ Restart

Spec == Init /\ [][Next]_vars /\ WF_vars(Deliver) /\ WF_vars(JoinTimeout)

-----------------------------------------------------------------------------
(* Properties *)

Ids(readings) == [k \in 1 .. Len(readings) |-> readings[k].id]

AggregatedIds == IF aggregatorMap = <<>> THEN <<>> ELSE Ids(aggregatorMap[1].blended)

Readings(msg) == IF msg.topic = "sensor-data" THEN msg.payload ELSE <<>>

\* The enriched readings at one place of their way to Kafka: produced, sent to
\* the producer, collected by the join node, sent to it.  In a lower stage,
\* and in one stage at a lower k, are the older ones.
Batch(stage, k) ==
    CASE stage = 1 /\ k \in 1 .. Len(produced) -> Readings(produced[k])
      [] stage = 2 /\ k \in 1 .. Len(queue) /\ queue[k].to = "Kafka_producer" -> Readings(queue[k].msg)
      [] stage = 3 /\ k = 1 -> joined
      [] stage = 4 /\ k \in 1 .. Len(queue) /\ queue[k].to = "join" -> <<queue[k].msg>>
      [] OTHER -> <<>>

Span == 1 .. Len(produced) + Len(queue) + 1

Enriched(id) == \E stage \in 1 .. 4, k \in Span : \E m \in 1 .. Len(Batch(stage, k)) : Batch(stage, k)[m].id = id

OlderFirst ==
    \A s \in 1 .. 4, k \in Span : \A m \in 1 .. Len(Batch(s, k)) :
        \A t \in 1 .. 4, l \in Span : \A n \in 1 .. Len(Batch(t, l)) :
            (s < t \/ (s = t /\ (k < l \/ (k = l /\ m < n)))) => Batch(s, k)[m].id < Batch(t, l)[n].id

CleanedReadings == [id : 1 .. Len(received), payload : {Cleaned(payload) : payload \in Inputs}]
SensorData == {[kind |-> "sensor-data", id |-> r.id, payload |-> r.payload] : r \in CleanedReadings}
PoiList    == {[kind |-> "poi", payload |-> PoiFile]}
EnrichedReadings ==
    [id : 1 .. Len(received), payload : {Cleaned(payload) : payload \in Inputs}, poi : {PoiFile[i].id : i \in DOMAIN PoiFile}]
Level   == [poi : {PoiFile[i] : i \in DOMAIN PoiFile}, blended : Seq(CleanedReadings)]
Records == [topic : {"sensor-data"}, payload : Seq(EnrichedReadings)] \cup [topic : {"poi-data"}, payload : Seq(Level)]

Events ==
         [to : {"Data_cleaning"}, msg : [id : 1 .. Len(received), payload : Inputs]]
    \cup [to : {"Points_of_interest"}, msg : {PoiFile}]
    \cup [to : {"change", "POI_Aggregator", "Enrichment"}, msg : SensorData \cup PoiList]
    \cup [to : {"POI_Aggregator"}, msg : {[kind |-> "update"]}]
    \cup [to : {"join"}, msg : EnrichedReadings]
    \cup [to : {"Kafka_producer"}, msg : Records]

TypeOK ==
    /\ received \in Seq(Inputs) /\ Len(received) <= MaxReadings
    /\ listRead \in BOOLEAN /\ updates \in 0 .. MaxUpdates
    /\ queue \in Seq(Events)
    /\ aggregatorMap \in Seq(Level) /\ Len(aggregatorMap) \in {0, Len(PoiFile)}
    /\ enrichmentMap \in {Undefined, PoiFile}
    /\ joined \in Seq(EnrichedReadings) /\ produced \in Seq(Records)

\* "POI Aggregator" and "Enrichment" use the same readings, though each has its
\* list of its own, whenever the list arrives (flows.json:205, 300): a reading
\* that moved the levels is published, once and in its turn, and one that is
\* lost for the want of a list has moved none.
SameReadings ==
    (queue = <<>> \/ Head(queue).to # "Enrichment") =>
        /\ \A id \in 1 .. Len(received) :
             Enriched(id) <=> \E k \in 1 .. Len(AggregatedIds) : AggregatedIds[k] = id
        /\ OlderFirst
        /\ \A i \in DOMAIN aggregatorMap : Ids(aggregatorMap[i].blended) = AggregatedIds

\* On the way to "POI Aggregator".
IsReading(event) ==
    event.to = "Data_cleaning" \/ (event.to \in {"change", "POI_Aggregator"} /\ event.msg.kind = "sensor-data")

OnItsWay(id) == \E k \in 1 .. Len(queue) : IsReading(queue[k]) /\ queue[k].msg.id = id

\* From the first blended reading on, exactly the usable ones are blended, each
\* once and in the order of arrival (the queue of Node-RED and flows.json:205, 281).
NoneSkipped ==
    LET ids == AggregatedIds IN
    /\ \A j, k \in 1 .. Len(ids) : j < k => ids[j] < ids[k]
    /\ \A k \in 1 .. Len(ids) : Usable(received[ids[k]])
    /\ ids # <<>> => \A id \in ids[1] .. Len(received) :
         Usable(received[id]) => OnItsWay(id) \/ \E k \in 1 .. Len(ids) : ids[k] = id

\* A level stays a number unless a reading had no noise: flows.json:281 makes up
\* for every other field whose absence would turn an average into NaN for good.
LevelsAreNumbers ==
    \A i \in DOMAIN aggregatorMap : \A k \in 1 .. Len(aggregatorMap[i].blended) :
        LET reading == aggregatorMap[i].blended[k] IN
        /\ Undefined \notin {reading.payload.lat, reading.payload.lon, reading.payload.reliability}
        /\ reading.payload.noise = Undefined => received[reading.id].noise = Undefined

\* A reading that moved the levels is given to Kafka, even if no other one ever
\* arrives (the timeout of the join node), unless Node-RED is restarted.
ReadingsReachKafka ==
    \A id \in 1 .. MaxReadings :
        (\E k \in 1 .. Len(AggregatedIds) : AggregatedIds[k] = id)
        ~> \/ \E k \in 1 .. Len(produced) : \E m \in 1 .. Len(Readings(produced[k])) :
                Readings(produced[k])[m].id = id
           \/ received = <<>>

\* A published reading names the point of interest that is closest to it.
PoiIsClosest ==
    \A k \in 1 .. Len(joined) : \A i, j \in 1 .. Len(PoiFile) :
        LET d(poi) == Distance(poi.lat, poi.lon, joined[k].payload.lat, joined[k].payload.lon)
        IN  joined[k].poi = PoiFile[i].id => d(PoiFile[i]) <= d(PoiFile[j])
=============================================================================
