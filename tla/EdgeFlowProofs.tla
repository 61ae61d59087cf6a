--------------------------- MODULE EdgeFlowProofs ---------------------------
(***************************************************************************)
(* Proofs about the Node-RED flow, for every list of points of interest    *)
(* and all payloads.                                                       *)
(***************************************************************************)
EXTENDS EdgeFlow, SequenceTheorems, TLAPS

\* What a handler and a source do to the queue.
Shifted(n) ==
    /\ Len(queue') = Len(queue) - 1 + n
    /\ \A k \in 1 .. Len(queue) - 1 : queue'[k] = queue[k + 1]

Extended ==
    /\ Len(queue') = Len(queue) + 1
    /\ \A k \in 1 .. Len(queue) : queue'[k] = queue[k]

LEMMA ReplyShifts ==
    ASSUME NEW S, queue \in Seq(S), queue # <<>>, NEW sends \in Seq(S), Reply(sends)
    PROVE  /\ queue' \in Seq(S) /\ Shifted(Len(sends))
           /\ \A k \in 1 .. Len(sends) : queue'[Len(queue) - 1 + k] = sends[k]
<1>1. /\ Tail(queue) \in Seq(S) /\ Len(Tail(queue)) = Len(queue) - 1
      /\ \A k \in 1 .. Len(queue) - 1 : Tail(queue)[k] = queue[k + 1]
      /\ Len(queue) \in Nat /\ Len(queue) > 0 /\ Len(sends) \in Nat
  BY HeadTailProperties, EmptySeq, LenProperties
<1>2. /\ queue' \in Seq(S) /\ Len(queue') = Len(queue) - 1 + Len(sends)
      /\ \A k \in 1 .. Len(queue) - 1 + Len(sends) : queue'[k] =
             IF k <= Len(queue) - 1 THEN Tail(queue)[k] ELSE sends[k - (Len(queue) - 1)]
  BY <1>1, ConcatProperties DEF Reply
<1>3. \A k \in 1 .. Len(queue) - 1 : queue'[k] = queue[k + 1]
  BY <1>1, <1>2
<1>4. \A k \in 1 .. Len(sends) : queue'[Len(queue) - 1 + k] = sends[k]
  BY <1>1, <1>2
<1> QED  BY <1>2, <1>3, <1>4 DEF Shifted

LEMMA SendFields == \A to, msg : Send(to, msg).to = to /\ Send(to, msg).msg = msg
  BY DEF Send

LEMMA AppendFacts ==
    ASSUME NEW S, NEW s \in Seq(S), NEW e \in S
    PROVE  /\ Append(s, e) \in Seq(S) /\ Len(Append(s, e)) = Len(s) + 1
           /\ Append(s, e)[Len(s) + 1] = e /\ \A k \in 1 .. Len(s) : Append(s, e)[k] = s[k]
  BY AppendProperties, LenProperties

LEMMA AppendExtends ==
    ASSUME NEW S, queue \in Seq(S), NEW event \in S, queue' = Append(queue, event)
    PROVE  queue' \in Seq(S) /\ Extended /\ queue'[Len(queue) + 1] = event
  BY AppendProperties, LenProperties DEF Extended

LEMMA SendsTypes ==
    /\ \A S : <<>> \in Seq(S) /\ Len(<<>>) = 0
    /\ \A S : \A a \in S : <<a>> \in Seq(S) /\ Len(<<a>>) = 1 /\ <<a>>[1] = a
    /\ \A S : \A a, b \in S : /\ <<a, b>> \in Seq(S) /\ Len(<<a, b>>) = 2
                              /\ <<a, b>>[1] = a /\ <<a, b>>[2] = b
  OBVIOUS

-----------------------------------------------------------------------------
(* Types *)

LEMMA UpdateKind == \A msg : msg = [kind |-> "update"] => msg.kind = "update"
  OBVIOUS

\* A message's form tells where it goes.
LEMMA Shapes ==
    ASSUME NEW event \in Events
    PROVE  /\ event = Send(event.to, event.msg)
           /\ event.to \in {"Data_cleaning", "Points_of_interest", "change", "POI_Aggregator", "Enrichment",
                            "join", "Kafka_producer"}
           /\ event.to = "Data_cleaning" => event.msg.id \in 1 .. Len(received) /\ event.msg.payload \in Inputs
           /\ event.to = "Points_of_interest" => event.msg = PoiFile
           /\ event.to \in {"change", "Enrichment"} => event.msg.kind \in {"sensor-data", "poi"}
           /\ event.to = "POI_Aggregator" => event.msg.kind \in {"sensor-data", "poi", "update"}
           /\ event.to \in {"change", "POI_Aggregator", "Enrichment"} =>
                /\ event.msg.kind = "sensor-data" =>
                     /\ event.msg \in SensorData /\ event.msg.id \in 1 .. Len(received)
                     /\ [id |-> event.msg.id, payload |-> event.msg.payload] \in CleanedReadings
                /\ event.msg.kind = "poi" => event.msg \in PoiList /\ event.msg.payload = PoiFile
           /\ event.to = "join" => event.msg \in EnrichedReadings /\ event.msg.id \in 1 .. Len(received)
           /\ event.to = "Kafka_producer" => event.msg \in Records
<1>1. event \in Events
  OBVIOUS
<1>2. \A r \in CleanedReadings : r.id \in 1 .. Len(received) /\ r = [id |-> r.id, payload |-> r.payload]
  BY DEF CleanedReadings
<1>3. CASE event \in [to : {"Data_cleaning"}, msg : [id : 1 .. Len(received), payload : Inputs]]
  BY <1>3 DEF Send
<1>4. CASE event \in [to : {"Points_of_interest"}, msg : {PoiFile}]
  <2>1. event.to = "Points_of_interest" /\ event.msg = PoiFile /\ event = [to |-> event.to, msg |-> event.msg]
    BY <1>4
  <2> QED  BY <2>1 DEF Send
<1>5. CASE event \in [to : {"change", "POI_Aggregator", "Enrichment"}, msg : SensorData \cup PoiList]
  <2>1. /\ event.to \in {"change", "POI_Aggregator", "Enrichment"} /\ event.msg \in SensorData \cup PoiList
        /\ event = [to |-> event.to, msg |-> event.msg]
    BY <1>5
  <2>2. CASE event.msg \in SensorData
    <3>1. PICK r \in CleanedReadings : event.msg = [kind |-> "sensor-data", id |-> r.id, payload |-> r.payload]
      BY <2>2 DEF SensorData
    <3>2. event.msg.kind = "sensor-data" /\ event.msg.id = r.id /\ event.msg.payload = r.payload
      BY <3>1
    <3> QED  BY <1>2, <2>1, <2>2, <3>2 DEF Send
  <2>3. CASE event.msg \in PoiList
    <3>1. event.msg.kind = "poi" /\ event.msg.payload = PoiFile
      BY <2>3 DEF PoiList
    <3> QED  BY <2>1, <2>3, <3>1 DEF Send
  <2>4. event.msg \in SensorData \/ event.msg \in PoiList
    BY <2>1
  <2> QED  BY <2>2, <2>3, <2>4
<1>6. CASE event \in [to : {"POI_Aggregator"}, msg : {[kind |-> "update"]}]
  <2>1. event.to = "POI_Aggregator" /\ event.msg = [kind |-> "update"]
    BY <1>6
  <2>2. event = [to |-> event.to, msg |-> event.msg]
    BY <1>6
  <2>3. event.msg.kind = "update"
    BY <2>1, UpdateKind
  <2> QED  BY <2>1, <2>2, <2>3 DEF Send
<1>7. CASE event \in [to : {"join"}, msg : EnrichedReadings]
  BY <1>7 DEF Send, EnrichedReadings
<1>8. CASE event \in [to : {"Kafka_producer"}, msg : Records]
  BY <1>8 DEF Send
<1> QED  BY <1>1, <1>3, <1>4, <1>5, <1>6, <1>7, <1>8 DEF Events
LEMMA SameTypes ==
    received' = received =>
        /\ CleanedReadings' = CleanedReadings /\ SensorData' = SensorData /\ EnrichedReadings' = EnrichedReadings
        /\ Level' = Level /\ Records' = Records /\ Events' = Events
<1> SUFFICES ASSUME received' = received
             PROVE  /\ CleanedReadings' = CleanedReadings /\ SensorData' = SensorData
                    /\ EnrichedReadings' = EnrichedReadings
                    /\ Level' = Level /\ Records' = Records /\ Events' = Events
  OBVIOUS
<1>1. CleanedReadings' = CleanedReadings /\ EnrichedReadings' = EnrichedReadings
  BY DEF CleanedReadings, EnrichedReadings
<1>2. SensorData' = SensorData /\ Level' = Level
  BY <1>1 DEF SensorData, Level
<1>3. Records' = Records
  BY <1>1, <1>2 DEF Records
<1>4. Events' = Events
  BY <1>1, <1>2, <1>3 DEF Events, PoiList
<1> QED  BY <1>1, <1>2, <1>3, <1>4

\* With one reading more, everything keeps its type.
LEMMA MoreTypes ==
    ASSUME TypeOK, NEW payload \in Inputs, received' = Append(received, payload)
    PROVE  /\ CleanedReadings \subseteq CleanedReadings' /\ SensorData \subseteq SensorData'
           /\ EnrichedReadings \subseteq EnrichedReadings'
           /\ Level \subseteq Level' /\ Records \subseteq Records' /\ Events \subseteq Events'
<1>1. 1 .. Len(received) \subseteq 1 .. Len(received')
  BY AppendProperties, LenProperties DEF TypeOK
<1>2. CleanedReadings \subseteq CleanedReadings'
  BY <1>1 DEF CleanedReadings
<1>3. EnrichedReadings \subseteq EnrichedReadings'
  BY <1>1 DEF EnrichedReadings
<1>4. SensorData \subseteq SensorData'
  BY <1>2 DEF SensorData
<1>5. Seq(CleanedReadings) \subseteq Seq(CleanedReadings') /\ Seq(EnrichedReadings) \subseteq Seq(EnrichedReadings')
  BY <1>2, <1>3, SeqMonotonic
<1>6. Level \subseteq Level'
  BY <1>5 DEF Level
<1>7. Seq(Level) \subseteq Seq(Level')
  BY <1>6, SeqMonotonic
<1>8. Records \subseteq Records'
  BY <1>5, <1>7 DEF Records
<1>9. Events \subseteq Events'
  <2>1. [to : {"Data_cleaning"}, msg : [id : 1 .. Len(received), payload : Inputs]] \subseteq Events'
    BY <1>1 DEF Events
  <2>2. [to : {"change", "POI_Aggregator", "Enrichment"}, msg : SensorData \cup PoiList] \subseteq Events'
    BY <1>4 DEF Events, PoiList
  <2>3. [to : {"join"}, msg : EnrichedReadings] \subseteq Events'
    BY <1>3 DEF Events
  <2>4. [to : {"Kafka_producer"}, msg : Records] \subseteq Events'
    BY <1>8 DEF Events
  <2>5. /\ [to : {"Points_of_interest"}, msg : {PoiFile}] \subseteq Events'
        /\ [to : {"POI_Aggregator"}, msg : {[kind |-> "update"]}] \subseteq Events'
    BY DEF Events
  <2> HIDE DEF Events
  <2> QED  BY <2>1, <2>2, <2>3, <2>4, <2>5 DEF Events
<1> QED  BY <1>2, <1>3, <1>4, <1>6, <1>8, <1>9

LEMMA Constructed ==
    /\ \A id \in 1 .. Len(received), payload \in Inputs :
         Send("Data_cleaning", [id |-> id, payload |-> payload]) \in Events
    /\ Send("Points_of_interest", PoiFile) \in Events
    /\ \A id \in 1 .. Len(received), payload \in Inputs :
         Send("change", [kind |-> "sensor-data", id |-> id, payload |-> Cleaned(payload)]) \in Events
    /\ Send("change", [kind |-> "poi", payload |-> PoiFile]) \in Events
    /\ \A msg \in SensorData \cup PoiList : Send("POI_Aggregator", msg) \in Events /\ Send("Enrichment", msg) \in Events
    /\ Send("POI_Aggregator", [kind |-> "update"]) \in Events
    /\ \A msg \in EnrichedReadings : Send("join", msg) \in Events
    /\ \A msg \in Records : Send("Kafka_producer", msg) \in Events
<1>1. \A id \in 1 .. Len(received), payload \in Inputs :
         Send("Data_cleaning", [id |-> id, payload |-> payload]) \in Events
  BY DEF Events, Send
<1>2. Send("Points_of_interest", PoiFile) \in Events
  BY DEF Events, Send
<1>3. \A msg \in SensorData \cup PoiList :
         /\ Send("change", msg) \in Events /\ Send("POI_Aggregator", msg) \in Events
         /\ Send("Enrichment", msg) \in Events
  BY DEF Events, Send
<1>4. ASSUME NEW id \in 1 .. Len(received), NEW payload \in Inputs
      PROVE  [kind |-> "sensor-data", id |-> id, payload |-> Cleaned(payload)] \in SensorData
  <2>1. [id |-> id, payload |-> Cleaned(payload)] \in CleanedReadings
    BY DEF CleanedReadings
  <2> QED  BY <2>1 DEF SensorData
<1>5. [kind |-> "poi", payload |-> PoiFile] \in PoiList
  BY DEF PoiList
<1>6. Send("POI_Aggregator", [kind |-> "update"]) \in Events
  BY DEF Events, Send
<1>7. \A msg \in EnrichedReadings : Send("join", msg) \in Events
  BY DEF Events, Send
<1>8. \A msg \in Records : Send("Kafka_producer", msg) \in Events
  BY DEF Events, Send
<1> QED  BY <1>1, <1>2, <1>3, <1>4, <1>5, <1>6, <1>7, <1>8

-----------------------------------------------------------------------------
(* The closest point of interest *)

\* As a distance to a missing coordinate compares with nothing, Closest takes
\* the last of the points of interest, whatever was read where.
THEOREM ClosestIsLast ==
    ASSUME NEW S, NEW pois \in Seq(S), pois # <<>>, NEW reading
    PROVE  Closest(pois, reading) = pois[Len(pois)].id
<1> DEFINE d(i) == Distance(pois[i].lat, pois[i].lon, Undefined, reading.lon)
           Step(f) == [i \in 1 .. Len(pois) |->
                         IF i = 1 THEN 1 ELSE IF Nearer(d(f[i - 1]), d(i)) THEN f[i - 1] ELSE i]
           closest == CHOOSE f : f = Step(f)
<1>1. \A i, j : ~Nearer(d(i), d(j))
  BY DEF Distance, Nearer
<1> HIDE DEF d
<1>2. \A f : Step(f) = [i \in 1 .. Len(pois) |-> i]
  BY <1>1
<1>3. closest = Step(closest)
  <2>1. Step([i \in 1 .. Len(pois) |-> i]) = [i \in 1 .. Len(pois) |-> i]
    BY <1>2
  <2> HIDE DEF Step
  <2> QED  BY <2>1
<1>4. closest = [i \in 1 .. Len(pois) |-> i]
  BY <1>2, <1>3
<1>5. closest[Len(pois)] = Len(pois)
  <2>1. Len(pois) \in 1 .. Len(pois)
    BY EmptySeq
  <2> HIDE DEF closest
  <2> QED  BY <1>4, <2>1
<1>6. Closest(pois, reading) = pois[closest[Len(pois)]].id
  BY DEF Closest, d
<1> QED  BY <1>5, <1>6

-----------------------------------------------------------------------------
(* What each action does to the queue, and that types are kept *)

LEMMA FirstEvent ==
    ASSUME TypeOK, queue # <<>>
    PROVE  1 \in 1 .. Len(queue) /\ Head(queue) = queue[1] /\ queue[1] \in Events /\ Len(queue) \in Nat \ {0}
  BY EmptySeq, LenProperties, ElementOfSeq DEF TypeOK

\* A handler that sends nothing, one message or two.
LEMMA Handled ==
    ASSUME TypeOK, queue # <<>>, received' = received
    PROVE  /\ Reply(<<>>) => queue' \in Seq(Events') /\ Shifted(0)
           /\ \A a \in Events : Reply(<<a>>) => queue' \in Seq(Events') /\ Shifted(1) /\ queue'[Len(queue)] = a
           /\ \A a, b \in Events : Reply(<<a, b>>) =>
                /\ queue' \in Seq(Events') /\ Shifted(2)
                /\ queue'[Len(queue)] = a /\ queue'[Len(queue) + 1] = b
<1>1. queue \in Seq(Events) /\ Events' = Events
  BY SameTypes DEF TypeOK
<1>2. Len(queue) - 1 + 1 = Len(queue) /\ Len(queue) - 1 + 2 = Len(queue) + 1
  BY FirstEvent
<1>3. ASSUME Reply(<<>>) PROVE queue' \in Seq(Events') /\ Shifted(0)
  BY <1>1, <1>3, SendsTypes, ReplyShifts
<1>4. ASSUME NEW a \in Events, Reply(<<a>>)
      PROVE  queue' \in Seq(Events') /\ Shifted(1) /\ queue'[Len(queue)] = a
  <2>1. <<a>> \in Seq(Events) /\ Len(<<a>>) = 1 /\ <<a>>[1] = a /\ 1 \in 1 .. 1
    BY SendsTypes
  <2>2. queue' \in Seq(Events) /\ Shifted(1) /\ queue'[Len(queue) - 1 + 1] = a
    BY <1>1, <1>4, <2>1, ReplyShifts
  <2> QED  BY <1>1, <1>2, <2>2
<1>5. ASSUME NEW a \in Events, NEW b \in Events, Reply(<<a, b>>)
      PROVE  queue' \in Seq(Events') /\ Shifted(2) /\ queue'[Len(queue)] = a /\ queue'[Len(queue) + 1] = b
  <2> DEFINE sends == <<a, b>>
  <2>1. /\ sends \in Seq(Events) /\ Len(sends) = 2 /\ sends[1] = a /\ sends[2] = b
        /\ 1 \in 1 .. 2 /\ 2 \in 1 .. 2 /\ Reply(sends)
    BY <1>5, SendsTypes
  <2> HIDE DEF sends
  <2>2. /\ queue' \in Seq(Events) /\ Shifted(2)
        /\ queue'[Len(queue) - 1 + 1] = a /\ queue'[Len(queue) - 1 + 2] = b
    BY <1>1, <2>1, ReplyShifts
  <2> QED  BY <1>1, <1>2, <2>2
<1> QED  BY <1>3, <1>4, <1>5

LEMMA ReceiveStep ==
    ASSUME TypeOK, NEW payload \in Inputs, Receive(payload)
    PROVE  /\ TypeOK' /\ Extended
           /\ queue'[Len(queue) + 1].to = "Data_cleaning"
           /\ queue'[Len(queue) + 1].msg.id = Len(received) + 1 /\ queue'[Len(queue) + 1].msg.payload = payload
           /\ Len(received') = Len(received) + 1 /\ received'[Len(received')] = payload
           /\ \A id \in 1 .. Len(received) : received'[id] = received[id]
<1>1. /\ received' \in Seq(Inputs) /\ Len(received') = Len(received) + 1 /\ received'[Len(received')] = payload
      /\ \A id \in 1 .. Len(received) : received'[id] = received[id]
      /\ Len(received) \in Nat /\ Len(received) < MaxReadings
  <2>1. received \in Seq(Inputs) /\ received' = Append(received, payload) /\ Len(received) < MaxReadings
    BY DEF TypeOK, Receive
  <2> QED  BY <2>1, AppendProperties, LenProperties
<1>2. /\ queue \in Seq(Events') /\ aggregatorMap \in Seq(Level')
      /\ joined \in Seq(EnrichedReadings') /\ produced \in Seq(Records')
  BY MoreTypes, SeqMonotonic DEF TypeOK, Receive
<1>3. Send("Data_cleaning", [id |-> Len(received'), payload |-> payload]) \in Events'
  <2>1. Len(received') \in 1 .. Len(received')
    BY <1>1
  <2> QED  BY <2>1 DEF Events, Send
<1>4. queue' = Append(queue, Send("Data_cleaning", [id |-> Len(received'), payload |-> payload]))
  BY <1>1 DEF Receive
<1>5. queue' \in Seq(Events') /\ Extended
      /\ queue'[Len(queue) + 1] = Send("Data_cleaning", [id |-> Len(received'), payload |-> payload])
  BY <1>2, <1>3, <1>4, AppendExtends
<1>6. LET event == Send("Data_cleaning", [id |-> Len(received'), payload |-> payload]) IN
      event.to = "Data_cleaning" /\ event.msg.id = Len(received') /\ event.msg.payload = payload
  BY DEF Send
<1>7. Len(received') <= MaxReadings
  BY <1>1, BoundsAssumption
<1>8. TypeOK'
  BY <1>1, <1>2, <1>5, <1>7 DEF TypeOK, Receive
<1> QED  BY <1>1, <1>5, <1>6, <1>8

LEMMA ReadListStep ==
    ASSUME TypeOK, ReadList
    PROVE  TypeOK' /\ Extended /\ queue'[Len(queue) + 1].to = "Points_of_interest"
<1>1. queue' \in Seq(Events) /\ Extended /\ queue'[Len(queue) + 1] = Send("Points_of_interest", PoiFile)
  BY Constructed, AppendExtends DEF TypeOK, ReadList
<1>2. TypeOK'
  BY <1>1, SameTypes DEF TypeOK, ReadList
<1> QED  BY <1>1, <1>2, SendFields

LEMMA TriggerUpdateStep ==
    ASSUME TypeOK, TriggerUpdate
    PROVE  /\ TypeOK' /\ Extended
           /\ queue'[Len(queue) + 1].to = "POI_Aggregator" /\ queue'[Len(queue) + 1].msg.kind = "update"
<1> DEFINE event == Send("POI_Aggregator", [kind |-> "update"])
<1>1. queue' \in Seq(Events) /\ Extended /\ queue'[Len(queue) + 1] = event
  <2>1. event \in Events /\ queue \in Seq(Events) /\ queue' = Append(queue, event)
    BY Constructed DEF TypeOK, TriggerUpdate
  <2> HIDE DEF event
  <2> QED  BY <2>1, AppendExtends
<1>2. updates' \in 0 .. MaxUpdates
  <2>1. updates \in 0 .. MaxUpdates /\ updates < MaxUpdates /\ updates' = updates + 1
    BY DEF TypeOK, TriggerUpdate
  <2> QED  BY <2>1, BoundsAssumption
<1>3. TypeOK'
  BY <1>1, <1>2, SameTypes DEF TypeOK, TriggerUpdate
<1>4. event.to = "POI_Aggregator" /\ event.msg = [kind |-> "update"]
  BY DEF Send
<1> HIDE DEF event
<1> QED  BY <1>1, <1>3, <1>4, UpdateKind

LEMMA CleanStep ==
    ASSUME TypeOK, queue # <<>>, Clean
    PROVE  /\ TypeOK' /\ queue[1].to = "Data_cleaning"
           /\ \/ /\ Usable(queue[1].msg.payload) /\ Shifted(1) /\ queue'[Len(queue)].to = "change"
                 /\ queue'[Len(queue)].msg.kind = "sensor-data" /\ queue'[Len(queue)].msg.id = queue[1].msg.id
                 /\ queue'[Len(queue)].msg.payload = Cleaned(queue[1].msg.payload)
              \/ ~Usable(queue[1].msg.payload) /\ Shifted(0)
<1>1. /\ queue[1].to = "Data_cleaning" /\ queue[1].msg.id \in 1 .. Len(received)
      /\ queue[1].msg.payload \in Inputs /\ Msg = queue[1].msg /\ Len(queue) \in Nat \ {0}
  BY FirstEvent, Shapes DEF Clean, Takes, Msg
<1> DEFINE sent == Send("change", [kind |-> "sensor-data", id |-> queue[1].msg.id,
                                   payload |-> Cleaned(queue[1].msg.payload)])
<1>2. /\ sent \in Events /\ sent.to = "change" /\ sent.msg.kind = "sensor-data"
      /\ sent.msg.id = queue[1].msg.id /\ sent.msg.payload = Cleaned(queue[1].msg.payload)
  <2>1. sent \in Events
    BY <1>1, Constructed
  <2>2. sent.to = "change" /\ sent.msg.kind = "sensor-data"
    BY DEF Send
  <2>3. sent.msg.id = queue[1].msg.id /\ sent.msg.payload = Cleaned(queue[1].msg.payload)
    BY DEF Send
  <2> QED  BY <2>1, <2>2, <2>3
<1>3. UNCHANGED <<received, listRead, updates, aggregatorMap, enrichmentMap, joined, produced>>
      /\ Reply(IF Usable(queue[1].msg.payload) THEN <<sent>> ELSE <<>>)
  BY <1>1 DEF Clean
<1> HIDE DEF sent
<1>4. CASE Usable(queue[1].msg.payload)
  <2>1. queue' \in Seq(Events') /\ Shifted(1) /\ queue'[Len(queue)] = sent
    BY <1>2, <1>3, <1>4, Handled
  <2>2. TypeOK'
    BY <2>1, <1>3, SameTypes DEF TypeOK
  <2> QED  BY <1>1, <1>2, <1>4, <2>1, <2>2
<1>5. CASE ~Usable(queue[1].msg.payload)
  <2>1. queue' \in Seq(Events') /\ Shifted(0)
    BY <1>3, <1>5, Handled
  <2>2. TypeOK'
    BY <2>1, <1>3, SameTypes DEF TypeOK
  <2> QED  BY <1>1, <1>5, <2>1, <2>2
<1> QED  BY <1>4, <1>5

LEMMA ParseListStep ==
    ASSUME TypeOK, queue # <<>>, ParseList
    PROVE  /\ TypeOK' /\ queue[1].to = "Points_of_interest" /\ Shifted(1)
           /\ queue'[Len(queue)].to = "change" /\ queue'[Len(queue)].msg.kind = "poi"
<1>1. queue[1].to = "Points_of_interest" /\ Msg = PoiFile /\ Len(queue) \in Nat \ {0}
  BY FirstEvent, Shapes DEF ParseList, Takes, Msg
<1>2. Reply(<<Send("change", [kind |-> "poi", payload |-> PoiFile])>>)
  BY <1>1 DEF ParseList
<1>3. /\ queue' \in Seq(Events') /\ Shifted(1)
      /\ queue'[Len(queue)] = Send("change", [kind |-> "poi", payload |-> PoiFile])
  BY <1>2, Constructed, Handled DEF ParseList
<1>4. TypeOK'
  BY <1>3, SameTypes DEF TypeOK, ParseList
<1>5. LET event == Send("change", [kind |-> "poi", payload |-> PoiFile])
      IN  event.to = "change" /\ event.msg.kind = "poi"
  BY DEF Send
<1> QED  BY <1>1, <1>3, <1>4, <1>5

LEMMA ChangeStep ==
    ASSUME TypeOK, queue # <<>>, Change
    PROVE  /\ TypeOK' /\ queue[1].to = "change" /\ Shifted(2)
           /\ queue'[Len(queue)].to = "POI_Aggregator" /\ queue'[Len(queue)].msg = queue[1].msg
           /\ queue'[Len(queue) + 1].to = "Enrichment" /\ queue'[Len(queue) + 1].msg = queue[1].msg
<1>1. /\ queue[1].to = "change" /\ Msg = queue[1].msg /\ Len(queue) \in Nat \ {0}
      /\ queue[1].msg \in SensorData \cup PoiList
  BY FirstEvent, Shapes DEF Change, Takes, Msg
<1>2. Reply(<<Send("POI_Aggregator", queue[1].msg), Send("Enrichment", queue[1].msg)>>)
  BY <1>1 DEF Change, ToBoth
<1>3. /\ queue' \in Seq(Events') /\ Shifted(2)
      /\ queue'[Len(queue)] = Send("POI_Aggregator", queue[1].msg)
      /\ queue'[Len(queue) + 1] = Send("Enrichment", queue[1].msg)
  BY <1>1, <1>2, Constructed, Handled DEF Change
<1>4. TypeOK'
  BY <1>3, SameTypes DEF TypeOK, Change
<1> QED  BY <1>1, <1>3, <1>4, SendFields

LEMMA AggregateStep ==
    ASSUME TypeOK, queue # <<>>, Aggregate
    PROVE  /\ TypeOK' /\ queue[1].to = "POI_Aggregator" /\ queue[1].msg.kind = "sensor-data" /\ Shifted(0)
           /\ Len(aggregatorMap') = Len(aggregatorMap)
           /\ \A i \in 1 .. Len(aggregatorMap) :
                LET blended == aggregatorMap[i].blended
                    new     == [id |-> queue[1].msg.id, payload |-> queue[1].msg.payload]
                IN  /\ aggregatorMap'[i].blended = Append(blended, new)
                    /\ Len(aggregatorMap'[i].blended) = Len(blended) + 1
                    /\ \A k \in 1 .. Len(blended) : aggregatorMap'[i].blended[k] = blended[k]
                    /\ aggregatorMap'[i].blended[Len(blended) + 1] = new
<1> DEFINE new == [id |-> queue[1].msg.id, payload |-> queue[1].msg.payload]
<1>1. /\ queue[1].to = "POI_Aggregator" /\ queue[1].msg.kind = "sensor-data" /\ Msg = queue[1].msg
      /\ new \in CleanedReadings
  BY FirstEvent, Shapes DEF Aggregate, TakesKind, Takes, Msg
<1>2. /\ aggregatorMap \in Seq(Level) /\ Len(aggregatorMap) \in Nat
      /\ aggregatorMap' = [i \in 1 .. Len(aggregatorMap) |->
                             [aggregatorMap[i] EXCEPT !.blended = Append(@, new)]]
  BY <1>1, LenProperties DEF TypeOK, Aggregate, Blended
<1> HIDE DEF new
<1>3. ASSUME NEW i \in 1 .. Len(aggregatorMap)
      PROVE  /\ aggregatorMap'[i] \in Level
             /\ aggregatorMap'[i].blended = Append(aggregatorMap[i].blended, new)
             /\ Len(aggregatorMap'[i].blended) = Len(aggregatorMap[i].blended) + 1
             /\ \A k \in 1 .. Len(aggregatorMap[i].blended) :
                    aggregatorMap'[i].blended[k] = aggregatorMap[i].blended[k]
             /\ aggregatorMap'[i].blended[Len(aggregatorMap[i].blended) + 1] = new
  <2>1. aggregatorMap[i] \in Level
    BY <1>2, ElementOfSeq
  <2>2. aggregatorMap[i].blended \in Seq(CleanedReadings)
    BY <2>1 DEF Level
  <2>3. aggregatorMap'[i] = [aggregatorMap[i] EXCEPT !.blended = Append(aggregatorMap[i].blended, new)]
    BY <1>2
  <2> DEFINE old == aggregatorMap[i].blended
  <2>4. /\ Append(old, new) \in Seq(CleanedReadings) /\ Len(Append(old, new)) = Len(old) + 1
        /\ Append(old, new)[Len(old) + 1] = new /\ \A k \in 1 .. Len(old) : Append(old, new)[k] = old[k]
    <3>1. new \in CleanedReadings /\ old \in Seq(CleanedReadings)
      BY <1>1, <2>2
    <3> HIDE DEF old
    <3> QED  BY <3>1, AppendFacts
  <2>5. aggregatorMap'[i].blended = Append(aggregatorMap[i].blended, new)
    BY <2>1, <2>3 DEF Level
  <2>6. aggregatorMap'[i] \in Level
    BY <2>1, <2>3, <2>4 DEF Level
  <2> QED  BY <2>4, <2>5, <2>6
<1>4. aggregatorMap' \in Seq(Level) /\ Len(aggregatorMap') = Len(aggregatorMap)
  <2>1. aggregatorMap' \in [1 .. Len(aggregatorMap) -> Level]
    <3>1. \A i \in 1 .. Len(aggregatorMap) : aggregatorMap'[i] \in Level
      BY <1>3
    <3> QED  BY <1>2, <3>1
  <2> QED  BY <1>2, <2>1
<1>5. queue' \in Seq(Events') /\ Shifted(0)
  BY Handled DEF Aggregate
<1>6. TypeOK'
  BY <1>4, <1>5, SameTypes DEF TypeOK, Aggregate
<1> QED  BY <1>1, <1>3, <1>4, <1>5, <1>6 DEF new

LEMMA PublishLevelsStep ==
    ASSUME TypeOK, queue # <<>>, PublishLevels
    PROVE  /\ TypeOK' /\ queue[1].to = "POI_Aggregator" /\ queue[1].msg.kind = "update"
           /\ \/ Shifted(0)
              \/ Shifted(1) /\ queue'[Len(queue)].to = "Kafka_producer" /\ queue'[Len(queue)].msg.topic = "poi-data"
<1>1. queue[1].to = "POI_Aggregator" /\ queue[1].msg.kind = "update"
  BY FirstEvent DEF PublishLevels, TakesKind, Takes, Msg
<1>2. Levels(aggregatorMap) \in Records /\ Levels(aggregatorMap).topic = "poi-data"
  BY DEF TypeOK, Records, Levels
<1> DEFINE sent == Send("Kafka_producer", Levels(aggregatorMap))
<1>3. sent \in Events /\ sent.to = "Kafka_producer" /\ sent.msg.topic = "poi-data"
  <2>1. sent.to = "Kafka_producer" /\ sent.msg = Levels(aggregatorMap)
    BY DEF Send
  <2> QED  BY <1>2, <2>1, Constructed
<1>4. Reply(<<>>) \/ Reply(<<sent>>)
  BY DEF PublishLevels
<1> HIDE DEF sent
<1>5. queue' \in Seq(Events') /\ (Shifted(0) \/ (Shifted(1) /\ queue'[Len(queue)] = sent))
  BY <1>3, <1>4, Handled DEF PublishLevels
<1>6. TypeOK'
  BY <1>5, SameTypes DEF TypeOK, PublishLevels
<1> QED  BY <1>1, <1>3, <1>5, <1>6

LEMMA AggregatorSetsMapStep ==
    ASSUME TypeOK, queue # <<>>, AggregatorSetsMap
    PROVE  /\ TypeOK' /\ queue[1].to = "POI_Aggregator" /\ queue[1].msg.kind = "poi" /\ Shifted(0)
           /\ aggregatorMap' # <<>>
           /\ \A i \in 1 .. Len(aggregatorMap') : aggregatorMap'[i].blended = <<>>
<1>1. /\ queue[1].to = "POI_Aggregator" /\ queue[1].msg.kind = "poi" /\ Msg.payload = PoiFile
  BY FirstEvent, Shapes DEF AggregatorSetsMap, TakesKind, Takes, Msg
<1> DEFINE Pois == {PoiFile[i] : i \in DOMAIN PoiFile}
<1>2. PoiFile \in Seq(Pois) /\ PoiFile # <<>>
  BY PoiFileAssumption
<1> HIDE DEF Pois
<1>3. DOMAIN PoiFile = 1 .. Len(PoiFile) /\ Len(PoiFile) \in Nat \ {0} /\ \A i \in 1 .. Len(PoiFile) : PoiFile[i] \in Pois
  BY <1>2, LenProperties, EmptySeq, ElementOfSeq
<1>4. aggregatorMap' = [i \in 1 .. Len(PoiFile) |-> [poi |-> PoiFile[i], blended |-> <<>>]]
  BY <1>1, <1>3 DEF AggregatorSetsMap
<1>5. \A i \in 1 .. Len(PoiFile) : [poi |-> PoiFile[i], blended |-> <<>>] \in Level
  BY <1>3, SendsTypes DEF Level, Pois
<1>6. aggregatorMap' \in Seq(Level) /\ Len(aggregatorMap') = Len(PoiFile)
  BY <1>3, <1>4, <1>5
<1>7. \A i \in 1 .. Len(aggregatorMap') : aggregatorMap'[i].blended = <<>>
  BY <1>4, <1>6
<1>8. aggregatorMap' # <<>>
  BY <1>3, <1>6, SendsTypes
<1>9. queue' \in Seq(Events') /\ Shifted(0)
  BY Handled DEF AggregatorSetsMap
<1>10. TypeOK'
  BY <1>6, <1>9, SameTypes DEF TypeOK, AggregatorSetsMap
<1> QED  BY <1>1, <1>7, <1>8, <1>9, <1>10

LEMMA EnrichStep ==
    ASSUME TypeOK, queue # <<>>, Enrich
    PROVE  /\ TypeOK' /\ queue[1].to = "Enrichment" /\ queue[1].msg.kind = "sensor-data"
           /\ \/ enrichmentMap = Undefined /\ Shifted(0)
              \/ /\ enrichmentMap # Undefined /\ Shifted(1)
                 /\ queue'[Len(queue)].to = "join" /\ queue'[Len(queue)].msg.id = queue[1].msg.id
<1>1. /\ queue[1].to = "Enrichment" /\ queue[1].msg.kind = "sensor-data" /\ Msg = queue[1].msg
      /\ [id |-> queue[1].msg.id, payload |-> queue[1].msg.payload] \in CleanedReadings
  BY FirstEvent, Shapes DEF Enrich, TakesKind, Takes, Msg
<1>2. CASE enrichmentMap = Undefined
  <2>1. queue' \in Seq(Events') /\ Shifted(0)
    BY <1>2, Handled DEF Enrich, WithPoi
  <2>2. TypeOK'
    BY <2>1, SameTypes DEF TypeOK, Enrich
  <2> QED  BY <1>1, <1>2, <2>1, <2>2
<1>3. CASE enrichmentMap # Undefined
  <2>1. enrichmentMap = PoiFile
    BY <1>3 DEF TypeOK
  <2> DEFINE Pois == {PoiFile[i] : i \in DOMAIN PoiFile}
  <2>2. PoiFile \in Seq(Pois) /\ PoiFile # <<>>
    BY PoiFileAssumption
  <2> HIDE DEF Pois
  <2>3. Closest(PoiFile, queue[1].msg.payload) = PoiFile[Len(PoiFile)].id /\ Len(PoiFile) \in DOMAIN PoiFile
    BY <2>2, ClosestIsLast, LenProperties, EmptySeq
  <2> DEFINE enriched == [id |-> queue[1].msg.id, payload |-> queue[1].msg.payload, poi |-> PoiFile[Len(PoiFile)].id]
             sent == Send("join", enriched)
  <2>4. enriched \in EnrichedReadings
    BY <1>1, <2>3 DEF EnrichedReadings, CleanedReadings
  <2>5. sent \in Events /\ sent.to = "join" /\ sent.msg.id = queue[1].msg.id
    <3>1. sent.to = "join" /\ sent.msg = enriched /\ enriched.id = queue[1].msg.id
      BY DEF Send
    <3> HIDE DEF enriched
    <3> QED  BY <2>4, <3>1, Constructed
  <2>6. Reply(<<sent>>)
    BY <1>1, <1>3, <2>1, <2>3 DEF Enrich, WithPoi
  <2> HIDE DEF sent
  <2>7. queue' \in Seq(Events') /\ Shifted(1) /\ queue'[Len(queue)] = sent
    BY <2>5, <2>6, Handled DEF Enrich
  <2>8. TypeOK'
    BY <2>7, SameTypes DEF TypeOK, Enrich
  <2> QED  BY <1>1, <1>3, <2>5, <2>7, <2>8
<1> QED  BY <1>2, <1>3

LEMMA EnrichmentSetsMapStep ==
    ASSUME TypeOK, queue # <<>>, EnrichmentSetsMap
    PROVE  /\ TypeOK' /\ queue[1].to = "Enrichment" /\ queue[1].msg.kind = "poi" /\ Shifted(0)
           /\ enrichmentMap' # Undefined
<1>1. /\ queue[1].to = "Enrichment" /\ queue[1].msg.kind = "poi" /\ Msg.payload = PoiFile
  BY FirstEvent, Shapes DEF EnrichmentSetsMap, TakesKind, Takes, Msg
<1>2. queue' \in Seq(Events') /\ Shifted(0)
  BY Handled DEF EnrichmentSetsMap
<1>3. TypeOK'
  BY <1>1, <1>2, SameTypes DEF TypeOK, EnrichmentSetsMap
<1> QED  BY <1>1, <1>2, <1>3, UndefinedAssumption DEF EnrichmentSetsMap

LEMMA JoinStep ==
    ASSUME TypeOK, queue # <<>>, Join
    PROVE  /\ TypeOK' /\ queue[1].to = "join" /\ Shifted(0)
           /\ Len(joined') = Len(joined) + 1 /\ joined'[Len(joined) + 1] = queue[1].msg
           /\ \A m \in 1 .. Len(joined) : joined'[m] = joined[m]
<1>1. queue[1].to = "join" /\ Msg = queue[1].msg /\ queue[1].msg \in EnrichedReadings
  BY FirstEvent, Shapes DEF Join, Takes, Msg
<1>2. joined \in Seq(EnrichedReadings) /\ joined' = Append(joined, queue[1].msg)
  BY <1>1 DEF TypeOK, Join
<1>3. /\ joined' \in Seq(EnrichedReadings) /\ Len(joined') = Len(joined) + 1
      /\ joined'[Len(joined) + 1] = queue[1].msg /\ \A m \in 1 .. Len(joined) : joined'[m] = joined[m]
  BY <1>1, <1>2, AppendFacts
<1>4. queue' \in Seq(Events') /\ Shifted(0)
  BY Handled DEF Join
<1>5. TypeOK'
  BY <1>3, <1>4, SameTypes DEF TypeOK, Join
<1> QED  BY <1>1, <1>3, <1>4, <1>5

LEMMA JoinTimeoutStep ==
    ASSUME TypeOK, JoinTimeout
    PROVE  /\ TypeOK' /\ Extended /\ joined # <<>> /\ joined' = <<>>
           /\ queue'[Len(queue) + 1].to = "Kafka_producer" /\ Readings(queue'[Len(queue) + 1].msg) = joined
<1> DEFINE record == [topic |-> "sensor-data", payload |-> joined]
           sent == Send("Kafka_producer", record)
<1>1. record \in Records /\ Readings(record) = joined
  BY DEF TypeOK, Records, Readings
<1>2. sent \in Events /\ sent.to = "Kafka_producer" /\ sent.msg = record
  BY <1>1, Constructed DEF Send
<1>3. queue' = Append(queue, sent) /\ queue \in Seq(Events)
  BY DEF TypeOK, JoinTimeout
<1> HIDE DEF sent, record
<1>4. queue' \in Seq(Events) /\ Extended /\ queue'[Len(queue) + 1] = sent
  BY <1>2, <1>3, AppendExtends
<1>5. TypeOK'
  BY <1>4, SameTypes, SendsTypes DEF TypeOK, JoinTimeout
<1> QED  BY <1>1, <1>2, <1>4, <1>5 DEF JoinTimeout

LEMMA ProduceStep ==
    ASSUME TypeOK, queue # <<>>, Produce
    PROVE  /\ TypeOK' /\ queue[1].to = "Kafka_producer" /\ Shifted(0)
           /\ Len(produced') = Len(produced) + 1 /\ produced'[Len(produced) + 1] = queue[1].msg
           /\ \A k \in 1 .. Len(produced) : produced'[k] = produced[k]
<1>1. queue[1].to = "Kafka_producer" /\ Msg = queue[1].msg /\ queue[1].msg \in Records
  BY FirstEvent, Shapes DEF Produce, Takes, Msg
<1>2. produced \in Seq(Records) /\ produced' = Append(produced, queue[1].msg)
  BY <1>1 DEF TypeOK, Produce
<1>3. /\ produced' \in Seq(Records) /\ Len(produced') = Len(produced) + 1
      /\ produced'[Len(produced) + 1] = queue[1].msg /\ \A k \in 1 .. Len(produced) : produced'[k] = produced[k]
  <2>1. LET grown == Append(produced, queue[1].msg) IN
        /\ grown \in Seq(Records) /\ Len(grown) = Len(produced) + 1
        /\ grown[Len(produced) + 1] = queue[1].msg /\ \A k \in 1 .. Len(produced) : grown[k] = produced[k]
    BY <1>1, <1>2, AppendFacts, Zenon
  <2> QED  BY <1>2, <2>1
<1>4. queue' \in Seq(Events') /\ Shifted(0)
  BY Handled DEF Produce
<1>5. TypeOK'
  BY <1>3, <1>4, SameTypes DEF TypeOK, Produce
<1> QED  BY <1>1, <1>3, <1>4, <1>5

LEMMA InitTypes == Init => TypeOK
<1> SUFFICES ASSUME Init PROVE TypeOK
  OBVIOUS
<1>1. /\ <<>> \in Seq(Inputs) /\ <<>> \in Seq(Events) /\ <<>> \in Seq(Level)
      /\ <<>> \in Seq(EnrichedReadings) /\ <<>> \in Seq(Records) /\ Len(<<>>) = 0
  BY SendsTypes
<1>2. 0 \in 0 .. MaxUpdates /\ 0 <= MaxReadings
  BY BoundsAssumption
<1> QED  BY <1>1, <1>2 DEF TypeOK, Init

LEMMA RestartStep == Restart => Init'
  BY DEF Restart, Init

LEMMA NextTypes == TypeOK /\ [Next]_vars => TypeOK'
<1> SUFFICES ASSUME TypeOK, [Next]_vars PROVE TypeOK'
  OBVIOUS
<1>1. ASSUME NEW payload \in Inputs, Receive(payload) PROVE TypeOK'
  BY <1>1, ReceiveStep
<1>2. CASE Deliver
  <2>1. queue # <<>>
    BY <1>2 DEF Deliver
  <2> QED  BY <1>2, <2>1, CleanStep, ParseListStep, ChangeStep, AggregateStep, PublishLevelsStep,
              AggregatorSetsMapStep, EnrichStep, EnrichmentSetsMapStep, JoinStep, ProduceStep DEF Deliver
<1>3. CASE ReadList \/ TriggerUpdate \/ JoinTimeout
  BY <1>3, ReadListStep, TriggerUpdateStep, JoinTimeoutStep
<1>5. CASE Restart
  BY <1>5, RestartStep, InitTypes, PTL
<1>4. CASE UNCHANGED vars
  BY <1>4, SameTypes DEF vars, TypeOK
<1> QED  BY <1>1, <1>2, <1>3, <1>4, <1>5 DEF Next

\* Every variable and every message has its type.
THEOREM TypeCorrect == Spec => []TypeOK
  BY InitTypes, NextTypes, PTL DEF Spec

-----------------------------------------------------------------------------
(* The inductive invariant *)

\* A message of the list before "POI Aggregator" has it.
IsList(event) ==
    event.to = "Points_of_interest" \/ (event.to \in {"change", "POI_Aggregator"} /\ event.msg.kind = "poi")

\* What goes to "POI Aggregator" goes to "Enrichment" next, so that no other
\* handler runs in between.
Paired ==
    /\ \A k \in 1 .. Len(queue) :
         queue[k].to = "POI_Aggregator" /\ queue[k].msg.kind # "update" =>
             k < Len(queue) /\ queue[k + 1].to = "Enrichment" /\ queue[k + 1].msg = queue[k].msg
    /\ \A k \in 1 .. Len(queue) :
         k > 1 /\ queue[k].to = "Enrichment" =>
             queue[k - 1].to = "POI_Aggregator" /\ queue[k - 1].msg = queue[k].msg

\* The list is on its way once, and before it has arrived.
ListOnce ==
    /\ \A j, k \in 1 .. Len(queue) : IsList(queue[j]) /\ IsList(queue[k]) => j = k
    /\ \A k \in 1 .. Len(queue) : IsList(queue[k]) => listRead /\ aggregatorMap = <<>>
    /\ aggregatorMap # <<>> => listRead

Made(r, readings) == Usable(readings[r.id]) /\ r.payload = Cleaned(readings[r.id])

Intact(event, readings) ==
    /\ event.to = "Data_cleaning" => event.msg.payload = readings[event.msg.id]
    /\ event.to \in {"change", "POI_Aggregator"} /\ event.msg.kind = "sensor-data" => Made(event.msg, readings)

\* What is on its way or blended is what was received.
Faithful ==
    /\ \A k \in 1 .. Len(queue) : Intact(queue[k], received)
    /\ \A i \in 1 .. Len(aggregatorMap) : \A k \in 1 .. Len(aggregatorMap[i].blended) :
         Made(aggregatorMap[i].blended[k], received)

Stage(node) == CASE node = "Data_cleaning" -> 1 [] node = "change" -> 2 [] OTHER -> 3

\* Of two readings on their way the older one has made more steps, or as many
\* and is in front.
InTurn ==
    \A j, k \in 1 .. Len(queue) : j < k /\ IsReading(queue[j]) /\ IsReading(queue[k]) =>
        IF Stage(queue[j].to) >= Stage(queue[k].to) THEN queue[j].msg.id < queue[k].msg.id
                                                    ELSE queue[k].msg.id < queue[j].msg.id

\* All levels are made of the same readings, in the order of arrival, and of
\* older ones than those on their way.
BlendedInTurn ==
    /\ \A i \in 1 .. Len(aggregatorMap) : aggregatorMap[i].blended = aggregatorMap[1].blended
    /\ \A j, k \in 1 .. Len(AggregatedIds) : j < k => AggregatedIds[j] < AggregatedIds[k]
    /\ \A j \in 1 .. Len(AggregatedIds), k \in 1 .. Len(queue) : IsReading(queue[k]) => AggregatedIds[j] < queue[k].msg.id

IsAggregated(id) == \E k \in 1 .. Len(AggregatedIds) : AggregatedIds[k] = id

\* A usable reading that is neither on its way nor blended came before all
\* that are.
NoneMissed ==
    \A id \in 1 .. Len(received) : Usable(received[id]) =>
        \/ OnItsWay(id) \/ IsAggregated(id)
        \/ /\ \A k \in 1 .. Len(AggregatedIds) : id < AggregatedIds[k]
           /\ \A k \in 1 .. Len(queue) : IsReading(queue[k]) => id < queue[k].msg.id

\* "POI Aggregator" has handled a message and "Enrichment" has not.
Between(kind) == queue # <<>> /\ queue[1].to = "Enrichment" /\ queue[1].msg.kind = kind

\* Both nodes have the list or neither has, but for the moment between them;
\* and what the one has blended the other has enriched, but for that moment.
Agreed ==
    /\ Between("poi") => enrichmentMap = Undefined /\ aggregatorMap # <<>>
    /\ ~Between("poi") => (aggregatorMap = <<>> <=> enrichmentMap = Undefined)
    /\ \A id \in 1 .. Len(received) :
         IsAggregated(id) <=> \/ Enriched(id)
                              \/ Between("sensor-data") /\ aggregatorMap # <<>> /\ id = queue[1].msg.id
    /\ Between("sensor-data") => \A id \in 1 .. Len(received) : Enriched(id) => id < queue[1].msg.id

Inv ==
    /\ TypeOK /\ Paired /\ ListOnce /\ Faithful
    /\ InTurn /\ BlendedInTurn /\ NoneMissed
    /\ OlderFirst /\ Agreed

-----------------------------------------------------------------------------
(* Its preservation *)

Alone(event) == event.to \notin {"POI_Aggregator", "Enrichment"} \/ (event.to = "POI_Aggregator" /\ event.msg.kind = "update")

\* What a step does to the queue.
LEMMA QueueMoves ==
    ASSUME TypeOK, Next, ~Restart
    PROVE  \/ Extended /\ Alone(queue'[Len(queue) + 1])
           \/ queue # <<>> /\ Shifted(0)
           \/ queue # <<>> /\ Shifted(1) /\ Alone(queue'[Len(queue)])
           \/ queue # <<>> /\ Change
<1>1. ASSUME NEW payload \in Inputs, Receive(payload)
      PROVE  Extended /\ Alone(queue'[Len(queue) + 1])
  BY <1>1, ReceiveStep DEF Alone
<1>2. ASSUME ReadList PROVE Extended /\ Alone(queue'[Len(queue) + 1])
  BY <1>2, ReadListStep DEF Alone
<1>3. ASSUME TriggerUpdate PROVE Extended /\ Alone(queue'[Len(queue) + 1])
  BY <1>3, TriggerUpdateStep DEF Alone
<1>4. ASSUME JoinTimeout PROVE Extended /\ Alone(queue'[Len(queue) + 1])
  BY <1>4, JoinTimeoutStep DEF Alone
<1>5. CASE Deliver
  <2>1. queue # <<>>
    BY <1>5 DEF Deliver
  <2>2. ASSUME Clean PROVE Shifted(0) \/ (Shifted(1) /\ Alone(queue'[Len(queue)]))
    BY <2>1, <2>2, CleanStep DEF Alone
  <2>3. ASSUME ParseList PROVE Shifted(1) /\ Alone(queue'[Len(queue)])
    BY <2>1, <2>3, ParseListStep DEF Alone
  <2>4. ASSUME PublishLevels \/ Enrich PROVE Shifted(0) \/ (Shifted(1) /\ Alone(queue'[Len(queue)]))
    <3>1. Shifted(0) \/ (Shifted(1) /\ queue'[Len(queue)].to \in {"Kafka_producer", "join"})
      BY <2>1, <2>4, PublishLevelsStep, EnrichStep
    <3> QED  BY <3>1 DEF Alone
  <2>5. CASE Aggregate \/ AggregatorSetsMap \/ EnrichmentSetsMap \/ Join \/ Produce
    BY <2>1, <2>5, AggregateStep, AggregatorSetsMapStep, EnrichmentSetsMapStep, JoinStep, ProduceStep
  <2> QED  BY <1>5, <2>1, <2>2, <2>3, <2>4, <2>5 DEF Deliver
<1> QED  BY <1>1, <1>2, <1>3, <1>4, <1>5 DEF Next

\* Every message is an old one that moved, or new.
LEMMA Lengths ==
    ASSUME TypeOK
    PROVE  /\ Len(queue) \in Nat /\ queue # <<>> => Len(queue) > 0
           /\ Extended => \A k \in 1 .. Len(queue') : k \in 1 .. Len(queue) \/ k = Len(queue) + 1
           /\ \A n \in {0, 1, 2} : queue # <<>> /\ Shifted(n) =>
                \A k \in 1 .. Len(queue') :
                  \/ k \in 1 .. Len(queue) - 1 /\ k + 1 \in 1 .. Len(queue) /\ queue'[k] = queue[k + 1]
                  \/ n >= 1 /\ k = Len(queue)
                  \/ n = 2 /\ k = Len(queue) + 1
<1>1. Len(queue) \in Nat /\ (queue # <<>> => Len(queue) > 0)
  BY EmptySeq, LenProperties DEF TypeOK
<1> QED  BY <1>1 DEF Extended, Shifted

LEMMA PairedStep ==
    ASSUME TypeOK, Paired, Next, ~Restart
    PROVE  Paired'
<1> SUFFICES ASSUME NEW k \in 1 .. Len(queue')
             PROVE  /\ queue'[k].to = "POI_Aggregator" /\ queue'[k].msg.kind # "update" =>
                        k < Len(queue') /\ queue'[k + 1].to = "Enrichment" /\ queue'[k + 1].msg = queue'[k].msg
                    /\ k > 1 /\ queue'[k].to = "Enrichment" =>
                        queue'[k - 1].to = "POI_Aggregator" /\ queue'[k - 1].msg = queue'[k].msg
  BY DEF Paired
<1>1. Len(queue) \in Nat /\ (queue # <<>> => Len(queue) > 0)
  BY Lengths
<1> DEFINE Here(j) == /\ queue[j].to = "POI_Aggregator" /\ queue[j].msg.kind # "update" =>
                          j < Len(queue) /\ queue[j + 1].to = "Enrichment" /\ queue[j + 1].msg = queue[j].msg
                      /\ j > 1 /\ queue[j].to = "Enrichment" =>
                          queue[j - 1].to = "POI_Aggregator" /\ queue[j - 1].msg = queue[j].msg
<1>2. \A j \in 1 .. Len(queue) : Here(j)
  BY DEF Paired
<1>3. CASE Extended /\ Alone(queue'[Len(queue) + 1])
  <2>1. CASE k \in 1 .. Len(queue)
    <3>1. /\ queue'[k] = queue[k] /\ (k < Len(queue) => queue'[k + 1] = queue[k + 1])
          /\ (k > 1 => queue'[k - 1] = queue[k - 1]) /\ Len(queue') = Len(queue) + 1
      BY <1>1, <1>3, <2>1 DEF Extended
    <3> QED  BY <1>1, <1>2, <2>1, <3>1
  <2>2. CASE k = Len(queue) + 1
    BY <1>3, <2>2 DEF Alone
  <2> QED  BY <1>1, <1>3, <2>1, <2>2 DEF Extended
<1>4. ASSUME NEW n \in {0, 1, 2}, queue # <<>>, Shifted(n), k \in 1 .. Len(queue) - 1
      PROVE  /\ queue'[k].to = "POI_Aggregator" /\ queue'[k].msg.kind # "update" =>
                 k < Len(queue') /\ queue'[k + 1].to = "Enrichment" /\ queue'[k + 1].msg = queue'[k].msg
             /\ k > 1 /\ queue'[k].to = "Enrichment" =>
                 queue'[k - 1].to = "POI_Aggregator" /\ queue'[k - 1].msg = queue'[k].msg
  <2>1. k + 1 \in 1 .. Len(queue) /\ k + 1 - 1 = k
    BY <1>1, <1>4
  <2>2. /\ queue'[k] = queue[k + 1] /\ (k < Len(queue) - 1 => queue'[k + 1] = queue[k + 1 + 1])
        /\ (k > 1 => queue'[k - 1] = queue[k]) /\ Len(queue') = Len(queue) - 1 + n
    BY <1>1, <1>4 DEF Shifted
  <2>3. Here(k + 1)
    BY <1>2, <2>1
  <2> QED  BY <1>1, <1>4, <2>1, <2>2, <2>3
<1>5. CASE queue # <<>> /\ Shifted(0)
  BY <1>1, <1>4, <1>5 DEF Shifted
<1>6. CASE queue # <<>> /\ Shifted(1) /\ Alone(queue'[Len(queue)])
  <2>1. k \in 1 .. Len(queue) - 1 \/ k = Len(queue)
    BY <1>1, <1>6 DEF Shifted
  <2>2. CASE k = Len(queue)
    BY <1>6, <2>2 DEF Alone
  <2> QED  BY <1>4, <1>6, <2>1, <2>2
<1>7. CASE queue # <<>> /\ Change
  <2>1. /\ Shifted(2)
        /\ queue'[Len(queue)].to = "POI_Aggregator" /\ queue'[Len(queue) + 1].to = "Enrichment"
        /\ queue'[Len(queue)].msg = queue'[Len(queue) + 1].msg
    BY <1>7, ChangeStep
  <2>2. k \in 1 .. Len(queue) - 1 \/ k = Len(queue) \/ k = Len(queue) + 1
    BY <1>1, <2>1 DEF Shifted
  <2>3. Len(queue') = Len(queue) + 1
    BY <1>1, <2>1 DEF Shifted
  <2>4. CASE k = Len(queue)
    BY <1>1, <2>1, <2>3, <2>4
  <2>5. CASE k = Len(queue) + 1
    <3>1. k - 1 = Len(queue)
      BY <1>1, <2>5
    <3> QED  BY <2>1, <2>5, <3>1
  <2> QED  BY <1>4, <1>7, <2>1, <2>2, <2>4, <2>5
<1> QED  BY <1>3, <1>5, <1>6, <1>7, QueueMoves

\* A reading on its way to "POI Aggregator".
LEMMA ReadingFacts ==
    ASSUME TypeOK, NEW k \in 1 .. Len(queue), IsReading(queue[k])
    PROVE  /\ queue[k].msg.id \in 1 .. Len(received) /\ Len(received) \in Nat
           /\ Stage(queue[k].to) \in 1 .. 3 /\ (queue[k].to \in {"POI_Aggregator"} <=> Stage(queue[k].to) = 3)
<1>1. queue[k] \in Events /\ Len(received) \in Nat
  BY ElementOfSeq, LenProperties DEF TypeOK
<1>2. queue[k].msg.id \in 1 .. Len(received)
  BY <1>1, Shapes DEF IsReading
<1>3. queue[k].to \in {"Data_cleaning", "change", "POI_Aggregator"}
  BY DEF IsReading
<1>4. Stage(queue[k].to) \in 1 .. 3 /\ (queue[k].to \in {"POI_Aggregator"} <=> Stage(queue[k].to) = 3)
  BY <1>3 DEF Stage
<1> QED  BY <1>1, <1>2, <1>4

\* What a step does to the readings on their way.
Entered == /\ Extended /\ IsReading(queue'[Len(queue) + 1])
           /\ queue'[Len(queue) + 1].msg.id = Len(received) + 1 /\ Stage(queue'[Len(queue) + 1].to) = 1

Advanced == /\ queue # <<>> /\ (Shifted(1) \/ (Shifted(2) /\ ~IsReading(queue'[Len(queue) + 1])))
            /\ IsReading(queue[1]) /\ IsReading(queue'[Len(queue)])
            /\ queue'[Len(queue)].msg.id = queue[1].msg.id
            /\ Stage(queue'[Len(queue)].to) = Stage(queue[1].to) + 1

Passed == \/ Extended /\ ~IsReading(queue'[Len(queue) + 1])
          \/ queue # <<>> /\ Shifted(0)
          \/ queue # <<>> /\ Shifted(1) /\ ~IsReading(queue'[Len(queue)])
          \/ /\ queue # <<>> /\ Shifted(2)
             /\ ~IsReading(queue'[Len(queue)]) /\ ~IsReading(queue'[Len(queue) + 1])

LEMMA ReadingsMove ==
    ASSUME TypeOK, Next, ~Restart
    PROVE  Entered \/ Advanced \/ Passed
<1>1. ASSUME NEW payload \in Inputs, Receive(payload) PROVE Entered
  BY <1>1, ReceiveStep DEF Entered, IsReading, Stage
<1>2. ASSUME ReadList \/ TriggerUpdate \/ JoinTimeout PROVE Passed
  BY <1>2, ReadListStep, TriggerUpdateStep, JoinTimeoutStep DEF Passed, IsReading
<1>3. CASE Deliver
  <2>1. queue # <<>>
    BY <1>3 DEF Deliver
  <2>2. ASSUME Clean PROVE Advanced \/ Passed
    <3>1. CASE Shifted(0)
      BY <2>1, <3>1 DEF Passed
    <3>2. CASE ~Shifted(0)
      <4>1. /\ queue[1].to = "Data_cleaning" /\ Shifted(1) /\ queue'[Len(queue)].to = "change"
            /\ queue'[Len(queue)].msg.kind = "sensor-data" /\ queue'[Len(queue)].msg.id = queue[1].msg.id
        BY <2>1, <2>2, <3>2, CleanStep
      <4>2. IsReading(queue[1]) /\ IsReading(queue'[Len(queue)])
        BY <4>1 DEF IsReading
      <4>3. Stage(queue[1].to) = 1 /\ Stage(queue'[Len(queue)].to) = 2
        BY <4>1 DEF Stage
      <4>4. Stage(queue'[Len(queue)].to) = Stage(queue[1].to) + 1
        BY <4>3
      <4> QED  BY <2>1, <4>1, <4>2, <4>4 DEF Advanced
    <3> QED  BY <3>1, <3>2
  <2>3. ASSUME ParseList \/ PublishLevels \/ Enrich PROVE Passed
    BY <2>1, <2>3, ParseListStep, PublishLevelsStep, EnrichStep DEF Passed, IsReading
  <2>4. ASSUME Change PROVE Advanced \/ Passed
    BY <2>1, <2>4, ChangeStep DEF Advanced, Passed, IsReading, Stage
  <2>5. ASSUME Aggregate \/ AggregatorSetsMap \/ EnrichmentSetsMap \/ Join \/ Produce PROVE Passed
    BY <2>1, <2>5, AggregateStep, AggregatorSetsMapStep, EnrichmentSetsMapStep, JoinStep, ProduceStep DEF Passed
  <2> QED  BY <1>3, <2>2, <2>3, <2>4, <2>5 DEF Deliver
<1> QED  BY <1>1, <1>2, <1>3 DEF Next

\* Where a reading that is on its way after a step was before.
LEMMA ReadingCameFrom ==
    ASSUME TypeOK, NEW k \in 1 .. Len(queue'), IsReading(queue'[k])
    PROVE  /\ Len(queue) \in Nat
           /\ Entered => (k \in 1 .. Len(queue) /\ queue'[k] = queue[k]) \/ k = Len(queue) + 1
           /\ Advanced => \/ k + 1 \in 1 .. Len(queue) /\ queue'[k] = queue[k + 1] /\ k < Len(queue)
                          \/ k = Len(queue)
           /\ Passed => \/ k \in 1 .. Len(queue) /\ queue'[k] = queue[k] /\ Extended
                        \/ k + 1 \in 1 .. Len(queue) /\ queue'[k] = queue[k + 1] /\ queue # <<>> /\ ~Extended
<1>1. Len(queue) \in Nat /\ (queue # <<>> => Len(queue) > 0)
  BY Lengths
<1>2. Extended => (k \in 1 .. Len(queue) /\ queue'[k] = queue[k]) \/ k = Len(queue) + 1
  BY <1>1 DEF Extended
<1>3. \A n \in {0, 1, 2} : queue # <<>> /\ Shifted(n) =>
        \/ k + 1 \in 1 .. Len(queue) /\ queue'[k] = queue[k + 1] /\ k < Len(queue)
        \/ n >= 1 /\ k = Len(queue)
        \/ n = 2 /\ k = Len(queue) + 1
  BY <1>1 DEF Shifted
<1>4. \A n \in {0, 1, 2} : queue # <<>> /\ Shifted(n) => ~Extended \/ n = 2
  BY <1>1 DEF Extended, Shifted
<1> QED  BY <1>1, <1>2, <1>3, <1>4 DEF Entered, Advanced, Passed

LEMMA InTurnStep ==
    ASSUME TypeOK, InTurn, Next, ~Restart
    PROVE  InTurn'
<1> DEFINE Older(a, b) == IF Stage(a.to) >= Stage(b.to) THEN a.msg.id < b.msg.id ELSE b.msg.id < a.msg.id
<1> SUFFICES ASSUME NEW j \in 1 .. Len(queue'), NEW k \in 1 .. Len(queue'), j < k,
                    IsReading(queue'[j]), IsReading(queue'[k])
             PROVE  Older(queue'[j], queue'[k])
  BY DEF InTurn
<1>1. \A l, m \in 1 .. Len(queue) : l < m /\ IsReading(queue[l]) /\ IsReading(queue[m]) => Older(queue[l], queue[m])
  BY DEF InTurn
<1>2. \A l \in 1 .. Len(queue) : IsReading(queue[l]) =>
         /\ queue[l].msg.id \in 1 .. Len(received) /\ Len(received) \in Nat /\ Stage(queue[l].to) \in 1 .. 3
  BY ReadingFacts
<1>3. Len(queue) \in Nat
  BY Lengths
<1>4. CASE Passed
  <2>1. \/ j \in 1 .. Len(queue) /\ k \in 1 .. Len(queue) /\ queue'[j] = queue[j] /\ queue'[k] = queue[k]
        \/ /\ j + 1 \in 1 .. Len(queue) /\ k + 1 \in 1 .. Len(queue)
           /\ queue'[j] = queue[j + 1] /\ queue'[k] = queue[k + 1]
    BY <1>4, ReadingCameFrom
  <2> HIDE DEF Older
  <2> QED  BY <1>1, <1>3, <2>1
<1>5. CASE Entered
  <2>1. j \in 1 .. Len(queue) /\ queue'[j] = queue[j]
    BY <1>3, <1>5, ReadingCameFrom DEF Entered, Extended
  <2>2. CASE k \in 1 .. Len(queue) /\ queue'[k] = queue[k]
    BY <1>1, <2>1, <2>2
  <2>3. CASE k = Len(queue) + 1
    BY <1>2, <1>5, <2>1, <2>3 DEF Entered
  <2> QED  BY <1>5, <2>2, <2>3, ReadingCameFrom
<1>6. CASE Advanced
  <2>1. j + 1 \in 1 .. Len(queue) /\ queue'[j] = queue[j + 1] /\ 1 < j + 1
    <3>1. j # Len(queue)
      BY <1>3, <1>6, ReadingCameFrom
    <3> QED  BY <1>3, <1>6, <3>1, ReadingCameFrom
  <2>2. CASE k + 1 \in 1 .. Len(queue) /\ queue'[k] = queue[k + 1]
    <3> HIDE DEF Older
    <3> QED  BY <1>1, <2>1, <2>2
  <2>3. CASE k = Len(queue)
    <3>1. IsReading(queue[1]) /\ 1 \in 1 .. Len(queue)
      BY <1>6, FirstEvent DEF Advanced
    <3>2. Older(queue[1], queue[j + 1])
      BY <1>1, <2>1, <3>1
    <3> QED  BY <1>2, <1>6, <2>1, <2>3, <3>1, <3>2 DEF Advanced
  <2> QED  BY <1>6, <2>2, <2>3, ReadingCameFrom
<1> QED  BY <1>4, <1>5, <1>6, ReadingsMove

\* What a step does to the list on its way.
ListEntered  == /\ Extended /\ IsList(queue'[Len(queue) + 1])
                /\ ~listRead /\ listRead' /\ aggregatorMap' = aggregatorMap
ListAdvanced == /\ queue # <<>> /\ (Shifted(1) \/ (Shifted(2) /\ ~IsList(queue'[Len(queue) + 1])))
                /\ IsList(queue[1]) /\ listRead' = listRead /\ aggregatorMap' = aggregatorMap
ListArrived  == queue # <<>> /\ Shifted(0) /\ IsList(queue[1]) /\ listRead' = listRead /\ aggregatorMap' # <<>>
ListPassed   ==
    /\ \/ Extended /\ ~IsList(queue'[Len(queue) + 1])
       \/ queue # <<>> /\ Shifted(0)
       \/ queue # <<>> /\ Shifted(1) /\ ~IsList(queue'[Len(queue)])
       \/ queue # <<>> /\ Shifted(2) /\ ~IsList(queue'[Len(queue)]) /\ ~IsList(queue'[Len(queue) + 1])
    /\ listRead' = listRead /\ (aggregatorMap' = <<>> <=> aggregatorMap = <<>>)

LEMMA SameEmptiness ==
    ASSUME TypeOK, queue # <<>>, Aggregate
    PROVE  aggregatorMap' = <<>> <=> aggregatorMap = <<>>
<1>1. TypeOK' /\ Len(aggregatorMap') = Len(aggregatorMap)
  BY AggregateStep
<1> QED  BY <1>1, EmptySeq DEF TypeOK

LEMMA ListMoves ==
    ASSUME TypeOK, Next, ~Restart
    PROVE  ListEntered \/ ListAdvanced \/ ListArrived \/ ListPassed
<1>1. ASSUME NEW payload \in Inputs, Receive(payload) PROVE ListPassed
  <2>1. Extended /\ ~IsList(queue'[Len(queue) + 1])
    BY <1>1, ReceiveStep DEF IsList
  <2> QED  BY <1>1, <2>1 DEF ListPassed, Receive
<1>2. ASSUME ReadList PROVE ListEntered
  <2>1. Extended /\ IsList(queue'[Len(queue) + 1])
    BY <1>2, ReadListStep DEF IsList
  <2> QED  BY <1>2, <2>1 DEF ListEntered, ReadList
<1>3. ASSUME TriggerUpdate \/ JoinTimeout PROVE ListPassed
  <2>1. Extended /\ ~IsList(queue'[Len(queue) + 1])
    BY <1>3, TriggerUpdateStep, JoinTimeoutStep DEF IsList
  <2> QED  BY <1>3, <2>1 DEF ListPassed, TriggerUpdate, JoinTimeout
<1>4. CASE Deliver
  <2>1. queue # <<>>
    BY <1>4 DEF Deliver
  <2>2. ASSUME Clean PROVE ListPassed
    <3>1. Shifted(0) \/ (Shifted(1) /\ ~IsList(queue'[Len(queue)]))
      BY <2>1, <2>2, CleanStep DEF IsList
    <3> QED  BY <2>1, <2>2, <3>1 DEF ListPassed, Clean
  <2>3. ASSUME ParseList PROVE ListAdvanced
    <3>1. Shifted(1) /\ IsList(queue[1])
      BY <2>1, <2>3, ParseListStep DEF IsList
    <3> QED  BY <2>1, <2>3, <3>1 DEF ListAdvanced, ParseList
  <2>4. ASSUME Change PROVE ListAdvanced \/ ListPassed
    <3>1. Shifted(2) /\ ~IsList(queue'[Len(queue) + 1]) /\ (IsList(queue[1]) \/ ~IsList(queue'[Len(queue)]))
      BY <2>1, <2>4, ChangeStep DEF IsList
    <3> QED  BY <2>1, <2>4, <3>1 DEF ListAdvanced, ListPassed, Change
  <2>5. ASSUME PublishLevels \/ Enrich PROVE ListPassed
    <3>1. Shifted(0) \/ (Shifted(1) /\ ~IsList(queue'[Len(queue)]))
      BY <2>1, <2>5, PublishLevelsStep, EnrichStep DEF IsList
    <3> QED  BY <2>1, <2>5, <3>1 DEF ListPassed, PublishLevels, Enrich
  <2>6. ASSUME AggregatorSetsMap PROVE ListArrived
    <3>1. Shifted(0) /\ IsList(queue[1]) /\ aggregatorMap' # <<>>
      BY <2>1, <2>6, AggregatorSetsMapStep DEF IsList
    <3> QED  BY <2>1, <2>6, <3>1 DEF ListArrived, AggregatorSetsMap
  <2>7. ASSUME Aggregate PROVE ListPassed
    BY <2>1, <2>7, AggregateStep, SameEmptiness DEF ListPassed, Aggregate
  <2>8. ASSUME EnrichmentSetsMap \/ Join \/ Produce PROVE ListPassed
    <3>1. Shifted(0)
      BY <2>1, <2>8, EnrichmentSetsMapStep, JoinStep, ProduceStep
    <3> QED  BY <2>1, <2>8, <3>1 DEF ListPassed, EnrichmentSetsMap, Join, Produce
  <2> QED  BY <1>4, <2>2, <2>3, <2>4, <2>5, <2>6, <2>7, <2>8 DEF Deliver
<1> QED  BY <1>1, <1>2, <1>3, <1>4 DEF Next

LEMMA ListOnceStep ==
    ASSUME TypeOK, ListOnce, Next, ~Restart
    PROVE  ListOnce'
<1> DEFINE Lists == {k \in 1 .. Len(queue) : IsList(queue[k])}
<1>1. /\ \A j, k \in Lists : j = k
      /\ \A k \in Lists : listRead /\ aggregatorMap = <<>>
      /\ aggregatorMap # <<>> => listRead
  BY DEF ListOnce
<1>2. Len(queue) \in Nat /\ (queue # <<>> => 1 \in 1 .. Len(queue))
  BY Lengths
<1>3. \A k \in 1 .. Len(queue) : IsList(queue[k]) <=> k \in Lists
  OBVIOUS
<1> HIDE DEF Lists
<1>4. CASE ListEntered
  <2>1. \A k \in 1 .. Len(queue') : IsList(queue'[k]) => k = Len(queue) + 1
    BY <1>1, <1>2, <1>3, <1>4 DEF ListEntered, Extended
  <2> QED  BY <1>1, <1>4, <2>1 DEF ListEntered, ListOnce
<1>5. CASE ListAdvanced
  <2>1. 1 \in Lists
    BY <1>2, <1>3, <1>5 DEF ListAdvanced
  <2>2. \A k \in 1 .. Len(queue') : IsList(queue'[k]) => k = Len(queue)
    BY <1>1, <1>2, <1>3, <1>5, <2>1 DEF ListAdvanced, Shifted
  <2> QED  BY <1>1, <1>5, <2>1, <2>2 DEF ListAdvanced, ListOnce
<1>6. CASE ListArrived
  <2>1. 1 \in Lists
    BY <1>2, <1>3, <1>6 DEF ListArrived
  <2>2. \A k \in 1 .. Len(queue') : ~IsList(queue'[k])
    BY <1>1, <1>2, <1>3, <1>6, <2>1 DEF ListArrived, Shifted
  <2> QED  BY <1>1, <1>6, <2>1, <2>2 DEF ListArrived, ListOnce
<1>7. CASE ListPassed
  <2>1. CASE Extended /\ ~IsList(queue'[Len(queue) + 1])
    <3>1. \A k \in 1 .. Len(queue') : IsList(queue'[k]) => k \in Lists
      BY <1>2, <1>3, <2>1 DEF Extended
    <3> QED  BY <1>1, <1>7, <3>1 DEF ListPassed, ListOnce
  <2>2. CASE ~(Extended /\ ~IsList(queue'[Len(queue) + 1]))
    <3>1. \A k \in 1 .. Len(queue') : IsList(queue'[k]) => k + 1 \in Lists
      BY <1>2, <1>3, <1>7, <2>2 DEF ListPassed, Shifted
    <3>2. \A j, k \in 1 .. Len(queue') : IsList(queue'[j]) /\ IsList(queue'[k]) => j = k
      BY <1>1, <3>1
    <3> QED  BY <1>1, <1>7, <3>1, <3>2 DEF ListPassed, ListOnce
  <2> QED  BY <2>1, <2>2
<1> QED  BY <1>4, <1>5, <1>6, <1>7, ListMoves

\* The readings that the levels are made of.
LEMMA AggregatedFacts ==
    ASSUME TypeOK
    PROVE  /\ AggregatedIds \in Seq(1 .. Len(received)) /\ Len(AggregatedIds) \in Nat
           /\ aggregatorMap = <<>> => AggregatedIds = <<>> /\ Len(AggregatedIds) = 0
           /\ aggregatorMap # <<>> =>
                /\ 1 \in 1 .. Len(aggregatorMap) /\ aggregatorMap[1].blended \in Seq(CleanedReadings)
                /\ Len(AggregatedIds) = Len(aggregatorMap[1].blended)
                /\ \A k \in 1 .. Len(AggregatedIds) :
                     AggregatedIds[k] = aggregatorMap[1].blended[k].id /\ AggregatedIds[k] \in 1 .. Len(received)
<1>1. CASE aggregatorMap = <<>>
  BY <1>1, SendsTypes DEF AggregatedIds
<1>2. CASE aggregatorMap # <<>>
  <2>1. 1 \in 1 .. Len(aggregatorMap) /\ aggregatorMap[1] \in Level
    BY <1>2, EmptySeq, LenProperties, ElementOfSeq DEF TypeOK
  <2> DEFINE blended == aggregatorMap[1].blended
  <2>2. blended \in Seq(CleanedReadings)
    BY <2>1 DEF Level
  <2>3. Len(blended) \in Nat /\ \A k \in 1 .. Len(blended) : blended[k] \in CleanedReadings
    BY <2>2, LenProperties, ElementOfSeq
  <2>4. \A k \in 1 .. Len(blended) : blended[k].id \in 1 .. Len(received)
    BY <2>3 DEF CleanedReadings
  <2>5. AggregatedIds = [k \in 1 .. Len(blended) |-> blended[k].id]
    BY <1>2 DEF AggregatedIds, Ids
  <2> HIDE DEF blended
  <2>6. /\ AggregatedIds \in Seq(1 .. Len(received)) /\ Len(AggregatedIds) = Len(blended)
        /\ \A k \in 1 .. Len(blended) : AggregatedIds[k] = blended[k].id
    BY <2>3, <2>4, <2>5
  <2> QED  BY <1>2, <2>1, <2>2, <2>3, <2>4, <2>6 DEF blended
<1> QED  BY <1>1, <1>2

IdsOfFirst ==
    aggregatorMap # <<>> =>
        /\ Len(AggregatedIds) = Len(aggregatorMap[1].blended)
        /\ \A k \in 1 .. Len(AggregatedIds) : AggregatedIds[k] = aggregatorMap[1].blended[k].id

LEMMA IdsAreOfFirst == TypeOK => IdsOfFirst
  BY AggregatedFacts DEF IdsOfFirst

Blends ==
    /\ queue # <<>> /\ Shifted(0) /\ IsReading(queue[1]) /\ Stage(queue[1].to) = 3 /\ aggregatorMap # <<>>
    /\ Len(AggregatedIds') = Len(AggregatedIds) + 1
    /\ \A k \in 1 .. Len(AggregatedIds) : AggregatedIds'[k] = AggregatedIds[k]
    /\ AggregatedIds'[Len(AggregatedIds) + 1] = queue[1].msg.id

LEMMA AggregateBlends ==
    ASSUME TypeOK, queue # <<>>, Aggregate, aggregatorMap # <<>>
    PROVE  Blends
<1>1. /\ TypeOK' /\ queue[1].to = "POI_Aggregator" /\ queue[1].msg.kind = "sensor-data" /\ Shifted(0)
      /\ aggregatorMap' # <<>>
  BY AggregateStep, SameEmptiness
<1>2. IsReading(queue[1]) /\ Stage(queue[1].to) = 3
  BY <1>1 DEF IsReading, Stage
<1> DEFINE old == aggregatorMap[1].blended
           new == aggregatorMap'[1].blended
<1>3. /\ Len(new) = Len(old) + 1 /\ \A k \in 1 .. Len(old) : new[k] = old[k]
      /\ new[Len(old) + 1].id = queue[1].msg.id
  BY AggregateStep, AggregatedFacts
<1>4. /\ Len(AggregatedIds) = Len(old) /\ Len(AggregatedIds) \in Nat
      /\ \A k \in 1 .. Len(AggregatedIds) : AggregatedIds[k] = old[k].id
  BY AggregatedFacts
<1>5. Len(AggregatedIds') = Len(new) /\ \A k \in 1 .. Len(AggregatedIds') : AggregatedIds'[k] = new[k].id
  <2>1. TypeOK' => IdsOfFirst'
    BY IdsAreOfFirst, PTL
  <2> QED  BY <1>1, <2>1 DEF IdsOfFirst
<1> HIDE DEF old, new
<1>6. /\ Len(AggregatedIds') = Len(AggregatedIds) + 1
      /\ \A k \in 1 .. Len(AggregatedIds) : AggregatedIds'[k] = AggregatedIds[k]
      /\ AggregatedIds'[Len(AggregatedIds) + 1] = queue[1].msg.id
  BY <1>3, <1>4, <1>5
<1> QED  BY <1>1, <1>2, <1>6 DEF Blends

LEMMA MapChanges ==
    ASSUME Next, ~Restart, aggregatorMap' # aggregatorMap
    PROVE  queue # <<>> /\ (Aggregate \/ AggregatorSetsMap)
<1>1. \A payload \in Inputs : ~Receive(payload)
  BY DEF Receive
<1>2. ~ReadList /\ ~TriggerUpdate /\ ~JoinTimeout
  BY DEF ReadList, TriggerUpdate, JoinTimeout
<1>3. ~Clean /\ ~ParseList /\ ~Change /\ ~PublishLevels
  BY DEF Clean, ParseList, Change, PublishLevels
<1>4. ~Enrich /\ ~EnrichmentSetsMap /\ ~Join /\ ~Produce
  BY DEF Enrich, EnrichmentSetsMap, Join, Produce
<1> QED  BY <1>1, <1>2, <1>3, <1>4 DEF Next, Deliver

\* A step that does not blend a reading leaves what has been blended.
LEMMA LevelsMove ==
    ASSUME TypeOK, ListOnce, Next, ~Restart
    PROVE  \/ Blends
           \/ /\ AggregatedIds' = AggregatedIds
              /\ queue # <<>> /\ Aggregate => aggregatorMap = <<>> /\ AggregatedIds = <<>>
<1>1. ASSUME aggregatorMap' = aggregatorMap PROVE AggregatedIds' = AggregatedIds
  BY <1>1 DEF AggregatedIds, Ids
<1>2. ASSUME queue # <<>>, Aggregate PROVE Blends \/ (aggregatorMap = <<>> /\ AggregatedIds = <<>> /\ AggregatedIds' = <<>>)
  <2>1. CASE aggregatorMap = <<>>
    BY <1>2, <2>1, SameEmptiness DEF AggregatedIds
  <2> QED  BY <1>2, <2>1, AggregateBlends
<1>3. ASSUME queue # <<>>, AggregatorSetsMap PROVE AggregatedIds' = AggregatedIds
  <2>1. /\ TypeOK' /\ IsList(queue[1]) /\ aggregatorMap' # <<>> /\ aggregatorMap'[1].blended = <<>>
    <3>1. /\ TypeOK' /\ IsList(queue[1]) /\ aggregatorMap' # <<>>
          /\ \A i \in 1 .. Len(aggregatorMap') : aggregatorMap'[i].blended = <<>>
      BY <1>3, AggregatorSetsMapStep DEF IsList
    <3>2. 1 \in 1 .. Len(aggregatorMap')
      BY <3>1, EmptySeq, LenProperties DEF TypeOK
    <3> QED  BY <3>1, <3>2
  <2>2. AggregatedIds = <<>>
    <3>1. 1 \in 1 .. Len(queue)
      BY <1>3, FirstEvent
    <3> QED  BY <2>1, <3>1 DEF ListOnce, AggregatedIds
  <2>3. AggregatedIds' = <<>>
    BY <2>1 DEF AggregatedIds, Ids
  <2> QED  BY <2>2, <2>3
<1>4. CASE aggregatorMap' = aggregatorMap
  BY <1>1, <1>2, <1>4
<1>5. CASE aggregatorMap' # aggregatorMap
  <2>1. queue # <<>> /\ (Aggregate \/ AggregatorSetsMap)
    BY <1>5, MapChanges
  <2>2. CASE Aggregate
    BY <1>2, <2>1, <2>2
  <2>3. CASE AggregatorSetsMap /\ ~Aggregate
    BY <1>3, <2>1, <2>3
  <2> QED  BY <2>1, <2>2, <2>3
<1> QED  BY <1>4, <1>5

LEMMA EqualLevels ==
    ASSUME TypeOK, Next, ~Restart,
           \A i \in 1 .. Len(aggregatorMap) : aggregatorMap[i].blended = aggregatorMap[1].blended
    PROVE  \A i \in 1 .. Len(aggregatorMap') : aggregatorMap'[i].blended = aggregatorMap'[1].blended
<1>1. ASSUME queue # <<>>, Aggregate, NEW i \in 1 .. Len(aggregatorMap')
      PROVE  aggregatorMap'[i].blended = aggregatorMap'[1].blended
  <2> DEFINE new == [id |-> queue[1].msg.id, payload |-> queue[1].msg.payload]
  <2>1. /\ Len(aggregatorMap') = Len(aggregatorMap)
        /\ \A j \in 1 .. Len(aggregatorMap) : aggregatorMap'[j].blended = Append(aggregatorMap[j].blended, new)
    BY <1>1, AggregateStep
  <2>2. 1 \in 1 .. Len(aggregatorMap) /\ i \in 1 .. Len(aggregatorMap)
    BY <1>1, <2>1, LenProperties DEF TypeOK
  <2> HIDE DEF new
  <2> QED  BY <2>1, <2>2
<1>2. ASSUME queue # <<>>, AggregatorSetsMap, NEW i \in 1 .. Len(aggregatorMap')
      PROVE  aggregatorMap'[i].blended = aggregatorMap'[1].blended
  <2>1. TypeOK' /\ \A j \in 1 .. Len(aggregatorMap') : aggregatorMap'[j].blended = <<>>
    BY <1>2, AggregatorSetsMapStep
  <2>2. 1 \in 1 .. Len(aggregatorMap')
    BY <1>2, <2>1, LenProperties DEF TypeOK
  <2> QED  BY <2>1, <2>2
<1>3. CASE aggregatorMap' = aggregatorMap
  BY <1>3
<1>4. CASE aggregatorMap' # aggregatorMap
  BY <1>1, <1>2, <1>4, MapChanges
<1> QED  BY <1>3, <1>4

\* A reading on its way was on its way, or is the latest.
LEMMA OldOrLatest ==
    ASSUME TypeOK, Next, ~Restart, NEW k \in 1 .. Len(queue'), IsReading(queue'[k])
    PROVE  \/ \E j \in 1 .. Len(queue) : IsReading(queue[j]) /\ queue'[k].msg.id = queue[j].msg.id
           \/ queue'[k].msg.id = Len(received) + 1
<1>1. \/ \E j \in 1 .. Len(queue) : queue'[k] = queue[j]
      \/ Entered /\ k = Len(queue) + 1
      \/ Advanced /\ k = Len(queue)
  BY ReadingsMove, ReadingCameFrom
<1>2. Advanced => 1 \in 1 .. Len(queue)
  BY Lengths DEF Advanced
<1> QED  BY <1>1, <1>2 DEF Entered, Advanced

\* The reading that is blended is older than those that stay on their way.
LEMMA BlendedIsFirst ==
    ASSUME TypeOK, InTurn, queue # <<>>, Shifted(0), IsReading(queue[1]), Stage(queue[1].to) = 3,
           NEW k \in 1 .. Len(queue'), IsReading(queue'[k])
    PROVE  queue[1].msg.id < queue'[k].msg.id
<1>1. k + 1 \in 1 .. Len(queue) /\ 1 < k + 1 /\ 1 \in 1 .. Len(queue) /\ queue'[k] = queue[k + 1]
  BY Lengths DEF Shifted
<1>2. Stage(queue[k + 1].to) \in 1 .. 3
  BY <1>1, ReadingFacts
<1> QED  BY <1>1, <1>2 DEF InTurn

LEMMA BlendedInTurnStep ==
    ASSUME TypeOK, ListOnce, InTurn, BlendedInTurn, Next, ~Restart
    PROVE  BlendedInTurn'
<1>1. \A i \in 1 .. Len(aggregatorMap') : aggregatorMap'[i].blended = aggregatorMap'[1].blended
  BY EqualLevels DEF BlendedInTurn
<1>2. /\ Len(AggregatedIds) \in Nat /\ Len(received) \in Nat
      /\ \A k \in 1 .. Len(AggregatedIds) : AggregatedIds[k] \in 1 .. Len(received)
  BY AggregatedFacts, ElementOfSeq, LenProperties DEF TypeOK
<1>3. \A j, k \in 1 .. Len(AggregatedIds) : j < k => AggregatedIds[j] < AggregatedIds[k]
  BY DEF BlendedInTurn
<1>4. \A j \in 1 .. Len(AggregatedIds), k \in 1 .. Len(queue) : IsReading(queue[k]) => AggregatedIds[j] < queue[k].msg.id
  BY DEF BlendedInTurn
<1>5. CASE Blends
  <2>1. 1 \in 1 .. Len(queue) /\ IsReading(queue[1]) /\ queue[1].msg.id \in 1 .. Len(received)
    BY <1>5, Lengths, ReadingFacts DEF Blends
  <2>2. \A j, k \in 1 .. Len(AggregatedIds') : j < k => AggregatedIds'[j] < AggregatedIds'[k]
    BY <1>2, <1>3, <1>4, <1>5, <2>1 DEF Blends
  <2>3. ASSUME NEW j \in 1 .. Len(AggregatedIds'), NEW k \in 1 .. Len(queue'), IsReading(queue'[k])
        PROVE  AggregatedIds'[j] < queue'[k].msg.id
    <3>1. queue[1].msg.id < queue'[k].msg.id
      BY <1>5, <2>3, BlendedIsFirst DEF Blends
    <3>2. k + 1 \in 1 .. Len(queue) /\ queue'[k] = queue[k + 1]
      BY <1>5, Lengths DEF Blends, Shifted
    <3>3. CASE j \in 1 .. Len(AggregatedIds)
      BY <1>4, <1>5, <2>3, <3>2, <3>3 DEF Blends
    <3>4. CASE j = Len(AggregatedIds) + 1
      BY <1>5, <3>1, <3>4 DEF Blends
    <3> QED  BY <1>2, <1>5, <3>3, <3>4 DEF Blends
  <2> QED  BY <1>1, <2>2, <2>3 DEF BlendedInTurn
<1>6. CASE AggregatedIds' = AggregatedIds
  <2>1. ASSUME NEW j \in 1 .. Len(AggregatedIds'), NEW k \in 1 .. Len(queue'), IsReading(queue'[k])
        PROVE  AggregatedIds'[j] < queue'[k].msg.id
    BY <1>2, <1>4, <1>6, <2>1, OldOrLatest
  <2> QED  BY <1>1, <1>3, <1>6, <2>1 DEF BlendedInTurn
<1> QED  BY <1>5, <1>6, LevelsMove

-----------------------------------------------------------------------------
(* What was received *)

LEMMA OldReadings ==
    ASSUME TypeOK, Next, ~Restart
    PROVE  /\ \/ received' = received
              \/ Len(received') = Len(received) + 1 /\ Entered
           /\ Len(received) \in Nat /\ \A id \in 1 .. Len(received) : received'[id] = received[id]
<1>1. Len(received) \in Nat
  BY LenProperties DEF TypeOK
<1>2. ASSUME NEW payload \in Inputs, Receive(payload)
      PROVE  /\ Len(received') = Len(received) + 1 /\ Entered
             /\ \A id \in 1 .. Len(received) : received'[id] = received[id]
  BY <1>2, ReceiveStep DEF Entered, IsReading, Stage
<1>3. CASE received' = received
  BY <1>1, <1>3
<1>4. CASE received' # received
  <2>1. ~ReadList /\ ~TriggerUpdate /\ ~JoinTimeout
    BY <1>4 DEF ReadList, TriggerUpdate, JoinTimeout
  <2>2. ~Clean /\ ~ParseList /\ ~Change /\ ~PublishLevels /\ ~Aggregate /\ ~AggregatorSetsMap
    BY <1>4 DEF Clean, ParseList, Change, PublishLevels, Aggregate, AggregatorSetsMap
  <2>3. ~Enrich /\ ~EnrichmentSetsMap /\ ~Join /\ ~Produce
    BY <1>4 DEF Enrich, EnrichmentSetsMap, Join, Produce
  <2>4. \E payload \in Inputs : Receive(payload)
    BY <2>1, <2>2, <2>3 DEF Next, Deliver
  <2> QED  BY <1>1, <1>2, <2>4
<1> QED  BY <1>3, <1>4

\* A reading that a node takes and does not pass on.
LEMMA FirstIsReading ==
    ASSUME TypeOK, Next, ~Restart, queue # <<>>, IsReading(queue[1]), ~Extended, ~Advanced
    PROVE  Aggregate \/ (Clean /\ ~Usable(queue[1].msg.payload))
<1>1. Deliver
  <2>1. \A payload \in Inputs : ~Receive(payload)
    BY ReceiveStep
  <2> QED  BY <2>1, ReadListStep, TriggerUpdateStep, JoinTimeoutStep DEF Next
<1>2. queue[1].to \in {"Data_cleaning", "change", "POI_Aggregator"} /\ (queue[1].to # "Data_cleaning" => queue[1].msg.kind = "sensor-data")
  BY DEF IsReading
<1>3. ~ParseList /\ ~PublishLevels /\ ~AggregatorSetsMap
  BY <1>2, ParseListStep, PublishLevelsStep, AggregatorSetsMapStep
<1>4. ~Enrich /\ ~EnrichmentSetsMap /\ ~Join /\ ~Produce
  BY <1>2, EnrichStep, EnrichmentSetsMapStep, JoinStep, ProduceStep
<1>5. ~Change
  <2> SUFFICES ASSUME Change PROVE Advanced
    OBVIOUS
  <2>1. /\ queue[1].to = "change" /\ Shifted(2) /\ queue'[Len(queue)].to = "POI_Aggregator"
        /\ queue'[Len(queue)].msg = queue[1].msg /\ queue'[Len(queue) + 1].to = "Enrichment"
    BY ChangeStep
  <2>2. IsReading(queue'[Len(queue)]) /\ ~IsReading(queue'[Len(queue) + 1])
    BY <1>2, <2>1 DEF IsReading
  <2>3. Stage(queue'[Len(queue)].to) = Stage(queue[1].to) + 1
    BY <2>1 DEF Stage
  <2> QED  BY <2>1, <2>2, <2>3 DEF Advanced
<1>6. Clean => ~Usable(queue[1].msg.payload)
  <2> SUFFICES ASSUME Clean, Usable(queue[1].msg.payload) PROVE Advanced
    OBVIOUS
  <2>1. /\ queue[1].to = "Data_cleaning" /\ Shifted(1) /\ queue'[Len(queue)].to = "change"
        /\ queue'[Len(queue)].msg.kind = "sensor-data" /\ queue'[Len(queue)].msg.id = queue[1].msg.id
    BY CleanStep
  <2>2. IsReading(queue'[Len(queue)])
    BY <2>1 DEF IsReading
  <2>3. Stage(queue'[Len(queue)].to) = Stage(queue[1].to) + 1
    BY <2>1 DEF Stage
  <2> QED  BY <2>1, <2>2, <2>3 DEF Advanced
<1> QED  BY <1>1, <1>3, <1>4, <1>5, <1>6 DEF Deliver

LEMMA NoneMissedStep ==
    ASSUME TypeOK, ListOnce, Faithful, InTurn, BlendedInTurn, NoneMissed, Next, ~Restart
    PROVE  NoneMissed'
<1> SUFFICES ASSUME NEW id \in 1 .. Len(received'), Usable(received'[id])
             PROVE  \/ OnItsWay(id)' \/ IsAggregated(id)'
                    \/ /\ \A k \in 1 .. Len(AggregatedIds') : id < AggregatedIds'[k]
                       /\ \A k \in 1 .. Len(queue') : IsReading(queue'[k]) => id < queue'[k].msg.id
  BY DEF NoneMissed
<1> DEFINE Older == /\ \A k \in 1 .. Len(AggregatedIds) : id < AggregatedIds[k]
                    /\ \A k \in 1 .. Len(queue) : IsReading(queue[k]) => id < queue[k].msg.id
<1>1. Len(queue) \in Nat /\ (queue # <<>> => 1 \in 1 .. Len(queue)) /\ Len(AggregatedIds) \in Nat
  BY Lengths, AggregatedFacts
<1>2. CASE id = Len(received) + 1
  <2>1. Entered
    BY <1>2, OldReadings
  <2> QED  BY <1>1, <1>2, <2>1 DEF Entered, Extended, OnItsWay
<1>3. CASE id \in 1 .. Len(received)
  <2>1. Usable(received[id])
    BY <1>3, OldReadings
  <2>2. CASE IsAggregated(id)
    <3>1. IsAggregated(id)'
      BY <1>1, <2>2, LevelsMove DEF IsAggregated, Blends
    <3> QED  BY <3>1
  <2>3. CASE OnItsWay(id)
    <3>1. PICK k \in 1 .. Len(queue) : IsReading(queue[k]) /\ queue[k].msg.id = id
      BY <2>3 DEF OnItsWay
    <3>2. CASE Extended
      <4>1. k \in 1 .. Len(queue') /\ queue'[k] = queue[k]
        BY <1>1, <3>2 DEF Extended
      <4> QED  BY <3>1, <4>1 DEF OnItsWay
    <3>3. CASE queue # <<>> /\ (Shifted(0) \/ Shifted(1) \/ Shifted(2)) /\ k > 1
      <4>1. k - 1 \in 1 .. Len(queue') /\ queue'[k - 1] = queue[k]
        <5>1. k - 1 \in 1 .. Len(queue) - 1 /\ k - 1 + 1 = k
          BY <1>1, <3>3
        <5> QED  BY <1>1, <3>3, <5>1 DEF Shifted
      <4> QED  BY <3>1, <4>1 DEF OnItsWay
    <3>4. CASE Advanced /\ k = 1
      <4>1. Len(queue) \in 1 .. Len(queue')
        BY <1>1, <3>4 DEF Advanced, Shifted
      <4> QED  BY <3>1, <3>4, <4>1 DEF Advanced, OnItsWay
    <3>5. CASE Blends /\ k = 1
      <4>1. Len(AggregatedIds) + 1 \in 1 .. Len(AggregatedIds')
        BY <1>1, <3>5 DEF Blends
      <4>2. IsAggregated(id)'
        BY <3>1, <3>5, <4>1 DEF Blends, IsAggregated
      <4> QED  BY <4>2
    <3>6. CASE ~Extended /\ k = 1 /\ ~Advanced /\ ~Blends
      <4>1. queue # <<>> /\ Aggregate /\ AggregatedIds = <<>> /\ AggregatedIds' = <<>>
        <5>1. queue # <<>> /\ (Aggregate \/ (Clean /\ ~Usable(queue[1].msg.payload)))
          BY <3>1, <3>6, FirstIsReading
        <5>2. ASSUME Clean, ~Usable(queue[1].msg.payload) PROVE FALSE
          <6>1. queue[1].msg.payload = received[id]
            BY <3>1, <3>6, <5>1, <5>2, CleanStep DEF Faithful, Intact
          <6> QED  BY <2>1, <5>2, <6>1
        <5> QED  BY <3>6, <5>1, <5>2, LevelsMove
      <4>2. Shifted(0) /\ Stage(queue[1].to) = 3
        BY <4>1, AggregateStep DEF Stage
      <4>3. \A j \in 1 .. Len(queue') : IsReading(queue'[j]) => id < queue'[j].msg.id
        BY <3>1, <3>6, <4>1, <4>2, BlendedIsFirst
      <4>4. Len(AggregatedIds') = 0
        BY <4>1, SendsTypes
      <4> QED  BY <4>3, <4>4
    <3>7. Extended \/ (queue # <<>> /\ (Shifted(0) \/ Shifted(1) \/ Shifted(2)))
      BY ReadingsMove DEF Entered, Advanced, Passed
    <3> QED  BY <3>2, <3>3, <3>4, <3>5, <3>6, <3>7
  <2>4. CASE Older
    <3>1. \A k \in 1 .. Len(queue') : IsReading(queue'[k]) => id < queue'[k].msg.id
      <4>1. Len(received) \in Nat /\ id < Len(received) + 1
        BY <1>3, OldReadings
      <4> QED  BY <2>4, <4>1, OldOrLatest
    <3>2. \A k \in 1 .. Len(AggregatedIds') : id < AggregatedIds'[k]
      <4>1. CASE Blends
        <5>1. IsReading(queue[1]) /\ id < queue[1].msg.id
          BY <1>1, <2>4, <4>1 DEF Blends
        <5> QED  BY <1>1, <2>4, <4>1, <5>1 DEF Blends
      <4>2. CASE AggregatedIds' = AggregatedIds
        BY <2>4, <4>2
      <4> QED  BY <4>1, <4>2, LevelsMove
    <3> QED  BY <3>1, <3>2
  <2> QED  BY <1>3, <2>1, <2>2, <2>3, <2>4 DEF NoneMissed
<1> QED  BY <1>2, <1>3, OldReadings

\* Readings that are there keep what they are when others arrive.
LEMMA OldIntact ==
    ASSUME TypeOK, Next, ~Restart
    PROVE  /\ \A k \in 1 .. Len(queue) : Intact(queue[k], received) => Intact(queue[k], received')
           /\ \A r \in CleanedReadings : Made(r, received) => Made(r, received')
<1>1. \A id \in 1 .. Len(received) : received'[id] = received[id]
  BY OldReadings
<1>2. \A r : r.id \in 1 .. Len(received) /\ Made(r, received) => Made(r, received')
  BY <1>1 DEF Made
<1>3. \A r \in CleanedReadings : r.id \in 1 .. Len(received)
  BY DEF CleanedReadings
<1>4. ASSUME NEW k \in 1 .. Len(queue), Intact(queue[k], received) PROVE Intact(queue[k], received')
  <2>1. queue[k] \in Events
    BY ElementOfSeq DEF TypeOK
  <2>2. CASE queue[k].to = "Data_cleaning"
    BY <1>1, <1>4, <2>1, <2>2, Shapes DEF Intact
  <2>3. CASE queue[k].to \in {"change", "POI_Aggregator"} /\ queue[k].msg.kind = "sensor-data"
    <3>1. queue[k].msg.id \in 1 .. Len(received) /\ Made(queue[k].msg, received)
      BY <1>4, <2>1, <2>3, Shapes DEF Intact
    <3> QED  BY <1>2, <2>3, <3>1 DEF Intact
  <2> QED  BY <2>2, <2>3 DEF Intact
<1> QED  BY <1>2, <1>3, <1>4

\* A message that a step adds.
LEMMA NewIntact ==
    ASSUME TypeOK, Faithful, Next, ~Restart,
           NEW k \in 1 .. Len(queue'), \A j \in 1 .. Len(queue) : queue'[k] # queue[j]
    PROVE  Intact(queue'[k], received')
<1>1. Len(queue) \in Nat /\ (queue # <<>> => 1 \in 1 .. Len(queue))
  BY Lengths
<1>2. Extended => k = Len(queue) + 1
  BY <1>1 DEF Extended
<1>3. \A n \in {0, 1, 2} : queue # <<>> /\ Shifted(n) => (n >= 1 /\ k = Len(queue)) \/ (n = 2 /\ k = Len(queue) + 1)
  BY <1>1, Lengths
<1>4. ASSUME NEW payload \in Inputs, Receive(payload) PROVE Intact(queue'[k], received')
  <2>1. k = Len(queue) + 1
    BY <1>2, <1>4, ReceiveStep
  <2>2. /\ queue'[k].to = "Data_cleaning" /\ queue'[k].msg.id = Len(received')
        /\ queue'[k].msg.payload = received'[Len(received')]
    BY <1>4, <2>1, ReceiveStep
  <2> QED  BY <2>2 DEF Intact
<1>5. ASSUME ReadList \/ TriggerUpdate \/ JoinTimeout PROVE Intact(queue'[k], received')
  <2>1. k = Len(queue) + 1
    BY <1>2, <1>5, ReadListStep, TriggerUpdateStep, JoinTimeoutStep
  <2>2. queue'[k].to \in {"Points_of_interest", "Kafka_producer"} \/ (queue'[k].to = "POI_Aggregator" /\ queue'[k].msg.kind = "update")
    BY <1>5, <2>1, ReadListStep, TriggerUpdateStep, JoinTimeoutStep
  <2> QED  BY <2>2 DEF Intact
<1>6. CASE Deliver
  <2>1. queue # <<>> /\ Intact(queue[1], received) /\ Intact(queue[1], received')
    BY <1>1, <1>6, OldIntact DEF Deliver, Faithful
  <2>2. ASSUME Clean PROVE Intact(queue'[k], received')
    <3>1. /\ queue[1].to = "Data_cleaning" /\ Usable(queue[1].msg.payload) /\ k = Len(queue)
          /\ queue'[Len(queue)].to = "change" /\ queue'[Len(queue)].msg.id = queue[1].msg.id
          /\ queue'[Len(queue)].msg.payload = Cleaned(queue[1].msg.payload)
      BY <1>3, <2>1, <2>2, CleanStep
    <3>2. queue[1].msg.payload = received'[queue[1].msg.id]
      BY <2>1, <3>1 DEF Intact
    <3>3. Made(queue'[k].msg, received')
      BY <3>1, <3>2 DEF Made
    <3> QED  BY <3>1, <3>3 DEF Intact
  <2>3. ASSUME Change PROVE Intact(queue'[k], received')
    <3>1. /\ queue[1].to = "change" /\ k \in {Len(queue), Len(queue) + 1}
          /\ queue'[k].msg = queue[1].msg /\ queue'[k].to \in {"POI_Aggregator", "Enrichment"}
      BY <1>3, <2>1, <2>3, ChangeStep
    <3> QED  BY <2>1, <3>1 DEF Intact
  <2>4. ASSUME ParseList \/ PublishLevels \/ Enrich PROVE Intact(queue'[k], received')
    <3>1. queue'[k].to \in {"Kafka_producer", "join"} \/ (queue'[k].to = "change" /\ queue'[k].msg.kind = "poi")
      BY <1>3, <2>1, <2>4, ParseListStep, PublishLevelsStep, EnrichStep
    <3> QED  BY <3>1 DEF Intact
  <2>5. ~(Aggregate \/ AggregatorSetsMap \/ EnrichmentSetsMap \/ Join \/ Produce)
    BY <1>3, <2>1, AggregateStep, AggregatorSetsMapStep, EnrichmentSetsMapStep, JoinStep, ProduceStep
  <2> QED  BY <1>6, <2>2, <2>3, <2>4, <2>5 DEF Deliver
<1> QED  BY <1>4, <1>5, <1>6 DEF Next

\* A reading that a step blends.
LEMMA BlendedIntact ==
    ASSUME TypeOK, Faithful, Next, ~Restart,
           NEW i \in 1 .. Len(aggregatorMap'), NEW k \in 1 .. Len(aggregatorMap'[i].blended)
    PROVE  Made(aggregatorMap'[i].blended[k], received')
<1>1. \A j \in 1 .. Len(aggregatorMap) : \A l \in 1 .. Len(aggregatorMap[j].blended) :
         Made(aggregatorMap[j].blended[l], received')
  <2> SUFFICES ASSUME NEW j \in 1 .. Len(aggregatorMap), NEW l \in 1 .. Len(aggregatorMap[j].blended)
               PROVE  Made(aggregatorMap[j].blended[l], received')
    OBVIOUS
  <2>1. aggregatorMap[j] \in Level
    BY ElementOfSeq DEF TypeOK
  <2>2. aggregatorMap[j].blended \in Seq(CleanedReadings)
    BY <2>1 DEF Level
  <2>3. aggregatorMap[j].blended[l] \in CleanedReadings
    BY <2>2, ElementOfSeq
  <2>4. Made(aggregatorMap[j].blended[l], received)
    BY DEF Faithful
  <2> QED  BY <2>3, <2>4, OldIntact
<1>2. CASE aggregatorMap' = aggregatorMap
  BY <1>1, <1>2
<1>3. CASE queue # <<>> /\ Aggregate
  <2> DEFINE blended == aggregatorMap[i].blended
             new     == [id |-> queue[1].msg.id, payload |-> queue[1].msg.payload]
  <2>1. /\ i \in 1 .. Len(aggregatorMap) /\ Len(aggregatorMap'[i].blended) = Len(blended) + 1
        /\ \A l \in 1 .. Len(blended) : aggregatorMap'[i].blended[l] = blended[l]
        /\ aggregatorMap'[i].blended[Len(blended) + 1] = new
    BY <1>3, AggregateStep
  <2>2. Made(new, received')
    <3>1. /\ 1 \in 1 .. Len(queue) /\ queue[1].to = "POI_Aggregator" /\ queue[1].msg.kind = "sensor-data"
          /\ Intact(queue[1], received')
      BY <1>3, AggregateStep, FirstEvent, OldIntact DEF Faithful
    <3>2. new.id = queue[1].msg.id /\ new.payload = queue[1].msg.payload
      OBVIOUS
    <3> QED  BY <3>1, <3>2 DEF Intact, Made
  <2>3. Len(blended) \in Nat
    <3>1. aggregatorMap[i] \in Level
      BY <2>1, ElementOfSeq DEF TypeOK
    <3> QED  BY <3>1, LenProperties DEF Level
  <2>4. CASE k \in 1 .. Len(blended)
    BY <1>1, <2>1, <2>4
  <2>5. CASE k = Len(blended) + 1
    BY <2>1, <2>2, <2>5
  <2> HIDE DEF blended, new
  <2> QED  BY <2>1, <2>3, <2>4, <2>5
<1>4. CASE queue # <<>> /\ AggregatorSetsMap
  BY <1>4, AggregatorSetsMapStep, SendsTypes
<1> QED  BY <1>2, <1>3, <1>4, MapChanges

LEMMA FaithfulStep ==
    ASSUME TypeOK, Faithful, Next, ~Restart
    PROVE  Faithful'
<1>1. ASSUME NEW k \in 1 .. Len(queue') PROVE Intact(queue'[k], received')
  BY NewIntact, OldIntact DEF Faithful
<1> QED  BY <1>1, BlendedIntact DEF Faithful

-----------------------------------------------------------------------------
(* Between "POI Aggregator" and "Enrichment" *)

LEMMA BetweenComes ==
    ASSUME TypeOK, Paired, Next, ~Restart, NEW kind, Between(kind)'
    PROVE  \/ Extended /\ Between(kind) /\ queue'[1] = queue[1]
           \/ /\ queue # <<>> /\ (Aggregate \/ AggregatorSetsMap) /\ Shifted(0)
              /\ queue[1].to = "POI_Aggregator" /\ queue[1].msg.kind = kind /\ queue'[1].msg = queue[1].msg
<1>1. Len(queue) \in Nat /\ (queue # <<>> => Len(queue) > 0) /\ (Len(queue) > 0 => queue # <<>>)
  BY Lengths, SendsTypes
<1>2. TypeOK' /\ Len(queue') > 0 /\ queue'[1].to = "Enrichment" /\ queue'[1].msg.kind = kind
  <2>1. TypeOK' /\ queue' # <<>> /\ queue'[1].to = "Enrichment" /\ queue'[1].msg.kind = kind
    BY NextTypes DEF Between
  <2> QED  BY <2>1, EmptySeq, LenProperties DEF TypeOK
<1>3. ASSUME queue # <<>>, Len(queue) > 1, queue'[1] = queue[2]
      PROVE  queue[1].to = "POI_Aggregator" /\ queue[1].msg = queue'[1].msg /\ queue[1].msg.kind \in {"sensor-data", "poi"}
  <2>1. 2 \in 1 .. Len(queue) /\ 2 > 1 /\ 2 - 1 = 1 /\ queue[2] \in Events
    BY <1>1, <1>3, ElementOfSeq DEF TypeOK
  <2>2. queue[2].to = "Enrichment" /\ queue[2].msg.kind \in {"sensor-data", "poi"}
    BY <1>2, <1>3, <2>1, Shapes
  <2>3. \A k \in 1 .. Len(queue) : k > 1 /\ queue[k].to = "Enrichment" =>
          queue[k - 1].to = "POI_Aggregator" /\ queue[k - 1].msg = queue[k].msg
    BY DEF Paired
  <2>4. queue[1].to = "POI_Aggregator" /\ queue[1].msg = queue[2].msg
    BY <2>1, <2>2, <2>3
  <2> QED  BY <1>3, <2>2, <2>4
<1>4. CASE Extended /\ Alone(queue'[Len(queue) + 1])
  <2>1. Len(queue) > 0
    BY <1>1, <1>2, <1>4 DEF Alone
  <2>2. queue'[1] = queue[1]
    BY <1>1, <1>4, <2>1 DEF Extended
  <2> QED  BY <1>1, <1>2, <1>4, <2>1, <2>2 DEF Between
<1>5. CASE queue # <<>> /\ ~Extended
  <2>1. Len(queue) > 1 /\ queue'[1] = queue[2]
    <3>1. CASE Shifted(0)
      BY <1>1, <1>2, <3>1 DEF Shifted
    <3>2. CASE Shifted(1) /\ Alone(queue'[Len(queue)])
      <4>1. Len(queue) > 1
        BY <1>1, <1>2, <1>5, <3>2 DEF Alone
      <4> QED  BY <1>1, <3>2, <4>1 DEF Shifted
    <3>3. CASE Change
      <4>1. Shifted(2) /\ queue'[Len(queue)].to = "POI_Aggregator"
        BY <1>5, <3>3, ChangeStep
      <4>2. Len(queue) > 1
        BY <1>1, <1>2, <1>5, <4>1
      <4> QED  BY <1>1, <4>1, <4>2 DEF Shifted
    <3> QED  BY <1>5, <3>1, <3>2, <3>3, QueueMoves
  <2>2. queue[1].to = "POI_Aggregator" /\ queue[1].msg = queue'[1].msg /\ queue[1].msg.kind \in {"sensor-data", "poi"}
    BY <1>3, <1>5, <2>1
  <2>3. Deliver
    <3>1. \A payload \in Inputs : ~Receive(payload)
      BY <1>5, ReceiveStep
    <3> QED  BY <1>5, <3>1, ReadListStep, TriggerUpdateStep, JoinTimeoutStep DEF Next
  <2>4. ~Clean /\ ~ParseList /\ ~Change /\ ~PublishLevels
    BY <1>5, <2>2, CleanStep, ParseListStep, ChangeStep, PublishLevelsStep
  <2>5. ~Enrich /\ ~EnrichmentSetsMap /\ ~Join /\ ~Produce
    BY <1>5, <2>2, EnrichStep, EnrichmentSetsMapStep, JoinStep, ProduceStep
  <2>6. Aggregate \/ AggregatorSetsMap
    BY <2>3, <2>4, <2>5 DEF Deliver
  <2>7. Shifted(0)
    BY <1>5, <2>6, AggregateStep, AggregatorSetsMapStep
  <2> QED  BY <1>2, <1>5, <2>2, <2>6, <2>7
<1>6. CASE Extended /\ ~Alone(queue'[Len(queue) + 1])
  <2>1. queue # <<>> /\ Change
    BY <1>1, <1>6, QueueMoves DEF Extended, Shifted
  <2>2. Shifted(2) /\ queue[1].to = "change" /\ queue'[Len(queue)].to = "POI_Aggregator"
    BY <2>1, ChangeStep
  <2>3. Len(queue) > 1
    BY <1>1, <1>2, <2>1, <2>2
  <2>4. queue'[1] = queue[2]
    BY <1>1, <2>2, <2>3 DEF Shifted
  <2> QED  BY <1>3, <2>1, <2>2, <2>3, <2>4
<1> QED  BY <1>4, <1>5, <1>6, QueueMoves

LEMMA BetweenStarts ==
    ASSUME TypeOK, Paired, queue # <<>>, Aggregate \/ AggregatorSetsMap
    PROVE  /\ Aggregate => Between("sensor-data")'
           /\ AggregatorSetsMap => Between("poi")'
           /\ queue[1].to = "POI_Aggregator" /\ queue'[1].msg = queue[1].msg
<1>1. Len(queue) \in Nat /\ 1 \in 1 .. Len(queue)
  BY Lengths
<1>2. /\ Shifted(0) /\ queue[1].to = "POI_Aggregator"
      /\ Aggregate => queue[1].msg.kind = "sensor-data"
      /\ AggregatorSetsMap => queue[1].msg.kind = "poi"
  BY AggregateStep, AggregatorSetsMapStep
<1>3. 1 < Len(queue) /\ queue[1 + 1].to = "Enrichment" /\ queue[1 + 1].msg = queue[1].msg
  BY <1>1, <1>2 DEF Paired
<1>4. queue'[1] = queue[1 + 1] /\ Len(queue') > 0
  BY <1>1, <1>2, <1>3 DEF Shifted
<1>5. queue' # <<>>
  BY <1>4, SendsTypes
<1> QED  BY <1>2, <1>3, <1>4, <1>5 DEF Between

LEMMA BetweenEnds ==
    ASSUME TypeOK, Next, ~Restart, NEW kind, Between(kind)
    PROVE  \/ Extended /\ Between(kind)' /\ queue'[1] = queue[1]
           \/ kind = "sensor-data" /\ Enrich
           \/ kind = "poi" /\ EnrichmentSetsMap
<1>1. Len(queue) \in Nat /\ Len(queue) > 0 /\ queue # <<>> /\ queue[1].to = "Enrichment" /\ queue[1].msg.kind = kind
  BY Lengths DEF Between
<1>2. CASE Deliver
  <2>1. ~Clean /\ ~ParseList /\ ~Change /\ ~PublishLevels /\ ~Aggregate /\ ~AggregatorSetsMap /\ ~Join /\ ~Produce
    BY <1>1, CleanStep, ParseListStep, ChangeStep, PublishLevelsStep, AggregateStep, AggregatorSetsMapStep,
       JoinStep, ProduceStep
  <2> QED  BY <1>1, <1>2, <2>1, EnrichStep, EnrichmentSetsMapStep DEF Deliver
<1>3. CASE Extended
  <2>1. queue'[1] = queue[1] /\ Len(queue') > 0
    BY <1>1, <1>3 DEF Extended
  <2>2. queue' # <<>>
    BY <2>1, SendsTypes
  <2> QED  BY <1>1, <1>3, <2>1, <2>2 DEF Between
<1>4. Deliver \/ Extended
  BY ReceiveStep, ReadListStep, TriggerUpdateStep, JoinTimeoutStep DEF Next
<1> QED  BY <1>2, <1>3, <1>4

\* Both nodes have the list, or neither.
BothLists ==
    /\ Between("poi") => enrichmentMap = Undefined /\ aggregatorMap # <<>>
    /\ ~Between("poi") => (aggregatorMap = <<>> <=> enrichmentMap = Undefined)

LEMMA EnrichmentMapChanges ==
    ASSUME Next, ~Restart, enrichmentMap' # enrichmentMap
    PROVE  queue # <<>> /\ EnrichmentSetsMap
<1>1. \A payload \in Inputs : ~Receive(payload)
  BY DEF Receive
<1>2. ~ReadList /\ ~TriggerUpdate /\ ~JoinTimeout
  BY DEF ReadList, TriggerUpdate, JoinTimeout
<1>3. ~Clean /\ ~ParseList /\ ~Change /\ ~PublishLevels /\ ~Aggregate /\ ~AggregatorSetsMap
  BY DEF Clean, ParseList, Change, PublishLevels, Aggregate, AggregatorSetsMap
<1>4. ~Enrich /\ ~Join /\ ~Produce
  BY DEF Enrich, Join, Produce
<1> QED  BY <1>1, <1>2, <1>3, <1>4 DEF Next, Deliver

LEMMA BothListsStep ==
    ASSUME TypeOK, Paired, ListOnce, BothLists, Next, ~Restart
    PROVE  BothLists'
<1>1. CASE queue # <<>> /\ AggregatorSetsMap
  <2>1. /\ queue[1].to = "POI_Aggregator" /\ queue[1].msg.kind = "poi" /\ aggregatorMap' # <<>>
        /\ 1 \in 1 .. Len(queue)
    BY <1>1, AggregatorSetsMapStep, FirstEvent
  <2>2. aggregatorMap = <<>> /\ ~Between("poi")
    BY <2>1 DEF ListOnce, IsList, Between
  <2>3. enrichmentMap' = Undefined
    BY <1>1, <2>2 DEF BothLists, AggregatorSetsMap
  <2> QED  BY <1>1, <2>1, <2>3, BetweenStarts DEF BothLists
<1>2. CASE queue # <<>> /\ EnrichmentSetsMap
  <2>1. /\ queue[1].to = "Enrichment" /\ queue[1].msg.kind = "poi" /\ Shifted(0)
        /\ enrichmentMap' # Undefined /\ aggregatorMap' = aggregatorMap
    BY <1>2, EnrichmentSetsMapStep DEF EnrichmentSetsMap
  <2>2. aggregatorMap # <<>>
    BY <1>2, <2>1 DEF BothLists, Between
  <2>3. ~Between("poi")'
    <3>1. ~Extended
      BY <2>1, Lengths DEF Shifted, Extended
    <3> QED  BY <2>1, <3>1, BetweenComes
  <2> QED  BY <2>1, <2>2, <2>3 DEF BothLists
<1>3. CASE ~(queue # <<>> /\ AggregatorSetsMap) /\ ~(queue # <<>> /\ EnrichmentSetsMap)
  <2>1. enrichmentMap' = enrichmentMap
    BY <1>3, EnrichmentMapChanges
  <2>2. aggregatorMap' = <<>> <=> aggregatorMap = <<>>
    BY <1>3, MapChanges, SameEmptiness
  <2>3. Between("poi")' => Between("poi")
    BY <1>3, BetweenComes, AggregateStep
  <2>4. Between("poi") => Between("poi")'
    <3> SUFFICES ASSUME Between("poi") PROVE Between("poi")'
      OBVIOUS
    <3>1. queue # <<>>
      BY DEF Between
    <3> QED  BY <1>3, <3>1, BetweenEnds
  <2> QED  BY <2>1, <2>2, <2>3, <2>4 DEF BothLists
<1> QED  BY <1>1, <1>2, <1>3

-----------------------------------------------------------------------------
(* The enriched readings *)

\* What an event holds of the enriched readings of a stage.
Carried(stage, event) ==
    IF stage = 2 /\ event.to = "Kafka_producer" THEN Readings(event.msg)
    ELSE IF stage = 4 /\ event.to = "join" THEN <<event.msg>>
    ELSE <<>>

Empty(event) == Carried(2, event) = <<>> /\ Carried(4, event) = <<>>

BatchIs ==
    /\ \A k : k \in 1 .. Len(produced) => Batch(1, k) = Readings(produced[k])
    /\ \A k : k \notin 1 .. Len(produced) => Batch(1, k) = <<>>
    /\ \A k : k \in 1 .. Len(queue) => Batch(2, k) = Carried(2, queue[k])
    /\ \A k : k \in 1 .. Len(queue) => Batch(4, k) = Carried(4, queue[k])
    /\ \A k : k \notin 1 .. Len(queue) => Batch(2, k) = <<>> /\ Batch(4, k) = <<>>
    /\ Batch(3, 1) = joined
    /\ \A k : k # 1 => Batch(3, k) = <<>>

LEMMA BatchesAre == BatchIs
<1>1. \A k : k \in 1 .. Len(produced) => Batch(1, k) = Readings(produced[k])
  BY DEF Batch
<1>2. \A k : k \notin 1 .. Len(produced) => Batch(1, k) = <<>>
  BY DEF Batch
<1>3. \A k : k \in 1 .. Len(queue) => Batch(2, k) = Carried(2, queue[k])
  BY DEF Batch, Carried
<1>4. \A k : k \in 1 .. Len(queue) => Batch(4, k) = Carried(4, queue[k])
  BY DEF Batch, Carried
<1>5. \A k : k \notin 1 .. Len(queue) => Batch(2, k) = <<>> /\ Batch(4, k) = <<>>
  BY DEF Batch
<1>6. Batch(3, 1) = joined
  BY DEF Batch
<1>7. \A k : k # 1 => Batch(3, k) = <<>>
  BY DEF Batch
<1> QED  BY <1>1, <1>2, <1>3, <1>4, <1>5, <1>6, <1>7 DEF BatchIs

LEMMA BatchesWillBe == BatchIs'
  BY BatchesAre, PTL

LEMMA BatchTypes ==
    ASSUME TypeOK, NEW s \in 1 .. 4, NEW k
    PROVE  Batch(s, k) \in Seq(EnrichedReadings)
<1>1. <<>> \in Seq(EnrichedReadings)
  BY SendsTypes
<1>2. \A msg \in Records : Readings(msg) \in Seq(EnrichedReadings)
  <2>1. ASSUME NEW msg \in Records PROVE Readings(msg) \in Seq(EnrichedReadings)
    <3>1. CASE msg.topic = "sensor-data"
      <4>1. msg \in [topic : {"sensor-data"}, payload : Seq(EnrichedReadings)]
        BY <3>1 DEF Records
      <4> QED  BY <3>1, <4>1 DEF Readings
    <3> QED  BY <1>1, <3>1 DEF Readings
  <2> QED  BY <2>1
<1>3. CASE s = 1
  BY <1>1, <1>2, <1>3, BatchesAre, ElementOfSeq DEF BatchIs, TypeOK
<1>4. ASSUME k \in 1 .. Len(queue) PROVE \A t \in {2, 4} : Carried(t, queue[k]) \in Seq(EnrichedReadings)
  <2>1. /\ queue[k] \in Events
    BY <1>4, ElementOfSeq DEF TypeOK
  <2>2. /\ queue[k].to = "Kafka_producer" => queue[k].msg \in Records
        /\ queue[k].to = "join" => queue[k].msg \in EnrichedReadings
    BY <2>1, Shapes
  <2> QED  BY <1>1, <1>2, <2>2, SendsTypes DEF Carried
<1>5. CASE s \in {2, 4}
  BY <1>1, <1>4, <1>5, BatchesAre DEF BatchIs
<1>6. CASE s = 3
  BY <1>1, <1>6, BatchesAre DEF BatchIs, TypeOK
<1> QED  BY <1>3, <1>5, <1>6

\* Places of the enriched readings, from the oldest on.
At(s, k, m) == s \in 1 .. 4 /\ k \in Nat \ {0} /\ m \in 1 .. Len(Batch(s, k))

IdAt(s, k, m) == Batch(s, k)[m].id

Before(s, k, m, t, l, n) == s < t \/ (s = t /\ (k < l \/ (k = l /\ m < n)))

Ordered ==
    \A s, k, m, t, l, n :
        At(s, k, m) /\ At(t, l, n) /\ Before(s, k, m, t, l, n) => IdAt(s, k, m) < IdAt(t, l, n)

Published(id) == \E s, k, m : At(s, k, m) /\ IdAt(s, k, m) = id

LEMMA AtTypes ==
    ASSUME TypeOK, NEW s, NEW k, NEW m, At(s, k, m)
    PROVE  k \in Span /\ m \in Nat /\ IdAt(s, k, m) \in 1 .. Len(received)
<1>1. s \in 1 .. 4 /\ k \in Nat \ {0} /\ m \in 1 .. Len(Batch(s, k)) /\ Batch(s, k) # <<>>
  BY SendsTypes DEF At
<1>2. Len(produced) \in Nat /\ Len(queue) \in Nat
  BY LenProperties DEF TypeOK
<1>3. k \in Span
  <2>1. k \in 1 .. Len(produced) \/ k \in 1 .. Len(queue) \/ k = 1
    BY <1>1, BatchesAre DEF BatchIs
  <2> QED  BY <1>2, <2>1 DEF Span
<1>4. Batch(s, k) \in Seq(EnrichedReadings)
  BY <1>1, BatchTypes
<1>5. Batch(s, k)[m] \in EnrichedReadings
  BY <1>1, <1>4, ElementOfSeq
<1>6. Batch(s, k)[m].id \in 1 .. Len(received)
  BY <1>5 DEF EnrichedReadings
<1> QED  BY <1>1, <1>3, <1>6 DEF IdAt

LEMMA SpanIsNat == TypeOK => \A k \in Span : k \in Nat \ {0}
  BY LenProperties DEF TypeOK, Span

LEMMA OrderedIsOlderFirst == TypeOK => (OlderFirst <=> Ordered)
<1> SUFFICES ASSUME TypeOK PROVE OlderFirst <=> Ordered
  OBVIOUS
<1>1. ASSUME Ordered PROVE OlderFirst
  <2> SUFFICES ASSUME NEW s \in 1 .. 4, NEW k \in Span, NEW m \in 1 .. Len(Batch(s, k)),
                      NEW t \in 1 .. 4, NEW l \in Span, NEW n \in 1 .. Len(Batch(t, l)),
                      s < t \/ (s = t /\ (k < l \/ (k = l /\ m < n)))
               PROVE  Batch(s, k)[m].id < Batch(t, l)[n].id
    BY DEF OlderFirst
  <2>1. At(s, k, m) /\ At(t, l, n) /\ Before(s, k, m, t, l, n)
    BY SpanIsNat DEF At, Before
  <2>2. IdAt(s, k, m) < IdAt(t, l, n)
    BY <1>1, <2>1 DEF Ordered
  <2> QED  BY <2>2 DEF IdAt
<1>2. ASSUME OlderFirst PROVE Ordered
  <2> SUFFICES ASSUME NEW s, NEW k, NEW m, NEW t, NEW l, NEW n,
                      At(s, k, m), At(t, l, n), Before(s, k, m, t, l, n)
               PROVE  IdAt(s, k, m) < IdAt(t, l, n)
    BY DEF Ordered
  <2>1. s \in 1 .. 4 /\ t \in 1 .. 4 /\ k \in Span /\ l \in Span
    BY AtTypes DEF At
  <2>2. m \in 1 .. Len(Batch(s, k)) /\ n \in 1 .. Len(Batch(t, l))
    BY DEF At
  <2> QED  BY <1>2, <2>1, <2>2 DEF OlderFirst, Before, IdAt
<1> QED  BY <1>1, <1>2

LEMMA PublishedIsEnriched == TypeOK => \A id : Enriched(id) <=> Published(id)
<1> SUFFICES ASSUME TypeOK, NEW id PROVE Enriched(id) <=> Published(id)
  OBVIOUS
<1>1. ASSUME Enriched(id) PROVE Published(id)
  <2>1. PICK s \in 1 .. 4, k \in Span : \E m \in 1 .. Len(Batch(s, k)) : Batch(s, k)[m].id = id
    BY <1>1 DEF Enriched
  <2>2. PICK m \in 1 .. Len(Batch(s, k)) : Batch(s, k)[m].id = id
    BY <2>1
  <2>3. At(s, k, m) /\ IdAt(s, k, m) = id
    BY <2>2, SpanIsNat DEF At, IdAt
  <2> QED  BY <2>3 DEF Published
<1>2. ASSUME Published(id) PROVE Enriched(id)
  <2>1. PICK s, k, m : At(s, k, m) /\ IdAt(s, k, m) = id
    BY <1>2 DEF Published
  <2>2. s \in 1 .. 4 /\ k \in Span /\ m \in 1 .. Len(Batch(s, k)) /\ Batch(s, k)[m].id = id
    BY <2>1, AtTypes DEF At, IdAt
  <2> QED  BY <2>2 DEF Enriched
<1> QED  BY <1>1, <1>2

\* A step that moves no enriched reading.
Rests ==
    /\ produced' = produced /\ joined' = joined
    /\ \/ Extended /\ Empty(queue'[Len(queue) + 1])
       \/ queue # <<>> /\ Empty(queue[1]) /\ Shifted(0)
       \/ queue # <<>> /\ Empty(queue[1]) /\ Shifted(1) /\ Empty(queue'[Len(queue)])
       \/ /\ queue # <<>> /\ Empty(queue[1]) /\ Shifted(2)
          /\ Empty(queue'[Len(queue)]) /\ Empty(queue'[Len(queue) + 1])

LEMMA EmptyEvents ==
    \A event : event.to \notin {"join", "Kafka_producer"} \/ (event.to = "Kafka_producer" /\ event.msg.topic = "poi-data")
               => Empty(event)
  BY DEF Empty, Carried, Readings

LEMMA EnrichedMoves ==
    ASSUME TypeOK, Next, ~Restart
    PROVE  \/ Rests
           \/ queue # <<>> /\ Enrich /\ enrichmentMap # Undefined
           \/ queue # <<>> /\ (Join \/ Produce)
           \/ JoinTimeout
<1>1. ASSUME NEW payload \in Inputs, Receive(payload) PROVE Rests
  <2>1. Extended /\ Empty(queue'[Len(queue) + 1])
    BY <1>1, ReceiveStep, EmptyEvents
  <2> QED  BY <1>1, <2>1 DEF Rests, Receive
<1>2. ASSUME ReadList \/ TriggerUpdate PROVE Rests
  <2>1. Extended /\ Empty(queue'[Len(queue) + 1])
    BY <1>2, ReadListStep, TriggerUpdateStep, EmptyEvents
  <2> QED  BY <1>2, <2>1 DEF Rests, ReadList, TriggerUpdate
<1>3. CASE Deliver
  <2>1. queue # <<>>
    BY <1>3 DEF Deliver
  <2>2. ASSUME Clean \/ ParseList \/ PublishLevels PROVE Rests
    <3>1. Empty(queue[1]) /\ (Shifted(0) \/ (Shifted(1) /\ Empty(queue'[Len(queue)])))
      BY <2>1, <2>2, CleanStep, ParseListStep, PublishLevelsStep, EmptyEvents
    <3> QED  BY <2>1, <2>2, <3>1 DEF Rests, Clean, ParseList, PublishLevels
  <2>3. ASSUME Change PROVE Rests
    <3>1. /\ Empty(queue[1]) /\ Shifted(2)
          /\ Empty(queue'[Len(queue)]) /\ Empty(queue'[Len(queue) + 1])
      BY <2>1, <2>3, ChangeStep, EmptyEvents
    <3> QED  BY <2>1, <2>3, <3>1 DEF Rests, Change
  <2>4. ASSUME Aggregate \/ AggregatorSetsMap \/ EnrichmentSetsMap PROVE Rests
    <3>1. Empty(queue[1]) /\ Shifted(0)
      BY <2>1, <2>4, AggregateStep, AggregatorSetsMapStep, EnrichmentSetsMapStep, EmptyEvents
    <3> QED  BY <2>1, <2>4, <3>1 DEF Rests, Aggregate, AggregatorSetsMap, EnrichmentSetsMap
  <2>5. ASSUME Enrich, enrichmentMap = Undefined PROVE Rests
    <3>1. Empty(queue[1]) /\ Shifted(0)
      BY <2>1, <2>5, EnrichStep, EmptyEvents
    <3> QED  BY <2>1, <2>5, <3>1 DEF Rests, Enrich
  <2> QED  BY <1>3, <2>1, <2>2, <2>3, <2>4, <2>5 DEF Deliver
<1> QED  BY <1>1, <1>2, <1>3 DEF Next

Up(stage, k, d) == IF stage \in {2, 4} THEN k + d ELSE k

\* The batches that the queue holds move with it.
LEMMA QueueBatches ==
    ASSUME TypeOK, NEW s \in {2, 4}, NEW k \in Nat \ {0}
    PROVE  /\ Extended =>
                /\ k # Len(queue) + 1 => Batch(s, k)' = Batch(s, k)
                /\ k = Len(queue) + 1 => Batch(s, k)' = Carried(s, queue'[k]) /\ Batch(s, k) = <<>>
           /\ \A n \in {0, 1, 2} : queue # <<>> /\ Shifted(n) =>
                \/ Batch(s, k)' = Batch(s, k + 1) /\ k # Len(queue)
                \/ /\ n >= 1 /\ k = Len(queue) /\ Batch(s, k)' = Carried(s, queue'[k]) /\ Batch(s, k + 1) = <<>>
                \/ n = 0 /\ k = Len(queue) /\ Batch(s, k)' = Batch(s, k + 1)
                \/ /\ n = 2 /\ k = Len(queue) + 1 /\ Batch(s, k)' = Carried(s, queue'[k]) /\ Batch(s, k + 1) = <<>>
<1>1. Len(queue) \in Nat /\ (queue # <<>> => Len(queue) > 0)
  BY Lengths
<1>2. \A j : /\ j \in 1 .. Len(queue) => Batch(s, j) = Carried(s, queue[j])
             /\ j \notin 1 .. Len(queue) => Batch(s, j) = <<>>
  BY BatchesAre DEF BatchIs
<1>3. \A j : /\ j \in 1 .. Len(queue') => Batch(s, j)' = Carried(s, queue'[j])
             /\ j \notin 1 .. Len(queue') => Batch(s, j)' = <<>>
  BY BatchesWillBe DEF BatchIs
<1>4. ASSUME Extended
      PROVE  /\ k # Len(queue) + 1 => Batch(s, k)' = Batch(s, k)
             /\ k = Len(queue) + 1 => Batch(s, k)' = Carried(s, queue'[k]) /\ Batch(s, k) = <<>>
  <2>1. CASE k \in 1 .. Len(queue)
    BY <1>1, <1>2, <1>3, <1>4, <2>1 DEF Extended
  <2>2. CASE k = Len(queue) + 1
    BY <1>1, <1>2, <1>3, <1>4, <2>2 DEF Extended
  <2>3. CASE k > Len(queue) + 1
    BY <1>1, <1>2, <1>3, <1>4, <2>3 DEF Extended
  <2> QED  BY <1>1, <2>1, <2>2, <2>3
<1>5. ASSUME NEW n \in {0, 1, 2}, queue # <<>>, Shifted(n)
      PROVE  \/ Batch(s, k)' = Batch(s, k + 1) /\ k # Len(queue)
             \/ n >= 1 /\ k = Len(queue) /\ Batch(s, k)' = Carried(s, queue'[k]) /\ Batch(s, k + 1) = <<>>
             \/ n = 0 /\ k = Len(queue) /\ Batch(s, k)' = Batch(s, k + 1)
             \/ n = 2 /\ k = Len(queue) + 1 /\ Batch(s, k)' = Carried(s, queue'[k]) /\ Batch(s, k + 1) = <<>>
  <2>1. CASE k \in 1 .. Len(queue) - 1
    <3>1. k \in 1 .. Len(queue') /\ queue'[k] = queue[k + 1] /\ k + 1 \in 1 .. Len(queue) /\ k # Len(queue)
      BY <1>1, <1>5, <2>1 DEF Shifted
    <3> QED  BY <1>2, <1>3, <3>1
  <2>2. CASE k \notin 1 .. Len(queue) - 1 /\ k \in 1 .. Len(queue')
    <3>1. k + 1 \notin 1 .. Len(queue) /\ ((n >= 1 /\ k = Len(queue)) \/ (n = 2 /\ k = Len(queue) + 1))
      BY <1>1, <1>5, <2>2 DEF Shifted
    <3> QED  BY <1>2, <1>3, <2>2, <3>1
  <2>3. CASE k \notin 1 .. Len(queue')
    <3>1. k + 1 \notin 1 .. Len(queue) /\ (k # Len(queue) \/ n = 0)
      BY <1>1, <1>5, <2>3 DEF Shifted
    <3> QED  BY <1>2, <1>3, <2>3, <3>1
  <2> QED  BY <2>1, <2>2, <2>3
<1> QED  BY <1>4, <1>5

LEMMA OtherBatches ==
    ASSUME TypeOK, NEW k
    PROVE  /\ produced' = produced => Batch(1, k)' = Batch(1, k)
           /\ joined' = joined => Batch(3, k)' = Batch(3, k)
<1>1. produced' = produced => Batch(1, k)' = Batch(1, k)
  BY BatchesAre, BatchesWillBe DEF BatchIs
<1>2. joined' = joined => Batch(3, k)' = Batch(3, k)
  BY BatchesAre, BatchesWillBe DEF BatchIs
<1> QED  BY <1>1, <1>2

LEMMA RestsBatches ==
    ASSUME TypeOK, Rests
    PROVE  \E d \in {0, 1} :
             /\ d = 1 => Batch(2, 1) = <<>> /\ Batch(4, 1) = <<>>
             /\ \A s \in 1 .. 4, k \in Nat \ {0} : Batch(s, k)' = Batch(s, Up(s, k, d))
<1>1. \A k : Batch(1, k)' = Batch(1, k) /\ Batch(3, k)' = Batch(3, k)
  BY OtherBatches DEF Rests
<1>2. CASE Extended /\ Empty(queue'[Len(queue) + 1])
  <2>1. ASSUME NEW s \in 1 .. 4, NEW k \in Nat \ {0} PROVE Batch(s, k)' = Batch(s, Up(s, k, 0))
    <3>1. CASE s \in {2, 4}
      <4>1. Batch(s, k)' = Batch(s, k) /\ Up(s, k, 0) = k
        BY <1>2, <3>1, QueueBatches DEF Empty, Up
      <4> QED  BY <4>1
    <3>2. CASE s \in {1, 3}
      BY <1>1, <3>2 DEF Up
    <3> QED  BY <3>1, <3>2
  <2> QED  BY <2>1
<1>3. CASE ~(Extended /\ Empty(queue'[Len(queue) + 1]))
  <2>1. queue # <<>> /\ Empty(queue[1]) /\ 1 \in 1 .. Len(queue)
    BY <1>3, Lengths DEF Rests
  <2>2. Batch(2, 1) = <<>> /\ Batch(4, 1) = <<>>
    BY <2>1, BatchesAre DEF BatchIs, Empty
  <2>3. ASSUME NEW s \in 1 .. 4, NEW k \in Nat \ {0} PROVE Batch(s, k)' = Batch(s, Up(s, k, 1))
    <3>1. CASE s \in {2, 4}
      <4>1. Batch(s, k)' = Batch(s, k + 1)
        BY <1>3, <2>1, <3>1, QueueBatches DEF Rests, Empty
      <4> QED  BY <3>1, <4>1 DEF Up
    <3>2. CASE s \in {1, 3}
      BY <1>1, <3>2 DEF Up
    <3> QED  BY <3>1, <3>2
  <2> QED  BY <2>2, <2>3
<1> QED  BY <1>2, <1>3

LEMMA RestsKeeps ==
    ASSUME TypeOK, Rests
    PROVE  (Ordered => Ordered') /\ \A id : Published(id)' <=> Published(id)
<1>1. PICK d \in {0, 1} : /\ d = 1 => Batch(2, 1) = <<>> /\ Batch(4, 1) = <<>>
                          /\ \A s \in 1 .. 4, k \in Nat \ {0} : Batch(s, k)' = Batch(s, Up(s, k, d))
  BY RestsBatches
<1>2. \A s \in 1 .. 4, k \in Nat \ {0} : Up(s, k, d) \in Nat \ {0}
  BY DEF Up
<1>3. \A s, k, m : At(s, k, m)' => At(s, Up(s, k, d), m) /\ IdAt(s, k, m)' = IdAt(s, Up(s, k, d), m)
  BY <1>1, <1>2 DEF At, IdAt
<1>4. ASSUME Ordered PROVE Ordered'
  <2> SUFFICES ASSUME NEW s, NEW k, NEW m, NEW t, NEW l, NEW n,
                      At(s, k, m)', At(t, l, n)', Before(s, k, m, t, l, n)
               PROVE  IdAt(s, k, m)' < IdAt(t, l, n)'
    BY DEF Ordered, Before
  <2>1. k \in Nat /\ l \in Nat
    BY DEF At
  <2>2. Before(s, Up(s, k, d), m, t, Up(t, l, d), n)
    BY <2>1 DEF Before, Up
  <2>3. IdAt(s, Up(s, k, d), m) < IdAt(t, Up(t, l, d), n)
    BY <1>3, <1>4, <2>2 DEF Ordered
  <2> QED  BY <1>3, <2>3
<1>5. ASSUME NEW id PROVE Published(id)' <=> Published(id)
  <2>1. ASSUME Published(id)' PROVE Published(id)
    <3>1. PICK s, k, m : At(s, k, m)' /\ IdAt(s, k, m)' = id
      BY <2>1 DEF Published
    <3>2. At(s, Up(s, k, d), m) /\ IdAt(s, Up(s, k, d), m) = id
      BY <1>3, <3>1
    <3> QED  BY <3>2 DEF Published
  <2>2. ASSUME Published(id) PROVE Published(id)'
    <3>1. PICK s, k, m : At(s, k, m) /\ IdAt(s, k, m) = id
      BY <2>2 DEF Published
    <3>2. s \in 1 .. 4 /\ k \in Nat \ {0} /\ m \in 1 .. Len(Batch(s, k)) /\ Batch(s, k) # <<>>
      BY <3>1, SendsTypes DEF At
    <3>3. PICK j \in Nat \ {0} : Up(s, j, d) = k
      <4>1. CASE s \in {2, 4}
        <5>1. k - d \in Nat \ {0} /\ k - d + d = k
          BY <1>1, <3>2, <4>1
        <5> QED  BY <4>1, <5>1 DEF Up
      <4>2. CASE s \notin {2, 4}
        BY <3>2, <4>2 DEF Up
      <4> QED  BY <4>1, <4>2
    <3>4. Batch(s, j)' = Batch(s, k)
      BY <1>1, <3>2, <3>3
    <3>5. At(s, j, m)' /\ IdAt(s, j, m)' = id
      BY <3>1, <3>2, <3>4 DEF At, IdAt
    <3> QED  BY <3>5 DEF Published
  <2> QED  BY <2>1, <2>2
<1> QED  BY <1>4, <1>5

\* "Enrichment" publishes the latest reading.
LEMMA EnrichKeeps ==
    ASSUME TypeOK, queue # <<>>, Enrich, enrichmentMap # Undefined
    PROVE  /\ Ordered /\ (\A id : Published(id) => id < queue[1].msg.id) => Ordered'
           /\ \A id : Published(id)' <=> Published(id) \/ id = queue[1].msg.id
<1>1. /\ queue[1].to = "Enrichment" /\ Shifted(1) /\ produced' = produced /\ joined' = joined
      /\ queue'[Len(queue)].to = "join" /\ queue'[Len(queue)].msg.id = queue[1].msg.id
  BY EnrichStep DEF Enrich
<1>2. PICK last \in Nat \ {0} : last = Len(queue) /\ 1 \in 1 .. Len(queue)
  BY Lengths
<1> DEFINE new == queue'[Len(queue)].msg
<1>3. Carried(2, queue'[Len(queue)]) = <<>> /\ Carried(4, queue'[Len(queue)]) = <<new>>
  BY <1>1 DEF Carried
<1>4. Len(<<new>>) = 1 /\ <<new>>[1] = new
  BY SendsTypes
<1>5. Batch(2, 1) = <<>> /\ Batch(4, 1) = <<>>
  BY <1>1, <1>2, BatchesAre, EmptyEvents DEF BatchIs, Empty
<1>6. \A s \in 1 .. 4, k \in Nat \ {0} : s # 4 \/ k # last => Batch(s, k)' = Batch(s, Up(s, k, 1))
  <2> SUFFICES ASSUME NEW s \in 1 .. 4, NEW k \in Nat \ {0}, s # 4 \/ k # last
               PROVE  Batch(s, k)' = Batch(s, Up(s, k, 1))
    OBVIOUS
  <2>1. CASE s \in {2, 4}
    <3>1. Batch(s, k)' = Batch(s, k + 1)
      BY <1>1, <1>2, <1>3, <2>1, QueueBatches
    <3> QED  BY <2>1, <3>1 DEF Up
  <2>2. CASE s \in {1, 3}
    BY <1>1, <2>2, OtherBatches DEF Up
  <2> QED  BY <2>1, <2>2
<1>7. Batch(4, last)' = <<new>> /\ Batch(4, last + 1) = <<>>
  BY <1>1, <1>2, <1>3, QueueBatches
<1>8. \A k, m : At(4, k, m) => k <= last
  BY <1>2, BatchesAre, SendsTypes DEF At, BatchIs
<1> HIDE DEF new
<1>9. \A s, k, m : At(s, k, m)' =>
        \/ At(s, Up(s, k, 1), m) /\ IdAt(s, k, m)' = IdAt(s, Up(s, k, 1), m)
        \/ s = 4 /\ k = last /\ m = 1 /\ IdAt(s, k, m)' = queue[1].msg.id
  <2> SUFFICES ASSUME NEW s, NEW k, NEW m, At(s, k, m)'
               PROVE  \/ At(s, Up(s, k, 1), m) /\ IdAt(s, k, m)' = IdAt(s, Up(s, k, 1), m)
                      \/ s = 4 /\ k = last /\ m = 1 /\ IdAt(s, k, m)' = queue[1].msg.id
    OBVIOUS
  <2>1. s \in 1 .. 4 /\ k \in Nat \ {0} /\ m \in 1 .. Len(Batch(s, k)') /\ Up(s, k, 1) \in Nat \ {0}
    BY DEF At, Up
  <2>2. CASE s = 4 /\ k = last
    BY <1>1, <1>2, <1>4, <1>7, <2>1, <2>2 DEF IdAt, new
  <2>3. CASE ~(s = 4 /\ k = last)
    <3>1. Batch(s, k)' = Batch(s, Up(s, k, 1))
      BY <1>6, <2>1, <2>3
    <3> QED  BY <2>1, <3>1 DEF At, IdAt
  <2> QED  BY <2>2, <2>3
<1>10. ASSUME Ordered, \A id : Published(id) => id < queue[1].msg.id PROVE Ordered'
  <2> SUFFICES ASSUME NEW s, NEW k, NEW m, NEW t, NEW l, NEW n,
                      At(s, k, m)', At(t, l, n)', Before(s, k, m, t, l, n)
               PROVE  IdAt(s, k, m)' < IdAt(t, l, n)'
    BY DEF Ordered, Before
  <2>1. k \in Nat /\ l \in Nat /\ s \in 1 .. 4 /\ t \in 1 .. 4
    BY DEF At
  <2>2. CASE /\ At(s, Up(s, k, 1), m) /\ IdAt(s, k, m)' = IdAt(s, Up(s, k, 1), m)
             /\ At(t, Up(t, l, 1), n) /\ IdAt(t, l, n)' = IdAt(t, Up(t, l, 1), n)
    <3>1. Before(s, Up(s, k, 1), m, t, Up(t, l, 1), n)
      BY <2>1 DEF Before, Up
    <3> QED  BY <1>10, <2>2, <3>1 DEF Ordered
  <2>3. CASE /\ At(s, Up(s, k, 1), m) /\ IdAt(s, k, m)' = IdAt(s, Up(s, k, 1), m)
             /\ IdAt(t, l, n)' = queue[1].msg.id
    BY <1>10, <2>3 DEF Published
  <2>4. ASSUME s = 4, k = last, m = 1 PROVE FALSE
    <3>1. t = 4 /\ (l > last \/ (l = last /\ n > 1)) /\ Up(t, l, 1) = l + 1
      BY <2>1, <2>4, AtTypes DEF Before, Up, At
    <3>2. At(4, l + 1, n)
      BY <1>9, <3>1
    <3> QED  BY <1>2, <1>8, <2>1, <3>1, <3>2
  <2> QED  BY <1>9, <2>2, <2>3, <2>4
<1>11. ASSUME NEW id PROVE Published(id)' <=> Published(id) \/ id = queue[1].msg.id
  <2>1. ASSUME Published(id)' PROVE Published(id) \/ id = queue[1].msg.id
    <3>1. PICK s, k, m : At(s, k, m)' /\ IdAt(s, k, m)' = id
      BY <2>1 DEF Published
    <3> QED  BY <1>9, <3>1 DEF Published
  <2>2. ASSUME Published(id) PROVE Published(id)'
    <3>1. PICK s, k, m : At(s, k, m) /\ IdAt(s, k, m) = id
      BY <2>2 DEF Published
    <3>2. s \in 1 .. 4 /\ k \in Nat \ {0} /\ m \in 1 .. Len(Batch(s, k)) /\ Batch(s, k) # <<>>
      BY <3>1, SendsTypes DEF At
    <3>3. PICK j \in Nat \ {0} : Up(s, j, 1) = k
      <4>1. CASE s \in {2, 4}
        <5>1. k - 1 \in Nat \ {0} /\ k - 1 + 1 = k
          BY <1>5, <3>2, <4>1
        <5> QED  BY <4>1, <5>1 DEF Up
      <4>2. CASE s \notin {2, 4}
        BY <3>2, <4>2 DEF Up
      <4> QED  BY <4>1, <4>2
    <3>4. s # 4 \/ j # last
      BY <1>7, <3>2, <3>3 DEF Up
    <3>5. Batch(s, j)' = Batch(s, k)
      BY <1>6, <3>2, <3>3, <3>4
    <3>6. At(s, j, m)' /\ IdAt(s, j, m)' = id
      BY <3>1, <3>2, <3>5 DEF At, IdAt
    <3> QED  BY <3>6 DEF Published
  <2>3. ASSUME id = queue[1].msg.id PROVE Published(id)'
    <3>1. At(4, last, 1)' /\ IdAt(4, last, 1)' = id
      BY <1>1, <1>2, <1>4, <1>7, <2>3 DEF At, IdAt, new
    <3> QED  BY <3>1 DEF Published
  <2> QED  BY <2>1, <2>2, <2>3
<1> QED  BY <1>10, <1>11

\* "Kafka producer" takes a batch of readings, or of levels.
LEMMA ProduceKeeps ==
    ASSUME TypeOK, queue # <<>>, Produce
    PROVE  (Ordered => Ordered') /\ \A id : Published(id)' <=> Published(id)
<1>1. /\ queue[1].to = "Kafka_producer" /\ Shifted(0) /\ joined' = joined
      /\ Len(produced') = Len(produced) + 1 /\ produced'[Len(produced) + 1] = queue[1].msg
      /\ \A k \in 1 .. Len(produced) : produced'[k] = produced[k]
  BY ProduceStep DEF Produce
<1>2. PICK last \in Nat : last = Len(produced)
  BY LenProperties DEF TypeOK
<1>3. 1 \in 1 .. Len(queue)
  BY Lengths
<1>4. Batch(4, 1) = <<>> /\ Batch(2, 1) = Readings(queue[1].msg)
  BY <1>1, <1>3, BatchesAre DEF BatchIs, Carried
<1>5. Batch(1, last + 1)' = Batch(2, 1) /\ Batch(1, last + 1) = <<>>
  <2>1. last + 1 \in 1 .. Len(produced') /\ last + 1 \notin 1 .. Len(produced)
    BY <1>1, <1>2
  <2> QED  BY <1>1, <1>2, <1>4, <2>1, BatchesAre, BatchesWillBe DEF BatchIs
<1>6. \A s \in 1 .. 4, k \in Nat \ {0} : s # 1 \/ k # last + 1 => Batch(s, k)' = Batch(s, Up(s, k, 1))
  <2> SUFFICES ASSUME NEW s \in 1 .. 4, NEW k \in Nat \ {0}, s # 1 \/ k # last + 1
               PROVE  Batch(s, k)' = Batch(s, Up(s, k, 1))
    OBVIOUS
  <2>1. CASE s \in {2, 4}
    <3>1. Batch(s, k)' = Batch(s, k + 1)
      BY <1>1, <2>1, QueueBatches
    <3> QED  BY <2>1, <3>1 DEF Up
  <2>2. CASE s = 3
    BY <1>1, <2>2, OtherBatches DEF Up
  <2>3. CASE s = 1
    <3>1. (k \in 1 .. Len(produced) /\ k \in 1 .. Len(produced')) \/ (k \notin 1 .. Len(produced) /\ k \notin 1 .. Len(produced'))
      BY <1>1, <1>2, <2>3
    <3>2. Batch(1, k)' = Batch(1, k)
      BY <1>1, <3>1, BatchesAre, BatchesWillBe DEF BatchIs
    <3> QED  BY <2>3, <3>2 DEF Up
  <2> QED  BY <2>1, <2>2, <2>3
<1>7. \A s, k, m : At(s, k, m)' =>
        \/ s = 1 /\ k = last + 1 /\ At(2, 1, m) /\ IdAt(s, k, m)' = IdAt(2, 1, m)
        \/ (s # 1 \/ k <= last) /\ At(s, Up(s, k, 1), m) /\ IdAt(s, k, m)' = IdAt(s, Up(s, k, 1), m)
  <2> SUFFICES ASSUME NEW s, NEW k, NEW m, At(s, k, m)'
               PROVE  \/ s = 1 /\ k = last + 1 /\ At(2, 1, m) /\ IdAt(s, k, m)' = IdAt(2, 1, m)
                      \/ (s # 1 \/ k <= last) /\ At(s, Up(s, k, 1), m) /\ IdAt(s, k, m)' = IdAt(s, Up(s, k, 1), m)
    OBVIOUS
  <2>1. /\ s \in 1 .. 4 /\ k \in Nat \ {0} /\ m \in 1 .. Len(Batch(s, k)') /\ Up(s, k, 1) \in Nat \ {0}
        /\ Batch(s, k)' # <<>>
    BY SendsTypes DEF At, Up
  <2>2. CASE s = 1 /\ k = last + 1
    BY <1>5, <2>1, <2>2 DEF At, IdAt
  <2>3. CASE ~(s = 1 /\ k = last + 1)
    <3>1. Batch(s, k)' = Batch(s, Up(s, k, 1))
      BY <1>6, <2>1, <2>3
    <3>2. s # 1 \/ k <= last
      BY <1>2, <2>1, <3>1, BatchesAre DEF BatchIs, Up
    <3> QED  BY <2>1, <3>1, <3>2 DEF At, IdAt
  <2> QED  BY <2>2, <2>3
<1>8. ASSUME Ordered PROVE Ordered'
  <2> SUFFICES ASSUME NEW s, NEW k, NEW m, NEW t, NEW l, NEW n,
                      At(s, k, m)', At(t, l, n)', Before(s, k, m, t, l, n)
               PROVE  IdAt(s, k, m)' < IdAt(t, l, n)'
    BY DEF Ordered, Before
  <2>1. k \in Nat \ {0} /\ l \in Nat \ {0} /\ s \in 1 .. 4 /\ t \in 1 .. 4
    BY DEF At
  <2>2. CASE (s # 1 \/ k <= last) /\ (t # 1 \/ l <= last)
    <3>1. Before(s, Up(s, k, 1), m, t, Up(t, l, 1), n)
      BY <2>1 DEF Before, Up
    <3>2. /\ At(s, Up(s, k, 1), m) /\ IdAt(s, k, m)' = IdAt(s, Up(s, k, 1), m)
          /\ At(t, Up(t, l, 1), n) /\ IdAt(t, l, n)' = IdAt(t, Up(t, l, 1), n)
      BY <1>2, <1>7, <2>1, <2>2
    <3> QED  BY <1>8, <3>1, <3>2 DEF Ordered
  <2>3. CASE s = 1 /\ k = last + 1 /\ t = 1 /\ l = last + 1
    <3>1. Before(2, 1, m, 2, 1, n)
      BY <1>2, <2>3 DEF Before
    <3>2. At(2, 1, m) /\ IdAt(s, k, m)' = IdAt(2, 1, m) /\ At(2, 1, n) /\ IdAt(t, l, n)' = IdAt(2, 1, n)
      BY <1>2, <1>7, <2>3
    <3> QED  BY <1>8, <3>1, <3>2 DEF Ordered
  <2>4. CASE s = 1 /\ k = last + 1 /\ (t # 1 \/ l <= last)
    <3>1. At(2, 1, m) /\ IdAt(s, k, m)' = IdAt(2, 1, m)
      BY <1>2, <1>7, <2>4
    <3>2. At(t, Up(t, l, 1), n) /\ IdAt(t, l, n)' = IdAt(t, Up(t, l, 1), n)
      BY <1>2, <1>7, <2>1, <2>4
    <3>3. Before(2, 1, m, t, Up(t, l, 1), n)
      BY <1>2, <2>1, <2>4 DEF Before, Up
    <3> QED  BY <1>8, <3>1, <3>2, <3>3 DEF Ordered
  <2>5. CASE (s # 1 \/ k <= last) /\ t = 1 /\ l = last + 1
    <3>1. At(2, 1, n) /\ IdAt(t, l, n)' = IdAt(2, 1, n)
      BY <1>2, <1>7, <2>5
    <3>2. At(s, Up(s, k, 1), m) /\ IdAt(s, k, m)' = IdAt(s, Up(s, k, 1), m)
      BY <1>2, <1>7, <2>1, <2>5
    <3>3. Before(s, Up(s, k, 1), m, 2, 1, n)
      BY <1>2, <2>1, <2>5 DEF Before, Up
    <3> QED  BY <1>8, <3>1, <3>2, <3>3 DEF Ordered
  <2> QED  BY <1>7, <2>2, <2>3, <2>4, <2>5
<1>9. ASSUME NEW id PROVE Published(id)' <=> Published(id)
  <2>1. ASSUME Published(id)' PROVE Published(id)
    <3>1. PICK s, k, m : At(s, k, m)' /\ IdAt(s, k, m)' = id
      BY <2>1 DEF Published
    <3> QED  BY <1>7, <3>1 DEF Published
  <2>2. ASSUME Published(id) PROVE Published(id)'
    <3>1. PICK s, k, m : At(s, k, m) /\ IdAt(s, k, m) = id
      BY <2>2 DEF Published
    <3>2. s \in 1 .. 4 /\ k \in Nat \ {0} /\ m \in 1 .. Len(Batch(s, k)) /\ Batch(s, k) # <<>>
      BY <3>1, SendsTypes DEF At
    <3>3. CASE s = 2 /\ k = 1
      <4>1. At(1, last + 1, m)' /\ IdAt(1, last + 1, m)' = id
        BY <1>2, <1>5, <3>1, <3>2, <3>3 DEF At, IdAt
      <4> QED  BY <4>1 DEF Published
    <3>4. CASE ~(s = 2 /\ k = 1)
      <4>1. PICK j \in Nat \ {0} : Up(s, j, 1) = k /\ (s # 1 \/ j # last + 1)
        <5>1. CASE s \in {2, 4}
          <6>1. k - 1 \in Nat \ {0} /\ k - 1 + 1 = k
            BY <1>4, <3>2, <3>4, <5>1
          <6> QED  BY <5>1, <6>1 DEF Up
        <5>2. CASE s \notin {2, 4}
          BY <1>5, <3>2, <5>2 DEF Up
        <5> QED  BY <5>1, <5>2
      <4>2. Batch(s, j)' = Batch(s, k)
        BY <1>6, <3>2, <4>1
      <4>3. At(s, j, m)' /\ IdAt(s, j, m)' = id
        BY <3>1, <3>2, <4>2 DEF At, IdAt
      <4> QED  BY <4>3 DEF Published
    <3> QED  BY <3>3, <3>4
  <2> QED  BY <2>1, <2>2
<1> QED  BY <1>8, <1>9

\* The join node collects a reading.
LEMMA JoinKeeps ==
    ASSUME TypeOK, queue # <<>>, Join
    PROVE  (Ordered => Ordered') /\ \A id : Published(id)' <=> Published(id)
<1>1. /\ queue[1].to = "join" /\ Shifted(0) /\ produced' = produced
      /\ Len(joined') = Len(joined) + 1 /\ joined'[Len(joined) + 1] = queue[1].msg
      /\ \A m \in 1 .. Len(joined) : joined'[m] = joined[m]
  BY JoinStep DEF Join
<1>2. PICK last \in Nat : last = Len(joined)
  BY LenProperties DEF TypeOK
<1>3. 1 \in 1 .. Len(queue)
  BY Lengths
<1>4. /\ Batch(2, 1) = <<>> /\ Len(Batch(4, 1)) = 1 /\ Batch(4, 1)[1] = queue[1].msg
  <2>1. Carried(2, queue[1]) = <<>> /\ Carried(4, queue[1]) = <<queue[1].msg>>
    BY <1>1 DEF Carried
  <2>2. Len(<<queue[1].msg>>) = 1 /\ <<queue[1].msg>>[1] = queue[1].msg
    BY SendsTypes
  <2> QED  BY <1>3, <2>1, <2>2, BatchesAre DEF BatchIs
<1>5. /\ Len(Batch(3, 1)') = last + 1 /\ Batch(3, 1)'[last + 1] = queue[1].msg
      /\ Len(Batch(3, 1)) = last /\ \A m \in 1 .. last : Batch(3, 1)'[m] = Batch(3, 1)[m]
  BY <1>1, <1>2, BatchesAre, BatchesWillBe DEF BatchIs
<1>6. \A s \in 1 .. 4, k \in Nat \ {0} : s # 3 => Batch(s, k)' = Batch(s, Up(s, k, 1))
  <2> SUFFICES ASSUME NEW s \in 1 .. 4, NEW k \in Nat \ {0}, s # 3
               PROVE  Batch(s, k)' = Batch(s, Up(s, k, 1))
    OBVIOUS
  <2>1. CASE s \in {2, 4}
    <3>1. Batch(s, k)' = Batch(s, k + 1)
      BY <1>1, <2>1, QueueBatches
    <3> QED  BY <2>1, <3>1 DEF Up
  <2>2. CASE s = 1
    BY <1>1, <2>2, OtherBatches DEF Up
  <2> QED  BY <2>1, <2>2
<1>7. \A k : k # 1 => Batch(3, k)' = <<>> /\ Batch(3, k) = <<>>
  BY BatchesAre, BatchesWillBe DEF BatchIs
<1> DEFINE New(s, m) == s = 3 /\ m = last + 1
<1>8. \A s, k, m : At(s, k, m)' =>
        /\ s = 3 => k = 1 /\ m \in 1 .. last + 1
        /\ New(s, m) => At(4, 1, 1) /\ IdAt(s, k, m)' = IdAt(4, 1, 1)
        /\ ~New(s, m) => At(s, Up(s, k, 1), m) /\ IdAt(s, k, m)' = IdAt(s, Up(s, k, 1), m)
  <2> SUFFICES ASSUME NEW s, NEW k, NEW m, At(s, k, m)'
               PROVE  /\ s = 3 => k = 1 /\ m \in 1 .. last + 1
                      /\ New(s, m) => At(4, 1, 1) /\ IdAt(s, k, m)' = IdAt(4, 1, 1)
                      /\ ~New(s, m) => At(s, Up(s, k, 1), m) /\ IdAt(s, k, m)' = IdAt(s, Up(s, k, 1), m)
    OBVIOUS
  <2>1. /\ s \in 1 .. 4 /\ k \in Nat \ {0} /\ m \in 1 .. Len(Batch(s, k)') /\ Up(s, k, 1) \in Nat \ {0}
        /\ Batch(s, k)' # <<>>
    BY SendsTypes DEF At, Up
  <2>2. CASE s = 3
    <3>1. k = 1 /\ m \in 1 .. last + 1
      BY <1>5, <1>7, <2>1, <2>2
    <3>2. CASE m = last + 1
      BY <1>2, <1>4, <1>5, <2>2, <3>1, <3>2 DEF At, IdAt
    <3>3. CASE m # last + 1
      <4>1. m \in 1 .. last
        BY <1>2, <3>1, <3>3
      <4> QED  BY <1>2, <1>5, <2>2, <3>1, <3>3, <4>1 DEF At, IdAt, Up
    <3> QED  BY <2>2, <3>1, <3>2, <3>3
  <2>3. CASE s # 3
    <3>1. Batch(s, k)' = Batch(s, Up(s, k, 1))
      BY <1>6, <2>1, <2>3
    <3> QED  BY <2>1, <2>3, <3>1 DEF At, IdAt
  <2> QED  BY <2>2, <2>3
<1>9. ASSUME Ordered PROVE Ordered'
  <2> SUFFICES ASSUME NEW s, NEW k, NEW m, NEW t, NEW l, NEW n,
                      At(s, k, m)', At(t, l, n)', Before(s, k, m, t, l, n)
               PROVE  IdAt(s, k, m)' < IdAt(t, l, n)'
    BY DEF Ordered, Before
  <2>1. /\ k \in Nat \ {0} /\ l \in Nat \ {0} /\ s \in 1 .. 4 /\ t \in 1 .. 4
        /\ s = 3 => k = 1 /\ m \in 1 .. last + 1
        /\ t = 3 => l = 1 /\ n \in 1 .. last + 1
    BY <1>8 DEF At
  <2>2. CASE ~New(s, m) /\ ~New(t, n)
    <3>1. Before(s, Up(s, k, 1), m, t, Up(t, l, 1), n)
      BY <2>1 DEF Before, Up
    <3>2. /\ At(s, Up(s, k, 1), m) /\ IdAt(s, k, m)' = IdAt(s, Up(s, k, 1), m)
          /\ At(t, Up(t, l, 1), n) /\ IdAt(t, l, n)' = IdAt(t, Up(t, l, 1), n)
      BY <1>8, <2>2
    <3> QED  BY <1>9, <3>1, <3>2 DEF Ordered
  <2>3. CASE New(s, m) /\ New(t, n)
    BY <1>2, <2>1, <2>3 DEF Before
  <2>4. CASE New(s, m) /\ ~New(t, n)
    <3>1. t = 4
      BY <1>2, <2>1, <2>4 DEF Before
    <3>2. Before(4, 1, 1, 4, Up(4, l, 1), n)
      BY <2>1, <3>1 DEF Before, Up
    <3>3. At(4, 1, 1) /\ IdAt(s, k, m)' = IdAt(4, 1, 1)
      BY <1>8, <2>4
    <3>4. At(4, Up(4, l, 1), n) /\ IdAt(t, l, n)' = IdAt(4, Up(4, l, 1), n)
      BY <1>8, <2>4, <3>1
    <3> HIDE DEF New
    <3> QED  BY <1>9, <3>2, <3>3, <3>4 DEF Ordered
  <2>5. CASE ~New(s, m) /\ New(t, n)
    <3>1. At(s, Up(s, k, 1), m) /\ IdAt(s, k, m)' = IdAt(s, Up(s, k, 1), m)
      BY <1>8, <2>5
    <3>2. At(4, 1, 1) /\ IdAt(t, l, n)' = IdAt(4, 1, 1)
      BY <1>8, <2>5
    <3>3. Before(s, Up(s, k, 1), m, 4, 1, 1)
      BY <2>1, <2>5 DEF Before
    <3> HIDE DEF New
    <3> QED  BY <1>9, <3>1, <3>2, <3>3 DEF Ordered
  <2> QED  BY <2>2, <2>3, <2>4, <2>5
<1>10. ASSUME NEW id PROVE Published(id)' <=> Published(id)
  <2>1. ASSUME Published(id)' PROVE Published(id)
    <3>1. PICK s, k, m : At(s, k, m)' /\ IdAt(s, k, m)' = id
      BY <2>1 DEF Published
    <3> QED  BY <1>8, <3>1 DEF Published
  <2>2. ASSUME Published(id) PROVE Published(id)'
    <3>1. PICK s, k, m : At(s, k, m) /\ IdAt(s, k, m) = id
      BY <2>2 DEF Published
    <3>2. s \in 1 .. 4 /\ k \in Nat \ {0} /\ m \in 1 .. Len(Batch(s, k)) /\ Batch(s, k) # <<>>
      BY <3>1, SendsTypes DEF At
    <3>3. CASE s = 4 /\ k = 1
      <4>1. m = 1
        <5> DEFINE n == Len(Batch(4, 1))
        <5>1. n = 1 /\ m \in 1 .. n
          BY <1>4, <3>2, <3>3
        <5> HIDE DEF n
        <5> QED  BY <5>1
      <4>2. At(3, 1, last + 1)' /\ IdAt(3, 1, last + 1)' = id
        BY <1>2, <1>4, <1>5, <3>1, <3>3, <4>1 DEF At, IdAt
      <4> QED  BY <4>2 DEF Published
    <3>4. CASE s = 3
      <4>1. k = 1 /\ m \in 1 .. last /\ m \in 1 .. last + 1
        BY <1>2, <1>5, <1>7, <3>2, <3>4
      <4>2. At(3, 1, m)' /\ IdAt(3, 1, m)' = id
        BY <1>5, <3>1, <3>4, <4>1 DEF At, IdAt
      <4> QED  BY <4>2 DEF Published
    <3>5. CASE s # 3 /\ ~(s = 4 /\ k = 1)
      <4>1. PICK j \in Nat \ {0} : Up(s, j, 1) = k
        <5>1. CASE s \in {2, 4}
          <6>1. k - 1 \in Nat \ {0} /\ k - 1 + 1 = k
            BY <1>4, <3>2, <3>5, <5>1
          <6> QED  BY <5>1, <6>1 DEF Up
        <5>2. CASE s \notin {2, 4}
          BY <3>2, <5>2 DEF Up
        <5> QED  BY <5>1, <5>2
      <4>2. Batch(s, j)' = Batch(s, k)
        BY <1>6, <3>2, <3>5, <4>1
      <4>3. At(s, j, m)' /\ IdAt(s, j, m)' = id
        BY <3>1, <3>2, <4>2 DEF At, IdAt
      <4> QED  BY <4>3 DEF Published
    <3> QED  BY <3>3, <3>4, <3>5
  <2> QED  BY <2>1, <2>2
<1> QED  BY <1>9, <1>10

\* The join node sends what it has collected.
LEMMA JoinTimeoutKeeps ==
    ASSUME TypeOK, JoinTimeout
    PROVE  (Ordered => Ordered') /\ \A id : Published(id)' <=> Published(id)
<1>1. /\ Extended /\ joined' = <<>> /\ produced' = produced
      /\ queue'[Len(queue) + 1].to = "Kafka_producer" /\ Readings(queue'[Len(queue) + 1].msg) = joined
  BY JoinTimeoutStep DEF JoinTimeout
<1>2. PICK last \in Nat : last = Len(queue)
  BY Lengths
<1>3. Batch(2, last + 1)' = Batch(3, 1) /\ Batch(2, last + 1) = <<>>
  <2>1. Carried(2, queue'[last + 1]) = joined
    BY <1>1, <1>2 DEF Carried
  <2>2. Batch(2, last + 1)' = Carried(2, queue'[last + 1]) /\ Batch(2, last + 1) = <<>>
    BY <1>1, <1>2, QueueBatches
  <2> QED  BY <2>1, <2>2, BatchesAre DEF BatchIs
<1>4. \A k : Batch(3, k)' = <<>> /\ (k # 1 => Batch(3, k) = <<>>)
  BY <1>1, BatchesAre, BatchesWillBe DEF BatchIs
<1>5. \A s \in 1 .. 4, k \in Nat \ {0} : s # 3 /\ ~(s = 2 /\ k = last + 1) => Batch(s, k)' = Batch(s, k)
  <2> SUFFICES ASSUME NEW s \in 1 .. 4, NEW k \in Nat \ {0}, s # 3, ~(s = 2 /\ k = last + 1)
               PROVE  Batch(s, k)' = Batch(s, k)
    OBVIOUS
  <2>1. CASE s = 1
    BY <1>1, <2>1, OtherBatches
  <2>2. CASE s \in {2, 4} /\ k # last + 1
    BY <1>1, <1>2, <2>2, QueueBatches
  <2>3. CASE s = 4 /\ k = last + 1
    <3>1. Carried(4, queue'[last + 1]) = <<>>
      BY <1>1, <1>2 DEF Carried
    <3> QED  BY <1>1, <1>2, <2>3, <3>1, QueueBatches
  <2> QED  BY <2>1, <2>2, <2>3
<1>6. \A k, m : At(2, k, m)' => k <= last + 1
  <2> SUFFICES ASSUME NEW k, NEW m, At(2, k, m)', ~(k <= last + 1) PROVE FALSE
    OBVIOUS
  <2>1. k \in Nat \ {0} /\ m \in 1 .. Len(Batch(2, k)') /\ Batch(2, k)' = Batch(2, k) /\ k \notin 1 .. Len(queue)
    BY <1>2, <1>5 DEF At
  <2> QED  BY <2>1, BatchesAre, SendsTypes DEF BatchIs
<1> DEFINE New(s, k) == s = 2 /\ k = last + 1
<1>7. \A s, k, m : At(s, k, m)' =>
        /\ s # 3
        /\ New(s, k) => At(3, 1, m) /\ IdAt(s, k, m)' = IdAt(3, 1, m)
        /\ ~New(s, k) => At(s, k, m) /\ IdAt(s, k, m)' = IdAt(s, k, m)
  <2> SUFFICES ASSUME NEW s, NEW k, NEW m, At(s, k, m)'
               PROVE  /\ s # 3
                      /\ New(s, k) => At(3, 1, m) /\ IdAt(s, k, m)' = IdAt(3, 1, m)
                      /\ ~New(s, k) => At(s, k, m) /\ IdAt(s, k, m)' = IdAt(s, k, m)
    OBVIOUS
  <2>1. /\ s \in 1 .. 4 /\ k \in Nat \ {0} /\ m \in 1 .. Len(Batch(s, k)') /\ Batch(s, k)' # <<>>
    BY SendsTypes DEF At
  <2>2. s # 3
    BY <1>4, <2>1
  <2>3. CASE New(s, k)
    BY <1>3, <2>1, <2>2, <2>3 DEF At, IdAt
  <2>4. CASE ~New(s, k)
    <3>1. Batch(s, k)' = Batch(s, k)
      BY <1>5, <2>1, <2>2, <2>4
    <3> QED  BY <2>1, <2>2, <2>4, <3>1 DEF At, IdAt
  <2> QED  BY <2>3, <2>4
<1>8. ASSUME Ordered PROVE Ordered'
  <2> SUFFICES ASSUME NEW s, NEW k, NEW m, NEW t, NEW l, NEW n,
                      At(s, k, m)', At(t, l, n)', Before(s, k, m, t, l, n)
               PROVE  IdAt(s, k, m)' < IdAt(t, l, n)'
    BY DEF Ordered, Before
  <2>1. k \in Nat \ {0} /\ l \in Nat \ {0} /\ s \in {1, 2, 4} /\ t \in {1, 2, 4}
    BY <1>7 DEF At
  <2>2. CASE ~New(s, k) /\ ~New(t, l)
    <3>1. /\ At(s, k, m) /\ IdAt(s, k, m)' = IdAt(s, k, m)
          /\ At(t, l, n) /\ IdAt(t, l, n)' = IdAt(t, l, n)
      BY <1>7, <2>2
    <3> QED  BY <1>8, <3>1 DEF Ordered
  <2>3. CASE New(s, k) /\ New(t, l)
    <3>1. At(3, 1, m) /\ IdAt(s, k, m)' = IdAt(3, 1, m) /\ At(3, 1, n) /\ IdAt(t, l, n)' = IdAt(3, 1, n)
      BY <1>7, <2>3
    <3>2. Before(3, 1, m, 3, 1, n)
      BY <1>2, <2>3 DEF Before
    <3> QED  BY <1>8, <3>1, <3>2 DEF Ordered
  <2>4. CASE New(s, k) /\ ~New(t, l)
    <3>1. t = 4
      <4>1. t = 2 => l <= last + 1 /\ l # last + 1
        BY <1>6, <2>4
      <4> QED  BY <1>2, <2>1, <2>4, <4>1 DEF Before
    <3>2. At(3, 1, m) /\ IdAt(s, k, m)' = IdAt(3, 1, m) /\ At(t, l, n) /\ IdAt(t, l, n)' = IdAt(t, l, n)
      BY <1>7, <2>4
    <3>3. Before(3, 1, m, t, l, n)
      BY <3>1 DEF Before
    <3> QED  BY <1>8, <3>2, <3>3 DEF Ordered
  <2>5. CASE ~New(s, k) /\ New(t, l)
    <3>1. At(s, k, m) /\ IdAt(s, k, m)' = IdAt(s, k, m) /\ At(3, 1, n) /\ IdAt(t, l, n)' = IdAt(3, 1, n)
      BY <1>7, <2>5
    <3>2. Before(s, k, m, 3, 1, n)
      BY <2>1, <2>5 DEF Before
    <3> QED  BY <1>8, <3>1, <3>2 DEF Ordered
  <2> QED  BY <2>2, <2>3, <2>4, <2>5
<1>9. ASSUME NEW id PROVE Published(id)' <=> Published(id)
  <2>1. ASSUME Published(id)' PROVE Published(id)
    <3>1. PICK s, k, m : At(s, k, m)' /\ IdAt(s, k, m)' = id
      BY <2>1 DEF Published
    <3> QED  BY <1>7, <3>1 DEF Published
  <2>2. ASSUME Published(id) PROVE Published(id)'
    <3>1. PICK s, k, m : At(s, k, m) /\ IdAt(s, k, m) = id
      BY <2>2 DEF Published
    <3>2. s \in 1 .. 4 /\ k \in Nat \ {0} /\ m \in 1 .. Len(Batch(s, k)) /\ Batch(s, k) # <<>>
      BY <3>1, SendsTypes DEF At
    <3>3. CASE s = 3
      <4>1. At(2, last + 1, m)' /\ IdAt(2, last + 1, m)' = id
        BY <1>2, <1>3, <1>4, <3>1, <3>2, <3>3 DEF At, IdAt
      <4> QED  BY <4>1 DEF Published
    <3>4. CASE s # 3
      <4>1. Batch(s, k)' = Batch(s, k)
        BY <1>3, <1>5, <3>2, <3>4
      <4>2. At(s, k, m)' /\ IdAt(s, k, m)' = id
        BY <3>1, <3>2, <4>1 DEF At, IdAt
      <4> QED  BY <4>2 DEF Published
    <3> QED  BY <3>3, <3>4
  <2> QED  BY <2>1, <2>2
<1> QED  BY <1>8, <1>9

\* But for the moment between the two nodes, what is blended is published.
SamePublished ==
    /\ \A id \in 1 .. Len(received) :
         IsAggregated(id) <=> \/ Published(id)
                              \/ Between("sensor-data") /\ aggregatorMap # <<>> /\ id = queue[1].msg.id
    /\ Between("sensor-data") => \A id \in 1 .. Len(received) : Published(id) => id < queue[1].msg.id

LEMMA PublishedTypes ==
    ASSUME TypeOK, NEW id, Published(id) \/ IsAggregated(id) \/ (Between("sensor-data") /\ id = queue[1].msg.id)
    PROVE  id \in 1 .. Len(received)
<1>1. CASE Published(id)
  BY <1>1, AtTypes DEF Published
<1>2. CASE IsAggregated(id)
  BY <1>2, AggregatedFacts, ElementOfSeq DEF IsAggregated
<1>3. CASE Between("sensor-data") /\ id = queue[1].msg.id
  BY <1>3, FirstEvent, Shapes DEF Between
<1> QED  BY <1>1, <1>2, <1>3

\* What a step does to the published readings.
LEMMA PublishedMoves ==
    ASSUME TypeOK, Next, ~Restart
    PROVE  \/ (Ordered => Ordered') /\ \A id : Published(id)' <=> Published(id)
           \/ queue # <<>> /\ Enrich /\ enrichmentMap # Undefined
  BY EnrichedMoves, RestsKeeps, ProduceKeeps, JoinKeeps, JoinTimeoutKeeps

LEMMA SamePublishedStep ==
    ASSUME TypeOK, Paired, ListOnce, InTurn, BlendedInTurn, BothLists, SamePublished, Next, ~Restart
    PROVE  SamePublished'
<1>1. Len(received) \in Nat /\ 1 .. Len(received) \subseteq 1 .. Len(received')
  BY OldReadings
<1>2. \A id : IsAggregated(id) <=> \/ Published(id)
                                   \/ Between("sensor-data") /\ aggregatorMap # <<>> /\ id = queue[1].msg.id
  BY PublishedTypes DEF SamePublished
<1>3. Between("sensor-data") => \A id : Published(id) => id < queue[1].msg.id
  BY PublishedTypes DEF SamePublished
<1>4. CASE queue # <<>> /\ Aggregate
  <2>1. /\ Between("sensor-data")' /\ queue[1].to = "POI_Aggregator" /\ queue[1].msg.kind = "sensor-data"
        /\ queue'[1].msg = queue[1].msg /\ ~Between("sensor-data") /\ 1 \in 1 .. Len(queue)
    BY <1>4, BetweenStarts, AggregateStep, FirstEvent DEF Between
  <2>2. \A id : Published(id)' <=> Published(id)
    <3>1. ~Enrich
      BY <1>4, <2>1, EnrichStep
    <3> QED  BY <3>1, PublishedMoves
  <2>3. \A id : Published(id) => id < queue[1].msg.id
    <3>1. IsReading(queue[1])
      BY <2>1 DEF IsReading
    <3>2. \A id : IsAggregated(id) => id < queue[1].msg.id
      BY <2>1, <3>1 DEF BlendedInTurn, IsAggregated
    <3> QED  BY <1>2, <3>2
  <2>4. \A id : IsAggregated(id)' <=> IsAggregated(id) \/ (aggregatorMap' # <<>> /\ id = queue[1].msg.id)
    <3>1. CASE Blends
      <4>1. Len(AggregatedIds) \in Nat /\ aggregatorMap' # <<>>
        BY <1>4, <3>1, AggregatedFacts, SameEmptiness DEF Blends
      <4> QED  BY <3>1, <4>1 DEF Blends, IsAggregated
    <3>2. CASE AggregatedIds' = AggregatedIds /\ aggregatorMap = <<>>
      <4>1. aggregatorMap' = <<>>
        BY <1>4, <3>2, SameEmptiness
      <4> QED  BY <3>2, <4>1 DEF IsAggregated
    <3> QED  BY <1>4, <3>1, <3>2, LevelsMove
  <2> QED  BY <1>2, <2>1, <2>2, <2>3, <2>4 DEF SamePublished
<1>5. CASE queue # <<>> /\ Enrich
  <2>1. /\ queue[1].to = "Enrichment" /\ queue[1].msg.kind = "sensor-data"
        /\ Between("sensor-data") /\ ~Between("poi") /\ (Shifted(0) \/ Shifted(1)) /\ aggregatorMap' = aggregatorMap
    BY <1>5, EnrichStep DEF Between, Enrich
  <2>2. ~Between("sensor-data")'
    <3>1. ~Extended
      BY <2>1, Lengths DEF Shifted, Extended
    <3> QED  BY <2>1, <3>1, BetweenComes
  <2>3. \A id : IsAggregated(id)' <=> IsAggregated(id)
    <3>1. AggregatedIds' = AggregatedIds
      BY <2>1 DEF AggregatedIds, Ids
    <3> QED  BY <3>1 DEF IsAggregated
  <2>4. \A id : Published(id)' <=> Published(id) \/ (enrichmentMap # Undefined /\ id = queue[1].msg.id)
    <3>1. CASE enrichmentMap # Undefined
      BY <1>5, <3>1, EnrichKeeps
    <3>2. CASE enrichmentMap = Undefined
      BY <3>2, PublishedMoves
    <3> QED  BY <3>1, <3>2
  <2>5. aggregatorMap = <<>> <=> enrichmentMap = Undefined
    BY <2>1 DEF BothLists
  <2> QED  BY <1>2, <2>1, <2>2, <2>3, <2>4, <2>5 DEF SamePublished
<1>6. CASE queue # <<>> /\ AggregatorSetsMap
  <2>1. /\ Between("poi")' /\ queue[1].to = "POI_Aggregator" /\ queue[1].msg.kind = "poi"
        /\ ~Between("sensor-data")
    BY <1>6, BetweenStarts, AggregatorSetsMapStep DEF Between
  <2>2. ~Between("sensor-data")'
    BY <2>1 DEF Between
  <2>3. \A id : IsAggregated(id)' <=> IsAggregated(id)
    <3>1. ~Blends
      BY <2>1 DEF Blends, IsReading
    <3>2. AggregatedIds' = AggregatedIds
      BY <3>1, LevelsMove
    <3> QED  BY <3>2 DEF IsAggregated
  <2>4. \A id : Published(id)' <=> Published(id)
    <3>1. ~Enrich
      BY <1>6, <2>1, EnrichStep
    <3> QED  BY <3>1, PublishedMoves
  <2> QED  BY <1>2, <2>1, <2>2, <2>3, <2>4 DEF SamePublished
<1>7. CASE ~(queue # <<>> /\ (Aggregate \/ AggregatorSetsMap)) /\ ~(queue # <<>> /\ Enrich)
  <2>1. aggregatorMap' = aggregatorMap
    BY <1>7, MapChanges
  <2>2. \A id : IsAggregated(id)' <=> IsAggregated(id)
    <3>1. AggregatedIds' = AggregatedIds
      BY <2>1 DEF AggregatedIds, Ids
    <3> QED  BY <3>1 DEF IsAggregated
  <2>3. \A id : Published(id)' <=> Published(id)
    BY <1>7, PublishedMoves
  <2>4. Between("sensor-data")' => Between("sensor-data") /\ queue'[1] = queue[1]
    BY <1>7, BetweenComes
  <2>5. Between("sensor-data") => Between("sensor-data")' /\ queue'[1] = queue[1]
    <3> SUFFICES ASSUME Between("sensor-data") PROVE Between("sensor-data")' /\ queue'[1] = queue[1]
      OBVIOUS
    <3>1. queue # <<>>
      BY DEF Between
    <3> QED  BY <1>7, <3>1, BetweenEnds
  <2>6. \A id : IsAggregated(id)' <=> \/ Published(id)'
                                      \/ Between("sensor-data")' /\ aggregatorMap' # <<>> /\ id = queue'[1].msg.id
    BY <1>2, <2>1, <2>2, <2>3, <2>4, <2>5
  <2>7. Between("sensor-data")' => \A id : Published(id)' => id < queue'[1].msg.id
    BY <1>3, <2>3, <2>4
  <2> QED  BY <2>6, <2>7 DEF SamePublished
<1> QED  BY <1>4, <1>5, <1>6, <1>7

LEMMA OrderedStep ==
    ASSUME TypeOK, SamePublished, Ordered, Next, ~Restart
    PROVE  Ordered'
<1>1. CASE queue # <<>> /\ Enrich /\ enrichmentMap # Undefined
  <2>1. Between("sensor-data")
    BY <1>1, EnrichStep DEF Between
  <2>2. \A id : Published(id) => id < queue[1].msg.id
    BY <2>1, PublishedTypes DEF SamePublished
  <2> QED  BY <1>1, <2>2, EnrichKeeps
<1> QED  BY <1>1, PublishedMoves

LEMMA AgreedIs == TypeOK => (Agreed <=> BothLists /\ SamePublished)
<1> SUFFICES ASSUME TypeOK PROVE Agreed <=> BothLists /\ SamePublished
  OBVIOUS
<1>1. \A id : Enriched(id) <=> Published(id)
  BY PublishedIsEnriched
<1> QED  BY <1>1 DEF Agreed, BothLists, SamePublished

-----------------------------------------------------------------------------
(* The inductive invariant holds *)

LEMMA InitInv == Init => Inv
<1> SUFFICES ASSUME Init PROVE Inv
  OBVIOUS
<1>1. TypeOK
  BY InitTypes
<1>2. Len(queue) = 0 /\ Len(aggregatorMap) = 0 /\ Len(received) = 0 /\ Len(produced) = 0 /\ Len(joined) = 0
  BY SendsTypes DEF Init
<1>3. queue = <<>> /\ aggregatorMap = <<>> /\ AggregatedIds = <<>> /\ Len(AggregatedIds) = 0
  BY SendsTypes DEF Init, AggregatedIds
<1>4. Paired /\ ListOnce /\ Faithful /\ InTurn
  BY <1>2, <1>3 DEF Paired, ListOnce, Faithful, InTurn
<1>5. BlendedInTurn /\ NoneMissed
  BY <1>2, <1>3 DEF BlendedInTurn, NoneMissed
<1>6. \A s, k, m : ~At(s, k, m)
  <2> SUFFICES ASSUME NEW s, NEW k, NEW m, At(s, k, m) PROVE FALSE
    OBVIOUS
  <2>1. IdAt(s, k, m) \in 1 .. Len(received)
    BY <1>1, AtTypes
  <2> QED  BY <1>2, <2>1
<1>7. OlderFirst
  BY <1>1, <1>6, OrderedIsOlderFirst DEF Ordered
<1>8. Agreed
  <2>1. enrichmentMap = Undefined
    BY DEF Init
  <2> QED  BY <1>2, <1>3, <2>1 DEF Agreed, Between
<1> QED  BY <1>1, <1>4, <1>5, <1>7, <1>8 DEF Inv

LEMMA NextInv == Inv /\ [Next]_vars => Inv'
<1> SUFFICES ASSUME Inv, [Next]_vars PROVE Inv'
  OBVIOUS
<1>1. CASE Restart
  BY <1>1, RestartStep, InitInv, PTL
<1>2. CASE Next /\ ~Restart
  <2>1. TypeOK /\ TypeOK'
    BY NextTypes DEF Inv
  <2>2. Paired' /\ ListOnce' /\ Faithful'
    BY <1>2, PairedStep, ListOnceStep, FaithfulStep DEF Inv
  <2>3. InTurn' /\ BlendedInTurn' /\ NoneMissed'
    BY <1>2, InTurnStep, BlendedInTurnStep, NoneMissedStep DEF Inv
  <2>4. Ordered /\ BothLists /\ SamePublished
    BY <2>1, OrderedIsOlderFirst, AgreedIs DEF Inv
  <2>5. Ordered' /\ BothLists' /\ SamePublished'
    BY <1>2, <2>4, OrderedStep, BothListsStep, SamePublishedStep DEF Inv
  <2>6. OlderFirst'
    <3>1. TypeOK' => (OlderFirst' <=> Ordered')
      BY OrderedIsOlderFirst, PTL
    <3> QED  BY <2>1, <2>5, <3>1
  <2>7. Agreed'
    <3>1. TypeOK' => (Agreed' <=> BothLists' /\ SamePublished')
      BY AgreedIs, PTL
    <3> QED  BY <2>1, <2>5, <3>1
  <2> QED  BY <2>1, <2>2, <2>3, <2>6, <2>7 DEF Inv
<1>3. CASE UNCHANGED vars
  <2>1. TypeOK'
    BY NextTypes DEF Inv
  <2>2. Paired' /\ ListOnce' /\ Faithful' /\ InTurn'
    BY <1>3 DEF Inv, Paired, ListOnce, Faithful, InTurn, vars
  <2>3. BlendedInTurn' /\ NoneMissed'
    BY <1>3 DEF Inv, BlendedInTurn, NoneMissed, AggregatedIds, Ids, IsAggregated, OnItsWay, vars
  <2>4. \A s, k : Batch(s, k)' = Batch(s, k)
    BY <1>3 DEF Batch, vars
  <2>5. OlderFirst'
    BY <1>3, <2>4 DEF Inv, OlderFirst, Span, vars
  <2>6. \A id : Enriched(id)' <=> Enriched(id)
    BY <1>3, <2>4 DEF Enriched, Span, vars
  <2>7. Agreed'
    BY <1>3, <2>6 DEF Inv, Agreed, Between, IsAggregated, AggregatedIds, Ids, vars
  <2> QED  BY <2>1, <2>2, <2>3, <2>5, <2>7 DEF Inv
<1> QED  BY <1>1, <1>2, <1>3

THEOREM Invariant == Spec => []Inv
  BY InitInv, NextInv, PTL DEF Spec

-----------------------------------------------------------------------------
(* The properties *)

\* A reading that moved the levels is published, once and in its turn, and one
\* that is lost for the want of a list has moved none.
THEOREM ReadingsAgree == Spec => []SameReadings
<1>1. Inv => SameReadings
  <2> SUFFICES ASSUME Inv, queue = <<>> \/ Head(queue).to # "Enrichment" PROVE
                 /\ \A id \in 1 .. Len(received) :
                      Enriched(id) <=> \E k \in 1 .. Len(AggregatedIds) : AggregatedIds[k] = id
                 /\ OlderFirst
                 /\ \A i \in DOMAIN aggregatorMap : Ids(aggregatorMap[i].blended) = AggregatedIds
    BY DEF SameReadings
  <2>1. ~Between("sensor-data")
    BY FirstEvent DEF Inv, Between
  <2>2. \A id \in 1 .. Len(received) : Enriched(id) <=> \E k \in 1 .. Len(AggregatedIds) : AggregatedIds[k] = id
    BY <2>1 DEF Inv, Agreed, IsAggregated
  <2>3. ASSUME NEW i \in DOMAIN aggregatorMap PROVE Ids(aggregatorMap[i].blended) = AggregatedIds
    <3>1. i \in 1 .. Len(aggregatorMap) /\ aggregatorMap # <<>>
      BY LenProperties DEF Inv, TypeOK
    <3>2. aggregatorMap[i].blended = aggregatorMap[1].blended
      BY <3>1 DEF Inv, BlendedInTurn
    <3> QED  BY <3>1, <3>2 DEF AggregatedIds
  <2> QED  BY <2>2, <2>3 DEF Inv
<1> QED  BY <1>1, Invariant, PTL

\* From the first blended reading on, exactly the usable ones are blended, each
\* once and in the order of arrival.
THEOREM NoneIsSkipped == Spec => []NoneSkipped
<1>1. Inv => NoneSkipped
  <2> SUFFICES ASSUME Inv PROVE NoneSkipped
    OBVIOUS
  <2>1. /\ Len(AggregatedIds) \in Nat /\ \A k \in 1 .. Len(AggregatedIds) : AggregatedIds[k] \in 1 .. Len(received)
        /\ AggregatedIds # <<>> => 1 \in 1 .. Len(AggregatedIds)
    BY AggregatedFacts, ElementOfSeq, EmptySeq DEF Inv
  <2>2. \A j, k \in 1 .. Len(AggregatedIds) : j < k => AggregatedIds[j] < AggregatedIds[k]
    BY DEF Inv, BlendedInTurn
  <2>3. ASSUME NEW k \in 1 .. Len(AggregatedIds) PROVE Usable(received[AggregatedIds[k]])
    <3>1. aggregatorMap # <<>>
      BY AggregatedFacts DEF Inv
    <3>2. /\ 1 \in 1 .. Len(aggregatorMap) /\ k \in 1 .. Len(aggregatorMap[1].blended)
          /\ AggregatedIds[k] = aggregatorMap[1].blended[k].id
      BY <3>1, AggregatedFacts DEF Inv
    <3> QED  BY <3>2 DEF Inv, Faithful, Made
  <2>4. ASSUME AggregatedIds # <<>>, NEW id \in AggregatedIds[1] .. Len(received), Usable(received[id])
        PROVE  OnItsWay(id) \/ \E k \in 1 .. Len(AggregatedIds) : AggregatedIds[k] = id
    <3>1. AggregatedIds[1] \in 1 .. Len(received) /\ Len(received) \in Nat
      BY <2>1, <2>4, LenProperties DEF Inv, TypeOK
    <3>2. id \in 1 .. Len(received) /\ ~(id < AggregatedIds[1])
      BY <3>1
    <3> QED  BY <2>1, <2>4, <3>2 DEF Inv, NoneMissed, IsAggregated
  <2> QED  BY <2>2, <2>3, <2>4 DEF NoneSkipped
<1> QED  BY <1>1, Invariant, PTL

\* A level stays a number unless a reading had no noise.
THEOREM LevelsStayNumbers == Spec => []LevelsAreNumbers
<1>1. ASSUME NEW reading PROVE Undefined \notin {Cleaned(reading).lat, Cleaned(reading).lon, Cleaned(reading).reliability}
                               /\ Cleaned(reading).noise = reading.noise
  <2>1. Undefined \notin {0, 5}
    BY UndefinedAssumption
  <2>2. \A value : Default(value, 0) # Undefined /\ Default(value, 5) # Undefined
    BY <2>1 DEF Default
  <2> QED  BY <2>2 DEF Cleaned, Reliability
<1>2. Inv => LevelsAreNumbers
  <2> SUFFICES ASSUME Inv, NEW i \in DOMAIN aggregatorMap, NEW k \in 1 .. Len(aggregatorMap[i].blended)
               PROVE  LET reading == aggregatorMap[i].blended[k] IN
                      /\ Undefined \notin {reading.payload.lat, reading.payload.lon, reading.payload.reliability}
                      /\ reading.payload.noise = Undefined => received[reading.id].noise = Undefined
    BY DEF LevelsAreNumbers
  <2>1. i \in 1 .. Len(aggregatorMap)
    BY LenProperties DEF Inv, TypeOK
  <2>2. aggregatorMap[i].blended[k].payload = Cleaned(received[aggregatorMap[i].blended[k].id])
    BY <2>1 DEF Inv, Faithful, Made
  <2> QED  BY <1>1, <2>2
<1> QED  BY <1>2, Invariant, PTL
=============================================================================
