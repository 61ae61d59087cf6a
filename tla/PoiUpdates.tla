----------------------------- MODULE PoiUpdates -----------------------------
(***************************************************************************)
(* node-red/flows.json, from "POI trigger update" to the topic poi-data,   *)
(* for one point of interest: its noise level is published periodically.   *)
(*                                                                         *)
(* Each update starts a connect-and-send of its own ("Kafka producer") and *)
(* waits for none that is still under way.  Kafka keeps the order in which *)
(* the sends succeed; one whose answer is lost is stored and sent again.   *)
(***************************************************************************)
EXTENDS Integers, Sequences

CONSTANTS
    Levels,     \* the noise levels of the point of interest
    Start,      \* the time of Node-RED's start, in milliseconds
    Intervals,  \* the times that may pass from one update to the next
    MaxUpdates, \* bound: updates
    MaxRecords  \* bound: records in the topic

ASSUME LevelsAssumption    == Levels \subseteq Int
ASSUME StartAssumption     == Start \in Nat /\ Start >= 1000
ASSUME IntervalsAssumption == Intervals \subseteq Nat \ {0}
ASSUME BoundsAssumption    == MaxUpdates \in Nat /\ MaxRecords \in Nat

VARIABLES
    now,     \* Date.now() at the last update
    updates, \* how many updates there were
    sending, \* readings whose send is under way
    topic    \* the records of poi-data

feedVars == <<now, updates, sending, topic>>

Reading == [ts : Nat, noise : Levels]

FeedInit ==
    /\ now     = Start
    /\ updates = 0
    /\ sending = {}
    /\ topic   = <<>>

\* The aggregator's branch for "update", and the start of run().
Update ==
    /\ updates < MaxUpdates
    /\ updates' = updates + 1
    /\ \E interval \in Intervals, level \in Levels :
         /\ now'     = now + interval
         /\ sending' = sending \cup {[ts |-> now', noise |-> level]}
    /\ UNCHANGED topic

Stored(reading) ==
    /\ Len(topic) < MaxRecords
    /\ topic' = Append(topic, reading)
    /\ sending' \in {sending, sending \ {reading}}
    /\ UNCHANGED <<now, updates>>

\* run().catch(node.error)
SendFails(reading) ==
    /\ sending' = sending \ {reading}
    /\ UNCHANGED <<now, updates, topic>>

FeedNext == Update \/ \E reading \in sending : Stored(reading) \/ SendFails(reading)

\* No send has been overtaken by a later one, or repeated after one.
InOrder == \A i, j \in 1 .. Len(topic) : i < j => topic[i].ts <= topic[j].ts
=============================================================================
