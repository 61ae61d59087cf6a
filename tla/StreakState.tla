---------------------------- MODULE StreakState ----------------------------
(***************************************************************************)
(* The analytics' search for the longest streak of good noise level:       *)
(* DataAnalytics.java's mapWithState and StreakState.java, for one key.    *)
(*                                                                         *)
(* Spark cuts the topic into batches, calls updateState for the readings   *)
(* of one and then runs the task that publishes the results.  A task that  *)
(* fails is run again from its first result, and after MaxFailures of them *)
(* awaitTermination throws and the driver ends.  Nothing has to start it   *)
(* again: the compose file gives it no restart policy.  Who does gets a    *)
(* driver that kept no offsets and does not recover from its checkpoint:   *)
(* it begins at the end of the topic, with no StreakState, that is with    *)
(* one of zeros.                                                           *)
(***************************************************************************)
EXTENDS PoiUpdates

CONSTANT MaxFailures \* spark.task.maxFailures: with as many, the driver ends

ASSUME MaxFailuresAssumption == MaxFailures \in Nat \ {0}

T == 69

VARIABLES
    running,       \* the driver runs
    position,      \* readings taken from the topic
    batch_end,     \* the last reading of the running batch
    currentValue,
    maxValue,
    baseTimestamp,
    results,       \* the longest streaks that the batch has found
    sent,          \* how many of them the task has given to its KafkaSink
    failures,      \* how often the task has failed
    published,     \* the topic poi-streak
    lost,          \* not in the code: results of which a KafkaSink lost a send
    seen           \* not in the code: the readings since the driver's start

stateVars  == <<currentValue, maxValue, baseTimestamp>>
streakVars == <<running, position, batch_end, stateVars, results, sent, failures,
                published, lost, seen>>
vars       == <<feedVars, streakVars>>

\* What is published is a number of seconds; the first record the driver has
\* seen and the one that ended the streak are remembered for the properties.
Streak == [time : Nat, first : 1 .. MaxRecords, last : 1 .. MaxRecords]

Init ==
    /\ FeedInit
    /\ running = TRUE
    /\ position = 0 /\ batch_end = 0
    /\ currentValue = 0 /\ maxValue = 0 /\ baseTimestamp = 0
    /\ results = <<>> /\ sent = 0 /\ failures = 0
    /\ published = {} /\ lost = {}
    /\ seen = <<>>

BatchDone == position = batch_end /\ sent = Len(results)

StartBatch ==
    /\ running
    /\ BatchDone
    /\ batch_end < Len(topic)
    /\ batch_end' = Len(topic)
    /\ results' = <<>> /\ sent' = 0 /\ failures' = 0
    /\ UNCHANGED <<feedVars, running, position, stateVars, published, lost, seen>>

TsSecs(reading) == reading.ts \div 1000

IsLoudFrom(reading) == reading.noise >= T \* mutant
IsLoud(reading) == reading.noise > T

BaseOnce(reading) == IF baseTimestamp = 0 THEN TsSecs(reading) ELSE baseTimestamp \* mutant
Base(reading) == IF baseTimestamp = 0 \/ IsLoud(reading) THEN TsSecs(reading) ELSE baseTimestamp

Current(reading) == IF IsLoud(reading) THEN currentValue ELSE TsSecs(reading) - Base(reading)

IsRecordIfDifferent(reading) == ~IsLoud(reading) /\ Current(reading) # maxValue \* mutant
IsRecord(reading) == ~IsLoud(reading) /\ Current(reading) > maxValue

UpdateState(reading) ==
    /\ baseTimestamp' = Base(reading)
    /\ currentValue'  = Current(reading)
    /\ IF IsRecord(reading)
       THEN /\ maxValue' = currentValue'
            /\ results'  = Append(results, [time  |-> maxValue',
                                            first |-> position + 1 - Len(seen),
                                            last  |-> position + 1])
       ELSE UNCHANGED <<maxValue, results>>

Call ==
    /\ running
    /\ position < batch_end
    /\ UpdateState(topic[position + 1])
    /\ position' = position + 1
    /\ seen' = Append(seen, topic[position + 1])
    /\ UNCHANGED <<feedVars, running, batch_end, sent, failures, published, lost>>

\* The task has a result to publish.
TaskRuns == running /\ position = batch_end /\ sent < Len(results)

\* KafkaSink.publish looks at no outcome: what it sends may get lost.
Send(result) ==
    \/ published' = published \cup {result} /\ UNCHANGED lost
    \/ lost' = lost \cup {result} /\ UNCHANGED published

PublishFirst == \* mutant
    /\ TaskRuns
    /\ Send(results[sent + 1])
    /\ sent' = Len(results)
    /\ UNCHANGED <<feedVars, running, position, batch_end, stateVars, results, failures, seen>>
Publish ==
    /\ TaskRuns
    /\ Send(results[sent + 1])
    /\ sent' = sent + 1
    /\ UNCHANGED <<feedVars, running, position, batch_end, stateVars, results, failures, seen>>

\* The task is run again, or has failed for good and the driver with it.
TaskFails ==
    /\ TaskRuns
    /\ failures' = failures + 1
    /\ \/ failures' < MaxFailures /\ sent' = 0 /\ UNCHANGED running
       \/ failures' = MaxFailures /\ running' = FALSE /\ UNCHANGED sent
    /\ UNCHANGED <<feedVars, position, batch_end, stateVars, results, published, lost, seen>>

\* The driver crashes or is killed, at any time.
DriverEnds ==
    /\ running
    /\ running' = FALSE
    /\ UNCHANGED <<feedVars, position, batch_end, stateVars, results, sent, failures,
                   published, lost, seen>>

LatestOffset == Len(topic)

DriverRestarts ==
    /\ ~running
    /\ running' = TRUE
    /\ position' = LatestOffset
    /\ batch_end' = LatestOffset
    /\ currentValue' = 0 /\ maxValue' = 0 /\ baseTimestamp' = 0
    /\ results' = <<>> /\ sent' = 0 /\ failures' = 0
    /\ seen' = <<>>
    /\ UNCHANGED <<feedVars, published, lost>>

Next ==
    \/ FeedNext /\ UNCHANGED streakVars
    \/ StartBatch
    \/ Call
    \/ Publish
    \/ TaskFails
    \/ DriverEnds
    \/ DriverRestarts

Spec == Init /\ [][Next]_vars /\ WF_vars(StartBatch) /\ WF_vars(Call) /\ WF_vars(Publish)

-----------------------------------------------------------------------------
(* Properties *)

\* The variables' types.  The current streak is negative after a late reading.
TypeOK ==
    /\ now \in Nat /\ updates \in 0 .. MaxUpdates
    /\ sending \subseteq Reading
    /\ topic \in Seq(Reading) /\ Len(topic) <= MaxRecords
    /\ position \in 0 .. batch_end /\ batch_end \in 0 .. Len(topic)
    /\ currentValue \in Int /\ maxValue \in Nat /\ baseTimestamp \in Nat
    /\ results \in Seq(Streak)
    /\ sent \in 0 .. Len(results)
    /\ failures \in 0 .. MaxFailures
    /\ running \in BOOLEAN
    /\ published \subseteq Streak /\ lost \subseteq Streak
    /\ seen \in Seq(Reading)

\* A published streak is one of good noise level: of the readings that the
\* driver had seen before its end, none of that time is loud.
GoodStreaks ==
    \A streak \in published : ~\E i \in streak.first .. streak.last :
        /\ IsLoud(topic[i])
        /\ topic[i].ts < topic[streak.last].ts
        /\ TsSecs(topic[i]) > TsSecs(topic[streak.last]) - streak.time

\* While readings arrive in the order of their time, StreakState.java:16-30
\* forgets no loud one, across batches, retries and restarts of the driver.
GoodWhileInOrder == InOrder => GoodStreaks

Quiet == INSTANCE QuietStreak WITH
    history <- seen, longest <- maxValue, announced <- {streak.time : streak \in published}

\* In the order of their arrival, late readings included, maxValue is the
\* longest streak of all that was seen since the driver's start, and only
\* such lengths are published (StreakState.java:13-31).
ImplementsQuietStreak == Quiet!QuietStreakSpec

\* Each longest streak that a batch finds gets published, though the task that
\* does it fails half-way and begins again, unless the KafkaSink loses it or the
\* driver ends (DataAnalytics.java:147-150).  No two end with the same record.
StreaksPublished ==
    \A last \in 1 .. MaxRecords :
        (\E i \in DOMAIN results : results[i].last = last)
            ~> (~running \/ \E streak \in published \cup lost : streak.last = last)
=============================================================================
