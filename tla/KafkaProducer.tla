--------------------------- MODULE KafkaProducer ---------------------------
(***************************************************************************)
(* The simulation's way to Kafka: kafka_send_reading of communication.c,   *)
(* called by rank 0 once per reading.                                      *)
(*                                                                         *)
(* librdkafka is not part of the repository.  It copies a message into its *)
(* queue, sends it from a thread of its own and leaves a report when the   *)
(* broker has confirmed it or message.timeout.ms has gone by; a message    *)
(* stays in the count of queue.buffering.max.messages until rd_kafka_poll  *)
(* has given its report to dr_msg_cb.  A confirmation may be lost, and the *)
(* message sent again: it is stored once or more.                          *)
(***************************************************************************)
EXTENDS Naturals, FiniteSets

CONSTANTS
    QueueLimit, \* queue.buffering.max.messages
    Lifetimes,  \* message.timeout.ms, in readings offered meanwhile
    MaxReadings \* bound: readings offered

ASSUME QueueLimitAssumption  == QueueLimit \in Nat \ {0}
ASSUME LifetimesAssumption   == Lifetimes \subseteq Nat
ASSUME MaxReadingsAssumption == MaxReadings \in Nat

VARIABLES
    lifetime, \* the configured one
    offered,  \* readings that kafka_send_reading was called with
    polling,  \* whether it has yet to call rd_kafka_poll
    queue,    \* readings that wait for the broker
    stored,   \* readings in the topic
    reports,  \* readings whose report waits for rd_kafka_poll
    reported, \* readings whose report dr_msg_cb was given
    failed,   \* those of both that were reported as not delivered
    refused,  \* readings that rd_kafka_producev refused, its queue being full
    errored   \* readings that it refused for any other reason

queueVars == <<queue, stored, reports, failed>>
vars      == <<lifetime, offered, polling, queueVars, reported, refused, errored>>

Readings == 1 .. offered

Init ==
    /\ lifetime \in Lifetimes
    /\ offered = 0 /\ polling = FALSE
    /\ queue = {} /\ stored = {} /\ reports = {} /\ failed = {}
    /\ reported = {} /\ refused = {} /\ errored = {}

Outstanding == queue \cup reports

HasMoreRoom == Cardinality(Outstanding) <= QueueLimit \* mutant
HasRoom == Cardinality(Outstanding) < QueueLimit

\* By the time of the next reading every message as old as that has failed.
InTime == \A r \in queue : offered - r < lifetime

\* rd_kafka_producev.  When the queue is full, or it fails for another reason
\* (the size, the topic, a fatal error of the library), the reading is dropped
\* and kafka_send_reading returns; otherwise it goes on to poll.
Produce ==
    /\ ~polling /\ offered < MaxReadings /\ InTime
    /\ offered' = offered + 1
    /\ \/ /\ HasRoom
          /\ queue' = queue \cup {offered'}
          /\ polling' = TRUE
          /\ UNCHANGED <<refused, errored>>
       \/ /\ ~HasRoom
          /\ refused' = refused \cup {offered'}
          /\ UNCHANGED <<queue, polling, errored>>
       \/ /\ errored' = errored \cup {offered'}
          /\ UNCHANGED <<queue, polling, refused>>
    /\ UNCHANGED <<lifetime, stored, reports, failed, reported>>

PollNothing == \* mutant
    /\ polling /\ polling' = FALSE
    /\ UNCHANGED <<lifetime, offered, queueVars, reported, refused, errored>>
PollAgain == \* mutant
    /\ polling /\ polling' = FALSE
    /\ reported' = reported \cup reports
    /\ UNCHANGED <<lifetime, offered, queueVars, refused, errored>>
\* rd_kafka_poll gives all reports there are to dr_msg_cb, which prints the
\* failed ones.
Poll ==
    /\ polling /\ polling' = FALSE
    /\ reported' = reported \cup reports
    /\ reports' = {}
    /\ UNCHANGED <<lifetime, offered, queue, stored, failed, refused, errored>>

Store(r) ==
    /\ r \in queue
    /\ stored' = stored \cup {r}
    /\ UNCHANGED <<lifetime, offered, polling, queue, reports, failed, reported, refused, errored>>

Confirm(r) ==
    /\ r \in queue \cap stored
    /\ queue' = queue \ {r} /\ reports' = reports \cup {r}
    /\ UNCHANGED <<lifetime, offered, polling, stored, failed, reported, refused, errored>>

Expire(r) ==
    /\ r \in queue
    /\ queue' = queue \ {r} /\ reports' = reports \cup {r}
    /\ failed' = failed \cup {r}
    /\ UNCHANGED <<lifetime, offered, polling, stored, reported, refused, errored>>

Next ==
    \/ Produce \/ Poll
    \/ \E r \in queue : Store(r) \/ Confirm(r) \/ Expire(r)

Spec == Init /\ [][Next]_vars

-----------------------------------------------------------------------------
\* Every variable has its type, and the queue keeps its limit.
TypeOK ==
    /\ lifetime \in Lifetimes /\ offered \in Nat /\ polling \in BOOLEAN
    /\ queue \subseteq Readings /\ reports \subseteq Readings /\ reported \subseteq Readings
    /\ refused \subseteq Readings /\ errored \subseteq Readings
    /\ stored \subseteq Readings /\ failed \subseteq Readings
    /\ Cardinality(Outstanding) <= QueueLimit

\* No reading is lost without a word: it was refused, for one reason or the
\* other, or is waiting for the broker, or was reported or will be, one of
\* these; and what was reported as delivered is in the topic.
EachAccounted ==
    /\ Readings = refused \cup errored \cup queue \cup reports \cup reported
    /\ (refused \cup errored) \cap (queue \cup reports \cup reported) = {}
    /\ refused \cap errored = {}
    /\ queue \cap (reports \cup reported) = {} /\ reports \cap reported = {}
    /\ (reports \cup reported) \ failed \subseteq stored

\* No reading finds the queue full, however long the broker is gone, if one
\* more than the messages of a message.timeout.ms fits into it: the poll after
\* each of them makes room in time, and an error in between takes none.
NoneRefused == lifetime + 1 < QueueLimit => refused = {}

\* Otherwise a full queue stays full, and every later reading is refused, even
\* when the broker is back and has taken all messages: the reports wait for
\* rd_kafka_poll, which is only called after a reading that was not refused.
FullForGood ==
    [][Cardinality(Outstanding) = QueueLimit /\ ~polling =>
         Cardinality(Outstanding') = QueueLimit /\ polling' = FALSE]_vars
=============================================================================
