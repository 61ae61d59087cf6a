----------------------------- MODULE CsvDumper -----------------------------
(***************************************************************************)
(* A thread that writes the records of a Kafka topic to a CSV file:        *)
(* DumperThread.java.  Main starts one thread per topic and waits for      *)
(* them.  Each has a topic and a file of its own, but all have the group   *)
(* KafkaDumper: one that joins or leaves, or is too slow, makes Kafka      *)
(* assign the group's topics anew, to all of them.                         *)
(*                                                                         *)
(* The Kafka client is not part of the repository.  With the thread's      *)
(* settings it commits its position from time to time when poll is called, *)
(* before poll takes records, and when it is closed.  It begins at the     *)
(* offset that was committed, or at the topic's end if there is none; and  *)
(* it does so again whenever its topic is assigned to it anew, for which   *)
(* it commits its position, if it can, within a poll.                      *)
(***************************************************************************)
EXTENDS Integers, Sequences

CONSTANTS
    Records,   \* what is in the topic
    MaxStarts, \* bound: starts of the process
    MaxRejoins \* bound: assignments that cost a start its position

ASSUME MaxStartsAssumption == MaxStarts \in Nat /\ MaxRejoins \in Nat

\* No offset.
None == -1

VARIABLES
    topic,     \* the records of the topic
    committed, \* the offset of the group KafkaDumper
    thread,    \* where the thread is
    position,  \* the consumer's position; none while it has to be looked up
    batch,     \* the records of the last poll that are not written yet, by number
    rows,      \* the file's rows, those in the writer's buffer included
    flushed,   \* how many of them are on the disk for certain
    start,     \* not in the code: where the thread began to read
    starts,    \* not in the code: starts of the process
    rejoins    \* not in the code: how often this start has lost its position

fileVars    == <<rows, flushed>>
historyVars == <<start, starts, rejoins>>
dumperVars  == <<topic, committed, thread, position, batch, fileVars, historyVars>>

ThreadAt == {"starting", "polling", "writing", "ended", "killed"}

DumperInit ==
    /\ topic = <<>> /\ committed = None
    /\ thread = "starting" /\ position = None /\ batch = <<>>
    /\ rows = <<>> /\ flushed = 0
    /\ start = None /\ starts = 1 /\ rejoins = 0

\* The file is created, or emptied, and gets its heading.
Open ==
    /\ thread = "starting"
    /\ thread' = "polling"
    /\ rows' = <<>> /\ flushed' = 0
    /\ UNCHANGED <<topic, committed, position, batch, historyVars>>

\* A poll that looks the consumer's position up.
Join ==
    /\ thread = "polling" /\ position = None
    /\ position' = IF committed = None THEN Len(topic) ELSE committed
    /\ start' = IF start = None \/ committed = None THEN position' ELSE start
    /\ UNCHANGED <<topic, committed, thread, batch, fileVars, starts, rejoins>>

\* A poll in which the topic is assigned anew and the position is not committed
\* before, the thread having been thrown out of the group or the commit failed.
Rejoin ==
    /\ thread = "polling" /\ position # None
    /\ rejoins < MaxRejoins
    /\ rejoins' = rejoins + 1
    /\ position' = None
    /\ UNCHANGED <<topic, committed, thread, batch, fileVars, start, starts>>

\* The numbers of the records from one position to another.
Between(from, to) == [i \in 1 .. to - from |-> from + i]

\* A commit may be due or not.
CommitInPollFetched == committed' \in {committed, position'} \* mutant
CommitInPoll == committed' \in {committed, position}

\* A poll that returns records.
Poll ==
    /\ thread = "polling" /\ position # None
    /\ \E n \in position + 1 .. Len(topic) :
         /\ batch' = Between(position, n)
         /\ position' = n
    /\ CommitInPoll
    /\ thread' = "writing"
    /\ UNCHANGED <<topic, fileVars, historyVars>>

\* A poll that returns none: what follows it changes nothing.  A position that
\* was committed when the topic is assigned anew is found again.
PollNothing ==
    /\ thread = "polling" /\ position # None
    /\ committed' = position
    /\ UNCHANGED <<topic, thread, position, batch, fileVars, historyVars>>

Write ==
    /\ thread = "writing" /\ batch # <<>>
    /\ rows' = Append(rows, Head(batch)) /\ batch' = Tail(batch)
    /\ UNCHANGED <<topic, committed, thread, position, flushed, historyVars>>

FlushAfterEach == \* mutant
    /\ thread = "writing" /\ rows # <<>>
    /\ flushed' = Len(rows)
    /\ thread' = "polling"
    /\ UNCHANGED <<topic, committed, position, batch, rows, historyVars>>
Flush ==
    /\ thread = "writing" /\ batch = <<>>
    /\ flushed' = Len(rows)
    /\ thread' = "polling"
    /\ UNCHANGED <<topic, committed, position, batch, rows, historyVars>>

\* Some of the rows that were not flushed are on the disk.
BufferLost ==
    \E n \in flushed .. Len(rows) : rows' = SubSeq(rows, 1, n) /\ flushed' = n

\* An IOException of the writer: the consumer is closed and the thread ends,
\* which the rest of the process does not notice.
WriterFails ==
    /\ thread \in {"starting", "writing"}
    /\ thread' = "ended"
    /\ BufferLost
    /\ committed' \in {committed, IF position = None THEN committed ELSE position}
    /\ batch' = <<>>
    /\ UNCHANGED <<topic, position, historyVars>>

Kill ==
    /\ thread \in {"starting", "polling", "writing"}
    /\ thread' = "killed"
    /\ BufferLost
    /\ batch' = <<>>
    /\ UNCHANGED <<topic, committed, position, historyVars>>

\* The process is started anew, after whatever ended this thread.
Start ==
    /\ thread \in {"killed", "ended"} /\ starts < MaxStarts
    /\ thread' = "starting" /\ starts' = starts + 1
    /\ position' = None /\ start' = None /\ rejoins' = 0
    /\ UNCHANGED <<topic, committed, batch, fileVars>>

DumperNext ==
    \/ Open \/ Join \/ Rejoin \/ Poll \/ PollNothing \/ Write \/ Flush
    \/ WriterFails \/ Kill \/ Start

\* Whoever writes to the topic.
Stored ==
    /\ topic' \in Seq(Records) /\ Len(topic') > Len(topic)
    /\ SubSeq(topic', 1, Len(topic)) = topic
    /\ UNCHANGED <<committed, thread, position, batch, fileVars, historyVars>>

DumperSpec == DumperInit /\ [][DumperNext \/ Stored]_dumperVars

-----------------------------------------------------------------------------
\* The records that were taken from the topic, in that order.
Fetched == rows \o batch

\* A thread writes no record without all those between the position that it
\* began with and that record, and takes none that it does not write unless it
\* ends.  A position that is lost makes it repeat some, and skip none; or, if
\* nothing was committed by then, begin anew at the topic's end.  If none is
\* lost each record is written once, in the order of the topic.  The file has
\* no other rows: it is emptied on every start.
FileFollowsTopic ==
    start # None =>
        /\ \A i \in DOMAIN Fetched : Fetched[i] \in 1 .. Len(topic)
        /\ \A i \in DOMAIN Fetched : \A n \in start + 1 .. Fetched[i] :
               \E j \in 1 .. i : Fetched[j] = n
        /\ thread \in {"polling", "writing"} =>
               \A n \in start + 1 .. position : \E i \in DOMAIN Fetched : Fetched[i] = n
        /\ rejoins = 0 => \A i \in DOMAIN Fetched : Fetched[i] = start + i

\* A record that the group has committed, and that is therefore never read
\* again, is on the disk, also if the process is killed at any point; but not
\* after the thread ended because it could not write: closing the consumer
\* then may commit records that were read and not written.
CommittedOnDisk ==
    start # None /\ thread # "ended" =>
        \A n \in start + 1 .. committed : \E i \in 1 .. flushed : rows[i] = n
=============================================================================
