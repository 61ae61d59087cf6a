------------------------------ MODULE TopDump ------------------------------
(***************************************************************************)
(* From the readings of a window to the file poi-top-10.csv: the driver    *)
(* ranks them and publishes the list, and the dumper writes what it finds  *)
(* in the topic.                                                           *)
(***************************************************************************)
EXTENDS TopRanking, CsvDumper

CONSTANT MaxTopic \* bound: records in the topic

ASSUME MaxTopicAssumption == MaxTopic \in Nat

VARIABLE result \* the window's list, until it is published; none, or one

dumpVars == <<vars, dumperVars, result>>

\* The key is the time of the task that publishes the list.
Record(list) == [key |-> Len(topic) + 1, value |-> list]

TopDumpInit == Init /\ DumperInit /\ result = <<>>

WindowDone ==
    /\ \E l \in lists : lists = {l} /\ result' = <<l.list>>
    /\ lists' = {} /\ readings' = <<>>
    /\ UNCHANGED dumperVars

\* The list is given to a KafkaSink, which looks at no result: it may get
\* lost.  The task may fail then, and run again.
PublishTop ==
    /\ result # <<>>
    /\ result' \in {<<>>, result}
    /\ \/ UNCHANGED topic
       \/ Len(topic) < MaxTopic /\ topic' = Append(topic, Record(Head(result)))
    /\ UNCHANGED <<vars, committed, thread, position, batch, fileVars, historyVars>>

\* What the dumper does while the list is being made, with a topic that is
\* empty, it can do as well between then and the list's publication: only
\* these orders are followed.
Dumper == lists = {} /\ DumperNext /\ UNCHANGED <<vars, result>>

TopDumpNext ==
    \/ Next /\ UNCHANGED <<dumperVars, result>>
    \/ WindowDone
    \/ PublishTop
    \/ Dumper

TopDumpSpec == TopDumpInit /\ [][TopDumpNext]_dumpVars
=============================================================================
