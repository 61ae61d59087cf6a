--------------------------- MODULE TopDumpProofs ---------------------------
(***************************************************************************)
(* What the driver's ranking, the dumper and the two together promise: for *)
(* any number of readings and ranked entries, any order of merging, any    *)
(* topic that grows and any number of failures and restarts.               *)
(***************************************************************************)
EXTENDS TopDump, SequenceTheorems, FiniteSetTheorems, WellFoundedInduction, TLAPS

-----------------------------------------------------------------------------
(* The dumper *)

Offsets == Nat \cup {None}

TypeInv ==
    /\ topic \in Seq(Records)
    /\ committed \in Offsets /\ position \in Offsets /\ start \in Offsets
    /\ thread \in ThreadAt
    /\ batch \in Seq(Nat) /\ rows \in Seq(Nat)
    /\ flushed \in Nat /\ flushed <= Len(rows)
    /\ rejoins \in Nat

\* What a thread is about to do says how far its batch, its rows and its
\* position are.
ControlInv ==
    /\ committed <= Len(topic) /\ position <= Len(topic)
    /\ start = None => position = None
    /\ position = None /\ rejoins = 0 => start = None
    /\ thread # "writing" => batch = <<>>
    /\ thread = "starting" => start = None
    /\ thread = "writing" => position # None
    /\ thread = "polling" => flushed = Len(rows)
    /\ thread = "polling" /\ start = None => rows = <<>>

\* Before a position is lost it counts the records.
PositionInv ==
    rejoins = 0 /\ position # None /\ thread \in {"polling", "writing"}
        => position = start + Len(rows) + Len(batch)

Inv == TypeInv /\ ControlInv /\ PositionInv /\ FileFollowsTopic /\ CommittedOnDisk

\* One sequence of numbers after the other, number by number.
LEMMA OneAfterOther ==
    ASSUME NEW s \in Seq(Nat), NEW t \in Seq(Nat)
    PROVE  /\ s \o t \in Seq(Nat) /\ Len(s \o t) = Len(s) + Len(t)
           /\ DOMAIN (s \o t) = 1 .. Len(s) + Len(t)
           /\ \A i \in 1 .. Len(s) : (s \o t)[i] = s[i]
           /\ \A i \in Len(s) + 1 .. Len(s) + Len(t) : (s \o t)[i] = t[i - Len(s)]
    BY ConcatProperties

\* With nothing left of a batch it is the rows.
LEMMA FetchedRows ==
    ASSUME TypeInv, batch = <<>>
    PROVE  Fetched = rows
    BY DEF TypeInv, Fetched

LEMMA DumperInitially == DumperInit => Inv
BY DEF DumperInit, Inv, TypeInv, ControlInv, PositionInv, FileFollowsTopic, CommittedOnDisk, Offsets,
       None, ThreadAt

LEMMA DumperOpens == Inv /\ Open => Inv'
BY DEF Open, historyVars, Inv, TypeInv, ControlInv, PositionInv, FileFollowsTopic, CommittedOnDisk,
       Offsets, None, ThreadAt

LEMMA DumperJoins == Inv /\ Join => Inv'
<1> SUFFICES ASSUME Inv, Join PROVE Inv'
    OBVIOUS
<1>1. /\ thread = "polling" /\ position = None /\ batch = <<>> /\ flushed = Len(rows)
      /\ UNCHANGED <<topic, committed, thread, batch, rows, flushed, rejoins>>
      /\ position' = IF committed = None THEN Len(topic) ELSE committed
      /\ start' = IF start = None \/ committed = None THEN position' ELSE start
    BY DEF Join, fileVars, Inv, ControlInv
<1>2. /\ Len(topic) \in Nat /\ committed <= Len(topic) /\ committed \in Offsets /\ start \in Offsets
      /\ rows \in Seq(Nat) /\ Len(rows) \in Nat
    BY DEF Inv, TypeInv, ControlInv
<1>3. position' \in Nat /\ position' <= Len(topic) /\ start' \in Nat
    BY <1>1, <1>2 DEF Offsets, None
<1>4. TypeInv'
    BY <1>1, <1>3 DEF Inv, TypeInv, Offsets
<1>5. ControlInv'
    BY <1>1, <1>2, <1>3 DEF Inv, ControlInv, None
<1>6. Fetched = rows /\ Fetched' = rows /\ DOMAIN rows = 1 .. Len(rows)
    BY <1>1, <1>2, FetchedRows DEF Inv, Fetched
<1>7. CASE start = None
    <2>1. rows = <<>> /\ batch' = <<>> /\ rows' = <<>> /\ start' = position'
        BY <1>1, <1>7 DEF Inv, ControlInv
    <2>2. PositionInv'
        <3>1. Len(rows') = 0 /\ Len(batch') = 0
            BY <2>1
        <3>2. \A m \in Nat : m = m + 0 + 0
            OBVIOUS
        <3>3. position' = start' + Len(rows') + Len(batch')
            BY <1>3, <2>1, <3>1, <3>2, Zenon
        <3> QED
            BY <3>3 DEF PositionInv
    <2>3. FileFollowsTopic'
        <3>1. DOMAIN Fetched' = {}
            BY <1>6, <2>1
        <3>2. start' + 1 .. position' = {}
            <4>1. \A m \in Nat : m + 1 .. m = {}
                OBVIOUS
            <4> QED
                BY <1>3, <2>1, <4>1, Zenon
        <3> QED
            BY <3>1, <3>2 DEF FileFollowsTopic
    <2>4. CommittedOnDisk'
        BY <1>1, <1>2, <1>3, <2>1 DEF CommittedOnDisk, Offsets, None
    <2> QED
        BY <1>4, <1>5, <2>2, <2>3, <2>4 DEF Inv
<1>8. CASE start # None
    <2>1. rejoins # 0 /\ rejoins' # 0
        BY <1>1, <1>8 DEF Inv, ControlInv
    <2>2. PositionInv'
        BY <2>1 DEF PositionInv
    <2>3. \A i \in 1 .. Len(rows) : rows[i] \in 1 .. Len(topic)
        BY <1>6, <1>8 DEF Inv, FileFollowsTopic
    <2>4. CASE committed = None
        <3>1. FileFollowsTopic'
            BY <1>1, <1>2, <1>3, <1>6, <2>1, <2>3, <2>4 DEF FileFollowsTopic
        <3>2. CommittedOnDisk'
            BY <1>1, <1>3, <2>4 DEF CommittedOnDisk, None
        <3> QED
            BY <1>4, <1>5, <2>2, <3>1, <3>2 DEF Inv
    <2>5. CASE committed # None
        <3>1. start' = start /\ position' = committed
            BY <1>1, <1>8, <2>5
        <3>2. \A n \in start + 1 .. committed : \E i \in 1 .. Len(rows) : rows[i] = n
            BY <1>1, <1>8 DEF Inv, CommittedOnDisk
        <3>3. FileFollowsTopic'
            BY <1>1, <1>6, <1>8, <2>1, <3>1, <3>2 DEF Inv, FileFollowsTopic
        <3>4. CommittedOnDisk'
            BY <1>1, <1>8, <3>1 DEF Inv, CommittedOnDisk
        <3> QED
            BY <1>4, <1>5, <2>2, <3>3, <3>4 DEF Inv
    <2> QED
        BY <2>4, <2>5
<1> QED
    BY <1>7, <1>8

LEMMA DumperRejoins == Inv /\ Rejoin => Inv'
<1> SUFFICES ASSUME Inv, Rejoin PROVE Inv'
    OBVIOUS
<1>1. /\ thread = "polling" /\ position # None /\ position' = None /\ rejoins' = rejoins + 1
      /\ UNCHANGED <<topic, committed, thread, batch, rows, flushed, start>>
    BY DEF Rejoin, fileVars
<1>2. rejoins \in Nat /\ rejoins' # 0 /\ Len(topic) \in Nat /\ start \in Offsets
    BY <1>1 DEF Inv, TypeInv
<1>3. TypeInv' /\ ControlInv' /\ PositionInv'
    BY <1>1, <1>2 DEF Inv, TypeInv, ControlInv, PositionInv, Offsets, None
<1>4. Fetched' = Fetched
    BY <1>1 DEF Fetched
<1>5. FileFollowsTopic'
    BY <1>1, <1>2, <1>4 DEF Inv, FileFollowsTopic, Offsets, None
<1>6. CommittedOnDisk'
    BY <1>1 DEF Inv, CommittedOnDisk
<1> QED
    BY <1>3, <1>5, <1>6 DEF Inv

\* A thread that polls has written what it has fetched.
LEMMA PolledIsOnDisk ==
    ASSUME Inv, thread = "polling", start # None
    PROVE  \A n \in start + 1 .. position : \E i \in 1 .. flushed : rows[i] = n
<1>1. Fetched = rows /\ flushed = Len(rows) /\ DOMAIN rows = 1 .. Len(rows)
    BY FetchedRows DEF Inv, ControlInv, TypeInv
<1> QED
    BY <1>1 DEF Inv, FileFollowsTopic

LEMMA DumperPolls == Inv /\ Poll => Inv'
<1> SUFFICES ASSUME Inv, Poll PROVE Inv'
    OBVIOUS
<1>1. PICK n \in position + 1 .. Len(topic) : batch' = Between(position, n) /\ position' = n
    BY DEF Poll
<1>2. /\ UNCHANGED <<topic, rows, flushed, start, starts, rejoins>>
      /\ committed' \in {committed, position}
      /\ thread = "polling" /\ thread' = "writing" /\ position # None
    BY DEF Poll, CommitInPoll, fileVars, historyVars
<1>3. /\ position \in Nat /\ start \in Nat /\ start # None /\ n \in Nat /\ position < n
      /\ n <= Len(topic) /\ Len(topic) \in Nat /\ rows \in Seq(Nat) /\ Len(rows) \in Nat
      /\ batch = <<>> /\ flushed = Len(rows)
    BY <1>1, <1>2 DEF Inv, TypeInv, ControlInv, Offsets, None
<1>4. /\ batch' \in Seq(Nat) /\ Len(batch') = n - position
      /\ \A i \in 1 .. Len(batch') : batch'[i] = position + i
    <2>1. n - position \in Nat /\ batch' = [i \in 1 .. n - position |-> position + i]
        BY <1>1, <1>3 DEF Between
    <2>2. \A i \in 1 .. n - position : position + i \in Nat
        BY <1>3
    <2> QED
        BY <2>1, <2>2
<1>5. TypeInv'
    <2>1. committed' \in Offsets /\ position' \in Offsets
        BY <1>1, <1>2, <1>3 DEF Inv, TypeInv, Offsets
    <2> QED
        BY <1>2, <1>4, <2>1 DEF Inv, TypeInv, ThreadAt
<1>6. ControlInv'
    BY <1>1, <1>2, <1>3 DEF Inv, ControlInv, None
<1>7. PositionInv'
    <2>1. rejoins = 0 => position = start + Len(rows)
        BY <1>2, <1>3 DEF Inv, PositionInv
    <2> QED
        BY <1>1, <1>2, <1>3, <1>4, <2>1 DEF PositionInv
<1>8. Fetched = rows /\ DOMAIN rows = 1 .. Len(rows)
    BY <1>3, FetchedRows DEF Inv
<1>9. /\ DOMAIN Fetched' = 1 .. Len(Fetched') /\ Len(Fetched') = Len(rows) + (n - position)
      /\ \A i \in 1 .. Len(rows) : Fetched'[i] = rows[i]
      /\ \A i \in Len(rows) + 1 .. Len(Fetched') : Fetched'[i] = position + (i - Len(rows))
    <2>1. rows \in Seq(Nat) /\ batch' \in Seq(Nat)
        BY <1>3, <1>4
    <2> DEFINE whole == rows \o batch'
    <2>2. /\ Len(whole) = Len(rows) + Len(batch') /\ DOMAIN whole = 1 .. Len(rows) + Len(batch')
          /\ \A i \in 1 .. Len(rows) : whole[i] = rows[i]
          /\ \A i \in Len(rows) + 1 .. Len(rows) + Len(batch') : whole[i] = batch'[i - Len(rows)]
        BY <2>1, OneAfterOther
    <2>3. Fetched' = whole
        BY <1>2 DEF Fetched
    <2> HIDE DEF whole
    <2>4. \A i \in Len(rows) + 1 .. Len(rows) + Len(batch') :
            i - Len(rows) \in 1 .. Len(batch') /\ batch'[i - Len(rows)] = position + (i - Len(rows))
        BY <1>3, <1>4
    <2>5. Len(rows) + Len(batch') = Len(rows) + (n - position)
        BY <1>4
    <2> QED
        BY <2>2, <2>3, <2>4, <2>5
<1>10. \A k \in start + 1 .. position : \E j \in 1 .. Len(rows) : Fetched'[j] = k
    BY <1>2, <1>3, <1>9, PolledIsOnDisk
<1>11. \A k \in position + 1 .. n : /\ k - position + Len(rows) \in Len(rows) + 1 .. Len(Fetched')
                                    /\ Fetched'[k - position + Len(rows)] = k
    <2> SUFFICES ASSUME NEW k \in position + 1 .. n
                 PROVE  /\ k - position + Len(rows) \in Len(rows) + 1 .. Len(Fetched')
                        /\ Fetched'[k - position + Len(rows)] = k
        OBVIOUS
    <2> DEFINE at == k - position + Len(rows)
    <2>1. at \in Len(rows) + 1 .. Len(Fetched') /\ position + (at - Len(rows)) = k
        BY <1>3, <1>9
    <2> HIDE DEF at
    <2>2. Fetched'[at] = k
        BY <1>9, <2>1
    <2> QED
        BY <2>1, <2>2 DEF at
<1>12. FileFollowsTopic'
    <2>1. \A i \in 1 .. Len(Fetched') : Fetched'[i] \in 1 .. Len(topic)
        <3>1. \A i \in 1 .. Len(rows) : rows[i] \in 1 .. Len(topic)
            BY <1>3, <1>8 DEF Inv, FileFollowsTopic
        <3>2. \A i \in Len(rows) + 1 .. Len(Fetched') : Fetched'[i] \in 1 .. Len(topic)
            BY <1>3, <1>9
        <3>3. ASSUME NEW i \in 1 .. Len(Fetched') PROVE i \in 1 .. Len(rows) \/ i \in Len(rows) + 1 .. Len(Fetched')
            BY <1>3, <1>9
        <3> QED
            BY <1>9, <3>1, <3>2, <3>3
    <2>2. ASSUME NEW i \in 1 .. Len(Fetched'), NEW k \in start + 1 .. Fetched'[i]
          PROVE  \E j \in 1 .. i : Fetched'[j] = k
        <3>1. CASE i <= Len(rows)
            <4>1. i \in 1 .. Len(rows) /\ Fetched'[i] = rows[i]
                BY <1>3, <1>9, <2>2, <3>1
            <4>2. \E j \in 1 .. i : rows[j] = k
                BY <1>3, <1>8, <2>2, <4>1 DEF Inv, FileFollowsTopic
            <4> QED
                BY <1>3, <1>9, <4>1, <4>2
        <3>2. CASE i > Len(rows) /\ k <= position
            BY <1>3, <1>9, <1>10, <2>1, <2>2, <3>2
        <3>3. CASE i > Len(rows) /\ k > position
            <4>0. i \in Len(rows) + 1 .. Len(Fetched') /\ i \in Nat
                BY <1>3, <1>9, <2>2, <3>3
            <4>1. Fetched'[i] = position + (i - Len(rows)) /\ i \in Nat /\ i <= Len(Fetched')
                BY <1>9, <4>0
            <4>2. k \in Int /\ k <= position + (i - Len(rows)) /\ k \in position + 1 .. n
                BY <1>3, <1>9, <2>2, <3>3, <4>1
            <4>3. k - position + Len(rows) \in 1 .. i
                BY <1>3, <3>3, <4>1, <4>2
            <4> QED
                BY <1>11, <4>2, <4>3
        <3> QED
            BY <1>3, <2>1, <2>2, <3>1, <3>2, <3>3
    <2>3. \A k \in start + 1 .. n : \E i \in 1 .. Len(Fetched') : Fetched'[i] = k
        <3> SUFFICES ASSUME NEW k \in start + 1 .. n
                     PROVE  \E i \in 1 .. Len(Fetched') : Fetched'[i] = k
            OBVIOUS
        <3>1. CASE k <= position
            BY <1>3, <1>9, <1>10, <3>1
        <3>2. CASE k > position
            <4>1. k \in position + 1 .. n
                BY <1>3, <3>2
            <4>2. k - position + Len(rows) \in 1 .. Len(Fetched')
                BY <1>3, <1>9, <4>1
            <4> QED
                BY <1>11, <4>1, <4>2
        <3> QED
            BY <1>3, <3>1, <3>2
    <2>4. ASSUME rejoins = 0, NEW i \in 1 .. Len(Fetched')
          PROVE  Fetched'[i] = start + i
        <3>1. position = start + Len(rows)
            BY <1>2, <1>3, <2>4 DEF Inv, PositionInv
        <3>2. \A j \in 1 .. Len(rows) : rows[j] = start + j
            BY <1>3, <1>8, <2>4 DEF Inv, FileFollowsTopic
        <3>3. CASE i \in 1 .. Len(rows)
            BY <1>9, <3>2, <3>3
        <3>4. CASE i \in Len(rows) + 1 .. Len(Fetched')
            <4>1. Fetched'[i] = position + (i - Len(rows))
                BY <1>9, <3>4
            <4> QED
                BY <1>3, <3>1, <3>4, <4>1
        <3> QED
            BY <1>3, <1>9, <2>4, <3>3, <3>4
    <2> QED
        BY <1>1, <1>2, <1>9, <2>1, <2>2, <2>3, <2>4 DEF FileFollowsTopic
<1>13. CommittedOnDisk'
    BY <1>2, <1>3, PolledIsOnDisk DEF Inv, CommittedOnDisk
<1> QED
    BY <1>5, <1>6, <1>7, <1>12, <1>13 DEF Inv

LEMMA DumperPollsNothing == Inv /\ PollNothing => Inv'
<1> SUFFICES ASSUME Inv, PollNothing PROVE Inv'
    OBVIOUS
<1>1. /\ thread = "polling" /\ position # None /\ committed' = position
      /\ UNCHANGED <<topic, thread, position, batch, rows, flushed, start, starts, rejoins>>
    BY DEF PollNothing, fileVars, historyVars
<1>2. TypeInv' /\ ControlInv' /\ PositionInv'
    BY <1>1 DEF Inv, TypeInv, ControlInv, PositionInv
<1>3. FileFollowsTopic'
    <2>1. Fetched' = Fetched
        BY <1>1 DEF Fetched
    <2> QED
        BY <1>1, <2>1 DEF Inv, FileFollowsTopic
<1>4. CommittedOnDisk'
    BY <1>1, PolledIsOnDisk DEF CommittedOnDisk
<1> QED
    BY <1>2, <1>3, <1>4 DEF Inv

\* What is fetched stays, and the position and who may look at it.
LEMMA SameFetched ==
    ASSUME Inv, TypeInv', ControlInv', PositionInv', CommittedOnDisk', Fetched' = Fetched,
           UNCHANGED <<topic, position, start, rejoins>>,
           thread \in {"polling", "writing"}
    PROVE  Inv'
    BY DEF Inv, FileFollowsTopic

LEMMA DumperWrites == Inv /\ Write => Inv'
<1> SUFFICES ASSUME Inv, Write PROVE Inv'
    OBVIOUS
<1>1. /\ thread = "writing" /\ batch # <<>> /\ rows' = Append(rows, Head(batch)) /\ batch' = Tail(batch)
      /\ UNCHANGED <<topic, committed, thread, position, flushed, start, starts, rejoins>>
    BY DEF Write, historyVars
<1>2. /\ batch \in Seq(Nat) /\ rows \in Seq(Nat) /\ Len(rows) \in Nat /\ Len(batch) \in Nat \ {0}
      /\ flushed \in Nat /\ flushed <= Len(rows)
    BY <1>1, EmptySeq DEF Inv, TypeInv
<1>3. /\ batch' \in Seq(Nat) /\ Len(batch') = Len(batch) - 1
      /\ \A i \in 1 .. Len(batch') : batch'[i] = batch[i + 1]
    BY <1>1, <1>2
<1>4. /\ rows' \in Seq(Nat) /\ Len(rows') = Len(rows) + 1
      /\ \A i \in 1 .. Len(rows) : rows'[i] = rows[i]
      /\ rows'[Len(rows) + 1] = batch[1]
    BY <1>1, <1>2
<1>5. TypeInv'
    BY <1>1, <1>2, <1>3, <1>4 DEF Inv, TypeInv
<1>6. ControlInv'
    BY <1>1 DEF Inv, ControlInv
<1>7. PositionInv'
    <2>1. Len(rows') + Len(batch') = Len(rows) + Len(batch)
        BY <1>2, <1>3, <1>4
    <2>2. start \in Int
        BY DEF Inv, TypeInv, Offsets, None
    <2>3. start + Len(rows') + Len(batch') = start + Len(rows) + Len(batch)
        BY <1>2, <1>3, <1>4, <2>2
    <2> QED
        BY <1>1, <2>3 DEF Inv, PositionInv
<1>8. Fetched' = Fetched
    <2> DEFINE old == rows \o batch
               new == rows' \o batch'
    <2>1. /\ old \in Seq(Nat) /\ Len(old) = Len(rows) + Len(batch)
          /\ \A i \in 1 .. Len(rows) : old[i] = rows[i]
          /\ \A i \in Len(rows) + 1 .. Len(rows) + Len(batch) : old[i] = batch[i - Len(rows)]
        BY <1>2, OneAfterOther
    <2>2. rows' \in Seq(Nat) /\ batch' \in Seq(Nat)
        BY <1>3, <1>4
    <2>3. /\ new \in Seq(Nat) /\ Len(new) = Len(rows') + Len(batch')
          /\ \A i \in 1 .. Len(rows') : new[i] = rows'[i]
          /\ \A i \in Len(rows') + 1 .. Len(rows') + Len(batch') : new[i] = batch'[i - Len(rows')]
        BY <2>2, OneAfterOther
    <2> HIDE DEF old, new
    <2>4. Len(new) = Len(old)
        BY <1>2, <1>3, <1>4, <2>1, <2>3
    <2>5. ASSUME NEW i \in 1 .. Len(old)
          PROVE  old[i] = new[i]
        <3>1. i \in Nat /\ i \in 1 .. Len(rows) + Len(batch)
            BY <1>2, <2>1
        <3>2. CASE i <= Len(rows)
            <4>1. i \in 1 .. Len(rows) /\ i \in 1 .. Len(rows')
                BY <1>2, <1>4, <3>1, <3>2
            <4> QED
                BY <1>4, <2>1, <2>3, <4>1
        <3>3. CASE i = Len(rows) + 1
            <4>1. i \in Len(rows) + 1 .. Len(rows) + Len(batch) /\ i \in 1 .. Len(rows') /\ i - Len(rows) = 1
                BY <1>2, <1>4, <3>1, <3>3
            <4> QED
                BY <1>4, <2>1, <2>3, <3>3, <4>1
        <3>4. CASE i > Len(rows) + 1
            <4>1. /\ i \in Len(rows) + 1 .. Len(rows) + Len(batch)
                  /\ i \in Len(rows') + 1 .. Len(rows') + Len(batch')
                  /\ i - Len(rows') \in 1 .. Len(batch') /\ (i - Len(rows')) + 1 = i - Len(rows)
                BY <1>2, <1>3, <1>4, <3>1, <3>4
            <4> QED
                BY <1>3, <2>1, <2>3, <4>1
        <3> QED
            BY <1>2, <3>1, <3>2, <3>3, <3>4
    <2>6. new = old
        BY <2>1, <2>3, <2>4, <2>5, SeqEqual
    <2> QED
        BY <2>6 DEF old, new, Fetched
<1>9. CommittedOnDisk'
    <2>1. \A i \in 1 .. flushed : i \in 1 .. Len(rows)
        BY <1>2
    <2>2. \A i \in 1 .. flushed : rows'[i] = rows[i]
        BY <1>4, <2>1
    <2> QED
        BY <1>1, <2>2 DEF Inv, CommittedOnDisk
<1> QED
    BY <1>1, <1>5, <1>6, <1>7, <1>8, <1>9, SameFetched

LEMMA DumperFlushes == Inv /\ Flush => Inv'
<1> SUFFICES ASSUME Inv, Flush PROVE Inv'
    OBVIOUS
<1>1. /\ thread = "writing" /\ thread' = "polling" /\ batch = <<>> /\ flushed' = Len(rows)
      /\ UNCHANGED <<topic, committed, position, batch, rows, start, starts, rejoins>>
    BY DEF Flush, historyVars
<1>2. flushed \in Nat /\ Len(rows) \in Nat /\ flushed <= Len(rows) /\ position # None /\ start # None
    BY <1>1 DEF Inv, TypeInv, ControlInv
<1>3. TypeInv' /\ ControlInv' /\ PositionInv'
    BY <1>1, <1>2 DEF Inv, TypeInv, ControlInv, PositionInv, ThreadAt
<1>4. CommittedOnDisk'
    BY <1>1, <1>2 DEF Inv, CommittedOnDisk
<1>5. Fetched' = Fetched
    BY <1>1 DEF Fetched
<1> QED
    BY <1>1, <1>3, <1>4, <1>5, SameFetched

\* What a writer that is cut off leaves of its rows.
LEMMA RowsLeft ==
    ASSUME TypeInv, BufferLost
    PROVE  /\ rows' \in Seq(Nat) /\ flushed' = Len(rows') /\ flushed' \in Nat
           /\ flushed <= Len(rows') /\ Len(rows') <= Len(rows)
           /\ \A i \in 1 .. Len(rows') : rows'[i] = rows[i]
<1>1. PICK n \in flushed .. Len(rows) : rows' = SubSeq(rows, 1, n) /\ flushed' = n
    BY DEF BufferLost
<1> QED
    BY <1>1 DEF TypeInv

\* They are the first of those that were fetched.
LEMMA LeftFollows ==
    ASSUME Inv, BufferLost, batch' = <<>>, thread' \notin {"polling", "writing"},
           UNCHANGED <<topic, position, start, rejoins>>
    PROVE  FileFollowsTopic'
<1>1. TypeInv
    BY DEF Inv
<1>2. /\ Fetched \in Seq(Nat) /\ Len(rows) \in Nat /\ Len(batch) \in Nat
      /\ Len(Fetched) = Len(rows) + Len(batch) /\ DOMAIN Fetched = 1 .. Len(Fetched)
      /\ \A i \in 1 .. Len(rows) : Fetched[i] = rows[i]
    BY <1>1, OneAfterOther DEF TypeInv, Fetched
<1>3. /\ Fetched' = rows' /\ DOMAIN rows' = 1 .. Len(rows') /\ Len(rows') \in Nat
      /\ Len(rows') <= Len(Fetched)
      /\ \A i \in 1 .. Len(rows') : rows'[i] = Fetched[i]
    BY <1>1, <1>2, RowsLeft DEF Fetched
<1>4. \A i \in 1 .. Len(rows') : i \in 1 .. Len(Fetched) /\ \A j \in 1 .. i : j \in 1 .. Len(rows')
    BY <1>2, <1>3
<1> QED
    BY <1>2, <1>3, <1>4 DEF Inv, FileFollowsTopic

LEMMA DumperFails == Inv /\ WriterFails => Inv'
<1> SUFFICES ASSUME Inv, WriterFails PROVE Inv'
    OBVIOUS
<1>1. /\ TypeInv /\ BufferLost /\ batch' = <<>> /\ thread' = "ended"
      /\ committed' \in {committed, IF position = None THEN committed ELSE position}
      /\ UNCHANGED <<topic, position, start, starts, rejoins>>
    BY DEF Inv, WriterFails, historyVars
<1>2. TypeInv' /\ ControlInv' /\ PositionInv'
    BY <1>1, RowsLeft DEF Inv, TypeInv, ControlInv, PositionInv, ThreadAt
<1>3. CommittedOnDisk'
    BY <1>1 DEF CommittedOnDisk
<1> QED
    BY <1>1, <1>2, <1>3, LeftFollows DEF Inv

LEMMA DumperIsKilled == Inv /\ Kill => Inv'
<1> SUFFICES ASSUME Inv, Kill PROVE Inv'
    OBVIOUS
<1>1. /\ TypeInv /\ BufferLost /\ batch' = <<>> /\ thread' = "killed" /\ thread # "ended"
      /\ UNCHANGED <<topic, committed, position, start, starts, rejoins>>
    BY DEF Inv, Kill, historyVars
<1>2. TypeInv' /\ ControlInv' /\ PositionInv'
    BY <1>1, RowsLeft DEF Inv, TypeInv, ControlInv, PositionInv, ThreadAt
<1>3. CommittedOnDisk'
    <2>0. /\ flushed \in Nat /\ flushed' \in Nat /\ flushed' = Len(rows') /\ flushed <= flushed'
          /\ \A i \in 1 .. Len(rows') : rows'[i] = rows[i]
        BY <1>1, RowsLeft DEF TypeInv
    <2>1. \A i \in 1 .. flushed : i \in 1 .. flushed' /\ rows'[i] = rows[i]
        BY <2>0
    <2> QED
        BY <1>1, <2>1 DEF Inv, CommittedOnDisk
<1> QED
    BY <1>1, <1>2, <1>3, LeftFollows DEF Inv

LEMMA DumperStarts == Inv /\ Start => Inv'
BY DEF Start, Inv, TypeInv, ControlInv, PositionInv, FileFollowsTopic, CommittedOnDisk, Offsets, None,
       ThreadAt, fileVars

LEMMA TopicGrows == Inv /\ Stored => Inv'
<1> SUFFICES ASSUME Inv, Stored PROVE Inv'
    OBVIOUS
<1>1. /\ topic' \in Seq(Records) /\ Len(topic') > Len(topic)
      /\ UNCHANGED <<committed, thread, position, batch, rows, flushed, start, starts, rejoins>>
    BY DEF Stored, fileVars, historyVars
<1>2. Len(topic) \in Nat /\ Len(topic') \in Nat
    BY <1>1 DEF Inv, TypeInv
<1>3. TypeInv' /\ ControlInv' /\ PositionInv' /\ CommittedOnDisk'
    BY <1>1, <1>2 DEF Inv, TypeInv, ControlInv, PositionInv, CommittedOnDisk, Offsets, None
<1>4. FileFollowsTopic'
    <2>1. Fetched' = Fetched
        BY <1>1 DEF Fetched
    <2>2. \A m \in 1 .. Len(topic) : m \in 1 .. Len(topic')
        BY <1>1, <1>2
    <2> QED
        BY <1>1, <2>1, <2>2 DEF Inv, FileFollowsTopic
<1> QED
    BY <1>3, <1>4 DEF Inv

LEMMA DumperStep == Inv /\ [DumperNext \/ Stored]_dumperVars => Inv'
<1> SUFFICES ASSUME Inv, [DumperNext \/ Stored]_dumperVars PROVE Inv'
    OBVIOUS
<1>1. CASE DumperNext
    BY <1>1, DumperOpens, DumperJoins, DumperRejoins, DumperPolls, DumperPollsNothing, DumperWrites,
       DumperFlushes, DumperFails, DumperIsKilled, DumperStarts DEF DumperNext
<1>2. CASE Stored
    BY <1>2, TopicGrows
<1>3. CASE UNCHANGED dumperVars
    <2>1. /\ UNCHANGED <<topic, committed, thread, position, batch, rows, flushed>>
          /\ UNCHANGED <<start, starts, rejoins>>
        BY <1>3 DEF dumperVars, fileVars, historyVars
    <2>2. Fetched' = Fetched
        BY <2>1 DEF Fetched
    <2>3. TypeInv' /\ ControlInv' /\ PositionInv' /\ CommittedOnDisk'
        BY <2>1 DEF Inv, TypeInv, ControlInv, PositionInv, CommittedOnDisk
    <2>4. FileFollowsTopic'
        BY <2>1, <2>2 DEF Inv, FileFollowsTopic
    <2> QED
        BY <2>3, <2>4 DEF Inv
<1> QED
    BY <1>1, <1>2, <1>3

LEMMA DumperCorrect == DumperSpec => []Inv
<1> QED
    BY DumperInitially, DumperStep, PTL DEF DumperSpec

\* No record is skipped in the file, however the topic grows, the thread is cut
\* off and the group assigns its topics anew; and none is written twice unless
\* that cost the thread its position (DumperThread.java:38-46).
THEOREM FileCorrect == DumperSpec => []FileFollowsTopic
<1>1. Inv => FileFollowsTopic
    BY DEF Inv
<1> QED
    BY <1>1, DumperCorrect, PTL

\* No commit is ahead of the disk unless the writer has failed
\* (DumperThread.java:42-50).
THEOREM CommitsCorrect == DumperSpec => []CommittedOnDisk
<1>1. Inv => CommittedOnDisk
    BY DEF Inv
<1> QED
    BY <1>1, DumperCorrect, PTL

-----------------------------------------------------------------------------
(* Numbers of passes *)

Below == {pair \in Nat \X Nat : pair[1] < pair[2]}

LEMMA BelowWellFounded == IsWellFoundedOn(Below, Nat)
  BY NatLessThanWellFounded, Zenon DEF OpToRel, Below

LEMMA LeastNumber ==
    ASSUME NEW T \in SUBSET Nat, T # {}
    PROVE  \E n \in T : \A m \in T : n <= m
<1>1. PICK n \in T : \A m \in T : ~ (<<m, n>> \in Below)
  BY BelowWellFounded, WFMin
<1>2. \A m, k \in Nat : <<m, k>> \in Below <=> m < k
  BY DEF Below
<1>3. n \in Nat /\ \A m \in T : m \in Nat /\ ~ (m < n)
  BY <1>1, <1>2
<1>4. \A m \in T : n <= m
  BY <1>3
<1> QED  BY <1>4

\* What holds of nothing read and is kept by every pass holds after any number.
LEMMA EveryNumber ==
    ASSUME NEW S, 0 \in S, \A n \in Nat : n \in S => n + 1 \in S
    PROVE  \A n \in Nat : n \in S
<1> SUFFICES ASSUME Nat \ S # {} PROVE FALSE
  OBVIOUS
<1>1. PICK n \in Nat \ S : \A m \in Nat \ S : n <= m
  BY LeastNumber
<1> QED  BY <1>1

Begin == [i1 |-> 0, i2 |-> 0, list |-> <<>>]

LEMMA PassesOneByOne ==
    ASSUME NEW list1, NEW list2
    PROVE  /\ Passes(list1, list2)[0] = Begin
           /\ \A n \in Nat : Passes(list1, list2)[n + 1] = Pass(list1, list2, Passes(list1, list2)[n])
<1> DEFINE Next1(at) == Pass(list1, list2, at)
           UpTo(g, n) == g = [i \in 0 .. n |-> IF i = 0 THEN Begin ELSE Next1(g[i - 1])]
<1> HIDE DEF Next1
<1>1. \A n \in Nat : \E g : UpTo(g, n)
  <2> DEFINE S == {n \in Nat : \E g : UpTo(g, n)}
  <2>1. 0 \in S
    <3>1. UpTo([i \in 0 .. 0 |-> Begin], 0)
      OBVIOUS
    <3> QED  BY <3>1
  <2>2. ASSUME NEW n \in Nat, n \in S PROVE n + 1 \in S
    <3>1. PICK g : UpTo(g, n)
      BY <2>2
    <3> DEFINE h == [i \in 0 .. n + 1 |-> IF i <= n THEN g[i] ELSE Next1(g[n])]
    <3>2. \A i \in 0 .. n : g[i] = IF i = 0 THEN Begin ELSE Next1(g[i - 1])
      BY <3>1
    <3>3. \A i \in 0 .. n + 1 : h[i] = IF i = 0 THEN Begin ELSE Next1(h[i - 1])
      BY <3>2
    <3>4. UpTo(h, n + 1)
      BY <3>3
    <3> HIDE DEF UpTo, h
    <3> QED  BY <3>4
  <2>3. \A n \in Nat : n \in S
    <3> HIDE DEF S
    <3> QED  BY <2>1, <2>2, EveryNumber
  <2> QED  BY <2>3
<1>2. ASSUME NEW n \in Nat, NEW m \in Nat, n <= m, NEW g, NEW h, UpTo(g, n), UpTo(h, m)
      PROVE  g[n] = h[n]
  <2> DEFINE T == {i \in 0 .. n : g[i] # h[i]}
  <2> SUFFICES ASSUME T # {} PROVE FALSE
    <3>1. n \in 0 .. n
      BY <1>2
    <3>2. CASE T = {}
      BY <3>1, <3>2
    <3> QED  BY <3>2
  <2>1. PICK i \in T : \A j \in T : i <= j
    <3>1. T \in SUBSET Nat
      BY <1>2
    <3> HIDE DEF T
    <3> QED  BY <3>1, LeastNumber
  <2>2. i \in 0 .. n /\ g[i] = (IF i = 0 THEN Begin ELSE Next1(g[i - 1]))
                     /\ h[i] = (IF i = 0 THEN Begin ELSE Next1(h[i - 1]))
    BY <1>2, <2>1
  <2>3. i # 0 => g[i - 1] = h[i - 1]
    BY <2>1, <2>2
  <2> QED  BY <2>1, <2>2, <2>3
<1> DEFINE G(n) == CHOOSE g : UpTo(g, n)
           f == [n \in Nat |-> G(n)[n]]
           Made(after) == after = [n \in Nat |-> IF n = 0 THEN Begin ELSE Next1(after[n - 1])]
<1>3. \A n \in Nat : UpTo(G(n), n)
  BY <1>1
<1>4. \A n \in Nat : f[n] = IF n = 0 THEN Begin ELSE Next1(f[n - 1])
  <2> SUFFICES ASSUME NEW n \in Nat PROVE f[n] = IF n = 0 THEN Begin ELSE Next1(f[n - 1])
    OBVIOUS
  <2>1. G(n)[n] = IF n = 0 THEN Begin ELSE Next1(G(n)[n - 1])
    <3> HIDE DEF G
    <3>1. G(n) = [i \in 0 .. n |-> IF i = 0 THEN Begin ELSE Next1(G(n)[i - 1])] /\ n \in 0 .. n
      BY <1>3
    <3> QED  BY <3>1
  <2>2. n # 0 => G(n - 1)[n - 1] = G(n)[n - 1]
    <3> HIDE DEF G
    <3> SUFFICES ASSUME n # 0 PROVE G(n - 1)[n - 1] = G(n)[n - 1]
      OBVIOUS
    <3>1. n - 1 \in Nat /\ n - 1 <= n
      OBVIOUS
    <3>2. UpTo(G(n - 1), n - 1) /\ UpTo(G(n), n)
      BY <1>3, <3>1
    <3> HIDE DEF UpTo
    <3> QED  BY <1>2, <3>1, <3>2
  <2> QED  BY <2>1, <2>2
<1>5. Made(f)
  <2> HIDE DEF G
  <2> QED  BY <1>4
<1>6. Passes(list1, list2) = CHOOSE after : Made(after)
  BY DEF Passes, Next1, Begin
<1>7. Made(Passes(list1, list2))
  <2> HIDE DEF f, Made
  <2> QED  BY <1>5, <1>6
<1> QED  BY <1>7 DEF Next1

-----------------------------------------------------------------------------
(* A pass of mergeTop *)

Distinct(list) == \A i, j \in 1 .. Len(list) : list[i].id = list[j].id => i = j

Sorted(list) == \A i, j \in 1 .. Len(list) : i < j => list[i].noise >= list[j].noise

\* The first n entries of source have been tried: their points of interest
\* are in list, as loud at least, and all of list is as loud as the others.
TriedUpTo(source, n, list) ==
    /\ n \in 0 .. Len(source)
    /\ \A k \in 1 .. n : \E i \in 1 .. Len(list) :
         list[i].id = source[k].id /\ list[i].noise >= source[k].noise
    /\ \A i \in 1 .. Len(list), k \in n + 1 .. Len(source) : list[i].noise >= source[k].noise

Taken(source, n, entry) == \E k \in 1 .. n : source[k] = entry

Merging(list1, list2, n1, n2, list) ==
    /\ list \in Seq(Entry) /\ Len(list) <= Top /\ Distinct(list) /\ Sorted(list)
    /\ TriedUpTo(list1, n1, list) /\ TriedUpTo(list2, n2, list)
    /\ \A i \in 1 .. Len(list) : Taken(list1, n1, list[i]) \/ Taken(list2, n2, list[i])

LEMMA EntryFields == \A e \in Entry : e.id \in Ids /\ e.noise \in Int
  BY LevelsAssumption DEF Entry

LEMMA Entries ==
    ASSUME NEW list \in Seq(Entry)
    PROVE  Len(list) \in Nat /\ \A i \in 1 .. Len(list) : list[i] \in Entry /\ list[i].noise \in Int
<1>1. Len(list) \in Nat /\ \A i \in 1 .. Len(list) : list[i] \in Entry
  BY ElementOfSeq, LenProperties
<1> QED  BY <1>1, EntryFields

\* The louder one of the two next entries is tried.
LEMMA TakeOne ==
    ASSUME NEW list1 \in Seq(Entry), NEW list2 \in Seq(Entry), NEW n1, NEW n2, NEW list,
           Merging(list1, list2, n1, n2, list), Len(list) < Top,
           Sorted(list1), Sorted(list2), n1 < Len(list1),
           n2 < Len(list2) => list1[n1 + 1].noise >= list2[n2 + 1].noise
    PROVE  Merging(list1, list2, n1 + 1, n2, TryAdd(list, list1[n1 + 1]))
<1> DEFINE e == list1[n1 + 1]
           longer == TryAdd(list, e)
<1>1. /\ n1 \in Nat /\ n2 \in Nat /\ n1 + 1 \in 1 .. Len(list1) /\ n2 <= Len(list2)
      /\ Len(list1) \in Nat /\ Len(list2) \in Nat
  BY LenProperties DEF Merging, TriedUpTo
<1>2. e \in Entry /\ e.noise \in Int
  BY <1>1, Entries
<1>3. /\ Len(list) \in Nat /\ Top \in Nat
      /\ \A i \in 1 .. Len(list) : list[i] \in Entry /\ list[i].noise \in Int
  BY Entries, TopAssumption DEF Merging
<1>4. /\ \A k \in 1 .. Len(list1) : list1[k] \in Entry /\ list1[k].noise \in Int
      /\ \A k \in 1 .. Len(list2) : list2[k] \in Entry /\ list2[k].noise \in Int
  BY Entries
<1>5. \A k \in n1 + 1 .. Len(list1) : e.noise >= list1[k].noise
  <2> SUFFICES ASSUME NEW k \in n1 + 1 .. Len(list1) PROVE e.noise >= list1[k].noise
    OBVIOUS
  <2>1. CASE k = n1 + 1
    BY <2>1, <1>2
  <2>2. CASE k > n1 + 1
    BY <2>2, <1>1 DEF Sorted
  <2> QED  BY <2>1, <2>2, <1>1
<1>6. \A k \in n2 + 1 .. Len(list2) : e.noise >= list2[k].noise
  <2> SUFFICES ASSUME NEW k \in n2 + 1 .. Len(list2) PROVE e.noise >= list2[k].noise
    OBVIOUS
  <2>1. n2 + 1 \in 1 .. Len(list2) /\ k \in 1 .. Len(list2) /\ e.noise >= list2[n2 + 1].noise
    BY <1>1
  <2>2. list2[n2 + 1].noise >= list2[k].noise
    <3>1. CASE k = n2 + 1
      BY <3>1, <2>1, <1>4
    <3>2. CASE k > n2 + 1
      BY <3>2, <2>1 DEF Sorted
    <3> QED  BY <3>1, <3>2, <1>1
  <2> QED  BY <2>1, <2>2, <1>2, <1>4
<1>7. \A i \in 1 .. Len(list) : list[i].noise >= e.noise
  BY <1>1 DEF Merging, TriedUpTo
<1>8. \A i \in 1 .. Len(list) : Taken(list1, n1 + 1, list[i]) \/ Taken(list2, n2, list[i])
  <2>1. \A k \in 1 .. n1 : k \in 1 .. n1 + 1
    BY <1>1
  <2>2. \A x : Taken(list1, n1, x) => Taken(list1, n1 + 1, x)
    BY <2>1 DEF Taken
  <2> QED  BY <2>2 DEF Merging
<1>9. CASE \E i \in 1 .. Len(list) : list[i].id = e.id
  <2>1. longer = list
    BY <1>9 DEF TryAdd
  <2>2. PICK i \in 1 .. Len(list) : list[i].id = e.id
    BY <1>9
  <2>3. list[i].noise >= e.noise
    BY <1>7
  <2> HIDE DEF longer
  <2>4. TriedUpTo(list1, n1 + 1, list)
    <3>1. \A k \in 1 .. n1 + 1 : k \in 1 .. n1 \/ list1[k] = e
      BY <1>1
    <3>2. \A k \in n1 + 1 + 1 .. Len(list1) : k \in n1 + 1 .. Len(list1)
      BY <1>1
    <3> HIDE DEF e
    <3>3. \A k \in 1 .. n1 + 1 : \E j \in 1 .. Len(list) :
             list[j].id = list1[k].id /\ list[j].noise >= list1[k].noise
      BY <3>1, <2>2, <2>3 DEF Merging, TriedUpTo
    <3>4. \A j \in 1 .. Len(list), k \in n1 + 1 + 1 .. Len(list1) : list[j].noise >= list1[k].noise
      BY <3>2 DEF Merging, TriedUpTo
    <3>5. n1 + 1 \in 0 .. Len(list1)
      BY <1>1
    <3> QED  BY <3>3, <3>4, <3>5 DEF TriedUpTo
  <2> QED  BY <2>1, <2>4, <1>8 DEF Merging, longer, e
<1>10. CASE ~ \E i \in 1 .. Len(list) : list[i].id = e.id
  <2>1. longer = Append(list, e)
    BY <1>10 DEF TryAdd
  <2>2. /\ longer \in Seq(Entry) /\ Len(longer) = Len(list) + 1 /\ longer[Len(list) + 1] = e
        /\ \A i \in 1 .. Len(list) : longer[i] = list[i]
    BY <2>1, <1>2, AppendProperties DEF Merging
  <2> HIDE DEF longer, e
  <2>3. \A i \in 1 .. Len(longer) : (i \in 1 .. Len(list) /\ longer[i] = list[i]) \/ (i = Len(list) + 1 /\ longer[i] = e)
    BY <2>2, <1>3
  <2>4. Distinct(longer)
    <3> SUFFICES ASSUME NEW i \in 1 .. Len(longer), NEW j \in 1 .. Len(longer), longer[i].id = longer[j].id
                 PROVE  i = j
      BY DEF Distinct
    <3> QED  BY <2>3, <1>10 DEF Merging, Distinct
  <2>5. Sorted(longer)
    <3> SUFFICES ASSUME NEW i \in 1 .. Len(longer), NEW j \in 1 .. Len(longer), i < j
                 PROVE  longer[i].noise >= longer[j].noise
      BY DEF Sorted
    <3>1. i \in 1 .. Len(list) /\ longer[i] = list[i]
      BY <2>2, <2>3, <1>3
    <3> QED  BY <3>1, <2>3, <1>7 DEF Merging, Sorted
  <2>6. TriedUpTo(list1, n1 + 1, longer)
    <3>1. \A k \in 1 .. n1 + 1 : k \in 1 .. n1 \/ list1[k] = e
      BY <1>1 DEF e
    <3>2. \A k \in 1 .. n1 + 1 : \E i \in 1 .. Len(longer) :
             longer[i].id = list1[k].id /\ longer[i].noise >= list1[k].noise
      <4> SUFFICES ASSUME NEW k \in 1 .. n1 + 1
                   PROVE  \E i \in 1 .. Len(longer) :
                            longer[i].id = list1[k].id /\ longer[i].noise >= list1[k].noise
        OBVIOUS
      <4>1. CASE k \in 1 .. n1
        <5>1. PICK i \in 1 .. Len(list) : list[i].id = list1[k].id /\ list[i].noise >= list1[k].noise
          BY <4>1 DEF Merging, TriedUpTo
        <5>2. i \in 1 .. Len(longer) /\ longer[i] = list[i]
          BY <2>2, <1>3
        <5> QED  BY <5>1, <5>2
      <4>2. CASE list1[k] = e
        <5>1. Len(list) + 1 \in 1 .. Len(longer) /\ e.noise >= e.noise
          BY <2>2, <1>2, <1>3
        <5> QED  BY <4>2, <5>1, <2>2
      <4> QED  BY <4>1, <4>2, <3>1
    <3>3. \A i \in 1 .. Len(longer), k \in n1 + 1 + 1 .. Len(list1) : longer[i].noise >= list1[k].noise
      <4> SUFFICES ASSUME NEW i \in 1 .. Len(longer), NEW k \in n1 + 1 + 1 .. Len(list1)
                   PROVE  longer[i].noise >= list1[k].noise
        OBVIOUS
      <4>1. k \in n1 + 1 .. Len(list1)
        BY <1>1
      <4> QED  BY <4>1, <2>3, <1>5 DEF Merging, TriedUpTo
    <3> QED  BY <3>2, <3>3, <1>1 DEF TriedUpTo
  <2>7. TriedUpTo(list2, n2, longer)
    <3>1. \A k \in 1 .. n2 : \E i \in 1 .. Len(longer) :
             longer[i].id = list2[k].id /\ longer[i].noise >= list2[k].noise
      <4> SUFFICES ASSUME NEW k \in 1 .. n2
                   PROVE  \E i \in 1 .. Len(longer) :
                            longer[i].id = list2[k].id /\ longer[i].noise >= list2[k].noise
        OBVIOUS
      <4>1. PICK i \in 1 .. Len(list) : list[i].id = list2[k].id /\ list[i].noise >= list2[k].noise
        BY DEF Merging, TriedUpTo
      <4>2. i \in 1 .. Len(longer) /\ longer[i] = list[i]
        BY <2>2, <1>3
      <4> QED  BY <4>1, <4>2
    <3>2. \A i \in 1 .. Len(longer), k \in n2 + 1 .. Len(list2) : longer[i].noise >= list2[k].noise
      BY <2>3, <1>6 DEF Merging, TriedUpTo
    <3> QED  BY <3>1, <3>2 DEF Merging, TriedUpTo
  <2>8. \A i \in 1 .. Len(longer) : Taken(list1, n1 + 1, longer[i]) \/ Taken(list2, n2, longer[i])
    <3>1. Taken(list1, n1 + 1, e)
      BY <1>1 DEF Taken, e
    <3> QED  BY <3>1, <2>3, <1>8
  <2>9. Len(longer) <= Top
    BY <2>2, <1>3
  <2> QED  BY <2>2, <2>4, <2>5, <2>6, <2>7, <2>8, <2>9 DEF Merging, longer, e
<1> QED  BY <1>9, <1>10

LEMMA Swapped ==
    ASSUME NEW list1, NEW list2, NEW n1, NEW n2, NEW list
    PROVE  Merging(list1, list2, n1, n2, list) <=> Merging(list2, list1, n2, n1, list)
  BY DEF Merging

\* A pass tries one entry, as long as there is one and the list is not full.
LEMMA PassTries ==
    ASSUME NEW list1 \in Seq(Entry), NEW list2 \in Seq(Entry), Sorted(list1), Sorted(list2), NEW at,
           at = [i1 |-> at.i1, i2 |-> at.i2, list |-> at.list],
           Merging(list1, list2, at.i1, at.i2, at.list),
           NEW next, next = Pass(list1, list2, at)
    PROVE  /\ next = [i1 |-> next.i1, i2 |-> next.i2, list |-> next.list]
           /\ Merging(list1, list2, next.i1, next.i2, next.list)
           /\ \/ next = at /\ (Len(at.list) = Top \/ (at.i1 = Len(list1) /\ at.i2 = Len(list2)))
              \/ next.i1 + next.i2 = at.i1 + at.i2 + 1
<1>1. /\ at.i1 \in Nat /\ at.i2 \in Nat /\ at.i1 <= Len(list1) /\ at.i2 <= Len(list2)
      /\ Len(list1) \in Nat /\ Len(list2) \in Nat
  BY LenProperties DEF Merging, TriedUpTo
<1>2. Len(at.list) \in Nat /\ Top \in Nat /\ Len(at.list) <= Top
  BY LenProperties, TopAssumption DEF Merging
<1>3. /\ \A k \in 1 .. Len(list1) : list1[k].noise \in Int
      /\ \A k \in 1 .. Len(list2) : list2[k].noise \in Int
  BY Entries
<1>4. CASE Len(at.list) = Top \/ (at.i1 = Len(list1) /\ at.i2 = Len(list2))
  BY <1>4 DEF Pass
<1>5. CASE /\ Len(at.list) < Top /\ ~ (at.i1 = Len(list1) /\ at.i2 = Len(list2))
           /\ TakeFirst(list1, list2, at.i1, at.i2)
  <2>1. next = [at EXCEPT !.i1 = @ + 1, !.list = TryAdd(@, list1[at.i1 + 1])]
    BY <1>5, <1>2 DEF Pass
  <2>2. at.i1 < Len(list1)
    BY <1>5, <1>1 DEF TakeFirst
  <2>3. at.i2 < Len(list2) => list1[at.i1 + 1].noise >= list2[at.i2 + 1].noise
    <3> SUFFICES ASSUME at.i2 < Len(list2) PROVE list1[at.i1 + 1].noise >= list2[at.i2 + 1].noise
      OBVIOUS
    <3>1. at.i1 + 1 \in 1 .. Len(list1) /\ at.i2 + 1 \in 1 .. Len(list2)
      BY <1>1, <2>2
    <3>2. list1[at.i1 + 1].noise > list2[at.i2 + 1].noise
      BY <1>1, <1>5 DEF TakeFirst
    <3> QED  BY <3>1, <3>2, <1>3
  <2>4. Merging(list1, list2, at.i1 + 1, at.i2, TryAdd(at.list, list1[at.i1 + 1]))
    BY <2>2, <2>3, <1>5, TakeOne
  <2>5. next = [i1 |-> at.i1 + 1, i2 |-> at.i2, list |-> TryAdd(at.list, list1[at.i1 + 1])]
    BY <2>1
  <2>6. next.i1 = at.i1 + 1 /\ next.i2 = at.i2 /\ next.list = TryAdd(at.list, list1[at.i1 + 1])
    BY <2>5
  <2>7. next.i1 + next.i2 = at.i1 + at.i2 + 1
    BY <2>6, <1>1
  <2> QED  BY <2>4, <2>5, <2>6, <2>7
<1>6. CASE /\ Len(at.list) < Top /\ ~ (at.i1 = Len(list1) /\ at.i2 = Len(list2))
           /\ ~ TakeFirst(list1, list2, at.i1, at.i2)
  <2>1. next = [at EXCEPT !.i2 = @ + 1, !.list = TryAdd(@, list2[at.i2 + 1])]
    BY <1>6, <1>2 DEF Pass
  <2>2. at.i2 < Len(list2)
    BY <1>6, <1>1 DEF TakeFirst
  <2>3. at.i1 < Len(list1) => list2[at.i2 + 1].noise >= list1[at.i1 + 1].noise
    <3> SUFFICES ASSUME at.i1 < Len(list1) PROVE list2[at.i2 + 1].noise >= list1[at.i1 + 1].noise
      OBVIOUS
    <3>1. at.i1 + 1 \in 1 .. Len(list1) /\ at.i2 + 1 \in 1 .. Len(list2)
      BY <1>1, <2>2
    <3>2. ~ (list1[at.i1 + 1].noise > list2[at.i2 + 1].noise)
      BY <1>1, <1>6 DEF TakeFirst
    <3> QED  BY <3>1, <3>2, <1>3
  <2>4. Merging(list2, list1, at.i2, at.i1, at.list)
    BY Swapped
  <2>5. Merging(list2, list1, at.i2 + 1, at.i1, TryAdd(at.list, list2[at.i2 + 1]))
    BY <2>2, <2>3, <2>4, <1>6, TakeOne
  <2>6. next = [i1 |-> at.i1, i2 |-> at.i2 + 1, list |-> TryAdd(at.list, list2[at.i2 + 1])]
    BY <2>1
  <2>7. next.i1 = at.i1 /\ next.i2 = at.i2 + 1 /\ next.list = TryAdd(at.list, list2[at.i2 + 1])
    BY <2>6
  <2>8. next.i1 + next.i2 = at.i1 + at.i2 + 1
    BY <2>7, <1>1
  <2>9. Merging(list1, list2, next.i1, next.i2, next.list)
    BY <2>5, <2>7, Swapped
  <2> QED  BY <2>6, <2>8, <2>9
<1> QED  BY <1>2, <1>4, <1>5, <1>6

LEMMA NoneTried ==
    ASSUME NEW list1 \in Seq(Entry), NEW list2 \in Seq(Entry)
    PROVE  Merging(list1, list2, 0, 0, <<>>)
<1>1. Len(list1) \in Nat /\ Len(list2) \in Nat /\ Top \in Nat
  BY LenProperties, TopAssumption
<1>2. <<>> \in Seq(Entry) /\ Len(<<>>) = 0
  OBVIOUS
<1> QED  BY <1>1, <1>2 DEF Merging, TriedUpTo, Distinct, Sorted

\* When mergeTop returns, the list is full or everything has been tried.
LEMMA MergeTopReturns ==
    ASSUME NEW list1 \in Seq(Entry), NEW list2 \in Seq(Entry), Sorted(list1), Sorted(list2)
    PROVE  \E n1, n2 : /\ Merging(list1, list2, n1, n2, MergeTop(list1, list2))
                       /\ \/ Len(MergeTop(list1, list2)) = Top
                          \/ n1 = Len(list1) /\ n2 = Len(list2)
<1> DEFINE after == Passes(list1, list2)
           Full(at) == Len(at.list) = Top \/ (at.i1 = Len(list1) /\ at.i2 = Len(list2))
           Good(at) == /\ at = [i1 |-> at.i1, i2 |-> at.i2, list |-> at.list]
                       /\ Merging(list1, list2, at.i1, at.i2, at.list)
           S == {n \in Nat : Good(after[n]) /\ (Full(after[n]) \/ after[n].i1 + after[n].i2 = n)}
           last == Len(list1) + Len(list2)
<1>1. after[0] = Begin /\ \A n \in Nat : after[n + 1] = Pass(list1, list2, after[n])
  BY PassesOneByOne
<1>2. Len(list1) \in Nat /\ Len(list2) \in Nat /\ last \in Nat
  BY LenProperties
<1>3. MergeTop(list1, list2) = after[last].list
  BY DEF MergeTop
<1> HIDE DEF after
<1>4. 0 \in S
  <2>1. /\ Begin.i1 = 0 /\ Begin.i2 = 0 /\ Begin.list = <<>>
        /\ Begin = [i1 |-> Begin.i1, i2 |-> Begin.i2, list |-> Begin.list]
    BY DEF Begin
  <2> QED  BY <2>1, <1>1, NoneTried
<1>5. ASSUME NEW n \in Nat, n \in S PROVE n + 1 \in S
  <2> DEFINE at == after[n]
             next == after[n + 1]
  <2>1. next = Pass(list1, list2, at)
    BY <1>1
  <2>2. Good(at) /\ (Full(at) \/ at.i1 + at.i2 = n)
    BY <1>5
  <2> HIDE DEF at, next
  <2>3. /\ Good(next)
        /\ \/ next = at /\ Full(at)
           \/ next.i1 + next.i2 = at.i1 + at.i2 + 1
    BY <2>1, <2>2, PassTries
  <2>4. Full(at) => next = at
    BY <2>1 DEF Pass
  <2>5. Full(next) \/ next.i1 + next.i2 = n + 1
    BY <2>2, <2>3, <2>4
  <2> QED  BY <2>3, <2>5 DEF next
<1>6. last \in S
  <2> HIDE DEF S, last
  <2> QED  BY <1>2, <1>4, <1>5, EveryNumber
<1>7. Good(after[last]) /\ (Full(after[last]) \/ after[last].i1 + after[last].i2 = last)
  BY <1>6
<1>8. Full(after[last])
  <2>1. /\ after[last].i1 \in 0 .. Len(list1) /\ after[last].i2 \in 0 .. Len(list2)
    BY <1>7 DEF Merging, TriedUpTo
  <2> QED  BY <2>1, <1>2, <1>7
<1> QED  BY <1>3, <1>7, <1>8

-----------------------------------------------------------------------------
(* Rankings *)

\* What a list must be so that it can be merged with others.
Ranks(list, of) ==
    /\ list \in Seq(Entry) /\ Len(list) <= Top /\ Distinct(list) /\ Sorted(list)
    /\ \A i \in 1 .. Len(list) : \E j \in of : readings[j] = list[i]
    /\ \A j \in of :
         \/ \E i \in 1 .. Len(list) : list[i].id = readings[j].id /\ list[i].noise >= readings[j].noise
         \/ Len(list) = Top /\ \A i \in 1 .. Len(list) : list[i].noise >= readings[j].noise

\* What one of the two lists ranks keeps its place or is not needed.
LEMMA HalfRanked ==
    ASSUME NEW list1 \in Seq(Entry), NEW n1, NEW list \in Seq(Entry),
           Distinct(list1), TriedUpTo(list1, n1, list), Len(list) <= Top,
           Len(list) = Top \/ n1 = Len(list1),
           NEW of1, Ranks(list1, of1), NEW j \in of1, readings[j] \in Entry
    PROVE  \/ \E i \in 1 .. Len(list) : list[i].id = readings[j].id /\ list[i].noise >= readings[j].noise
           \/ Len(list) = Top /\ \A i \in 1 .. Len(list) : list[i].noise >= readings[j].noise
<1>1. Len(list1) \in Nat /\ Len(list) \in Nat /\ n1 \in Nat /\ n1 <= Len(list1) /\ Top \in Nat
  BY LenProperties, TopAssumption DEF TriedUpTo
<1>2. /\ \A k \in 1 .. Len(list1) : list1[k].noise \in Int
      /\ \A k \in 1 .. Len(list) : list[k].noise \in Int
      /\ readings[j].noise \in Int
  BY Entries, EntryFields
<1>3. ASSUME NEW k \in 1 .. Len(list1), list1[k].noise >= readings[j].noise, ~ (k \in 1 .. n1)
      PROVE  Len(list) = Top /\ \A i \in 1 .. Len(list) : list[i].noise >= readings[j].noise
  <2>1. k \in n1 + 1 .. Len(list1)
    BY <1>1, <1>3
  <2>2. \A i \in 1 .. Len(list) : list[i].noise >= list1[k].noise
    BY <2>1 DEF TriedUpTo
  <2> QED  BY <2>1, <2>2, <1>1, <1>2, <1>3
<1>4. CASE \E k \in 1 .. Len(list1) : list1[k].id = readings[j].id /\ list1[k].noise >= readings[j].noise
  <2>1. PICK k \in 1 .. Len(list1) : list1[k].id = readings[j].id /\ list1[k].noise >= readings[j].noise
    BY <1>4
  <2>2. CASE k \in 1 .. n1
    <3>1. PICK i \in 1 .. Len(list) : list[i].id = list1[k].id /\ list[i].noise >= list1[k].noise
      BY <2>2 DEF TriedUpTo
    <3> QED  BY <3>1, <2>1, <1>2
  <2> QED  BY <2>1, <2>2, <1>3
<1>5. CASE Len(list1) = Top /\ \A k \in 1 .. Len(list1) : list1[k].noise >= readings[j].noise
  <2>1. CASE n1 < Len(list1)
    <3>1. n1 + 1 \in 1 .. Len(list1) /\ ~ (n1 + 1 \in 1 .. n1)
      BY <2>1, <1>1
    <3> QED  BY <3>1, <1>3, <1>5
  <2>2. CASE n1 = Len(list1)
    <3> DEFINE place == [k \in 1 .. Top |-> CHOOSE i \in 1 .. Len(list) :
                            list[i].id = list1[k].id /\ list[i].noise >= list1[k].noise]
    <3>1. \A k \in 1 .. Top : /\ place[k] \in 1 .. Len(list) /\ list[place[k]].id = list1[k].id
                              /\ list[place[k]].noise >= list1[k].noise
      BY <2>2, <1>5 DEF TriedUpTo
    <3>2. place \in [1 .. Top -> 1 .. Len(list)]
      BY <3>1
    <3> HIDE DEF place
    <3>3. place \in Injection(1 .. Top, 1 .. Len(list))
      <4>1. ASSUME NEW k \in 1 .. Top, NEW l \in 1 .. Top, place[k] = place[l] PROVE k = l
        BY <4>1, <3>1, <1>5 DEF Distinct
      <4> QED  BY <3>2, <4>1 DEF Injection, IsInjective
    <3>4. /\ IsFiniteSet(1 .. Len(list)) /\ Cardinality(1 .. Len(list)) = Len(list)
          /\ Cardinality(1 .. Top) = Top
      <4>1. 1 \in Int /\ Len(list) \in Int /\ Top \in Int
        BY <1>1
      <4>2. /\ IsFiniteSet(1 .. Len(list))
            /\ Cardinality(1 .. Len(list)) = IF 1 > Len(list) THEN 0 ELSE Len(list) - 1 + 1
            /\ Cardinality(1 .. Top) = IF 1 > Top THEN 0 ELSE Top - 1 + 1
        BY <4>1, FS_Interval, Zenon
      <4>3. /\ (IF 1 > Len(list) THEN 0 ELSE Len(list) - 1 + 1) = Len(list)
            /\ (IF 1 > Top THEN 0 ELSE Top - 1 + 1) = Top
        BY <1>1
      <4> QED  BY <4>2, <4>3
    <3>5. /\ Top <= Len(list)
          /\ Top = Len(list) <=> place \in Surjection(1 .. Top, 1 .. Len(list))
      BY <3>3, <3>4, FS_Injection
    <3>6. Len(list) = Top /\ place \in Surjection(1 .. Top, 1 .. Len(list))
      BY <3>5, <1>1
    <3>7. \A i \in 1 .. Len(list) : \E k \in 1 .. Top : place[k] = i
      BY <3>6 DEF Surjection
    <3>8. \A i \in 1 .. Len(list) : list[i].noise >= readings[j].noise
      <4> SUFFICES ASSUME NEW i \in 1 .. Len(list) PROVE list[i].noise >= readings[j].noise
        OBVIOUS
      <4>1. PICK k \in 1 .. Top : place[k] = i
        BY <3>7
      <4>2. list[i].noise >= list1[k].noise
        BY <3>1, <4>1
      <4>3. list1[k].noise >= readings[j].noise /\ list1[k].noise \in Int
        BY <1>2, <1>5
      <4> QED  BY <4>2, <4>3, <1>2
    <3> QED  BY <3>6, <3>8
  <2> QED  BY <2>1, <2>2, <1>1
<1> QED  BY <1>4, <1>5 DEF Ranks

LEMMA MergedRanks ==
    ASSUME NEW list1, NEW list2, NEW of1, NEW of2, Ranks(list1, of1), Ranks(list2, of2),
           \A j \in of1 \cup of2 : readings[j] \in Entry
    PROVE  Ranks(MergeTop(list1, list2), of1 \cup of2)
<1> DEFINE list == MergeTop(list1, list2)
<1>1. PICK n1, n2 : /\ Merging(list1, list2, n1, n2, list)
                    /\ Len(list) = Top \/ (n1 = Len(list1) /\ n2 = Len(list2))
  BY MergeTopReturns DEF Ranks
<1> HIDE DEF list
<1>2. /\ list1 \in Seq(Entry) /\ list2 \in Seq(Entry) /\ Distinct(list1) /\ Distinct(list2)
      /\ list \in Seq(Entry) /\ Len(list) <= Top /\ Distinct(list) /\ Sorted(list)
      /\ TriedUpTo(list1, n1, list) /\ TriedUpTo(list2, n2, list)
  BY <1>1 DEF Ranks, Merging
<1>3. ASSUME NEW i \in 1 .. Len(list)
      PROVE  \E j \in of1 \cup of2 : readings[j] = list[i]
  <2>1. n1 \in 0 .. Len(list1) /\ n2 \in 0 .. Len(list2) /\ Len(list1) \in Nat /\ Len(list2) \in Nat
    BY <1>2, LenProperties DEF TriedUpTo
  <2>2. \/ \E k \in 1 .. Len(list1) : list1[k] = list[i]
        \/ \E k \in 1 .. Len(list2) : list2[k] = list[i]
    BY <1>1, <2>1 DEF Merging, Taken
  <2> QED  BY <2>2 DEF Ranks
<1>4. ASSUME NEW j \in of1 \cup of2
      PROVE  \/ \E i \in 1 .. Len(list) : list[i].id = readings[j].id /\ list[i].noise >= readings[j].noise
             \/ Len(list) = Top /\ \A i \in 1 .. Len(list) : list[i].noise >= readings[j].noise
  <2>1. readings[j] \in Entry
    OBVIOUS
  <2>2. CASE j \in of1
    BY <2>1, <2>2, <1>1, <1>2, HalfRanked
  <2>3. CASE j \in of2
    BY <2>1, <2>3, <1>1, <1>2, HalfRanked
  <2> QED  BY <2>2, <2>3
<1>5. Ranks(list, of1 \cup of2)
  BY <1>2, <1>3, <1>4 DEF Ranks
<1> QED  BY <1>5 DEF list

LEMMA LevelIsLoudest ==
    ASSUME NEW of \in SUBSET (1 .. Window), \A i \in of : readings[i] \in Entry,
           NEW id \in IdsOf(of)
    PROVE  \E i \in of : /\ readings[i].id = id /\ Level(id, of) = readings[i].noise
                         /\ \A j \in of : readings[j].id = id => readings[j].noise <= Level(id, of)
<1> DEFINE HasLoudest(T) == \E i \in T : \A j \in T : readings[j].noise <= readings[i].noise
           S == {n \in Nat : \A T \in SUBSET of : T # {} /\ (\A i \in T : i <= n) => HasLoudest(T)}
           Named == {j \in of : readings[j].id = id}
<1>1. \A i \in of : i \in Nat /\ i >= 1 /\ i <= Window /\ readings[i].noise \in Int
  BY EntryFields, TopAssumption
<1>2. 0 \in S
  <2>1. ASSUME NEW T \in SUBSET of, T # {} PROVE ~ \A i \in T : i <= 0
    <3>1. PICK i \in T : TRUE
      BY <2>1
    <3>2. i >= 1 /\ i \in Nat
      BY <1>1
    <3> QED  BY <3>2
  <2> HIDE DEF HasLoudest
  <2> QED  BY <2>1
<1>3. ASSUME NEW n \in Nat, n \in S PROVE n + 1 \in S
  <2> SUFFICES ASSUME NEW T \in SUBSET of, T # {}, \A i \in T : i <= n + 1 PROVE HasLoudest(T)
    OBVIOUS
  <2>1. CASE n + 1 \notin T
    <3>1. \A i \in T : i <= n
      BY <2>1, <1>1
    <3> QED  BY <3>1, <1>3
  <2>2. CASE T = {n + 1}
    BY <2>2, <1>1
  <2>3. CASE n + 1 \in T /\ T # {n + 1}
    <3> DEFINE U == T \ {n + 1}
    <3>1. U \in SUBSET of /\ U # {} /\ \A i \in U : i <= n
      BY <2>3, <1>1
    <3>2. HasLoudest(U)
      <4> HIDE DEF U, HasLoudest
      <4> QED  BY <3>1, <1>3
    <3>3. PICK i \in U : \A j \in U : readings[j].noise <= readings[i].noise
      BY <3>2
    <3>4. CASE readings[n + 1].noise <= readings[i].noise
      BY <3>3, <3>4
    <3>5. CASE readings[i].noise < readings[n + 1].noise
      <4>1. \A j \in T : readings[j].noise <= readings[n + 1].noise
        BY <3>3, <3>5, <2>3, <1>1
      <4> QED  BY <4>1, <2>3
    <3>6. i \in of /\ n + 1 \in of
      BY <2>3
    <3> QED  BY <3>4, <3>5, <3>6, <1>1
  <2> QED  BY <2>1, <2>2, <2>3
<1>4. Window \in S
  <2> HIDE DEF S
  <2> QED  BY <1>2, <1>3, EveryNumber, TopAssumption
<1>5. Named \in SUBSET of /\ Named # {} /\ \A i \in Named : i <= Window
  BY <1>1 DEF IdsOf
<1>6. HasLoudest(Named)
  <2> HIDE DEF HasLoudest, Named
  <2> QED  BY <1>4, <1>5
<1>7. PICK i \in Named : \A j \in Named : readings[j].noise <= readings[i].noise
  BY <1>6
<1> DEFINE IsLevel(level) == \A j \in of : readings[j].id = id => readings[j].noise <= level
           Noises == {readings[k].noise : k \in Named}
<1>8. readings[i].noise \in Noises /\ IsLevel(readings[i].noise)
  BY <1>7
<1>9. Level(id, of) = CHOOSE level \in Noises : IsLevel(level)
  BY DEF Level
<1>10. Level(id, of) \in Noises /\ IsLevel(Level(id, of))
  <2> HIDE DEF Noises, IsLevel
  <2> QED  BY <1>8, <1>9
<1> QED  BY <1>10

LEMMA RanksIsRanking ==
    ASSUME NEW list, NEW of \in SUBSET (1 .. Window), \A i \in of : readings[i] \in Entry, Ranks(list, of)
    PROVE  IsRanking(list, of)
<1> DEFINE ranked == {list[i].id : i \in 1 .. Len(list)}
           name == [i \in 1 .. Len(list) |-> list[i].id]
<1>1. Len(list) \in Nat /\ \A i \in 1 .. Len(list) : list[i].noise \in Int
  BY Entries DEF Ranks
<1>2. Len(list) = Cardinality(ranked)
  <2>1. name \in Bijection(1 .. Len(list), ranked)
    BY DEF Ranks, Distinct, Bijection, Injection, Surjection, IsInjective
  <2> HIDE DEF ranked, name
  <2>2. ExistsBijection(1 .. Len(list), ranked)
    BY <2>1 DEF ExistsBijection
  <2>3. 1 \in Int /\ Len(list) \in Int
    BY <1>1
  <2>4. IsFiniteSet(1 .. Len(list)) /\ Cardinality(1 .. Len(list)) = IF 1 > Len(list) THEN 0 ELSE Len(list) - 1 + 1
    BY <2>3, FS_Interval, Zenon
  <2>5. Cardinality(ranked) = Cardinality(1 .. Len(list))
    BY <2>2, <2>4, FS_Bijection
  <2>6. (IF 1 > Len(list) THEN 0 ELSE Len(list) - 1 + 1) = Len(list)
    BY <1>1
  <2> QED  BY <2>4, <2>5, <2>6
<1>3. ranked \subseteq IdsOf(of)
  BY DEF Ranks, IdsOf
<1>4. Len(list) = Top \/ ranked = IdsOf(of)
  <2> SUFFICES ASSUME Len(list) # Top PROVE IdsOf(of) \subseteq ranked
    BY <1>3
  <2> QED  BY DEF Ranks, IdsOf
<1>5. ASSUME NEW i \in 1 .. Len(list) PROVE list[i].noise = Level(list[i].id, of)
  <2>1. PICK j \in of : readings[j] = list[i]
    BY DEF Ranks
  <2>2. list[i].id \in IdsOf(of)
    BY <2>1 DEF IdsOf
  <2>3. PICK k \in of : /\ readings[k].id = list[i].id /\ Level(list[i].id, of) = readings[k].noise
                        /\ \A m \in of : readings[m].id = list[i].id => readings[m].noise <= Level(list[i].id, of)
    BY <2>2, LevelIsLoudest
  <2>4. list[i].noise <= Level(list[i].id, of)
    BY <2>1, <2>3
  <2>5. list[i].noise >= readings[k].noise
    <3>1. \/ \E l \in 1 .. Len(list) : list[l].id = readings[k].id /\ list[l].noise >= readings[k].noise
          \/ Len(list) = Top /\ \A l \in 1 .. Len(list) : list[l].noise >= readings[k].noise
      BY DEF Ranks
    <3>2. \A l \in 1 .. Len(list) : list[l].id = list[i].id => l = i
      BY DEF Ranks, Distinct
    <3> QED  BY <3>1, <3>2, <2>3
  <2>6. readings[k].noise \in Int
    BY EntryFields
  <2> QED  BY <2>3, <2>4, <2>5, <2>6, <1>1
<1>6. ASSUME NEW i \in 1 .. Len(list), NEW id \in IdsOf(of) \ ranked
      PROVE  list[i].noise >= Level(id, of)
  <2>1. PICK k \in of : readings[k].id = id /\ Level(id, of) = readings[k].noise
    BY LevelIsLoudest
  <2>2. ~ \E l \in 1 .. Len(list) : list[l].id = readings[k].id
    BY <2>1, <1>6
  <2> QED  BY <2>1, <2>2 DEF Ranks
<1> QED  BY <1>2, <1>3, <1>4, <1>5, <1>6 DEF IsRanking, Ranks, Sorted

-----------------------------------------------------------------------------
(* The specification *)

RankInv ==
    /\ lists # {} => readings \in [1 .. Window -> Entry]
    /\ \A l \in lists : l.of \in SUBSET (1 .. Window) /\ Ranks(l.list, l.of)

LEMMA RankInitially == Init => RankInv
<1> SUFFICES ASSUME Init, NEW i \in 1 .. Window PROVE Ranks(<<readings[i]>>, {i})
  BY DEF Init, RankInv
<1>1. readings[i] \in Entry /\ readings[i].noise \in Int
  BY EntryFields DEF Init
<1>2. <<readings[i]>> \in Seq(Entry) /\ Len(<<readings[i]>>) = 1 /\ <<readings[i]>>[1] = readings[i]
  BY <1>1
<1>3. 1 <= Top
  BY TopAssumption
<1> QED  BY <1>1, <1>2, <1>3 DEF Ranks, Distinct, Sorted

LEMMA RankStep == RankInv /\ [Next]_vars => RankInv'
<1> SUFFICES ASSUME RankInv, [Next]_vars PROVE RankInv'
  OBVIOUS
<1>1. CASE UNCHANGED vars
  BY <1>1 DEF vars, RankInv, Ranks
<1>2. CASE Next
  <2>1. PICK a \in lists, b \in lists : Merge(a, b)
    BY <1>2 DEF Next
  <2> DEFINE merged == [of |-> a.of \cup b.of, list |-> MergeTop(a.list, b.list)]
  <2>2. readings' = readings /\ readings \in [1 .. Window -> Entry] /\ lists' \subseteq lists \cup {merged}
    BY <2>1 DEF Merge, RankInv
  <2>3. /\ a.of \in SUBSET (1 .. Window) /\ Ranks(a.list, a.of)
        /\ b.of \in SUBSET (1 .. Window) /\ Ranks(b.list, b.of)
    BY <2>1 DEF RankInv
  <2>4. \A j \in a.of \cup b.of : readings[j] \in Entry
    BY <2>2, <2>3
  <2>5. Ranks(MergeTop(a.list, b.list), a.of \cup b.of)
    BY <2>3, <2>4, MergedRanks
  <2>6. merged.of \in SUBSET (1 .. Window) /\ Ranks(merged.list, merged.of)
    BY <2>3, <2>5
  <2> HIDE DEF merged
  <2>7. \A l \in lists' : l.of \in SUBSET (1 .. Window) /\ Ranks(l.list, l.of)
    BY <2>2, <2>6 DEF RankInv
  <2> QED  BY <2>2, <2>7 DEF RankInv, Ranks
<1> QED  BY <1>1, <1>2

LEMMA InvRankings == RankInv => ListsAreRankings
<1> SUFFICES ASSUME RankInv, NEW l \in lists PROVE IsRanking(l.list, l.of)
  BY DEF ListsAreRankings
<1>1. /\ l.of \in SUBSET (1 .. Window) /\ Ranks(l.list, l.of)
      /\ \A i \in l.of : readings[i] \in Entry
  BY DEF RankInv
<1> QED  BY <1>1, RanksIsRanking

\* Whatever lists reduceByWindow merges first, each list that is not merged
\* yet is the ranking of its readings (DataAnalytics.java:161-198,
\* MergeList.java:18-26).
THEOREM RankingsCorrect == Spec => []ListsAreRankings
  BY RankInitially, RankStep, InvRankings, PTL DEF Spec

-----------------------------------------------------------------------------
(* From the ranking to the file *)

ResultInv == result = <<>> \/ \E list \in Seq(Entry) : result = <<list>>

DumpInv == RankInv /\ Inv /\ ResultInv

\* What the topic holds are records with the key of a task and a list.
ListsAreRecords == [key : 1 .. MaxTopic, value : Seq(Entry)] \subseteq Records

LEMMA DumpInitially == TopDumpInit => DumpInv
  BY RankInitially, DumperInitially DEF TopDumpInit, DumpInv, ResultInv

LEMMA PublishedIsStored ==
    ASSUME ListsAreRecords, DumpInv, PublishTop, ~ UNCHANGED topic
    PROVE  Stored
<1>1. /\ result # <<>> /\ Len(topic) < MaxTopic /\ topic' = Append(topic, Record(Head(result)))
      /\ UNCHANGED <<committed, thread, position, batch, fileVars, historyVars>>
  BY DEF PublishTop
<1>2. PICK list \in Seq(Entry) : result = <<list>>
  BY <1>1 DEF DumpInv, ResultInv
<1>3. topic \in Seq(Records) /\ Len(topic) \in Nat /\ MaxTopic \in Nat
  BY LenProperties, MaxTopicAssumption DEF DumpInv, Inv, TypeInv
<1>4. Head(result) \in Seq(Entry)
  BY <1>2
<1>5. Record(Head(result)) \in Records
  BY <1>1, <1>3, <1>4 DEF Record, ListsAreRecords
<1> DEFINE r == Record(Head(result))
<1> HIDE DEF r
<1>6. topic' = Append(topic, r) /\ r \in Records
  BY <1>1, <1>5 DEF r
<1>7. /\ topic' \in Seq(Records) /\ Len(topic') = Len(topic) + 1
      /\ \A i \in 1 .. Len(topic) : topic'[i] = topic[i] /\ topic'[i] \in Records
  BY <1>3, <1>6, AppendProperties, ElementOfSeq
<1>8. SubSeq(topic', 1, Len(topic)) = topic
  <2>1. 1 \in Int /\ Len(topic) \in Int
    BY <1>3
  <2> DEFINE old == SubSeq(topic', 1, Len(topic))
  <2>2. /\ old \in Seq(Records) /\ Len(old) = Len(topic)
        /\ \A i \in 1 .. Len(topic) : old[i] = topic'[i]
    BY <1>3, <1>7, SubSeqProperties
  <2> HIDE DEF old
  <2>3. old = topic
    BY <1>3, <1>7, <2>2, SeqEqual
  <2> QED  BY <2>3 DEF old
<1>9. Len(topic') > Len(topic)
  BY <1>3, <1>7
<1> QED  BY <1>1, <1>7, <1>8, <1>9, Zenon DEF Stored

LEMMA DumpStep ==
    ASSUME ListsAreRecords
    PROVE  DumpInv /\ [TopDumpNext]_dumpVars => DumpInv' /\ [DumperNext \/ Stored]_dumperVars
<1> SUFFICES ASSUME DumpInv, [TopDumpNext]_dumpVars
             PROVE  DumpInv' /\ [DumperNext \/ Stored]_dumperVars
  OBVIOUS
<1>1. [DumperNext \/ Stored]_dumperVars => Inv'
  BY DumperStep DEF DumpInv
<1>2. [Next]_vars => RankInv'
  BY RankStep DEF DumpInv
<1>3. CASE UNCHANGED dumpVars
  BY <1>1, <1>2, <1>3 DEF dumpVars, DumpInv, ResultInv
<1>4. CASE Next /\ UNCHANGED <<dumperVars, result>>
  BY <1>1, <1>2, <1>4 DEF DumpInv, ResultInv
<1>5. CASE WindowDone
  <2>1. UNCHANGED dumperVars /\ lists' = {}
    BY <1>5 DEF WindowDone
  <2>2. PICK l \in lists : result' = <<l.list>>
    BY <1>5 DEF WindowDone
  <2>3. l.list \in Seq(Entry)
    BY <2>2 DEF DumpInv, RankInv, Ranks
  <2>4. RankInv'
    BY <2>1 DEF RankInv
  <2> QED  BY <1>1, <2>1, <2>2, <2>3, <2>4 DEF DumpInv, ResultInv
<1>6. CASE PublishTop
  <2>1. UNCHANGED vars /\ result' \in {<<>>, result}
    BY <1>6 DEF PublishTop
  <2>2. [DumperNext \/ Stored]_dumperVars
    <3>1. CASE UNCHANGED topic
      BY <1>6, <3>1 DEF PublishTop, dumperVars
    <3>2. CASE ~ UNCHANGED topic
      BY <1>6, <3>2, PublishedIsStored
    <3> QED  BY <3>1, <3>2
  <2> QED  BY <1>1, <1>2, <2>1, <2>2 DEF DumpInv, ResultInv
<1>7. CASE Dumper
  BY <1>1, <1>2, <1>7 DEF Dumper, DumpInv, ResultInv
<1> QED  BY <1>3, <1>4, <1>5, <1>6, <1>7 DEF TopDumpNext

\* The ranking stays right while the window's list is published and dumped.
THEOREM RankingsDumped == ASSUME ListsAreRecords PROVE TopDumpSpec => []ListsAreRankings
<1>1. DumpInv => ListsAreRankings
  BY InvRankings DEF DumpInv
<1> QED  BY DumpInitially, DumpStep, <1>1, PTL DEF TopDumpSpec

\* For its dumper the driver is somebody who adds records to the topic, though
\* tasks fail and repeat: so the file is right and so are the commits.
THEOREM TopDumpImplementsDumper ==
    ASSUME ListsAreRecords
    PROVE  TopDumpSpec => DumperSpec /\ []FileFollowsTopic /\ []CommittedOnDisk
<1>1. TopDumpInit => DumperInit
  BY DEF TopDumpInit
<1>2. TopDumpSpec => DumperSpec
  BY DumpInitially, DumpStep, <1>1, PTL DEF TopDumpSpec, DumperSpec
<1> QED  BY <1>2, FileCorrect, CommitsCorrect, PTL
=============================================================================
