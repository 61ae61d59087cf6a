------------------------- MODULE StreakStateProofs -------------------------
(***************************************************************************)
(* For every sequence of readings, every cutting into batches and any      *)
(* number of failures and restarts, maxValue is the longest quiet streak   *)
(* that the driver has seen, and while readings arrive in order what is    *)
(* published is a streak without a loud reading.                           *)
(***************************************************************************)
EXTENDS StreakState, TLAPS

\* The environment: readings are of the time after Start.
FeedInv ==
    /\ now \in Nat /\ now >= 1000
    /\ \A reading \in sending : reading.ts >= 1000
    /\ \A i \in 1 .. Len(topic) : topic[i].ts >= 1000

\* What the driver has seen is the last part of what it took from the topic.
SeenInv ==
    /\ Len(seen) <= position
    /\ \A i \in 1 .. Len(seen) : seen[i] = topic[position - Len(seen) + i]

\* baseTimestamp is where the streak began that the next quiet reading prolongs.
BaseInv ==
    /\ seen = <<>> => baseTimestamp = 0 /\ maxValue = 0
    /\ seen # <<>> => \E i \in 1 .. Len(seen) : /\ Quiet!Quiet(seen, i, Len(seen))
                                                /\ baseTimestamp = TsSecs(seen[i])

LongestInv == seen # <<>> => Quiet!IsLongest(maxValue, seen, Len(seen))

ResultsInv ==
    \A r \in 1 .. Len(results) :
        /\ results[r].time > 0
        /\ \E n \in 1 .. Len(seen) : Quiet!IsLongest(results[r].time, seen, n)

\* A result is a streak of the topic.
IsStreak(streak) ==
    /\ streak.first <= streak.last /\ streak.last <= Len(topic)
    /\ \E i \in streak.first .. streak.last :
         /\ streak.time = TsSecs(topic[streak.last]) - TsSecs(topic[i])
         /\ \A k \in i + 1 .. streak.last : ~IsLoud(topic[k])

StreaksInv ==
    /\ \A r \in 1 .. Len(results) : IsStreak(results[r])
    /\ \A streak \in published : IsStreak(streak)

Inv == TypeOK /\ FeedInv /\ SeenInv /\ BaseInv /\ LongestInv /\ ResultsInv /\ StreaksInv

-----------------------------------------------------------------------------
(* Time and streaks *)

LEMMA SecondsType ==
    ASSUME NEW reading \in Reading
    PROVE  /\ TsSecs(reading) \in Nat
           /\ reading.ts >= 1000 => TsSecs(reading) >= 1
           /\ Quiet!Secs(reading) = TsSecs(reading)
  BY DEF Reading, TsSecs, Quiet!Secs

LEMMA SecondsMonotone ==
    ASSUME NEW r \in Reading, NEW s \in Reading, r.ts <= s.ts
    PROVE  TsSecs(r) <= TsSecs(s)
  BY DEF Reading, TsSecs

LEMMA LoudOrQuiet ==
    ASSUME NEW reading \in Reading
    PROVE  /\ IsLoud(reading) <=> reading.noise > T
           /\ ~IsLoud(reading) <=> reading.noise <= T
<1>1. reading.noise \in Int
  BY LevelsAssumption DEF Reading
<1>2. ~(reading.noise > T) <=> reading.noise <= T
  BY <1>1 DEF T
<1> QED  BY <1>2 DEF IsLoud

\* Only one place can be the beginning of a streak that ends at a given one.
LEMMA OneBeginning ==
    ASSUME NEW h \in Seq(Reading), NEW n \in 1 .. Len(h), NEW i \in 1 .. n, NEW j \in 1 .. n,
           Quiet!Quiet(h, i, n), Quiet!Quiet(h, j, n)
    PROVE  i = j
<1>1. \A a, b \in 1 .. n : ~(a < b /\ Quiet!Quiet(h, a, n) /\ Quiet!Quiet(h, b, n))
  <2> SUFFICES ASSUME NEW a \in 1 .. n, NEW b \in 1 .. n, a < b,
                      Quiet!Quiet(h, a, n), Quiet!Quiet(h, b, n)
               PROVE  FALSE
    OBVIOUS
  <2>1. b # 1 /\ b \in a + 1 .. n /\ h[b] \in Reading
    OBVIOUS
  <2> QED  BY <2>1, LoudOrQuiet DEF Quiet!Quiet
<1> QED  BY <1>1

\* Streaks of a longer history that end in its earlier part.
LEMMA EarlierStreaks ==
    ASSUME NEW h \in Seq(Reading), NEW r \in Reading, NEW n \in 1 .. Len(h)
    PROVE  Quiet!Lengths(Append(h, r), n) = Quiet!Lengths(h, n)
<1> DEFINE g == Append(h, r)
<1>1. \A k \in 1 .. n : g[k] = h[k]
  OBVIOUS
<1>2. \A i, j \in 1 .. n : i <= j => (Quiet!Quiet(g, i, j) <=> Quiet!Quiet(h, i, j))
  <2> SUFFICES ASSUME NEW i \in 1 .. n, NEW j \in 1 .. n, i <= j
               PROVE  Quiet!Quiet(g, i, j) <=> Quiet!Quiet(h, i, j)
    OBVIOUS
  <2>1. \A k \in i .. j : g[k] = h[k]
    BY <1>1
  <2> HIDE DEF g
  <2> QED  BY <2>1 DEF Quiet!Quiet
<1>3. Quiet!Streaks(g, n) = Quiet!Streaks(h, n)
  <2> HIDE DEF g
  <2> QED  BY <1>2 DEF Quiet!Streaks
<1>4. \A ij \in Quiet!Streaks(h, n) : Quiet!Length(g, ij) = Quiet!Length(h, ij)
  <2> HIDE DEF g
  <2> QED  BY <1>1 DEF Quiet!Streaks, Quiet!Length
<1> QED  BY <1>3, <1>4 DEF Quiet!Lengths

\* The one length that a further reading adds.
LEMMA LaterStreak ==
    ASSUME NEW h \in Seq(Reading), NEW r \in Reading, h # <<>>,
           NEW b \in 1 .. Len(h), Quiet!Quiet(h, b, Len(h))
    PROVE  Quiet!Lengths(Append(h, r), Len(h) + 1)
           = Quiet!Lengths(h, Len(h)) \cup {IF IsLoud(r) THEN 0 ELSE TsSecs(r) - TsSecs(h[b])}
<1> DEFINE g == Append(h, r)
           n == Len(h)
           from == IF IsLoud(r) THEN n + 1 ELSE b
<1>1. n \in Nat \ {0} /\ g \in Seq(Reading) /\ Len(g) = n + 1 /\ g[n + 1] = r
  OBVIOUS
<1>2. \A k \in 1 .. n : g[k] = h[k] /\ h[k] \in Reading
  OBVIOUS
<1>3. \A i \in 1 .. n + 1 : Quiet!Quiet(g, i, n + 1) <=> i = from
  <2> SUFFICES ASSUME NEW i \in 1 .. n + 1 PROVE Quiet!Quiet(g, i, n + 1) <=> i = from
    OBVIOUS
  <2> HIDE DEF g, n
  <2>1. CASE IsLoud(r)
    BY <2>1, <1>1, LoudOrQuiet DEF Quiet!Quiet
  <2>2. CASE ~IsLoud(r) /\ i = n + 1
    BY <2>2, <1>1, LoudOrQuiet DEF Quiet!Quiet, n
  <2>3. CASE ~IsLoud(r) /\ i # n + 1
    <3>1. i \in 1 .. n
      BY <2>3, <1>1
    <3>2. \A k \in i + 1 .. n + 1 : k = n + 1 \/ (k \in i + 1 .. n /\ g[k] = h[k])
      BY <3>1, <1>1, <1>2
    <3>3. Quiet!Quiet(g, i, n + 1) <=> Quiet!Quiet(h, i, n)
      <4>1. g[i] = h[i] /\ g[n + 1].noise <= T
        BY <3>1, <2>3, <1>1, <1>2, LoudOrQuiet
      <4>2. i + 1 .. n \subseteq i + 1 .. n + 1 /\ \A k \in i + 1 .. n : g[k] = h[k]
        BY <3>1, <1>1, <1>2
      <4>3. (\A k \in i + 1 .. n + 1 : g[k].noise <= T) <=> (\A k \in i + 1 .. n : h[k].noise <= T)
        BY <4>1, <4>2, <3>2
      <4> QED  BY <4>1, <4>3 DEF Quiet!Quiet
    <3>4. Quiet!Quiet(h, i, n) <=> i = b
      BY <3>1, <1>1, OneBeginning DEF n
    <3> QED  BY <3>3, <3>4, <2>3
  <2> QED  BY <2>1, <2>2, <2>3
<1>4. from \in 1 .. n + 1
  BY <1>1
<1>5. Quiet!Streaks(g, n + 1) = Quiet!Streaks(g, n) \cup {<<from, n + 1>>}
  <2> HIDE DEF g, n, from
  <2> QED  BY <1>1, <1>3, <1>4 DEF Quiet!Streaks
<1>6. Quiet!Length(g, <<from, n + 1>>) = IF IsLoud(r) THEN 0 ELSE TsSecs(r) - TsSecs(h[b])
  <2>1. CASE IsLoud(r)
    BY <2>1, <1>1, SecondsType DEF Quiet!Length
  <2>2. CASE ~IsLoud(r)
    BY <2>2, <1>1, <1>2, SecondsType DEF Quiet!Length
  <2> QED  BY <2>1, <2>2
<1>7. Quiet!Lengths(g, n + 1) = Quiet!Lengths(g, n) \cup {Quiet!Length(g, <<from, n + 1>>)}
  <2> HIDE DEF g, n, from
  <2> QED  BY <1>5 DEF Quiet!Lengths
<1> QED  BY <1>1, <1>6, <1>7, EarlierStreaks

-----------------------------------------------------------------------------
(* A call of updateState *)

\* What it does to the base and to the longest streak.
LEMMA CallKeepsLongest ==
    ASSUME Inv, Call
    PROVE  BaseInv' /\ LongestInv' /\ maxValue' \in Nat /\ baseTimestamp' \in Nat
           /\ currentValue' \in Int
<1> DEFINE r == topic[position + 1]
           n == Len(seen)
<1>1. /\ r \in Reading /\ r.ts >= 1000
      /\ seen \in Seq(Reading) /\ n \in Nat
      /\ seen' = Append(seen, r)
      /\ maxValue \in Nat /\ baseTimestamp \in Nat /\ currentValue \in Int
  BY DEF Inv, TypeOK, FeedInv, Call
<1>2. /\ seen' \in Seq(Reading) /\ Len(seen') = n + 1 /\ seen'[n + 1] = r /\ seen' # <<>>
      /\ \A k \in 1 .. n : seen'[k] = seen[k] /\ seen[k] \in Reading
  BY <1>1
<1>3. TsSecs(r) \in Nat /\ TsSecs(r) >= 1 /\ Quiet!Secs(r) = TsSecs(r)
  BY <1>1, SecondsType
<1>4. /\ baseTimestamp' = Base(r)
      /\ currentValue' = Current(r)
      /\ maxValue' = IF IsRecord(r) THEN currentValue' ELSE maxValue
  BY DEF Call, UpdateState
<1>5. baseTimestamp' \in Nat /\ currentValue' \in Int
  BY <1>1, <1>3, <1>4 DEF Base, Current
<1>6. maxValue' \in Nat
  BY <1>1, <1>4, <1>5 DEF IsRecord
<1>7. CASE seen = <<>>
  <2>1. n = 0 /\ baseTimestamp = 0 /\ maxValue = 0
    BY <1>7 DEF Inv, BaseInv
  <2>2. baseTimestamp' = TsSecs(r) /\ maxValue' = 0
    BY <2>1, <1>1, <1>3, <1>4 DEF Base, Current, IsRecord
  <2>3. Quiet!Quiet(seen', 1, 1)
    BY DEF Quiet!Quiet
  <2>4. BaseInv'
    BY <2>1, <2>2, <2>3, <1>2 DEF BaseInv
  <2>5. Quiet!Streaks(seen', 1) = {<<1, 1>>}
    BY <2>3 DEF Quiet!Streaks
  <2>6. Quiet!Length(seen', <<1, 1>>) = 0
    BY <2>1, <1>2, <1>3 DEF Quiet!Length
  <2>7. Quiet!Lengths(seen', 1) = {0}
    BY <2>5, <2>6 DEF Quiet!Lengths
  <2>8. LongestInv'
    BY <2>1, <2>2, <2>7, <1>2 DEF LongestInv, Quiet!IsLongest
  <2> QED  BY <2>4, <2>8, <1>5, <1>6
<1>8. CASE seen # <<>>
  <2>1. PICK b \in 1 .. n : Quiet!Quiet(seen, b, n) /\ baseTimestamp = TsSecs(seen[b])
    BY <1>8 DEF Inv, BaseInv
  <2>2. seen[b] \in Reading /\ seen[b].ts >= 1000
    <3>1. position - n + b \in 1 .. Len(topic) /\ seen[b] = topic[position - n + b]
      <4>1. position \in Nat /\ Len(topic) \in Nat /\ position <= Len(topic) /\ n <= position
        BY DEF Inv, TypeOK, SeenInv
      <4> QED  BY <4>1, <1>1, <2>1 DEF Inv, SeenInv
    <3> QED  BY <3>1, <1>2, <2>1 DEF Inv, FeedInv
  <2>3. baseTimestamp >= 1
    BY <2>1, <2>2, SecondsType
  <2>4. baseTimestamp' = IF IsLoud(r) THEN TsSecs(r) ELSE baseTimestamp
    BY <2>3, <1>4, <1>1 DEF Base
  <2>5. BaseInv'
    <3>1. CASE IsLoud(r)
      <4>1. Quiet!Quiet(seen', n + 1, n + 1)
        BY <3>1, <1>1, <1>2, LoudOrQuiet DEF Quiet!Quiet
      <4> QED  BY <4>1, <3>1, <2>4, <1>1, <1>2 DEF BaseInv
    <3>2. CASE ~IsLoud(r)
      <4>1. \A k \in b + 1 .. n + 1 : seen'[k].noise <= T
        <5> SUFFICES ASSUME NEW k \in b + 1 .. n + 1 PROVE seen'[k].noise <= T
          OBVIOUS
        <5>1. CASE k = n + 1
          BY <5>1, <3>2, <1>1, <1>2, LoudOrQuiet
        <5>2. CASE k # n + 1
          <6>1. k \in b + 1 .. n /\ k \in 1 .. n
            BY <5>2, <1>1, <2>1
          <6> QED  BY <6>1, <1>2, <2>1 DEF Quiet!Quiet
        <5> QED  BY <5>1, <5>2
      <4>2. Quiet!Quiet(seen', b, n + 1)
        BY <4>1, <1>2, <2>1 DEF Quiet!Quiet
      <4> QED  BY <4>2, <3>2, <2>1, <2>4, <1>1, <1>2 DEF BaseInv
    <3> QED  BY <3>1, <3>2
  <2>6. Quiet!IsLongest(maxValue, seen, n)
    BY <1>8 DEF Inv, LongestInv
  <2> DEFINE added == IF IsLoud(r) THEN 0 ELSE TsSecs(r) - TsSecs(seen[b])
  <2>7. Quiet!Lengths(seen', n + 1) = Quiet!Lengths(seen, n) \cup {added}
    BY <1>1, <1>8, <2>1, LaterStreak
  <2>8. added \in Int /\ maxValue' = IF added > maxValue THEN added ELSE maxValue
    <3>1. CASE IsLoud(r)
      BY <3>1, <1>1, <1>4 DEF IsRecord
    <3>2. CASE ~IsLoud(r)
      <4>1. Current(r) = added
        BY <3>2, <2>1, <2>4, <1>4 DEF Current
      <4>2. added \in Int
        BY <3>2, <1>3, <2>1, <1>1
      <4> HIDE DEF added
      <4> QED  BY <4>1, <4>2, <3>2, <1>1, <1>4 DEF IsRecord
    <3> QED  BY <3>1, <3>2
  <2>9. \A length \in Quiet!Lengths(seen, n) : length \in Int
    <3>1. \A k \in 1 .. n : Quiet!Secs(seen[k]) \in Nat
      BY <1>2, SecondsType
    <3> QED  BY <3>1 DEF Quiet!Lengths, Quiet!Length, Quiet!Streaks
  <2>10. Quiet!IsLongest(maxValue', seen', n + 1)
    <3> HIDE DEF added
    <3> QED  BY <2>6, <2>7, <2>8, <2>9, <1>1 DEF Quiet!IsLongest
  <2>11. LongestInv'
    BY <2>10, <1>2 DEF LongestInv
  <2> QED  BY <2>5, <2>11, <1>5, <1>6
<1> QED  BY <1>7, <1>8

\* A result is the length of a streak of the topic.
LEMMA RecordIsStreak ==
    ASSUME Inv, Call, IsRecord(topic[position + 1])
    PROVE  IsStreak([time  |-> maxValue',
                     first |-> position + 1 - Len(seen),
                     last  |-> position + 1])
<1> DEFINE r == topic[position + 1]
           n == Len(seen)
           streak == [time |-> maxValue', first |-> position + 1 - n, last |-> position + 1]
<1>1. /\ r \in Reading /\ n \in Nat /\ position \in Nat /\ n <= position
      /\ position + 1 <= Len(topic) /\ Len(topic) \in Nat
      /\ maxValue \in Nat /\ baseTimestamp \in Nat
      /\ topic \in Seq(Reading) /\ seen \in Seq(Reading)
  BY DEF Inv, TypeOK, SeenInv, Call
<1>2. TsSecs(r) \in Nat
  BY <1>1, SecondsType
<1>3. ~IsLoud(r) /\ maxValue' = TsSecs(r) - Base(r) /\ TsSecs(r) - Base(r) > maxValue
  BY DEF Call, UpdateState, IsRecord, Current
<1>4. seen # <<>> /\ baseTimestamp # 0 /\ Base(r) = baseTimestamp
  <2>1. baseTimestamp # 0
    BY <1>1, <1>2, <1>3 DEF Base
  <2> QED  BY <2>1, <1>3 DEF Base, Inv, BaseInv
<1>5. PICK b \in 1 .. n : Quiet!Quiet(seen, b, n) /\ baseTimestamp = TsSecs(seen[b])
  BY <1>4 DEF Inv, BaseInv
<1> DEFINE i == position - n + b
<1>6. i \in streak.first .. streak.last /\ seen[b] = topic[i]
  BY <1>1, <1>5 DEF Inv, SeenInv
<1>7. \A k \in i + 1 .. position + 1 : ~IsLoud(topic[k])
  <2> SUFFICES ASSUME NEW k \in i + 1 .. position + 1 PROVE ~IsLoud(topic[k])
    OBVIOUS
  <2>1. CASE k = position + 1
    BY <2>1, <1>3
  <2>2. CASE k # position + 1
    <3>1. k - position + n \in b + 1 .. n /\ k \in 1 .. Len(topic)
      BY <2>2, <1>1, <1>5
    <3>2. seen[k - position + n] = topic[k]
      BY <3>1, <1>1, <1>5 DEF Inv, SeenInv
    <3>3. topic[k].noise <= T
      BY <3>1, <3>2, <1>5 DEF Quiet!Quiet
    <3> QED  BY <3>1, <3>3, <1>1, LoudOrQuiet
  <2> QED  BY <2>1, <2>2
<1>8. streak.time = TsSecs(topic[streak.last]) - TsSecs(topic[i])
  BY <1>3, <1>4, <1>5, <1>6
<1>9. streak.first <= streak.last /\ streak.last <= Len(topic) /\ streak.last = position + 1
  BY <1>1
<1> QED
  <2> HIDE DEF streak, i
  <2>1. IsStreak(streak)
    BY <1>6, <1>7, <1>8, <1>9 DEF IsStreak
  <2> QED  BY <2>1 DEF streak

\* The topic only grows, so that its streaks stay.
LEMMA StreaksStay ==
    ASSUME topic \in Seq(Reading), NEW reading \in Reading, NEW streak \in Streak,
           topic' = Append(topic, reading) \/ topic' = topic, IsStreak(streak)
    PROVE  IsStreak(streak)'
<1>1. /\ Len(topic') \in Nat /\ Len(topic) \in Nat /\ Len(topic') >= Len(topic)
      /\ \A k \in 1 .. Len(topic) : topic'[k] = topic[k]
  OBVIOUS
<1>2. streak.first \in Nat \ {0} /\ streak.last \in Nat
  BY BoundsAssumption DEF Streak
<1>3. PICK i \in streak.first .. streak.last :
         /\ streak.time = TsSecs(topic[streak.last]) - TsSecs(topic[i])
         /\ \A k \in i + 1 .. streak.last : ~IsLoud(topic[k])
  BY DEF IsStreak
<1>4. streak.first <= streak.last /\ streak.last <= Len(topic)
  BY DEF IsStreak
<1>5. \A k \in streak.first .. streak.last : topic'[k] = topic[k]
  BY <1>1, <1>2, <1>4
<1>6. /\ streak.time = TsSecs(topic'[streak.last]) - TsSecs(topic'[i])
      /\ \A k \in i + 1 .. streak.last : ~IsLoud(topic'[k])
  BY <1>2, <1>3, <1>4, <1>5
<1> QED  BY <1>1, <1>2, <1>3, <1>4, <1>6 DEF IsStreak

-----------------------------------------------------------------------------
(* The invariant *)

LEMMA InvInit == Init => Inv
<1> SUFFICES ASSUME Init PROVE Inv
  OBVIOUS
<1> USE DEF Init, FeedInit
<1>1. TypeOK
  BY StartAssumption, BoundsAssumption, MaxFailuresAssumption DEF TypeOK
<1>2. FeedInv
  BY StartAssumption DEF FeedInv
<1> QED  BY <1>1, <1>2 DEF Inv, SeenInv, BaseInv, LongestInv, ResultsInv, StreaksInv

\* An updated point of interest, a send that ends well, badly or not at all.
LEMMA FeedStep ==
    ASSUME Inv, FeedNext, UNCHANGED streakVars
    PROVE  Inv'
<1> USE DEF streakVars, stateVars
<1>1. /\ topic \in Seq(Reading) /\ sending \subseteq Reading
      /\ \A reading \in sending : reading.ts >= 1000
      /\ now \in Nat /\ now >= 1000
  BY DEF Inv, TypeOK, FeedInv
<1>2. \/ topic' = topic
      \/ /\ Len(topic) < MaxRecords
         /\ \E reading \in sending : topic' = Append(topic, reading)
  BY DEF FeedNext, Update, Stored, SendFails
<1>3. /\ sending' \subseteq Reading /\ \A reading \in sending' : reading.ts >= 1000
      /\ now' \in Nat /\ now' >= 1000 /\ updates' \in 0 .. MaxUpdates
  <2>1. CASE Update
    <3>1. PICK interval \in Intervals, level \in Levels :
            /\ now' = now + interval
            /\ sending' = sending \cup {[ts |-> now', noise |-> level]}
      BY <2>1 DEF Update
    <3>2. now' \in Nat /\ now' >= 1000
      BY <3>1, <1>1, IntervalsAssumption
    <3>3. [ts |-> now', noise |-> level] \in Reading
      BY <3>2 DEF Reading
    <3>4. updates' \in 0 .. MaxUpdates
      BY <2>1, BoundsAssumption DEF Update, Inv, TypeOK
    <3> QED  BY <3>1, <3>2, <3>3, <3>4, <1>1
  <2>2. CASE \E reading \in sending : Stored(reading) \/ SendFails(reading)
    BY <2>2, <1>1 DEF Stored, SendFails, Inv, TypeOK
  <2> QED  BY <2>1, <2>2 DEF FeedNext
<1>4. /\ topic' \in Seq(Reading) /\ Len(topic') >= Len(topic) /\ Len(topic') <= MaxRecords
      /\ \A k \in 1 .. Len(topic) : topic'[k] = topic[k]
      /\ \A k \in 1 .. Len(topic') : topic'[k].ts >= 1000
  <2>1. Len(topic) \in Nat /\ Len(topic) <= MaxRecords /\ \A k \in 1 .. Len(topic) : topic[k].ts >= 1000
    BY DEF Inv, TypeOK, FeedInv
  <2>2. CASE topic' = topic
    BY <2>1, <2>2, <1>1
  <2>3. ASSUME NEW reading \in sending, topic' = Append(topic, reading), Len(topic) < MaxRecords
        PROVE  <1>4!:
    <3>1. /\ topic' \in Seq(Reading) /\ Len(topic') = Len(topic) + 1
          /\ \A k \in 1 .. Len(topic) : topic'[k] = topic[k]
          /\ topic'[Len(topic) + 1] = reading
      BY <2>3, <1>1
    <3> QED  BY <3>1, <2>1, <2>3, <1>1, BoundsAssumption
  <2> QED  BY <1>2, <2>2, <2>3
<1>5. TypeOK'
  BY <1>3, <1>4 DEF Inv, TypeOK
<1>6. FeedInv'
  BY <1>3, <1>4 DEF FeedInv
<1>7. SeenInv'
  <2>1. /\ position \in Nat /\ position <= Len(topic) /\ Len(seen) \in Nat /\ Len(seen) <= position
        /\ position' = position /\ seen' = seen
        /\ \A i \in 1 .. Len(seen) : seen[i] = topic[position - Len(seen) + i]
    BY DEF Inv, TypeOK, SeenInv
  <2>2. \A i \in 1 .. Len(seen) : position - Len(seen) + i \in 1 .. Len(topic)
    BY <2>1
  <2> QED  BY <2>1, <2>2, <1>4 DEF SeenInv
<1>8. BaseInv' /\ LongestInv' /\ ResultsInv'
  BY DEF Inv, BaseInv, LongestInv, ResultsInv, TsSecs, Quiet!Quiet, Quiet!IsLongest,
         Quiet!Lengths, Quiet!Length, Quiet!Streaks, Quiet!Secs
<1>9. StreaksInv'
  <2>1. results \in Seq(Streak) /\ published \subseteq Streak
    BY DEF Inv, TypeOK
  <2>2. \A streak \in Streak : IsStreak(streak) => IsStreak(streak)'
    <3>1. CASE topic' = topic
      BY <3>1 DEF IsStreak
    <3>2. ASSUME NEW reading \in sending, topic' = Append(topic, reading)
          PROVE  <2>2!:
      BY <3>2, <1>1, StreaksStay
    <3> QED  BY <3>1, <3>2, <1>2
  <2> QED  BY <2>1, <2>2 DEF Inv, StreaksInv
<1> QED  BY <1>5, <1>6, <1>7, <1>8, <1>9 DEF Inv

LEMMA CallStep ==
    ASSUME Inv, Call
    PROVE  Inv'
<1> DEFINE r == topic[position + 1]
           streak == [time  |-> maxValue',
                      first |-> position + 1 - Len(seen),
                      last  |-> position + 1]
<1>1. /\ r \in Reading /\ seen \in Seq(Reading) /\ Len(seen) \in Nat
      /\ position \in Nat /\ batch_end \in Nat /\ position < batch_end /\ batch_end <= Len(topic)
      /\ Len(topic) <= MaxRecords /\ Len(topic) \in Nat
      /\ Len(seen) <= position /\ results \in Seq(Streak)
      /\ position' = position + 1 /\ seen' = Append(seen, r)
      /\ UNCHANGED <<feedVars, running, batch_end, sent, failures, published, lost>>
  BY DEF Inv, TypeOK, SeenInv, Call
<1>2. BaseInv' /\ LongestInv' /\ maxValue' \in Nat /\ baseTimestamp' \in Nat /\ currentValue' \in Int
  BY CallKeepsLongest
<1>3. results' = IF IsRecord(r) THEN Append(results, streak) ELSE results
  BY DEF Call, UpdateState
<1>4. streak \in Streak
  BY <1>1, <1>2, BoundsAssumption DEF Streak
<1>5. seen' \in Seq(Reading) /\ Len(seen') = Len(seen) + 1 /\ seen'[Len(seen')] = r
      /\ \A k \in 1 .. Len(seen) : seen'[k] = seen[k]
  BY <1>1
<1>6. /\ results' \in Seq(Streak) /\ Len(results') >= Len(results)
      /\ \A k \in 1 .. Len(results') : IF k <= Len(results) THEN results'[k] = results[k]
                                         ELSE IsRecord(r) /\ results'[k] = streak
  <2> HIDE DEF streak, r
  <2> QED  BY <1>1, <1>3, <1>4
<1>7. TypeOK'
  <2>1. sent' \in 0 .. Len(results')
    BY <1>1, <1>6 DEF Inv, TypeOK
  <2>2. position' \in 0 .. batch_end'
    BY <1>1
  <2> QED  BY <1>1, <1>2, <1>5, <1>6, <2>1, <2>2 DEF Inv, TypeOK, feedVars
<1>8. FeedInv'
  BY <1>1 DEF Inv, FeedInv, feedVars
<1>9. SeenInv'
  <2>1. Len(seen') <= position' /\ topic' = topic
    BY <1>1, <1>5 DEF feedVars
  <2>2. ASSUME NEW i \in 1 .. Len(seen') PROVE seen'[i] = topic[position' - Len(seen') + i]
    <3>1. position' - Len(seen') + i = position - Len(seen) + i
      BY <1>1, <1>5
    <3>2. CASE i = Len(seen')
      BY <3>1, <3>2, <1>1, <1>5
    <3>3. CASE i # Len(seen')
      BY <3>1, <3>3, <1>1, <1>5 DEF Inv, SeenInv
    <3> QED  BY <3>2, <3>3
  <2> QED  BY <2>1, <2>2 DEF SeenInv
<1>10. ResultsInv'
  <2> SUFFICES ASSUME NEW k \in 1 .. Len(results')
               PROVE  /\ results'[k].time > 0
                      /\ \E n \in 1 .. Len(seen') : Quiet!IsLongest(results'[k].time, seen', n)
    BY DEF ResultsInv, Quiet!IsLongest, Quiet!Lengths, Quiet!Length, Quiet!Streaks, Quiet!Quiet, Quiet!Secs
  <2>1. CASE k <= Len(results)
    <3>1. k \in 1 .. Len(results) /\ results'[k] = results[k]
      BY <2>1, <1>6
    <3>2. PICK n \in 1 .. Len(seen) : Quiet!IsLongest(results[k].time, seen, n)
      BY <3>1 DEF Inv, ResultsInv
    <3>3. Quiet!IsLongest(results[k].time, seen', n)
      BY <3>2, <1>1, EarlierStreaks DEF Quiet!IsLongest
    <3>4. results'[k].time > 0
      BY <3>1 DEF Inv, ResultsInv
    <3>5. n \in 1 .. Len(seen')
      BY <3>2, <1>1, <1>5
    <3> QED  BY <3>1, <3>3, <3>4, <3>5
  <2>2. CASE ~(k <= Len(results))
    <3>1. IsRecord(r) /\ results'[k].time = maxValue'
      <4>1. IsRecord(r) /\ results'[k] = streak
        BY <2>2, <1>6
      <4> QED  BY <4>1
    <3>2. maxValue' > 0
      <4>1. maxValue' = Current(r) /\ Current(r) > maxValue /\ maxValue \in Nat
        BY <3>1 DEF IsRecord, Call, UpdateState, Inv, TypeOK
      <4> QED  BY <4>1, <1>2
    <3>3. Quiet!IsLongest(maxValue', seen', Len(seen'))
      <4>1. seen' # <<>>
        BY <1>1
      <4> QED  BY <4>1, <1>2 DEF LongestInv
    <3> QED  BY <3>1, <3>2, <3>3, <1>1, <1>5
  <2> QED  BY <2>1, <2>2
<1>11. StreaksInv'
  <2>1. topic' = topic /\ topic \in Seq(Reading) /\ published' = published
    BY <1>1 DEF feedVars, Inv, TypeOK
  <2>2. IsRecord(r) => IsStreak(streak)
    BY RecordIsStreak
  <2>3. \A s \in Streak : IsStreak(s) => IsStreak(s)'
    BY <2>1 DEF IsStreak
  <2>4. \A k \in 1 .. Len(results') : results'[k] \in Streak /\ IsStreak(results'[k])
    BY <2>2, <1>4, <1>6 DEF Inv, StreaksInv
  <2>5. \A s \in published : s \in Streak /\ IsStreak(s)
    BY DEF Inv, StreaksInv, TypeOK
  <2> QED  BY <2>1, <2>3, <2>4, <2>5 DEF StreaksInv
<1> QED  BY <1>2, <1>7, <1>8, <1>9, <1>10, <1>11 DEF Inv

LEMMA NextStep == Inv /\ [Next]_vars => Inv'
<1> SUFFICES ASSUME Inv, [Next]_vars PROVE Inv'
  OBVIOUS
<1>1. CASE FeedNext /\ UNCHANGED streakVars
  BY <1>1, FeedStep
<1>2. CASE StartBatch
  <2>1. TypeOK'
    <3>1. /\ Len(topic) \in Nat /\ position \in 0 .. batch_end /\ batch_end \in Nat
          /\ batch_end' = Len(topic) /\ position' = position /\ batch_end < Len(topic)
      BY <1>2 DEF StartBatch, Inv, TypeOK
    <3>2. position' \in 0 .. batch_end' /\ batch_end' \in 0 .. Len(topic)
      BY <3>1
    <3>3. results' \in Seq(Streak) /\ sent' \in 0 .. Len(results') /\ failures' \in 0 .. MaxFailures
      BY <1>2, MaxFailuresAssumption DEF StartBatch
    <3> QED  BY <1>2, <3>2, <3>3 DEF StartBatch, Inv, TypeOK, feedVars, stateVars
  <2>2. FeedInv' /\ SeenInv' /\ BaseInv' /\ LongestInv' /\ ResultsInv'
    BY <1>2 DEF StartBatch, Inv, FeedInv, SeenInv, BaseInv, LongestInv, ResultsInv, feedVars, stateVars
  <2>3. StreaksInv'
    BY <1>2 DEF StartBatch, Inv, StreaksInv, IsStreak, feedVars
  <2> QED  BY <2>1, <2>2, <2>3 DEF Inv
<1>3. CASE Call
  BY <1>3, CallStep
<1>4. CASE Publish
  <2>1. results[sent + 1] \in Streak /\ sent + 1 \in 1 .. Len(results) /\ sent' = sent + 1
        /\ published' \in {published, published \cup {results[sent + 1]}}
        /\ lost' \in {lost, lost \cup {results[sent + 1]}}
    BY <1>4 DEF Publish, TaskRuns, Send, Inv, TypeOK
  <2>2. TypeOK'
    BY <1>4, <2>1 DEF Publish, Inv, TypeOK, feedVars, stateVars
  <2>3. FeedInv' /\ SeenInv' /\ BaseInv' /\ LongestInv' /\ ResultsInv'
    BY <1>4 DEF Publish, Inv, FeedInv, SeenInv, BaseInv, LongestInv, ResultsInv, feedVars, stateVars
  <2>4. StreaksInv'
    BY <1>4, <2>1 DEF Publish, Inv, StreaksInv, IsStreak, feedVars
  <2> QED  BY <2>2, <2>3, <2>4 DEF Inv
<1>5. CASE TaskFails
  <2>1. TypeOK'
    <3>1. failures \in Nat /\ failures' = failures + 1 /\ sent \in 0 .. Len(results)
          /\ running \in BOOLEAN
      BY <1>5 DEF TaskFails, Inv, TypeOK
    <3>2. CASE failures' < MaxFailures /\ sent' = 0 /\ UNCHANGED running
      <4>1. failures' \in 0 .. MaxFailures
        BY <3>1, <3>2, MaxFailuresAssumption
      <4>2. sent' \in 0 .. Len(results)
        BY <3>1, <3>2
      <4> QED  BY <1>5, <3>2, <4>1, <4>2 DEF TaskFails, Inv, TypeOK, feedVars, stateVars
    <3>3. CASE failures' = MaxFailures /\ running' = FALSE /\ UNCHANGED sent
      <4>1. failures' \in 0 .. MaxFailures
        BY <3>1, <3>3, MaxFailuresAssumption
      <4> QED  BY <1>5, <3>3, <4>1 DEF TaskFails, Inv, TypeOK, feedVars, stateVars
    <3> QED  BY <1>5, <3>2, <3>3 DEF TaskFails
  <2>2. FeedInv' /\ SeenInv' /\ BaseInv' /\ LongestInv' /\ ResultsInv'
    BY <1>5 DEF TaskFails, Inv, FeedInv, SeenInv, BaseInv, LongestInv, ResultsInv, feedVars, stateVars
  <2>3. StreaksInv'
    BY <1>5 DEF TaskFails, Inv, StreaksInv, IsStreak, feedVars
  <2> QED  BY <2>1, <2>2, <2>3 DEF Inv
<1>6. CASE DriverEnds
  <2>1. TypeOK'
    <3>1. running' \in BOOLEAN
      BY <1>6 DEF DriverEnds
    <3> QED  BY <1>6, <3>1 DEF DriverEnds, feedVars, stateVars, Inv, TypeOK
  <2>2. FeedInv' /\ SeenInv'
    BY <1>6 DEF DriverEnds, feedVars, Inv, FeedInv, SeenInv
  <2>3. BaseInv' /\ LongestInv' /\ ResultsInv' /\ StreaksInv'
    BY <1>6 DEF DriverEnds, feedVars, stateVars, Inv, BaseInv, LongestInv, ResultsInv, StreaksInv, IsStreak
  <2> QED  BY <2>1, <2>2, <2>3 DEF Inv
<1>7. CASE DriverRestarts
  <2>1. TypeOK'
    BY <1>7, MaxFailuresAssumption DEF DriverRestarts, LatestOffset, Inv, TypeOK, feedVars
  <2>2. FeedInv' /\ SeenInv' /\ BaseInv' /\ LongestInv' /\ ResultsInv'
    BY <1>7, <2>1 DEF DriverRestarts, Inv, TypeOK, FeedInv, SeenInv, BaseInv, LongestInv, ResultsInv, feedVars
  <2>3. StreaksInv'
    BY <1>7 DEF DriverRestarts, Inv, StreaksInv, IsStreak, feedVars
  <2> QED  BY <2>1, <2>2, <2>3 DEF Inv
<1>8. CASE UNCHANGED vars
  <2>1. TypeOK' /\ FeedInv' /\ SeenInv'
    BY <1>8 DEF vars, feedVars, streakVars, stateVars, Inv, TypeOK, FeedInv, SeenInv
  <2>2. BaseInv' /\ LongestInv' /\ ResultsInv' /\ StreaksInv'
    BY <1>8 DEF vars, feedVars, streakVars, stateVars, Inv, BaseInv, LongestInv, ResultsInv, StreaksInv, IsStreak
  <2> QED  BY <2>1, <2>2 DEF Inv
<1> QED  BY <1>1, <1>2, <1>3, <1>4, <1>5, <1>6, <1>7, <1>8 DEF Next

\* The variables keep their types, for all constants.
THEOREM StreakTypeCorrect == Spec => []TypeOK
<1>1. Inv => TypeOK
  BY DEF Inv
<1> QED  BY InvInit, NextStep, <1>1, PTL DEF Spec

-----------------------------------------------------------------------------
(* Theorems *)

\* In order, the beginning of a streak of the topic is not before a loud one.
LEMMA OrderedStreaks == Inv => GoodWhileInOrder
<1> SUFFICES ASSUME Inv, InOrder, NEW streak \in published,
                    NEW i \in streak.first .. streak.last,
                    IsLoud(topic[i]), topic[i].ts < topic[streak.last].ts,
                    TsSecs(topic[i]) > TsSecs(topic[streak.last]) - streak.time
             PROVE  FALSE
  BY DEF GoodWhileInOrder, GoodStreaks
<1>1. streak \in Streak /\ IsStreak(streak) /\ topic \in Seq(Reading)
  BY DEF Inv, TypeOK, StreaksInv
<1>2. streak.first \in Nat \ {0} /\ streak.last \in Nat /\ streak.last <= Len(topic)
  BY <1>1, BoundsAssumption DEF Streak, IsStreak
<1>3. PICK b \in streak.first .. streak.last :
         /\ streak.time = TsSecs(topic[streak.last]) - TsSecs(topic[b])
         /\ \A k \in b + 1 .. streak.last : ~IsLoud(topic[k])
  BY <1>1 DEF IsStreak
<1>4. topic[i] \in Reading /\ topic[b] \in Reading /\ topic[streak.last] \in Reading
  BY <1>1, <1>2
<1>5. i <= b
  BY <1>2, <1>3
<1>6. topic[i].ts <= topic[b].ts
  <2>1. CASE i = b
    BY <2>1, <1>4 DEF Reading
  <2>2. CASE i # b
    BY <2>2, <1>2, <1>5 DEF InOrder
  <2> QED  BY <2>1, <2>2
<1>7. TsSecs(topic[i]) <= TsSecs(topic[b])
  BY <1>4, <1>6, SecondsMonotone
<1>8. TsSecs(topic[i]) \in Nat /\ TsSecs(topic[b]) \in Nat /\ TsSecs(topic[streak.last]) \in Nat
  BY <1>4, SecondsType
<1> QED  BY <1>3, <1>7, <1>8

\* While readings arrive in order, no published streak contains a loud one
\* (StreakState.java:16-30), whatever the batches, failures and restarts.
THEOREM StreaksGoodInOrder == Spec => []GoodWhileInOrder
  BY InvInit, NextStep, OrderedStreaks, PTL DEF Spec

LEMMA CallObserves == Inv /\ Inv' /\ Call => Quiet!Observe
<1> SUFFICES ASSUME Inv, Inv', Call PROVE Quiet!Observe
  OBVIOUS
<1> DEFINE r == topic[position + 1]
<1>1. r \in Reading /\ seen \in Seq(Reading) /\ seen' = Append(seen, r) /\ published' = published
  BY DEF Inv, TypeOK, Call
<1>2. seen' # <<>> /\ seen'[Len(seen')] = r
  BY <1>1
<1>3. r \in Quiet!Reading
  BY <1>1 DEF Reading, Quiet!Reading
<1>4. Quiet!IsLongest(maxValue', seen', Len(seen'))
  BY <1>2 DEF Inv, LongestInv, Quiet!IsLongest, Quiet!Lengths, Quiet!Length, Quiet!Streaks, Quiet!Quiet, Quiet!Secs
<1> HIDE DEF r
<1> QED  BY <1>1, <1>2, <1>3, <1>4 DEF Quiet!Observe

LEMMA PublishAnnounces == Inv /\ Publish => [Quiet!StreakNext]_Quiet!streakVars
<1> SUFFICES ASSUME Inv, Publish PROVE [Quiet!StreakNext]_Quiet!streakVars
  OBVIOUS
<1> DEFINE result == results[sent + 1]
<1>1. /\ sent + 1 \in 1 .. Len(results)
      /\ published' \in {published, published \cup {result}}
      /\ UNCHANGED <<maxValue, seen>>
  BY DEF Inv, TypeOK, Publish, TaskRuns, Send, stateVars
<1>2. PICK n \in 1 .. Len(seen) : Quiet!IsLongest(result.time, seen, n)
  BY <1>1 DEF Inv, ResultsInv
<1>3. result.time \in Quiet!Lengths(seen, n) /\ result.time > 0
  BY <1>1, <1>2 DEF Inv, ResultsInv, Quiet!IsLongest
<1> HIDE DEF result
<1>4. CASE published' = published
  BY <1>1, <1>4 DEF Quiet!streakVars
<1>5. CASE published' = published \cup {result}
  <2>1. {streak.time : streak \in published'} = {streak.time : streak \in published} \cup {result.time}
    BY <1>5
  <2> QED  BY <2>1, <1>1, <1>2, <1>3 DEF Quiet!Announce, Quiet!StreakNext
<1> QED  BY <1>1, <1>4, <1>5

LEMMA StreakStep == Inv /\ Inv' /\ [Next]_vars => [Quiet!StreakNext]_Quiet!streakVars
<1> SUFFICES ASSUME Inv, Inv', [Next]_vars PROVE [Quiet!StreakNext]_Quiet!streakVars
  OBVIOUS
<1>1. CASE FeedNext /\ UNCHANGED streakVars
  BY <1>1 DEF streakVars, stateVars, Quiet!streakVars
<1>2. CASE StartBatch
  BY <1>2 DEF StartBatch, stateVars, Quiet!streakVars
<1>3. CASE Call
  BY <1>3, CallObserves DEF Quiet!StreakNext
<1>4. CASE Publish
  BY <1>4, PublishAnnounces
<1>5. CASE TaskFails
  BY <1>5 DEF TaskFails, stateVars, Quiet!streakVars
<1>6. CASE DriverEnds
  BY <1>6 DEF DriverEnds, stateVars, Quiet!streakVars
<1>7. CASE DriverRestarts
  BY <1>7 DEF DriverRestarts, Quiet!StreakNext, Quiet!Forget
<1>8. CASE UNCHANGED vars
  BY <1>8 DEF vars, streakVars, stateVars, Quiet!streakVars
<1> QED  BY <1>1, <1>2, <1>3, <1>4, <1>5, <1>6, <1>7, <1>8 DEF Next

LEMMA StreakStart == Init => Quiet!StreakInit
  BY DEF Init, Quiet!StreakInit

\* StreakState.java's three numbers compute the longest quiet streak of what
\* the driver has seen, in the order of arrival, and only such are published.
THEOREM StreaksImplementQuietStreak == Spec => ImplementsQuietStreak
<1> QED
  BY InvInit, NextStep, StreakStart, StreakStep, PTL
     DEF Spec, ImplementsQuietStreak, Quiet!QuietStreakSpec
=============================================================================
