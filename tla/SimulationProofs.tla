-------------------------- MODULE SimulationProofs --------------------------
(***************************************************************************)
(* Proofs about the simulation, for any number of ranks, sensors and steps *)
(* any buffering, and about the entities that they move.                   *)
(***************************************************************************)
EXTENDS Simulation, EntityMotion, TLAPS

-----------------------------------------------------------------------------
(* The broadcast of the sensors *)

LEMMA ExtentIsTwo == Extent = 2
<1>1. LowerBound = 1
  BY DEF LowerBound, Displacements, XYWord, NoiseWord
<1>2. UpperBound = 3
  BY DEF UpperBound, Displacements, XYWord, NoiseWord
<1> QED  BY <1>1, <1>2 DEF Extent

\* The datatype's extent (sim.c:28-42) is a word short of sizeof(sensor_t), so
\* the broadcast of n sensors ends before the position of sensor j unless
\* 3 * j < 2 * n: only the first two thirds of the positions arrive.
THEOREM TwoThirdsReplicated ==
    \A n, j \in Nat : j < n => (Replicated(n, j) <=> 3 * j < 2 * n)
<1> SUFFICES ASSUME NEW n \in Nat, NEW j \in Nat, j < n
             PROVE  Replicated(n, j) <=> 3 * j < 2 * n
  OBVIOUS
<1>0. Replicated(n, j) <=> \E k \in 0 .. n - 1 : 3*j + 1 = k*2 + 1 \/ 3*j + 1 = k*2 + 2
  BY ExtentIsTwo
     DEF Replicated, BcastWords, SensorWords, Displacements, XYWord, NoiseWord
<1>1. ASSUME Replicated(n, j) PROVE 3 * j < 2 * n
  BY <1>0, <1>1
<1>2. ASSUME 3 * j < 2 * n PROVE Replicated(n, j)
  <2> DEFINE k == (3 * j) \div 2
  <2>1. k \in 0 .. n - 1 /\ (3*j = 2*k \/ 3*j = 2*k + 1)
    BY <1>2
  <2> QED  BY <2>1, <1>0
<1> QED  BY <1>1, <1>2

-----------------------------------------------------------------------------
(* The inductive invariant *)

\* Locations inside the simulation loop, and those before the barrier.
Looping == {"move", "measure", "reduce", "publish", "barrier"}
Working == {"measure", "reduce", "publish"}

\* Nobody is ahead of root in the set-up, and a rank that has left it knows
\* the positions that the broadcast carries.
SetupInv ==
    /\ \A r \in Ranks : bcast[r] <= bcast[Root]
    /\ pc[Root] \in {"config", "exit"} => bcast[Root] = 0
    /\ pc[Root] \notin {"config", "exit"} => \A j \in Sensors : at[Root][j] = j
    /\ \A r \in Ranks :
        /\ pc[r] = "bcast" => bcast[r] < NBcasts
        /\ pc[r] \in Looping => bcast[r] = NBcasts
        /\ pc[r] = "exit" => pc[Root] = "exit"
        /\ pc[r] = "config" => r = Root
        /\ pc[r] = "bcast" /\ r # Root => \A j \in Sensors : at[r][j] = Origin
        /\ pc[r] \in Looping => \A j \in Sensors : at[r][j] = MeasuredAt(r, j)

\* Number of barriers that a rank has left behind.
Left(r) == IF pc[r] \in Working \cup {"barrier"} THEN step[r] - 1 ELSE step[r]

\* Steps, barriers and the loop variable agree with the place in the loop, and
\* a barrier is left only when everybody has arrived.
LoopInv ==
    \A r \in Ranks :
        /\ arrived[r] = IF pc[r] \in Working THEN step[r] - 1 ELSE step[r]
        /\ pc[r] \in Working \cup {"barrier"} => step[r] >= 1
        /\ pc[r] \notin Looping => step[r] = 0
        /\ pc[r] = "reduce" => sensor[r] < NSensors
        /\ pc[r] \notin {"measure", "reduce"} => sensor[r] = NSensors
        /\ \A q \in Ranks : Left(r) <= arrived[q]

ControlInv == TypeOK /\ SetupInv /\ LoopInv

USE WorldSizeAssumption, NSensorsAssumption, EagerAssumption, MaxStepAssumption

LEMMA RootIsARank == Root \in Ranks
BY DEF Root, Ranks

LEMMA InitControl == Init => ControlInv
<1> SUFFICES ASSUME Init PROVE ControlInv
  OBVIOUS
<1>1. TypeOK
  BY DEF Init, TypeOK, Locations, NBcasts, Positions, Origin, Sensors, Ranks
<1>2. SetupInv
  BY RootIsARank DEF Init, SetupInv, Looping, NBcasts
<1>3. LoopInv
  BY DEF Init, LoopInv, Looping, Working, Left
<1> QED  BY <1>1, <1>2, <1>3 DEF ControlInv

LEMMA NBcastsType == NBcasts \in Nat \ {0}
BY DEF NBcasts

\* The counters of a rank, without the functions that hold them.
LEMMA CountersType ==
    ASSUME TypeOK, NEW q \in Ranks
    PROVE  /\ step[q] \in Nat /\ arrived[q] \in Nat /\ Left(q) \in Int
           /\ sensor[q] \in Nat /\ sensor[q] <= NSensors
           /\ bcast[q] \in Nat /\ bcast[q] <= NBcasts
<1>1. step[q] \in 0 .. MaxStep /\ arrived[q] \in 0 .. MaxStep
  BY DEF TypeOK
<1>2. sensor[q] \in 0 .. NSensors
  BY DEF TypeOK
<1>3. bcast[q] \in 0 .. NBcasts
  BY DEF TypeOK
<1>4. Left(q) \in Int
  BY <1>1 DEF Left
<1> QED  BY <1>1, <1>2, <1>3, <1>4, NBcastsType

LEMMA AppendType ==
    ASSUME NEW S, NEW s \in Seq(S), NEW e \in S
    PROVE  Append(s, e) \in Seq(S)
OBVIOUS

LEMMA AppendProperties ==
    ASSUME NEW S, NEW s \in Seq(S), NEW e \in S
    PROVE  /\ Len(Append(s, e)) = Len(s) + 1 /\ Len(s) \in Nat
           /\ \A i \in 1 .. Len(s) : Append(s, e)[i] = s[i]
           /\ Append(s, e)[Len(s) + 1] = e
OBVIOUS

\* What an optional Append leaves in place.
LEMMA MaybeAppended ==
    ASSUME NEW S, NEW s \in Seq(S), NEW e \in S, NEW t \in {s, Append(s, e)},
           NEW i \in 1 .. Len(t)
    PROVE  \/ i \in 1 .. Len(s) /\ t[i] = s[i]
           \/ i = Len(s) + 1 /\ t[i] = e
<1>1. Len(t) = Len(s) \/ Len(t) = Len(s) + 1
  BY AppendProperties
<1>2. CASE i \in 1 .. Len(s)
  BY <1>2, AppendProperties
<1>3. CASE i \notin 1 .. Len(s)
  <2>1. Len(s) \in Nat
    BY AppendProperties
  <2>2. i = Len(s) + 1 /\ Len(t) # Len(s)
    BY <1>1, <1>3, <2>1
  <2>3. t = Append(s, e)
    BY <2>2
  <2> QED  BY <2>2, <2>3, AppendProperties
<1> QED  BY <1>2, <1>3

LEMMA TailProperties ==
    ASSUME NEW S, NEW s \in Seq(S), Len(s) # 0
    PROVE  /\ Len(Tail(s)) = Len(s) - 1
           /\ \A i \in 1 .. Len(s) - 1 : Tail(s)[i] = s[i + 1]
OBVIOUS

LEMMA ChannelType ==
    ASSUME TypeOK, NEW r \in Ranks
    PROVE  /\ channel[r] \in Seq(SUBSET Addends) /\ Len(channel[r]) \in Nat
           /\ channel[r] # <<>> => Len(channel[r]) # 0
<1>1. channel[r] \in Seq(SUBSET Addends)
  BY DEF TypeOK
<1> QED  BY <1>1

LEMMA ContributionType ==
    ASSUME TypeOK, NEW r \in Ranks, NEW j \in Sensors
    PROVE  Measured(r, j) \in SUBSET Addends
BY DEF TypeOK, Measured, Contribution, Addends

LEMMA ReadingType ==
    ASSUME TypeOK, offered < NSensors
    PROVE  Reading(offered) \in Readings
<1>1. offered \in Sensors
  BY DEF TypeOK, Sensors
<1>2. step[Root] \in Nat /\ noise_mw[Root][offered] \in SUBSET Addends
  BY <1>1, RootIsARank, CountersType DEF TypeOK
<1> QED  BY <1>1, <1>2 DEF Reading, Readings

LEMMA TypeStep == ControlInv /\ Next => TypeOK'
<1> SUFFICES ASSUME ControlInv, Next PROVE TypeOK'
  OBVIOUS
<1> USE RootIsARank DEF ControlInv
<1>1. CASE LoadConfig
  BY <1>1 DEF LoadConfig, TypeOK, Goto, Locations, Positions, reduceVars, kafkaVars
<1>2. CASE ConfigFails
  BY <1>2 DEF ConfigFails, TypeOK, Goto, Locations, setupVars, reduceVars, kafkaVars
<1>3. ASSUME NEW r \in Ranks, Killed(r) PROVE TypeOK'
  BY <1>3 DEF Killed, TypeOK, Goto, Locations, setupVars, reduceVars, kafkaVars
<1>4. ASSUME NEW r \in Ranks, Bcast(r) PROVE TypeOK'
  <2>1. bcast' \in [Ranks -> 0 .. NBcasts]
    <3>1. bcast[r] < NBcasts /\ bcast[r] \in Nat
      BY <1>4, CountersType DEF Bcast, SetupInv
    <3>2. bcast[r] + 1 \in 0 .. NBcasts
      BY <3>1, NBcastsType
    <3> QED  BY <1>4, <3>2 DEF Bcast, TypeOK
  <2>2. AfterBcast(r) \in [Sensors -> Positions]
    BY <1>4 DEF AfterBcast, TypeOK
  <2>3. at' \in [Ranks -> [Sensors -> Positions]]
    BY <1>4, <2>2 DEF Bcast, TypeOK
  <2>4. pc' \in [Ranks -> Locations]
    BY <1>4 DEF Bcast, TypeOK, Goto, Locations
  <2> QED
    BY <1>4, <2>1, <2>3, <2>4 DEF Bcast, TypeOK, reduceVars, kafkaVars
<1>5. ASSUME NEW r \in Ranks, MoveEntities(r) PROVE TypeOK'
  <2>1. pc' \in [Ranks -> Locations]
    BY <1>5 DEF MoveEntities, TypeOK, Goto, Locations
  <2>2. sensor' \in [Ranks -> 0 .. NSensors]
    BY <1>5 DEF MoveEntities, TypeOK
  <2>3. step' \in [Ranks -> 0 .. MaxStep]
    <3>1. step[r] + 1 \in 0 .. MaxStep
      BY <1>5, CountersType DEF MoveEntities
    <3> QED  BY <1>5, <3>1 DEF MoveEntities, TypeOK
  <2> QED
    BY <1>5, <2>1, <2>2, <2>3 DEF MoveEntities, TypeOK, setupVars, reduceVars, kafkaVars
<1>6. ASSUME NEW r \in Ranks, Measure(r) PROVE TypeOK'
  <2>1. sensor[r] \in Sensors
    BY <1>6, CountersType DEF Measure, Sensors
  <2>2. Measured(r, sensor[r]) \in SUBSET Addends
    BY <2>1, ContributionType
  <2>3. noise_mw' \in [Ranks -> [Sensors -> SUBSET Addends]]
    BY <1>6, <2>1, <2>2 DEF Measure, TypeOK
  <2>4. channel' \in [Ranks -> Seq(SUBSET Addends)]
    <3>1. Append(channel[r], Measured(r, sensor[r])) \in Seq(SUBSET Addends)
      BY <2>2, AppendType DEF TypeOK
    <3> QED  BY <1>6, <3>1 DEF Measure, TypeOK
  <2>5. noise_sum' \in SUBSET Addends /\ combined' \in SUBSET Ranks
    BY <1>6, <2>2 DEF Measure, TypeOK
  <2>6. pc' \in [Ranks -> Locations]
    BY <1>6 DEF Measure, TypeOK, Goto, Locations
  <2> QED
    BY <1>6, <2>3, <2>4, <2>5, <2>6 DEF Measure, TypeOK, setupVars, kafkaVars
<1>7. ASSUME NEW r \in Ranks, Combine(r) PROVE TypeOK'
  <2>1. channel[r] \in Seq(SUBSET Addends) /\ channel[r] # <<>>
    BY <1>7 DEF Combine, TypeOK
  <2>2. Head(channel[r]) \in SUBSET Addends /\ Tail(channel[r]) \in Seq(SUBSET Addends)
    BY <2>1
  <2>3. channel' \in [Ranks -> Seq(SUBSET Addends)]
    BY <1>7, <2>2 DEF Combine, TypeOK
  <2>4. noise_sum' \in SUBSET Addends /\ combined' \in SUBSET Ranks
    BY <1>7, <2>2 DEF Combine, TypeOK
  <2> QED
    BY <1>7, <2>3, <2>4 DEF Combine, TypeOK, setupVars, kafkaVars
<1>8. ASSUME NEW r \in Ranks, ReduceReturns(r) PROVE TypeOK'
  <2>1. pc' \in [Ranks -> Locations]
    BY <1>8 DEF ReduceReturns, NextSensor, TypeOK, Goto, Locations
  <2>2. sensor' \in [Ranks -> 0 .. NSensors]
    <3>1. sensor[r] + 1 \in 0 .. NSensors
      BY <1>8, CountersType DEF ReduceReturns, LoopInv
    <3> QED  BY <1>8, <3>1 DEF ReduceReturns, NextSensor, TypeOK
  <2> QED
    BY <1>8, <2>1, <2>2 DEF ReduceReturns, TypeOK, setupVars, reduceVars, kafkaVars
<1>9. CASE ReduceCompletes
  <2>1. pc' \in [Ranks -> Locations]
    BY <1>9 DEF ReduceCompletes, NextSensor, TypeOK, Goto, Locations
  <2>2. sensor' \in [Ranks -> 0 .. NSensors]
    <3>1. sensor[Root] + 1 \in 0 .. NSensors
      BY <1>9, CountersType DEF ReduceCompletes, LoopInv
    <3> QED  BY <1>9, <3>1 DEF ReduceCompletes, NextSensor, TypeOK
  <2>3. noise_mw' \in [Ranks -> [Sensors -> SUBSET Addends]]
    BY <1>9 DEF ReduceCompletes, TypeOK
  <2> QED
    BY <1>9, <2>1, <2>2, <2>3 DEF ReduceCompletes, TypeOK, setupVars, reduceVars, kafkaVars
<1>10. ASSUME NEW r \in Ranks, LoopEnds(r) PROVE TypeOK'
  <2>1. pc' \in [Ranks -> Locations] /\ offered' \in 0 .. NSensors
    BY <1>10 DEF LoopEnds, OfferedReset, TypeOK, Goto, Locations
  <2> QED
    BY <1>10, <2>1 DEF LoopEnds, TypeOK, setupVars, reduceVars
<1>11. CASE Publish
  <2>1. offered < NSensors
    BY <1>11 DEF Publish
  <2>2. Reading(offered) \in Readings
    BY <2>1, ReadingType
  <2>3. produced' \in Seq(Readings)
    <3>1. Append(produced, Reading(offered)) \in Seq(Readings)
      BY <2>2, AppendType DEF TypeOK
    <3> QED  BY <1>11, <3>1 DEF Publish, TypeOK
  <2>4. offered' \in 0 .. NSensors
    BY <1>11 DEF Publish, TypeOK
  <2> QED
    BY <1>11, <2>3, <2>4 DEF Publish, TypeOK, setupVars, reduceVars
<1>12. ASSUME NEW r \in Ranks, EnterBarrier(r) PROVE TypeOK'
  <2>1. pc' \in [Ranks -> Locations]
    BY <1>12 DEF EnterBarrier, TypeOK, Goto, Locations
  <2>2. arrived' \in [Ranks -> 0 .. MaxStep]
    <3>1. arrived[r] = step[r] - 1 /\ step[r] \in 0 .. MaxStep
      BY <1>12 DEF EnterBarrier, LoopInv, Working, TypeOK
    <3>2. arrived[r] + 1 \in 0 .. MaxStep
      BY <3>1
    <3> QED  BY <1>12, <3>2 DEF EnterBarrier, Arrive, TypeOK
  <2> QED
    BY <1>12, <2>1, <2>2 DEF EnterBarrier, TypeOK, setupVars, reduceVars, kafkaVars
<1>13. ASSUME NEW r \in Ranks, LeaveBarrier(r) PROVE TypeOK'
  BY <1>13 DEF LeaveBarrier, TypeOK, Goto, Locations, setupVars, reduceVars, kafkaVars
<1>14. CASE UNCHANGED vars
  BY <1>14 DEF TypeOK, vars
<1> QED
  BY <1>1, <1>2, <1>3, <1>4, <1>5, <1>6, <1>7, <1>8, <1>9, <1>10, <1>11, <1>12,
     <1>13, <1>14 DEF Next, RootStep, RankStep

\* What SetupInv says of one rank.
RankSetup(r) ==
    /\ pc[r] = "bcast" => bcast[r] < NBcasts
    /\ pc[r] \in Looping => bcast[r] = NBcasts
    /\ pc[r] = "exit" => pc[Root] = "exit"
    /\ pc[r] = "config" => r = Root
    /\ pc[r] = "bcast" /\ r # Root => \A j \in Sensors : at[r][j] = Origin
    /\ pc[r] \in Looping => \A j \in Sensors : at[r][j] = MeasuredAt(r, j)

LEMMA SetupStep == ControlInv /\ Next => SetupInv'
<1> SUFFICES ASSUME ControlInv, Next PROVE SetupInv'
  OBVIOUS
<1> USE RootIsARank, NBcastsType
<1>0. /\ pc \in [Ranks -> Locations] /\ bcast \in [Ranks -> 0 .. NBcasts]
      /\ at \in [Ranks -> [Sensors -> Positions]] /\ SetupInv
      /\ \A q \in Ranks : bcast[q] \in Nat /\ bcast[q] <= bcast[Root]
  BY CountersType DEF ControlInv, TypeOK, SetupInv
<1>1. CASE LoadConfig
  <2>1. \A q \in Ranks : pc[q] \notin Looping
    BY <1>0, <1>1 DEF LoadConfig, SetupInv
  <2>2. \A q \in Ranks : pc'[q] = (IF q = Root THEN "bcast" ELSE pc[q])
    BY <1>0, <1>1 DEF LoadConfig, Goto
  <2>3. \A q \in Ranks, j \in Sensors : at'[q][j] = (IF q = Root THEN j ELSE at[q][j])
    BY <1>0, <1>1 DEF LoadConfig
  <2>4. bcast' = bcast /\ bcast[Root] = 0 /\ pc[Root] = "config"
    BY <1>0, <1>1 DEF LoadConfig, SetupInv
  <2>5. ASSUME NEW q \in Ranks PROVE RankSetup(q)'
    <3>1. CASE q = Root
      BY <2>2, <2>4, <3>1 DEF RankSetup, Looping
    <3>2. CASE q # Root
      <4>1. pc'[q] = pc[q] /\ \A j \in Sensors : at'[q][j] = at[q][j]
        BY <2>2, <2>3, <2>5, <3>2
      <4>2. pc[q] # "exit" /\ pc[q] \notin Looping
        BY <1>0, <2>1, <2>4, <2>5 DEF SetupInv
      <4> QED  BY <1>0, <2>4, <2>5, <3>2, <4>1, <4>2 DEF SetupInv, RankSetup
    <3> QED  BY <3>1, <3>2
  <2> QED  BY <1>0, <2>2, <2>3, <2>4, <2>5 DEF SetupInv, RankSetup
<1>2. ASSUME NEW r \in Ranks, Killed(r) \/ (r = Root /\ ConfigFails) PROVE SetupInv'
  <2>1. /\ at' = at /\ bcast' = bcast /\ bcast[Root] = 0
        /\ \A q \in Ranks : pc'[q] = (IF q = r THEN "exit" ELSE pc[q])
        /\ pc'[Root] = "exit"
    BY <1>0, <1>2 DEF ConfigFails, Killed, Goto, setupVars, SetupInv
  <2>2. ASSUME NEW q \in Ranks PROVE RankSetup(q)'
    BY <1>0, <2>1, <2>2 DEF RankSetup, SetupInv, Looping, MeasuredAt
  <2> QED  BY <1>0, <2>1, <2>2 DEF SetupInv, RankSetup
<1>4. ASSUME NEW r \in Ranks, Bcast(r) PROVE SetupInv'
  <2>1. bcast[r] < NBcasts /\ pc[r] = "bcast"
    BY <1>0, <1>4 DEF Bcast, SetupInv
  <2>2. pc[Root] \notin {"config", "exit"}
    <3>1. CASE r = Root
      BY <2>1, <3>1
    <3>2. CASE r # Root
      <4>1. bcast[Root] # 0
        BY <1>0, <1>4, <3>2 DEF Bcast
      <4> QED  BY <1>0, <4>1 DEF SetupInv
    <3> QED  BY <3>1, <3>2
  <2>3. \A q \in Ranks : bcast'[q] = (IF q = r THEN bcast[r] + 1 ELSE bcast[q])
    BY <1>0, <1>4 DEF Bcast
  <2>4. \A q \in Ranks : bcast'[q] <= bcast'[Root]
    <3>1. CASE r = Root
      BY <1>0, <2>3, <3>1
    <3>2. CASE r # Root
      <4>1. bcast[r] < bcast[Root]
        BY <1>4, <3>2 DEF Bcast
      <4>2. bcast'[r] <= bcast'[Root]
        BY <1>0, <2>3, <3>2, <4>1
      <4>3. \A q \in Ranks \ {r} : bcast'[q] <= bcast'[Root]
        BY <1>0, <2>3, <3>2
      <4> QED  BY <4>2, <4>3
    <3> QED  BY <3>1, <3>2
  <2>5. \A j \in Sensors : AfterBcast(r)[j] = MeasuredAt(r, j)
    <3>1. \A j \in Sensors : at[Root][j] = j /\ (r # Root => at[r][j] = Origin)
      BY <1>0, <2>1, <2>2 DEF SetupInv
    <3> QED  BY <3>1 DEF AfterBcast, MeasuredAt
  <2>6. CASE bcast[r] + 1 = NBcasts
    <3>1. \A q \in Ranks : pc'[q] = (IF q = r THEN "move" ELSE pc[q])
      BY <1>0, <1>4, <2>3, <2>6 DEF Bcast, Goto
    <3>2. \A q \in Ranks : at'[q] = (IF q = r THEN AfterBcast(r) ELSE at[q])
      BY <1>0, <1>4, <2>3, <2>6 DEF Bcast
    <3>3. pc'[Root] \notin {"config", "exit"}
      BY <2>2, <3>1
    <3>4. \A j \in Sensors : at'[Root][j] = j
      <4>1. CASE r = Root
        BY <2>5, <3>2, <4>1 DEF MeasuredAt
      <4>2. CASE r # Root
        BY <1>0, <2>2, <3>2, <4>2 DEF SetupInv
      <4> QED  BY <4>1, <4>2
    <3>5. ASSUME NEW q \in Ranks PROVE RankSetup(q)'
      <4>1. CASE q = r
        BY <2>3, <2>5, <2>6, <3>1, <3>2, <4>1 DEF RankSetup, Looping, MeasuredAt
      <4>2. CASE q # r
        <5>1. pc'[q] = pc[q] /\ at'[q] = at[q] /\ bcast'[q] = bcast[q]
          BY <2>3, <3>1, <3>2, <3>5, <4>2
        <5>2. RankSetup(q) /\ pc[q] # "exit"
          BY <1>0, <2>2, <3>5 DEF SetupInv, RankSetup
        <5> QED  BY <5>1, <5>2 DEF RankSetup, MeasuredAt
      <4> QED  BY <4>1, <4>2
    <3> QED  BY <2>4, <3>3, <3>4, <3>5 DEF SetupInv, RankSetup
  <2>7. CASE bcast[r] + 1 # NBcasts
    <3>1. pc' = pc /\ at' = at
      BY <1>0, <1>4, <2>3, <2>7 DEF Bcast
    <3>2. bcast[r] + 1 < NBcasts
      BY <1>0, <2>1, <2>7
    <3>3. ASSUME NEW q \in Ranks PROVE RankSetup(q)'
      <4>1. RankSetup(q) /\ (q = r => pc[q] \notin Looping)
        BY <1>0, <2>1, <3>3 DEF SetupInv, RankSetup, Looping
      <4>2. bcast'[q] < NBcasts \/ bcast'[q] = bcast[q]
        BY <2>3, <3>2, <3>3
      <4>3. q # r => bcast'[q] = bcast[q]
        BY <2>3, <3>3
      <4> QED  BY <3>1, <4>1, <4>2, <4>3 DEF RankSetup, MeasuredAt
    <3>4. pc'[Root] \notin {"config", "exit"} /\ \A j \in Sensors : at'[Root][j] = j
      BY <1>0, <2>2, <3>1 DEF SetupInv
    <3> QED  BY <2>4, <3>3, <3>4 DEF SetupInv, RankSetup
  <2> QED  BY <2>6, <2>7
<1>5. ASSUME NEW r \in Ranks, pc[r] \in Looping, pc'[r] \in Looping,
             pc' = [pc EXCEPT ![r] = pc'[r]], UNCHANGED setupVars
      PROVE  SetupInv'
  <2>1. at' = at /\ bcast' = bcast
        /\ \A q \in Ranks : pc'[q] = pc[q] \/ {pc'[q], pc[q]} \subseteq Looping
    BY <1>0, <1>5 DEF setupVars
  <2>2. \A q \in Ranks : \A l \in {"config", "exit", "bcast"} : pc'[q] = l <=> pc[q] = l
    BY <2>1 DEF Looping
  <2>3. \A q \in Ranks : pc'[q] \in Looping <=> pc[q] \in Looping
    BY <2>1
  <2> QED  BY <1>0, <2>1, <2>2, <2>3 DEF SetupInv, MeasuredAt
<1>6. ASSUME UNCHANGED <<pc, setupVars>> PROVE SetupInv'
  BY <1>0, <1>6 DEF SetupInv, MeasuredAt, setupVars
<1>7. ASSUME NEW r \in Ranks,
             \/ MoveEntities(r)  \/ Measure(r)      \/ ReduceReturns(r)
             \/ LoopEnds(r)      \/ EnterBarrier(r) \/ LeaveBarrier(r)
      PROVE  SetupInv'
  <2>1. pc[r] \in Looping /\ pc'[r] \in Looping /\ pc' = [pc EXCEPT ![r] = pc'[r]]
    BY <1>0, <1>7 DEF MoveEntities, Measure, ReduceReturns, LoopEnds, EnterBarrier,
                      LeaveBarrier, NextSensor, Goto, Looping
  <2>2. UNCHANGED setupVars
    BY <1>7 DEF MoveEntities, Measure, ReduceReturns, LoopEnds, EnterBarrier,
                LeaveBarrier
  <2> QED  BY <2>1, <2>2, <1>5
<1>8. CASE ReduceCompletes
  <2>1. pc[Root] \in Looping /\ pc'[Root] \in Looping /\ pc' = [pc EXCEPT ![Root] = pc'[Root]]
    BY <1>0, <1>8 DEF ReduceCompletes, NextSensor, Goto, Looping
  <2> QED  BY <1>8, <2>1, <1>5 DEF ReduceCompletes
<1>9. ASSUME Publish \/ (\E r \in Ranks : Combine(r)) \/ UNCHANGED vars
      PROVE  SetupInv'
  BY <1>9, <1>6 DEF Publish, Combine, vars, setupVars
<1> QED
  BY <1>1, <1>2, <1>4, <1>7, <1>8, <1>9 DEF Next, RootStep, RankStep

LEMMA LoopStep == ControlInv /\ Next => LoopInv'
<1> SUFFICES ASSUME ControlInv, Next PROVE LoopInv'
  OBVIOUS
<1>0. TypeOK /\ \A q \in Ranks : /\ step[q] \in Nat /\ arrived[q] \in Nat
                                 /\ sensor[q] \in Nat /\ Left(q) \in Int
  BY CountersType DEF ControlInv
<1> USE RootIsARank DEF ControlInv, TypeOK
<1>1. CASE LoadConfig
  BY <1>1 DEF LoadConfig, LoopInv, Goto, Looping, Working, Left
<1>2. CASE ConfigFails
  BY <1>2 DEF ConfigFails, LoopInv, Goto, Looping, Working, Left
<1>3. ASSUME NEW r \in Ranks, Killed(r) PROVE LoopInv'
  <2>1. pc[r] \notin Looping
    BY <1>3 DEF Killed, SetupInv, NBcasts
  <2> QED
    BY <1>3, <2>1 DEF Killed, LoopInv, Goto, Looping, Working, Left
<1>4. ASSUME NEW r \in Ranks, Bcast(r) PROVE LoopInv'
  <2>1. /\ step' = step /\ sensor' = sensor /\ arrived' = arrived
        /\ pc[r] = "bcast" /\ pc'[r] \in {"bcast", "move"}
        /\ \A q \in Ranks \ {r} : pc'[q] = pc[q]
    BY <1>4 DEF Bcast, Goto
  <2>2. step[r] = 0
    BY <2>1 DEF LoopInv, Looping
  <2>3. \A q \in Ranks : Left(q)' = Left(q)
    BY <2>1 DEF Left, Working
  <2> HIDE DEF ControlInv, TypeOK
  <2>4. LoopInv
    BY DEF ControlInv
  <2> QED  BY <2>1, <2>2, <2>3, <2>4 DEF LoopInv, Looping, Working
<1>5. ASSUME NEW r \in Ranks, MoveEntities(r) PROVE LoopInv'
  <2>1. \A q \in Ranks : pc'[q] = (IF q = r THEN "measure" ELSE pc[q])
    BY <1>5 DEF MoveEntities, Goto
  <2>2. \A q \in Ranks : /\ step'[q] = (IF q = r THEN step[r] + 1 ELSE step[q])
                         /\ sensor'[q] = (IF q = r THEN 0 ELSE sensor[q])
    BY <1>5 DEF MoveEntities
  <2>3. arrived' = arrived /\ pc[r] = "move"
    BY <1>5 DEF MoveEntities
  <2> USE <1>0 DEF LoopInv
  <2> HIDE DEF TypeOK
  <2>4. \A q \in Ranks : Left(q)' = Left(q)
    BY <2>1, <2>2, <2>3 DEF Left, Working
  <2>5. \A q, p \in Ranks : Left(q)' <= arrived'[p]
    BY <2>3, <2>4
  <2>6. /\ arrived'[r] = step'[r] - 1 /\ step'[r] >= 1
        /\ pc'[r] = "measure"
    <3>1. arrived'[r] = step[r] /\ step'[r] = step[r] + 1 /\ step[r] \in Nat
      BY <2>2, <2>3 DEF Working
    <3>2. pc'[r] = "measure"
      BY <2>1
    <3> HIDE <1>0 DEF LoopInv, ControlInv
    <3> QED  BY <3>1, <3>2
  <2>7. \A q \in Ranks \ {r} : /\ pc'[q] = pc[q] /\ step'[q] = step[q]
                               /\ sensor'[q] = sensor[q] /\ arrived'[q] = arrived[q]
    BY <2>1, <2>2, <2>3
  <2> QED
    BY <2>5, <2>6, <2>7 DEF Looping, Working
<1>6. ASSUME NEW r \in Ranks, Measure(r) PROVE LoopInv'
  BY <1>6 DEF Measure, LoopInv, Goto, Looping, Working, Left
<1>7. ASSUME NEW r \in Ranks, ReduceReturns(r) PROVE LoopInv'
  BY <1>7 DEF ReduceReturns, NextSensor, LoopInv, Goto, Looping, Working, Left
<1>8. CASE ReduceCompletes
  BY <1>8 DEF ReduceCompletes, NextSensor, LoopInv, Goto, Looping, Working, Left
<1>9. ASSUME NEW r \in Ranks, LoopEnds(r) PROVE LoopInv'
  BY <1>9 DEF LoopEnds, LoopInv, Goto, Looping, Working, Left
<1>10. ASSUME NEW r \in Ranks, EnterBarrier(r) PROVE LoopInv'
  <2>1. \A q \in Ranks : pc'[q] = (IF q = r THEN "barrier" ELSE pc[q])
    BY <1>10 DEF EnterBarrier, Goto
  <2>2. \A q \in Ranks : arrived'[q] = (IF q = r THEN arrived[r] + 1 ELSE arrived[q])
    BY <1>10 DEF EnterBarrier, Arrive
  <2>3. step' = step /\ sensor' = sensor /\ pc[r] = "publish"
    BY <1>10 DEF EnterBarrier
  <2> USE <1>0 DEF LoopInv
  <2> HIDE DEF TypeOK
  <2>4. \A q \in Ranks : Left(q)' = Left(q) /\ arrived[q] <= arrived'[q]
    BY <2>1, <2>2, <2>3 DEF Left, Working
  <2>5. \A q \in Ranks : arrived'[q] \in Nat
    <3> TAKE q \in Ranks
    <3>1. arrived[q] \in Nat /\ arrived[r] \in Nat
      BY <1>0
    <3>2. arrived'[q] = arrived[r] + 1 \/ arrived'[q] = arrived[q]
      BY <2>2
    <3> HIDE <1>0 DEF LoopInv, ControlInv
    <3> QED  BY <3>1, <3>2
  <2>6. \A q, p \in Ranks : Left(q)' <= arrived'[p]
    <3> TAKE q, p \in Ranks
    <3>1. Left(q) <= arrived[p] /\ arrived[p] <= arrived'[p] /\ Left(q)' = Left(q)
      BY <2>4
    <3> QED  BY <2>5, <3>1
  <2>7. arrived'[r] = step[r]
    BY <2>2, <2>3 DEF Working
  <2> QED
    BY <2>1, <2>2, <2>3, <2>6, <2>7 DEF Looping, Working
<1>11. ASSUME NEW r \in Ranks, LeaveBarrier(r) PROVE LoopInv'
  BY <1>11 DEF LeaveBarrier, EverybodyArrived, LoopInv, Goto, Looping, Working, Left
<1>12. ASSUME UNCHANGED <<pc, step, sensor, arrived>> PROVE LoopInv'
  BY <1>12 DEF LoopInv, Left
<1>13. ASSUME Publish \/ (\E r \in Ranks : Combine(r)) \/ UNCHANGED vars
      PROVE  LoopInv'
  BY <1>13, <1>12 DEF Publish, Combine, vars
<1> QED
  BY <1>1, <1>2, <1>3, <1>4, <1>5, <1>6, <1>7, <1>8, <1>9, <1>10, <1>11, <1>13
     DEF Next, RootStep, RankStep

LEMMA ControlStep == ControlInv /\ [Next]_vars => ControlInv'
<1>1. ASSUME ControlInv, UNCHANGED vars PROVE ControlInv'
  <2>1. TypeOK'
    BY <1>1 DEF ControlInv, TypeOK, vars
  <2>2. SetupInv'
    BY <1>1 DEF ControlInv, SetupInv, MeasuredAt, vars
  <2>3. LoopInv'
    BY <1>1 DEF ControlInv, LoopInv, Left, vars
  <2> QED  BY <2>1, <2>2, <2>3 DEF ControlInv
<1> QED  BY <1>1, TypeStep, SetupStep, LoopStep DEF ControlInv

\* Every variable has its type in every reachable state: the loop variables
\* stay within the arrays they index and no barrier is called twice in a step.
THEOREM TypeCorrect == Spec => []TypeOK
<1>1. ControlInv => TypeOK
  BY DEF ControlInv
<1> QED  BY InitControl, ControlStep, <1>1, PTL DEF Spec

-----------------------------------------------------------------------------
(* Whose contributions are where *)

\* What rank r adds to sensor j's reading in step t.
Term(r, j, t) == [rank |-> r, at |-> MeasuredAt(r, j), step |-> t]

\* How many contributions rank r has posted in its current step, and how many
\* of those root has combined.  In root's next step they are behind, in root's
\* previous step ahead of root's loop by a whole loop.
Posted(r) == sensor[r] + (IF pc[r] = "reduce" THEN 1 ELSE 0)
Taken(r) ==
    sensor[Root] + (IF pc[Root] = "reduce" /\ r \in combined THEN 1 ELSE 0)
                 + (IF step[Root] > step[r] THEN NSensors
                    ELSE IF step[Root] < step[r] THEN -NSensors ELSE 0)

\* The channel holds what was posted and not taken, in the order of the
\* sensors: the order is all that ties a contribution to its sensor.
ChannelOf(r) ==
    /\ Len(channel[r]) = Posted(r) - Taken(r)
    /\ \A i \in 1 .. Len(channel[r]) :
           channel[r][i] = {Term(r, Taken(r) + i - 1, step[r])}

ChannelInv ==
    /\ channel[Root] = <<>>
    /\ \A r \in Ranks \ {Root} : ChannelOf(r)

RootInv ==
    /\ pc[Root] = "reduce" =>
           /\ Root \in combined
           /\ noise_sum = {Term(q, sensor[Root], step[Root]) : q \in combined}
    /\ pc[Root] \in Working =>
           \A j \in Sensors :
               j < sensor[Root] => noise_mw[Root][j] = Total(j, step[Root])
    /\ ReadingsAreTotals

\* How far apart the barrier lets two ranks be.
LEMMA Skew ==
    ASSUME ControlInv, NEW r \in Ranks, NEW q \in Ranks
    PROVE  /\ step[r] <= step[q] + 1
           /\ step[q] < step[r] => pc[q] \notin Working /\ sensor[q] = NSensors
           /\ pc[r] = "move" => /\ step[r] <= step[q]
                                /\ step[q] = step[r] => pc[q] \notin Working
<1>1. /\ step[r] \in Nat /\ step[q] \in Nat /\ arrived[q] \in Nat
  BY CountersType DEF ControlInv
<1>2. Left(r) <= arrived[q] /\ Left(r) \in {step[r] - 1, step[r]}
  BY DEF ControlInv, LoopInv, Left
<1>3. pc[r] = "move" => Left(r) = step[r]
  BY DEF Left, Working
<1>4. arrived[q] = (IF pc[q] \in Working THEN step[q] - 1 ELSE step[q])
  BY DEF ControlInv, LoopInv
<1>5. pc[q] \notin Working => sensor[q] = NSensors
  BY DEF ControlInv, LoopInv, Working
<1>6. step[r] - 1 <= arrived[q] /\ arrived[q] <= step[q]
  BY <1>1, <1>2, <1>4
<1>7. step[q] < step[r] => pc[q] \notin Working
  BY <1>1, <1>4, <1>6
<1>8. pc[r] = "move" => /\ step[r] <= step[q]
                        /\ step[q] = step[r] => pc[q] \notin Working
  BY <1>1, <1>2, <1>3, <1>4
<1> QED  BY <1>1, <1>5, <1>6, <1>7, <1>8

\* Steps that post nothing, take nothing and move nobody.
LEMMA ChannelFrame ==
    ASSUME ChannelInv, UNCHANGED <<step, sensor, combined, channel>>,
           \A q \in Ranks : pc'[q] = "reduce" <=> pc[q] = "reduce"
    PROVE  ChannelInv'
<1>1. \A q \in Ranks : Posted(q)' = Posted(q) /\ Taken(q)' = Taken(q)
  BY RootIsARank DEF Posted, Taken
<1> QED  BY <1>1 DEF ChannelInv, ChannelOf, Term, MeasuredAt

LEMMA ChannelMove ==
    ASSUME ControlInv, ChannelInv, NEW r \in Ranks, MoveEntities(r)
    PROVE  ChannelInv'
<1>1. \A q \in Ranks : pc'[q] = (IF q = r THEN "measure" ELSE pc[q])
  BY DEF MoveEntities, Goto, ControlInv, TypeOK
<1>2. \A q \in Ranks : /\ step'[q] = (IF q = r THEN step[r] + 1 ELSE step[q])
                       /\ sensor'[q] = (IF q = r THEN 0 ELSE sensor[q])
  BY DEF MoveEntities, ControlInv, TypeOK
<1>3. pc[r] = "move" /\ combined' = combined /\ channel' = channel
  BY DEF MoveEntities, reduceVars
<1>4. \A q \in Ranks : step[q] \in Nat /\ sensor[q] \in Nat
  BY CountersType DEF ControlInv
<1>5. sensor[r] = NSensors
  BY <1>3 DEF ControlInv, LoopInv
<1>6. ASSUME NEW q \in Ranks \ {Root, r} , r # Root
      PROVE  Posted(q)' = Posted(q) /\ Taken(q)' = Taken(q) /\ step'[q] = step[q]
  BY <1>1, <1>2, <1>3, <1>6, RootIsARank DEF Posted, Taken
<1>7. ASSUME NEW q \in Ranks \ {Root}, r = Root
      PROVE  Posted(q)' = Posted(q) /\ Taken(q)' = Taken(q) /\ step'[q] = step[q]
  <2>1. step[Root] <= step[q] /\ step[q] <= step[Root] + 1
    BY <1>3, <1>7, Skew
  <2>2. Posted(q)' = Posted(q) /\ step'[q] = step[q]
    BY <1>1, <1>2, <1>7 DEF Posted
  <2>3. pc[Root] = "move" /\ pc'[Root] = "measure" /\ sensor'[Root] = 0
        /\ sensor[Root] = NSensors /\ step'[Root] = step[Root] + 1
    BY <1>1, <1>2, <1>3, <1>5, <1>7
  <2> QED  BY <1>4, <1>7, <2>1, <2>2, <2>3, RootIsARank DEF Taken
<1>8. ASSUME r # Root
      PROVE  Len(channel[r]) = 0 /\ Posted(r)' = 0 /\ Taken(r)' = 0
  <2>1. Posted(r) = NSensors /\ Posted(r)' = 0
    BY <1>1, <1>2, <1>3, <1>5 DEF Posted
  <2>2. Len(channel[r]) = NSensors - Taken(r) /\ Len(channel[r]) \in Nat
    BY <1>8, <2>1 DEF ChannelInv, ChannelOf, ControlInv, TypeOK
  <2>3. pc'[Root] = pc[Root] /\ step'[Root] = step[Root] /\ sensor'[Root] = sensor[Root]
    BY <1>1, <1>2, <1>8, RootIsARank
  <2>4. step[r] <= step[Root] /\ step[Root] <= step[r] + 1
    BY <1>3, Skew, RootIsARank
  <2>5. CASE step[Root] = step[r]
    <3>1. pc[Root] \notin Working /\ sensor[Root] = NSensors
      BY <1>3, <2>5, Skew, RootIsARank DEF ControlInv, LoopInv, Working
    <3>2. pc[Root] # "reduce"
      BY <3>1 DEF Working
    <3>3. step'[r] = step[r] + 1 /\ step'[Root] < step'[r] /\ ~ step'[Root] > step'[r]
      BY <1>2, <1>4, <2>3, <2>5, RootIsARank
    <3>4. Taken(r) = NSensors /\ Taken(r)' = 0
      BY <1>4, <2>3, <2>5, <3>1, <3>2, <3>3, RootIsARank DEF Taken
    <3> QED  BY <2>1, <2>2, <3>4
  <2>6. CASE step[Root] = step[r] + 1
    <3> DEFINE x == IF pc[Root] = "reduce" /\ r \in combined THEN 1 ELSE 0
    <3>1. Taken(r) = sensor[Root] + x + NSensors
      BY <1>4, <2>6, RootIsARank DEF Taken
    <3>2. Taken(r)' = sensor[Root] + x
      BY <1>2, <1>3, <1>4, <2>3, <2>6, RootIsARank DEF Taken
    <3>3. x \in {0, 1} /\ sensor[Root] \in Nat
      BY <1>4, RootIsARank
    <3> HIDE DEF x
    <3> QED  BY <2>1, <2>2, <3>1, <3>2, <3>3
  <2> QED  BY <1>4, <2>4, <2>5, <2>6, RootIsARank
<1>9. channel'[Root] = <<>>
  BY <1>3 DEF ChannelInv
<1>10. ASSUME NEW q \in Ranks \ {Root} PROVE ChannelOf(q)'
  <2>1. CASE q = r
    <3>1. Len(channel'[q]) = 0 /\ Posted(q)' = 0 /\ Taken(q)' = 0
      BY <1>3, <1>8, <1>10, <2>1
    <3> QED  BY <3>1 DEF ChannelOf
  <2>2. CASE q # r
    <3>1. Posted(q)' = Posted(q) /\ Taken(q)' = Taken(q) /\ step'[q] = step[q]
      BY <1>6, <1>7, <1>10, <2>2
    <3> QED  BY <1>3, <1>10, <3>1 DEF ChannelInv, ChannelOf, Term, MeasuredAt
  <2> QED  BY <2>1, <2>2
<1> QED  BY <1>9, <1>10 DEF ChannelInv

LEMMA ChannelMeasure ==
    ASSUME ControlInv, ChannelInv, NEW r \in Ranks, Measure(r)
    PROVE  ChannelInv'
<1>1. \A q \in Ranks : pc'[q] = (IF q = r THEN "reduce" ELSE pc[q])
  BY DEF Measure, Goto, ControlInv, TypeOK
<1>2. pc[r] = "measure" /\ step' = step /\ sensor' = sensor /\ at' = at
  BY DEF Measure, setupVars
<1>3. \A q \in Ranks : step[q] \in Nat /\ sensor[q] \in Nat
  BY CountersType DEF ControlInv
<1>4. ASSUME NEW q \in Ranks \ {Root}
      PROVE  Taken(q)' = Taken(q) /\ Taken(q) \in Int
  <2>1. CASE r = Root
    <3>1. combined' = {Root} /\ pc[Root] # "reduce"
      BY <1>2, <2>1 DEF Measure
    <3> QED  BY <1>2, <1>3, <1>4, <3>1, RootIsARank DEF Taken
  <2>2. CASE r # Root
    <3>1. combined' = combined /\ pc'[Root] = pc[Root]
      BY <1>1, <2>2, RootIsARank DEF Measure
    <3> QED  BY <1>2, <1>3, <1>4, <3>1, RootIsARank DEF Taken
  <2> QED  BY <2>1, <2>2
<1>5. \A q \in Ranks : Posted(q)' = IF q = r THEN Posted(q) + 1 ELSE Posted(q)
  BY <1>1, <1>2, <1>3 DEF Posted
<1>6. \A q \in Ranks : q # r \/ r = Root => channel'[q] = channel[q]
  BY DEF Measure, ControlInv, TypeOK
<1>7. ASSUME NEW q \in Ranks \ {Root}, q # r PROVE ChannelOf(q)'
  BY <1>2, <1>4, <1>5, <1>6, <1>7 DEF ChannelInv, ChannelOf, Term, MeasuredAt
<1>8. ASSUME r # Root PROVE ChannelOf(r)'
  <2> DEFINE c == channel[r]
  <2>1. c \in Seq(SUBSET Addends) /\ Len(c) \in Nat /\ ChannelOf(r)
    BY <1>8, ChannelType DEF ChannelInv, ControlInv
  <2>2. sensor[r] \in Sensors
    BY <1>2, <1>3 DEF Measure, Sensors
  <2>3. at[r][sensor[r]] = MeasuredAt(r, sensor[r])
    BY <1>2, <2>2 DEF ControlInv, SetupInv, Looping
  <2>4. Posted(r) = sensor[r]
    BY <1>2, <1>3 DEF Posted
  <2>5. Measured(r, sensor[r]) = {Term(r, Taken(r) + Len(c), step[r])}
    <3>1. Taken(r) + Len(c) = sensor[r]
      BY <1>3, <1>4, <1>8, <2>1, <2>4 DEF ChannelOf
    <3> QED  BY <2>3, <3>1 DEF Measured, Contribution, Term
  <2>6. channel'[r] = Append(c, Measured(r, sensor[r]))
    BY <1>8 DEF Measure, ControlInv, TypeOK
  <2>7. Len(channel'[r]) = Len(c) + 1
    BY <2>1, <2>6
  <2>8. \A i \in 1 .. Len(c) : channel'[r][i] = c[i]
    BY <2>1, <2>6
  <2>9. channel'[r][Len(c) + 1] = Measured(r, sensor[r])
    BY <2>1, <2>6
  <2> HIDE DEF c
  <2>10. ASSUME NEW i \in 1 .. Len(channel'[r])
         PROVE  channel'[r][i] = {Term(r, Taken(r) + i - 1, step[r])}
    <3>1. CASE i \in 1 .. Len(c)
      BY <2>1, <2>8, <3>1 DEF ChannelOf, c
    <3>2. CASE i = Len(c) + 1
      <4>1. Taken(r) + i - 1 = Taken(r) + Len(c)
        BY <1>4, <1>8, <2>1, <3>2
      <4> QED  BY <2>5, <2>9, <3>2, <4>1
    <3> QED  BY <2>1, <2>7, <3>1, <3>2
  <2>11. Len(channel'[r]) = Posted(r)' - Taken(r)'
    <3>1. Len(c) = Posted(r) - Taken(r)
      BY <2>1 DEF ChannelOf, c
    <3> QED  BY <1>3, <1>4, <1>5, <1>8, <2>1, <2>4, <2>7, <3>1
  <2>12. Taken(r)' = Taken(r) /\ step'[r] = step[r]
    BY <1>2, <1>4, <1>8
  <2> QED
    BY <2>10, <2>11, <2>12 DEF ChannelOf, Term, MeasuredAt
<1>9. channel'[Root] = <<>>
  BY <1>6, RootIsARank DEF ChannelInv
<1> QED  BY <1>7, <1>8, <1>9 DEF ChannelInv

\* Root can only combine a contribution of its own step, and the oldest one in
\* the channel is the one for root's sensor.
LEMMA OldestContribution ==
    ASSUME ControlInv, ChannelInv, NEW r \in Ranks, pc[Root] = "reduce",
           r \notin combined, channel[r] # <<>>
    PROVE  /\ r # Root
           /\ step[r] = step[Root] /\ Taken(r) = sensor[Root]
           /\ Head(channel[r]) = {Term(r, sensor[Root], step[Root])}
<1>1. r # Root
  BY DEF ChannelInv
<1>2. channel[r] \in Seq(SUBSET Addends) /\ Len(channel[r]) \in Nat \ {0}
  BY ChannelType DEF ControlInv
<1>3. /\ step[r] \in Nat /\ step[Root] \in Nat
      /\ sensor[r] \in Nat /\ sensor[Root] \in Nat
  BY CountersType, RootIsARank DEF ControlInv
<1>4. step[Root] >= step[r]
  BY <1>3, Skew, RootIsARank DEF Working
<1>5. Posted(r) <= NSensors /\ Posted(r) \in Nat
  <2>1. pc[r] = "reduce" => sensor[r] < NSensors
    BY DEF ControlInv, LoopInv
  <2>2. sensor[r] <= NSensors
    BY DEF ControlInv, TypeOK
  <2> QED  BY <1>3, <2>1, <2>2 DEF Posted
<1>6. Len(channel[r]) = Posted(r) - Taken(r)
  BY <1>1 DEF ChannelInv, ChannelOf
<1>7. step[r] = step[Root]
  <2>1. step[Root] > step[r] => Taken(r) = sensor[Root] + NSensors
    BY <1>3 DEF Taken
  <2>2. ASSUME step[Root] > step[r] PROVE FALSE
    BY <1>2, <1>3, <1>5, <1>6, <2>1, <2>2
  <2> QED  BY <1>3, <1>4, <2>2
<1>8. Taken(r) = sensor[Root]
  BY <1>3, <1>7 DEF Taken
<1>9. Head(channel[r]) = channel[r][1]
  BY <1>2
<1>10. channel[r][1] = {Term(r, Taken(r) + 1 - 1, step[r])}
  BY <1>1, <1>2 DEF ChannelInv, ChannelOf
<1> QED  BY <1>1, <1>3, <1>7, <1>8, <1>9, <1>10

LEMMA ChannelCombine ==
    ASSUME ControlInv, ChannelInv, NEW r \in Ranks, Combine(r)
    PROVE  ChannelInv'
<1>1. /\ pc[Root] = "reduce" /\ r \notin combined /\ channel[r] # <<>>
      /\ combined' = combined \cup {r}
      /\ pc' = pc /\ step' = step /\ sensor' = sensor
  BY DEF Combine
<1>2. r # Root /\ step[r] = step[Root] /\ Taken(r) = sensor[Root]
  BY <1>1, OldestContribution
<1>3. \A q \in Ranks : step[q] \in Nat /\ sensor[q] \in Nat
  BY CountersType DEF ControlInv
<1>4. \A q \in Ranks : channel'[q] = IF q = r THEN Tail(channel[q]) ELSE channel[q]
  BY DEF Combine, ControlInv, TypeOK
<1>5. \A q \in Ranks : Posted(q)' = Posted(q)
  BY <1>1 DEF Posted
<1>6. ASSUME NEW q \in Ranks \ {Root}, q # r PROVE ChannelOf(q)'
  <2>1. Taken(q)' = Taken(q)
    BY <1>1, <1>6 DEF Taken
  <2> QED
    BY <1>1, <1>4, <1>5, <1>6, <2>1 DEF ChannelInv, ChannelOf, Term, MeasuredAt
<1>7. ChannelOf(r)'
  <2>1. Taken(r)' = Taken(r) + 1
    BY <1>1, <1>2, <1>3, RootIsARank DEF Taken
  <2>2. channel[r] \in Seq(SUBSET Addends) /\ Len(channel[r]) \in Nat \ {0}
    BY <1>1, ChannelType DEF ControlInv
  <2>3. /\ Len(channel'[r]) = Len(channel[r]) - 1
        /\ \A i \in 1 .. Len(channel[r]) - 1 : channel'[r][i] = channel[r][i + 1]
    <3>1. channel'[r] = Tail(channel[r])
      BY <1>4
    <3>2. Len(channel[r]) # 0
      BY <2>2
    <3> QED  BY <2>2, <3>1, <3>2, TailProperties
  <2>4. Len(channel[r]) = Posted(r) - Taken(r)
    BY <1>2 DEF ChannelInv, ChannelOf
  <2>5. Posted(r) \in Nat /\ Taken(r) \in Nat
    BY <1>2, <1>3, RootIsARank DEF Posted
  <2>6. Len(channel'[r]) = Posted(r)' - Taken(r)'
    BY <1>5, <2>1, <2>3, <2>4, <2>5
  <2>7. ASSUME NEW i \in 1 .. Len(channel'[r])
        PROVE  channel'[r][i] = {Term(r, Taken(r)' + i - 1, step[r])}
    <3>1. i + 1 \in 1 .. Len(channel[r]) /\ channel'[r][i] = channel[r][i + 1]
      BY <2>2, <2>3, <2>7
    <3>2. channel[r][i + 1] = {Term(r, Taken(r) + (i + 1) - 1, step[r])}
      BY <1>2, <3>1 DEF ChannelInv, ChannelOf
    <3>3. Taken(r) + (i + 1) - 1 = Taken(r)' + i - 1
      BY <2>1, <2>5, <3>1
    <3> QED  BY <3>1, <3>2, <3>3
  <2> QED  BY <1>1, <2>6, <2>7 DEF ChannelOf, Term, MeasuredAt
<1>8. channel'[Root] = <<>>
  BY <1>2, <1>4, RootIsARank DEF ChannelInv
<1> QED  BY <1>6, <1>7, <1>8 DEF ChannelInv

LEMMA ChannelStep == ControlInv /\ ChannelInv /\ Next => ChannelInv'
<1> SUFFICES ASSUME ControlInv, ChannelInv, Next PROVE ChannelInv'
  OBVIOUS
<1> USE RootIsARank DEF ControlInv, TypeOK
<1>1. CASE LoadConfig \/ ConfigFails
  <2>1. \A q \in Ranks : pc'[q] = "reduce" <=> pc[q] = "reduce"
    BY <1>1 DEF LoadConfig, ConfigFails, Goto
  <2> QED  BY <1>1, <2>1, ChannelFrame DEF LoadConfig, ConfigFails, reduceVars
<1>2. ASSUME NEW r \in Ranks, Bcast(r) \/ Killed(r) PROVE ChannelInv'
  <2>1. pc[r] # "reduce"
    <3>1. bcast[r] <= bcast[Root] /\ (pc[Root] = "exit" => bcast[Root] = 0)
      BY DEF SetupInv
    <3>2. pc[r] = "reduce" => bcast[r] = NBcasts
      BY DEF SetupInv, Looping
    <3>3. ~ NBcasts <= 0
      BY NBcastsType
    <3> QED  BY <1>2, <3>1, <3>2, <3>3 DEF Bcast, Killed
  <2>2. \A q \in Ranks : pc'[q] = "reduce" <=> pc[q] = "reduce"
    BY <1>2, <2>1 DEF Bcast, Killed, Goto
  <2> QED  BY <1>2, <2>2, ChannelFrame DEF Bcast, Killed, reduceVars
<1>3. ASSUME NEW r \in Ranks, LoopEnds(r) \/ EnterBarrier(r) \/ LeaveBarrier(r)
      PROVE  ChannelInv'
  <2>1. \A q \in Ranks : pc'[q] = "reduce" <=> pc[q] = "reduce"
    BY <1>3 DEF LoopEnds, EnterBarrier, LeaveBarrier, Goto
  <2> QED
    BY <1>3, <2>1, ChannelFrame DEF LoopEnds, EnterBarrier, LeaveBarrier, reduceVars
<1>4. CASE Publish \/ UNCHANGED vars
  BY <1>4, ChannelFrame DEF Publish, vars, reduceVars
<1>5. ASSUME NEW r \in Ranks, ReduceReturns(r) PROVE ChannelInv'
  <2>1. \A q \in Ranks : /\ pc'[q] = (IF q = r THEN "measure" ELSE pc[q])
                         /\ sensor'[q] = (IF q = r THEN sensor[r] + 1 ELSE sensor[q])
    BY <1>5 DEF ReduceReturns, NextSensor, Goto
  <2>2. /\ r # Root /\ pc[r] = "reduce"
        /\ step' = step /\ combined' = combined /\ channel' = channel
    BY <1>5 DEF ReduceReturns, reduceVars
  <2>3. \A q \in Ranks : sensor[q] \in Nat
    BY CountersType
  <2> HIDE DEF ControlInv, TypeOK
  <2>4. \A q \in Ranks : Posted(q)' = Posted(q)
    BY <2>1, <2>2, <2>3 DEF Posted
  <2>5. \A q \in Ranks : Taken(q)' = Taken(q)
    BY <2>1, <2>2 DEF Taken
  <2> QED  BY <2>2, <2>4, <2>5 DEF ChannelInv, ChannelOf, Term, MeasuredAt
<1>6. CASE ReduceCompletes
  <2>1. \A q \in Ranks : /\ pc'[q] = (IF q = Root THEN "measure" ELSE pc[q])
                         /\ sensor'[q] = (IF q = Root THEN sensor[Root] + 1 ELSE sensor[q])
    BY <1>6 DEF ReduceCompletes, NextSensor, Goto
  <2>2. /\ pc[Root] = "reduce" /\ combined = Ranks
        /\ step' = step /\ combined' = combined /\ channel' = channel
    BY <1>6 DEF ReduceCompletes, AllCombined, reduceVars
  <2>3. \A q \in Ranks : sensor[q] \in Nat /\ step[q] \in Nat
    BY CountersType
  <2> HIDE DEF ControlInv, TypeOK
  <2>4. \A q \in Ranks \ {Root} : Posted(q)' = Posted(q)
    BY <2>1 DEF Posted
  <2>5. \A q \in Ranks : Taken(q)' = Taken(q)
    BY <2>1, <2>2, <2>3 DEF Taken
  <2> QED  BY <2>2, <2>4, <2>5 DEF ChannelInv, ChannelOf, Term, MeasuredAt
<1> QED
  BY <1>1, <1>2, <1>3, <1>4, <1>5, <1>6, ChannelMove, ChannelMeasure, ChannelCombine
     DEF Next, RootStep, RankStep

\* Root's own loop: steps of root other than those below leave its sums alone.
LEMMA RootFrame ==
    ASSUME ControlInv, RootInv, step'[Root] = step[Root],
           sensor'[Root] = sensor[Root], produced' = produced,
           noise_mw'[Root] = noise_mw[Root],
           UNCHANGED <<noise_sum, combined>>,
           pc'[Root] = "reduce" => pc[Root] = "reduce",
           pc'[Root] \in Working => pc[Root] \in Working
    PROVE  RootInv'
BY DEF RootInv, Term, MeasuredAt, Total, ReadingsAreTotals

LEMMA TotalIsAllTerms ==
    ASSUME NEW j, NEW t PROVE Total(j, t) = {Term(q, j, t) : q \in Ranks}
BY DEF Total, Term

LEMMA RootStepInv == ControlInv /\ ChannelInv /\ RootInv /\ Next => RootInv'
<1> SUFFICES ASSUME ControlInv, ChannelInv, RootInv, Next PROVE RootInv'
  OBVIOUS
<1> USE RootIsARank
<1>0. /\ pc \in [Ranks -> Locations] /\ step \in [Ranks -> 0 .. MaxStep]
      /\ sensor \in [Ranks -> 0 .. NSensors]
      /\ noise_mw \in [Ranks -> [Sensors -> SUBSET Addends]]
  BY DEF ControlInv, TypeOK
<1>1. CASE LoadConfig \/ ConfigFails
  BY <1>0, <1>1, RootFrame DEF LoadConfig, ConfigFails, Goto, Working, reduceVars, kafkaVars
<1>2. ASSUME NEW r \in Ranks, Bcast(r) \/ Killed(r) PROVE RootInv'
  <2>1. pc'[Root] \in {pc[Root], "move", "exit"}
    BY <1>0, <1>2 DEF Bcast, Killed, Goto
  <2> QED
    BY <1>2, <2>1, RootFrame DEF Bcast, Killed, Working, reduceVars, kafkaVars
<1>3. ASSUME NEW r \in Ranks, MoveEntities(r) PROVE RootInv'
  <2>1. CASE r = Root
    <3>1. /\ pc'[Root] = "measure" /\ sensor'[Root] = 0 /\ produced' = produced
      BY <1>0, <1>3, <2>1 DEF MoveEntities, Goto, kafkaVars
    <3> QED
      BY <3>1 DEF RootInv, Sensors, ReadingsAreTotals, Total, MeasuredAt
  <2>2. CASE r # Root
    BY <1>0, <1>3, <2>2, RootFrame DEF MoveEntities, Goto, reduceVars, kafkaVars
  <2> QED  BY <2>1, <2>2
<1>4. ASSUME NEW r \in Ranks, Measure(r) PROVE RootInv'
  <2>1. CASE r = Root
    <3>1. /\ pc'[Root] = "reduce" /\ pc[Root] = "measure" /\ produced' = produced
          /\ step' = step /\ sensor' = sensor /\ combined' = {Root}
          /\ noise_sum' = Measured(Root, sensor[Root])
      BY <1>0, <1>4, <2>1 DEF Measure, Goto, kafkaVars
    <3>2. sensor[Root] \in Sensors
      BY <1>0, <1>4, <2>1 DEF Measure, Sensors
    <3>3. at[Root][sensor[Root]] = MeasuredAt(Root, sensor[Root])
      BY <3>1, <3>2 DEF ControlInv, SetupInv, Looping
    <3>4. noise_sum' = {Term(q, sensor[Root], step[Root]) : q \in {Root}}
      BY <3>1, <3>3 DEF Measured, Contribution, Term
    <3>5. \A j \in Sensors : j < sensor[Root] => noise_mw'[Root][j] = noise_mw[Root][j]
      BY <1>0, <1>4, <2>1, <3>2 DEF Measure, Sensors
    <3>6. pc[Root] \in Working
      BY <3>1 DEF Working
    <3> QED
      BY <3>1, <3>4, <3>5, <3>6 DEF RootInv, Term, MeasuredAt, Total, ReadingsAreTotals
  <2>2. CASE r # Root
    BY <1>0, <1>4, <2>2, RootFrame DEF Measure, Goto, kafkaVars
  <2> QED  BY <2>1, <2>2
<1>5. ASSUME NEW r \in Ranks, Combine(r) PROVE RootInv'
  <2>1. /\ pc[Root] = "reduce" /\ r \notin combined /\ channel[r] # <<>>
        /\ combined' = combined \cup {r} /\ noise_sum' = noise_sum \cup Head(channel[r])
        /\ pc' = pc /\ step' = step /\ sensor' = sensor
        /\ noise_mw' = noise_mw /\ produced' = produced
    BY <1>5 DEF Combine, kafkaVars
  <2>2. Head(channel[r]) = {Term(r, sensor[Root], step[Root])}
    BY <2>1, OldestContribution
  <2>3. noise_sum = {Term(q, sensor[Root], step[Root]) : q \in combined}
    BY <2>1 DEF RootInv
  <2>4. noise_sum' = {Term(q, sensor[Root], step[Root]) : q \in combined'}
    BY <2>1, <2>2, <2>3
  <2> QED
    BY <2>1, <2>4 DEF RootInv, Term, MeasuredAt, Total, ReadingsAreTotals
<1>6. ASSUME NEW r \in Ranks, ReduceReturns(r) PROVE RootInv'
  BY <1>0, <1>6, RootFrame DEF ReduceReturns, NextSensor, Goto, reduceVars, kafkaVars
<1>7. CASE ReduceCompletes
  <2>1. /\ pc'[Root] = "measure" /\ pc[Root] = "reduce" /\ combined = Ranks
        /\ step' = step /\ produced' = produced
        /\ sensor'[Root] = sensor[Root] + 1
    BY <1>0, <1>7 DEF ReduceCompletes, AllCombined, NextSensor, Goto, kafkaVars
  <2>2. sensor[Root] \in Sensors
    BY <1>0, <2>1 DEF ControlInv, LoopInv, Sensors
  <2>3. \A j \in Sensors :
           noise_mw'[Root][j] = IF j = sensor[Root] THEN noise_sum ELSE noise_mw[Root][j]
    BY <1>0, <1>7, <2>2 DEF ReduceCompletes
  <2>4. noise_sum = Total(sensor[Root], step[Root])
    BY <2>1, TotalIsAllTerms DEF RootInv
  <2>5. pc[Root] \in Working
    BY <2>1 DEF Working
  <2>6. ASSUME NEW j \in Sensors, j < sensor'[Root]
        PROVE  noise_mw'[Root][j] = Total(j, step[Root])
    <3>1. CASE j = sensor[Root]
      BY <2>3, <2>4, <3>1
    <3>2. CASE j # sensor[Root]
      <4>1. j < sensor[Root]
        BY <2>1, <2>2, <2>6, <3>2 DEF Sensors
      <4> QED  BY <2>3, <2>5, <3>2, <4>1 DEF RootInv
    <3> QED  BY <3>1, <3>2
  <2> QED
    BY <2>1, <2>6 DEF RootInv, MeasuredAt, Total, ReadingsAreTotals
<1>8. ASSUME NEW r \in Ranks, LoopEnds(r) PROVE RootInv'
  <2>1. pc'[Root] # "reduce" \/ pc[Root] = "reduce"
    BY <1>0, <1>8 DEF LoopEnds, Goto
  <2>2. pc'[Root] \in Working => pc[Root] \in Working
    BY <1>0, <1>8 DEF LoopEnds, Goto, Working
  <2> QED  BY <1>8, <2>1, <2>2, RootFrame DEF LoopEnds, reduceVars
<1>9. CASE Publish
  <2>1. /\ pc[Root] = "publish" /\ pc' = pc /\ step' = step /\ sensor' = sensor
        /\ noise_mw' = noise_mw /\ noise_sum' = noise_sum /\ combined' = combined
        /\ produced' \in {produced, Append(produced, Reading(offered))}
    BY <1>9 DEF Publish, reduceVars
  <2>2. offered \in Sensors /\ offered < sensor[Root]
    <3>1. sensor[Root] = NSensors
      BY <2>1 DEF ControlInv, LoopInv
    <3>2. offered \in 0 .. NSensors /\ offered < NSensors
      BY <1>9 DEF Publish, ControlInv, TypeOK
    <3> QED  BY <3>1, <3>2 DEF Sensors
  <2>3. Reading(offered).noise = Total(Reading(offered).id, Reading(offered).step)
    BY <2>1, <2>2 DEF RootInv, Working, Reading
  <2>4. produced \in Seq(Readings) /\ Reading(offered) \in Readings
    <3>1. produced \in Seq(Readings) /\ offered < NSensors
      BY <1>9 DEF Publish, ControlInv, TypeOK
    <3> QED  BY <3>1, ReadingType DEF ControlInv
  <2>5. ASSUME NEW i \in 1 .. Len(produced')
        PROVE  produced'[i].noise = Total(produced'[i].id, produced'[i].step)
    <3>1. \/ i \in 1 .. Len(produced) /\ produced'[i] = produced[i]
          \/ produced'[i] = Reading(offered)
      BY <2>1, <2>4, <2>5, MaybeAppended
    <3> QED  BY <2>3, <3>1 DEF RootInv, ReadingsAreTotals
  <2> QED
    BY <2>1, <2>5 DEF RootInv, Term, MeasuredAt, Total, ReadingsAreTotals
<1>10. ASSUME NEW r \in Ranks, EnterBarrier(r) \/ LeaveBarrier(r) PROVE RootInv'
  <2>1. pc'[Root] \in {pc[Root], "barrier", "move"}
    BY <1>0, <1>10 DEF EnterBarrier, LeaveBarrier, Goto
  <2> QED
    BY <1>10, <2>1, RootFrame
       DEF EnterBarrier, LeaveBarrier, Working, reduceVars, kafkaVars
<1>11. CASE UNCHANGED vars
  BY <1>11, RootFrame DEF vars
<1> QED
  BY <1>1, <1>2, <1>3, <1>4, <1>5, <1>6, <1>7, <1>8, <1>9, <1>10, <1>11
     DEF Next, RootStep, RankStep

\* The inductive invariant of the simulation.
Inv == ControlInv /\ ChannelInv /\ RootInv

LEMMA Invariance == Spec => []Inv
<1>1. Init => Inv
  <2> SUFFICES ASSUME Init PROVE Inv
    OBVIOUS
  <2>1. ChannelInv
    <3>1. ASSUME NEW r \in Ranks \ {Root} PROVE ChannelOf(r)
      <4>1. Posted(r) = NSensors /\ Taken(r) = NSensors
        BY <3>1, RootIsARank DEF Init, Posted, Taken
      <4>2. channel[r] = <<>>
        BY <3>1 DEF Init
      <4> QED  BY <4>1, <4>2 DEF ChannelOf
    <3> QED  BY <3>1, RootIsARank DEF ChannelInv, Init
  <2>2. RootInv
    BY RootIsARank DEF Init, RootInv, Working, ReadingsAreTotals
  <2> QED  BY <2>1, <2>2, InitControl DEF Inv
<1>2. Inv /\ [Next]_vars => Inv'
  <2>1. ASSUME Inv, UNCHANGED vars PROVE Inv'
    <3>1. ControlInv'
      BY <2>1, ControlStep DEF Inv
    <3>2. ChannelInv'
      BY <2>1, ChannelFrame DEF Inv, vars
    <3>3. RootInv'
      BY <2>1, RootFrame DEF Inv, vars
    <3> QED  BY <3>1, <3>2, <3>3 DEF Inv
  <2> QED  BY <2>1, ControlStep, ChannelStep, RootStepInv DEF Inv
<1> QED  BY <1>1, <1>2, PTL DEF Spec

\* Every reading that leaves is a sum of exactly one contribution of every
\* rank, of its own sensor and step: matching MPI_Reduce by order alone
\* (sim.c:252-260) is enough, whatever MPI buffers and however ranks run ahead.
THEOREM ReadingsCorrect == Spec => []ReadingsAreTotals
<1>1. Inv => ReadingsAreTotals
  BY DEF Inv, RootInv
<1> QED  BY Invariance, <1>1, PTL

\* The barrier of sim.c:275 keeps the ranks within one step of each other, and
\* MPI holds at most one step's contributions of a rank.
THEOREM BarrierKeepsStep == Spec => []RanksInStep
<1>1. Inv => RanksInStep
  <2> SUFFICES ASSUME Inv, NEW r \in Ranks
               PROVE  /\ \A q \in Ranks : step[r] <= step[q] + 1
                      /\ Len(channel[r]) <= NSensors
                      /\ \A i \in 1 .. Len(channel[r]) :
                             \A a \in channel[r][i] : a.step = step[r]
    BY DEF RanksInStep
  <2>1. \A q \in Ranks : step[r] <= step[q] + 1
    BY Skew DEF Inv
  <2>2. CASE r = Root
    BY <2>1, <2>2 DEF Inv, ChannelInv
  <2>3. CASE r # Root
    <3>1. ChannelOf(r)
      BY <2>3 DEF Inv, ChannelInv
    <3>2. \A i \in 1 .. Len(channel[r]) : \A a \in channel[r][i] : a.step = step[r]
      BY <3>1 DEF ChannelOf, Term
    <3>3. /\ step[r] \in Nat /\ step[Root] \in Nat
          /\ sensor[r] \in Nat /\ sensor[Root] \in Nat /\ sensor[r] <= NSensors
          /\ pc[r] = "reduce" => sensor[r] < NSensors
      BY CountersType, RootIsARank DEF Inv, ControlInv, TypeOK, LoopInv
    <3>4. Posted(r) <= NSensors /\ Posted(r) \in Int
      BY <3>3 DEF Posted
    <3>5. Taken(r) >= 0 /\ Taken(r) \in Int
      <4>1. step[Root] < step[r] => sensor[Root] = NSensors
        BY Skew, RootIsARank DEF Inv
      <4> QED  BY <3>3, <4>1 DEF Taken
    <3>6. Len(channel[r]) <= NSensors
      BY <3>1, <3>4, <3>5 DEF ChannelOf
    <3> QED  BY <2>1, <3>2, <3>6
  <2> QED  BY <2>2, <2>3
<1> QED  BY Invariance, <1>1, PTL

-----------------------------------------------------------------------------
(* The order of the readings *)

\* A reading that precedes the one root offers next.
Past(a) ==
    \/ a.step < step[Root]
    \/ a.step = step[Root] /\ /\ pc[Root] \notin {"measure", "reduce"}
                              /\ pc[Root] = "publish" => a.id < offered

OrderInv ==
    /\ \A i \in 1 .. Len(produced) : Past(produced[i])
    /\ ProducedInOrder

\* Steps that neither publish nor take the step back keep what is past.
LEMMA OrderFrame ==
    ASSUME ControlInv, OrderInv, produced' = produced,
           \/ step'[Root] = step[Root] /\ \/ pc'[Root] = pc[Root] /\ offered' = offered
                                          \/ pc'[Root] \notin {"measure", "reduce", "publish"}
                                          \/ pc[Root] \in {"measure", "reduce"}
           \/ step'[Root] = step[Root] + 1
    PROVE  OrderInv'
<1>1. step[Root] \in Nat
  BY CountersType, RootIsARank DEF ControlInv
<1>2. \A i \in 1 .. Len(produced) : produced[i].step \in Nat
  <2>1. \A i \in 1 .. Len(produced) : produced[i] \in Readings
    BY DEF ControlInv, TypeOK
  <2> QED  BY <2>1 DEF Readings
<1>3. ASSUME NEW i \in 1 .. Len(produced) PROVE Past(produced[i])'
  <2>1. Past(produced[i]) /\ produced[i].step \in Nat
    BY <1>2, <1>3 DEF OrderInv
  <2> QED  BY <1>1, <2>1 DEF Past
<1> QED  BY <1>3 DEF OrderInv, ProducedInOrder, InOrder

\* Readings leave in the order of the steps and, within a step, of the sensors
\* (sim.c:267-271), each at most once.
THEOREM ReadingsInOrder == Spec => []ProducedInOrder
<1> USE RootIsARank
<1>1. Init => OrderInv
  BY DEF Init, OrderInv, ProducedInOrder
<1>2. Inv /\ OrderInv /\ [Next]_vars => OrderInv'
  <2> SUFFICES ASSUME Inv, OrderInv, [Next]_vars PROVE OrderInv'
    OBVIOUS
  <2>0. /\ pc \in [Ranks -> Locations] /\ step \in [Ranks -> 0 .. MaxStep]
        /\ offered \in 0 .. NSensors /\ produced \in Seq(Readings) /\ ControlInv
    BY DEF Inv, ControlInv, TypeOK
  <2>1. CASE LoadConfig \/ ConfigFails \/ ReduceCompletes
    <3>1. /\ produced' = produced /\ step' = step
          /\ pc'[Root] \in {"bcast", "exit"} \/ pc[Root] = "reduce"
      BY <2>0, <2>1 DEF LoadConfig, ConfigFails, ReduceCompletes, Goto, kafkaVars
    <3> QED  BY <2>0, <3>1, OrderFrame
  <2>2. ASSUME NEW r \in Ranks, r # Root, RankStep(r) PROVE OrderInv'
    <3>1. /\ produced' = produced /\ offered' = offered
          /\ pc'[Root] = pc[Root] /\ step'[Root] = step[Root]
      BY <2>0, <2>2 DEF RankStep, Bcast, Killed, MoveEntities, Measure, ReduceReturns,
                        NextSensor, LoopEnds, OfferedReset, EnterBarrier, LeaveBarrier,
                        Goto, kafkaVars
    <3> QED  BY <2>0, <3>1, OrderFrame
  <2>3. CASE MoveEntities(Root)
    BY <2>0, <2>3, OrderFrame DEF MoveEntities, kafkaVars
  <2>4. CASE Bcast(Root) \/ Killed(Root) \/ EnterBarrier(Root) \/ LeaveBarrier(Root)
    <3>1. /\ produced' = produced /\ offered' = offered /\ step' = step
          /\ pc'[Root] = pc[Root] \/ pc'[Root] \in {"move", "exit", "barrier"}
      BY <2>0, <2>4 DEF Bcast, Killed, EnterBarrier, LeaveBarrier, Goto, kafkaVars
    <3> QED  BY <2>0, <3>1, OrderFrame
  <2>5. CASE Measure(Root) \/ LoopEnds(Root)
    BY <2>0, <2>5, OrderFrame DEF Measure, LoopEnds, kafkaVars
  <2>6. ASSUME NEW r \in Ranks, Combine(r) PROVE OrderInv'
    BY <2>0, <2>6, OrderFrame DEF Combine, kafkaVars
  <2>7. CASE Publish
    <3>1. /\ pc[Root] = "publish" /\ pc' = pc /\ step' = step /\ offered' = offered + 1
          /\ produced' \in {produced, Append(produced, Reading(offered))}
          /\ step[Root] \in Nat /\ offered \in Nat
      BY <2>0, <2>7 DEF Publish
    <3>2. \A i \in 1 .. Len(produced) :
              /\ produced[i].step \in Nat /\ produced[i].id \in Int
              /\ InOrder(produced[i], Reading(offered))
      <4> TAKE i \in 1 .. Len(produced)
      <4>1. produced[i] \in Readings /\ Past(produced[i])
        BY <2>0 DEF OrderInv
      <4>2. produced[i].step \in Nat /\ produced[i].id \in Int
        BY <4>1 DEF Readings, Sensors
      <4> QED  BY <3>1, <4>1, <4>2 DEF Past, InOrder, Reading
    <3>3. ASSUME NEW i \in 1 .. Len(produced')
          PROVE  \/ i \in 1 .. Len(produced) /\ produced'[i] = produced[i]
                 \/ i = Len(produced) + 1 /\ produced'[i] = Reading(offered)
      <4>1. Reading(offered) \in Readings
        BY <2>0, <2>7, ReadingType DEF Publish, ControlInv
      <4> QED  BY <2>0, <3>1, <3>3, <4>1, MaybeAppended
    <3>4. \A i \in 1 .. Len(produced') : Past(produced[i])'
      <4> TAKE i \in 1 .. Len(produced')
      <4>1. CASE i \in 1 .. Len(produced) /\ produced'[i] = produced[i]
        BY <3>1, <3>2, <4>1 DEF Past, InOrder, Reading
      <4>2. CASE produced'[i] = Reading(offered)
        <5>1. produced'[i].step = step[Root] /\ produced'[i].id = offered
          BY <4>2 DEF Reading
        <5> QED  BY <3>1, <5>1 DEF Past
      <4> QED  BY <3>3, <4>1, <4>2
    <3>5. \A i, k \in 1 .. Len(produced') : i < k => InOrder(produced'[i], produced'[k])
      <4> TAKE i, k \in 1 .. Len(produced')
      <4> HAVE i < k
      <4>1. i \in 1 .. Len(produced) /\ produced'[i] = produced[i]
        <5>1. k <= Len(produced) + 1 /\ Len(produced) \in Nat
          <6>1. \/ k \in 1 .. Len(produced) \/ k = Len(produced) + 1
            BY <3>3
          <6>2. Len(produced) \in Nat
            BY <2>0
          <6> QED  BY <6>1, <6>2
        <5>2. i # Len(produced) + 1
          BY <5>1
        <5> QED  BY <3>3, <5>2
      <4>2. CASE k \in 1 .. Len(produced) /\ produced'[k] = produced[k]
        BY <4>1, <4>2 DEF OrderInv, ProducedInOrder
      <4>3. CASE produced'[k] = Reading(offered)
        BY <3>2, <4>1, <4>3
      <4> QED  BY <3>3, <4>2, <4>3
    <3> QED  BY <3>4, <3>5 DEF OrderInv, ProducedInOrder, InOrder
  <2>8. CASE UNCHANGED vars
    BY <2>0, <2>8, OrderFrame DEF vars
  <2> QED
    <3>1. ASSUME NEW r \in Ranks, RankStep(r) PROVE OrderInv'
      BY <2>2, <2>3, <2>4, <2>5, <3>1 DEF RankStep, ReduceReturns
    <3> QED
      BY <2>1, <2>6, <2>7, <2>8, <3>1 DEF Next, RootStep
<1>3. OrderInv => ProducedInOrder
  BY DEF OrderInv
<1> QED  BY Invariance, <1>1, <1>2, <1>3, PTL DEF Spec

-----------------------------------------------------------------------------
(* The simulation implements CityReadings *)

\* The reading that is due as long as root's location and loop stay the same.
LEMMA DueFrame ==
    ASSUME step'[Root] = step[Root], offered' = offered, produced' = produced,
           \/ pc'[Root] = pc[Root]
           \/ {pc'[Root], pc[Root]} \subseteq {"measure", "reduce"}
           \/ {pc'[Root], pc[Root]} \cap {"measure", "reduce", "publish"} = {}
    PROVE  UNCHANGED City!vars
BY DEF City!vars, StepDue, SensorDue

\* Every step of the simulation publishes or drops the reading that is due or
\* leaves what CityReadings sees alone (sim.c:239-276): no reading is skipped,
\* repeated, moved to another step or published with a part missing.
THEOREM SimulationImplementsCity == Spec => ImplementsCity
<1> USE RootIsARank
<1>1. Init => City!Init
  BY DEF Init, City!Init, StepDue, SensorDue
<1>2. Inv /\ [Next]_vars => [City!Offer]_City!vars
  <2> SUFFICES ASSUME Inv, [Next]_vars PROVE City!Offer \/ UNCHANGED City!vars
    OBVIOUS
  <2>0. /\ pc \in [Ranks -> Locations] /\ step \in [Ranks -> 0 .. MaxStep]
        /\ offered \in 0 .. NSensors /\ sensor \in [Ranks -> 0 .. NSensors]
    BY DEF Inv, ControlInv, TypeOK
  <2>1. CASE LoadConfig \/ ConfigFails
    BY <2>0, <2>1, DueFrame DEF LoadConfig, ConfigFails, Goto, kafkaVars
  <2>2. ASSUME NEW r \in Ranks, Bcast(r) \/ Killed(r) PROVE UNCHANGED City!vars
    <3>1. pc[r] \in {"bcast", "config"}
      <4>1. bcast[r] <= bcast[Root] /\ (pc[Root] = "exit" => bcast[Root] = 0)
        BY DEF Inv, ControlInv, SetupInv
      <4>2. pc[r] \in Looping => bcast[r] = NBcasts
        BY DEF Inv, ControlInv, SetupInv
      <4>3. ~ NBcasts <= 0
        BY DEF NBcasts
      <4> QED
        BY <2>0, <2>2, <4>1, <4>2, <4>3 DEF Bcast, Killed, Locations, Looping
    <3>2. pc'[Root] = pc[Root] \/ (r = Root /\ pc'[Root] \in {"move", "exit"})
      BY <2>0, <2>2, <3>1 DEF Bcast, Killed, Goto
    <3> QED
      BY <2>2, <3>1, <3>2, DueFrame DEF Bcast, Killed, kafkaVars
  <2>3. ASSUME NEW r \in Ranks, MoveEntities(r) PROVE UNCHANGED City!vars
    <3>1. CASE r = Root
      <4>1. /\ pc[Root] = "move" /\ pc'[Root] = "measure"
            /\ step'[Root] = step[Root] + 1 /\ produced' = produced
        BY <2>0, <2>3, <3>1 DEF MoveEntities, Goto, kafkaVars
      <4> QED  BY <4>1 DEF City!vars, StepDue, SensorDue
    <3>2. CASE r # Root
      BY <2>0, <2>3, <3>2, DueFrame DEF MoveEntities, Goto, kafkaVars
    <3> QED  BY <3>1, <3>2
  <2>4. ASSUME NEW r \in Ranks, Measure(r) \/ ReduceReturns(r)
        PROVE  UNCHANGED City!vars
    <3>1. pc'[Root] = pc[Root] \/ {pc'[Root], pc[Root]} \subseteq {"measure", "reduce"}
      BY <2>0, <2>4 DEF Measure, ReduceReturns, NextSensor, Goto
    <3> QED  BY <2>4, <3>1, DueFrame DEF Measure, ReduceReturns, kafkaVars
  <2>5. ASSUME NEW r \in Ranks, Combine(r) PROVE UNCHANGED City!vars
    BY <2>5, DueFrame DEF Combine, kafkaVars
  <2>6. CASE ReduceCompletes
    <3>1. {pc'[Root], pc[Root]} \subseteq {"measure", "reduce"}
      BY <2>0, <2>6 DEF ReduceCompletes, NextSensor, Goto
    <3> QED  BY <2>6, <3>1, DueFrame DEF ReduceCompletes, kafkaVars
  <2>7. ASSUME NEW r \in Ranks, LoopEnds(r) PROVE UNCHANGED City!vars
    <3>1. CASE r = Root
      <4>1. /\ pc[Root] = "measure" /\ pc'[Root] = "publish" /\ offered' = 0
            /\ step' = step /\ produced' = produced
        BY <2>0, <2>7, <3>1 DEF LoopEnds, OfferedReset, Goto
      <4> QED  BY <4>1 DEF City!vars, StepDue, SensorDue
    <3>2. CASE r # Root
      BY <2>0, <2>7, <3>2, DueFrame DEF LoopEnds, OfferedReset, Goto
    <3> QED  BY <3>1, <3>2
  <2>8. CASE Publish
    <3>1. /\ pc[Root] = "publish" /\ pc' = pc /\ step' = step
          /\ offered \in Sensors /\ offered < NSensors /\ offered' = offered + 1
          /\ produced' \in {produced, Append(produced, Reading(offered))}
      BY <2>0, <2>8 DEF Publish, Sensors
    <3>2. noise_mw[Root][offered] = Total(offered, step[Root])
      <4>1. sensor[Root] = NSensors
        BY <3>1 DEF Inv, ControlInv, LoopInv
      <4> QED  BY <3>1, <4>1 DEF Inv, RootInv, Working
    <3>3. StepDue = step[Root] /\ SensorDue = offered
      BY <3>1 DEF StepDue, SensorDue
    <3>4. City!Due = Reading(offered)
      BY <3>1, <3>2, <3>3 DEF City!Due, Reading, Total
    <3>5. CASE offered + 1 < NSensors
      <4>1. StepDue' = StepDue /\ SensorDue' = SensorDue + 1
        BY <3>1, <3>3, <3>5 DEF StepDue, SensorDue
      <4> QED  BY <3>1, <3>3, <3>4, <3>5, <4>1 DEF City!Offer
    <3>6. CASE offered + 1 = NSensors
      <4>1. StepDue' = StepDue + 1 /\ SensorDue' = 0
        BY <3>1, <3>3, <3>6 DEF StepDue, SensorDue
      <4> QED  BY <3>1, <3>3, <3>4, <3>6, <4>1 DEF City!Offer
    <3> QED  BY <3>1, <3>5, <3>6 DEF Sensors
  <2>9. ASSUME NEW r \in Ranks, EnterBarrier(r) PROVE UNCHANGED City!vars
    <3>1. CASE r = Root
      <4>1. /\ pc[Root] = "publish" /\ pc'[Root] = "barrier" /\ offered = NSensors
            /\ step' = step /\ produced' = produced
        BY <2>0, <2>9, <3>1 DEF EnterBarrier, Goto, kafkaVars
      <4> QED  BY <4>1 DEF City!vars, StepDue, SensorDue
    <3>2. CASE r # Root
      BY <2>0, <2>9, <3>2, DueFrame DEF EnterBarrier, Goto, kafkaVars
    <3> QED  BY <3>1, <3>2
  <2>10. ASSUME NEW r \in Ranks, LeaveBarrier(r) PROVE UNCHANGED City!vars
    <3>1. pc'[Root] = pc[Root] \/ (pc[Root] = "barrier" /\ pc'[Root] = "move")
      BY <2>0, <2>10 DEF LeaveBarrier, Goto
    <3> QED  BY <2>10, <3>1, DueFrame DEF LeaveBarrier, kafkaVars
  <2>11. CASE UNCHANGED vars
    BY <2>11, DueFrame DEF vars
  <2> QED
    BY <2>1, <2>2, <2>3, <2>4, <2>5, <2>6, <2>7, <2>8, <2>9, <2>10, <2>11
       DEF Next, RootStep, RankStep
<1> QED
  BY <1>1, <1>2, Invariance, PTL DEF Spec, ImplementsCity, City!Spec

-----------------------------------------------------------------------------
(* The entities *)

LEMMA DivisionFacts ==
    ASSUME NEW a \in Int, NEW b \in Nat \ {0}
    PROVE  /\ a \div b \in Int /\ a % b \in 0 .. b - 1
           /\ a = b * (a \div b) + (a % b)
<1>1. a \div b \in Int /\ a % b \in 0 .. b - 1
  OBVIOUS
<1>2. a = b * (a \div b) + (a % b)
  OBVIOUS
<1> QED
  BY <1>1, <1>2

\* The ranks together simulate all the entities that were asked for, and fewer
\* than one more per rank (sim.c:171-172).
THEOREM PeopleShareOut ==
    ASSUME NEW n \in Nat, NEW w \in Nat \ {0}
    PROVE  n <= w * PerRank(n, w) /\ w * PerRank(n, w) <= n + w - 1
<1> DEFINE m == n + w - 1
<1>1. m \in Int
  OBVIOUS
<1>2. m \div w \in Int /\ m % w \in 0 .. w - 1 /\ m = w * (m \div w) + (m % w)
  BY <1>1, DivisionFacts
<1> DEFINE q    == m \div w
           rest == m % w
           p    == w * q
<1> HIDE DEF q, rest
<1>3. q \in Int /\ rest \in 0 .. w - 1 /\ m = p + rest
  BY <1>2 DEF q, rest
<1>4. p \in Int
  BY <1>3
<1> HIDE DEF p, m
<1>5. m - (w - 1) <= p /\ p <= m
  BY <1>1, <1>3, <1>4
<1> QED
  BY <1>5 DEF PerRank, p, q, m

LEMMA MultiplesAreFloats ==
    ASSUME NEW grid \in Nat \ {0}, NEW k \in Int
    PROVE  k * grid \in Floats(grid)
  BY Zenon DEF Floats

\* A sum is rounded to a float at most half a grid away.
LEMMA RoundedNear ==
    ASSUME NEW grid \in Nat \ {0}, NEW y \in Int
    PROVE  /\ Rounded(y, grid) \in Floats(grid) /\ Rounded(y, grid) \in Int
           /\ 2 * (Rounded(y, grid) - y) <= grid
           /\ 2 * (y - Rounded(y, grid)) <= grid
<1> DEFINE k == y \div grid
           rest == y % grid
           r == Rounded(y, grid)
<1>1. k \in Int /\ rest \in 0 .. grid - 1 /\ y = grid * k + rest
  BY DivisionFacts
<1> HIDE DEF k, rest
<1>2. PICK p \in Int : p = grid * k
  BY <1>1
<1>3. k * grid = p /\ (k + 1) * grid = p + grid
  BY <1>1, <1>2
<1>4. r = IF 2 * rest < grid \/ (2 * rest = grid /\ k % 2 = 0) THEN p ELSE p + grid
  BY <1>3 DEF Rounded, k, rest
<1>5. k * grid \in Floats(grid) /\ (k + 1) * grid \in Floats(grid)
  <2>1. k + 1 \in Int
    BY <1>1
  <2> QED BY <1>1, <2>1, MultiplesAreFloats
<1>6. r \in Floats(grid)
  <2> HIDE DEF r
  <2> QED BY <1>3, <1>4, <1>5
<1>7. r \in Int /\ 2 * (r - y) <= grid /\ 2 * (y - r) <= grid
  <2> HIDE DEF r
  <2> QED BY <1>1, <1>2, <1>4
<1> QED
  BY <1>6, <1>7

\* What a reflection at a bound gives is a float again.
LEMMA FloatsApart ==
    ASSUME NEW grid \in Nat \ {0}, NEW x \in Floats(grid), NEW y \in Floats(grid)
    PROVE  x \in Int /\ y \in Int /\ 2 * x - y \in Floats(grid) /\ (x < y => x + grid <= y)
<1>1. PICK i \in Int, j \in Int : x = i * grid /\ y = j * grid
  BY DEF Floats
<1>2. 2 * x - y = (2 * i - j) * grid /\ 2 * i - j \in Int
  BY <1>1
<1>3. x < y => i < j
  BY <1>1
<1>4. i < j => x + grid <= y
  <2> SUFFICES ASSUME i < j PROVE x + grid <= y
    OBVIOUS
  <2>1. PICK d \in Nat : j = i + 1 + d
    <3> WITNESS j - i - 1 \in Nat
    <3> QED OBVIOUS
  <2>2. y = x + grid + d * grid
    BY <1>1, <2>1
  <2>3. d * grid >= 0
    BY <2>1
  <2> QED
    BY <1>1, <2>2, <2>3
<1>5. 2 * x - y \in Floats(grid)
  BY <1>2, MultiplesAreFloats
<1>6. x \in Int /\ y \in Int
  BY <1>1
<1> QED
  BY <1>3, <1>4, <1>5, <1>6

\* Rounding carries no sum past a float that it has not reached.
LEMMA RoundedKeepsOrder ==
    ASSUME NEW grid \in Nat \ {0}, NEW y \in Int, NEW b \in Floats(grid)
    PROVE  /\ y >= b => Rounded(y, grid) >= b
           /\ y <= b => Rounded(y, grid) <= b
           /\ -grid < 2 * (y - b) /\ 2 * (y - b) < grid => Rounded(y, grid) = b
<1> DEFINE r == Rounded(y, grid)
<1>1. r \in Floats(grid) /\ r \in Int /\ 2 * (r - y) <= grid /\ 2 * (y - r) <= grid
  BY RoundedNear
<1> HIDE DEF r
<1>2. b \in Int /\ (r < b => r + grid <= b) /\ (b < r => b + grid <= r)
  BY <1>1, FloatsApart
<1> QED
  BY <1>1, <1>2 DEF r

\* One reflection per bound (sim.c:66-81) is enough for an entity whose step is
\* no longer than the region: it stays inside, as fast as it was.
THEOREM StaysInside ==
    ASSUME NEW grid \in Nat \ {0}, NEW x0 \in Floats(grid), NEW x1 \in Floats(grid),
           NEW e \in Entities(x0, x1, grid), x0 - x1 <= e.v, e.v <= x1 - x0
    PROVE  /\ EntityStep(e, x0, x1, grid) \in Entities(x0, x1, grid)
           /\ EntityStep(e, x0, x1, grid).v \in {e.v, -e.v}
<1> DEFINE y == Rounded(e.x + e.v, grid)
           z == IF y < x0 THEN 2 * x0 - y ELSE y
           f == EntityStep(e, x0, x1, grid)
<1>1. x0 \in Int /\ x1 \in Int /\ e.x \in Floats(grid) /\ e.x \in Int /\ e.v \in Int
      /\ x0 <= e.x /\ e.x <= x1
  BY FloatsApart DEF Entities, Inside
<1>2. 2 * x0 - x1 \in Floats(grid) /\ 2 * x1 - x0 \in Floats(grid)
  BY FloatsApart
<1>3. y \in Floats(grid) /\ y \in Int /\ 2 * x0 - x1 <= y /\ y <= 2 * x1 - x0
  <2>1. e.x + e.v \in Int /\ 2 * x0 - x1 <= e.x + e.v /\ e.x + e.v <= 2 * x1 - x0
    BY <1>1
  <2> QED
    BY <1>2, <2>1, RoundedNear, RoundedKeepsOrder
<1>4. f.x = (IF z >= x1 THEN 2 * x1 - z ELSE z) /\ f.v \in {e.v, -e.v}
      /\ f = [x |-> f.x, v |-> f.v]
  BY <1>1 DEF EntityStep, Moved, BelowTurned, AboveTurned, Entity
<1> HIDE DEF f, y
<1>5. z \in Floats(grid) /\ z \in Int /\ x0 <= z /\ z <= 2 * x1 - x0
  BY <1>1, <1>3, FloatsApart
<1> HIDE DEF z
<1>6. f.x \in Floats(grid) /\ x0 <= f.x /\ f.x <= x1
  <2>1. 2 * x1 - z \in Floats(grid)
    BY <1>5, FloatsApart
  <2> QED
    BY <1>1, <1>4, <1>5, <2>1
<1>7. f.v \in Int
  BY <1>1, <1>4
<1> QED
  BY <1>4, <1>6, <1>7 DEF Entities, Inside, f

\* An entity whose step is shorter than half the distance of two floats never
\* moves (sim.c:63): the 3 m/s of simulation.toml's people, divided by the
\* earth's radius, stand still at a latitude of 45.
THEOREM StandsStill ==
    ASSUME NEW grid \in Nat \ {0}, NEW x0 \in Floats(grid), NEW x1 \in Floats(grid),
           NEW e \in Entities(x0, x1, grid), -grid < 2 * e.v, 2 * e.v < grid
    PROVE  EntityStep(e, x0, x1, grid).x = e.x
<1>1. x0 \in Int /\ x1 \in Int /\ e.x \in Floats(grid) /\ e.x \in Int /\ e.v \in Int
      /\ x0 <= e.x /\ e.x <= x1
  BY FloatsApart DEF Entities, Inside
<1>2. e.x + e.v \in Int /\ -grid < 2 * ((e.x + e.v) - e.x) /\ 2 * ((e.x + e.v) - e.x) < grid
  BY <1>1
<1>3. Rounded(e.x + e.v, grid) = e.x
  BY <1>1, <1>2, RoundedKeepsOrder
<1> QED
  BY <1>1, <1>3 DEF EntityStep, Moved, BelowTurned, AboveTurned, Entity

\* With lat_0 above lat_1, which rand_range_f puts right for the place where an
\* entity begins, its first step takes it out of the region, and so do all that
\* follow (sim.c:66-81).
THEOREM SwappedBoundsKeepOut ==
    ASSUME NEW grid \in Nat \ {0}, NEW x0 \in Int, NEW x1 \in Int, x1 < x0,
           NEW x \in Int, NEW v \in Int
    PROVE  EntityStep(Entity(x, v), x0, x1, grid).x < x1
<1> DEFINE y == Rounded(x + v, grid)
<1>1. y \in Int
  BY RoundedNear
<1>2. EntityStep(Entity(x, v), x0, x1, grid).x =
        LET z == IF y < x0 THEN 2 * x0 - y ELSE y IN IF z >= x1 THEN 2 * x1 - z ELSE z
  BY DEF EntityStep, Moved, BelowTurned, AboveTurned, Entity
<1> HIDE DEF y
<1> QED
  BY <1>1, <1>2
=============================================================================
