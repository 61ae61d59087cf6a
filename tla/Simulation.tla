----------------------------- MODULE Simulation -----------------------------
(***************************************************************************)
(* The MPI city simulation, mpi/src/sim.c: main.                           *)
(*                                                                         *)
(* Every rank runs the same program over its own share of the moving       *)
(* entities.  Rank 0 reads the configuration and broadcasts it; then, step *)
(* after step, each rank moves its entities and, sensor after sensor,      *)
(* measures the noise they make there and joins an MPI_Reduce that leaves  *)
(* the sum at rank 0, which hands one reading per sensor to Kafka.  A      *)
(* barrier ends the step.                                                  *)
(*                                                                         *)
(* MPI matches collective calls by the order in which each rank makes      *)
(* them: a contribution carries no step and no sensor.  The addends below  *)
(* carry both, so that a sum can be asked what it is a sum of.             *)
(***************************************************************************)
EXTENDS Sequences, FiniteSets, SensorLayout

CONSTANTS
    WorldSize,  \* number of MPI ranks
    NSensors,   \* number of [[simulation.sensor]] tables in the configuration
    Eager,      \* Eager[r]: how many contributions of rank r MPI buffers
    MaxStep     \* bound on the steps of the (endless) simulation loop

ASSUME WorldSizeAssumption == WorldSize \in Nat \ {0}
ASSUME NSensorsAssumption  == NSensors \in Nat \ {0}
ASSUME EagerAssumption     == Eager \in [0 .. WorldSize - 1 -> Nat]
ASSUME MaxStepAssumption   == MaxStep \in Nat

Ranks   == 0 .. WorldSize - 1
Root    == 0
Sensors == 0 .. NSensors - 1
Steps   == 1 .. MaxStep

\* The MPI_Bcast calls of main: n_sensors, n_people, n_vehichles, bounds, v_p,
\* v_v, t_step and, last, the sensors.
NBcasts == 8

\* A sensor's position as a rank knows it: the configured one, named by the
\* sensor, or the zeros that calloc left.
Origin    == -1
Positions == Sensors \cup {Origin}

\* What one rank's entities contribute to a reading: measured by `rank', at
\* position `at', after the entities moved `step' times.
Addends  == [rank : Ranks, at : Positions, step : Nat]
Readings == [id : Sensors, step : Nat, noise : SUBSET Addends]

VARIABLES
    pc,        \* where each rank is in main
    bcast,     \* number of broadcasts each rank has taken part in
    at,        \* positions of the sensors as each rank knows them
    step,      \* how often each rank has moved its entities
    sensor,    \* each rank's loop variable j; NSensors when no loop runs
    noise_mw,  \* sensors[j].noise_mw of each rank: the addends of the sum
    channel,   \* contributions posted by a rank and not yet combined by root
    noise_sum, \* what root's MPI_Reduce has combined so far
    combined,  \* the ranks whose contribution is in noise_sum
    offered,   \* how many of the step's readings root has offered to Kafka
    produced,  \* the readings that Kafka's producer accepted
    arrived    \* number of MPI_Barrier calls each rank has made

vars == <<pc, bcast, at, step, sensor, noise_mw, channel, noise_sum, combined,
          offered, produced, arrived>>

setupVars  == <<bcast, at>>
reduceVars == <<noise_sum, combined, channel>>
kafkaVars  == <<offered, produced>>

Locations == {"config", "bcast", "move", "measure", "reduce", "publish",
              "barrier", "exit"}

Init ==
    /\ pc        = [r \in Ranks |-> IF r = Root THEN "config" ELSE "bcast"]
    /\ bcast     = [r \in Ranks |-> 0]
    /\ at        = [r \in Ranks |-> [j \in Sensors |-> Origin]]
    /\ step      = [r \in Ranks |-> 0]
    /\ sensor    = [r \in Ranks |-> NSensors]
    /\ noise_mw  = [r \in Ranks |-> [j \in Sensors |-> {}]]
    /\ channel   = [r \in Ranks |-> <<>>]
    /\ noise_sum = {}
    /\ combined  = {}
    /\ offered   = 0
    /\ produced  = <<>>
    /\ arrived   = [r \in Ranks |-> 0]

Goto(r, l) == pc' = [pc EXCEPT ![r] = l]

-----------------------------------------------------------------------------
(* Set-up *)

\* Rank 0 reads the configuration, fills in the sensors and builds the Kafka
\* producer.
LoadConfig ==
    /\ pc[Root] = "config"
    /\ Goto(Root, "bcast")
    /\ at' = [at EXCEPT ![Root] = [j \in Sensors |-> j]]
    /\ UNCHANGED <<bcast, step, sensor, noise_mw, reduceVars, kafkaVars, arrived>>

\* A missing argument, file, table or key, or a producer that cannot be built:
\* rank 0 calls exit before its first collective call.
ConfigFails ==
    /\ pc[Root] = "config"
    /\ Goto(Root, "exit")
    /\ UNCHANGED <<setupVars, step, sensor, noise_mw, reduceVars, kafkaVars, arrived>>

\* mpirun kills the ranks that are left when one exits before MPI_Finalize.
Killed(r) ==
    /\ pc[Root] = "exit" /\ pc[r] # "exit"
    /\ Goto(r, "exit")
    /\ UNCHANGED <<setupVars, step, sensor, noise_mw, reduceVars, kafkaVars, arrived>>

\* The positions that a rank knows after the last broadcast.
AfterBcast(r) ==
    [j \in Sensors |-> IF r = Root \/ Replicated(NSensors, j) THEN at[Root][j]
                                                              ELSE at[r][j]]

\* One MPI_Bcast.  Root need not wait for the others beyond what MPI buffers;
\* the others wait for root.  After the last one the rank spawns its entities.
Bcast(r) ==
    /\ pc[r] = "bcast"
    /\ IF r = Root THEN \A q \in Ranks : bcast[r] <= bcast[q] + Eager[q]
                   ELSE bcast[r] < bcast[Root]
    /\ bcast' = [bcast EXCEPT ![r] = @ + 1]
    /\ IF bcast'[r] = NBcasts
         THEN /\ at' = [at EXCEPT ![r] = AfterBcast(r)]
              /\ Goto(r, "move")
         ELSE UNCHANGED <<at, pc>>
    /\ UNCHANGED <<step, sensor, noise_mw, reduceVars, kafkaVars, arrived>>

-----------------------------------------------------------------------------
(* The simulation loop *)

\* entity_step on every entity of the rank; then the loop over the sensors.
MoveEntities(r) ==
    /\ pc[r] = "move" /\ step[r] < MaxStep
    /\ step'   = [step EXCEPT ![r] = @ + 1]
    /\ sensor' = [sensor EXCEPT ![r] = 0]
    /\ Goto(r, "measure")
    /\ UNCHANGED <<setupVars, noise_mw, reduceVars, kafkaVars, arrived>>

\* What the rank's entities add to sensor j: the sum over them of
\* sensor_add_source, one addend here.
Contribution(r, j) == [rank |-> r, at |-> at[r][j], step |-> step[r]]

MeasuredWithoutReset(r, j) == noise_mw[r][j] \cup {Contribution(r, j)} \* mutant

\* noise_mw is reset and the rank's own entities are added.
Measured(r, j) == {Contribution(r, j)}

\* The rank measures sensor j and calls MPI_Reduce: root starts from its own
\* contribution, the others post theirs.
Measure(r) ==
    LET j == sensor[r]
    IN  /\ pc[r] = "measure" /\ j < NSensors
        /\ noise_mw' = [noise_mw EXCEPT ![r][j] = Measured(r, j)]
        /\ IF r = Root
             THEN /\ noise_sum' = Measured(r, j)
                  /\ combined'  = {Root}
                  /\ UNCHANGED channel
             ELSE /\ channel' = [channel EXCEPT ![r] = Append(@, Measured(r, j))]
                  /\ UNCHANGED <<noise_sum, combined>>
        /\ Goto(r, "reduce")
        /\ UNCHANGED <<setupVars, step, sensor, kafkaVars, arrived>>

\* Root combines the oldest contribution of a rank not yet in this sum; the
\* order among the ranks is MPI's choice.
Combine(r) ==
    /\ pc[Root] = "reduce"
    /\ r \notin combined
    /\ channel[r] # <<>>
    /\ noise_sum' = noise_sum \cup Head(channel[r])
    /\ combined'  = combined \cup {r}
    /\ channel'   = [channel EXCEPT ![r] = Tail(@)]
    /\ UNCHANGED <<pc, setupVars, step, sensor, noise_mw, kafkaVars, arrived>>

NextSensor(r) ==
    /\ sensor' = [sensor EXCEPT ![r] = @ + 1]
    /\ Goto(r, "measure")

\* MPI_Reduce returns at a rank other than root as soon as what the rank has
\* posted fits into MPI's buffers.
ReduceReturns(r) ==
    /\ r # Root /\ pc[r] = "reduce"
    /\ Len(channel[r]) <= Eager[r]
    /\ NextSensor(r)
    /\ UNCHANGED <<setupVars, step, noise_mw, reduceVars, kafkaVars, arrived>>

SomeCombined == combined # {} \* mutant
AllCombined  == combined = Ranks

\* MPI_Reduce returns at root once it holds everybody's contribution, and root
\* replaces its own by the sum.
ReduceCompletes ==
    /\ pc[Root] = "reduce" /\ AllCombined
    /\ noise_mw' = [noise_mw EXCEPT ![Root][sensor[Root]] = noise_sum]
    /\ NextSensor(Root)
    /\ UNCHANGED <<setupVars, step, reduceVars, kafkaVars, arrived>>

OfferedKept(r)  == offered \* mutant
OfferedReset(r) == IF r = Root THEN 0 ELSE offered

\* The loop over the sensors ends; what follows publishes at root only.
LoopEnds(r) ==
    /\ pc[r] = "measure" /\ sensor[r] = NSensors
    /\ Goto(r, "publish")
    /\ offered' = OfferedReset(r)
    /\ UNCHANGED <<setupVars, step, sensor, noise_mw, reduceVars, produced, arrived>>

ReadingCountingDown(j) ==  \* mutant
    LET k == NSensors - 1 - j
    IN  [id |-> k, step |-> step[Root], noise |-> noise_mw[Root][k]]

\* sensor_get_reading: the reading carries the sensor's noise_mw as it is now.
Reading(j) == [id |-> j, step |-> step[Root], noise |-> noise_mw[Root][j]]

\* Root offers the next sensor's reading.  kafka_send_reading may fail to
\* enqueue it; main ignores the result and goes on.
Publish ==
    /\ pc[Root] = "publish" /\ offered < NSensors
    /\ offered' = offered + 1
    /\ \/ produced' = Append(produced, Reading(offered))
       \/ UNCHANGED produced
    /\ UNCHANGED <<pc, setupVars, step, sensor, noise_mw, reduceVars, arrived>>

ArriveTwice(r) == arrived' = [arrived EXCEPT ![r] = @ + 2] \* mutant
Arrive(r)      == arrived' = [arrived EXCEPT ![r] = @ + 1]

\* The rank sleeps, which is no more than a delay, and calls MPI_Barrier.
EnterBarrier(r) ==
    /\ pc[r] = "publish" /\ (r = Root => offered = NSensors)
    /\ Goto(r, "barrier")
    /\ Arrive(r)
    /\ UNCHANGED <<setupVars, step, sensor, noise_mw, reduceVars, kafkaVars>>

SomebodyElseArrived(r) == \E q \in Ranks : arrived[q] >= arrived[r] \* mutant
EverybodyArrived(r)    == \A q \in Ranks : arrived[q] >= arrived[r]

\* Nobody leaves the barrier before everybody has called it.
LeaveBarrier(r) ==
    /\ pc[r] = "barrier"
    /\ EverybodyArrived(r)
    /\ Goto(r, "move")
    /\ UNCHANGED <<setupVars, step, sensor, noise_mw, reduceVars, kafkaVars, arrived>>

-----------------------------------------------------------------------------
\* The bound on the endless loop is reached, or the job was killed.
Stopped ==
    \/ \A r \in Ranks : pc[r] = "move" /\ step[r] = MaxStep
    \/ \A r \in Ranks : pc[r] = "exit"

RankStep(r) ==
    \/ Bcast(r)         \/ MoveEntities(r)  \/ Measure(r)
    \/ ReduceReturns(r) \/ LoopEnds(r)      \/ EnterBarrier(r)
    \/ LeaveBarrier(r)  \/ Killed(r)

RootStep == LoadConfig \/ ConfigFails \/ ReduceCompletes \/ Publish

Next ==
    \/ RootStep
    \/ \E r \in Ranks : RankStep(r) \/ Combine(r)
    \/ Stopped /\ UNCHANGED vars

\* Every rank is a process that the operating system schedules, and MPI
\* delivers what was posted.
Fairness ==
    /\ WF_vars(RootStep)
    /\ \A r \in Ranks : WF_vars(RankStep(r)) /\ WF_vars(Combine(r))

Spec == Init /\ [][Next]_vars /\ Fairness

-----------------------------------------------------------------------------
(* Properties *)

TypeOK ==
    /\ pc        \in [Ranks -> Locations]
    /\ bcast     \in [Ranks -> 0 .. NBcasts]
    /\ at        \in [Ranks -> [Sensors -> Positions]]
    /\ step      \in [Ranks -> 0 .. MaxStep]
    /\ sensor    \in [Ranks -> 0 .. NSensors]
    /\ noise_mw  \in [Ranks -> [Sensors -> SUBSET Addends]]
    /\ channel   \in [Ranks -> Seq(SUBSET Addends)]
    /\ noise_sum \in SUBSET Addends
    /\ combined  \in SUBSET Ranks
    /\ offered   \in 0 .. NSensors
    /\ produced  \in Seq(Readings)
    /\ arrived   \in [Ranks -> 0 .. MaxStep]

\* The position that rank r measures sensor j at once the set-up is over.
MeasuredAt(r, j) == IF r = Root \/ Replicated(NSensors, j) THEN j ELSE Origin

\* One addend of every rank, of the same sensor and the same step.
Total(j, t) == {[rank |-> r, at |-> MeasuredAt(r, j), step |-> t] : r \in Ranks}

\* A published reading is the sum of exactly one contribution of every rank,
\* all of the reading's own sensor and step, although MPI_Reduce
\* (sim.c:252-260) matches contributions only by their order, ranks run ahead
\* of root into the next sensors, and noise_mw is reused from step to step.
ReadingsAreTotals ==
    \A i \in 1 .. Len(produced) :
        produced[i].noise = Total(produced[i].id, produced[i].step)

\* The MPI_Barrier at the end of the loop (sim.c:275) keeps the ranks within
\* one step of each other, and what MPI holds for a rank is never more than
\* one step's contributions, all of the rank's current step.
RanksInStep ==
    \A r \in Ranks :
        /\ \A q \in Ranks : step[r] <= step[q] + 1
        /\ Len(channel[r]) <= NSensors
        /\ \A i \in 1 .. Len(channel[r]) :
               \A a \in channel[r][i] : a.step = step[r]

\* Readings leave in the order of the steps, and within a step in the order of
\* the sensors (sim.c:267-271); a reading that Kafka refused is skipped, never
\* sent later.
InOrder(a, b) == a.step < b.step \/ (a.step = b.step /\ a.id < b.id)
ProducedInOrder ==
    \A i, k \in 1 .. Len(produced) : i < k => InOrder(produced[i], produced[k])

\* What sim.c:125-126 says: each node has the list of the simulated sensors
\* and measures its entities' contribution on all of them.
EveryNodeMeasuresEverySensor ==
    \A i \in 1 .. Len(produced) :
        \A a \in produced[i].noise : a.at = produced[i].id

\* Once the configuration is read, no collective call waits forever and no
\* loop is skipped: every sensor's turn comes in every step (sim.c:240-276).
EveryReadingOffered ==
    \A t \in Steps, j \in Sensors :
        pc[Root] = "bcast" ~> /\ pc[Root] = "publish"
                              /\ step[Root] = t /\ offered = j

\* The simulation implements CityReadings.  The next reading due is the one
\* root will offer next: in its current step as long as one is left there.
StepDue ==
    IF pc[Root] \in {"measure", "reduce"} \/ (pc[Root] = "publish" /\ offered < NSensors)
      THEN step[Root] ELSE step[Root] + 1
SensorDue ==
    IF pc[Root] = "publish" /\ offered < NSensors THEN offered ELSE 0

City == INSTANCE CityReadings
    WITH Place     <- [r \in Ranks |-> [j \in Sensors |-> MeasuredAt(r, j)]],
         step      <- StepDue,
         sensor    <- SensorDue,
         published <- produced

ImplementsCity == City!Spec
=============================================================================
