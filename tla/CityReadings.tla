---------------------------- MODULE CityReadings ----------------------------
(***************************************************************************)
(* What the simulation promises to whoever reads the Kafka topic: step     *)
(* after step, and sensor after sensor, one reading is due.  It is the     *)
(* noise that all the ranks' entities make at the sensor, and it is        *)
(* published or dropped; it is never late, repeated or partial.            *)
(***************************************************************************)
EXTENDS Integers, Sequences

CONSTANTS
    Ranks,     \* the parts of the city whose noise every reading sums up
    NSensors,
    Place      \* Place[r][j]: where part r's noise for sensor j is measured

VARIABLES
    step,      \* the step and
    sensor,    \* the sensor of the next reading that is due
    published  \* the readings published so far

vars == <<step, sensor, published>>

Due == [id    |-> sensor,
        step  |-> step,
        noise |-> {[rank |-> r, at |-> Place[r][sensor], step |-> step] : r \in Ranks}]

Init == step = 1 /\ sensor = 0 /\ published = <<>>

Offer ==
    /\ \/ sensor + 1 < NSensors /\ sensor' = sensor + 1 /\ step' = step
       \/ sensor + 1 = NSensors /\ sensor' = 0 /\ step' = step + 1
    /\ published' \in {published, Append(published, Due)}

Spec == Init /\ [][Offer]_vars
=============================================================================
