---------------------------- MODULE MCSimulation ----------------------------
(***************************************************************************)
(* The simulation for TLC.  MPI buffers nothing for the odd ranks, so that *)
(* every MPI_Reduce of theirs waits for root, and two contributions for    *)
(* the even ones, which run ahead.                                         *)
(***************************************************************************)
EXTENDS Simulation, EntityMotion

MCEager == [r \in 0 .. WorldSize - 1 |-> IF r % 2 = 1 THEN 0 ELSE 2]

MCRegion == {0, 4, 8, 12}
MCWays   == -12 .. 12

\* EntityMotion's theorems, on small regions.
ASSUME MCStaysInside ==
    \A x0, x1, x \in MCRegion, v \in MCWays :
        x0 <= x /\ x <= x1 /\ x0 - x1 <= v /\ v <= x1 - x0 =>
            Inside(EntityStep(Entity(x, v), x0, x1, 4), x0, x1)
ASSUME MCStandsStill ==
    \A x0, x1, x \in MCRegion, v \in -1 .. 1 :
        x0 <= x /\ x <= x1 => EntityStep(Entity(x, v), x0, x1, 4).x = x
ASSUME MCPeopleShareOut ==
    \A n \in 0 .. 20, w \in 1 .. 7 : w * PerRank(n, w) \in n .. n + w - 1
=============================================================================
