---------------------------- MODULE EntityMotion ----------------------------
(***************************************************************************)
(* How the simulation's people and vehicles share out over the ranks,      *)
(* where they begin and how they move: main and entity_step of sim.c,      *)
(* rand_range_f of utils.c.                                                *)
(*                                                                         *)
(* One coordinate, counted in a unit so small that a velocity is a whole   *)
(* number.  A position is a float: all of them that lie between two powers *)
(* of two, as a region does, are multiples of one distance, grid.  Sums    *)
(* are rounded to it; twice a bound less a position needs no rounding.     *)
(***************************************************************************)
EXTENDS Integers

\* n_people and n_vehichles of each of w ranks.
PerRank(n, w) == (n + w - 1) \div w

\* What a coordinate can be.
Floats(grid) == {k * grid : k \in Int}

\* rand_range_f: both ends can come up, in either order.
RandRange(start, end, grid) ==
    {x \in Floats(grid) : IF end < start THEN end <= x /\ x <= start ELSE start <= x /\ x <= end}

Entity(x, v) == [x |-> x, v |-> v]

\* The float nearest to y; between two, the even one.
Rounded(y, grid) ==
    LET k    == y \div grid
        rest == y % grid
    IN  IF 2 * rest < grid \/ (2 * rest = grid /\ k % 2 = 0) THEN k * grid ELSE (k + 1) * grid

Moved(e, grid)     == Entity(Rounded(e.x + e.v, grid), e.v)
BelowTurned(e, x0) == IF e.x < x0 THEN Entity(2 * x0 - e.x, -e.v) ELSE e
AboveTurned(e, x1) == IF e.x >= x1 THEN Entity(2 * x1 - e.x, -e.v) ELSE e

\* entity_step: x0 and x1 are the bounds, v the way of one time step.
EntityStep(e, x0, x1, grid) == AboveTurned(BelowTurned(Moved(e, grid), x0), x1)

Inside(e, x0, x1) == x0 <= e.x /\ e.x <= x1

\* Where an entity may be whose bounds are x0 and x1.
Entities(x0, x1, grid) == {e \in [x : Floats(grid), v : Int] : Inside(e, x0, x1)}
=============================================================================
