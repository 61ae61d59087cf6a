---------------------------- MODULE RecentNoise ----------------------------
(***************************************************************************)
(* What a sensor reports: the mean of its last six readings while they are *)
(* quiet, and the last reading itself as soon as their mean is loud.       *)
(*                                                                         *)
(* Levels are counted in sixths of a decibel, so that a mean is a sum.     *)
(***************************************************************************)
EXTENDS Integers

CONSTANTS
    Readings, \* the levels that can be read, in decibels
    Nothing   \* what is reported before the first reading

VARIABLES
    recent,   \* the last six readings, the latest first
    reported  \* the level reported for them

noiseVars == <<recent, reported>>

K      == 80
WINDOW == 6

Sum(s) == s[1] + s[2] + s[3] + s[4] + s[5] + s[6]

Level(s) == IF Sum(s) > K * WINDOW THEN s[1] * WINDOW ELSE Sum(s)

\* A sensor that has not read six levels yet counts the others as silence.
Silence == [k \in 1 .. WINDOW |-> 0]

NoiseInit == recent = Silence /\ reported = Nothing

Report(reading) ==
    /\ recent'   = [k \in 1 .. WINDOW |-> IF k = 1 THEN reading ELSE recent[k - 1]]
    /\ reported' = Level(recent')

NoiseSpec == NoiseInit /\ [][\E reading \in Readings : Report(reading)]_noiseVars
=============================================================================
