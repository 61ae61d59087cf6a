---------------------------- MODULE NoiseWindow ----------------------------
(***************************************************************************)
(* iot/contiki/mqtt-demo/noise.c: get_noise_average keeps the readings in  *)
(* a ring of six slots and their sum in a variable of its own.             *)
(*                                                                         *)
(* Readings are whole decibels, a float in the code: the rounding that the *)
(* running sum accumulates is not modelled.  Averages are counted in       *)
(* sixths of a decibel, so that dividing by WINDOW leaves integers.        *)
(***************************************************************************)
EXTENDS Integers

CONSTANTS
    Readings, \* what get_noise_reading returns
    Nothing   \* the empty message buffer

ASSUME ReadingsAssumption == Readings \subseteq Int
ASSUME NothingAssumption  == Nothing \notin Int

K      == 80
WINDOW == 6
Slots  == 0 .. WINDOW - 1

VARIABLES
    readings_window, \* the ring
    cur_reading,     \* the slot of the oldest reading
    cur_reading_sum, \* the sum over the ring
    app_buffer       \* the message that the latest average was written into

windowVars == <<readings_window, cur_reading, cur_reading_sum, app_buffer>>

WindowInit ==
    /\ readings_window = [i \in Slots |-> 0]
    /\ cur_reading     = 0
    /\ cur_reading_sum = 0
    /\ app_buffer      = Nothing

SumWithoutOldest(reading) == cur_reading_sum + reading \* mutant
SumWith(reading) == cur_reading_sum - readings_window[cur_reading] + reading

\* Quiet readings are averaged, a loud one is reported as it is.
Average(reading, sum) == IF sum > K * WINDOW THEN reading * WINDOW ELSE sum

NextSlotTooFar == (cur_reading + 1) % (WINDOW - 1) \* mutant
NextSlot == (cur_reading + 1) % WINDOW

\* get_noise_average, and its result written into the message.
AverageNoise(reading) ==
    /\ cur_reading_sum' = SumWith(reading)
    /\ readings_window' = [readings_window EXCEPT ![cur_reading] = reading]
    /\ cur_reading'     = NextSlot
    /\ app_buffer'      = Average(reading, SumWith(reading))

WindowSpec == WindowInit /\ [][\E reading \in Readings : AverageNoise(reading)]_windowVars

-----------------------------------------------------------------------------
(* Properties *)

\* The running sum of noise.c:19-31 is the sum over the ring: what is taken
\* out of it when a slot is reused is what was put in for that slot.
SumIsCurrent ==
    cur_reading_sum = readings_window[0] + readings_window[1] + readings_window[2]
                    + readings_window[3] + readings_window[4] + readings_window[5]

\* The ring, latest reading first.
Recent == [k \in 1 .. WINDOW |-> readings_window[(cur_reading + WINDOW - k) % WINDOW]]

Noise == INSTANCE RecentNoise WITH recent <- Recent, reported <- app_buffer

\* The ring and the running sum of noise.c:19-31 amount to the mean of the
\* last six readings: no reading is counted twice, kept too long or dropped
\* early, wherever in the ring the latest one lies.
ImplementsRecentNoise == Noise!NoiseSpec
=============================================================================
