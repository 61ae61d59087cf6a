---------------------------- MODULE QuietStreak ----------------------------
(***************************************************************************)
(* What the analytics promise for one point of interest: of the readings   *)
(* they have seen, the longest time from a loud one (or the first one) to  *)
(* a later one with only quiet ones after it, and an announcement only of  *)
(* a time that was the longest.                                            *)
(***************************************************************************)
EXTENDS Integers, Sequences

CONSTANTS
    Levels,  \* noise levels
    T        \* the loudest level that is good

VARIABLES
    history,  \* the readings seen, [ts, noise], in the order of their arrival
    longest,  \* the longest streak in them, in seconds
    announced \* the lengths announced so far

Reading == [ts : Nat, noise : Levels]

Secs(reading) == reading.ts \div 1000

\* A streak of h from i to j.
Quiet(h, i, j) ==
    /\ i = 1 \/ h[i].noise > T
    /\ \A k \in i + 1 .. j : h[k].noise <= T

\* The streaks in the first n readings of h.
Streaks(h, n) == {ij \in (1 .. n) \X (1 .. n) : ij[1] <= ij[2] /\ Quiet(h, ij[1], ij[2])}

Length(h, ij) == Secs(h[ij[2]]) - Secs(h[ij[1]])

Lengths(h, n) == {Length(h, ij) : ij \in Streaks(h, n)}

IsLongest(time, h, n) == time \in Lengths(h, n) /\ \A other \in Lengths(h, n) : other <= time

StreakInit == history = <<>> /\ longest = 0 /\ announced = {}

Observe ==
    /\ history' # <<>>
    /\ LET reading == history'[Len(history')]
       IN  reading \in Reading /\ history' = Append(history, reading)
    /\ IsLongest(longest', history', Len(history'))
    /\ UNCHANGED announced

Announce ==
    /\ \E n \in 1 .. Len(history) : \E time \in Lengths(history, n) :
         /\ time > 0
         /\ IsLongest(time, history, n)
         /\ announced' = announced \cup {time}
    /\ UNCHANGED <<history, longest>>

\* A restart: everything seen is forgotten.
Forget ==
    /\ history' = <<>>
    /\ longest' = 0
    /\ UNCHANGED announced

StreakNext == Observe \/ Announce \/ Forget

streakVars == <<history, longest, announced>>

QuietStreakSpec == StreakInit /\ [][StreakNext]_streakVars
=============================================================================
