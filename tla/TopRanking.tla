----------------------------- MODULE TopRanking -----------------------------
(***************************************************************************)
(* The noisiest points of interest of a window: DataAnalytics.java's       *)
(* mergeTop and MergeList.java.                                            *)
(*                                                                         *)
(* Every reading becomes a list of one entry.  Spark's reduceByWindow then *)
(* merges lists two at a time, within partitions and batches and across    *)
(* them, in whatever order they become ready, until one is left.           *)
(***************************************************************************)
EXTENDS Integers, Sequences, FiniteSets

CONSTANTS
    Ids,    \* points of interest
    Levels, \* noise levels
    Top,    \* how many are ranked, 10 in the code
    Window  \* how many readings there are in a window

ASSUME TopAssumption == Top \in Nat \ {0} /\ Window \in Nat

ASSUME LevelsAssumption == Levels \subseteq Int

Entry == [id : Ids, noise : Levels]

VARIABLES
    readings, \* the readings of the window
    lists     \* the lists not merged yet, each with the readings it was made of

vars == <<readings, lists>>

Init ==
    /\ readings \in [1 .. Window -> Entry]
    /\ lists = {[of |-> {i}, list |-> <<readings[i]>>] : i \in 1 .. Window}

TryAdd(list, entry) ==
    IF \E i \in 1 .. Len(list) : list[i].id = entry.id THEN list ELSE Append(list, entry)

TakeSecondOnly(list1, list2, i1, i2) == i2 = Len(list2) \* mutant
TakeFirst(list1, list2, i1, i2) ==
    \/ i2 = Len(list2)
    \/ i1 < Len(list1) /\ list1[i1 + 1].noise > list2[i2 + 1].noise

\* One pass of a loop of mergeTop: i1 and i2 entries have been tried.
Pass(list1, list2, at) ==
    IF Len(at.list) = Top \/ (at.i1 = Len(list1) /\ at.i2 = Len(list2)) THEN at
    ELSE IF TakeFirst(list1, list2, at.i1, at.i2)
         THEN [at EXCEPT !.i1 = @ + 1, !.list = TryAdd(@, list1[at.i1 + 1])]
         ELSE [at EXCEPT !.i2 = @ + 1, !.list = TryAdd(@, list2[at.i2 + 1])]

Passes(list1, list2) ==
    LET after[n \in Nat] == IF n = 0 THEN [i1 |-> 0, i2 |-> 0, list |-> <<>>]
                                     ELSE Pass(list1, list2, after[n - 1])
    IN  after

MergeTop(list1, list2) == Passes(list1, list2)[Len(list1) + Len(list2)].list

Merge(a, b) ==
    /\ a # b
    /\ lists' = (lists \ {a, b}) \cup {[of |-> a.of \cup b.of, list |-> MergeTop(a.list, b.list)]}
    /\ UNCHANGED readings

Next == \E a, b \in lists : Merge(a, b)

Spec == Init /\ [][Next]_vars

-----------------------------------------------------------------------------
(* Properties *)

\* The level of a point of interest is its highest one.
Level(id, of) == CHOOSE level \in {readings[i].noise : i \in {j \in of : readings[j].id = id}} :
                    \A j \in of : readings[j].id = id => readings[j].noise <= level

IdsOf(of) == {readings[i].id : i \in of}

IsRanking(list, of) ==
    LET ranked == {list[i].id : i \in 1 .. Len(list)} IN
    /\ Len(list) = Cardinality(ranked)
    /\ ranked \subseteq IdsOf(of)
    /\ Len(list) = Top \/ ranked = IdsOf(of)
    /\ \A i \in 1 .. Len(list) : list[i].noise = Level(list[i].id, of)
    /\ \A i, j \in 1 .. Len(list) : i < j => list[i].noise >= list[j].noise
    /\ \A i \in 1 .. Len(list), id \in IdsOf(of) \ ranked : list[i].noise >= Level(id, of)

\* Whatever the order of merging, a list ranks the points of interest of its
\* readings, each once and at its highest level: cutting a list off at Top
\* entries (DataAnalytics.java:177) loses none that a later merge would need.
ListsAreRankings == \A l \in lists : IsRanking(l.list, l.of)

=============================================================================
