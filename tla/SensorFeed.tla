----------------------------- MODULE SensorFeed -----------------------------
(***************************************************************************)
(* What the broker may rely on: a sensor hands over one message at a time, *)
(* each is the level of its six readings so far, and each arrives once and *)
(* unchanged or never.                                                     *)
(***************************************************************************)
EXTENDS RecentNoise

VARIABLES
    pending,  \* the message on its way, or Nothing
    received  \* the latest message the broker received, or Nothing

feedVars == <<recent, reported, pending, received>>

FeedInit == NoiseInit /\ pending = Nothing /\ received = Nothing

Offer(reading) ==
    /\ pending = Nothing
    /\ Report(reading)
    /\ pending' = reported'
    /\ UNCHANGED received

Deliver ==
    /\ pending # Nothing
    /\ received' = pending
    /\ pending'  = Nothing
    /\ UNCHANGED noiseVars

Lose ==
    /\ pending # Nothing
    /\ pending' = Nothing
    /\ UNCHANGED <<noiseVars, received>>

FeedNext == (\E reading \in Readings : Offer(reading)) \/ Deliver \/ Lose

FeedSpec == FeedInit /\ [][FeedNext]_feedVars
=============================================================================
