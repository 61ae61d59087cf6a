----------------------------- MODULE MCEdgeFlow -----------------------------
EXTENDS EdgeFlow

TwoPois == <<[id |-> "p", lat |-> 45, lon |-> 9], [id |-> "q", lat |-> 47, lon |-> 9]>>

Complete == [noise |-> 60, lat |-> 45, lon |-> 9, reliability |-> 10]

\* A complete reading, the least that is accepted, one without noise, and one
\* that is refused.
Sensors ==
    {Complete,
     [noise |-> 60, lat |-> Undefined, lon |-> Undefined, reliability |-> Undefined],
     [Complete EXCEPT !.noise = Undefined],
     [Complete EXCEPT !.noise = 201]}
=============================================================================
