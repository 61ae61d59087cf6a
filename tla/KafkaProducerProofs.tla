------------------------ MODULE KafkaProducerProofs ------------------------
(***************************************************************************)
(* Proofs about the simulation's Kafka producer, for every limit of the    *)
(* queue and every lifetime of a message.                                  *)
(***************************************************************************)
EXTENDS KafkaProducer, FiniteSetTheorems, TLAPS

\* The age of what the producer holds is bounded: a message that is left when
\* a reading is offered is younger than its lifetime, so that after a poll all
\* that is held is of a lifetime's readings, those up to the one last queued;
\* a reading that is not queued adds nothing to them.
Young(r) == offered <= r + lifetime

Window(n) == (n - lifetime) .. n

HeldAreYoung ==
    /\ \A r \in queue : Young(r)
    /\ ~polling => \E n \in Nat : Outstanding \subseteq Window(n)
    /\ lifetime + 1 < QueueLimit => refused = {}

Inv == TypeOK /\ EachAccounted /\ HeldAreYoung

\* What is outstanding is finite; moving a message to the reports leaves it.
LEMMA OutstandingFinite ==
    ASSUME TypeOK
    PROVE  /\ IsFiniteSet(Outstanding) /\ Cardinality(Outstanding) \in Nat
           /\ lifetime \in Nat /\ QueueLimit \in Nat
<1>1. Outstanding \subseteq 1 .. offered /\ offered \in Nat
  BY DEF TypeOK, Outstanding, Readings
<1>2. IsFiniteSet(1 .. offered)
  BY <1>1, FS_Interval
<1>3. IsFiniteSet(Outstanding)
  BY <1>1, <1>2, FS_Subset
<1>4. lifetime \in Nat /\ QueueLimit \in Nat
  BY LifetimesAssumption, QueueLimitAssumption DEF TypeOK
<1> QED  BY <1>3, <1>4, FS_CardinalityType

\* Between two polls no more than lifetime + 1 messages are outstanding.
LEMMA RoomLeft ==
    ASSUME TypeOK, HeldAreYoung, ~polling, lifetime + 1 < QueueLimit
    PROVE  HasRoom
<1>1. offered \in Nat /\ lifetime \in Nat /\ QueueLimit \in Nat
  BY OutstandingFinite DEF TypeOK
<1>2. PICK n \in Nat : Outstanding \subseteq (n - lifetime) .. n
  BY DEF HeldAreYoung, Window
<1>3. /\ IsFiniteSet((n - lifetime) .. n)
      /\ Cardinality((n - lifetime) .. n) = lifetime + 1
  <2>1. n - lifetime \in Int /\ n \in Int /\ ~(n - lifetime > n)
    BY <1>1
  <2>2. n - (n - lifetime) + 1 = lifetime + 1
    BY <1>1
  <2> QED  BY <2>1, <2>2, FS_Interval
<1>4. Cardinality(Outstanding) <= lifetime + 1
  BY <1>2, <1>3, FS_Subset
<1> QED  BY <1>1, <1>4, OutstandingFinite DEF HasRoom

LEMMA InvInit == Init => Inv
<1> SUFFICES ASSUME Init PROVE Inv
  OBVIOUS
<1>1. Outstanding = {} /\ Cardinality(Outstanding) = 0
  BY FS_EmptySet DEF Init, Outstanding
<1>2. 0 \in Nat /\ 0 <= QueueLimit
  BY QueueLimitAssumption
<1>3. TypeOK
  BY <1>1, <1>2 DEF Init, TypeOK, Readings
<1>4. EachAccounted
  BY DEF Init, EachAccounted, Readings
<1>5. HeldAreYoung
  <2>1. Outstanding \subseteq Window(0)
    BY <1>1
  <2> QED  BY <2>1, <1>2 DEF Init, HeldAreYoung
<1> QED  BY <1>3, <1>4, <1>5 DEF Inv

\* A message that is confirmed or has expired is as outstanding as before.
LEMMA Answer ==
    ASSUME NEW r \in queue, queue' = queue \ {r}, reports' = reports \cup {r}
    PROVE  Outstanding' = Outstanding
  BY DEF Outstanding

\* What is left in the queue when a reading is offered is young for it, too.
LEMMA QueueStaysYoung ==
    ASSUME Inv, Produce
    PROVE  \A r \in queue : Young(r)'
<1>1. offered \in Nat /\ offered' = offered + 1 /\ lifetime' = lifetime
  BY DEF Inv, TypeOK, Produce
<1>2. \A r \in queue : r \in Nat /\ offered - r < lifetime
  BY <1>1 DEF Inv, TypeOK, Readings, Produce, InTime
<1> QED  BY <1>1, <1>2, OutstandingFinite DEF Inv, Young

LEMMA InvProduce == Inv /\ Produce => Inv'
<1> SUFFICES ASSUME Inv, Produce PROVE Inv'
  OBVIOUS
<1> USE DEF Inv
<1>1. offered \in Nat /\ offered' = offered + 1 /\ offered' \in Nat
  BY DEF Produce, TypeOK
<1>2. Readings' = Readings \cup {offered'} /\ offered' \notin Readings
  BY <1>1 DEF Readings
<1>3. CASE /\ HasRoom /\ queue' = queue \cup {offered'} /\ polling' = TRUE
          /\ UNCHANGED <<refused, errored>>
  <2>1. Outstanding' = Outstanding \cup {offered'}
    BY <1>3 DEF Produce, Outstanding
  <2>2. Cardinality(Outstanding') <= Cardinality(Outstanding) + 1
    <3>1. Cardinality(Outstanding') = IF offered' \in Outstanding THEN Cardinality(Outstanding)
                                                                 ELSE Cardinality(Outstanding) + 1
      BY <2>1, OutstandingFinite, FS_AddElement
    <3> QED  BY <3>1, OutstandingFinite
  <2>3. Cardinality(Outstanding') <= QueueLimit
    <3>1. Cardinality(Outstanding') \in Nat
      BY <2>1, OutstandingFinite, FS_AddElement, FS_CardinalityType
    <3> QED  BY <1>3, <2>2, <3>1, OutstandingFinite DEF HasRoom
  <2>4. TypeOK'
    BY <1>1, <1>2, <1>3, <2>3 DEF TypeOK, Produce
  <2>5. EachAccounted'
    BY <1>2, <1>3 DEF EachAccounted, TypeOK, Produce
  <2>6. HeldAreYoung'
    <3>1. \A r \in queue : Young(r)'
      BY QueueStaysYoung
    <3>2. Young(offered)'
      BY <1>1, OutstandingFinite DEF Produce, Young
    <3> QED  BY <1>3, <3>1, <3>2 DEF HeldAreYoung, Young, Produce
  <2> QED  BY <2>4, <2>5, <2>6
<1>4. CASE /\ ~HasRoom /\ refused' = refused \cup {offered'}
          /\ UNCHANGED <<queue, polling, errored>>
  <2>1. ~(lifetime + 1 < QueueLimit)
    BY <1>4, RoomLeft DEF Produce
  <2>2. Outstanding' = Outstanding
    BY <1>4 DEF Produce, Outstanding
  <2>3. TypeOK'
    BY <1>1, <1>2, <1>4, <2>2 DEF TypeOK, Produce
  <2>4. EachAccounted'
    BY <1>2, <1>4 DEF EachAccounted, TypeOK, Produce
  <2>5. HeldAreYoung'
    <3>1. \A r \in queue : Young(r)'
      BY <1>4, QueueStaysYoung
    <3>2. ~polling' => \E n \in Nat : Outstanding' \subseteq Window(n)'
      BY <1>4, <2>2 DEF HeldAreYoung, Window, Produce
    <3> QED  BY <1>4, <2>1, <3>1, <3>2 DEF HeldAreYoung, Produce
  <2> QED  BY <2>3, <2>4, <2>5
<1>5. CASE errored' = errored \cup {offered'} /\ UNCHANGED <<queue, polling, refused>>
  <2>1. Outstanding' = Outstanding
    BY <1>5 DEF Produce, Outstanding
  <2>2. TypeOK'
    BY <1>1, <1>2, <1>5, <2>1 DEF TypeOK, Produce
  <2>3. EachAccounted'
    BY <1>2, <1>5 DEF EachAccounted, TypeOK, Produce
  <2>4. HeldAreYoung'
    <3>1. \A r \in queue : Young(r)'
      BY <1>5, QueueStaysYoung
    <3>2. ~polling' => \E n \in Nat : Outstanding' \subseteq Window(n)'
      BY <1>5, <2>1 DEF HeldAreYoung, Window, Produce
    <3> QED  BY <1>5, <3>1, <3>2 DEF HeldAreYoung, Produce
  <2> QED  BY <2>2, <2>3, <2>4
<1> QED  BY <1>3, <1>4, <1>5 DEF Produce

LEMMA InvPoll == Inv /\ Poll => Inv'
<1> SUFFICES ASSUME Inv, Poll PROVE Inv'
  OBVIOUS
<1> USE DEF Inv, Poll
<1>1. Outstanding' \subseteq Outstanding
  BY DEF Outstanding
<1>2. Cardinality(Outstanding') <= QueueLimit
  <2>1. IsFiniteSet(Outstanding') /\ Cardinality(Outstanding') <= Cardinality(Outstanding)
    BY <1>1, OutstandingFinite, FS_Subset
  <2>2. Cardinality(Outstanding') \in Nat
    BY <2>1, FS_CardinalityType
  <2> QED  BY <2>1, <2>2, OutstandingFinite DEF TypeOK
<1>3. TypeOK'
  BY <1>2 DEF TypeOK, Readings
<1>4. EachAccounted'
  BY DEF EachAccounted, Readings
<1>5. HeldAreYoung'
  <2>1. offered \in Nat /\ lifetime \in Nat
    BY OutstandingFinite DEF TypeOK
  <2>2. \A r \in queue : r \in Nat /\ r <= offered /\ Young(r)
    BY <2>1 DEF TypeOK, Readings, HeldAreYoung
  <2>3. Outstanding' \subseteq Window(offered)'
    <3>1. Outstanding' = queue
      BY DEF Outstanding
    <3>2. \A r \in queue : r \in (offered - lifetime) .. offered
      BY <2>1, <2>2 DEF Young
    <3> QED  BY <3>1, <3>2 DEF Window
  <2> QED  BY <2>1, <2>2, <2>3 DEF HeldAreYoung, Young, Window
<1> QED  BY <1>3, <1>4, <1>5

LEMMA InvAnswer ==
    ASSUME NEW r \in queue
    PROVE  Inv /\ (Store(r) \/ Confirm(r) \/ Expire(r)) => Inv'
<1> SUFFICES ASSUME Inv, Store(r) \/ Confirm(r) \/ Expire(r) PROVE Inv'
  OBVIOUS
<1> USE DEF Inv, Store, Confirm, Expire
<1>1. Outstanding' = Outstanding
  BY Answer DEF Outstanding
<1>2. TypeOK'
  BY <1>1 DEF TypeOK, Readings
<1>3. EachAccounted'
  BY DEF EachAccounted, Readings
<1>4. HeldAreYoung'
  <2>1. \A k \in queue' : Young(k)'
    BY DEF HeldAreYoung, Young
  <2>2. ~polling' => \E n \in Nat : Outstanding' \subseteq Window(n)'
    BY <1>1 DEF HeldAreYoung, Window
  <2> QED  BY <2>1, <2>2 DEF HeldAreYoung
<1> QED  BY <1>2, <1>3, <1>4

LEMMA InvStep == Inv /\ [Next]_vars => Inv'
<1> SUFFICES ASSUME Inv, [Next]_vars PROVE Inv'
  OBVIOUS
<1>1. CASE UNCHANGED vars
  BY <1>1 DEF vars, queueVars, Inv, TypeOK, EachAccounted, HeldAreYoung, Young, Window,
                       Readings, Outstanding
<1> QED  BY <1>1, InvProduce, InvPoll, InvAnswer DEF Next

\* Every variable keeps its type and the queue its limit.
THEOREM TypeCorrect == Spec => []TypeOK
<1>1. Inv => TypeOK
  BY DEF Inv
<1> QED  BY <1>1, InvInit, InvStep, PTL DEF Spec

\* Every reading that kafka_send_reading was called with is accounted for.
THEOREM Accounted == Spec => []EachAccounted
<1>1. Inv => EachAccounted
  BY DEF Inv
<1> QED  BY <1>1, InvInit, InvStep, PTL DEF Spec

\* With room for one more than the messages of a message.timeout.ms no
\* reading is ever refused.
THEOREM RoomEnough == Spec => []NoneRefused
<1>1. Inv => NoneRefused
  BY DEF Inv, HeldAreYoung, NoneRefused
<1> QED  BY <1>1, InvInit, InvStep, PTL DEF Spec

LEMMA FullStays ==
    Inv /\ [Next]_vars /\ Cardinality(Outstanding) = QueueLimit /\ ~polling
        => Cardinality(Outstanding') = QueueLimit /\ polling' = FALSE
<1> SUFFICES ASSUME Inv, [Next]_vars, Cardinality(Outstanding) = QueueLimit, ~polling
             PROVE  Cardinality(Outstanding') = QueueLimit /\ polling' = FALSE
  OBVIOUS
<1>1. polling = FALSE /\ ~HasRoom
  BY OutstandingFinite DEF Inv, TypeOK, HasRoom
<1>2. Outstanding' = Outstanding /\ polling' = polling
  <2>1. CASE Produce
    BY <1>1, <2>1 DEF Produce, Outstanding
  <2>2. ASSUME NEW r \in queue, Store(r) \/ Confirm(r) \/ Expire(r)
        PROVE  Outstanding' = Outstanding /\ polling' = polling
    BY <2>2, Answer DEF Store, Confirm, Expire, Outstanding
  <2>3. CASE UNCHANGED vars
    BY <2>3 DEF vars, queueVars, Outstanding
  <2> QED  BY <1>1, <2>1, <2>2, <2>3 DEF Next, Poll
<1> QED  BY <1>1, <1>2

\* A full queue stays full: no report is ever served again.
THEOREM FullStaysFull == Spec => FullForGood
<1>1. Inv /\ [Next]_vars
        => [Cardinality(Outstanding) = QueueLimit /\ ~polling
             => Cardinality(Outstanding') = QueueLimit /\ polling' = FALSE]_vars
  BY FullStays
<1> QED  BY <1>1, InvInit, InvStep, PTL DEF Spec, FullForGood
=============================================================================
