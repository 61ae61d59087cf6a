-------------------------- MODULE WebServerProofs --------------------------
(***************************************************************************)
(* Proofs about the web server, for any numbers of connections, slots and  *)
(* rows: its types, who has which slot and when that fails, and the page   *)
(* that arrives.                                                           *)
(***************************************************************************)
EXTENDS WebServer, SequenceTheorems, TLAPS

\* The parts that there are.
Known == {Begin, EndOf(1), EndOf(2)} \cup Constants \cup ({1, 2} \X Nat)

PoolType ==
    /\ phase \in [Conns -> {"none", "idle", "busy", "fin_wait", "ended"}]
    /\ state \in [Conns -> Slots \cup {NoSlot}]
    /\ \A c \in Conns : phase[c] = "none" <=> state[c] = NoSlot
    /\ used \subseteq Slots

InputType ==
    request \in [Slots -> {"method", "path", "headers"}] /\ expired \in [Slots -> BOOLEAN]

PartType ==
    script \in [Slots -> BOOLEAN] /\ at \in [Slots -> Known] /\ sendlen \in [Slots -> Nat]

SlotType == InputType /\ PartType

SendType ==
    /\ alone \in [Conns -> BOOLEAN]
    /\ segment \in [Conns -> Seq(Parts)] /\ page \in [Conns -> Seq(Parts)]

BufType ==
    /\ buf \in Seq(Parts) /\ blen \in Nat /\ blen <= Len(buf)
    /\ \A s \in Slots : sendlen[s] <= Len(buf)

CursorType ==
    /\ tables \in Tables
    /\ cursor \in [{1, 2} -> Nat] /\ \A l \in {1, 2} : cursor[l] <= tables.rows[l] + 1

CountType ==
    /\ up \in BOOLEAN
    /\ connects \in 0 .. MaxConnects /\ chunks \in 0 .. MaxChunks /\ changes \in 0 .. MaxChanges

Types == PoolType /\ SlotType /\ SendType /\ BufType /\ CursorType /\ CountType

-----------------------------------------------------------------------------
(* The parts of the page *)

LEMMA RowNumbers ==
    ASSUME NEW t \in Tables
    PROVE  t.rows[1] \in Nat /\ t.rows[2] \in Nat /\ \A l \in {1, 2} : t.rows[l] \in Nat
<1>1. t \in [rows : [{1, 2} -> Nat], linked : BOOLEAN]
  BY TablesAssumption
<1>2. t.rows \in [{1, 2} -> Nat]
  BY <1>1
<1> QED  BY <1>2

LEMMA ConstantParts ==
    /\ Status \in Constants /\ Type \in Constants /\ TOP \in Constants /\ BOTTOM \in Constants
    /\ \A part \in Constants : part \in Parts /\ ~InList(part)
    /\ Status # Type /\ Status # TOP /\ Status # BOTTOM
    /\ Type # TOP /\ Type # BOTTOM /\ TOP # BOTTOM
    /\ Begin \notin Constants
<1>1. 0 \in 0 .. 5 /\ 5 \in 0 .. 5 /\ 0 \in Nat /\ 1 \in Nat /\ 2 \in Nat /\ 3 \in Nat
  OBVIOUS
<1>2. \A part \in Constants : part \in Parts
  BY <1>1 DEF Constants, Parts, Status, Type, TOP, BOTTOM
<1> QED  BY <1>2 DEF Constants, InList, Begin, Status, Type, TOP, BOTTOM

LEMMA ListPart ==
    ASSUME NEW l \in {1, 2}, NEW p \in Nat
    PROVE  /\ <<l, p>> \in Parts /\ <<l, p>> \in Known /\ <<l, p>> \notin Constants
           /\ InList(<<l, p>>) /\ <<l, p>> # EndOf(1) /\ <<l, p>> # EndOf(2)
<1>1. l \in 0 .. 5
  OBVIOUS
<1>2. <<l, p>> \in Parts
  BY <1>1 DEF Parts
<1>3. <<l, p>> \notin Constants
  BY DEF Constants, Status, Type, TOP, BOTTOM
<1>4. <<l, p>> # EndOf(1) /\ <<l, p>> # EndOf(2)
  BY DEF EndOf
<1> QED  BY <1>2, <1>3, <1>4 DEF Known, InList

LEMMA EndParts ==
    ASSUME NEW l \in {1, 2}
    PROVE  /\ EndOf(l) \in Parts /\ EndOf(l) \in Known /\ EndOf(l) \notin Constants
           /\ ~InList(EndOf(l)) /\ EndOf(1) # EndOf(2)
<1>1. l + 2 \in 0 .. 5 /\ 0 \in Nat
  OBVIOUS
<1>2. EndOf(l) \in Parts
  BY <1>1 DEF Parts, EndOf
<1>3. EndOf(l) \notin Constants
  BY DEF Constants, Status, Type, TOP, BOTTOM, EndOf
<1>4. ~InList(EndOf(l)) /\ EndOf(1) # EndOf(2)
  BY DEF InList, EndOf
<1>5. EndOf(l) \in Known
  BY DEF Known
<1> QED  BY <1>2, <1>3, <1>4, <1>5

LEMMA PartForms ==
    ASSUME NEW part \in Known
    PROVE  /\ part \in Parts
           /\ \/ part = Begin \/ part \in Constants \/ part = EndOf(1) \/ part = EndOf(2)
              \/ \E l \in {1, 2}, p \in Nat : part = <<l, p>>
<1>1. Begin \in Parts
  BY DEF Begin, Parts
<1> QED  BY <1>1, ConstantParts, ListPart, EndParts DEF Known

\* The iterators stay within their lists.
LEMMA CursorStays ==
    ASSUME CursorType, NEW l \in {1, 2}, NEW p \in Nat
    PROVE  Cursor(<<l, p>>) \in Nat /\ Cursor(<<l, p>>) <= tables.rows[l] + 1
<1>1. tables.rows[l] \in Nat
  BY RowNumbers DEF CursorType
<1>2. cursor[l] \in Nat /\ cursor[l] <= tables.rows[l] + 1
  BY DEF CursorType
<1>3. Cursor(<<l, p>>) = IF p = 0 THEN 1 ELSE RowAfter(l, cursor[l])
  BY DEF Cursor, FirstRow
<1> QED  BY <1>1, <1>2, <1>3 DEF RowAfter

LEMMA AfterConstant ==
    /\ NextPart(Status) = Type /\ NextPart(Type) = TOP /\ NextPart(TOP) = HeadOf(1)
    /\ HeadOf(1) \in Known /\ HeadOf(2) \in Known
    /\ HeadOf(1) \notin Constants /\ HeadOf(2) \notin Constants
<1>1. ~InList(Status) /\ ~InList(Type) /\ ~InList(TOP)
  BY ConstantParts
<1> EndOf(1) \notin Constants /\ EndOf(2) \notin Constants
  BY EndParts
<1>2. NextPart(Status) = Type
  BY <1>1, ConstantParts DEF NextPart
<1>3. NextPart(Type) = TOP
  BY <1>1, ConstantParts DEF NextPart
<1>4. NextPart(TOP) = HeadOf(1)
  BY <1>1, ConstantParts DEF NextPart
<1>5. /\ HeadOf(1) \in Known /\ HeadOf(2) \in Known
      /\ HeadOf(1) \notin Constants /\ HeadOf(2) \notin Constants
  BY ListPart DEF HeadOf
<1> QED  BY <1>2, <1>3, <1>4, <1>5

LEMMA AfterList ==
    /\ NextPart(EndOf(1)) = IF tables.linked THEN HeadOf(2) ELSE BOTTOM
    /\ NextPart(EndOf(2)) = BOTTOM
<1>1. ~InList(EndOf(1)) /\ ~InList(EndOf(2)) /\ EndOf(1) # EndOf(2)
  BY EndParts
<1>2. EndOf(1) \notin Constants /\ EndOf(2) \notin Constants
  BY EndParts
<1>3. NextPart(EndOf(1)) = IF tables.linked THEN HeadOf(2) ELSE BOTTOM
  BY <1>1, <1>2 DEF NextPart, Constants
<1>4. NextPart(EndOf(2)) = BOTTOM
  BY <1>1, <1>2 DEF NextPart, Constants
<1> QED  BY <1>3, <1>4

LEMMA InsideList ==
    ASSUME NEW l \in {1, 2}, NEW p \in Nat
    PROVE  NextPart(<<l, p>>) = RowOrEnd(l, Cursor(<<l, p>>))
<1>1. InList(<<l, p>>)
  BY ListPart
<1> QED  BY <1>1 DEF NextPart

LEMMA NextPartTypes ==
    ASSUME CursorType, NEW part \in Known, part # BOTTOM, part # Begin
    PROVE  NextPart(part) \in Known
<1>1. CASE part \in Constants
  BY <1>1, AfterConstant, ConstantParts DEF Constants, Known
<1>2. CASE part = EndOf(1) \/ part = EndOf(2)
  BY <1>2, AfterList, AfterConstant, ConstantParts DEF Known
<1>3. ASSUME NEW l \in {1, 2}, NEW p \in Nat, part = <<l, p>>
      PROVE  NextPart(part) \in Known
  <2>1. NextPart(part) = RowOrEnd(l, Cursor(<<l, p>>))
    BY <1>3, InsideList
  <2>2. Cursor(<<l, p>>) \in Nat
    BY CursorStays
  <2> QED  BY <2>1, <2>2, ListPart, EndParts DEF RowOrEnd, RowOf
<1> QED  BY <1>1, <1>2, <1>3, PartForms

LEMMA CursorMoves ==
    ASSUME CursorType, NEW part \in Known, InList(part),
           cursor' = [cursor EXCEPT ![part[1]] = Cursor(part)], tables' = tables
    PROVE  CursorType'
<1>1. PICK l \in {1, 2}, p \in Nat : part = <<l, p>>
  BY PartForms, ConstantParts, EndParts DEF InList, Begin
<1>2. cursor' = [cursor EXCEPT ![l] = Cursor(<<l, p>>)]
  BY <1>1
<1>3. Cursor(<<l, p>>) \in Nat /\ Cursor(<<l, p>>) <= tables.rows[l] + 1
  BY CursorStays
<1> QED  BY <1>2, <1>3 DEF CursorType

-----------------------------------------------------------------------------
(* Types *)

LEMMA Nothing == Len(<<>>) = 0 /\ \A S : <<>> \in Seq(S)
  OBVIOUS

LEMMA One == \A S : \A e \in S : <<e>> \in Seq(S) /\ Len(<<e>>) = 1 /\ <<e>>[1] = e
  OBVIOUS

LEMMA Added ==
    ASSUME buf \in Seq(Parts), NEW part \in Parts, NEW n \in Nat, n > 0, n <= Len(buf) + 1
    PROVE  /\ Add(part, n) \in Seq(Parts) /\ n <= Len(Add(part, n)) /\ Len(buf) <= Len(Add(part, n))
           /\ Add(part, n)[n] = part
<1> DEFINE len == IF n > Len(buf) THEN n ELSE Len(buf)
<1>1. Len(buf) \in Nat
  BY LenProperties
<1>2. len \in Nat /\ n <= len /\ Len(buf) <= len /\ n \in 1 .. len
  BY <1>1
<1>3. \A i \in 1 .. len : (IF i = n THEN part ELSE buf[i]) \in Parts
  <2> SUFFICES ASSUME NEW i \in 1 .. len, i # n PROVE buf[i] \in Parts
    OBVIOUS
  <2>1. i \in 1 .. Len(buf)
    BY <1>1
  <2> QED  BY <2>1, ElementOfSeq
<1>4. Add(part, n) = [i \in 1 .. len |-> IF i = n THEN part ELSE buf[i]]
  BY DEF Add
<1> HIDE DEF len
<1>5. Add(part, n) \in [1 .. len -> Parts]
  BY <1>3, <1>4
<1>6. Add(part, n) \in Seq(Parts) /\ Len(Add(part, n)) = len
  BY <1>2, <1>5, IsASeq, LenProperties
<1>7. Add(part, n)[n] = part
  BY <1>2, <1>4
<1> QED  BY <1>2, <1>6, <1>7

LEMMA Cut ==
    ASSUME NEW S, NEW s \in Seq(S), NEW n \in Nat, n <= Len(s)
    PROVE  SubSeq(s, 1, n) \in Seq(S)
<1>1. \A i \in 1 .. n : s[i] \in S
  BY ElementOfSeq, LenProperties
<1> QED  BY <1>1, SubSeqProperties

LEMMA TypesOK == Types => TypeOK
<1> SUFFICES ASSUME Types PROVE TypeOK
  OBVIOUS
<1>1. Len(buf) \in Nat
  BY LenProperties DEF Types, BufType
<1>2. blen \in 0 .. Len(buf) /\ sendlen \in [Slots -> 0 .. Len(buf)]
  BY <1>1 DEF Types, BufType, SlotType, InputType, PartType
<1>3. /\ cursor[1] \in 0 .. tables.rows[1] + 1 /\ cursor[2] \in 0 .. tables.rows[2] + 1
      /\ tables \in Tables
  BY RowNumbers DEF Types, CursorType
<1>4. at \in [Slots -> Parts]
  BY PartForms DEF Types, SlotType, InputType, PartType
<1>5. PoolType /\ SendType /\ CountType
  BY DEF Types
<1>6. /\ request \in [Slots -> {"method", "path", "headers"}]
      /\ expired \in [Slots -> BOOLEAN] /\ script \in [Slots -> BOOLEAN] /\ buf \in Seq(Parts)
  BY DEF Types, SlotType, InputType, PartType, BufType
<1> QED  BY <1>2, <1>3, <1>4, <1>5, <1>6 DEF PoolType, SendType, CountType, TypeOK

LEMMA TypesInit == Init => Types
<1> SUFFICES ASSUME Init PROVE Types
  OBVIOUS
<1>1. PoolType
  BY PoolAssumption DEF Init, PoolType
<1>2. SlotType
  <2>1. Begin \in Known
    BY DEF Known
  <2> QED  BY <2>1 DEF Init, SlotType, InputType, PartType
<1>3. SendType
  BY Nothing DEF Init, SendType
<1>4. BufType
  BY Nothing DEF Init, BufType
<1>5. CursorType
  <2>1. tables \in Tables /\ cursor = [l \in {1, 2} |-> tables.rows[l] + 1]
    BY DEF Init
  <2> QED  BY <2>1, RowNumbers DEF CursorType
<1>6. CountType
  BY BoundsAssumption DEF Init, CountType
<1> QED  BY <1>1, <1>2, <1>3, <1>4, <1>5, <1>6 DEF Types

\* A connection that there is has a slot.
LEMMA HasSlot ==
    ASSUME PoolType, NEW c \in Conns, phase[c] # "none"
    PROVE  state[c] \in Slots
  BY DEF PoolType

\* What is forgotten of the pages.
LEMMA AloneTypes ==
    ASSUME SendType, NEW still, Alone(still)
    PROVE  SendType'
<1>1. alone' \in [Conns -> BOOLEAN]
  BY DEF Alone, SendType
<1>2. segment' \in [Conns -> Seq(Parts)] /\ page' \in [Conns -> Seq(Parts)]
  BY Nothing DEF Alone, SendType
<1> QED  BY <1>1, <1>2 DEF SendType

\* What ends a connection.
LEMMA DropTypes ==
    ASSUME PoolType, NEW c \in Conns, Drop(c, "none") \/ (Drop(c, "ended") /\ phase[c] # "none"),
           used' \subseteq used
    PROVE  PoolType'
<1>1. CASE Drop(c, "none")
  <2>1. phase' = [phase EXCEPT ![c] = "none"] /\ state' = [state EXCEPT ![c] = NoSlot]
    BY <1>1 DEF Drop
  <2> QED  BY <2>1 DEF PoolType
<1>2. CASE Drop(c, "ended") /\ phase[c] # "none"
  <2>1. phase' = [phase EXCEPT ![c] = "ended"] /\ state' = state
    BY <1>2 DEF Drop
  <2> QED  BY <1>2, <2>1 DEF PoolType
<1> QED  BY <1>1, <1>2

LEMMA TypesConnected ==
    ASSUME NEW c \in Conns, Types, Connected(c)
    PROVE  Types'
<1> USE DEF Types
<1>1. /\ phase[c] = "none" /\ connects < MaxConnects /\ connects' = connects + 1
      /\ UNCHANGED <<tables, chunks, changes>>
  BY DEF Connected
<1>2. CountType' /\ CursorType' /\ SendType' /\ UNCHANGED <<buf, blen>>
  <2>1. UNCHANGED <<pageVars, cursor, up, buf, blen>>
    BY DEF Connected, outputVars
  <2>2. UNCHANGED <<alone, segment, page, cursor, up, buf, blen>>
    BY <2>1 DEF pageVars
  <2>3. CountType'
    BY <1>1, <2>2, BoundsAssumption DEF CountType
  <2> QED  BY <1>1, <2>2, <2>3 DEF CursorType, SendType
<1>3. CASE UNCHANGED <<outputVars, inputVars, poolVars>>
  <2>1. UNCHANGED <<phase, state, used, request, expired, script, at, sendlen>>
    BY <1>3 DEF outputVars, inputVars, poolVars
  <2> QED  BY <1>2, <2>1 DEF PoolType, SlotType, InputType, PartType, BufType
<1>4. ASSUME NEW s \in Slots,
             used # Slots, s = CHOOSE t \in Slots : t \notin used,
             used' = used \cup {s},
             state' = [state EXCEPT ![c] = s],
             phase' = [phase EXCEPT ![c] = "idle"],
             request' = [request EXCEPT ![s] = "method"],
             script' = [script EXCEPT ![s] = FALSE],
             at' = [at EXCEPT ![s] = Begin],
             sendlen' = [sendlen EXCEPT ![s] = 0],
             expired' = [expired EXCEPT ![s] = FALSE]
      PROVE  Types'
  <2>1. PoolType'
    BY <1>4, PoolAssumption DEF PoolType
  <2>2. SlotType'
    <3>1. Begin \in Known
      BY DEF Known
    <3> QED  BY <1>4, <3>1 DEF SlotType, InputType, PartType
  <2>3. BufType'
    <3>1. Len(buf) \in Nat
      BY LenProperties DEF BufType
    <3> QED  BY <1>2, <1>4, <3>1 DEF BufType, SlotType, InputType, PartType
  <2> QED  BY <1>2, <2>1, <2>2, <2>3
<1> QED  BY <1>3, <1>4 DEF Connected

LEMMA TypesEnded ==
    ASSUME NEW c \in Conns, Types, Ended(c)
    PROVE  Types'
<1> USE DEF Types
<1>1. phase[c] # "none" /\ state[c] \in Slots
  BY HasSlot DEF Ended
<1>2. PoolType'
  <2>1. used' \subseteq used
    BY DEF Ended, Free
  <2> QED  BY <1>1, <2>1, DropTypes DEF Ended
<1>3. SendType'
  BY AloneTypes DEF Ended, Free
<1>4. SlotType' /\ \A s \in Slots : sendlen'[s] <= sendlen[s]
  <2>1. script' = [script EXCEPT ![state[c]] = FALSE]
    BY DEF Ended
  <2>2. CASE UNCHANGED <<request, expired, at, sendlen>>
    <3>1. /\ request' = request /\ expired' = expired /\ at' = at /\ sendlen' = sendlen
          /\ script' \in [Slots -> BOOLEAN]
      BY <2>1, <2>2 DEF SlotType, InputType, PartType
    <3>2. SlotType'
      BY <3>1 DEF SlotType, InputType, PartType
    <3> QED  BY <3>1, <3>2 DEF SlotType, InputType, PartType
  <2>3. CASE /\ request' = [request EXCEPT ![state[c]] = "method"]
             /\ expired' = [expired EXCEPT ![state[c]] = FALSE]
             /\ at' = [at EXCEPT ![state[c]] = Begin]
             /\ sendlen' = [sendlen EXCEPT ![state[c]] = 0]
    <3>1. Begin \in Known
      BY DEF Known
    <3> QED  BY <1>1, <2>1, <2>3, <3>1 DEF SlotType, InputType, PartType
  <2> QED  BY <2>2, <2>3 DEF Ended
<1>5. UNCHANGED <<buf, blen, cursor, tables, up, connects, chunks, changes>>
  BY DEF Ended, countVars
<1>6. BufType'
  <2>1. Len(buf) \in Nat
    BY LenProperties DEF BufType
  <2> QED  BY <1>4, <1>5, <2>1 DEF BufType, SlotType, InputType, PartType
<1>7. CursorType' /\ CountType'
  BY <1>5 DEF CursorType, CountType
<1> QED  BY <1>2, <1>3, <1>4, <1>6, <1>7

LEMMA TypesForgotten ==
    ASSUME NEW c \in Conns, Types, Forgotten(c)
    PROVE  Types'
<1> USE DEF Types
<1>1. UNCHANGED <<used, request, expired, script, at, sendlen, buf, blen, cursor, tables, up,
                  connects, chunks, changes>>
  BY DEF Forgotten, countVars
<1>2. PoolType'
  BY <1>1, DropTypes DEF Forgotten
<1>3. SendType'
  BY AloneTypes DEF Forgotten
<1>4. SlotType' /\ BufType' /\ CursorType' /\ CountType'
  BY <1>1 DEF SlotType, InputType, PartType, BufType, CursorType, CountType
<1> QED  BY <1>2, <1>3, <1>4

LEMMA TypesChange ==
    ASSUME Types, TablesChange
    PROVE  Types'
<1> USE DEF Types
<1>1. UNCHANGED <<phase, state, used, request, expired, script, at, sendlen, buf, blen, up,
                  connects, chunks>>
  BY DEF TablesChange, inputVars, poolVars
<1>2. PoolType' /\ SlotType' /\ BufType'
  BY <1>1 DEF PoolType, SlotType, InputType, PartType, BufType
<1>3. SendType'
  BY AloneTypes DEF TablesChange
<1>4. CountType'
  BY <1>1, BoundsAssumption DEF CountType, TablesChange
<1>5. CursorType'
  <2>1. PICK nbr \in Iterators(1), link \in Iterators(2) :
               cursor' = [l \in {1, 2} |-> IF l = 1 THEN nbr ELSE link]
    BY DEF TablesChange
  <2>2. tables' \in Tables
    BY DEF TablesChange
  <2>3. tables'.rows[1] \in Nat /\ tables'.rows[2] \in Nat
    BY <2>2, RowNumbers
  <2>4. /\ nbr \in Nat /\ nbr <= tables'.rows[1] + 1
        /\ link \in Nat /\ link <= tables'.rows[2] + 1
    BY <2>3 DEF Iterators
  <2> QED  BY <2>1, <2>2, <2>4 DEF CursorType
<1> QED  BY <1>2, <1>3, <1>4, <1>5

LEMMA StartTypes ==
    ASSUME NEW c \in Conns, PoolType, PartType, SendType, BufType, CursorType, tables' = tables,
           phase[c] # "none", StartOutput(c)
    PROVE  /\ phase' = [phase EXCEPT ![c] = "busy"] /\ up' = up
           /\ PartType' /\ SendType' /\ BufType' /\ CursorType'
<1>1. /\ state[c] \in Slots /\ Status \in Known /\ UNCHANGED <<buf, blen>>
      /\ script' = [script EXCEPT ![state[c]] = TRUE]
      /\ at' = [at EXCEPT ![state[c]] = Status] /\ sendlen' = [sendlen EXCEPT ![state[c]] = 0]
  BY HasSlot, ConstantParts DEF StartOutput, Known
<1>2. PartType'
  BY <1>1 DEF PartType
<1>3. SendType'
  <2>1. alone' \in [Conns -> BOOLEAN]
    BY DEF StartOutput, SendType
  <2>2. <<Status>> \in Seq(Parts)
    BY One, ConstantParts
  <2>3. segment' \in [Conns -> Seq(Parts)] /\ page' \in [Conns -> Seq(Parts)]
    BY <2>2, Nothing DEF StartOutput, SendType
  <2> QED  BY <2>1, <2>3 DEF SendType
<1>4. BufType'
  <2>1. Len(buf) \in Nat
    BY LenProperties DEF BufType
  <2> QED  BY <1>1, <2>1 DEF BufType, PartType
<1>5. phase' = [phase EXCEPT ![c] = "busy"] /\ up' = up /\ UNCHANGED cursor
  BY DEF StartOutput
<1> QED  BY <1>2, <1>3, <1>4, <1>5 DEF CursorType, StartOutput

LEMMA SentTypes ==
    ASSUME SendType, NEW c \in Conns, NEW parts \in Seq(Parts), Send(c, parts)
    PROVE  segment' \in [Conns -> Seq(Parts)]
  BY Nothing DEF Send, SendType

LEMMA NextTypes ==
    ASSUME NEW c \in Conns, PoolType, PartType, SendType, BufType, CursorType, tables' = tables,
           phase[c] # "none", at[state[c]] # Begin, SendNext(c)
    PROVE  /\ phase' = phase \/ phase' = [phase EXCEPT ![c] = "fin_wait"]
           /\ up' = up /\ alone' = alone
           /\ PartType' /\ SendType' /\ BufType' /\ CursorType'
<1> DEFINE s == state[c]
           part == NextPart(at[s])
           filled == LengthAfter(at[s])
<1>1. s \in Slots /\ at[s] \in Known /\ at[s] # Begin
  BY HasSlot DEF PartType
<1>2. CursorType'
  <2>1. CASE InList(at[s])
    <3>1. cursor' = [cursor EXCEPT ![at[s][1]] = Cursor(at[s])]
      BY <2>1 DEF SendNext
    <3> QED  BY <1>1, <2>1, <3>1, CursorMoves
  <2>2. CASE ~InList(at[s])
    BY <2>2 DEF SendNext, CursorType
  <2> QED  BY <2>1, <2>2
<1>3. Len(buf) \in Nat /\ filled \in Nat /\ filled <= Len(buf) /\ filled <= blen
  BY LenProperties DEF LengthAfter, BufType
<1>4. up' = up /\ alone' = alone
  BY DEF SendNext
<1>5. page' \in [Conns -> Seq(Parts)]
  <2>1. page[c] \o segment[c] \in Seq(Parts)
    BY ConcatProperties DEF SendType
  <2>2. (IF alone[c] THEN page[c] \o segment[c] ELSE <<>>) \in Seq(Parts)
    BY <2>1, Nothing
  <2>3. page' = [page EXCEPT ![c] = IF alone[c] THEN page[c] \o segment[c] ELSE <<>>]
    BY DEF SendNext
  <2> QED  BY <2>2, <2>3 DEF SendType
<1>6. SUFFICES /\ phase' = phase \/ phase' = [phase EXCEPT ![c] = "fin_wait"]
               /\ PartType' /\ segment' \in [Conns -> Seq(Parts)] /\ BufType'
  BY <1>2, <1>4, <1>5 DEF SendType
<1>7. CASE /\ at[s] # BOTTOM /\ part \in Constants
           /\ at' = [at EXCEPT ![s] = part] /\ sendlen' = [sendlen EXCEPT ![s] = 0]
           /\ Send(c, <<part>>)
           /\ blen' = filled
           /\ UNCHANGED <<phase, script, buf>>
  <2>1. part \in Known /\ <<part>> \in Seq(Parts)
    BY <1>7, One, ConstantParts DEF Known
  <2> HIDE DEF s, part, filled
  <2>2. PartType'
    BY <1>1, <1>7, <2>1 DEF PartType
  <2>3. segment' \in [Conns -> Seq(Parts)]
    BY <1>7, <2>1, SentTypes
  <2>4. BufType'
    BY <1>1, <1>3, <1>7 DEF BufType, PartType
  <2> QED  BY <1>7, <2>2, <2>3, <2>4
<1>8. CASE /\ at[s] # BOTTOM /\ part \notin Constants
           /\ at' = [at EXCEPT ![s] = part]
           /\ buf' = Add(part, filled + 1) /\ blen' = filled + 1
           /\ sendlen' = [sendlen EXCEPT ![s] = blen']
           /\ Send(c, SubSeq(buf', 1, blen'))
           /\ UNCHANGED <<phase, script>>
  <2>1. part \in Known
    BY <1>1, <1>8, NextPartTypes
  <2>2. part \in Parts /\ filled + 1 \in Nat
    BY <1>3, <2>1, PartForms
  <2> HIDE DEF s, part, filled
  <2>3. /\ buf' \in Seq(Parts) /\ filled + 1 <= Len(buf') /\ Len(buf) <= Len(buf')
    BY <1>3, <1>8, <2>2, Added DEF BufType
  <2>4. SubSeq(buf', 1, filled + 1) \in Seq(Parts)
    BY <2>2, <2>3, Cut
  <2>5. segment' \in [Conns -> Seq(Parts)]
    BY <1>8, <2>4, SentTypes
  <2>6. PartType'
    BY <1>1, <1>8, <2>1, <2>2 DEF PartType
  <2>7. BufType'
    <3>1. Len(buf') \in Nat
      BY <2>3, LenProperties
    <3>2. \A t \in Slots : sendlen'[t] <= Len(buf')
      BY <1>1, <1>3, <1>8, <2>2, <2>3, <3>1 DEF BufType, PartType
    <3> QED  BY <1>8, <2>2, <2>3, <3>2 DEF BufType
  <2> QED  BY <1>8, <2>5, <2>6, <2>7
<1>9. CASE /\ at[s] = BOTTOM
           /\ at' = [at EXCEPT ![s] = Begin] /\ sendlen' = [sendlen EXCEPT ![s] = 0]
           /\ script' = [script EXCEPT ![s] = FALSE]
           /\ phase' = [phase EXCEPT ![c] = "fin_wait"]
           /\ Send(c, <<>>)
           /\ UNCHANGED <<buf, blen>>
  <2>1. Begin \in Known
    BY DEF Known
  <2> HIDE DEF s
  <2>2. PartType'
    BY <1>1, <1>9, <2>1 DEF PartType
  <2>3. segment' \in [Conns -> Seq(Parts)]
    BY <1>9, Nothing, SentTypes
  <2>4. BufType'
    BY <1>1, <1>3, <1>9 DEF BufType, PartType
  <2> QED  BY <1>9, <2>2, <2>3, <2>4
<1> QED  BY <1>7, <1>8, <1>9 DEF SendNext

LEMMA AgainTypes ==
    ASSUME NEW c \in Conns, PoolType, PartType, SendType, BufType, CursorType, tables' = tables,
           phase[c] # "none", SendAgain(c)
    PROVE  /\ phase' = phase /\ up' = up
           /\ PartType' /\ SendType' /\ BufType' /\ CursorType'
<1>1. state[c] \in Slots /\ at[state[c]] \in Known /\ sendlen[state[c]] \in Nat
  BY HasSlot DEF PartType
<1>2. UNCHANGED <<phase, alone, page, script, at, sendlen, buf, blen, cursor, up>>
  BY DEF SendAgain
<1>3. SubSeq(buf, 1, sendlen[state[c]]) \in Seq(Parts)
  BY <1>1, Cut DEF BufType
<1>4. at[state[c]] \in Constants => <<at[state[c]]>> \in Seq(Parts)
  BY One, ConstantParts
<1>5. segment' \in [Conns -> Seq(Parts)]
  BY <1>3, <1>4, SentTypes DEF SendAgain
<1> QED  BY <1>2, <1>5 DEF PartType, SendType, BufType, CursorType

LEMMA OutputTypes ==
    ASSUME NEW c \in Conns, NEW event, PoolType, PartType, SendType, BufType, CursorType,
           tables' = tables, phase[c] # "none", up, Output(c, event)
    PROVE  /\ phase' = phase \/ phase' = [phase EXCEPT ![c] = "busy"]
                \/ phase' = [phase EXCEPT ![c] = "fin_wait"]
           /\ up' \in BOOLEAN
           /\ PartType' /\ SendType' /\ BufType' /\ CursorType'
<1>1. CASE StartOutput(c)
  BY <1>1, StartTypes
<1>2. CASE up' = FALSE /\ UNCHANGED <<phase, pageVars, script, at, sendlen, buf, blen, cursor>>
  BY <1>2 DEF pageVars, PartType, SendType, BufType, CursorType
<1>3. CASE at[state[c]] # Begin /\ SendNext(c)
  BY <1>3, NextTypes
<1>4. CASE SendAgain(c)
  BY <1>4, AgainTypes
<1>5. CASE UNCHANGED outputVars
  BY <1>5 DEF outputVars, pageVars, PartType, SendType, BufType, CursorType
<1> QED  BY <1>1, <1>2, <1>3, <1>4, <1>5 DEF Output

LEMMA PhaseTypes ==
    ASSUME PoolType, UNCHANGED poolVars, NEW c \in Conns, phase[c] # "none",
           phase' = phase \/ \E p \in {"idle", "busy", "fin_wait"} : phase' = [phase EXCEPT ![c] = p]
    PROVE  PoolType'
  BY DEF PoolType, poolVars

LEMMA TypesPoll ==
    ASSUME NEW c \in Conns, Types, Poll(c)
    PROVE  Types'
<1> USE DEF Types
<1>1. /\ phase[c] = "idle" /\ phase[c] # "none" /\ state[c] \in Slots /\ up
      /\ UNCHANGED <<tables, connects, chunks, changes>>
  BY HasSlot DEF Poll, countVars
<1>2. CASE /\ Drop(c, "none") /\ Free(c)
           /\ script' = [script EXCEPT ![state[c]] =
                 request[state[c]] = "headers" /\ at[state[c]] = Begin]
           /\ at' = [at EXCEPT ![state[c]] =
                 IF request[state[c]] = "headers" /\ @ = Begin THEN Status ELSE @]
           /\ up' = ~(request[state[c]] = "headers" /\ CallsScript(state[c], "poll"))
           /\ UNCHANGED <<request, expired, sendlen, buf, blen, cursor>>
  <2>1. PoolType'
    BY <1>2, DropTypes DEF Free
  <2>2. SendType'
    BY <1>2, AloneTypes DEF Free
  <2>3. PartType'
    <3>1. Status \in Known
      BY ConstantParts DEF Known
    <3>2. at' \in [Slots -> Known]
      BY <1>2, <3>1 DEF SlotType, PartType
    <3>3. script' \in [Slots -> BOOLEAN]
      BY <1>2 DEF SlotType, PartType
    <3> QED  BY <1>2, <3>2, <3>3 DEF SlotType, PartType
  <2>4. InputType' /\ BufType' /\ CursorType'
    BY <1>1, <1>2 DEF SlotType, InputType, BufType, CursorType
  <2>5. up' \in BOOLEAN
    BY <1>2
  <2>6. CountType'
    BY <1>1, <2>5 DEF CountType
  <2> QED  BY <2>1, <2>2, <2>3, <2>4, <2>6 DEF SlotType
<1>3. CASE Output(c, "poll") /\ UNCHANGED <<inputVars, poolVars>>
  <2>1. /\ PartType' /\ SendType' /\ BufType' /\ CursorType' /\ up' \in BOOLEAN
        /\ phase' = phase \/ phase' = [phase EXCEPT ![c] = "busy"]
             \/ phase' = [phase EXCEPT ![c] = "fin_wait"]
    BY <1>1, <1>3, OutputTypes DEF SlotType
  <2>2. InputType'
    BY <1>3 DEF SlotType, InputType, inputVars
  <2>3. PoolType'
    BY <1>1, <1>3, <2>1, PhaseTypes
  <2>4. CountType'
    BY <1>1, <2>1 DEF CountType
  <2> QED  BY <2>1, <2>2, <2>3, <2>4 DEF SlotType
<1> QED  BY <1>2, <1>3 DEF Poll

\* The other steps of a connection that is open.
LEMMA TypesOpen ==
    ASSUME NEW c \in Conns, Types, Newdata(c) \/ Acked(c) \/ Rexmit(c)
    PROVE  Types'
<1> USE DEF Types
<1>1. /\ phase[c] # "none" /\ state[c] \in Slots /\ up /\ UNCHANGED <<state, used, tables, connects, changes>>
      /\ expired' = [expired EXCEPT ![state[c]] = FALSE]
  BY HasSlot DEF Newdata, Acked, Rexmit, Open, Restart, poolVars, countVars
<1>2. chunks' \in 0 .. MaxChunks
  BY BoundsAssumption DEF Newdata, Acked, Rexmit, countVars, CountType
<1>3. /\ PartType' /\ SendType' /\ BufType' /\ CursorType' /\ up' \in BOOLEAN
      /\ \/ phase' = phase
         \/ \E p \in {"idle", "busy", "fin_wait"} : phase' = [phase EXCEPT ![c] = p]
  <2>1. ASSUME NEW event, Output(c, event)
        PROVE  /\ PartType' /\ SendType' /\ BufType' /\ CursorType' /\ up' \in BOOLEAN
               /\ \/ phase' = phase
                  \/ \E p \in {"idle", "busy", "fin_wait"} : phase' = [phase EXCEPT ![c] = p]
    BY <1>1, <2>1, OutputTypes DEF SlotType
  <2>2. CASE StartOutput(c)
    BY <1>1, <2>2, StartTypes DEF SlotType
  <2>3. CASE /\ UNCHANGED <<pageVars, script, at, sendlen, buf, blen, cursor, up>>
             /\ \/ phase' = phase
                \/ \E p \in {"idle", "busy", "fin_wait"} : phase' = [phase EXCEPT ![c] = p]
    BY <1>1, <2>3 DEF SlotType, PartType, SendType, BufType, CursorType, pageVars
  <2>4. CASE Newdata(c)
    BY <2>1, <2>2, <2>3, <2>4 DEF Newdata, outputVars
  <2>5. CASE Acked(c)
    BY <2>1, <2>3, <2>5 DEF Acked
  <2>6. CASE Rexmit(c)
    BY <2>1, <2>3, <2>6 DEF Rexmit, outputVars
  <2> QED  BY <2>4, <2>5, <2>6
<1>4. InputType'
  <2>1. request' = request \/ \E r \in {"method", "path", "headers"} : request' = [request EXCEPT ![state[c]] = r]
    BY DEF Newdata, Acked, Rexmit
  <2>2. request \in [Slots -> {"method", "path", "headers"}] /\ expired \in [Slots -> BOOLEAN]
    BY DEF SlotType, InputType
  <2>3. request' \in [Slots -> {"method", "path", "headers"}]
    BY <2>1, <2>2
  <2>4. expired' \in [Slots -> BOOLEAN]
    BY <1>1, <2>2
  <2> QED  BY <2>3, <2>4 DEF InputType
<1>5. PoolType'
  BY <1>1, <1>3, PhaseTypes DEF poolVars
<1>6. CountType'
  BY <1>1, <1>2, <1>3 DEF CountType
<1> QED  BY <1>3, <1>4, <1>5, <1>6 DEF SlotType

LEMMA TypesElapse ==
    ASSUME NEW s \in Slots, Types, Elapse(s)
    PROVE  Types'
<1> USE DEF Types
<1>1. /\ UNCHANGED <<phase, state, used, request, alone, segment, page, script, at, sendlen, buf, blen, cursor,
                     tables, up, connects, chunks, changes>>
      /\ expired' = [expired EXCEPT ![s] = TRUE]
  BY DEF Elapse, outputVars, pageVars, poolVars, countVars
<1>2. InputType'
  BY <1>1 DEF SlotType, InputType
<1>3. PoolType' /\ PartType' /\ SendType' /\ BufType' /\ CursorType' /\ CountType'
  BY <1>1 DEF PoolType, SlotType, PartType, SendType, BufType, CursorType, CountType
<1> QED  BY <1>2, <1>3 DEF SlotType

LEMMA TypesStep == Types /\ [Next]_vars => Types'
<1> SUFFICES ASSUME Types, [Next]_vars PROVE Types'
  OBVIOUS
<1>1. CASE UNCHANGED vars
  <2>1. UNCHANGED <<phase, state, used, request, expired, alone, segment, page, script, at, sendlen, buf,
                    blen, cursor, tables, up, connects, chunks, changes>>
    BY <1>1 DEF vars, outputVars, pageVars, inputVars, poolVars, countVars
  <2>2. PoolType' /\ InputType' /\ PartType' /\ SendType'
    BY <2>1 DEF Types, PoolType, SlotType, InputType, PartType, SendType
  <2>3. BufType' /\ CursorType' /\ CountType'
    BY <2>1 DEF Types, BufType, CursorType, CountType
  <2> QED  BY <2>2, <2>3 DEF Types, SlotType
<1>2. ASSUME NEW c \in Conns, Connected(c) PROVE Types'
  BY <1>2, TypesConnected
<1>3. ASSUME NEW c \in Conns, Newdata(c) \/ Acked(c) \/ Rexmit(c) PROVE Types'
  BY <1>3, TypesOpen
<1>4. ASSUME NEW c \in Conns, Poll(c) PROVE Types'
  BY <1>4, TypesPoll
<1>5. ASSUME NEW c \in Conns, Ended(c) PROVE Types'
  BY <1>5, TypesEnded
<1>6. ASSUME NEW c \in Conns, Forgotten(c) PROVE Types'
  BY <1>6, TypesForgotten
<1>7. ASSUME NEW s \in Slots, Elapse(s) PROVE Types'
  BY <1>7, TypesElapse
<1>8. CASE TablesChange
  BY <1>8, TypesChange
<1> QED  BY <1>1, <1>2, <1>3, <1>4, <1>5, <1>6, <1>7, <1>8 DEF Next

\* Every variable of the web server has its type; the iterators stay within
\* their lists or where an entry has gone, and the lengths that are sent from
\* the buffer stay within what was written to it.
THEOREM TypeCorrect == Spec => []TypeOK
  BY TypesInit, TypesStep, TypesOK, PTL DEF Spec

-----------------------------------------------------------------------------
(* Who has which slot *)

\* The output that a slot has begun belongs to a connection that waits for an
\* acknowledgement.
Started(s) ==
    /\ script[s] /\ request[s] = "headers"
    /\ \E c \in Conns : phase[c] = "busy" /\ state[c] = s

SlotInv == Types /\ \A s \in used : at[s] # Begin => Started(s)

LEMMA SlotInit == Init => SlotInv
  BY TypesInit DEF Init, SlotInv

\* A connection is given up together with its slot.
LEMMA InvFreed ==
    ASSUME SlotInv, NEW c \in Conns, state[c] \in Slots, used' = used \ {state[c]},
           \A d \in Conns \ {c} : phase'[d] = phase[d] /\ state'[d] = state[d],
           \A s \in Slots \ {state[c]} :
               at'[s] = at[s] /\ script'[s] = script[s] /\ request'[s] = request[s]
    PROVE  \A s \in used' : at'[s] # Begin => Started(s)'
<1> SUFFICES ASSUME NEW s \in used', at'[s] # Begin PROVE Started(s)'
  OBVIOUS
<1>1. s \in used /\ s \in Slots \ {state[c]} /\ at[s] # Begin
  BY DEF SlotInv, Types, PoolType
<1>2. script[s] /\ request[s] = "headers"
  BY <1>1 DEF SlotInv, Started
<1>3. PICK d \in Conns : phase[d] = "busy" /\ state[d] = s
  BY <1>1 DEF SlotInv, Started
<1>4. phase'[d] = "busy" /\ state'[d] = s
  BY <1>1, <1>3
<1> QED  BY <1>1, <1>2, <1>4 DEF Started

\* A connection at whose slot nothing has begun changes its phase, or one that
\* is not busy.
LEMMA InvPhase ==
    ASSUME SlotInv, NEW c \in Conns, state' = state, used' = used, script' = script, at' = at,
           \A d \in Conns \ {c} : phase'[d] = phase[d],
           phase[c] = "busy" => phase'[c] = "busy" \/ request[state[c]] # "headers",
           \A s \in Slots : request[s] = "headers" => request'[s] = "headers"
    PROVE  \A s \in used' : at'[s] # Begin => Started(s)'
<1> SUFFICES ASSUME NEW s \in used', at'[s] # Begin PROVE Started(s)'
  OBVIOUS
<1>1. s \in used /\ s \in Slots /\ at[s] # Begin
  BY DEF SlotInv, Types, PoolType
<1>2. script[s] /\ request[s] = "headers"
  BY <1>1 DEF SlotInv, Started
<1>3. PICK d \in Conns : phase[d] = "busy" /\ state[d] = s
  BY <1>1 DEF SlotInv, Started
<1>4. phase'[d] = "busy"
  BY <1>2, <1>3
<1>5. script'[s] /\ request'[s] = "headers" /\ state'[d] = s
  BY <1>1, <1>2, <1>3
<1> QED  BY <1>4, <1>5 DEF Started

LEMMA InvStart ==
    ASSUME SlotInv, NEW c \in Conns, phase[c] # "none", StartOutput(c), UNCHANGED poolVars,
           request' = [request EXCEPT ![state[c]] = "headers"]
    PROVE  \A s \in used' : at'[s] # Begin => Started(s)'
<1> SUFFICES ASSUME NEW s \in used', at'[s] # Begin PROVE Started(s)'
  OBVIOUS
<1>1. s \in used /\ s \in Slots /\ state[c] \in Slots /\ state' = state
  BY HasSlot DEF SlotInv, Types, PoolType, poolVars
<1>2. /\ phase' = [phase EXCEPT ![c] = "busy"] /\ script' = [script EXCEPT ![state[c]] = TRUE]
      /\ at' = [at EXCEPT ![state[c]] = Status]
  BY DEF StartOutput
<1>3. phase'[c] = "busy" /\ \A d \in Conns : phase[d] = "busy" => phase'[d] = "busy"
  BY <1>2 DEF SlotInv, Types, PoolType
<1>4. CASE s = state[c]
  <2>1. script'[s] /\ request'[s] = "headers"
    BY <1>1, <1>2, <1>4 DEF SlotInv, Types, SlotType, InputType, PartType
  <2> QED  BY <1>1, <1>3, <1>4, <2>1 DEF Started
<1>5. CASE s # state[c]
  <2>1. at[s] # Begin
    BY <1>1, <1>2, <1>5 DEF SlotInv, Types, SlotType, PartType
  <2>2. script[s] /\ request[s] = "headers"
    BY <1>1, <2>1 DEF SlotInv, Started
  <2>3. PICK d \in Conns : phase[d] = "busy" /\ state[d] = s
    BY <1>1, <2>1 DEF SlotInv, Started
  <2>4. script'[s] /\ request'[s] = "headers"
    BY <1>1, <1>2, <1>5, <2>2 DEF SlotInv, Types, SlotType, InputType, PartType
  <2> QED  BY <1>1, <1>3, <2>3, <2>4 DEF Started
<1> QED  BY <1>4, <1>5

LEMMA InvNext ==
    ASSUME SlotInv, NEW c \in Conns, phase[c] # "none", SendNext(c), UNCHANGED poolVars, request' = request,
           at[state[c]] # Begin
    PROVE  \A s \in used' : at'[s] # Begin => Started(s)'
<1> SUFFICES ASSUME NEW s \in used', at'[s] # Begin PROVE Started(s)'
  OBVIOUS
<1>1. s \in used /\ s \in Slots /\ state[c] \in Slots /\ state' = state
  BY HasSlot DEF SlotInv, Types, PoolType, poolVars
<1>2. at[s] # Begin /\ (s # state[c] \/ at[state[c]] # BOTTOM) /\ script'[s] = script[s]
  BY <1>1 DEF SendNext, SlotInv, Types, SlotType, PartType
<1>3. script[s] /\ request[s] = "headers"
  BY <1>1, <1>2 DEF SlotInv, Started
<1>4. PICK d \in Conns : phase[d] = "busy" /\ state[d] = s
  BY <1>1, <1>2 DEF SlotInv, Started
<1>5. phase'[d] = "busy"
  <2>1. CASE phase' = phase
    BY <1>4, <2>1
  <2>2. CASE at[state[c]] = BOTTOM /\ phase' = [phase EXCEPT ![c] = "fin_wait"]
    <3>1. d # c
      BY <1>2, <1>4, <2>2
    <3> QED  BY <1>4, <2>2, <3>1 DEF SlotInv, Types, PoolType
  <2> QED  BY <2>1, <2>2 DEF SendNext
<1> QED  BY <1>1, <1>2, <1>3, <1>4, <1>5 DEF Started

LEMMA InvOutput ==
    ASSUME SlotInv, NEW c \in Conns, NEW event, phase[c] # "none", Output(c, event),
           UNCHANGED poolVars, request' = request, request[state[c]] = "headers"
    PROVE  \A s \in used' : at'[s] # Begin => Started(s)'
<1>1. CASE StartOutput(c)
  <2>1. request' = [request EXCEPT ![state[c]] = "headers"]
    BY DEF SlotInv, Types, SlotType, InputType
  <2> QED  BY <1>1, <2>1, InvStart
<1>2. CASE at[state[c]] # Begin /\ SendNext(c)
  BY <1>2, InvNext
<1>3. CASE phase' = phase /\ script' = script /\ at' = at
  BY <1>3, InvPhase DEF poolVars
<1> QED  BY <1>1, <1>2, <1>3 DEF Output, SendAgain, outputVars

LEMMA SlotInvStep == SlotInv /\ [Next]_vars => SlotInv'
<1> SUFFICES ASSUME SlotInv, [Next]_vars PROVE \A s \in used' : at'[s] # Begin => Started(s)'
  BY TypesStep DEF SlotInv
<1>1. CASE UNCHANGED vars
  <2>1. UNCHANGED <<phase, state, used, request, script, at>>
    BY <1>1 DEF vars, outputVars, inputVars, poolVars
  <2> QED  BY <2>1 DEF SlotInv, Started
<1>2. ASSUME NEW c \in Conns, Connected(c) PROVE \A s \in used' : at'[s] # Begin => Started(s)'
  <2>1. CASE UNCHANGED <<outputVars, inputVars, poolVars>>
    <3>1. UNCHANGED <<phase, state, used, request, script, at>>
      BY <2>1 DEF outputVars, inputVars, poolVars
    <3> QED  BY <3>1 DEF SlotInv, Started
  <2>2. ASSUME NEW t \in Slots, NEW s \in used', at'[s] # Begin,
               used # Slots, t = CHOOSE u \in Slots : u \notin used,
               used' = used \cup {t},
               state' = [state EXCEPT ![c] = t],
               phase' = [phase EXCEPT ![c] = "idle"],
               request' = [request EXCEPT ![t] = "method"],
               script' = [script EXCEPT ![t] = FALSE],
               at' = [at EXCEPT ![t] = Begin]
        PROVE  Started(s)'
    <3>1. phase[c] = "none"
      BY <1>2 DEF Connected
    <3>2. s # t /\ s \in used /\ s \in Slots
      BY <2>2 DEF SlotInv, Types, PoolType, SlotType, PartType
    <3>3. at[s] # Begin
      BY <2>2, <3>2 DEF SlotInv, Types, SlotType, PartType
    <3>4. script[s] /\ request[s] = "headers"
      BY <3>2, <3>3 DEF SlotInv, Started
    <3>5. PICK d \in Conns : phase[d] = "busy" /\ state[d] = s
      BY <3>2, <3>3 DEF SlotInv, Started
    <3>6. phase'[d] = "busy" /\ state'[d] = s
      BY <2>2, <3>1, <3>5 DEF SlotInv, Types, PoolType
    <3>7. script'[s] /\ request'[s] = "headers"
      BY <2>2, <3>2, <3>4 DEF SlotInv, Types, SlotType, InputType, PartType
    <3> QED  BY <3>6, <3>7 DEF Started
  <2> QED  BY <1>2, <2>1, <2>2 DEF Connected
<1>3. ASSUME NEW c \in Conns, Ended(c) PROVE \A s \in used' : at'[s] # Begin => Started(s)'
  <2>1. state[c] \in Slots /\ used' = used \ {state[c]}
    BY <1>3, HasSlot DEF Ended, Free, SlotInv, Types
  <2>2. \A d \in Conns \ {c} : phase'[d] = phase[d] /\ state'[d] = state[d]
    BY <1>3 DEF Ended, Drop, SlotInv, Types, PoolType
  <2>3. \A s \in Slots \ {state[c]} :
            at'[s] = at[s] /\ script'[s] = script[s] /\ request'[s] = request[s]
    BY <1>3 DEF Ended, SlotInv, Types, SlotType, InputType, PartType
  <2> QED  BY <2>1, <2>2, <2>3, InvFreed
<1>4. ASSUME NEW c \in Conns, Forgotten(c) PROVE \A s \in used' : at'[s] # Begin => Started(s)'
  <2> SUFFICES ASSUME NEW s \in used', at'[s] # Begin PROVE Started(s)'
    OBVIOUS
  <2>1. UNCHANGED <<used, request, script, at>> /\ phase[c] # "busy" /\ Drop(c, "none")
    BY <1>4 DEF Forgotten
  <2>2. script[s] /\ request[s] = "headers"
    BY <2>1 DEF SlotInv, Started
  <2>3. PICK d \in Conns : phase[d] = "busy" /\ state[d] = s
    BY <2>1 DEF SlotInv, Started
  <2>4. phase'[d] = "busy" /\ state'[d] = s
    BY <2>1, <2>3 DEF Drop, SlotInv, Types, PoolType
  <2> QED  BY <2>1, <2>2, <2>4 DEF Started
<1>5. ASSUME NEW c \in Conns, Poll(c) PROVE \A s \in used' : at'[s] # Begin => Started(s)'
  <2>1. state[c] \in Slots /\ phase[c] = "idle" /\ phase[c] # "none"
    BY <1>5, HasSlot DEF Poll, SlotInv, Types
  <2>2. CASE expired[state[c]]
    <3>1. used' = used \ {state[c]} /\ Drop(c, "none") /\ request' = request
      BY <1>5, <2>2 DEF Poll, Free
    <3>2. \A d \in Conns \ {c} : phase'[d] = phase[d] /\ state'[d] = state[d]
      BY <3>1 DEF Drop, SlotInv, Types, PoolType
    <3>3. \A s \in Slots \ {state[c]} :
              at'[s] = at[s] /\ script'[s] = script[s] /\ request'[s] = request[s]
      BY <1>5, <2>2, <3>1 DEF Poll, SlotInv, Types, SlotType, PartType
    <3> QED  BY <2>1, <3>1, <3>2, <3>3, InvFreed
  <2>3. CASE ~expired[state[c]]
    <3>1. /\ request[state[c]] = "headers" /\ Output(c, "poll") /\ UNCHANGED poolVars
          /\ request' = request
      BY <1>5, <2>3 DEF Poll, inputVars
    <3> QED  BY <2>1, <3>1, InvOutput
  <2> QED  BY <2>2, <2>3
<1>6. ASSUME NEW c \in Conns, Newdata(c) PROVE \A s \in used' : at'[s] # Begin => Started(s)'
  <2>1. phase[c] # "none" /\ state[c] \in Slots /\ UNCHANGED poolVars
    BY <1>6, HasSlot DEF Newdata, Open, SlotInv, Types
  <2>2. CASE request[state[c]] = "headers" /\ Output(c, "newdata") /\ UNCHANGED request
    BY <2>1, <2>2, InvOutput
  <2>3. CASE StartOutput(c) /\ request' = [request EXCEPT ![state[c]] = "headers"]
    BY <2>1, <2>3, InvStart
  <2>4. CASE /\ request[state[c]] # "headers" /\ script' = script /\ at' = at
             /\ phase' = phase \/ phase' = [phase EXCEPT ![c] = "fin_wait"]
             /\ request' = request \/ \E r \in {"method", "path"} : request' = [request EXCEPT ![state[c]] = r]
    <3>1. \A s \in Slots : request[s] = "headers" => request'[s] = "headers"
      BY <2>1, <2>4 DEF SlotInv, Types, SlotType, InputType
    <3>2. \A d \in Conns \ {c} : phase'[d] = phase[d]
      BY <2>4 DEF SlotInv, Types, PoolType
    <3> QED  BY <2>1, <2>4, <3>1, <3>2, InvPhase DEF poolVars
  <2> QED  BY <1>6, <2>2, <2>3, <2>4 DEF Newdata, outputVars
<1>7. ASSUME NEW c \in Conns, Acked(c) \/ Rexmit(c) PROVE \A s \in used' : at'[s] # Begin => Started(s)'
  <2>1. phase[c] # "none" /\ state[c] \in Slots /\ UNCHANGED poolVars /\ request' = request
    BY <1>7, HasSlot DEF Acked, Rexmit, SlotInv, Types
  <2>2. ASSUME NEW event, request[state[c]] = "headers", Output(c, event)
        PROVE  \A s \in used' : at'[s] # Begin => Started(s)'
    BY <2>1, <2>2, InvOutput
  <2>3. CASE /\ request[state[c]] # "headers" /\ script' = script /\ at' = at
             /\ phase' = phase \/ phase' = [phase EXCEPT ![c] = "idle"]
    <3>1. \A d \in Conns \ {c} : phase'[d] = phase[d]
      BY <2>3 DEF SlotInv, Types, PoolType
    <3> QED  BY <2>1, <2>3, <3>1, InvPhase DEF poolVars
  <2> QED  BY <1>7, <2>2, <2>3 DEF Acked, Rexmit, outputVars
<1>8. ASSUME NEW t \in Slots, Elapse(t) PROVE \A s \in used' : at'[s] # Begin => Started(s)'
  <2>1. UNCHANGED <<phase, state, used, request, script, at>>
    BY <1>8 DEF Elapse, outputVars, poolVars
  <2> QED  BY <2>1 DEF SlotInv, Started
<1>9. CASE TablesChange
  <2>1. UNCHANGED <<phase, state, used, request, script, at>>
    BY <1>9 DEF TablesChange, inputVars, poolVars
  <2> QED  BY <2>1 DEF SlotInv, Started
<1> QED  BY <1>1, <1>2, <1>3, <1>4, <1>5, <1>6, <1>7, <1>8, <1>9 DEF Next

\* A connection is given up together with its slot.
LEMMA FreedStep ==
    ASSUME PoolType, NEW c \in Conns, phase[c] # "none", used' = used \ {state[c]},
           Drop(c, "none") \/ Drop(c, "ended")
    PROVE  /\ \A s \in used \cap used' : LeftBehind(s)
           /\ Exclusive => \/ Exclusive'
                           \/ ~Live(c) /\ \E d \in Conns : Live(d) /\ state[d] = state[c]
<1>1. /\ phase'[c] \in {"none", "ended"}
      /\ \A d \in Conns \ {c} : phase'[d] = phase[d] /\ state'[d] = state[d]
  BY DEF Drop, PoolType
<1>2. ~Live(c)' /\ \A d \in Conns \ {c} : Live(d)' <=> Live(d)
  BY <1>1 DEF Live
<1>3. ASSUME NEW s \in used, s \in used' PROVE LeftBehind(s)
  <2> SUFFICES ASSUME NEW d \in Conns, Live(d), state[d] = s PROVE Held(s)'
    BY DEF LeftBehind, Held
  <2>1. d # c
    BY <1>3
  <2>2. Live(d)' /\ state'[d] = s
    BY <1>1, <1>2, <2>1
  <2> QED  BY <2>2 DEF Held
<1>4. ASSUME Exclusive, Live(c) \/ \A d \in Conns : Live(d) => state[d] # state[c] PROVE Exclusive'
  <2> SUFFICES ASSUME NEW d \in Conns, Live(d)' PROVE Owns(d)'
    BY DEF Exclusive
  <2>1. d # c /\ Live(d) /\ state'[d] = state[d]
    BY <1>1, <1>2
  <2>2. Owns(d) /\ (Live(c) => Owns(c))
    BY <1>4, <2>1 DEF Exclusive
  <2>3. state[d] # state[c]
    BY <1>4, <2>1, <2>2 DEF Owns
  <2>4. state'[d] \in used'
    BY <2>1, <2>2, <2>3 DEF Owns
  <2>5. \A e \in Conns \ {d} : Live(e)' => state'[e] # state'[d]
    BY <1>1, <1>2, <2>1, <2>2 DEF Owns
  <2> QED  BY <2>4, <2>5 DEF Owns
<1> QED  BY <1>3, <1>4

\* Connections go on that go on, and nothing else.
LEMMA LiveStep ==
    ASSUME state' = state, used' = used, \A d \in Conns : Live(d)' <=> Live(d)
    PROVE  (Exclusive' <=> Exclusive) /\ \A s : LeftBehind(s)
<1>1. \A d \in Conns : Owns(d)' <=> Owns(d)
  BY DEF Owns
<1>2. \A s : Held(s)' <=> Held(s)
  BY DEF Held
<1> QED  BY <1>1, <1>2 DEF Exclusive, LeftBehind

\* As long as slots are exclusive no script is called that is NULL.
LEMMA ScriptCalled ==
    ASSUME SlotInv, Exclusive, NEW c \in Conns, Live(c), at[state[c]] # Begin
    PROVE  script[state[c]] /\ request[state[c]] = "headers" /\ phase[c] = "busy"
<1>1. Owns(c)
  BY DEF Exclusive
<1>2. Started(state[c])
  BY <1>1 DEF Owns, SlotInv
<1>3. PICK d \in Conns : phase[d] = "busy" /\ state[d] = state[c]
  BY <1>2 DEF Started
<1>4. d = c
  BY <1>1, <1>3 DEF Owns, Live
<1> QED  BY <1>2, <1>3, <1>4 DEF Started

LEMMA OutputCalls ==
    ASSUME SlotInv, Exclusive, NEW c \in Conns, Live(c), NEW event, Output(c, event)
    PROVE  up' = up
<1>1. CASE StartOutput(c) \/ SendNext(c) \/ SendAgain(c) \/ UNCHANGED outputVars
  BY <1>1 DEF StartOutput, SendNext, SendAgain, outputVars
<1>2. CASE CallsScript(state[c], event) /\ ~script[state[c]]
  <2>1. at[state[c]] # Begin
    BY <1>2, ConstantParts DEF CallsScript
  <2> QED  BY <1>2, <2>1, ScriptCalled
<1> QED  BY <1>1, <1>2 DEF Output

LEMMA OutputLive ==
    ASSUME SlotInv, NEW c \in Conns, NEW event, phase[c] # "none", up,
           Open(c), UNCHANGED tables, Output(c, event)
    PROVE  \A d \in Conns : Live(d)' <=> Live(d)
<1>1. \/ phase' = phase \/ phase' = [phase EXCEPT ![c] = "busy"]
      \/ phase' = [phase EXCEPT ![c] = "fin_wait"]
  BY OutputTypes DEF SlotInv, Types, SlotType
<1> QED  BY <1>1 DEF Open, Live, SlotInv, Types, PoolType

LEMMA SlotStepHolds == SlotInv /\ [Next]_vars => [SlotStep]_vars
<1> SUFFICES ASSUME SlotInv, [Next]_vars PROVE SlotStep \/ UNCHANGED vars
  OBVIOUS
<1>0. PoolType
  BY DEF SlotInv, Types
<1>1. ASSUME NEW c \in Conns, Connected(c) PROVE SlotStep
  <2>1. CASE UNCHANGED <<outputVars, inputVars, poolVars>>
    <3>1. UNCHANGED <<phase, state, used, up>>
      BY <2>1 DEF outputVars, poolVars
    <3>2. \A d \in Conns : Live(d)' <=> Live(d)
      BY <3>1 DEF Live
    <3> QED  BY <3>1, <3>2, LiveStep DEF SlotStep, StaysExclusive
  <2>2. ASSUME NEW t \in Slots, used # Slots, t = CHOOSE u \in Slots : u \notin used,
               used' = used \cup {t}, state' = [state EXCEPT ![c] = t],
               phase' = [phase EXCEPT ![c] = "idle"], UNCHANGED up
        PROVE  SlotStep
    <3>1. t \notin used /\ phase[c] = "none" /\ ~Live(c)
      BY <1>0, <1>1, <2>2 DEF Connected, PoolType, Live
    <3>2. /\ state'[c] = t /\ phase'[c] = "idle"
          /\ \A d \in Conns \ {c} : phase'[d] = phase[d] /\ state'[d] = state[d]
      BY <1>0, <2>2 DEF PoolType
    <3>3. Live(c)' /\ \A d \in Conns \ {c} : Live(d)' <=> Live(d)
      BY <3>2 DEF Live
    <3>4. ASSUME NEW s \in used PROVE LeftBehind(s)
      <4> SUFFICES ASSUME NEW d \in Conns, Live(d), state[d] = s PROVE Held(s)'
        BY DEF LeftBehind, Held
      <4> QED  BY <3>1, <3>2, <3>3 DEF Held
    <3>5. ASSUME Exclusive PROVE Exclusive'
      <4>1. \A d \in Conns : Live(d) => state[d] # t
        BY <3>1, <3>5 DEF Exclusive, Owns
      <4>2. Owns(c)'
        BY <2>2, <3>2, <3>3, <4>1 DEF Owns
      <4>3. ASSUME NEW d \in Conns \ {c}, Live(d) PROVE Owns(d)'
        <5>1. Owns(d) /\ state'[d] = state[d] /\ state[d] # t
          BY <3>2, <3>5, <4>1, <4>3 DEF Exclusive
        <5>2. \A e \in Conns \ {d} : Live(e)' => state'[e] # state'[d]
          BY <3>2, <3>3, <5>1 DEF Owns
        <5> QED  BY <2>2, <5>1, <5>2 DEF Owns
      <4> QED  BY <3>3, <4>2, <4>3 DEF Exclusive
    <3> QED  BY <2>2, <3>4, <3>5 DEF SlotStep, StaysExclusive
  <2> QED  BY <1>1, <2>1, <2>2 DEF Connected
<1>2. ASSUME NEW c \in Conns, Ended(c) PROVE SlotStep
  <2>1. /\ phase[c] # "none" /\ used' = used \ {state[c]} /\ up' = up
        /\ Drop(c, "none") \/ Drop(c, "ended")
    BY <1>2 DEF Ended, Free
  <2>2. (\A s \in used \cap used' : LeftBehind(s))
        /\ (Exclusive => \/ Exclusive'
                         \/ ~Live(c) /\ \E d \in Conns : Live(d) /\ state[d] = state[c])
    BY <1>0, <2>1, FreedStep
  <2>3. ~Live(c) => EndedAgain(c)
    <3> SUFFICES ASSUME ~Live(c) PROVE EndedAgain(c)
      OBVIOUS
    <3>1. phase[c] = "ended"
      BY <1>0, <2>1 DEF Live, PoolType
    <3>2. phase' = [phase EXCEPT ![c] = "none"]
      BY <1>2 DEF Ended, Drop
    <3> QED  BY <1>0, <3>1, <3>2 DEF EndedAgain, PoolType
  <2>4. StaysExclusive
    <3> SUFFICES ASSUME Exclusive, ~Exclusive'
                 PROVE \E d, e \in Conns : EndedAgain(d) /\ Live(e) /\ state[e] = state[d]
      BY DEF StaysExclusive
    <3>1. ~Live(c) /\ \E d \in Conns : Live(d) /\ state[d] = state[c]
      BY <2>2
    <3> QED  BY <2>3, <3>1
  <2> QED  BY <2>1, <2>2, <2>4 DEF SlotStep
<1>3. ASSUME NEW c \in Conns, Forgotten(c) PROVE SlotStep
  <2>1. /\ phase[c] \in {"fin_wait", "ended"} /\ used' = used /\ up' = up
        /\ phase' = [phase EXCEPT ![c] = "none"] /\ state' = [state EXCEPT ![c] = NoSlot]
    BY <1>3 DEF Forgotten, Drop
  <2>2. /\ phase'[c] = "none"
        /\ \A d \in Conns \ {c} : phase'[d] = phase[d] /\ state'[d] = state[d]
    BY <1>0, <2>1 DEF PoolType
  <2>3. ~Live(c)' /\ \A d \in Conns \ {c} : Live(d)' <=> Live(d)
    BY <2>2 DEF Live
  <2>4. ASSUME NEW s PROVE LeftBehind(s)
    <3> SUFFICES ASSUME NEW d \in Conns, Live(d), state[d] = s, ~Held(s)'
                 PROVE  \E e \in Conns : phase[e] = "fin_wait" /\ phase'[e] = "none" /\ state[e] = s
      BY DEF LeftBehind, Held
    <3>1. d = c
      BY <2>2, <2>3 DEF Held
    <3>2. phase[c] = "fin_wait"
      BY <2>1, <3>1 DEF Live
    <3> QED  BY <2>2, <3>1, <3>2
  <2>5. ASSUME Exclusive PROVE Exclusive'
    <3> SUFFICES ASSUME NEW d \in Conns, Live(d)' PROVE Owns(d)'
      BY DEF Exclusive
    <3>1. d # c /\ Live(d) /\ state'[d] = state[d]
      BY <2>2, <2>3
    <3>2. Owns(d)
      BY <2>5, <3>1 DEF Exclusive
    <3> QED  BY <2>1, <2>2, <2>3, <3>1, <3>2 DEF Owns
  <2> QED  BY <2>1, <2>4, <2>5 DEF SlotStep, StaysExclusive
<1>4. ASSUME NEW c \in Conns, Poll(c) PROVE SlotStep
  <2>1. phase[c] = "idle" /\ phase[c] # "none" /\ Live(c) /\ Open(c) /\ up /\ UNCHANGED tables
    BY <1>4 DEF Poll, Live, Open
  <2>2. CASE expired[state[c]]
    <3>1. /\ used' = used \ {state[c]} /\ Drop(c, "none")
          /\ up' = ~(request[state[c]] = "headers" /\ CallsScript(state[c], "poll"))
      BY <1>4, <2>2 DEF Poll, Free
    <3>2. (\A s \in used \cap used' : LeftBehind(s)) /\ (Exclusive => Exclusive')
      BY <1>0, <2>1, <3>1, FreedStep
    <3>3. ASSUME Exclusive PROVE up'
      <4> SUFFICES ASSUME CallsScript(state[c], "poll") PROVE FALSE
        BY <3>1
      <4>1. at[state[c]] # Begin
        BY ConstantParts DEF CallsScript
      <4>2. phase[c] = "busy"
        BY <2>1, <3>3, <4>1, ScriptCalled
      <4> QED  BY <2>1, <4>2
    <3> QED  BY <3>2, <3>3 DEF SlotStep, StaysExclusive
  <2>3. CASE ~expired[state[c]]
    <3>1. Output(c, "poll") /\ UNCHANGED poolVars
      BY <1>4, <2>3 DEF Poll
    <3>2. \A d \in Conns : Live(d)' <=> Live(d)
      BY <2>1, <3>1, OutputLive
    <3>3. Exclusive => up' = up
      BY <2>1, <3>1, OutputCalls
    <3> QED  BY <3>1, <3>2, <3>3, LiveStep DEF poolVars, SlotStep, StaysExclusive
  <2> QED  BY <2>2, <2>3
<1>5. ASSUME NEW c \in Conns, Newdata(c) \/ Acked(c) \/ Rexmit(c) PROVE SlotStep
  <2>1. Open(c) /\ Live(c) /\ phase[c] # "none" /\ up /\ UNCHANGED tables /\ UNCHANGED poolVars
    BY <1>5 DEF Newdata, Acked, Rexmit, Open, Live
  <2>2. ASSUME NEW event, Output(c, event)
        PROVE  (\A d \in Conns : Live(d)' <=> Live(d)) /\ (Exclusive => up' = up)
    <3>1. \A d \in Conns : Live(d)' <=> Live(d)
      BY <2>1, <2>2, OutputLive
    <3>2. Exclusive => up' = up
      BY <2>1, <2>2, OutputCalls
    <3> QED  BY <3>1, <3>2
  <2>3. ASSUME up' = up,
               \/ phase' = phase
               \/ \E p \in {"idle", "busy", "fin_wait"} : phase' = [phase EXCEPT ![c] = p]
        PROVE  (\A d \in Conns : Live(d)' <=> Live(d)) /\ (Exclusive => up' = up)
    <3>1. \A d \in Conns : Live(d)' <=> Live(d)
      BY <1>0, <2>1, <2>3 DEF Live, PoolType
    <3> QED  BY <2>3, <3>1
  <2>4. (\A d \in Conns : Live(d)' <=> Live(d)) /\ (Exclusive => up' = up)
    <3>1. CASE Newdata(c)
      BY <2>2, <2>3, <3>1 DEF Newdata, StartOutput, outputVars
    <3>2. CASE Acked(c)
      BY <2>2, <2>3, <3>2 DEF Acked
    <3>3. CASE Rexmit(c)
      BY <2>2, <2>3, <3>3 DEF Rexmit, outputVars
    <3> QED  BY <1>5, <3>1, <3>2, <3>3
  <2> QED  BY <2>1, <2>4, LiveStep DEF poolVars, SlotStep, StaysExclusive
<1>6. ASSUME UNCHANGED <<phase, state, used, up>> PROVE SlotStep
  <2>1. \A d \in Conns : Live(d)' <=> Live(d)
    BY <1>6 DEF Live
  <2> QED  BY <1>6, <2>1, LiveStep DEF SlotStep, StaysExclusive
<1>7. ASSUME NEW s \in Slots, Elapse(s) PROVE SlotStep
  BY <1>6, <1>7 DEF Elapse, outputVars, poolVars
<1>8. CASE TablesChange
  BY <1>6, <1>8 DEF TablesChange, poolVars
<1> QED  BY <1>1, <1>2, <1>3, <1>4, <1>5, <1>7, <1>8 DEF Next

\* Whatever the order in which connections come, end once, twice or unheard:
\* a slot has one live connection until an end that is reported twice frees
\* the slot of another, only then can the script that is called be NULL, and
\* a slot is lost only by a connection whose end is not reported.
THEOREM SlotsAreExclusive == Spec => SlotsExclusive
  BY SlotInit, SlotInvStep, SlotStepHolds, PTL DEF Spec, SlotsExclusive

-----------------------------------------------------------------------------
(* The order of the parts *)

\* What comes after a part of the page.
Follows(part, after) ==
    \/ part = Status /\ after = Type
    \/ part = Type /\ after = TOP
    \/ part = TOP /\ after = HeadOf(1)
    \/ \E l \in {1, 2}, p \in Nat :
         /\ part = <<l, p>> /\ p <= tables.rows[l]
         /\ after = IF p < tables.rows[l] THEN <<l, p + 1>> ELSE EndOf(l)
    \/ part = EndOf(1) /\ after = IF tables.linked THEN HeadOf(2) ELSE BOTTOM
    \/ part = EndOf(2) /\ after = BOTTOM

Ordered(parts) ==
    /\ parts \in Seq(Parts)
    /\ \A k \in 1 .. Len(parts) - 1 : parts[k] # BOTTOM /\ Follows(parts[k], parts[k + 1])

LEMMA ListElements ==
    ASSUME tables \in Tables, NEW l \in {1, 2}
    PROVE  /\ ListParts(l) \in Seq(Parts) /\ Len(ListParts(l)) = tables.rows[l] + 2
           /\ \A k \in 1 .. tables.rows[l] + 1 : ListParts(l)[k] = <<l, k - 1>>
           /\ ListParts(l)[tables.rows[l] + 2] = EndOf(l)
<1> DEFINE n == tables.rows[l]
           rows == [r \in 1 .. n |-> RowOf(l, r)]
           upTo == <<HeadOf(l)>> \o rows
<1>1. n \in Nat
  BY RowNumbers
<1> HIDE DEF n
<1>2. rows \in Seq(Parts) /\ Len(rows) = n /\ \A k \in 1 .. n : rows[k] = <<l, k>>
  <2>1. \A k \in 1 .. n : RowOf(l, k) \in Parts
    BY ListPart DEF RowOf
  <2>2. rows \in [1 .. n -> Parts]
    BY <2>1
  <2>3. \A k \in 1 .. n : rows[k] = <<l, k>>
    BY DEF RowOf
  <2> HIDE DEF rows
  <2> QED  BY <1>1, <2>2, <2>3, IsASeq, LenProperties
<1> HIDE DEF rows
<1>3. /\ <<HeadOf(l)>> \in Seq(Parts) /\ Len(<<HeadOf(l)>>) = 1 /\ <<HeadOf(l)>>[1] = <<l, 0>>
      /\ <<EndOf(l)>> \in Seq(Parts) /\ Len(<<EndOf(l)>>) = 1 /\ <<EndOf(l)>>[1] = EndOf(l)
  <2>1. HeadOf(l) \in Parts /\ EndOf(l) \in Parts /\ HeadOf(l) = <<l, 0>>
    BY ListPart, EndParts DEF HeadOf
  <2> QED  BY <2>1, One
<1>4. /\ upTo \in Seq(Parts) /\ Len(upTo) = n + 1
      /\ \A k \in 1 .. n + 1 : upTo[k] = <<l, k - 1>>
  <2>1. /\ upTo \in Seq(Parts) /\ Len(upTo) = 1 + n
        /\ \A k \in 1 .. 1 + n : upTo[k] = IF k <= 1 THEN <<HeadOf(l)>>[k] ELSE rows[k - 1]
    BY <1>2, <1>3, ConcatProperties
  <2>2. ASSUME NEW k \in 1 .. n + 1 PROVE upTo[k] = <<l, k - 1>>
    <3>0. k \in 1 .. 1 + n
      BY <1>1
    <3>1. CASE k = 1
      <4>1. upTo[1] = <<HeadOf(l)>>[1] /\ 1 - 1 = 0
        BY <2>1, <3>0, <3>1
      <4> QED  BY <1>3, <3>1, <4>1
    <3>2. CASE k > 1
      <4>1. k - 1 \in 1 .. n /\ ~(k <= 1)
        BY <1>1, <3>2
      <4>2. rows[k - 1] = <<l, k - 1>>
        BY <1>2, <4>1
      <4>3. upTo[k] = rows[k - 1]
        BY <2>1, <3>0, <4>1
      <4> QED  BY <4>2, <4>3
    <3>3. k = 1 \/ k > 1
      BY <1>1
    <3> QED  BY <3>1, <3>2, <3>3
  <2> HIDE DEF upTo
  <2>3. Len(upTo) = n + 1
    BY <1>1, <2>1
  <2> QED  BY <2>1, <2>2, <2>3
<1>5. ListParts(l) = upTo \o <<EndOf(l)>>
  BY DEF ListParts, upTo, rows, n
<1> HIDE DEF upTo
<1>6. /\ upTo \o <<EndOf(l)>> \in Seq(Parts) /\ Len(upTo \o <<EndOf(l)>>) = (n + 1) + 1
      /\ \A k \in 1 .. (n + 1) + 1 :
             (upTo \o <<EndOf(l)>>)[k] = IF k <= n + 1 THEN upTo[k] ELSE <<EndOf(l)>>[k - (n + 1)]
  BY <1>3, <1>4, ConcatProperties
<1>7. \A k \in 1 .. n + 1 : ListParts(l)[k] = <<l, k - 1>>
  BY <1>1, <1>4, <1>5, <1>6
<1>8. ListParts(l)[n + 2] = EndOf(l)
  <2>1. n + 2 \in 1 .. (n + 1) + 1 /\ ~(n + 2 <= n + 1) /\ (n + 2) - (n + 1) = 1
    BY <1>1
  <2> QED  BY <1>3, <1>5, <1>6, <2>1
<1>9. Len(ListParts(l)) = n + 2 /\ ListParts(l) \in Seq(Parts)
  BY <1>1, <1>5, <1>6
<1> QED  BY <1>7, <1>8, <1>9 DEF n

LEMMA OneList ==
    ASSUME tables \in Tables, NEW l \in {1, 2}
    PROVE  /\ Ordered(ListParts(l)) /\ Len(ListParts(l)) = tables.rows[l] + 2
           /\ ListParts(l)[1] = HeadOf(l) /\ ListParts(l)[tables.rows[l] + 2] = EndOf(l)
<1> DEFINE n == tables.rows[l]
<1>1. n \in Nat
  BY RowNumbers
<1> HIDE DEF n
<1>2. /\ ListParts(l) \in Seq(Parts) /\ Len(ListParts(l)) = n + 2
      /\ \A k \in 1 .. n + 1 : ListParts(l)[k] = <<l, k - 1>>
      /\ ListParts(l)[n + 2] = EndOf(l)
  BY ListElements DEF n
<1>3. ASSUME NEW k \in 1 .. n + 1
      PROVE  ListParts(l)[k] # BOTTOM /\ Follows(ListParts(l)[k], ListParts(l)[k + 1])
  <2>1. k - 1 \in Nat /\ k - 1 <= n /\ ListParts(l)[k] = <<l, k - 1>>
    BY <1>1, <1>2
  <2>2. ListParts(l)[k] # BOTTOM
    BY <2>1 DEF BOTTOM
  <2>3. CASE k < n + 1
    <3>1. k + 1 \in 1 .. n + 1 /\ (k + 1) - 1 = (k - 1) + 1 /\ k - 1 < n
      BY <1>1, <2>3
    <3>2. ListParts(l)[k + 1] = <<l, (k - 1) + 1>>
      BY <1>2, <3>1
    <3> QED  BY <2>1, <2>2, <3>1, <3>2 DEF Follows, n
  <2>4. CASE k = n + 1
    <3>1. k + 1 = n + 2 /\ ~(k - 1 < n)
      BY <1>1, <2>4
    <3> QED  BY <1>2, <2>1, <2>2, <3>1 DEF Follows, n
  <2> QED  BY <1>1, <2>3, <2>4
<1>4. ListParts(l)[1] = HeadOf(l)
  <2>1. 1 \in 1 .. n + 1 /\ 1 - 1 = 0
    BY <1>1
  <2> QED  BY <1>2, <2>1 DEF HeadOf
<1>5. (n + 2) - 1 = n + 1
  BY <1>1
<1> QED  BY <1>2, <1>3, <1>4, <1>5 DEF Ordered, n

LEMMA Chained ==
    ASSUME NEW s, Ordered(s), NEW t, Ordered(t), s # <<>>, t # <<>>,
           s[Len(s)] # BOTTOM, Follows(s[Len(s)], t[1])
    PROVE  /\ Ordered(s \o t) /\ Len(s \o t) = Len(s) + Len(t) /\ s \o t # <<>>
           /\ (s \o t)[1] = s[1] /\ (s \o t)[Len(s \o t)] = t[Len(t)]
<1>1. /\ s \in Seq(Parts) /\ t \in Seq(Parts) /\ Len(s) \in Nat /\ Len(t) \in Nat
      /\ Len(s) # 0 /\ Len(t) # 0
  BY LenProperties, EmptySeq DEF Ordered
<1>2. /\ s \o t \in Seq(Parts) /\ Len(s \o t) = Len(s) + Len(t)
      /\ \A i \in 1 .. Len(s) + Len(t) : (s \o t)[i] = IF i <= Len(s) THEN s[i] ELSE t[i - Len(s)]
  BY <1>1, ConcatProperties
<1>3. \A k \in 1 .. Len(s) + Len(t) - 1 : (s \o t)[k] # BOTTOM /\ Follows((s \o t)[k], (s \o t)[k + 1])
  <2> SUFFICES ASSUME NEW k \in 1 .. Len(s) + Len(t) - 1
               PROVE  (s \o t)[k] # BOTTOM /\ Follows((s \o t)[k], (s \o t)[k + 1])
    OBVIOUS
  <2>1. CASE k < Len(s)
    <3>1. (s \o t)[k] = s[k] /\ (s \o t)[k + 1] = s[k + 1]
      BY <1>1, <1>2, <2>1
    <3>2. k \in 1 .. Len(s) - 1
      BY <1>1, <2>1
    <3> QED  BY <3>1, <3>2 DEF Ordered
  <2>2. CASE k = Len(s)
    <3>1. (s \o t)[k] = s[Len(s)] /\ (s \o t)[k + 1] = t[1]
      BY <1>1, <1>2, <2>2
    <3> QED  BY <3>1
  <2>3. CASE k > Len(s)
    <3>1. (s \o t)[k] = t[k - Len(s)] /\ (s \o t)[k + 1] = t[(k - Len(s)) + 1]
      BY <1>1, <1>2, <2>3
    <3>2. k - Len(s) \in 1 .. Len(t) - 1
      BY <1>1, <2>3
    <3> QED  BY <3>1, <3>2 DEF Ordered
  <2> QED  BY <1>1, <2>1, <2>2, <2>3
<1>4. s \o t # <<>>
  BY <1>1, <1>2, Nothing
<1>5. (s \o t)[1] = s[1] /\ (s \o t)[Len(s) + Len(t)] = t[Len(t)]
  BY <1>1, <1>2
<1> QED  BY <1>2, <1>3, <1>4, <1>5 DEF Ordered

\* The page begins with the status line, ends with BOTTOM, and its parts
\* are in their order.
LEMMA PageOrdered ==
    ASSUME tables \in Tables
    PROVE  /\ Ordered(Page) /\ Len(Page) \in Nat /\ Len(Page) > 0
           /\ Page[1] = Status /\ Page[Len(Page)] = BOTTOM
<1> DEFINE head == <<Status, Type, TOP>>
           first == head \o ListParts(1)
           rest == IF tables.linked THEN ListParts(2) ELSE <<>>
           both == first \o rest
<1>1. /\ Ordered(head) /\ Len(head) = 3 /\ head # <<>> /\ head[1] = Status /\ head[3] = TOP
  <2>1. head \in Seq(Parts)
    BY ConstantParts
  <2>2. /\ Len(head) = 3 /\ head # <<>> /\ head[1] = Status /\ head[2] = Type /\ head[3] = TOP
    OBVIOUS
  <2>3. \A k \in 1 .. 2 : head[k] # BOTTOM /\ Follows(head[k], head[k + 1])
    <3> SUFFICES ASSUME NEW k \in 1 .. 2 PROVE head[k] # BOTTOM /\ Follows(head[k], head[k + 1])
      OBVIOUS
    <3>1. k = 1 \/ k = 2
      OBVIOUS
    <3> HIDE DEF head
    <3>2. CASE k = 1
      BY <2>2, <3>2, ConstantParts DEF Follows
    <3>3. CASE k = 2
      BY <2>2, <3>3, ConstantParts DEF Follows
    <3> QED  BY <3>1, <3>2, <3>3
  <2>4. Len(head) - 1 = 2
    BY <2>2
  <2> HIDE DEF head
  <2> QED  BY <2>1, <2>2, <2>3, <2>4 DEF Ordered
<1>2. \A l \in {1, 2} : ListParts(l) # <<>> /\ EndOf(l) # BOTTOM
  <2> SUFFICES ASSUME NEW l \in {1, 2} PROVE ListParts(l) # <<>> /\ EndOf(l) # BOTTOM
    OBVIOUS
  <2>1. Len(ListParts(l)) = tables.rows[l] + 2 /\ tables.rows[l] \in Nat
    BY OneList, RowNumbers
  <2>2. Len(ListParts(l)) # 0
    BY <2>1
  <2>3. EndOf(l) # BOTTOM
    BY EndParts, ConstantParts
  <2> QED  BY <2>2, <2>3, Nothing
<1> HIDE DEF head
<1>3. /\ Ordered(first) /\ first # <<>> /\ first[1] = Status /\ first[Len(first)] = EndOf(1)
  <2>1. /\ Ordered(ListParts(1)) /\ ListParts(1)[1] = HeadOf(1)
        /\ ListParts(1)[Len(ListParts(1))] = EndOf(1) /\ ListParts(1) # <<>>
    BY <1>2, OneList
  <2>2. Follows(head[Len(head)], ListParts(1)[1]) /\ head[Len(head)] # BOTTOM
    BY <1>1, <2>1, ConstantParts DEF Follows
  <2> QED  BY <1>1, <2>1, <2>2, Chained
<1> HIDE DEF first
<1>4. /\ Ordered(both) /\ both # <<>> /\ both[1] = Status
      /\ both[Len(both)] # BOTTOM /\ Follows(both[Len(both)], BOTTOM)
  <2>1. CASE tables.linked
    <3>1. rest = ListParts(2)
      BY <2>1
    <3>2. Follows(first[Len(first)], ListParts(2)[1]) /\ first[Len(first)] # BOTTOM
      BY <1>2, <1>3, <2>1, OneList DEF Follows
    <3>3. /\ Ordered(first \o ListParts(2)) /\ first \o ListParts(2) # <<>>
          /\ (first \o ListParts(2))[1] = Status
          /\ (first \o ListParts(2))[Len(first \o ListParts(2))] = EndOf(2)
      BY <1>2, <1>3, <3>2, OneList, Chained
    <3>4. Follows(EndOf(2), BOTTOM) /\ EndOf(2) # BOTTOM
      BY <1>2 DEF Follows
    <3> QED  BY <3>1, <3>3, <3>4
  <2>2. CASE ~(tables.linked)
    <3>1. both = first
      <4>1. rest = <<>> /\ first \in Seq(Parts)
        BY <1>3, <2>2 DEF Ordered
      <4> QED  BY <4>1, ConcatEmptySeq
    <3>2. Follows(EndOf(1), BOTTOM) /\ EndOf(1) # BOTTOM
      BY <1>2, <2>2 DEF Follows
    <3> HIDE DEF both
    <3> QED  BY <1>3, <3>1, <3>2
  <2> QED  BY <2>1, <2>2
<1>5. /\ Ordered(<<BOTTOM>>) /\ <<BOTTOM>> # <<>> /\ <<BOTTOM>>[1] = BOTTOM /\ Len(<<BOTTOM>>) = 1
  BY ConstantParts DEF Ordered
<1>6. Page = both \o <<BOTTOM>>
  BY DEF Page, both, first, head
<1> HIDE DEF both
<1>7. /\ Ordered(both \o <<BOTTOM>>) /\ both \o <<BOTTOM>> # <<>>
      /\ (both \o <<BOTTOM>>)[1] = Status
      /\ (both \o <<BOTTOM>>)[Len(both \o <<BOTTOM>>)] = BOTTOM
  BY <1>4, <1>5, Chained
<1>8. Len(Page) \in Nat /\ Len(Page) # 0
  BY <1>6, <1>7, LenProperties, EmptySeq DEF Ordered
<1> QED  BY <1>6, <1>7, <1>8

\* Where the iterator of a list is when a row of it was sent last.
AtRow(part) == InList(part) /\ part[2] > 0 => cursor[part[1]] = part[2]

\* generate_routes sends the parts in the order of the page.
LEMMA NextFollows ==
    ASSUME CursorType, NEW part, NEW after, Follows(part, after), AtRow(part)
    PROVE  /\ NextPart(part) = after /\ after # Begin
           /\ InList(after) /\ after[2] > 0 =>
                InList(part) /\ part[1] = after[1] /\ Cursor(part) = after[2]
<1>1. ASSUME NEW l \in {1, 2}, NEW p \in Nat, part = <<l, p>>, p <= tables.rows[l],
             after = IF p < tables.rows[l] THEN <<l, p + 1>> ELSE EndOf(l)
      PROVE  /\ NextPart(part) = after /\ after # Begin
             /\ InList(after) => InList(part) /\ part[1] = after[1] /\ Cursor(part) = after[2]
  <2>1. InList(part) /\ part[1] = l /\ part[2] = p /\ tables.rows[l] \in Nat
    BY <1>1, ListPart, RowNumbers DEF CursorType
  <2>2. p > 0 => cursor[l] = p
    BY <2>1 DEF AtRow
  <2>3. Cursor(part) = p + 1
    BY <1>1, <2>1, <2>2 DEF Cursor, FirstRow, RowAfter
  <2>4. NextPart(part) = RowOrEnd(l, p + 1)
    BY <2>1, <2>3 DEF NextPart
  <2>5. NextPart(part) = after
    BY <1>1, <2>1, <2>4 DEF RowOrEnd, RowOf
  <2>6. after # Begin /\ (InList(after) => after = <<l, p + 1>>)
    BY <1>1, EndParts DEF Begin, EndOf
  <2> QED  BY <2>1, <2>3, <2>5, <2>6
<1>2. ASSUME part \in {Status, Type, TOP, EndOf(1), EndOf(2)}
      PROVE  /\ NextPart(part) = after /\ after # Begin
             /\ ~(InList(after) /\ after[2] > 0)
  <2>1. \A l \in {1, 2}, p \in Nat : part # <<l, p>>
    BY <1>2, ListPart, ConstantParts
  <2>2. /\ EndOf(1) # EndOf(2)
        /\ \A l \in {1, 2} : EndOf(l) \notin Constants
    BY EndParts
  <2>3. NextPart(part) = after /\ after \in {Type, TOP, HeadOf(1), HeadOf(2), BOTTOM}
    BY <1>2, <2>1, <2>2, AfterConstant, AfterList, ConstantParts DEF Follows
  <2>4. ~(InList(after) /\ after[2] > 0) /\ after # Begin
    BY <2>3, ConstantParts DEF HeadOf, Begin
  <2> QED  BY <2>3, <2>4
<1>3. CASE part \in {Status, Type, TOP, EndOf(1), EndOf(2)}
  BY <1>2, <1>3
<1>4. CASE \E l \in {1, 2}, p \in Nat :
               /\ part = <<l, p>> /\ p <= tables.rows[l]
               /\ after = IF p < tables.rows[l] THEN <<l, p + 1>> ELSE EndOf(l)
  BY <1>1, <1>4
<1> QED  BY <1>3, <1>4 DEF Follows

LEMMA FirstOnly ==
    ASSUME NEW S, NEW s \in Seq(S), Len(s) >= 1
    PROVE  SubSeq(s, 1, 1) = <<s[1]>>
<1>1. SubSeq(s, 1, 1) = SubSeq(s, 1, 1 - 1) \o <<s[1]>>
  BY LenProperties, SubSeqRecursiveSecond
<1>2. SubSeq(s, 1, 1 - 1) = <<>>
  BY SubSeqEmpty
<1>3. s[1] \in S
  BY ElementOfSeq, LenProperties
<1>4. <<s[1]>> \in Seq(S)
  BY <1>3
<1>5. <<>> \o <<s[1]>> = <<s[1]>>
  BY <1>4, ConcatEmptySeq
<1> QED  BY <1>1, <1>2, <1>5, Zenon

LEMMA OneMore ==
    ASSUME NEW S, NEW s \in Seq(S), NEW k \in Nat, k < Len(s)
    PROVE  /\ SubSeq(s, 1, k) \o <<s[k + 1]>> = SubSeq(s, 1, k + 1)
           /\ Len(SubSeq(s, 1, k + 1)) = k + 1
<1>1. \A i \in 1 .. k + 1 : s[i] \in S
  BY ElementOfSeq, LenProperties
<1>2. SubSeq(s, 1, k + 1) = SubSeq(s, 1, (k + 1) - 1) \o <<s[k + 1]>>
  BY LenProperties, SubSeqRecursiveSecond
<1>3. Len(SubSeq(s, 1, k + 1)) = k + 1
  BY <1>1, SubSeqProperties
<1> QED  BY <1>2, <1>3

-----------------------------------------------------------------------------
(* The page that arrives *)

\* Nobody else frees the slot of c, or writes to buf.
Undisturbed(c) ==
    Owns(c) /\ request[state[c]] = "headers" /\ \A d \in Conns \ {c} : ~Writing(d)

\* A page that is written alone: what has arrived is its beginning, the next
\* part is on its way, the buffer holds that part and nothing else, and the
\* iterators are where that part was found.
Written(c) ==
    LET s == state[c]
    IN  /\ Len(page[c]) < Len(Page) /\ page[c] = SubSeq(Page, 1, Len(page[c]))
        /\ at[s] = Page[Len(page[c]) + 1] /\ at[s] # Begin /\ segment[c] = <<at[s]>>
        /\ AtRow(at[s])
        /\ at[s] \in Constants => blen = 0
        /\ at[s] \notin Constants => blen = 1 /\ sendlen[s] = 1 /\ buf[1] = at[s]

InOrder(c) ==
    /\ phase[c] \in {"busy", "fin_wait"}
    /\ phase[c] = "busy" => Undisturbed(c) /\ Written(c)
    /\ phase[c] = "fin_wait" => page[c] = Page /\ segment[c] = <<>>

PageInv == Types /\ \A c \in Conns : alone[c] => InOrder(c)

LEMMA PageIntactHolds == PageInv => PageIntact
<1> SUFFICES ASSUME PageInv, NEW c \in Conns, alone[c]
             PROVE  /\ page[c] \o segment[c] = SubSeq(Page, 1, Len(page[c]) + Len(segment[c]))
                    /\ phase[c] = "fin_wait" => page[c] = Page
  BY DEF PageIntact
<1>1. Page \in Seq(Parts) /\ Len(Page) \in Nat /\ page[c] \in Seq(Parts) /\ Len(page[c]) \in Nat
  BY PageOrdered, LenProperties DEF Ordered, PageInv, Types, SendType, CursorType
<1>2. CASE phase[c] = "busy"
  <2>1. Written(c)
    BY <1>2 DEF PageInv, InOrder
  <2>2. Len(segment[c]) = 1 /\ segment[c] = <<Page[Len(page[c]) + 1]>>
    BY <2>1 DEF Written
  <2>3. page[c] \o segment[c] = SubSeq(Page, 1, Len(page[c])) \o <<Page[Len(page[c]) + 1]>>
    BY <2>1, <2>2 DEF Written
  <2>4. Len(page[c]) < Len(Page)
    BY <2>1 DEF Written
  <2>5. page[c] \o segment[c] = SubSeq(Page, 1, Len(page[c]) + 1)
    BY <1>1, <2>3, <2>4, OneMore
  <2> QED  BY <1>2, <2>2, <2>5
<1>3. CASE phase[c] = "fin_wait"
  <2>1. page[c] = Page /\ segment[c] = <<>> /\ Len(segment[c]) = 0
    BY <1>3, Nothing DEF PageInv, InOrder
  <2>2. page[c] \o segment[c] = Page
    BY <1>1, <2>1, ConcatEmptySeq
  <2>3. SubSeq(Page, 1, Len(Page)) = Page
    BY <1>1, SubSeqFull
  <2> QED  BY <1>1, <2>1, <2>2, <2>3
<1> QED  BY <1>2, <1>3 DEF PageInv, InOrder

LEMMA PageInit == Init => PageInv
  BY TypesInit DEF Init, PageInv

LEMMA SamePage ==
    ASSUME tables' = tables
    PROVE  Page' = Page
  BY DEF Page, ListParts

\* A page stays in order if its connection stays as it is, and what it is
\* written with, too.
LEMMA LoneKept ==
    ASSUME NEW c \in Conns, InOrder(c), tables' = tables,
           phase'[c] = phase[c], state'[c] = state[c], page'[c] = page[c], segment'[c] = segment[c],
           phase[c] = "busy" =>
               /\ state[c] \in used' /\ \A d \in Conns \ {c} : Live(d)' => state'[d] # state[c]
               /\ \A d \in Conns \ {c} : ~Writing(d)'
               /\ request'[state[c]] = request[state[c]] /\ at'[state[c]] = at[state[c]]
               /\ sendlen'[state[c]] = sendlen[state[c]]
               /\ buf' = buf /\ blen' = blen /\ cursor' = cursor
    PROVE  InOrder(c)'
<1>1. Page' = Page
  BY SamePage
<1>2. CASE phase[c] = "busy"
  <2>1. Undisturbed(c) /\ Written(c)
    BY <1>2 DEF InOrder
  <2>2. Undisturbed(c)'
    BY <1>2, <2>1 DEF Undisturbed, Owns
  <2>3. AtRow(at[state[c]])'
    BY <1>2, <2>1 DEF Written, AtRow
  <2>4. Written(c)'
    BY <1>1, <1>2, <2>1, <2>3 DEF Written
  <2> QED  BY <1>2, <2>2, <2>4 DEF InOrder
<1>3. CASE phase[c] = "fin_wait"
  BY <1>1, <1>3 DEF InOrder
<1> QED  BY <1>2, <1>3 DEF InOrder

\* A page that is being written is the only one.
LEMMA NoOther ==
    ASSUME PageInv, NEW c \in Conns, Writing(c), NEW d \in Conns \ {c}, alone[d]
    PROVE  phase[d] = "fin_wait" /\ page[d] = Page /\ segment[d] = <<>>
  BY DEF PageInv, InOrder, Undisturbed

\* A step of c that does not make c write, and does nothing to the slot of d,
\* the buffer and the iterators.
LEMMA PageQuiet ==
    ASSUME PageInv, NEW c \in Conns, NEW d \in Conns, alone[d], d # c,
           tables' = tables, \A e \in Conns \ {c} : phase'[e] = phase[e] /\ state'[e] = state[e],
           page'[d] = page[d], segment'[d] = segment[d], ~Writing(c)',
           \A s \in Slots : request'[s] = "headers" => request[s] = "headers",
           buf' = buf, blen' = blen, cursor' = cursor,
           phase[d] = "busy" =>
               /\ state[d] \in used' /\ (Live(c)' => state'[c] # state[d])
               /\ request'[state[d]] = request[state[d]] /\ at'[state[d]] = at[state[d]]
               /\ sendlen'[state[d]] = sendlen[state[d]]
    PROVE  InOrder(d)'
<1>1. InOrder(d) /\ PoolType
  BY DEF PageInv, Types
<1>2. ASSUME phase[d] = "busy"
      PROVE  /\ state[d] \in used' /\ \A e \in Conns \ {d} : Live(e)' => state'[e] # state[d]
             /\ \A e \in Conns \ {d} : ~Writing(e)'
             /\ request'[state[d]] = request[state[d]] /\ at'[state[d]] = at[state[d]]
             /\ sendlen'[state[d]] = sendlen[state[d]]
  <2>1. Owns(d) /\ \A e \in Conns \ {d} : ~Writing(e)
    BY <1>1, <1>2 DEF InOrder, Undisturbed
  <2>3. ASSUME NEW e \in Conns \ {d}, Live(e)' PROVE state'[e] # state[d]
    BY <1>2, <2>1, <2>3 DEF Owns, Live
  <2>4. ASSUME NEW e \in Conns \ {d}, e # c PROVE ~Writing(e)'
    <3> SUFFICES ASSUME Open(e)', request'[state'[e]] = "headers" PROVE Writing(e)
      BY <2>1 DEF Writing
    <3>1. Open(e) /\ phase[e] # "none" /\ state'[e] = state[e]
      BY <2>4 DEF Open
    <3>2. state[e] \in Slots
      BY <1>1, <3>1, HasSlot
    <3> QED  BY <3>1, <3>2 DEF Writing
  <2> QED  BY <1>2, <2>3, <2>4
<1> QED  BY <1>1, <1>2, LoneKept

\* A page is begun.
LEMMA PageStart ==
    ASSUME NEW c \in Conns, PageInv, Types', Open(c), StartOutput(c), UNCHANGED <<poolVars, tables>>,
           request' = [request EXCEPT ![state[c]] = "headers"],
           NEW d \in Conns, alone'[d]
    PROVE  InOrder(d)'
<1>1. /\ phase[c] # "none" /\ state[c] \in Slots /\ state' = state /\ used' = used /\ tables' = tables
      /\ phase' = [phase EXCEPT ![c] = "busy"]
      /\ at' = [at EXCEPT ![state[c]] = Status]
      /\ UNCHANGED <<buf, blen, cursor>>
  BY HasSlot DEF Open, poolVars, PageInv, Types, StartOutput
<1>2. CASE d = c
  <2>1. /\ \A e \in Conns \ {c} : ~Writing(e)
        /\ blen = 0 /\ Owns(c) /\ page'[c] = <<>> /\ segment'[c] = <<Status>>
    BY <1>2 DEF StartOutput
  <2>2. phase'[c] = "busy" /\ \A e \in Conns \ {c} : phase'[e] = phase[e]
    BY <1>1 DEF PageInv, Types, PoolType
  <2>3. Owns(c)'
    BY <1>1, <2>1, <2>2 DEF Owns, Live
  <2>4. request'[state'[c]] = "headers" /\ at'[state'[c]] = Status
    BY <1>1 DEF PageInv, Types, SlotType, InputType, PartType
  <2>5. ASSUME NEW e \in Conns \ {c} PROVE ~Writing(e)'
    <3> SUFFICES ASSUME Open(e)', request'[state'[e]] = "headers" PROVE FALSE
      BY DEF Writing
    <3>1. Open(e) /\ Live(e)
      BY <2>2 DEF Open, Live
    <3>2. state[e] # state[c]
      BY <2>1, <3>1 DEF Owns
    <3>3. state[e] \in Slots
      BY <3>1, HasSlot DEF Open, PageInv, Types
    <3>4. request[state[e]] = "headers"
      BY <1>1, <3>2, <3>3 DEF PageInv, Types, SlotType, InputType
    <3> QED  BY <2>1, <3>1, <3>4 DEF Writing
  <2>6. Page' = Page /\ Len(Page) > 0 /\ Page[1] = Status
    BY <1>1, SamePage, PageOrdered DEF PageInv, Types, CursorType
  <2>7. SubSeq(Page, 1, 0) = <<>> /\ Len(<<>>) = 0
    BY SubSeqEmpty, Nothing
  <2>8. Status \in Constants /\ ~InList(Status) /\ Status # Begin
    BY ConstantParts
  <2>9. Written(c)'
    BY <1>1, <2>1, <2>4, <2>6, <2>7, <2>8 DEF Written, AtRow
  <2> QED  BY <1>2, <2>2, <2>3, <2>4, <2>5, <2>9 DEF InOrder, Undisturbed
<1>3. CASE d # c
  <2>1. alone[d] /\ ~Writing(d) /\ page'[d] = page[d] /\ segment'[d] = <<>>
    BY <1>3 DEF StartOutput
  <2>2. InOrder(d)
    BY <2>1 DEF PageInv
  <2>3. phase[d] = "fin_wait"
    BY <2>1, <2>2 DEF InOrder, Undisturbed, Writing, Open
  <2>4. phase'[d] = "fin_wait"
    BY <1>1, <1>3, <2>3 DEF PageInv, Types, PoolType
  <2>5. page[d] = Page /\ Page' = Page
    BY <1>1, <2>2, <2>3, SamePage DEF InOrder
  <2> QED  BY <2>1, <2>4, <2>5 DEF InOrder
<1> QED  BY <1>2, <1>3

\* The next part of a page is sent.
LEMMA PageNext ==
    ASSUME NEW c \in Conns, PageInv, alone[c], Open(c), SendNext(c),
           UNCHANGED <<poolVars, tables>>, request' = request
    PROVE  InOrder(c)'
<1> DEFINE s == state[c]
           k == Len(page[c])
<1>1. phase[c] = "busy" /\ Undisturbed(c) /\ Written(c)
  BY DEF PageInv, InOrder, Open
<1>2. state' = state /\ used' = used /\ tables' = tables /\ s \in Slots /\ Page' = Page
  BY <1>1, HasSlot, SamePage DEF poolVars, PageInv, Types
<1>3. /\ k \in Nat /\ Page \in Seq(Parts) /\ Len(Page) \in Nat /\ k < Len(Page)
      /\ at[s] = Page[k + 1] /\ segment[c] = <<Page[k + 1]>> /\ page[c] = SubSeq(Page, 1, k)
  BY <1>1, PageOrdered, LenProperties DEF Ordered, Written, PageInv, Types, SendType, CursorType
<1>4. page'[c] = SubSeq(Page, 1, k + 1) /\ Len(page'[c]) = k + 1
  <2>1. page'[c] = page[c] \o segment[c]
    BY DEF SendNext, PageInv, Types, SendType
  <2>2. page'[c] = SubSeq(Page, 1, k) \o <<Page[k + 1]>>
    BY <1>3, <2>1
  <2> HIDE DEF k
  <2> QED  BY <1>3, <2>2, OneMore
<1>5. LengthAfter(at[s]) = 0
  BY <1>1 DEF LengthAfter, Written
<1>6. CASE at[s] = BOTTOM
  <2>1. phase'[c] = "fin_wait" /\ segment'[c] = <<>>
    BY <1>6 DEF SendNext, Send, PageInv, Types, PoolType, SendType
  <2>2. k + 1 = Len(Page)
    <3> SUFFICES ASSUME k + 1 # Len(Page) PROVE FALSE
      OBVIOUS
    <3>1. k + 1 \in 1 .. Len(Page) - 1
      BY <1>3
    <3> HIDE DEF k
    <3> QED  BY <1>3, <1>6, <3>1, PageOrdered DEF Ordered, PageInv, Types, CursorType
  <2>3. page'[c] = Page
    BY <1>3, <1>4, <2>2, SubSeqFull
  <2> QED  BY <1>2, <2>1, <2>3 DEF InOrder
<1>7. CASE at[s] # BOTTOM
  <2> DEFINE after == Page[(k + 1) + 1]
  <2>1. k + 1 < Len(Page)
    BY <1>3, <1>7, PageOrdered DEF PageInv, Types, CursorType
  <2>2. after \in Parts /\ Follows(at[s], after)
    <3>1. k + 1 \in 1 .. Len(Page) - 1 /\ (k + 1) + 1 \in 1 .. Len(Page)
      BY <1>3, <2>1
    <3> HIDE DEF k
    <3>2. Page[(k + 1) + 1] \in Parts
      BY <1>3, <3>1, ElementOfSeq
    <3>3. Follows(at[s], Page[(k + 1) + 1])
      BY <1>3, <3>1, PageOrdered DEF Ordered, PageInv, Types, CursorType
    <3> QED  BY <3>2, <3>3
  <2>3. CursorType /\ AtRow(at[s])
    BY <1>1 DEF Written, PageInv, Types
  <2> HIDE DEF after
  <2>4. NextPart(at[s]) = after /\ after # Begin
    BY <2>2, <2>3, NextFollows
  <2>5. InList(after) /\ after[2] > 0 =>
          InList(at[s]) /\ at[s][1] = after[1] /\ Cursor(at[s]) = after[2]
    BY <2>2, <2>3, NextFollows
  <2>6. InList(after) /\ after[2] > 0 => cursor'[after[1]] = after[2]
    <3> SUFFICES ASSUME InList(after), after[2] > 0 PROVE cursor'[after[1]] = after[2]
      OBVIOUS
    <3>1. InList(at[s]) /\ at[s][1] = after[1] /\ Cursor(at[s]) = after[2]
      BY <2>5
    <3>2. cursor' = [cursor EXCEPT ![at[s][1]] = Cursor(at[s])]
      BY <3>1 DEF SendNext
    <3>3. after[1] \in {1, 2}
      BY DEF InList
    <3> QED  BY <2>3, <3>1, <3>2, <3>3 DEF CursorType
  <2>7. at'[s] = after /\ phase' = phase
    BY <1>2, <1>7, <2>4 DEF SendNext, PageInv, Types, SlotType, PartType
  <2>8. Undisturbed(c)'
    BY <1>1, <1>2, <2>7 DEF Undisturbed, Owns, Live, Writing, Open
  <2>9. CASE after \in Constants
    <3>1. segment'[c] = <<after>> /\ blen' = 0
      BY <1>5, <1>7, <2>4, <2>9 DEF SendNext, Send, PageInv, Types, SendType
    <3>2. Written(c)'
      BY <1>2, <1>4, <2>1, <2>4, <2>6, <2>7, <2>9, <3>1 DEF Written, AtRow, after
    <3> QED  BY <1>1, <2>7, <2>8, <3>2 DEF InOrder
  <2>10. CASE after \notin Constants
    <3>1. /\ buf' = Add(after, 0 + 1) /\ blen' = 0 + 1 /\ sendlen'[s] = blen'
          /\ segment'[c] = SubSeq(buf', 1, blen')
      BY <1>2, <1>5, <1>7, <2>4, <2>10 DEF SendNext, Send, PageInv, Types, SendType, SlotType, PartType
    <3>2. buf' \in Seq(Parts) /\ 1 <= Len(buf') /\ buf'[1] = after
      <4>1. buf \in Seq(Parts) /\ Len(buf) \in Nat
        BY LenProperties DEF PageInv, Types, BufType
      <4>2. buf' = Add(after, 1)
        BY <3>1
      <4>3. after \in Parts /\ 1 \in Nat /\ 1 > 0 /\ 1 <= Len(buf) + 1
        BY <2>2, <4>1
      <4>4. /\ Add(after, 1) \in Seq(Parts) /\ 1 <= Len(Add(after, 1))
            /\ Add(after, 1)[1] = after
        BY <4>1, <4>3, Added
      <4> QED  BY <4>2, <4>4
    <3>3. blen' = 1 /\ sendlen'[s] = 1 /\ segment'[c] = <<after>>
      BY <3>1, <3>2, FirstOnly
    <3>4. Written(c)'
      BY <1>2, <1>4, <2>1, <2>4, <2>6, <2>7, <2>10, <3>2, <3>3 DEF Written, AtRow, after
    <3> QED  BY <1>1, <2>7, <2>8, <3>4 DEF InOrder
  <2> QED  BY <2>9, <2>10
<1> QED  BY <1>6, <1>7

\* Nothing changes that a page depends on.
LEMMA LoneSame ==
    ASSUME PageInv, NEW d \in Conns, alone[d], segment'[d] = segment[d],
           UNCHANGED <<phase, state, used, request, page, at, sendlen, buf, blen, cursor, tables>>
    PROVE  InOrder(d)'
<1>1. InOrder(d)
  BY DEF PageInv
<1>2. (\A e \in Conns : Writing(e)' <=> Writing(e)) /\ (\A e \in Conns : Live(e)' <=> Live(e))
  BY DEF Writing, Open, Live
<1> QED  BY <1>1, <1>2, LoneKept DEF InOrder, Undisturbed, Owns

LEMMA PageOutput ==
    ASSUME NEW c \in Conns, NEW event, PageInv, Types', Writing(c), Output(c, event),
           UNCHANGED <<poolVars, tables>>, request' = request, NEW d \in Conns, alone'[d]
    PROVE  InOrder(d)'
<1>1. /\ Open(c) /\ request[state[c]] = "headers" /\ phase[c] # "none" /\ state[c] \in Slots
      /\ UNCHANGED <<state, used, tables>>
  BY HasSlot DEF Writing, Open, PageInv, Types, poolVars
<1>2. CASE StartOutput(c)
  <2>1. request' = [request EXCEPT ![state[c]] = "headers"]
    BY <1>1 DEF PageInv, Types, SlotType, InputType
  <2> QED  BY <1>1, <1>2, <2>1, PageStart
<1>3. CASE UNCHANGED <<phase, alone, segment, page, at, sendlen, buf, blen, cursor>>
  BY <1>1, <1>3, LoneSame
<1>4. CASE SendNext(c)
  <2>1. alone' = alone
    BY <1>4 DEF SendNext
  <2>2. CASE d = c
    BY <1>1, <1>4, <2>1, <2>2, PageNext
  <2>3. CASE d # c
    <3>1. alone[d] /\ phase[d] = "fin_wait"
      BY <2>1, <2>3, NoOther
    <3>2. /\ page'[d] = page[d] /\ segment'[d] = segment[d] /\ phase'[d] = phase[d]
      BY <1>4, <2>3 DEF SendNext, Send, PageInv, Types, SendType, PoolType
    <3>3. InOrder(d)
      BY <3>1 DEF PageInv
    <3> QED  BY <1>1, <3>1, <3>2, <3>3, LoneKept
  <2> QED  BY <2>2, <2>3
<1>5. CASE SendAgain(c)
  <2>1. UNCHANGED <<phase, alone, page, at, sendlen, buf, blen, cursor>>
    BY <1>5 DEF SendAgain
  <2>2. segment'[d] = segment[d]
    <3>1. CASE d # c
      BY <1>5, <3>1 DEF SendAgain, Send, PageInv, Types, SendType
    <3>2. CASE d = c
      <4>1. Written(c)
        BY <1>1, <2>1, <3>2 DEF PageInv, InOrder, Open
      <4>2. segment'[c] = IF at[state[c]] \in Constants THEN <<at[state[c]]>>
                          ELSE SubSeq(buf, 1, sendlen[state[c]])
        BY <1>5, <2>1, <3>2 DEF SendAgain, Send, PageInv, Types, SendType
      <4>3. CASE at[state[c]] \in Constants
        BY <3>2, <4>1, <4>2, <4>3 DEF Written
      <4>4. CASE at[state[c]] \notin Constants
        <5>1. sendlen[state[c]] = 1 /\ buf[1] = at[state[c]] /\ segment[c] = <<at[state[c]]>>
          BY <4>1, <4>4 DEF Written
        <5>2. buf \in Seq(Parts) /\ Len(buf) >= 1
          BY <1>1, <5>1, LenProperties DEF PageInv, Types, BufType
        <5>3. SubSeq(buf, 1, 1) = <<buf[1]>>
          BY <5>2, FirstOnly
        <5> QED  BY <3>2, <4>2, <4>4, <5>1, <5>3
      <4> QED  BY <4>3, <4>4
    <3> QED  BY <3>1, <3>2
  <2> QED  BY <1>1, <2>1, <2>2, LoneSame
<1> QED  BY <1>2, <1>3, <1>4, <1>5 DEF Output, outputVars, pageVars

\* A connection is given up, with its slot.
LEMMA PageFreed ==
    ASSUME PageInv, NEW c \in Conns, phase[c] # "none", Drop(c, "none") \/ Drop(c, "ended"), Free(c),
           \A s \in Slots \ {state[c]} : request'[s] = request[s] /\ at'[s] = at[s] /\ sendlen'[s] = sendlen[s],
           request'[state[c]] = request[state[c]] \/ request'[state[c]] = "method",
           UNCHANGED <<buf, blen, cursor, tables>>, NEW d \in Conns, alone'[d]
    PROVE  InOrder(d)'
<1>1. alone[d] /\ state[d] # state[c] /\ page'[d] = page[d] /\ segment'[d] = segment[d]
      /\ used' = used \ {state[c]}
  BY DEF Free, Alone
<1>2. /\ phase'[c] \in {"none", "ended"}
      /\ \A e \in Conns \ {c} : phase'[e] = phase[e] /\ state'[e] = state[e]
  BY DEF Drop, PageInv, Types, PoolType
<1>3. ~Writing(c)' /\ ~Live(c)'
  BY <1>2 DEF Writing, Open, Live
<1>4. \A s \in Slots : request'[s] = "headers" => request[s] = "headers"
  OBVIOUS
<1>5. ASSUME phase[d] = "busy" PROVE state[d] \in Slots /\ state[d] \in used
  BY <1>1, <1>5 DEF PageInv, InOrder, Undisturbed, Owns, Types, PoolType
<1> QED  BY <1>1, <1>2, <1>3, <1>4, <1>5, PageQuiet

LEMMA PageStep == PageInv /\ [Next]_vars => PageInv'
<1> SUFFICES ASSUME PageInv, [Next]_vars, NEW d \in Conns, alone'[d] PROVE InOrder(d)'
  BY TypesStep DEF PageInv
<1>0. Types /\ Types' /\ PoolType
  BY TypesStep DEF PageInv, Types
<1>1. CASE UNCHANGED <<phase, state, used, request, alone, segment, page, at, sendlen, buf, blen, cursor,
                       tables>>
  BY <1>1, LoneSame
<1>2. CASE UNCHANGED vars
  BY <1>1, <1>2 DEF vars, outputVars, pageVars, inputVars, poolVars
<1>3. ASSUME NEW c \in Conns, Connected(c) PROVE InOrder(d)'
  <2>1. CASE UNCHANGED <<outputVars, inputVars, poolVars>>
    <3>1. UNCHANGED tables
      BY <1>3 DEF Connected
    <3> QED  BY <1>1, <2>1, <3>1 DEF outputVars, pageVars, inputVars, poolVars
  <2>2. ASSUME NEW t \in Slots, used # Slots, t = CHOOSE u \in Slots : u \notin used,
               used' = used \cup {t}, state' = [state EXCEPT ![c] = t],
               phase' = [phase EXCEPT ![c] = "idle"],
               request' = [request EXCEPT ![t] = "method"],
               at' = [at EXCEPT ![t] = Begin], sendlen' = [sendlen EXCEPT ![t] = 0],
               UNCHANGED <<pageVars, buf, blen, cursor>>
        PROVE  InOrder(d)'
    <3>1. UNCHANGED <<alone, page, segment, tables>> /\ alone[d] /\ phase[c] = "none"
      BY <1>3, <2>2 DEF Connected, pageVars
    <3>2. InOrder(d) /\ d # c /\ t \notin used
      BY <1>0, <2>2, <3>1 DEF PageInv, InOrder, PoolType
    <3>3. /\ \A e \in Conns \ {c} : phase'[e] = phase[e] /\ state'[e] = state[e]
          /\ state'[c] = t
      BY <1>0, <2>2 DEF PoolType
    <3>4. /\ request'[t] = "method"
          /\ \A s \in Slots \ {t} : request'[s] = request[s] /\ at'[s] = at[s] /\ sendlen'[s] = sendlen[s]
      BY <1>0, <2>2 DEF Types, SlotType, InputType, PartType
    <3>5. ~Writing(c)'
      BY <3>3, <3>4 DEF Writing
    <3>6. ASSUME phase[d] = "busy" PROVE state[d] \in Slots /\ state[d] \in used /\ state[d] # t
      BY <1>0, <3>2, <3>6 DEF InOrder, Undisturbed, Owns, PoolType
    <3>7. \A s \in Slots : request'[s] = "headers" => request[s] = "headers"
      BY <3>4
    <3> QED  BY <2>2, <3>1, <3>2, <3>3, <3>4, <3>5, <3>6, <3>7, PageQuiet
  <2> QED  BY <1>3, <2>1, <2>2 DEF Connected
<1>4. ASSUME NEW c \in Conns, Ended(c) PROVE InOrder(d)'
  <2>1. /\ phase[c] # "none" /\ state[c] \in Slots /\ Free(c) /\ (Drop(c, "none") \/ Drop(c, "ended"))
        /\ UNCHANGED <<buf, blen, cursor, tables>>
    BY <1>0, <1>4, HasSlot DEF Ended
  <2>2. /\ \A s \in Slots \ {state[c]} :
               request'[s] = request[s] /\ at'[s] = at[s] /\ sendlen'[s] = sendlen[s]
        /\ request'[state[c]] = request[state[c]] \/ request'[state[c]] = "method"
    BY <1>0, <1>4, <2>1 DEF Ended, Types, SlotType, InputType, PartType
  <2> QED  BY <2>1, <2>2, PageFreed
<1>5. ASSUME NEW c \in Conns, Forgotten(c) PROVE InOrder(d)'
  <2>1. /\ alone[d] /\ d # c /\ page'[d] = page[d] /\ segment'[d] = segment[d]
        /\ UNCHANGED <<used, request, at, sendlen, buf, blen, cursor, tables>>
    BY <1>5 DEF Forgotten, Alone
  <2>2. /\ phase'[c] = "none"
        /\ \A e \in Conns \ {c} : phase'[e] = phase[e] /\ state'[e] = state[e]
    BY <1>0, <1>5 DEF Forgotten, Drop, PoolType
  <2>3. ~Writing(c)' /\ ~Live(c)'
    BY <2>2 DEF Writing, Open, Live
  <2>4. phase[d] = "busy" => state[d] \in used
    BY <2>1 DEF PageInv, InOrder, Undisturbed, Owns
  <2> QED  BY <2>1, <2>2, <2>3, <2>4, PageQuiet
<1>6. ASSUME NEW c \in Conns, Poll(c) PROVE InOrder(d)'
  <2>1. phase[c] = "idle" /\ phase[c] # "none" /\ state[c] \in Slots /\ Open(c) /\ UNCHANGED tables
    BY <1>0, <1>6, HasSlot DEF Poll, Open
  <2>2. CASE expired[state[c]]
    <3>1. /\ Drop(c, "none") /\ Free(c) /\ UNCHANGED <<request, sendlen, buf, blen, cursor>>
          /\ at' = [at EXCEPT ![state[c]] = IF request[state[c]] = "headers" /\ @ = Begin THEN Status ELSE @]
      BY <1>6, <2>2 DEF Poll
    <3>2. \A s \in Slots \ {state[c]} : at'[s] = at[s]
      BY <1>0, <3>1 DEF Types, SlotType, PartType
    <3> QED  BY <2>1, <3>1, <3>2, PageFreed
  <2>3. CASE ~expired[state[c]]
    <3>1. /\ Writing(c) /\ Output(c, "poll") /\ UNCHANGED <<poolVars, tables>> /\ request' = request
      BY <1>6, <2>1, <2>3 DEF Poll, inputVars, Writing
    <3> QED  BY <1>0, <3>1, PageOutput
  <2> QED  BY <2>2, <2>3
\* A request that is not complete after the step goes on or is refused.
<1>7. ASSUME NEW c \in Conns, Open(c), request[state[c]] # "headers", alone' = alone,
             request' = request \/ \E r \in {"method", "path"} : request' = [request EXCEPT ![state[c]] = r],
             phase' = phase \/ \E p \in {"idle", "fin_wait"} : phase' = [phase EXCEPT ![c] = p],
             UNCHANGED <<state, used, page, segment, at, sendlen, buf, blen, cursor, tables>>
      PROVE  InOrder(d)'
  <2>1. state[c] \in Slots /\ Live(c)
    BY <1>0, <1>7, HasSlot DEF Open, Live
  <2>2. alone[d] /\ InOrder(d) /\ d # c
    BY <1>7 DEF PageInv, InOrder, Undisturbed, Open
  <2>3. \A e \in Conns \ {c} : phase'[e] = phase[e]
    BY <1>0, <1>7 DEF PoolType
  <2>4. /\ request'[state[c]] # "headers"
        /\ \A s \in Slots \ {state[c]} : request'[s] = request[s]
    BY <1>0, <1>7, <2>1 DEF Types, SlotType, InputType
  <2>5. ~Writing(c)'
    BY <1>7, <2>4 DEF Writing
  <2>6. phase[d] = "busy" => state[d] \in Slots /\ state[d] \in used /\ state[d] # state[c]
    BY <1>0, <2>1, <2>2 DEF InOrder, Undisturbed, Owns, PoolType
  <2>7. \A s \in Slots : request'[s] = "headers" => request[s] = "headers"
    BY <2>4
  <2> QED  BY <1>7, <2>2, <2>3, <2>4, <2>5, <2>6, <2>7, PageQuiet
<1>8. ASSUME NEW c \in Conns, Newdata(c) PROVE InOrder(d)'
  <2>1. Open(c) /\ UNCHANGED <<poolVars, tables, state, used>>
    BY <1>8 DEF Newdata, poolVars
  <2>2. CASE request[state[c]] = "headers" /\ Output(c, "newdata") /\ UNCHANGED request
    BY <1>0, <2>1, <2>2, PageOutput DEF Writing
  <2>3. CASE StartOutput(c) /\ request' = [request EXCEPT ![state[c]] = "headers"]
    BY <1>0, <2>1, <2>3, PageStart
  <2>4. CASE /\ request[state[c]] # "headers"
             /\ UNCHANGED <<alone, page, segment, at, sendlen, buf, blen, cursor>>
             /\ phase' = phase \/ phase' = [phase EXCEPT ![c] = "fin_wait"]
             /\ request' = request \/ \E r \in {"method", "path"} : request' = [request EXCEPT ![state[c]] = r]
    BY <1>7, <2>1, <2>4
  <2> QED  BY <1>8, <2>2, <2>3, <2>4 DEF Newdata, outputVars, pageVars
<1>9. ASSUME NEW c \in Conns, Acked(c) \/ Rexmit(c) PROVE InOrder(d)'
  <2>1. Open(c) /\ UNCHANGED <<poolVars, tables, state, used>> /\ request' = request
    BY <1>9 DEF Acked, Rexmit, Open, poolVars
  <2>2. ASSUME NEW event, request[state[c]] = "headers", Output(c, event) PROVE InOrder(d)'
    BY <1>0, <2>1, <2>2, PageOutput DEF Writing
  <2>3. CASE /\ request[state[c]] # "headers"
             /\ UNCHANGED <<alone, page, segment, at, sendlen, buf, blen, cursor>>
             /\ phase' = phase \/ phase' = [phase EXCEPT ![c] = "idle"]
    BY <1>7, <2>1, <2>3
  <2> QED  BY <1>9, <2>2, <2>3 DEF Acked, Rexmit, outputVars, pageVars
<1>10. ASSUME NEW s \in Slots, Elapse(s) PROVE InOrder(d)'
  BY <1>1, <1>10 DEF Elapse, outputVars, pageVars, poolVars
<1>11. CASE TablesChange
  BY <1>11 DEF TablesChange, Alone
<1> QED  BY <1>2, <1>3, <1>4, <1>5, <1>6, <1>8, <1>9, <1>10, <1>11 DEF Next

\* A page that no other page was written at the same time as, of tables that
\* stay as they are, arrives part by part as generate_routes means it,
\* whatever is sent twice, whatever happens to other connections and whatever
\* the numbers of neighbors and links.
THEOREM PagesAreIntact == Spec => []PageIntact
  BY PageInit, PageStep, PageIntactHolds, PTL DEF Spec
=============================================================================
