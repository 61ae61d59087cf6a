----------------------------- MODULE WebServer -----------------------------
(***************************************************************************)
(* The border router's web server: httpd-simple.c, which answers a request *)
(* per connection, and webserver.c, which writes the page.                 *)
(*                                                                         *)
(* Contiki's TCP, uIP, is not part of the repository.  It calls            *)
(* httpd_appcall, one call at a time, for a new connection, for data, for  *)
(* an acknowledgement, to have a segment sent again, from time to time     *)
(* while nothing waits to be acknowledged (a poll), and when a connection  *)
(* has ended.  The end may be reported twice: when the peer closes first,  *)
(* at its FIN and again when the server's own is acknowledged.  It may not *)
(* be reported at all: a connection that the server has closed and the     *)
(* peer has not is forgotten in time.  Of one that the server has aborted  *)
(* nothing more is heard.                                                  *)
(***************************************************************************)
EXTENDS Naturals, Sequences

CONSTANTS
    Conns,      \* the TCP connections that uIP has room for
    Slots,      \* the pool conns of httpd_state: CONNS of them
    NoSlot,     \* NULL
    Tables,     \* what may be listed: neighbors, and routing links with a parent
    MaxConnects,\* bound: connections made
    MaxChunks,  \* bound: pieces in which the data of requests comes
    MaxChanges  \* bound: changes of the tables

ASSUME PoolAssumption == NoSlot \notin Slots
ASSUME TablesAssumption ==
    Tables \subseteq [rows : [{1, 2} -> Nat], linked : BOOLEAN]
ASSUME BoundsAssumption ==
    MaxConnects \in Nat /\ MaxChunks \in Nat /\ MaxChanges \in Nat

VARIABLES
    phase,    \* of a connection: "none"; "idle"; "busy", when a segment waits
              \* to be acknowledged; "fin_wait", when the server has closed it;
              \* "ended", when its end was reported, not for the last time
    state,    \* the slot that a connection is marked with
    alone,    \* not in the code: whether the page has buf and lists to itself
    segment,  \* what the peer will have when it acknowledges, of such a page
    page,     \* not in the code: what it has of it
    used,     \* the slots allocated
    request,  \* of a slot: what handle_input waits for, "method", "path" or,
              \* in STATE_OUTPUT, "headers"
    expired,  \* of a slot: whether 10 s have passed since the timer was set
    script,   \* of a slot: whether the pointer to the script is set
    at,       \* of a slot: the part of the page that was sent last
    sendlen,  \* of a slot: how much of buf that is; 0: a constant
    buf, blen,\* the static buffer, and how much of it is filled
    cursor,   \* the static iterators nbr and link
    tables,   \* the neighbors and the routing links there are
    up,       \* whether the router runs
    connects, \* not in the code: connections made
    chunks,   \* not in the code: pieces of data that came
    changes   \* not in the code: changes of the tables

pageVars   == <<alone, segment, page>>
outputVars == <<phase, pageVars, script, at, sendlen, buf, blen, cursor, up>>
inputVars  == <<request, expired>>
poolVars   == <<state, used>>
countVars  == <<connects, chunks, changes>>
vars       == <<outputVars, inputVars, poolVars, tables, countVars>>

\* The parts of the page, <<list, number>>: the headers and what comes before
\* the lists, the head and the rows of each list, the ends of the lists, and
\* what comes after them.  Before the first one the page has not begun.
Begin  == <<0, 0>>
Status == <<0, 1>>
Type   == <<0, 2>>
TOP    == <<0, 3>>
BOTTOM == <<5, 0>>
HeadOf(l)   == <<l, 0>>
RowOf(l, r) == <<l, r>>
EndOf(l)    == <<l + 2, 0>>

\* These are sent from memory of their own, the others from buf.
Constants == {Status, Type, TOP, BOTTOM}

Init ==
    /\ phase = [c \in Conns |-> "none"] /\ state = [c \in Conns |-> NoSlot]
    /\ segment = [c \in Conns |-> <<>>] /\ page = [c \in Conns |-> <<>>]
    /\ alone = [c \in Conns |-> FALSE]
    /\ used = {} /\ request = [s \in Slots |-> "method"]
    /\ expired = [s \in Slots |-> FALSE] /\ script = [s \in Slots |-> FALSE]
    /\ at = [s \in Slots |-> Begin] /\ sendlen = [s \in Slots |-> 0]
    /\ buf = <<>> /\ blen = 0
    /\ tables \in Tables
    /\ cursor = [l \in {1, 2} |-> tables.rows[l] + 1]
    /\ up = TRUE /\ connects = 0 /\ chunks = 0 /\ changes = 0

\* The server has not heard of the connection's end.
Live(c) == phase[c] \in {"idle", "busy", "fin_wait"}

\* uIP may call the server for something else than the end.
Open(c) == phase[c] \in {"idle", "busy"}

Writing(c) == Open(c) /\ request[state[c]] = "headers"

\* The slot of c is allocated, and nobody else's.
Owns(c) ==
    /\ state[c] \in used
    /\ \A d \in Conns \ {c} : Live(d) => state[d] # state[c]

-----------------------------------------------------------------------------
(* Connections *)

\* uIP takes the first entry of its table that is free, and so does memb_alloc.
FirstFree(c) == c = CHOOSE d \in Conns : phase[d] = "none"

\* memb_alloc and PSOCK_INIT; with no slot left the connection is aborted.
Connected(c) ==
    /\ up /\ phase[c] = "none" /\ FirstFree(c)
    /\ connects < MaxConnects /\ connects' = connects + 1
    /\ \/ /\ used = Slots
          /\ UNCHANGED <<outputVars, inputVars, poolVars>>
       \/ \E s \in Slots :
             /\ used # Slots /\ s = CHOOSE t \in Slots : t \notin used
             /\ used' = used \cup {s}
             /\ state' = [state EXCEPT ![c] = s]
             /\ phase' = [phase EXCEPT ![c] = "idle"]
             /\ request' = [request EXCEPT ![s] = "method"]
             /\ script' = [script EXCEPT ![s] = FALSE]
             /\ at' = [at EXCEPT ![s] = Begin] /\ sendlen' = [sendlen EXCEPT ![s] = 0]
             /\ expired' = [expired EXCEPT ![s] = FALSE]
             /\ UNCHANGED <<pageVars, buf, blen, cursor, up>>
    /\ UNCHANGED <<tables, chunks, changes>>

\* What is left of a connection, for uIP and for the peer.
Drop(c, p) ==
    /\ phase' = [phase EXCEPT ![c] = p]
    /\ state' = IF p = "none" THEN [state EXCEPT ![c] = NoSlot] ELSE state

\* The pages that still have to themselves what they are written with.
Alone(still) ==
    /\ alone' = [d \in Conns |-> alone[d] /\ d \in still]
    /\ segment' = [d \in Conns |-> IF alone'[d] THEN segment[d] ELSE <<>>]
    /\ page' = [d \in Conns |-> IF alone'[d] THEN page[d] ELSE <<>>]

\* memb_free.  The connection keeps its mark.
Free(c) ==
    /\ used' = used \ {state[c]}
    /\ Alone({d \in Conns : state[d] # state[c]})

\* closed, aborted or timed out, for the first time or not.  Nobody reads what
\* is left in a slot that no other live connection is marked with, until it is
\* allocated and set again.
Ended(c) ==
    /\ up /\ phase[c] # "none"
    /\ \/ Live(c) /\ Drop(c, "ended")
       \/ Drop(c, "none")
    /\ Free(c)
    /\ script' = [script EXCEPT ![state[c]] = FALSE]
    /\ IF \E d \in Conns \ {c} : Live(d) /\ state[d] = state[c]
       THEN UNCHANGED <<request, expired, at, sendlen>>
       ELSE /\ request' = [request EXCEPT ![state[c]] = "method"]
            /\ expired' = [expired EXCEPT ![state[c]] = FALSE]
            /\ at' = [at EXCEPT ![state[c]] = Begin]
            /\ sendlen' = [sendlen EXCEPT ![state[c]] = 0]
    /\ UNCHANGED <<buf, blen, cursor, tables, up, countVars>>

\* uIP gives a connection up and does not tell.
Forgotten(c) ==
    /\ up /\ phase[c] \in {"fin_wait", "ended"}
    /\ Drop(c, "none")
    /\ Alone(Conns \ {c})
    /\ UNCHANGED <<used, request, expired, script, at, sendlen, buf, blen, cursor, tables, up,
                   countVars>>

\* Where an iterator may be after a change: nowhere, if no loop waits at it.
Iterators(l) ==
    IF \E s \in Slots : at[s][1] = l THEN 0 .. tables'.rows[l] + 1 ELSE {tables'.rows[l] + 1}

\* A neighbor or a link is added, removed or changed.  An entry at which an
\* iterator waits may have gone, or be anywhere in the list.
TablesChange ==
    /\ up /\ changes < MaxChanges /\ changes' = changes + 1
    /\ tables' \in Tables
    /\ \E nbr \in Iterators(1), link \in Iterators(2) :
         cursor' = [l \in {1, 2} |-> IF l = 1 THEN nbr ELSE link]
    /\ Alone({})
    /\ UNCHANGED <<phase, script, at, sendlen, buf, blen, up, inputVars, poolVars,
                   connects, chunks>>

-----------------------------------------------------------------------------
(* The page *)

\* The iterators: an entry's number, or one more than the last for NULL; 0 is
\* an entry that is no longer in the list.
FirstRow(l) == 1
RowAfterNone(l, r) == r + 1 \* mutant
RowAfter(l, r) == IF r > tables.rows[l] THEN r ELSE r + 1

RowOrEnd(l, r) == IF r > tables.rows[l] THEN EndOf(l) ELSE RowOf(l, r)

InList(part) == part[1] \in {1, 2}

\* Where the loop over its list stands after a part is acknowledged.
Cursor(part) == IF part[2] = 0 THEN FirstRow(part[1]) ELSE RowAfter(part[1], cursor[part[1]])

\* send_headers and generate_routes, from one SEND to the next.
NextPart(part) ==
    IF InList(part) THEN RowOrEnd(part[1], Cursor(part))
    ELSE CASE part = Status   -> Type
           [] part = Type     -> TOP
           [] part = TOP      -> HeadOf(1)
           [] part = EndOf(1) -> IF tables.linked THEN HeadOf(2) ELSE BOTTOM
           [] part = EndOf(2) -> BOTTOM

KeptLength(part) == blen \* mutant
\* SEND empties the buffer when its segment is acknowledged.
LengthAfter(part) == IF part \in Constants THEN blen ELSE 0

\* ADD: the text of a part, from the n-th place of buf on.
Add(part, n) ==
    [i \in 1 .. (IF n > Len(buf) THEN n ELSE Len(buf)) |-> IF i = n THEN part ELSE buf[i]]

\* The thread handle_output begins.
StartOutput(c) ==
    /\ script' = [script EXCEPT ![state[c]] = TRUE]
    /\ at' = [at EXCEPT ![state[c]] = Status] /\ sendlen' = [sendlen EXCEPT ![state[c]] = 0]
    /\ phase' = [phase EXCEPT ![c] = "busy"]
    /\ LET others == {d \in Conns \ {c} : Writing(d)}
       IN  alone' = [d \in Conns |-> IF d = c THEN others = {} /\ blen = 0 /\ Owns(c)
                                     ELSE alone[d] /\ d \notin others]
    /\ segment' = [d \in Conns |-> IF alone'[d] /\ d = c THEN <<Status>> ELSE <<>>]
    /\ page' = [d \in Conns |-> IF alone'[d] /\ d # c THEN page[d] ELSE <<>>]
    /\ UNCHANGED <<buf, blen, cursor, up>>

\* uip_send
Send(c, parts) == segment' = [segment EXCEPT ![c] = IF alone[c] THEN parts ELSE <<>>]

\* It goes on by the next part, in answer to the acknowledgement of the last.
SendNext(c) ==
    LET s == state[c]
        part == NextPart(at[s])
        filled == LengthAfter(at[s])
    IN  /\ page' = [page EXCEPT ![c] = IF alone[c] THEN @ \o segment[c] ELSE <<>>]
        /\ cursor' = IF InList(at[s]) THEN [cursor EXCEPT ![at[s][1]] = Cursor(at[s])] ELSE cursor
        /\ \/ /\ at[s] # BOTTOM /\ part \in Constants
              /\ at' = [at EXCEPT ![s] = part] /\ sendlen' = [sendlen EXCEPT ![s] = 0]
              /\ Send(c, <<part>>)
              /\ blen' = filled
              /\ UNCHANGED <<phase, script, buf>>
           \/ /\ at[s] # BOTTOM /\ part \notin Constants
              /\ at' = [at EXCEPT ![s] = part]
              /\ buf' = Add(part, filled + 1) /\ blen' = filled + 1
              /\ sendlen' = [sendlen EXCEPT ![s] = blen']
              /\ Send(c, SubSeq(buf', 1, blen'))
              /\ UNCHANGED <<phase, script>>
           \/ /\ at[s] = BOTTOM \* PSOCK_CLOSE
              /\ at' = [at EXCEPT ![s] = Begin] /\ sendlen' = [sendlen EXCEPT ![s] = 0]
              /\ script' = [script EXCEPT ![s] = FALSE]
              /\ phase' = [phase EXCEPT ![c] = "fin_wait"]
              /\ Send(c, <<>>)
              /\ UNCHANGED <<buf, blen>>
        /\ UNCHANGED <<alone, up>>

\* The part is sent again, from buf as it is now.
SendAgain(c) ==
    LET s == state[c]
    IN  /\ Send(c, IF at[s] \in Constants THEN <<at[s]>> ELSE SubSeq(buf, 1, sendlen[s]))
        /\ UNCHANGED <<phase, alone, page, script, at, sendlen, buf, blen, cursor, up>>

\* An event makes handle_output call the script: once the headers are sent.
CallsScript(s, event) == at[s] \notin {Begin, Status, Type} \/ (at[s] = Type /\ event = "acked")

\* handle_connection for an event, with a request that is complete.  When a
\* script is called that is NULL the router stops.
Output(c, event) ==
    LET s == state[c]
    IN  \/ at[s] = Begin /\ StartOutput(c)
        \/ /\ CallsScript(s, event) /\ ~script[s]
           /\ up' = FALSE
           /\ UNCHANGED <<phase, pageVars, script, at, sendlen, buf, blen, cursor>>
        \/ /\ at[s] # Begin /\ (CallsScript(s, event) => script[s])
           /\ \/ event = "acked" /\ SendNext(c)
              \/ event = "rexmit" /\ SendAgain(c)
              \/ event \in {"newdata", "poll"} /\ UNCHANGED outputVars

-----------------------------------------------------------------------------
(* Events of a connection that is open *)

\* What is left of the 10 s has gone by.
Elapse(s) ==
    /\ up /\ ~expired[s]
    /\ \E c \in Conns : phase[c] = "idle" /\ state[c] = s
    /\ expired' = [expired EXCEPT ![s] = TRUE]
    /\ UNCHANGED <<outputVars, request, poolVars, tables, countVars>>

PollWithoutAbort(c) == \* mutant
    /\ up /\ phase[c] = "idle" /\ expired[state[c]] /\ Owns(c)
    /\ Free(c)
    /\ UNCHANGED <<phase, state, script, at, sendlen, buf, blen, cursor, up, inputVars,
                   tables, countVars>>
PollRestarts(c) == \* mutant
    /\ up /\ phase[c] = "idle" /\ expired[state[c]]
    /\ expired' = [expired EXCEPT ![state[c]] = FALSE]
    /\ UNCHANGED <<outputVars, request, poolVars, tables, countVars>>
\* A poll when the timer has expired aborts the connection and frees the slot,
\* whose threads handle_connection then runs all the same.
Poll(c) ==
    LET s == state[c]
        outputs == request[s] = "headers"
    IN  /\ up /\ phase[c] = "idle"
        /\ \/ /\ expired[s]
              /\ Drop(c, "none") /\ Free(c)
              /\ script' = [script EXCEPT ![s] = outputs /\ at[s] = Begin]
              /\ at' = [at EXCEPT ![s] = IF outputs /\ @ = Begin THEN Status ELSE @]
              /\ up' = ~(outputs /\ CallsScript(s, "poll"))
              /\ UNCHANGED <<request, expired, sendlen, buf, blen, cursor>>
           \/ /\ ~expired[s] /\ outputs
              /\ Output(c, "poll")
              /\ UNCHANGED <<inputVars, poolVars>>
        /\ UNCHANGED <<tables, countVars>>

\* What happens before a poll restarts the timer.
Restart(c) == expired' = [expired EXCEPT ![state[c]] = FALSE]

\* handle_input: a piece of data may complete the method, the path or both;
\* the lines after them are dropped.
Newdata(c) ==
    LET s == state[c]
    IN  /\ up /\ Open(c)
        /\ chunks < MaxChunks /\ chunks' = chunks + 1
        /\ Restart(c)
        /\ \/ request[s] = "headers" /\ Output(c, "newdata") /\ UNCHANGED request
           \/ request[s] # "headers" /\ UNCHANGED <<outputVars, request>>
           \/ /\ request[s] = "method"
              /\ request' = [request EXCEPT ![s] = "path"]
              /\ UNCHANGED outputVars
           \/ /\ request[s] # "headers"
              /\ request' = [request EXCEPT ![s] = "headers"]
              /\ StartOutput(c)
           \/ /\ request[s] # "headers" \* not a GET, or not a path: PSOCK_CLOSE_EXIT
              /\ request' = [request EXCEPT ![s] = "method"]
              /\ phase' = [phase EXCEPT ![c] = "fin_wait"]
              /\ UNCHANGED <<pageVars, script, at, sendlen, buf, blen, cursor, up>>
        /\ UNCHANGED <<poolVars, tables, connects, changes>>

\* An acknowledgement while no request is complete is not answered.
Acked(c) ==
    /\ up /\ phase[c] = "busy"
    /\ Restart(c)
    /\ \/ request[state[c]] = "headers" /\ Output(c, "acked")
       \/ /\ request[state[c]] # "headers"
          /\ phase' = [phase EXCEPT ![c] = "idle"]
          /\ UNCHANGED <<pageVars, script, at, sendlen, buf, blen, cursor, up>>
    /\ UNCHANGED <<request, poolVars, tables, countVars>>

Rexmit(c) ==
    /\ up /\ phase[c] = "busy"
    /\ Restart(c)
    /\ \/ request[state[c]] = "headers" /\ Output(c, "rexmit")
       \/ request[state[c]] # "headers" /\ UNCHANGED outputVars
    /\ UNCHANGED <<request, poolVars, tables, countVars>>

Next ==
    \/ \E c \in Conns :
         \/ Connected(c) \/ Newdata(c) \/ Acked(c) \/ Rexmit(c) \/ Poll(c)
         \/ Ended(c) \/ Forgotten(c)
    \/ \E s \in Slots : Elapse(s)
    \/ TablesChange

\* uIP: what was sent is acknowledged, or the connection ends after so many
\* retransmissions.  Nothing makes the peer send, or close.
Answered(c) == phase[c] = "busy" /\ (Acked(c) \/ Ended(c))

Fairness ==
    /\ \A c \in Conns : WF_vars(Poll(c)) /\ WF_vars(Answered(c))
    /\ \A s \in Slots : WF_vars(Elapse(s))

Spec == Init /\ [][Next]_vars /\ Fairness

-----------------------------------------------------------------------------
Parts == (0 .. 5) \X Nat

\* Every variable has its type.
TypeOK ==
    /\ phase \in [Conns -> {"none", "idle", "busy", "fin_wait", "ended"}]
    /\ state \in [Conns -> Slots \cup {NoSlot}]
    /\ \A c \in Conns : phase[c] = "none" <=> state[c] = NoSlot
    /\ segment \in [Conns -> Seq(Parts)] /\ page \in [Conns -> Seq(Parts)]
    /\ alone \in [Conns -> BOOLEAN]
    /\ used \subseteq Slots
    /\ request \in [Slots -> {"method", "path", "headers"}]
    /\ expired \in [Slots -> BOOLEAN] /\ script \in [Slots -> BOOLEAN]
    /\ at \in [Slots -> Parts] /\ sendlen \in [Slots -> 0 .. Len(buf)]
    /\ buf \in Seq(Parts) /\ blen \in 0 .. Len(buf)
    /\ tables \in Tables
    /\ cursor[1] \in 0 .. tables.rows[1] + 1 /\ cursor[2] \in 0 .. tables.rows[2] + 1
    /\ up \in BOOLEAN
    /\ connects \in 0 .. MaxConnects /\ chunks \in 0 .. MaxChunks /\ changes \in 0 .. MaxChanges

Exclusive == \A c \in Conns : Live(c) => Owns(c)

Held(s) == \E c \in Conns : Live(c) /\ state[c] = s

\* An end that is reported for the second time.
EndedAgain(c) == phase[c] = "ended" /\ phase'[c] = "none"

\* Who has a slot: one live connection, until the end of another that had it
\* is reported for the second time.
StaysExclusive ==
    Exclusive /\ ~Exclusive' => \E c, d \in Conns : EndedAgain(c) /\ Live(d) /\ state[d] = state[c]

\* A slot that its connection leaves is freed, or uIP did not tell.
LeftBehind(s) ==
    Held(s) /\ ~Held(s)' => \E c \in Conns : phase[c] = "fin_wait" /\ phase'[c] = "none" /\ state[c] = s

\* A slot is allocated to one live connection, until an end that is reported
\* twice frees the slot of another; only after that can the script that is
\* called be NULL; and a slot that nobody has stays allocated only after a
\* connection that was not closed by its peer (httpd-simple.c:213-239).
SlotStep == StaysExclusive /\ (up /\ ~up' => ~Exclusive) /\ \A s \in used \cap used' : LeftBehind(s)
SlotsExclusive == [][SlotStep]_vars

ListParts(l) == <<HeadOf(l)>> \o [r \in 1 .. tables.rows[l] |-> RowOf(l, r)] \o <<EndOf(l)>>

Page == <<Status, Type, TOP>> \o ListParts(1)
            \o (IF tables.linked THEN ListParts(2) ELSE <<>>) \o <<BOTTOM>>

\* A page that no other page was written at the same time as, and that lists
\* tables that stay as they are, arrives as it is meant to be, part by part,
\* whatever was sent twice; unless it was begun with text in buf that a
\* connection that was cut had left there, or its slot was freed by another.
PageIntact ==
    \A c \in Conns : alone[c] =>
        /\ page[c] \o segment[c] = SubSeq(Page, 1, Len(page[c]) + Len(segment[c]))
        /\ phase[c] = "fin_wait" => page[c] = Page

\* No client keeps the server waiting, one that sends nothing, or not what is
\* expected, or goes away: its connection is closed or aborted in time, if the
\* router is still running then.
NoneStays == \A c \in Conns : Open(c) ~> ~Open(c) \/ ~up
=============================================================================
