------------------------------- MODULE Inbox --------------------------------
(***************************************************************************)
(* How the requests of several clients reach the server's state machine:   *)
(* written by send_message of client.cpp as a length in four bytes and a   *)
(* body, in two write() calls, taken off the stream by one                 *)
(* client_recv_handler of network.cpp each, with one read() for the header *)
(* and one for the body, and pushed to client_req_queue (SharedQueue),     *)
(* from which the state machine pops them.  The readers are the pushers.   *)
(*                                                                         *)
(* The kernel passes on bytes, not calls: those of one write() may arrive  *)
(* in pieces.  A byte is the pair of its message and its place in that.    *)
(* The streams of mesh.cpp and of the servers' answers work alike.         *)
(***************************************************************************)
EXTENDS SharedQueue, FiniteSets

CONSTANTS
    Header,        \* sizeof(COMM_HEADER_TYPE)
    Body,          \* the length of a message, a larger one
    MaxMessages    \* bound: messages each client sends

ASSUME FramingAssumption ==
    /\ Header \in Nat \ {0} /\ Body \in Nat /\ Body > Header
    /\ MaxMessages \in Nat

VARIABLES
    sent,          \* the messages each client has begun to write
    writing,       \* the body of the last one is still to be written
    wire,          \* what was written and has not arrived, by write() calls
    arrived,       \* the bytes read() can return
    need,          \* the length the reader has from a header, or 0
    inHand,        \* the bytes it took for a message and pushes, or <<>>
    open,          \* it has not ended
    split,         \* history: a read() has returned fewer bytes than it asked for
    carried        \* history: what each push was of

stream == <<sent, writing, wire, arrived, need, open, split>>
inboxVars == <<vars, stream, inHand, carried>>

Byte == (1 .. MaxMessages) \X (1 .. Header + Body)
Whole(m) == [k \in 1 .. Body |-> <<m, Header + k>>]

InboxTypeOK ==
    /\ TypeOK
    /\ sent \in [Pusher -> 0 .. MaxMessages] /\ writing \in [Pusher -> BOOLEAN]
    /\ wire \in [Pusher -> Seq(Seq(Byte))] /\ arrived \in [Pusher -> Seq(Byte)]
    /\ need \in [Pusher -> 0 .. Body] /\ inHand \in [Pusher -> Seq(Byte)]
    /\ open \in [Pusher -> BOOLEAN] /\ split \in [Pusher -> BOOLEAN]
    /\ carried \in Seq([from: Pusher, bytes: Seq(Byte)])
    /\ Len(carried) = Len(pushed)
    /\ \A p \in Pusher : pc[p] # "idle" => inHand[p] # <<>>

-----------------------------------------------------------------------------
(* The streams.                                                            *)

WriteHeader(p) ==
    /\ ~writing[p] /\ sent[p] < MaxMessages
    /\ sent' = [sent EXCEPT ![p] = @ + 1]
    /\ wire' = [wire EXCEPT ![p] =
                    Append(@, [k \in 1 .. Header |-> <<sent[p] + 1, k>>])]
    /\ writing' = [writing EXCEPT ![p] = TRUE]
    /\ UNCHANGED <<vars, arrived, need, open, split, inHand, carried>>

WriteBody(p) ==
    /\ writing[p]
    /\ wire' = [wire EXCEPT ![p] = Append(@, Whole(sent[p]))]
    /\ writing' = [writing EXCEPT ![p] = FALSE]
    /\ UNCHANGED <<vars, sent, arrived, need, open, split, inHand, carried>>

\* The first n bytes on their way arrive.
Arrive(p, n) ==
    LET first == wire[p][1] IN
    /\ wire[p] # <<>> /\ n <= Len(first)
    /\ arrived' = [arrived EXCEPT ![p] = @ \o SubSeq(first, 1, n)]
    /\ wire' = [wire EXCEPT ![p] =
                    IF n = Len(first) THEN Tail(@)
                    ELSE [@ EXCEPT ![1] = SubSeq(first, n + 1, Len(first))]]
    /\ UNCHANGED <<vars, sent, writing, need, open, split, inHand, carried>>

-----------------------------------------------------------------------------
(* client_recv_handler.                                                    *)

\* read(n) waits for a byte and takes up to n of those there are.
ReadUpToAll(q, n) == q
ReadUpTo(q, n) == SubSeq(q, 1, IF n < Len(q) THEN n ELSE Len(q))

Reading(p) == open[p] /\ inHand[p] = <<>> /\ arrived[p] # <<>>

TakeOff(p, bytes, n) ==
    /\ arrived' = [arrived EXCEPT ![p] = SubSeq(@, Len(bytes) + 1, Len(@))]
    /\ split' = [split EXCEPT ![p] = @ \/ Len(bytes) < n]

\* The lengths four bytes can be taken for: what was written if they are a
\* header, else any, cut off here at Body.
LengthInNetOrder(bytes) == IF Head(bytes)[2] = 1 THEN {256 * Body} ELSE 0 .. Body
LengthIn(bytes) == IF Head(bytes)[2] = 1 THEN {Body} ELSE 0 .. Body

\* A short header is dropped.  A body of no bytes ends the reader.
ReadHeader(p) ==
    LET bytes == ReadUpTo(arrived[p], Header) IN
    /\ Reading(p) /\ need[p] = 0
    /\ TakeOff(p, bytes, Header)
    /\ IF Len(bytes) < Header
       THEN UNCHANGED <<need, open>>
       ELSE \E n \in LengthIn(bytes) :
                /\ need' = [need EXCEPT ![p] = n]
                /\ open' = [open EXCEPT ![p] = n # 0]
    /\ UNCHANGED <<vars, sent, writing, wire, inHand, carried>>

\* A body shorter than a header is dropped.  Any other one is parsed, a short
\* one with what lies behind it in memory.
ReadBody(p) ==
    LET bytes == ReadUpTo(arrived[p], need[p]) IN
    /\ Reading(p) /\ need[p] # 0
    /\ TakeOff(p, bytes, need[p])
    /\ need' = [need EXCEPT ![p] = 0]
    /\ inHand' = IF Len(bytes) < Header THEN inHand
                 ELSE [inHand EXCEPT ![p] = bytes]
    /\ UNCHANGED <<vars, sent, writing, wire, open, carried>>

\* client_push_request, step by step: a reader goes on when it is done.
Push(p) ==
    /\ inHand[p] # <<>>
    /\ \/ Lock(p) \/ PushWrite(p) \/ MoveRead(p) \/ MoveWrite(p)
       \/ PushAdvance(p) \/ PushNewNode(p)
    /\ IF pushed' = pushed
       THEN UNCHANGED <<inHand, carried>>
       ELSE /\ carried' = Append(carried, [from |-> p, bytes |-> inHand[p]])
            /\ inHand' = [inHand EXCEPT ![p] = <<>>]
    /\ UNCHANGED stream

-----------------------------------------------------------------------------
\* client_pop_request, by the state machine.
PopRequest ==
    /\ PopRead \/ PopAdvance \/ CrossRead \/ CrossWrite
    /\ UNCHANGED <<stream, inHand, carried>>

InboxInit ==
    /\ Init
    /\ sent = [p \in Pusher |-> 0] /\ writing = [p \in Pusher |-> FALSE]
    /\ wire = [p \in Pusher |-> <<>>] /\ arrived = [p \in Pusher |-> <<>>]
    /\ need = [p \in Pusher |-> 0] /\ inHand = [p \in Pusher |-> <<>>]
    /\ open = [p \in Pusher |-> TRUE] /\ split = [p \in Pusher |-> FALSE]
    /\ carried = <<>>

InboxNext ==
    \/ \E p \in Pusher :
        \/ WriteHeader(p) \/ WriteBody(p) \/ ReadHeader(p) \/ ReadBody(p)
        \/ Push(p)
        \/ \E n \in 1 .. Body : Arrive(p, n)
    \/ PopRequest

InboxSpec == InboxInit /\ [][InboxNext]_inboxVars

-----------------------------------------------------------------------------
(* Properties.                                                             *)

\* What the state machine gets of a client is what that client sent, message by
\* message and in order, whatever happens on the streams of the others; unless
\* its own stream was split inside a message, or the queue was torn.
RequestsArrive ==
    ~torn => \A k \in DOMAIN popped :
        LET p == carried[popped[k]].from
            m == Cardinality({j \in 1 .. k : carried[popped[j]].from = p})
        IN ~split[p] => m <= sent[p] /\ carried[popped[k]].bytes = Whole(m)
=============================================================================
