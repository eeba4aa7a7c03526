----------------------------- MODULE ClientPort -----------------------------
(***************************************************************************)
(* The connections of the clients to one server: conn_handler and          *)
(* recv_handler of client.cpp, client_wait_handler, client_recv_handler    *)
(* and client_send_message of network.cpp.  On the server three kinds of   *)
(* threads share client_info_t without a lock: the one that accepts, one   *)
(* reader per client, and the state machine, which writes answers.         *)
(*                                                                         *)
(* As in module Mesh a connection is a number, fdConn says which one a     *)
(* descriptor of the server stands for, and the kernel gives out the       *)
(* lowest free descriptor.  A client that dies is started again and        *)
(* connects from the same port.                                            *)
(***************************************************************************)
EXTENDS Integers, FiniteSets, Sequences

CONSTANTS
    Client,
    Fd,            \* descriptors 1 .. n the server can have for them
    MaxConns,      \* bound: connections ever made
    MaxAnswers     \* bound: answers ever written

ASSUME PortAssumption ==
    /\ Fd \subseteq Nat \ {0} /\ IsFiniteSet(Fd)
    /\ MaxConns \in Nat /\ MaxAnswers \in Nat /\ Cardinality(Fd) >= MaxConns

VARIABLES
    cur,          \* each client's connection, or 0: its connected and sock
    owner,        \* owner[n] made connection n
    gone,         \* connections whose client end is closed
    closed,       \* connections whose server end is closed
    backlog,      \* connections that wait for accept()
    fdConn,       \* the connection of a descriptor, 0 if it is free
    accepted,     \* the descriptor client_wait_handler is busy with, or 0
    connected, sock,    \* client_info_t; no socket is 0
    reader,       \* its recv_task: "none", "reading", "closing"
    readFd,       \* the descriptor that reader took from sock when it began
    writing,      \* the client the state machine writes to, "header" or "body"
                  \* next; <<>> when it does not write
    answers,
    running       \* the server process lives

tcp == <<owner, gone, closed, backlog>>
info == <<connected, sock>>
readers == <<reader, readFd>>
vars == <<cur, tcp, fdConn, accepted, info, readers, writing, answers, running>>

Conn == DOMAIN owner

TypeOK ==
    /\ owner \in Seq(Client)
    /\ cur \in [Client -> Conn \cup {0}]
    /\ gone \subseteq Conn /\ closed \subseteq Conn
    /\ backlog \in Seq(Conn)
    /\ fdConn \in [Fd -> Conn \cup {0}] /\ accepted \in Fd \cup {0}
    /\ connected \in [Client -> BOOLEAN] /\ sock \in [Client -> Fd \cup {0}]
    /\ reader \in [Client -> {"none", "reading", "closing"}]
    /\ readFd \in [Client -> Fd \cup {0}]
    /\ writing \in {<<>>} \cup (Client \X {"header", "body"})
    /\ answers \in 0 .. MaxAnswers /\ running \in BOOLEAN
    /\ accepted # 0 => fdConn[accepted] # 0
    /\ \A c \in Client : reader[c] = "none" <=> readFd[c] = 0

-----------------------------------------------------------------------------
(* The client programs.                                                    *)

\* conn_handler: every five seconds, while it is not connected.
ClientConnect(c) ==
    /\ running
    /\ cur[c] = 0
    /\ Len(owner) < MaxConns
    /\ owner' = Append(owner, c)
    /\ cur' = [cur EXCEPT ![c] = Len(owner) + 1]
    /\ backlog' = Append(backlog, Len(owner) + 1)
    /\ UNCHANGED <<gone, closed, fdConn, accepted, info, readers, writing,
                   answers, running>>

\* recv_handler reads the end of the stream and closes its socket.
ClientHangUp(c) ==
    /\ cur[c] # 0
    /\ cur[c] \in closed
    /\ gone' = gone \cup {cur[c]}
    /\ cur' = [cur EXCEPT ![c] = 0]
    /\ UNCHANGED <<owner, closed, backlog, fdConn, accepted, info, readers,
                   writing, answers, running>>

\* The client dies; it is started again by ClientConnect.
ClientDie(c) ==
    /\ cur[c] # 0
    /\ gone' = gone \cup {cur[c]}
    /\ cur' = [cur EXCEPT ![c] = 0]
    /\ UNCHANGED <<owner, closed, backlog, fdConn, accepted, info, readers,
                   writing, answers, running>>

-----------------------------------------------------------------------------
(* client_wait_handler.                                                    *)

Free == {fd \in Fd : fdConn[fd] = 0}

\* accept() gives the connection a descriptor.  A client that counts as
\* connected is turned away: nobody closes that descriptor or reads from it.
Accept ==
    LET n == Head(backlog)
        fd == CHOOSE x \in Free : \A y \in Free : x <= y
    IN
    /\ running /\ accepted = 0 /\ backlog # <<>> /\ Free # {}
    /\ backlog' = Tail(backlog)
    /\ fdConn' = [fdConn EXCEPT ![fd] = n]
    /\ accepted' = IF connected[owner[n]] THEN 0 ELSE fd
    /\ UNCHANGED <<cur, owner, gone, closed, info, readers, writing, answers,
                   running>>

\* The last reader of the client is joined; the client counts as connected
\* before its socket is known ...
MarkConnectedAtOnce ==
    LET c == owner[fdConn[accepted]] IN
    /\ running /\ accepted # 0
    /\ ~connected[c]
    /\ connected' = [connected EXCEPT ![c] = TRUE]
    /\ UNCHANGED <<cur, tcp, fdConn, accepted, sock, readers, writing, answers,
                   running>>
MarkConnected ==
    LET c == owner[fdConn[accepted]] IN
    /\ running /\ accepted # 0
    /\ ~connected[c]
    /\ reader[c] = "none"
    /\ connected' = [connected EXCEPT ![c] = TRUE]
    /\ UNCHANGED <<cur, tcp, fdConn, accepted, sock, readers, writing, answers,
                   running>>

\* ... then sock is set and a new reader started, which copies sock.
StartReaderFirst ==
    LET c == owner[fdConn[accepted]] IN
    /\ running /\ accepted # 0
    /\ connected[c]
    /\ sock' = [sock EXCEPT ![c] = accepted]
    /\ reader' = [reader EXCEPT ![c] = "reading"]
    /\ readFd' = [readFd EXCEPT ![c] = IF sock[c] = 0 THEN accepted ELSE sock[c]]
    /\ accepted' = 0
    /\ UNCHANGED <<cur, tcp, fdConn, connected, writing, answers, running>>
StartReader ==
    LET c == owner[fdConn[accepted]] IN
    /\ running /\ accepted # 0
    /\ connected[c]
    /\ sock' = [sock EXCEPT ![c] = accepted]
    /\ reader' = [reader EXCEPT ![c] = "reading"]
    /\ readFd' = [readFd EXCEPT ![c] = accepted]
    /\ accepted' = 0
    /\ UNCHANGED <<cur, tcp, fdConn, connected, writing, answers, running>>

-----------------------------------------------------------------------------
(* client_recv_handler.                                                    *)

\* read() finds the end of the stream ...
EndReadingForgets(c) ==
    /\ running
    /\ reader[c] = "reading"
    /\ fdConn[readFd[c]] \in gone
    /\ reader' = [reader EXCEPT ![c] = "closing"]
    /\ UNCHANGED <<cur, tcp, fdConn, accepted, info, readFd, writing, answers,
                   running>>
EndReadingOpen(c) ==
    /\ running
    /\ reader[c] = "reading"
    /\ fdConn[readFd[c]] \in gone
    /\ connected' = [connected EXCEPT ![c] = FALSE]
    /\ reader' = [reader EXCEPT ![c] = "none"]
    /\ UNCHANGED <<cur, tcp, fdConn, accepted, sock, readFd, writing, answers,
                   running>>
EndReading(c) ==
    /\ running
    /\ reader[c] = "reading"
    /\ fdConn[readFd[c]] \in gone
    /\ connected' = [connected EXCEPT ![c] = FALSE]
    /\ reader' = [reader EXCEPT ![c] = "closing"]
    /\ UNCHANGED <<cur, tcp, fdConn, accepted, sock, readFd, writing, answers,
                   running>>

\* ... and the descriptor is closed.
CloseSocketLocked(c) ==
    /\ running
    /\ accepted = 0
    /\ reader[c] = "closing"
    /\ closed' = closed \cup {fdConn[readFd[c]]}
    /\ fdConn' = [fdConn EXCEPT ![readFd[c]] = 0]
    /\ reader' = [reader EXCEPT ![c] = "none"]
    /\ readFd' = [readFd EXCEPT ![c] = 0]
    /\ UNCHANGED <<cur, owner, gone, backlog, accepted, info, writing, answers,
                   running>>
CloseSocket(c) ==
    /\ running
    /\ reader[c] = "closing"
    /\ closed' = closed \cup {fdConn[readFd[c]]}
    /\ fdConn' = [fdConn EXCEPT ![readFd[c]] = 0]
    /\ reader' = [reader EXCEPT ![c] = "none"]
    /\ readFd' = [readFd EXCEPT ![c] = 0]
    /\ UNCHANGED <<cur, owner, gone, backlog, accepted, info, writing, answers,
                   running>>

-----------------------------------------------------------------------------
(* client_send_message, in the state machine's thread.                     *)

BeginAnswer(c) ==
    /\ running
    /\ writing = <<>>
    /\ answers < MaxAnswers
    /\ connected[c]
    /\ writing' = <<c, "header">>
    /\ answers' = answers + 1
    /\ UNCHANGED <<cur, tcp, fdConn, accepted, info, readers, running>>

\* Each half is written to what the client's descriptor is at that moment.
\* Into a connection whose other end is closed it is lost, or kills the server
\* with the signal SIGPIPE, which it does not handle, and closes what it had.
WriteHalf ==
    LET fd == sock[writing[1]]
        n == IF fd = 0 THEN 0 ELSE fdConn[fd]
    IN
    /\ running
    /\ writing # <<>>
    /\ writing' = IF writing[2] = "header" THEN <<writing[1], "body">> ELSE <<>>
    /\ running' \in {TRUE, n \notin gone}
    /\ closed' = IF running' THEN closed ELSE Conn
    /\ UNCHANGED <<cur, owner, gone, backlog, fdConn, accepted, info, readers,
                   answers>>

Init ==
    /\ cur = [c \in Client |-> 0]
    /\ owner = <<>> /\ gone = {} /\ closed = {} /\ backlog = <<>>
    /\ fdConn = [fd \in Fd |-> 0] /\ accepted = 0
    /\ connected = [c \in Client |-> FALSE] /\ sock = [c \in Client |-> 0]
    /\ reader = [c \in Client |-> "none"] /\ readFd = [c \in Client |-> 0]
    /\ writing = <<>> /\ answers = 0 /\ running = TRUE

Next ==
    \/ \E c \in Client :
        \/ ClientConnect(c) \/ ClientHangUp(c) \/ ClientDie(c)
        \/ EndReading(c) \/ CloseSocket(c) \/ BeginAnswer(c)
    \/ Accept \/ MarkConnected \/ StartReader \/ WriteHalf

Spec == Init /\ [][Next]_vars

\* Every thread goes on whenever it can; clients need not die.
Fairness ==
    /\ \A c \in Client : /\ WF_vars(ClientConnect(c)) /\ WF_vars(ClientHangUp(c))
                         /\ WF_vars(EndReading(c)) /\ WF_vars(CloseSocket(c))
    /\ WF_vars(Accept) /\ WF_vars(MarkConnected) /\ WF_vars(StartReader)
    /\ WF_vars(WriteHalf)

FairSpec == Spec /\ Fairness

-----------------------------------------------------------------------------
(* Properties.                                                             *)

Installing(c) == accepted # 0 /\ owner[fdConn[accepted]] = c

\* Except while it is being installed, a client that counts as connected has a
\* socket that stands for a connection of its own, over deaths, turned away
\* connections and descriptors that are given out again.
AnswersGoHome ==
    \A c \in Client : connected[c] /\ ~Installing(c) =>
        /\ sock[c] # 0 /\ fdConn[sock[c]] # 0
        /\ owner[fdConn[sock[c]]] = c

\* A reader reads a connection of its own client from an open descriptor that
\* no other reader uses, and closes no other: closing one twice would cut off
\* whoever has been given it since.
ReadersApart ==
    \A c \in Client : reader[c] # "none" =>
        /\ fdConn[readFd[c]] # 0 /\ owner[fdConn[readFd[c]]] = c
        /\ \A d \in Client : reader[d] # "none" /\ readFd[d] = readFd[c] => d = c

\* The thread that accepts joins a reader only when that ends: no connection
\* waits for ever while the server runs.
BacklogMoves ==
    \A n \in 1 .. MaxConns :
        n \in {backlog[k] : k \in DOMAIN backlog}
            ~> ~running \/ n \notin {backlog[k] : k \in DOMAIN backlog}

\* A client that dies is noticed: its descriptor does not stay with a reader.
DeathIsNoticed ==
    \A c \in Client :
        reader[c] = "reading" /\ fdConn[readFd[c]] \in gone
            ~> ~running \/ reader[c] = "none"
=============================================================================
