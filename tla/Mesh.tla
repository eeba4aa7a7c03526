-------------------------------- MODULE Mesh --------------------------------
(***************************************************************************)
(* The network mesh of mesh.cpp, with the replica side of network.cpp: a   *)
(* process that keeps one TCP connection to every server, a queue of       *)
(* messages for it, and two threads, recv_handler and send_handler, beside *)
(* the one thread that accepts connections.  A server that dies is started *)
(* again and connects anew.                                                *)
(*                                                                         *)
(* A connection is a number; fdConn says which one a file descriptor of    *)
(* the mesh stands for.  Descriptors are given out as the kernel does it,  *)
(* lowest free one first, and a closed one is soon given out again.        *)
(***************************************************************************)
EXTENDS Integers, FiniteSets, Sequences, SequencesExt

CONSTANTS
    Replica,       \* the servers
    Fd,            \* file descriptors 1 .. n the mesh can have for them
    None,
    Sender,        \* bound: the servers that send anything
    MaxConns,      \* bound: connections ever made
    MaxSent,       \* bound: messages one server sends another
    MaxToggles     \* bound: partitions switched on or off

ASSUME MeshAssumption ==
    /\ Fd \subseteq Nat \ {0} /\ IsFiniteSet(Fd) /\ IsFiniteSet(Replica)
    /\ None \notin Replica /\ Sender \subseteq Replica
    /\ Cardinality(Fd) > Cardinality(Replica)
    /\ MaxConns \in Nat /\ MaxSent \in Nat /\ MaxToggles \in Nat

VARIABLES
    cur,           \* each server's connection, or 0
    sent,          \* how many messages it has sent each other one
    owner,         \* owner[c] made connection c; DOMAIN owner: those ever made
    gone,          \* connections whose server end is closed
    up, down,      \* bytes on their way to the mesh, to the server
    backlog,       \* connections that wait for accept()
    fdConn,        \* the connection of a descriptor, 0 if it is free
    accepted,      \* the descriptor wait_conn_handler is busy with, or 0
    connected, partitioned, sock, queue,  \* server_info_t; no socket is 0
    recvTask, sendTask,                   \* its threads: FALSE when ended
    reading,       \* the message recv_handler is about to queue, or None
    sending,       \* the message send_handler is about to write, or None
    toggles,
    strays         \* history: messages written to another server than theirs

server == <<cur, sent>>
tcp == <<owner, gone, up, down, backlog>>
info == <<connected, partitioned, sock, queue>>
tasks == <<recvTask, sendTask, reading, sending>>
vars == <<server, tcp, fdConn, accepted, info, tasks, toggles, strays>>

Conn == DOMAIN owner
Message == [from: Replica, to: Replica, n: 1 .. MaxSent]

TypeOK ==
    /\ owner \in Seq(Replica)
    /\ cur \in [Replica -> Conn \cup {0}]
    /\ sent \in [Replica -> [Replica -> 0 .. MaxSent]]
    /\ gone \subseteq Conn
    /\ up \in [Conn -> Seq(Message)] /\ down \in [Conn -> Seq(Message)]
    /\ backlog \in Seq(Conn)
    /\ fdConn \in [Fd -> Conn \cup {0}] /\ accepted \in Fd \cup {0}
    /\ connected \in [Replica -> BOOLEAN] /\ partitioned \in [Replica -> BOOLEAN]
    /\ sock \in [Replica -> Fd \cup {0}] /\ queue \in [Replica -> Seq(Message)]
    /\ recvTask \in [Replica -> BOOLEAN] /\ sendTask \in [Replica -> BOOLEAN]
    /\ reading \in [Replica -> Message \cup {None}]
    /\ sending \in [Replica -> Message \cup {None}]
    /\ toggles \in 0 .. MaxToggles /\ strays \in Nat
    /\ accepted # 0 => fdConn[accepted] # 0
    /\ \A r \in Replica : /\ recvTask[r] => fdConn[sock[r]] # 0
                          /\ reading[r] # None => recvTask[r]
                          /\ sending[r] # None => sendTask[r]

-----------------------------------------------------------------------------
(* The servers.                                                            *)

\* replica_conn_handler of a server that has just been started.
Connect(r) ==
    /\ cur[r] = 0
    /\ Len(owner) < MaxConns
    /\ owner' = Append(owner, r)
    /\ cur' = [cur EXCEPT ![r] = Len(owner) + 1]
    /\ up' = Append(up, <<>>) /\ down' = Append(down, <<>>)
    /\ backlog' = Append(backlog, Len(owner) + 1)
    /\ UNCHANGED <<sent, gone, fdConn, accepted, info, tasks, toggles, strays>>

\* replica_send_message, into a connection that may have been closed.
ServerSend(r, to) ==
    LET c == cur[r] IN
    /\ r # to /\ c # 0 /\ c \notin gone
    /\ r \in Sender
    /\ sent[r][to] < MaxSent
    /\ sent' = [sent EXCEPT ![r][to] = @ + 1]
    /\ up' = [up EXCEPT ![c] =
                Append(@, [from |-> r, to |-> to, n |-> sent[r][to] + 1])]
    /\ UNCHANGED <<cur, owner, gone, down, backlog, fdConn, accepted, info,
                   tasks, toggles, strays>>

\* replica_recv_handler, and the run() loop that takes the message from it.
ServerReceive(r) ==
    LET c == cur[r] IN
    /\ c # 0 /\ down[c] # <<>>
    /\ down' = [down EXCEPT ![c] = Tail(@)]
    /\ UNCHANGED <<server, owner, gone, up, backlog, fdConn, accepted, info,
                   tasks, toggles, strays>>

\* What it has written the mesh still reads.
ServerCrash(r) ==
    LET c == cur[r] IN
    /\ c # 0
    /\ cur' = [cur EXCEPT ![r] = 0]
    /\ gone' = gone \cup {c}
    /\ down' = [down EXCEPT ![c] = <<>>]
    /\ UNCHANGED <<sent, owner, up, backlog, fdConn, accepted, info, tasks,
                   toggles, strays>>

-----------------------------------------------------------------------------
(* wait_conn_handler.                                                      *)

Free == {fd \in Fd : fdConn[fd] = 0}

\* accept(); a server that counts as connected is turned away, its connection
\* closed with all it has sent.
Accept ==
    LET c == Head(backlog)
        fd == CHOOSE x \in Free : \A y \in Free : x <= y
    IN
    /\ accepted = 0 /\ backlog # <<>> /\ Free # {}
    /\ backlog' = Tail(backlog)
    /\ IF connected[owner[c]]
       THEN /\ gone' = gone \cup {c}
            /\ up' = [up EXCEPT ![c] = <<>>]
            /\ UNCHANGED <<fdConn, accepted>>
       ELSE /\ fdConn' = [fdConn EXCEPT ![fd] = c]
            /\ accepted' = fd
            /\ UNCHANGED <<gone, up>>
    /\ UNCHANGED <<server, owner, down, info, tasks, toggles, strays>>

\* The old connection's threads are joined, its queue is flushed and two new
\* threads are started.
Install ==
    LET r == owner[fdConn[accepted]] IN
    /\ accepted # 0
    /\ ~recvTask[r] /\ ~sendTask[r]
    /\ queue' = [queue EXCEPT ![r] = <<>>]
    /\ connected' = [connected EXCEPT ![r] = TRUE]
    /\ partitioned' = [partitioned EXCEPT ![r] = FALSE]
    /\ sock' = [sock EXCEPT ![r] = accepted]
    /\ recvTask' = [recvTask EXCEPT ![r] = TRUE]
    /\ sendTask' = [sendTask EXCEPT ![r] = TRUE]
    /\ accepted' = 0
    /\ UNCHANGED <<server, tcp, fdConn, reading, sending, toggles, strays>>

-----------------------------------------------------------------------------
(* recv_handler.                                                           *)

\* One message is read.  It is dropped if its sender is partitioned or its
\* receiver not connected.
ReadMessage(r) ==
    LET c == fdConn[sock[r]]
        m == Head(up[c])
    IN
    /\ recvTask[r] /\ reading[r] = None
    /\ up[c] # <<>>
    /\ up' = [up EXCEPT ![c] = Tail(@)]
    /\ reading' = [reading EXCEPT ![r] =
            IF partitioned[r] \/ ~connected[m.to] THEN None ELSE m]
    /\ UNCHANGED <<server, owner, gone, down, backlog, fdConn, accepted, info,
                   recvTask, sendTask, sending, toggles, strays>>

\* append_server_trans_queue, by now perhaps for a new connection.
EnqueueInFront(r) ==
    LET m == reading[r] IN
    /\ m # None
    /\ queue' = [queue EXCEPT ![m.to] = <<m>> \o @]
    /\ reading' = [reading EXCEPT ![r] = None]
    /\ UNCHANGED <<server, tcp, fdConn, accepted, connected, partitioned, sock,
                   recvTask, sendTask, sending, toggles, strays>>
Enqueue(r) ==
    LET m == reading[r] IN
    /\ m # None
    /\ queue' = [queue EXCEPT ![m.to] = Append(@, m)]
    /\ reading' = [reading EXCEPT ![r] = None]
    /\ UNCHANGED <<server, tcp, fdConn, accepted, connected, partitioned, sock,
                   recvTask, sendTask, sending, toggles, strays>>

\* read() finds the connection closed: the descriptor is closed and the server
\* counts as disconnected.
EndRecvStillConnected(r) ==
    LET c == fdConn[sock[r]] IN
    /\ recvTask[r] /\ reading[r] = None
    /\ up[c] = <<>> /\ c \in gone
    /\ fdConn' = [fdConn EXCEPT ![sock[r]] = 0]
    /\ recvTask' = [recvTask EXCEPT ![r] = FALSE]
    /\ UNCHANGED <<server, tcp, accepted, connected, partitioned, sock, queue,
                   sendTask, reading, sending, toggles, strays>>
EndRecv(r) ==
    LET c == fdConn[sock[r]] IN
    /\ recvTask[r] /\ reading[r] = None
    /\ up[c] = <<>> /\ c \in gone
    /\ connected' = [connected EXCEPT ![r] = FALSE]
    /\ fdConn' = [fdConn EXCEPT ![sock[r]] = 0]
    /\ recvTask' = [recvTask EXCEPT ![r] = FALSE]
    /\ UNCHANGED <<server, tcp, accepted, partitioned, sock, queue, sendTask,
                   reading, sending, toggles, strays>>

-----------------------------------------------------------------------------
(* send_handler and server_partition_toggle.                               *)

\* A message is taken off the queue; then the thread sleeps out the delay.
TakeNextAnyway(r) ==
    /\ sendTask[r] /\ sending[r] = None
    /\ queue[r] # <<>>
    /\ sending' = [sending EXCEPT ![r] = Head(queue[r])]
    /\ queue' = [queue EXCEPT ![r] = Tail(@)]
    /\ UNCHANGED <<server, tcp, fdConn, accepted, connected, partitioned, sock,
                   recvTask, sendTask, reading, toggles, strays>>
TakeNext(r) ==
    /\ sendTask[r] /\ sending[r] = None
    /\ connected[r]
    /\ queue[r] # <<>>
    /\ sending' = [sending EXCEPT ![r] = Head(queue[r])]
    /\ queue' = [queue EXCEPT ![r] = Tail(@)]
    /\ UNCHANGED <<server, tcp, fdConn, accepted, connected, partitioned, sock,
                   recvTask, sendTask, reading, toggles, strays>>

\* After the sleep the socket is written to, whatever connection it is now.
WriteMessage(r) ==
    LET c == IF sock[r] = 0 THEN 0 ELSE fdConn[sock[r]]
        reaches == ~partitioned[r] /\ c # 0 /\ c \notin gone
    IN
    /\ sending[r] # None
    /\ sending' = [sending EXCEPT ![r] = None]
    /\ down' = IF reaches THEN [down EXCEPT ![c] = Append(@, sending[r])]
               ELSE down
    /\ strays' = IF reaches /\ owner[c] # r THEN strays + 1 ELSE strays
    /\ UNCHANGED <<server, owner, gone, up, backlog, fdConn, accepted, info,
                   recvTask, sendTask, reading, toggles>>

EndSendHolding(r) ==
    /\ sendTask[r] /\ ~connected[r]
    /\ sendTask' = [sendTask EXCEPT ![r] = FALSE]
    /\ UNCHANGED <<server, tcp, fdConn, accepted, info, recvTask, reading,
                   sending, toggles, strays>>
EndSendWhenIdle(r) ==
    /\ sendTask[r] /\ sending[r] = None
    /\ ~connected[r] \/ queue[r] = <<>>
    /\ sendTask' = [sendTask EXCEPT ![r] = FALSE]
    /\ UNCHANGED <<server, tcp, fdConn, accepted, info, recvTask, reading,
                   sending, toggles, strays>>
EndSendDrained(r) ==
    /\ sendTask[r] /\ sending[r] = None
    /\ ~connected[r] /\ queue[r] = <<>>
    /\ sendTask' = [sendTask EXCEPT ![r] = FALSE]
    /\ UNCHANGED <<server, tcp, fdConn, accepted, info, recvTask, reading,
                   sending, toggles, strays>>
EndSend(r) ==
    /\ sendTask[r] /\ sending[r] = None
    /\ ~connected[r]
    /\ sendTask' = [sendTask EXCEPT ![r] = FALSE]
    /\ UNCHANGED <<server, tcp, fdConn, accepted, info, recvTask, reading,
                   sending, toggles, strays>>

Toggle(r) ==
    /\ toggles < MaxToggles
    /\ connected[r]
    /\ partitioned' = [partitioned EXCEPT ![r] = ~@]
    /\ toggles' = toggles + 1
    /\ UNCHANGED <<server, tcp, fdConn, accepted, connected, sock, queue,
                   tasks, strays>>

Init ==
    /\ cur = [r \in Replica |-> 0]
    /\ sent = [r \in Replica |-> [q \in Replica |-> 0]]
    /\ owner = <<>> /\ gone = {} /\ up = <<>> /\ down = <<>> /\ backlog = <<>>
    /\ fdConn = [fd \in Fd |-> 0] /\ accepted = 0
    /\ connected = [r \in Replica |-> FALSE]
    /\ partitioned = [r \in Replica |-> FALSE]
    /\ sock = [r \in Replica |-> 0] /\ queue = [r \in Replica |-> <<>>]
    /\ recvTask = [r \in Replica |-> FALSE]
    /\ sendTask = [r \in Replica |-> FALSE]
    /\ reading = [r \in Replica |-> None]
    /\ sending = [r \in Replica |-> None]
    /\ toggles = 0 /\ strays = 0

Next ==
    \/ \E r \in Replica :
        \/ Connect(r) \/ ServerReceive(r) \/ ServerCrash(r)
        \/ \E to \in Replica : ServerSend(r, to)
        \/ ReadMessage(r) \/ Enqueue(r) \/ EndRecv(r)
        \/ TakeNext(r) \/ WriteMessage(r) \/ EndSend(r) \/ Toggle(r)
    \/ Accept \/ Install

Spec == Init /\ [][Next]_vars

\* The mesh's threads go on whenever they can.  Nothing starts a server again,
\* and nothing makes one send.
Fairness ==
    /\ WF_vars(Accept) /\ WF_vars(Install)
    /\ \A r \in Replica :
        /\ WF_vars(ReadMessage(r)) /\ WF_vars(Enqueue(r)) /\ WF_vars(EndRecv(r))
        /\ WF_vars(TakeNext(r)) /\ WF_vars(WriteMessage(r)) /\ WF_vars(EndSend(r))

FairSpec == Spec /\ Fairness

-----------------------------------------------------------------------------
(* Properties.                                                             *)

\* A server that counts as connected has a socket of its own, and the socket
\* stands for its connection: a descriptor the kernel gives out again is never
\* one the mesh still uses for another connected server.
SocketsApart ==
    \A r \in Replica : connected[r] =>
        /\ sock[r] # 0 /\ fdConn[sock[r]] # 0
        /\ owner[fdConn[sock[r]]] = r
        /\ \A q \in Replica : connected[q] /\ sock[q] = sock[r] => q = r

\* send_handler may find its descriptor given to another server's connection
\* when it wakes up, but that is one message for each connection lost.
OneStrayPerLoss == strays <= Cardinality(gone)

\* The messages of q that i sent to j.
Of(q, i, j) ==
    FlattenSeq([k \in DOMAIN q |->
        IF q[k] # None /\ q[k].from = i /\ q[k].to = j THEN <<q[k]>> ELSE <<>>])

\* The messages from i to j on their way, the oldest first.
Between(i, j) ==
    Of((IF cur[j] = 0 THEN <<>> ELSE down[cur[j]])
           \o <<sending[j]>> \o queue[j] \o <<reading[i]>> \o FlattenSeq(up),
       i, j)

Channels == INSTANCE LossyChannel WITH
    chan <- [i \in Replica |-> [j \in Replica |-> Between(i, j)]]

\* The mesh is a lossy first-in-first-out channel between every two servers,
\* whatever is partitioned, lost and connected again in the middle.
LossyFifo == Channels!Spec

\* The one thread that accepts joins the threads of a lost connection, and
\* they end: no server waits for ever for another one's threads.
Answered ==
    \A c \in 1 .. MaxConns :
        c \in Range(backlog) ~> c \notin Range(backlog) /\ accepted = 0

\* What the mesh has read for a server it delivers, or the server's connection
\* is lost: toggled partitions, delays and reconnections leave no message
\* behind in the queue of a connected server.
Delivered ==
    \A m \in {x \in Message : x.from \in Sender /\ x.to # x.from} :
        connected[m.to] /\ m \in Range(queue[m.to])
            ~> ~connected[m.to] \/ m \notin Range(queue[m.to])
=============================================================================
