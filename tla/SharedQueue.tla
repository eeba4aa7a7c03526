---------------------------- MODULE SharedQueue -----------------------------
(***************************************************************************)
(* client_req_queue of network.cpp, response_queue of client.cpp and the   *)
(* trans_queue of mesh.cpp: std::deque objects of pointers that several    *)
(* reader threads fill under a lock and one other thread empties without   *)
(* it.  What such a race does depends on the library, so the deque is      *)
(* modelled as libstdc++ builds it: elements lie in nodes of NodeSize, map *)
(* points to the nodes, start and finish are the two ends.  In the source  *)
(* NodeSize is 64 and a new map has room for 8 nodes.                      *)
(*                                                                         *)
(* Each action is one step of a call between which the other thread may    *)
(* run; the writes of one thread are seen in their order.                  *)
(***************************************************************************)
EXTENDS Integers, Sequences, SequencesExt

CONSTANTS
    Pusher,        \* the reader threads
    None,
    NodeSize,      \* elements in a node
    FirstMapSize,  \* nodes the map of a new deque has room for
    MaxPushes      \* bound: elements ever pushed, and one less than popped

ASSUME QueueAssumption ==
    /\ None \notin Pusher /\ MaxPushes \in Nat
    /\ NodeSize \in Nat \ {0} /\ FirstMapSize \in Nat \ {0}

VARIABLES
    mapSize, map,  \* nodes by their place 0 .. mapSize - 1; 0 is no node
    mem,           \* what lies in each node ever allocated; 0 is no element
    start, finish, \* place in the map, node and offset of both ends
    lock,          \* who holds the mutex, or None
    pc,            \* each pusher: "idle", "pushing", "written", "moving"
    moving,        \* the place of start that a "moving" pusher has read
    consumer,      \* "idle", "popping", "crossing"
    front,         \* the element it has read, or 0
    crossing,      \* the place of start that it has read
    torn,          \* history: a push has moved the nodes during a crossing
    pushed, popped \* history

deque == <<mapSize, map, mem, start, finish>>
pushers == <<lock, pc, moving>>
popper == <<consumer, front, crossing>>
vars == <<deque, pushers, popper, torn, pushed, popped>>

End == [place: Int, node: 0 .. Len(mem), offset: 0 .. NodeSize - 1]

TypeOK ==
    /\ mapSize \in Nat /\ map \in [0 .. mapSize - 1 -> 0 .. Len(mem)]
    /\ mem \in Seq([0 .. NodeSize - 1 -> 0 .. MaxPushes])
    /\ start \in End /\ finish \in End
    /\ lock \in Pusher \cup {None}
    /\ pc \in [Pusher -> {"idle", "pushing", "written", "moving"}]
    /\ moving \in Int /\ crossing \in Int
    /\ consumer \in {"idle", "popping", "crossing"}
    /\ front \in 0 .. MaxPushes /\ (~torn /\ consumer = "popping" => front # 0)
    /\ torn \in BOOLEAN
    /\ pushed \in Seq(1 .. MaxPushes) /\ popped \in Seq(0 .. MaxPushes)

\* size(), from the two ends.
Size == NodeSize * (finish.place - start.place) + finish.offset - start.offset

\* What an end points at: 0 where that is no element.
Element(end) == IF end.node = 0 THEN 0 ELSE mem[end.node][end.offset]

Empty == [k \in 0 .. NodeSize - 1 |-> 0]

-----------------------------------------------------------------------------
(* client_push_request, response_queue_push, append_server_trans_queue.    *)

LockAnyway(p) ==
    /\ pc[p] = "idle" /\ Len(pushed) < MaxPushes
    /\ lock' = p
    /\ pc' = [pc EXCEPT ![p] = "pushing"]
    /\ UNCHANGED <<deque, moving, popper, torn, pushed, popped>>
Lock(p) ==
    /\ lock = None
    /\ pc[p] = "idle" /\ Len(pushed) < MaxPushes
    /\ lock' = p
    /\ pc' = [pc EXCEPT ![p] = "pushing"]
    /\ UNCHANGED <<deque, moving, popper, torn, pushed, popped>>

\* push_back and unlock are done; the element is the number of the push.
Pushed(p) ==
    /\ pushed' = Append(pushed, Len(pushed) + 1)
    /\ pc' = [pc EXCEPT ![p] = "idle"]
    /\ lock' = None

\* push_back where the last node has room for a further element after this
\* one: it is written ...
PushWrite(p) ==
    /\ pc[p] = "pushing" /\ finish.offset < NodeSize - 1
    /\ mem' = [mem EXCEPT ![finish.node][finish.offset] = Len(pushed) + 1]
    /\ pc' = [pc EXCEPT ![p] = "written"]
    /\ UNCHANGED <<mapSize, map, start, finish, lock, moving, popper, torn,
                   pushed, popped>>

\* ... and finish moved behind it.
PushAdvance(p) ==
    /\ pc[p] = "written"
    /\ finish' = [finish EXCEPT !.offset = @ + 1]
    /\ Pushed(p)
    /\ UNCHANGED <<mapSize, map, mem, start, moving, popper, torn, popped>>

\* Where it has not, a new node follows; the element is there before finish is
\* moved to that.
PushNewNode(p) ==
    LET n == Len(mem) + 1 IN
    /\ pc[p] = "pushing" /\ finish.offset = NodeSize - 1
    /\ finish.place + 1 < mapSize
    /\ mem' = Append([mem EXCEPT ![finish.node][finish.offset] =
                                        Len(pushed) + 1], Empty)
    /\ map' = [map EXCEPT ![finish.place + 1] = n]
    /\ finish' = [place |-> finish.place + 1, node |-> n, offset |-> 0]
    /\ Pushed(p)
    /\ UNCHANGED <<mapSize, start, moving, popper, torn, popped>>

\* At the end of the map the nodes in use are first moved to the middle of it,
\* or of a larger one: start is read ...
MoveRead(p) ==
    /\ pc[p] = "pushing" /\ finish.offset = NodeSize - 1
    /\ finish.place + 1 = mapSize
    /\ moving' = start.place
    /\ pc' = [pc EXCEPT ![p] = "moving"]
    /\ UNCHANGED <<deque, lock, popper, torn, pushed, popped>>

\* ... and both ends are written.
MoveWrite(p) ==
    LET used == finish.place - moving + 1
        size == IF mapSize > 2 * (used + 1) THEN mapSize ELSE 2 * mapSize + 2
        first == (size - used - 1) \div 2
    IN
    /\ pc[p] = "moving"
    /\ mapSize' = size
    /\ map' = [k \in 0 .. size - 1 |->
                 CASE k \in first .. first + used - 1 -> map[moving + k - first]
                   [] k \notin first .. first + used - 1 /\ size = mapSize -> map[k]
                   [] OTHER -> 0]
    /\ start' = [start EXCEPT !.place = first]
    /\ finish' = [finish EXCEPT !.place = first + used - 1]
    /\ pc' = [pc EXCEPT ![p] = "pushing"]
    /\ torn' = (torn \/ consumer = "crossing")
    /\ UNCHANGED <<mem, lock, moving, popper, pushed, popped>>

-----------------------------------------------------------------------------
(* client_pop_request, response_queue_pop, pop_server_trans_queue.         *)

\* size() and at(0); nothing is popped from an empty queue.
PopRead ==
    /\ consumer = "idle" /\ Len(popped) <= MaxPushes
    /\ Size # 0
    /\ front' = Element(start)
    /\ consumer' = "popping"
    /\ UNCHANGED <<deque, pushers, crossing, torn, pushed, popped>>

\* pop_front inside a node.
PopAdvance ==
    /\ consumer = "popping" /\ start.offset < NodeSize - 1
    /\ start' = [start EXCEPT !.offset = @ + 1]
    /\ popped' = Append(popped, front)
    /\ front' = 0 /\ consumer' = "idle"
    /\ UNCHANGED <<mapSize, map, mem, finish, pushers, crossing, torn, pushed>>

\* pop_front of a node's last element frees the node: start is read ...
CrossRead ==
    /\ consumer = "popping" /\ start.offset = NodeSize - 1
    /\ crossing' = start.place
    /\ consumer' = "crossing"
    /\ UNCHANGED <<deque, pushers, front, torn, pushed, popped>>

\* ... and moved to the next node.
CrossWrite ==
    /\ consumer = "crossing"
    /\ start' = [place |-> crossing + 1, offset |-> 0,
                 node |-> IF crossing + 1 \in DOMAIN map THEN map[crossing + 1]
                          ELSE 0]
    /\ popped' = Append(popped, front)
    /\ front' = 0 /\ consumer' = "idle"
    /\ torn' = (torn \/ \E p \in Pusher : pc[p] = "moving")
    /\ UNCHANGED <<mapSize, map, mem, finish, pushers, crossing, pushed>>

Init ==
    LET end == [place |-> (FirstMapSize - 1) \div 2, node |-> 1, offset |-> 0] IN
    /\ mapSize = FirstMapSize
    /\ map = [k \in 0 .. FirstMapSize - 1 |-> IF k = end.place THEN 1 ELSE 0]
    /\ mem = <<Empty>> /\ start = end /\ finish = end
    /\ lock = None /\ pc = [p \in Pusher |-> "idle"] /\ moving = 0
    /\ consumer = "idle" /\ front = 0 /\ crossing = 0
    /\ torn = FALSE /\ pushed = <<>> /\ popped = <<>>

Next ==
    \/ \E p \in Pusher : Lock(p) \/ PushWrite(p) \/ PushAdvance(p)
                         \/ PushNewNode(p) \/ MoveRead(p) \/ MoveWrite(p)
    \/ PopRead \/ PopAdvance \/ CrossRead \/ CrossWrite

Spec == Init /\ [][Next]_vars

-----------------------------------------------------------------------------
(* Properties.                                                             *)

\* "lock of the client_req_queue": between calls the queue holds what has been
\* pushed and not popped; but no lock keeps a push from moving the nodes while
\* a pop crosses from one to the next.
SizeIsRight ==
    ~torn /\ lock = None /\ consumer = "idle" =>
        Size = Len(pushed) - Len(popped)
=============================================================================
