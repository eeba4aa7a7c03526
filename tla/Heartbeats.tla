----------------------------- MODULE Heartbeats -----------------------------
(***************************************************************************)
(* Time in state.cpp: when a leader sends heartbeats, how long it waits    *)
(* for its followers, and when a follower's election timer runs out.  A    *)
(* tick is half a second, what the mesh holds a message for; every step    *)
(* but Tick takes no time.  One leader, whose term nobody ends; of the     *)
(* chains only how many blocks the leader has, and how many of them each   *)
(* follower.                                                               *)
(***************************************************************************)
EXTENDS Integers, FiniteSets, Sequences

CONSTANTS
    Follower,
    HeartbeatPeriod,   \* HEARTBEAT_PERIOD_MS, in ticks
    HandleTime,        \* LEADER_HANDLE_TIME_MS
    ElectionTimeout,   \* ELECTION_TIMEOUT_MS
    MaxDelay,          \* bound: ticks a message takes, the polling included
    FirstLength,       \* bound: blocks the leader has at first
    MaxLength,         \* bound: blocks it ever has
    MaxInFlight,       \* bound: messages on their way to or from a follower
    MaxCuts            \* bound: partitions switched on or off

ASSUME TimeAssumption ==
    /\ IsFiniteSet(Follower)
    /\ HeartbeatPeriod \in Nat /\ HandleTime \in Nat /\ ElectionTimeout \in Nat
    /\ MaxDelay \in Nat \ {0} /\ MaxInFlight \in Nat /\ MaxCuts \in Nat
    /\ FirstLength \in Nat /\ MaxLength \in Nat /\ FirstLength <= MaxLength

VARIABLES
    sinceBeat,     \* ticks since last_heartbeat_time
    waiting,       \* the leader is in the loop that waits for a majority
    sinceReply,    \* ticks since last was set in that loop, 0 outside it
    accepts,       \* its num_accept, 0 outside it
    nextIndex, length,
    has,           \* the first has[f] blocks of the leader are in f's chain
    toFollower,    \* messages on their way: the blocks from .. upto - 1
    toLeader,      \* replies on their way: [kind, age]
    silence,       \* ticks since a follower's last_time was set
    cut, everCut,  \* partitioned now; history: partitioned at some time
    cuts

leader == <<sinceBeat, waiting, sinceReply, accepts, nextIndex, length>>
links == <<cut, everCut, cuts>>
vars == <<leader, has, toFollower, toLeader, silence, links>>

\* gen_election_timeout: half of ELECTION_TIMEOUT_MS and up to as much again.
ShortestTimeout == ElectionTimeout \div 2

Rpc == [kind: {"beat", "append"}, from: 0 .. MaxLength, upto: 0 .. MaxLength,
        age: 0 .. MaxDelay]
Reply == [kind: {"beat", "accept", "refuse"}, age: 0 .. MaxDelay]

TypeOK ==
    /\ sinceBeat \in Nat /\ waiting \in BOOLEAN
    /\ sinceReply \in 0 .. HandleTime + 1
    /\ accepts \in 0 .. Cardinality(Follower) + 1
    /\ waiting <=> accepts > 0
    /\ nextIndex \in [Follower -> Int] /\ length \in 0 .. MaxLength
    /\ has \in [Follower -> 0 .. length]
    /\ toFollower \in [Follower -> Seq(Rpc)]
    /\ toLeader \in [Follower -> Seq(Reply)]
    /\ silence \in [Follower -> Nat]
    /\ cut \in [Follower -> BOOLEAN] /\ everCut \in [Follower -> BOOLEAN]
    /\ cuts \in 0 .. MaxCuts

Heartbeat == [kind |-> "beat", from |-> 0, upto |-> 0, age |-> 0]
AppendRpc(first, end) ==
    [kind |-> "append", from |-> first, upto |-> end, age |-> 0]
HasRoom(f) == Len(toFollower[f]) < MaxInFlight /\ Len(toLeader[f]) < MaxInFlight

-----------------------------------------------------------------------------
(* LeaderState.                                                            *)

\* SERVER_COUNT / 2 + 1
MajorityOfAll == Cardinality(Follower) + 1
Majority == (Cardinality(Follower) + 1) \div 2 + 1

\* The main loop sends heartbeats, the waiting one does not.
Beat ==
    /\ ~waiting /\ sinceBeat >= HeartbeatPeriod
    /\ toFollower' = [f \in Follower |->
                        Append(toFollower[f], Heartbeat)]
    /\ sinceBeat' = 0
    /\ UNCHANGED <<waiting, sinceReply, accepts, nextIndex, length, has,
                   toLeader, silence, links>>

\* A client's request: a block is appended and offered to every follower.
TakeRequest ==
    /\ ~waiting /\ sinceBeat < HeartbeatPeriod
    /\ length < MaxLength /\ \A f \in Follower : HasRoom(f)
    /\ waiting' = TRUE /\ sinceReply' = 0 /\ accepts' = 1
    /\ length' = length + 1
    /\ nextIndex' = [f \in Follower |-> length]
    /\ toFollower' = [f \in Follower |->
                        Append(toFollower[f], AppendRpc(length, length + 1))]
    /\ UNCHANGED <<sinceBeat, has, toLeader, silence, links>>

StopWaitingOnly == waiting' = FALSE /\ sinceReply' = 0 /\ accepts' = accepts
StopWaiting == waiting' = FALSE /\ sinceReply' = 0 /\ accepts' = 0

\* A reply counts only while the leader waits, and restarts its clock.  An
\* accept may complete the majority; any other one, a heartbeat's too, makes
\* it send again from one block further back, as long as there is one.
HandleReply(f) ==
    LET m == Head(toLeader[f])
        next == nextIndex[f] - 1
    IN
    /\ toLeader[f] # <<>> /\ m.age > 0
    /\ toLeader' = [toLeader EXCEPT ![f] = Tail(@)]
    /\ \/ /\ ~waiting
          /\ UNCHANGED <<leader, toFollower>>
       \/ /\ waiting /\ m.kind = "accept"
          /\ IF accepts + 1 >= Majority
             THEN StopWaiting
             ELSE waiting' = TRUE /\ sinceReply' = 0 /\ accepts' = accepts + 1
          /\ nextIndex' = [nextIndex EXCEPT ![f] = length]
          /\ UNCHANGED <<sinceBeat, length, toFollower>>
       \/ /\ waiting /\ m.kind # "accept"
          /\ sinceReply' = 0
          /\ nextIndex' = [nextIndex EXCEPT ![f] = next]
          /\ toFollower' =
                IF next < 0 THEN toFollower
                ELSE [toFollower EXCEPT ![f] = Append(@, AppendRpc(next, length))]
          /\ UNCHANGED <<sinceBeat, waiting, accepts, length>>
    /\ UNCHANGED <<has, silence, links>>

GiveUp ==
    /\ waiting /\ sinceReply > HandleTime
    /\ StopWaiting
    /\ UNCHANGED <<sinceBeat, nextIndex, length, has, toFollower, toLeader,
                   silence, links>>

-----------------------------------------------------------------------------
(* FollowerState, and the mesh.                                            *)

\* Every append RPC restarts the election timer.  The follower takes the
\* blocks if it has the one before them, and drops what followed that one.
HandleRpc(f) ==
    LET m == Head(toFollower[f])
        taken == m.kind = "append" /\ m.from <= has[f]
        kind == IF taken THEN "accept"
                ELSE IF m.kind = "beat" THEN "beat" ELSE "refuse"
    IN
    /\ toFollower[f] # <<>> /\ m.age > 0
    /\ toFollower' = [toFollower EXCEPT ![f] = Tail(@)]
    /\ IF cut[f]
       THEN UNCHANGED <<has, toLeader, silence>>
       ELSE /\ silence' = [silence EXCEPT ![f] = 0]
            /\ has' = IF taken THEN [has EXCEPT ![f] = m.upto] ELSE has
            /\ toLeader' = [toLeader EXCEPT ![f] =
                                Append(@, [kind |-> kind, age |-> 0])]
    /\ UNCHANGED <<leader, links>>

\* server_partition_toggle, for a follower.  One that is cut off until its
\* timer runs out will end the term; until then, and for the others, this goes
\* on.
Toggle(f) ==
    /\ cuts < MaxCuts
    /\ cuts' = cuts + 1
    /\ cut' = [cut EXCEPT ![f] = ~@]
    /\ everCut' = [everCut EXCEPT ![f] = TRUE]
    /\ UNCHANGED <<leader, has, toFollower, toLeader, silence>>

\* Half a second passes, unless something is due.
Older(q) == [k \in DOMAIN q |-> [q[k] EXCEPT !.age = @ + 1]]
Tick ==
    /\ waiting \/ sinceBeat < HeartbeatPeriod
    /\ sinceReply <= HandleTime
    /\ \A f \in Follower :
        /\ \A k \in DOMAIN toFollower[f] : toFollower[f][k].age < MaxDelay
        /\ \A k \in DOMAIN toLeader[f] : toLeader[f][k].age < MaxDelay
        /\ silence[f] < ElectionTimeout
    /\ sinceBeat' = IF sinceBeat < HeartbeatPeriod THEN sinceBeat + 1 ELSE sinceBeat
    /\ sinceReply' = IF waiting THEN sinceReply + 1 ELSE 0
    /\ silence' = [f \in Follower |-> IF everCut[f] THEN 0 ELSE silence[f] + 1]
    /\ toFollower' = [f \in Follower |-> Older(toFollower[f])]
    /\ toLeader' = [f \in Follower |-> Older(toLeader[f])]
    /\ UNCHANGED <<waiting, accepts, nextIndex, length, has, links>>

\* A leader has just been elected and announced itself; its followers may lack
\* blocks.
Init ==
    /\ sinceBeat = 0 /\ waiting = FALSE /\ sinceReply = 0 /\ accepts = 0
    /\ nextIndex = [f \in Follower |-> 0] /\ length = FirstLength
    /\ has \in [Follower -> 0 .. FirstLength]
    /\ toFollower = [f \in Follower |-> <<Heartbeat>>]
    /\ toLeader = [f \in Follower |-> <<>>]
    /\ silence = [f \in Follower |-> 0]
    /\ cut = [f \in Follower |-> FALSE] /\ everCut = [f \in Follower |-> FALSE]
    /\ cuts = 0

Next ==
    \/ Beat \/ TakeRequest \/ GiveUp \/ Tick
    \/ \E f \in Follower : HandleReply(f) \/ HandleRpc(f) \/ Toggle(f)

Spec == Init /\ [][Next]_vars

-----------------------------------------------------------------------------
(* Properties.                                                             *)

\* A follower that has always been in reach hears from the leader before its
\* election timer can run out, although a waiting leader sends no heartbeats,
\* and whatever the other follower lacks and however often that is cut off.
HeardInTime ==
    \A f \in Follower : ~everCut[f] => silence[f] < ShortestTimeout
=============================================================================
