-------------------------------- MODULE Raft --------------------------------
(***************************************************************************)
(* The replicated state machine of state.cpp: the three State classes, run *)
(* by Server::run_state_machine on every server, over the replica network. *)
(*                                                                         *)
(* One action is one turn of a run() loop.  set_state and the prologue of  *)
(* the next state's run() belong to the action that asks for the state:    *)
(* nothing can happen between them.  Blocks keep the source's numbering    *)
(* (first block 0, empty chain -1); TLA+ sequences start at 1.             *)
(*                                                                         *)
(* net[i][j] is everything on its way from server i to server j: the TCP   *)
(* stream to the mesh, the mesh's queue for j, the stream to j and j's     *)
(* replica_msg_queue.  Each is FIFO, so the pair is; Lose covers what the  *)
(* mesh drops.  Sender fields (candidate_id, leader_id, sender_id) are the *)
(* first index of net.                                                     *)
(***************************************************************************)
EXTENDS Integers, FiniteSets, Sequences

CONSTANTS
    Server,         \* the replicas 0 .. SERVER_COUNT-1
    DefaultLeader,  \* replica 0, every server's leader before it hears of one
    Request,        \* the client requests, each also the transaction it carries
    None,           \* NULL_CANDIDATE_ID, and a leader that serves no request
    Starters,       \* bound: the servers whose election timer may run out
    MaxTerm,        \* bound: no election is started beyond this term
    MaxInFlight     \* bound: messages on their way between one pair of servers

ASSUME ServerAssumption == IsFiniteSet(Server) /\ Cardinality(Server) > 1
ASSUME LeaderAssumption == DefaultLeader \in Server
ASSUME NoneAssumption == None \notin Server \cup Request
ASSUME BoundAssumption ==
    Starters \subseteq Server /\ MaxTerm \in Nat /\ MaxInFlight \in Nat

VARIABLES
    role,            \* which State object the server runs
    currTerm, votedCandidate, currLeader,           \* Server's fields
    bcLog, committedIndex,                          \* its Blockchain
    balTab,          \* the transactions executed on its BalanceTable, in order
    voteCount,       \* CandidateState::vote_count, 0 in the other states
    nextIndex,       \* LeaderState::nextIndex, all 0 in the other states
    serving,         \* the request a leader waits on (msg_ptr), or None
    numAccept,       \* its num_accept, 0 while serving = None
    net, answer      \* messages under way; what each request's client is told

VARIABLES            \* history, read by properties only
    votes,           \* <<term, voter, candidate>> for every vote cast
    elected,         \* <<term, server>> for every LeaderState entered
    accepted,        \* <<server, index, block>> for every block a server put
                     \* into its chain in the block's own term
    commits,         \* <<index, block>> for every block a leader committed
    allStored        \* every commit found its block accepted by a majority

serverVars == <<role, currTerm, votedCandidate, currLeader>>
chainVars == <<bcLog, committedIndex, balTab>>
stateObjVars == <<voteCount, nextIndex, serving, numAccept>>
electionHist == <<votes, elected>>
commitHist == <<accepted, commits, allStored>>
vars == <<serverVars, chainVars, stateObjVars, net, answer,
          electionHist, commitHist>>

-----------------------------------------------------------------------------
(* Messages and types.                                                     *)

Term == 0 .. MaxTerm
Block == [term: Term, txn: Request]
Index == Nat \cup {-1}
VoteRpc == [type: {"REQ_VOTE_RPC"}, term: Term,
            lastLogTerm: Term, lastLogIndex: Index]
VoteRpl == [type: {"REQ_VOTE_RPL"}, term: Term, granted: BOOLEAN]
AppendRpc == [type: {"APP_ENTR_RPC"}, term: Term, prevLogTerm: Term,
              prevLogIndex: Index, commitIndex: Index, entries: Seq(Block)]
AppendRpl == [type: {"APP_ENTR_RPL"}, term: Term, success: BOOLEAN,
              heartbeat: BOOLEAN]
Message == VoteRpc \cup VoteRpl \cup AppendRpc \cup AppendRpl
Role == {"Follower", "Candidate", "Leader"}

ServerTypes ==
    /\ role \in [Server -> Role]
    /\ currTerm \in [Server -> Term]
    /\ votedCandidate \in [Server -> Server \cup {None}]
    /\ currLeader \in [Server -> Server]
ChainTypes ==
    /\ bcLog \in [Server -> Seq(Block)]
    /\ committedIndex \in [Server -> Index]
    /\ balTab \in [Server -> Seq(Request)]
StateObjTypes ==
    /\ voteCount \in [Server -> Nat]
    /\ nextIndex \in [Server -> [Server -> Int]]
    /\ serving \in [Server -> Request \cup {None}]
    /\ numAccept \in [Server -> Nat]
NetTypes ==
    /\ net \in [Server -> [Server -> Seq(Message)]]
    /\ answer \in [Request -> {"unsent", "taken", "succeed", "failed"}]
HistoryTypes ==
    /\ votes \subseteq Term \X Server \X Server
    /\ elected \subseteq Term \X Server
    /\ accepted \subseteq Server \X Index \X Block
    /\ commits \subseteq Index \X Block
    /\ allStored \in BOOLEAN

TypeOK == /\ ServerTypes /\ ChainTypes /\ StateObjTypes
          /\ NetTypes /\ HistoryTypes

-----------------------------------------------------------------------------
(* The chain: the Blockchain operations the protocol uses.                 *)

LastIndex(log) == Len(log) - 1
LastTermBelowZero(log) == IF log = <<>> THEN -1 ELSE log[Len(log)].term
LastTerm(log) == IF log = <<>> THEN 0 ELSE log[Len(log)].term
BlockAt(log, index) == log[index + 1]
EntriesFrom(log, index) == SubSeq(log, index + 1, Len(log))

\* clean_up_blocks drops every block from index on, whatever it holds, and
\* puts the leader's entries in their place.
CleanUpBlocksNoCut(log, index, ref) == log \o ref
CleanUpBlocks(log, index, ref) == SubSeq(log, 1, index) \o ref

\* The transactions update_bal_tab_and_committed_index executes when the
\* committed index moves from old to new.
ExecutedFromFirst(log, old, new) ==
    [k \in 1 .. new + 1 |-> BlockAt(log, k - 1).txn]
Executed(log, old, new) ==
    [k \in 1 .. (IF new > old THEN new - old ELSE 0) |->
        BlockAt(log, old + k).txn]

\* Server::update_bal_tab_and_committed_index(new) at s; a no-op when the
\* chain has no block new.
CommitUpTo(s, new) ==
    IF new \notin 0 .. LastIndex(bcLog[s])
    THEN UNCHANGED <<committedIndex, balTab>>
    ELSE /\ balTab' = [balTab EXCEPT ![s] =
                          @ \o Executed(bcLog[s], committedIndex[s], new)]
         /\ committedIndex' = [committedIndex EXCEPT ![s] = new]

-----------------------------------------------------------------------------
(* The replica network.                                                    *)

Pop(n, i, j) == [n EXCEPT ![i][j] = Tail(@)]
Push(n, i, j, m) == [n EXCEPT ![i][j] = Append(@, m)]
PushToOthers(n, i, m) ==
    [n EXCEPT ![i] = [j \in Server |->
        IF j = i THEN n[i][j] ELSE Append(n[i][j], m)]]

HasRoom(i, j) == Len(net[i][j]) < MaxInFlight
RoomToOthers(i) == \A j \in Server \ {i} : HasRoom(i, j)

\* The message of this type, if any, that s pops next from what i sent it.
Arriving(i, s, type) ==
    IF net[i][s] = <<>> THEN {} ELSE {m \in {Head(net[i][s])} : m.type = type}

Heartbeat(s) ==
    [type |-> "APP_ENTR_RPC", term |-> currTerm[s],
     prevLogTerm |-> LastTerm(bcLog[s]), prevLogIndex |-> LastIndex(bcLog[s]),
     commitIndex |-> committedIndex[s], entries |-> <<>>]

\* The append RPC that offers every block of log after prev.
AppendFrom(s, log, prev) ==
    [type |-> "APP_ENTR_RPC", term |-> currTerm[s],
     prevLogTerm |-> IF prev = -1 THEN 0 ELSE BlockAt(log, prev).term,
     prevLogIndex |-> prev, commitIndex |-> committedIndex[s],
     entries |-> EntriesFrom(log, prev + 1)]

AppendReply(t, ok, hb) ==
    [type |-> "APP_ENTR_RPL", term |-> t, success |-> ok, heartbeat |-> hb]

-----------------------------------------------------------------------------
(* Elections: FollowerState and CandidateState timing out, votes.          *)

\* The election timer runs out: a new CandidateState takes the next term,
\* votes for itself and asks every other server for its vote.
BecomeCandidate(s) ==
    /\ role[s] \in {"Follower", "Candidate"}
    /\ s \in Starters
    /\ currTerm[s] < MaxTerm
    /\ RoomToOthers(s)
    /\ role' = [role EXCEPT ![s] = "Candidate"]
    /\ currTerm' = [currTerm EXCEPT ![s] = @ + 1]
    /\ votedCandidate' = [votedCandidate EXCEPT ![s] = s]
    /\ voteCount' = [voteCount EXCEPT ![s] = 1]
    /\ votes' = votes \cup {<<currTerm[s] + 1, s, s>>}
    /\ net' = PushToOthers(net, s,
                [type |-> "REQ_VOTE_RPC", term |-> currTerm[s] + 1,
                 lastLogTerm |-> LastTerm(bcLog[s]),
                 lastLogIndex |-> LastIndex(bcLog[s])])
    /\ UNCHANGED <<currLeader, chainVars, nextIndex, serving, numAccept,
                   answer, elected, commitHist>>

\* The candidate's chain is at least as recent as the voter's.
LogUpToDateByIndex(s, m) == LastIndex(bcLog[s]) <= m.lastLogIndex
LogUpToDate(s, m) ==
    \/ LastTerm(bcLog[s]) < m.lastLogTerm
    \/ /\ LastTerm(bcLog[s]) = m.lastLogTerm
       /\ LastIndex(bcLog[s]) <= m.lastLogIndex

\* s, once it has adopted m's term if that is higher, votes for c.
GrantsVoteAnyChain(s, c, m) ==
    /\ m.term >= currTerm[s]
    /\ m.term > currTerm[s] \/ votedCandidate[s] \in {None, c}
GrantsVoteAgain(s, c, m) == m.term >= currTerm[s] /\ LogUpToDate(s, m)
GrantsVote(s, c, m) ==
    /\ m.term >= currTerm[s]
    /\ m.term > currTerm[s] \/ votedCandidate[s] \in {None, c}
    /\ LogUpToDate(s, m)

FollowerVote(s, c) ==
    \E m \in Arriving(c, s, "REQ_VOTE_RPC") :
        LET grant == GrantsVote(s, c, m)
            term == IF m.term > currTerm[s] THEN m.term ELSE currTerm[s]
        IN
        /\ role[s] = "Follower"
        /\ HasRoom(s, c)
        /\ currTerm' = [currTerm EXCEPT ![s] = term]
        /\ votedCandidate' = [votedCandidate EXCEPT ![s] =
                                IF grant THEN c
                                ELSE IF m.term > currTerm[s] THEN None ELSE @]
        /\ votes' = IF grant THEN votes \cup {<<term, s, c>>} ELSE votes
        /\ net' = Push(Pop(net, c, s), s, c,
                    [type |-> "REQ_VOTE_RPL", term |-> term, granted |-> grant])
        /\ UNCHANGED <<role, currLeader, chainVars, stateObjVars, answer,
                       elected, commitHist>>

\* The State object of s is deleted, and the locals of its run() with it.
DropStateObject(s) ==
    /\ voteCount' = [voteCount EXCEPT ![s] = 0]
    /\ nextIndex' = [nextIndex EXCEPT ![s] = [j \in Server |-> 0]]
    /\ serving' = [serving EXCEPT ![s] = None]
    /\ numAccept' = [numAccept EXCEPT ![s] = 0]

\* s becomes a follower again.  It takes the message off its queue and neither
\* adopts its term nor answers it; a request it was serving goes unanswered.
StepDown(s, i) ==
    /\ role' = [role EXCEPT ![s] = "Follower"]
    /\ DropStateObject(s)
    /\ net' = Pop(net, i, s)
    /\ UNCHANGED <<currTerm, votedCandidate, currLeader, chainVars, answer,
                   electionHist, commitHist>>

CandidateStepDownLater(s, i) ==
    /\ role[s] = "Candidate"
    /\ \E type \in {"REQ_VOTE_RPC", "REQ_VOTE_RPL", "APP_ENTR_RPC"} :
        \E m \in Arriving(i, s, type) : m.term > currTerm[s]
    /\ StepDown(s, i)
CandidateStepDown(s, i) ==
    /\ role[s] = "Candidate"
    /\ \/ \E m \in Arriving(i, s, "REQ_VOTE_RPC") : m.term > currTerm[s]
       \/ \E m \in Arriving(i, s, "REQ_VOTE_RPL") : m.term > currTerm[s]
       \/ \E m \in Arriving(i, s, "APP_ENTR_RPC") : m.term >= currTerm[s]
    /\ StepDown(s, i)

\* SERVER_COUNT / 2 + 1
MajorityAtLeastHalf == (Cardinality(Server) + 1) \div 2
Majority == Cardinality(Server) \div 2 + 1

GrantCounts(s, m) == m.term = currTerm[s] /\ m.granted

\* A vote short of the majority.
CandidateCountVote(s, f) ==
    \E m \in Arriving(f, s, "REQ_VOTE_RPL") :
        /\ role[s] = "Candidate"
        /\ GrantCounts(s, m)
        /\ voteCount[s] + 1 < Majority
        /\ voteCount' = [voteCount EXCEPT ![s] = @ + 1]
        /\ net' = Pop(net, f, s)
        /\ UNCHANGED <<serverVars, chainVars, nextIndex, serving, numAccept,
                       answer, electionHist, commitHist>>

\* The vote that completes the majority: a LeaderState runs, names itself
\* leader and announces that with a heartbeat.  nextIndex is not written
\* before the first request, nor read.
BecomeLeader(s, f) ==
    \E m \in Arriving(f, s, "REQ_VOTE_RPL") :
        /\ role[s] = "Candidate"
        /\ GrantCounts(s, m)
        /\ voteCount[s] + 1 >= Majority
        /\ RoomToOthers(s)
        /\ role' = [role EXCEPT ![s] = "Leader"]
        /\ currLeader' = [currLeader EXCEPT ![s] = s]
        /\ DropStateObject(s)
        /\ net' = PushToOthers(Pop(net, f, s), s, Heartbeat(s))
        /\ elected' = elected \cup {<<currTerm[s], s>>}
        /\ UNCHANGED <<currTerm, votedCandidate, chainVars, answer, votes,
                       commitHist>>

-----------------------------------------------------------------------------
(* FollowerState and append RPCs.                                          *)

\* s adopts the term t of a leader that is not behind it.
AdoptTerm(s, t) ==
    /\ currTerm' = [currTerm EXCEPT ![s] = t]
    /\ votedCandidate' = [votedCandidate EXCEPT ![s] =
                            IF t > currTerm[s] THEN None ELSE @]

FollowerRejectStale(s, i) ==
    \E m \in Arriving(i, s, "APP_ENTR_RPC") :
        /\ role[s] = "Follower"
        /\ m.term < currTerm[s]
        /\ HasRoom(s, i)
        /\ net' = Push(Pop(net, i, s), s, i,
                       AppendReply(currTerm[s], FALSE, TRUE))
        /\ UNCHANGED <<serverVars, chainVars, stateObjVars, answer,
                       electionHist, commitHist>>

\* Only a chain that ends where the leader's did lets the follower execute
\* what the leader has committed.
CommitsAlwaysOnHeartbeat(s, m) == m.commitIndex > committedIndex[s]
CommitsOnHeartbeatLate(s, m) ==
    /\ m.prevLogIndex = LastIndex(bcLog[s])
    /\ m.prevLogTerm = LastTerm(bcLog[s])
    /\ m.commitIndex > committedIndex[s] + 1
CommitsOnHeartbeat(s, m) ==
    /\ m.prevLogIndex = LastIndex(bcLog[s])
    /\ m.prevLogTerm = LastTerm(bcLog[s])
    /\ m.commitIndex > committedIndex[s]

FollowerHeartbeat(s, i) ==
    \E m \in Arriving(i, s, "APP_ENTR_RPC") :
        /\ role[s] = "Follower"
        /\ m.term >= currTerm[s]
        /\ m.entries = <<>>
        /\ HasRoom(s, i)
        /\ AdoptTerm(s, m.term)
        /\ currLeader' = [currLeader EXCEPT ![s] = i]
        /\ IF CommitsOnHeartbeat(s, m)
           THEN CommitUpTo(s, m.commitIndex)
           ELSE UNCHANGED <<committedIndex, balTab>>
        /\ net' = Push(Pop(net, i, s), s, i, AppendReply(m.term, TRUE, TRUE))
        /\ UNCHANGED <<role, bcLog, stateObjVars, answer, electionHist,
                       commitHist>>

\* The chain holds the block the entries follow.
PrevMatchesByIndex(log, m) == m.prevLogIndex <= LastIndex(log)
PrevMatches(log, m) ==
    /\ m.prevLogIndex <= LastIndex(log)
    /\ \/ m.prevLogIndex = -1
       \/ BlockAt(log, m.prevLogIndex).term = m.prevLogTerm

\* History: the blocks of m's own term, which s accepts with m.
AcceptedWith(s, m) ==
    {<<s, m.prevLogIndex + e, m.entries[e]>> :
        e \in {k \in DOMAIN m.entries : m.entries[k].term = m.term}}

FollowerAppend(s, i) ==
    \E m \in Arriving(i, s, "APP_ENTR_RPC") :
        LET ok == PrevMatches(bcLog[s], m) IN
        /\ role[s] = "Follower"
        /\ m.term >= currTerm[s]
        /\ m.entries # <<>>
        /\ HasRoom(s, i)
        /\ AdoptTerm(s, m.term)
        /\ bcLog' = IF ok
                    THEN [bcLog EXCEPT ![s] =
                            CleanUpBlocks(@, m.prevLogIndex + 1, m.entries)]
                    ELSE bcLog
        /\ net' = Push(Pop(net, i, s), s, i, AppendReply(m.term, ok, FALSE))
        /\ accepted' = IF ok THEN accepted \cup AcceptedWith(s, m)
                       ELSE accepted
        /\ UNCHANGED <<role, currLeader, committedIndex, balTab, stateObjVars,
                       answer, electionHist, commits, allStored>>

-----------------------------------------------------------------------------
(* LeaderState.                                                            *)

\* send_heartbeat; only the main loop does, not the one that waits.
LeaderHeartbeat(s) ==
    /\ role[s] = "Leader"
    /\ serving[s] = None
    /\ RoomToOthers(s)
    /\ net' = PushToOthers(net, s, Heartbeat(s))
    /\ UNCHANGED <<serverVars, chainVars, stateObjVars, answer, electionHist,
                   commitHist>>

\* The main loop looks at the term of heartbeat replies only, the waiting loop
\* at the term of every append reply.
LeaderStepDown(s, i) ==
    /\ role[s] = "Leader"
    /\ \/ \E m \in Arriving(i, s, "REQ_VOTE_RPC") : m.term > currTerm[s]
       \/ \E m \in Arriving(i, s, "APP_ENTR_RPC") : m.term > currTerm[s]
       \/ \E m \in Arriving(i, s, "APP_ENTR_RPL") :
            m.term > currTerm[s] /\ (serving[s] = None => m.heartbeat)
    /\ StepDown(s, i)

\* The main loop pops a client request: the leader appends a block and offers
\* it to every follower.
LeaderTakeRequest(s, r) ==
    LET block == [term |-> currTerm[s], txn |-> r]
        log == Append(bcLog[s], block)
    IN
    /\ role[s] = "Leader"
    /\ serving[s] = None
    /\ answer[r] = "unsent"
    /\ RoomToOthers(s)
    /\ bcLog' = [bcLog EXCEPT ![s] = log]
    /\ nextIndex' = [nextIndex EXCEPT ![s] =
                        [j \in Server |-> LastIndex(bcLog[s]) + 1]]
    /\ serving' = [serving EXCEPT ![s] = r]
    /\ numAccept' = [numAccept EXCEPT ![s] = 1]
    /\ answer' = [answer EXCEPT ![r] = "taken"]
    /\ net' = PushToOthers(net, s, AppendFrom(s, log, LastIndex(bcLog[s])))
    /\ accepted' = accepted \cup {<<s, LastIndex(log), block>>}
    /\ UNCHANGED <<serverVars, committedIndex, balTab, voteCount,
                   electionHist, commits, allStored>>

\* A successful append, whichever append of this term it answers.
Accepts(s, m) == m.term = currTerm[s] /\ m.success /\ ~m.heartbeat

\* In the main loop it only moves nextIndex.
LeaderNoteAccept(s, f) ==
    \E m \in Arriving(f, s, "APP_ENTR_RPL") :
        /\ role[s] = "Leader"
        /\ serving[s] = None
        /\ Accepts(s, m)
        /\ nextIndex' = [nextIndex EXCEPT ![s][f] = Len(bcLog[s])]
        /\ net' = Pop(net, f, s)
        /\ UNCHANGED <<serverVars, chainVars, voteCount, serving, numAccept,
                       answer, electionHist, commitHist>>

\* While a request waits it is counted; short of the majority:
LeaderCountAccept(s, f) ==
    \E m \in Arriving(f, s, "APP_ENTR_RPL") :
        /\ role[s] = "Leader"
        /\ serving[s] # None
        /\ Accepts(s, m)
        /\ numAccept[s] + 1 < Majority
        /\ numAccept' = [numAccept EXCEPT ![s] = @ + 1]
        /\ nextIndex' = [nextIndex EXCEPT ![s][f] = Len(bcLog[s])]
        /\ net' = Pop(net, f, s)
        /\ UNCHANGED <<serverVars, chainVars, voteCount, serving, answer,
                       electionHist, commitHist>>

\* History: the servers that have accepted a block at an index.
AcceptedBy(index, block) ==
    {q \in Server : <<q, index, block>> \in accepted}

\* The accept that completes the majority: the leader commits its whole chain,
\* executes it and answers the client.
LeaderCommit(s, f) ==
    \E m \in Arriving(f, s, "APP_ENTR_RPL") :
        LET block == BlockAt(bcLog[s], LastIndex(bcLog[s])) IN
        /\ role[s] = "Leader"
        /\ serving[s] # None
        /\ Accepts(s, m)
        /\ numAccept[s] + 1 >= Majority
        /\ CommitUpTo(s, LastIndex(bcLog[s]))
        /\ answer' = [answer EXCEPT ![serving[s]] = "succeed"]
        /\ serving' = [serving EXCEPT ![s] = None]
        /\ numAccept' = [numAccept EXCEPT ![s] = 0]
        /\ nextIndex' = [nextIndex EXCEPT ![s][f] = Len(bcLog[s])]
        /\ net' = Pop(net, f, s)
        /\ commits' = commits \cup {<<LastIndex(bcLog[s]), block>>}
        /\ allStored' =
              (/\ allStored
               /\ Cardinality(AcceptedBy(LastIndex(bcLog[s]), block)) >= Majority)
        /\ UNCHANGED <<serverVars, bcLog, voteCount, electionHist, accepted>>

\* Any other append reply of this term, a heartbeat's too, makes the waiting
\* leader go back one block for its sender; past the first block it only
\* counts down.
LeaderRetry(s, f) ==
    \E m \in Arriving(f, s, "APP_ENTR_RPL") :
        LET prev == nextIndex[s][f] - 2 IN
        /\ role[s] = "Leader"
        /\ serving[s] # None
        /\ m.term = currTerm[s]
        /\ ~Accepts(s, m)
        /\ nextIndex' = [nextIndex EXCEPT ![s][f] = @ - 1]
        /\ IF prev < -1
           THEN net' = Pop(net, f, s)
           ELSE /\ HasRoom(s, f)
                /\ net' = Push(Pop(net, f, s), s, f,
                               AppendFrom(s, bcLog[s], prev))
        /\ UNCHANGED <<serverVars, chainVars, voteCount, serving, numAccept,
                       answer, electionHist, commitHist>>

\* No reply for LEADER_HANDLE_TIME_MS: the client is told of a failure, and
\* the block stays in the chain.
LeaderGiveUpOnReply(s) ==
    /\ role[s] = "Leader"
    /\ serving[s] # None
    /\ \E f \in Server : net[f][s] # <<>>
    /\ answer' = [answer EXCEPT ![serving[s]] = "failed"]
    /\ serving' = [serving EXCEPT ![s] = None]
    /\ numAccept' = [numAccept EXCEPT ![s] = 0]
    /\ UNCHANGED <<serverVars, chainVars, voteCount, nextIndex, net,
                   electionHist, commitHist>>
LeaderGiveUp(s) ==
    /\ role[s] = "Leader"
    /\ serving[s] # None
    /\ answer' = [answer EXCEPT ![serving[s]] = "failed"]
    /\ serving' = [serving EXCEPT ![s] = None]
    /\ numAccept' = [numAccept EXCEPT ![s] = 0]
    /\ UNCHANGED <<serverVars, chainVars, voteCount, nextIndex, net,
                   electionHist, commitHist>>

-----------------------------------------------------------------------------
(* Messages with no effect, and the whole system.                          *)

\* What the run() loop of s's state pops and drops.
Ignores(s, m) ==
    CASE m.type = "REQ_VOTE_RPC" ->
            role[s] # "Follower" /\ m.term <= currTerm[s]
      [] m.type = "REQ_VOTE_RPL" ->
            role[s] = "Candidate" => m.term <= currTerm[s] /\ ~GrantCounts(s, m)
      [] m.type = "APP_ENTR_RPC" ->
            \/ role[s] = "Candidate" /\ m.term < currTerm[s]
            \/ role[s] = "Leader" /\ m.term <= currTerm[s]
      [] m.type = "APP_ENTR_RPL" ->
            \/ role[s] # "Leader"
            \/ serving[s] # None /\ m.term < currTerm[s]
            \/ /\ serving[s] = None
               /\ ~Accepts(s, m)
               /\ ~(m.heartbeat /\ m.term > currTerm[s])

Ignore(s, i) ==
    /\ net[i][s] # <<>>
    /\ Ignores(s, Head(net[i][s]))
    /\ net' = Pop(net, i, s)
    /\ UNCHANGED <<serverVars, chainVars, stateObjVars, answer, electionHist,
                   commitHist>>

\* The mesh drops a message: one end is partitioned or not connected.
Lose(i, j) ==
    /\ net[i][j] # <<>>
    /\ net' = Pop(net, i, j)
    /\ UNCHANGED <<serverVars, chainVars, stateObjVars, answer, electionHist,
                   commitHist>>

Init ==
    /\ role = [s \in Server |-> "Follower"]
    /\ currTerm = [s \in Server |-> 0]
    /\ votedCandidate = [s \in Server |-> None]
    /\ currLeader = [s \in Server |-> DefaultLeader]
    /\ bcLog = [s \in Server |-> <<>>]
    /\ committedIndex = [s \in Server |-> -1]
    /\ balTab = [s \in Server |-> <<>>]
    /\ voteCount = [s \in Server |-> 0]
    /\ nextIndex = [s \in Server |-> [j \in Server |-> 0]]
    /\ serving = [s \in Server |-> None]
    /\ numAccept = [s \in Server |-> 0]
    /\ net = [i \in Server |-> [j \in Server |-> <<>>]]
    /\ answer = [r \in Request |-> "unsent"]
    /\ votes = {} /\ elected = {}
    /\ accepted = {} /\ commits = {} /\ allStored = TRUE

Next ==
    \/ \E s \in Server : BecomeCandidate(s) \/ LeaderHeartbeat(s)
                         \/ LeaderGiveUp(s)
    \/ \E s \in Server, r \in Request : LeaderTakeRequest(s, r)
    \/ \E s, i \in Server :
        \/ FollowerVote(s, i) \/ FollowerRejectStale(s, i)
        \/ FollowerHeartbeat(s, i) \/ FollowerAppend(s, i)
        \/ CandidateStepDown(s, i) \/ CandidateCountVote(s, i)
        \/ BecomeLeader(s, i)
        \/ LeaderStepDown(s, i) \/ LeaderNoteAccept(s, i)
        \/ LeaderCountAccept(s, i) \/ LeaderCommit(s, i) \/ LeaderRetry(s, i)
        \/ Ignore(s, i) \/ Lose(i, s)

Spec == Init /\ [][Next]_vars
=============================================================================
