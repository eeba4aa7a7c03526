----------------------------- MODULE RaftProofs -----------------------------
(***************************************************************************)
(* Type correctness and ElectionSafety of Raft, for every set of servers   *)
(* and requests, all bounds, every loss and every interleaving.            *)
(*                                                                         *)
(* TypeInv is inductive: LeaderShape gives the two facts about a leader    *)
(* without which TypeOK is not (a retry never offers a block its chain has *)
(* not got, and a commit finds the chain non-empty).                       *)
(*                                                                         *)
(* ElectionSafety is not inductive.  What is:                              *)
(*   - a voter casts one vote per term and remembers it while in the term; *)
(*   - of one request for a vote at most one grant comes back (AsksOnce),  *)
(*     so a candidate's vote_count counts servers and not messages;        *)
(*   - whoever entered LeaderState has the votes of a majority.            *)
(* Two majorities share a voter, and that voter voted once.                *)
(*                                                                         *)
(* LogMatching, and how chains grow, for every number of servers, every    *)
(* loss and every interleaving.                                            *)
(*                                                                         *)
(* LogMatching speaks of chains only; what is inductive speaks of links,   *)
(* of chains and of the append RPCs under way alike (LogInv of RaftInv).   *)
(* Only LeaderTakeRequest makes a new link, of the leader's own term and   *)
(* after every other link of that term; whoever is elected is the first of *)
(* its term (ElectionSafety), so there is no other link of its term before *)
(* that.                                                                   *)
(*                                                                         *)
(* GrowthInv: terms climb along chains, one leader's appends reach a       *)
(* follower in the order of their length, and a chain with a block of a    *)
(* term has all blocks of that term below it.  Most steps touch no chain   *)
(* and send no blocks: they are the quiet ones, and three kinds of steps   *)
(* are left for each invariant from there on.                              *)
(*                                                                         *)
(* What is chosen stays chosen (ChosenInv of RaftInv); as long as every    *)
(* commit found its block accepted by a majority, what is executed is      *)
(* chosen (CommitInv), and what is executed and what clients are told are  *)
(* steps of OneLedger (LedgerInv).  A block is dead once a majority has    *)
(* gone to later terms without accepting it; until then every later        *)
(* candidate with a vote of one that accepted it, every later leader and   *)
(* every later append has it.                                              *)
(***************************************************************************)
EXTENDS RaftInv, RaftLedger, FiniteSetTheorems, SequenceTheorems,
        WellFoundedInduction, TLAPS

USE ServerAssumption
USE LeaderAssumption
USE NoneAssumption
USE BoundAssumption

Net == [Server -> [Server -> Seq(Message)]]

-----------------------------------------------------------------------------
(* Channels and messages.                                                  *)

\* Taking a message from a channel that has one, and putting one on.
LEMMA PopType ==
    ASSUME NEW n \in Net, NEW i \in Server, NEW j \in Server, n[i][j] # <<>>
    PROVE  Pop(n, i, j) \in Net
BY DEF Net, Pop

LEMMA PushType ==
    ASSUME NEW n \in Net, NEW i \in Server, NEW j \in Server, NEW m \in Message
    PROVE  Push(n, i, j, m) \in Net
BY DEF Net, Push

LEMMA PushToOthersType ==
    ASSUME NEW n \in Net, NEW i \in Server, NEW m \in Message
    PROVE  PushToOthers(n, i, m) \in Net
BY DEF Net, PushToOthers

\* What arrives is the head of its channel, a message of the type asked for.
LEMMA ArrivingType ==
    ASSUME TypeOK, NEW i \in Server, NEW s \in Server, NEW ty,
           NEW m \in Arriving(i, s, ty)
    PROVE  /\ net[i][s] # <<>>
           /\ m = Head(net[i][s])
           /\ m \in Message
           /\ m.type = ty
           /\ Pop(net, i, s) \in Net
<1>1. net \in Net  BY DEF TypeOK, NetTypes, Net
<1>2. net[i][s] # <<>> /\ m = Head(net[i][s]) /\ m.type = ty
  BY DEF Arriving
<1>3. net[i][s] \in Seq(Message)  BY <1>1 DEF Net
<1>4. m \in Message  BY <1>2, <1>3
<1> QED  BY <1>1, <1>2, <1>4, PopType

\* The type field tells the four kinds of message apart.
LEMMA MessageKinds ==
    ASSUME NEW m \in Message
    PROVE  /\ m.type = "REQ_VOTE_RPC" => m \in VoteRpc
           /\ m.type = "REQ_VOTE_RPL" => m \in VoteRpl
           /\ m.type = "APP_ENTR_RPC" => m \in AppendRpc
           /\ m.type = "APP_ENTR_RPL" => m \in AppendRpl
           /\ m.term \in Term
BY DEF Message, VoteRpc, VoteRpl, AppendRpc, AppendRpl

LEMMA AppendReplyType ==
    ASSUME NEW t \in Term, NEW ok \in BOOLEAN, NEW hb \in BOOLEAN
    PROVE  AppendReply(t, ok, hb) \in Message
BY DEF AppendReply, Message, AppendRpl

-----------------------------------------------------------------------------
(* Chains.                                                                 *)

LEMMA ChainType ==
    ASSUME NEW log \in Seq(Block)
    PROVE  /\ LastIndex(log) \in Index
           /\ LastTerm(log) \in Term
           /\ \A index \in 0 .. LastIndex(log) : BlockAt(log, index) \in Block
           /\ \A index \in Nat : EntriesFrom(log, index) \in Seq(Block)
<1>1. LastIndex(log) \in Index  BY DEF LastIndex, Index
<1>2. LastTerm(log) \in Term
  <2>1. CASE log = <<>>  BY <2>1 DEF LastTerm, Term, BoundAssumption
  <2>2. CASE log # <<>>
    <3>1. log[Len(log)] \in Block  BY <2>2
    <3> QED  BY <2>2, <3>1 DEF LastTerm, Block
  <2> QED  BY <2>1, <2>2
<1>3. \A index \in 0 .. LastIndex(log) : BlockAt(log, index) \in Block
  BY DEF BlockAt, LastIndex
<1>4. \A index \in Nat : EntriesFrom(log, index) \in Seq(Block)
  BY DEF EntriesFrom
<1> QED  BY <1>1, <1>2, <1>3, <1>4

LEMMA HeartbeatType ==
    ASSUME TypeOK, NEW s \in Server
    PROVE  Heartbeat(s) \in Message
<1>1. bcLog[s] \in Seq(Block) /\ currTerm[s] \in Term
      /\ committedIndex[s] \in Index
  BY DEF TypeOK, ServerTypes, ChainTypes
<1>2. <<>> \in Seq(Block)  OBVIOUS
<1> QED  BY <1>1, <1>2, ChainType DEF Heartbeat, Message, AppendRpc

LEMMA AppendFromType ==
    ASSUME TypeOK, NEW s \in Server, NEW log \in Seq(Block),
           NEW prev \in Index, prev <= LastIndex(log)
    PROVE  AppendFrom(s, log, prev) \in Message
<1>1. currTerm[s] \in Term /\ committedIndex[s] \in Index
  BY DEF TypeOK, ServerTypes, ChainTypes
<1>2. EntriesFrom(log, prev + 1) \in Seq(Block)
  <2>1. prev + 1 \in Nat  BY DEF Index
  <2> QED  BY <2>1, ChainType
<1>3. (IF prev = -1 THEN 0 ELSE BlockAt(log, prev).term) \in Term
  <2>1. CASE prev = -1  BY <2>1 DEF Term, BoundAssumption
  <2>2. CASE prev # -1
    <3>1. prev \in 0 .. LastIndex(log)  BY <2>2, ChainType DEF Index
    <3> QED  BY <2>2, <3>1, ChainType DEF Block
  <2> QED  BY <2>1, <2>2
<1> QED  BY <1>1, <1>2, <1>3 DEF AppendFrom, Message, AppendRpc

LEMMA CleanUpType ==
    ASSUME NEW log \in Seq(Block), NEW ref \in Seq(Block),
           NEW index \in 0 .. Len(log)
    PROVE  CleanUpBlocks(log, index, ref) \in Seq(Block)
<1>1. SubSeq(log, 1, index) \in Seq(Block)  OBVIOUS
<1> QED  BY <1>1 DEF CleanUpBlocks

LEMMA ExecutedType ==
    ASSUME NEW log \in Seq(Block), NEW old \in Index, NEW new \in Index,
           new <= LastIndex(log)
    PROVE  Executed(log, old, new) \in Seq(Request)
<1> DEFINE n == IF new > old THEN new - old ELSE 0
<1>1. n \in Nat  BY DEF Index
<1>2. \A k \in 1 .. n : BlockAt(log, old + k).txn \in Request
  <2> SUFFICES ASSUME NEW k \in 1 .. n
               PROVE  BlockAt(log, old + k).txn \in Request
    OBVIOUS
  <2>1. LastIndex(log) \in Int  BY ChainType DEF Index
  <2>2. new > old  BY <1>1
  <2>3. k \in Int /\ 1 <= k /\ k <= new - old  BY <2>2
  <2>4. old \in Int /\ new \in Int /\ old >= -1  BY DEF Index
  <2>5. old + k \in 0 .. LastIndex(log)  BY <2>1, <2>3, <2>4
  <2> QED  BY <2>5, ChainType DEF Block
<1>3. Executed(log, old, new) = [k \in 1 .. n |-> BlockAt(log, old + k).txn]
  BY DEF Executed
<1> HIDE DEF n
<1> QED  BY <1>1, <1>2, <1>3

\* update_bal_tab_and_committed_index keeps the table and the index in type.
LEMMA CommitUpToType ==
    ASSUME TypeOK, NEW s \in Server, NEW new \in Index, CommitUpTo(s, new)
    PROVE  /\ committedIndex' \in [Server -> Index]
           /\ balTab' \in [Server -> Seq(Request)]
<1>0. bcLog[s] \in Seq(Block) /\ committedIndex[s] \in Index
      /\ balTab[s] \in Seq(Request)
  BY DEF TypeOK, ChainTypes
<1>1. CASE new \notin 0 .. LastIndex(bcLog[s])
  BY <1>1 DEF CommitUpTo, TypeOK, ChainTypes
<1>2. CASE new \in 0 .. LastIndex(bcLog[s])
  <2>0. new <= LastIndex(bcLog[s])  BY <1>2
  <2>1. Executed(bcLog[s], committedIndex[s], new) \in Seq(Request)
    BY <1>0, <2>0, ExecutedType
  <2>2. balTab[s] \o Executed(bcLog[s], committedIndex[s], new) \in Seq(Request)
    BY <1>0, <2>1
  <2>3. /\ balTab' = [balTab EXCEPT ![s] =
                        @ \o Executed(bcLog[s], committedIndex[s], new)]
        /\ committedIndex' = [committedIndex EXCEPT ![s] = new]
    BY <1>2 DEF CommitUpTo
  <2> QED  BY <2>2, <2>3 DEF TypeOK, ChainTypes
<1> QED  BY <1>1, <1>2

-----------------------------------------------------------------------------
(* Type correctness.                                                       *)

LEMMA TypeInit == Init => TypeInv
<1> SUFFICES ASSUME Init PROVE TypeInv
  OBVIOUS
<1>1. 0 \in Term /\ -1 \in Index  BY DEF Term, Index, BoundAssumption
<1>2. <<>> \in Seq(Block) /\ <<>> \in Seq(Request) /\ <<>> \in Seq(Message)
  OBVIOUS
<1>3. ServerTypes  BY <1>1, LeaderAssumption DEF Init, ServerTypes, Role
<1>4. ChainTypes  BY <1>1, <1>2 DEF Init, ChainTypes
<1>5. StateObjTypes  BY DEF Init, StateObjTypes
<1>6. NetTypes  BY <1>2 DEF Init, NetTypes
<1>7. HistoryTypes  BY DEF Init, HistoryTypes
<1>8. LeaderShape  BY DEF Init, LeaderShape
<1> QED  BY <1>3, <1>4, <1>5, <1>6, <1>7, <1>8 DEF TypeInv, TypeOK

\* The parts of the type a step leaves alone.
LEMMA TypeFrame ==
    ASSUME TypeOK
    PROVE  /\ UNCHANGED serverVars => ServerTypes'
           /\ UNCHANGED chainVars => ChainTypes'
           /\ UNCHANGED stateObjVars => StateObjTypes'
           /\ UNCHANGED <<electionHist, commitHist>> => HistoryTypes'
BY DEF TypeOK, ServerTypes, ChainTypes, StateObjTypes, HistoryTypes,
       serverVars, chainVars, stateObjVars, electionHist, commitHist

LEMMA TypeTogether ==
    ASSUME ServerTypes', ChainTypes', StateObjTypes', NetTypes', HistoryTypes',
           LeaderShape'
    PROVE  TypeInv'
BY DEF TypeInv, TypeOK

\* LeaderShape does not depend on terms, votes, counts, tables or messages.
LEMMA ShapeFrame ==
    ASSUME LeaderShape, UNCHANGED <<role, bcLog, nextIndex, serving>>
    PROVE  LeaderShape'
BY DEF LeaderShape

\* A server that has dropped its State object, in whatever role it goes on.
LEMMA DropType ==
    ASSUME TypeInv, NEW s \in Server, DropStateObject(s), NEW r \in Role,
           role' = [role EXCEPT ![s] = r], UNCHANGED bcLog
    PROVE  StateObjTypes' /\ LeaderShape'
<1> USE DEF TypeInv, TypeOK, StateObjTypes, DropStateObject
<1>1. StateObjTypes'  OBVIOUS
<1>2. LeaderShape'
  <2> SUFFICES ASSUME NEW q \in Server
               PROVE  /\ serving'[q] # None => role'[q] = "Leader" /\ bcLog[q] # <<>>
                      /\ \A j \in Server : nextIndex'[q][j] <= Len(bcLog[q])
                      /\ role'[q] # "Leader" =>
                            \A j \in Server : nextIndex'[q][j] = 0
    BY DEF LeaderShape
  <2>1. CASE q = s
    <3>1. serving'[q] = None /\ \A j \in Server : nextIndex'[q][j] = 0
      BY <2>1
    <3>2. Len(bcLog[q]) \in Nat  BY DEF ChainTypes
    <3> HIDE DEF TypeInv, TypeOK, DropStateObject
    <3>3. \A j \in Server : nextIndex'[q][j] <= Len(bcLog[q])
      BY <3>1, <3>2
    <3> QED  BY <3>1, <3>3
  <2>2. CASE q # s
    <3>1. /\ serving'[q] = serving[q] /\ nextIndex'[q] = nextIndex[q]
          /\ role'[q] = role[q]
      BY <2>2 DEF ServerTypes
    <3> QED  BY <3>1 DEF LeaderShape
  <2> QED  BY <2>1, <2>2
<1> QED  BY <1>1, <1>2

LEMMA TypeBecomeCandidate ==
    ASSUME TypeInv, NEW s \in Server, BecomeCandidate(s)
    PROVE  TypeInv'
<1> USE DEF TypeInv, TypeOK, BecomeCandidate
<1>1. currTerm[s] + 1 \in Term
  BY DEF ServerTypes, Term, BoundAssumption
<1>2. [type |-> "REQ_VOTE_RPC", term |-> currTerm[s] + 1,
       lastLogTerm |-> LastTerm(bcLog[s]),
       lastLogIndex |-> LastIndex(bcLog[s])] \in Message
  <2>1. bcLog[s] \in Seq(Block)  BY DEF ChainTypes
  <2> QED  BY <1>1, <2>1, ChainType DEF Message, VoteRpc
<1>3. NetTypes'
  BY <1>2, PushToOthersType DEF NetTypes, Net
<1>4. ServerTypes'  BY <1>1 DEF ServerTypes, Role
<1>5. ChainTypes'  BY TypeFrame
<1>6. StateObjTypes'  BY DEF StateObjTypes
<1>7. HistoryTypes'  BY <1>1 DEF HistoryTypes, commitHist
<1>8. LeaderShape'
  BY DEF LeaderShape, ServerTypes, chainVars
<1> QED  BY <1>3, <1>4, <1>5, <1>6, <1>7, <1>8, TypeTogether

LEMMA TypeFollowerVote ==
    ASSUME TypeInv, NEW s \in Server, NEW c \in Server, FollowerVote(s, c)
    PROVE  TypeInv'
<1> USE DEF TypeInv, TypeOK
<1>1. PICK m \in Arriving(c, s, "REQ_VOTE_RPC") : FollowerVote(s, c)!(m)
  BY DEF FollowerVote
<1> DEFINE grant == GrantsVote(s, c, m)
           term == IF m.term > currTerm[s] THEN m.term ELSE currTerm[s]
<1>2. Pop(net, c, s) \in Net /\ m \in Message  BY ArrivingType
<1>3. term \in Term /\ grant \in BOOLEAN
  BY <1>2, MessageKinds DEF ServerTypes, GrantsVote
<1>4. [type |-> "REQ_VOTE_RPL", term |-> term, granted |-> grant] \in Message
  BY <1>3 DEF Message, VoteRpl
<1> HIDE DEF grant, term
<1>5. NetTypes'
  BY <1>1, <1>2, <1>4, PushType DEF NetTypes, Net, grant, term
<1>6. /\ currTerm' = [currTerm EXCEPT ![s] = term]
      /\ votes' = IF grant THEN votes \cup {<<term, s, c>>} ELSE votes
  BY <1>1 DEF grant, term
<1>7. ServerTypes'
  BY <1>1, <1>3, <1>6 DEF ServerTypes
<1>8. ChainTypes' /\ StateObjTypes'
  BY <1>1, TypeFrame
<1>9. HistoryTypes'
  BY <1>1, <1>3, <1>6 DEF HistoryTypes, commitHist
<1>10. LeaderShape'
  BY <1>1, ShapeFrame DEF chainVars, stateObjVars
<1> QED  BY <1>5, <1>7, <1>8, <1>9, <1>10, TypeTogether

LEMMA TypeStepDown ==
    ASSUME TypeInv, NEW s \in Server, NEW i \in Server,
           net[i][s] # <<>>, StepDown(s, i)
    PROVE  TypeInv'
<1> USE DEF TypeInv, TypeOK, StepDown
<1>1. NetTypes'  BY PopType DEF NetTypes, Net
<1>2. ServerTypes'  BY DEF ServerTypes, Role
<1>3. ChainTypes' /\ HistoryTypes'  BY TypeFrame
<1>4. StateObjTypes' /\ LeaderShape'
  BY DropType DEF Role, chainVars
<1> QED  BY <1>1, <1>2, <1>3, <1>4, TypeTogether

LEMMA TypeCountVote ==
    ASSUME TypeInv, NEW s \in Server, NEW f \in Server, CandidateCountVote(s, f)
    PROVE  TypeInv'
<1> USE DEF TypeInv, TypeOK
<1>1. PICK m \in Arriving(f, s, "REQ_VOTE_RPL") : CandidateCountVote(s, f)!(m)
  BY DEF CandidateCountVote
<1>2. NetTypes'
  BY <1>1, ArrivingType DEF NetTypes, Net
<1>3. ServerTypes' /\ ChainTypes' /\ HistoryTypes'  BY <1>1, TypeFrame
<1>4. StateObjTypes'  BY <1>1 DEF StateObjTypes
<1>5. LeaderShape'
  BY <1>1, ShapeFrame DEF serverVars, chainVars
<1> QED  BY <1>2, <1>3, <1>4, <1>5, TypeTogether

LEMMA TypeBecomeLeader ==
    ASSUME TypeInv, NEW s \in Server, NEW f \in Server, BecomeLeader(s, f)
    PROVE  TypeInv'
<1> USE DEF TypeInv, TypeOK
<1>1. PICK m \in Arriving(f, s, "REQ_VOTE_RPL") : BecomeLeader(s, f)!(m)
  BY DEF BecomeLeader
<1>2. NetTypes'
  BY <1>1, ArrivingType, HeartbeatType, PushToOthersType DEF NetTypes, Net
<1>3. ServerTypes'  BY <1>1 DEF ServerTypes, Role
<1>4. ChainTypes'  BY <1>1, TypeFrame
<1>5. HistoryTypes'  BY <1>1 DEF HistoryTypes, ServerTypes, commitHist
<1>6. StateObjTypes' /\ LeaderShape'
  BY <1>1, DropType DEF Role, chainVars
<1> QED  BY <1>2, <1>3, <1>4, <1>5, <1>6, TypeTogether

\* A step that only answers message m, taken from i by s, with an append reply.
LEMMA ReplyType ==
    ASSUME TypeOK, NEW s \in Server, NEW i \in Server,
           NEW m \in Arriving(i, s, "APP_ENTR_RPC"),
           NEW t \in Term, NEW ok \in BOOLEAN, NEW hb \in BOOLEAN,
           net' = Push(Pop(net, i, s), s, i, AppendReply(t, ok, hb)),
           UNCHANGED answer
    PROVE  NetTypes'
<1>1. Pop(net, i, s) \in Net  BY ArrivingType
<1>2. net' \in Net  BY <1>1, AppendReplyType, PushType
<1> QED  BY <1>2 DEF TypeOK, NetTypes, Net

LEMMA TypeRejectStale ==
    ASSUME TypeInv, NEW s \in Server, NEW i \in Server, FollowerRejectStale(s, i)
    PROVE  TypeInv'
<1> USE DEF TypeInv, TypeOK
<1>1. PICK m \in Arriving(i, s, "APP_ENTR_RPC") : FollowerRejectStale(s, i)!(m)
  BY DEF FollowerRejectStale
<1>2. currTerm[s] \in Term  BY DEF ServerTypes
<1>3. NetTypes'  BY <1>1, <1>2, ReplyType
<1>4. /\ ServerTypes' /\ ChainTypes' /\ StateObjTypes' /\ HistoryTypes'
  BY <1>1, TypeFrame
<1>5. LeaderShape'
  BY <1>1, ShapeFrame DEF serverVars, chainVars, stateObjVars
<1> QED  BY <1>3, <1>4, <1>5, TypeTogether

LEMMA TypeFollowerHeartbeat ==
    ASSUME TypeInv, NEW s \in Server, NEW i \in Server, FollowerHeartbeat(s, i)
    PROVE  TypeInv'
<1> USE DEF TypeInv, TypeOK
<1>1. PICK m \in Arriving(i, s, "APP_ENTR_RPC") : FollowerHeartbeat(s, i)!(m)
  BY DEF FollowerHeartbeat
<1>2. m \in AppendRpc  BY ArrivingType, MessageKinds
<1>3. m.term \in Term /\ m.commitIndex \in Index  BY <1>2 DEF AppendRpc
<1>4. NetTypes'  BY <1>1, <1>3, ReplyType
<1>5. ServerTypes'  BY <1>1, <1>3 DEF ServerTypes, AdoptTerm
<1>6. ChainTypes'
  <2>1. committedIndex' \in [Server -> Index]
        /\ balTab' \in [Server -> Seq(Request)]
    BY <1>1, <1>3, CommitUpToType DEF ChainTypes
  <2> QED  BY <1>1, <2>1 DEF ChainTypes
<1>7. StateObjTypes' /\ HistoryTypes'  BY <1>1, TypeFrame
<1>8. LeaderShape'
  BY <1>1, ShapeFrame DEF stateObjVars
<1> QED  BY <1>4, <1>5, <1>6, <1>7, <1>8, TypeTogether

\* A follower has no nextIndex, so its chain may even get shorter.
LEMMA TypeFollowerAppend ==
    ASSUME TypeInv, NEW s \in Server, NEW i \in Server, FollowerAppend(s, i)
    PROVE  TypeInv'
<1> USE DEF TypeInv, TypeOK
<1>1. PICK m \in Arriving(i, s, "APP_ENTR_RPC") : FollowerAppend(s, i)!(m)
  BY DEF FollowerAppend
<1>2. m \in AppendRpc  BY ArrivingType, MessageKinds
<1>3. /\ m.term \in Term /\ m.prevLogIndex \in Index
      /\ m.entries \in Seq(Block)
  BY <1>2 DEF AppendRpc
<1>4. NetTypes'
  <2>1. PrevMatches(bcLog[s], m) \in BOOLEAN  BY DEF PrevMatches
  <2> QED  BY <1>1, <1>3, <2>1, ReplyType
<1>5. ServerTypes'  BY <1>1, <1>3 DEF ServerTypes, AdoptTerm
<1>6. bcLog' \in [Server -> Seq(Block)]
  <2>1. CASE ~PrevMatches(bcLog[s], m)  BY <1>1, <2>1 DEF ChainTypes
  <2>2. CASE PrevMatches(bcLog[s], m)
    <3>1. bcLog[s] \in Seq(Block)  BY DEF ChainTypes
    <3>2. m.prevLogIndex + 1 \in 0 .. Len(bcLog[s])
      BY <1>3, <2>2, <3>1 DEF PrevMatches, LastIndex, Index
    <3>3. CleanUpBlocks(bcLog[s], m.prevLogIndex + 1, m.entries) \in Seq(Block)
      BY <1>3, <3>1, <3>2, CleanUpType
    <3>4. bcLog' = [bcLog EXCEPT ![s] =
                       CleanUpBlocks(@, m.prevLogIndex + 1, m.entries)]
      BY <1>1, <2>2
    <3> QED  BY <3>3, <3>4 DEF ChainTypes
  <2> QED  BY <2>1, <2>2
<1>7. ChainTypes'  BY <1>1, <1>6 DEF ChainTypes
<1>8. StateObjTypes' /\ HistoryTypes'
  <2>1. CASE ~PrevMatches(bcLog[s], m)
    BY <1>1, <2>1 DEF HistoryTypes, StateObjTypes, stateObjVars, electionHist
  <2>2. CASE PrevMatches(bcLog[s], m)
    <3>1. AcceptedWith(s, m) \subseteq Server \X Index \X Block
      BY <1>3 DEF AcceptedWith, Index
    <3> QED
      BY <1>1, <2>2, <3>1
      DEF HistoryTypes, StateObjTypes, stateObjVars, electionHist
  <2> QED  BY <2>1, <2>2
<1>9. LeaderShape'
  <2> SUFFICES ASSUME NEW q \in Server
               PROVE  LeaderShape!(q)'
    BY DEF LeaderShape
  <2>1. /\ role' = role /\ nextIndex' = nextIndex /\ serving' = serving
        /\ role[s] = "Follower"
        /\ \A p \in Server : p # s => bcLog'[p] = bcLog[p]
    BY <1>1 DEF stateObjVars, ChainTypes
  <2>2. CASE q = s
    <3>1. \A j \in Server : nextIndex[q][j] = 0
      BY <2>1, <2>2 DEF LeaderShape
    <3>2. serving[q] = None  BY <2>1, <2>2 DEF LeaderShape
    <3>3. Len(bcLog'[q]) \in Nat  BY <1>6
    <3> QED  BY <2>1, <3>1, <3>2, <3>3
  <2>3. CASE q # s  BY <2>1, <2>3 DEF LeaderShape
  <2> QED  BY <2>2, <2>3
<1> QED  BY <1>4, <1>5, <1>7, <1>8, <1>9, TypeTogether

LEMMA TypeLeaderHeartbeat ==
    ASSUME TypeInv, NEW s \in Server, LeaderHeartbeat(s)
    PROVE  TypeInv'
<1> USE DEF TypeInv, TypeOK, LeaderHeartbeat
<1>1. NetTypes'
  BY HeartbeatType, PushToOthersType DEF NetTypes, Net
<1>2. ServerTypes' /\ ChainTypes' /\ StateObjTypes' /\ HistoryTypes'
  BY TypeFrame
<1>3. LeaderShape'
  BY ShapeFrame DEF serverVars, chainVars, stateObjVars
<1> QED  BY <1>1, <1>2, <1>3, TypeTogether

LEMMA TypeTakeRequest ==
    ASSUME TypeInv, NEW s \in Server, NEW r \in Request, LeaderTakeRequest(s, r)
    PROVE  TypeInv'
<1> USE DEF TypeInv, TypeOK
<1> DEFINE log == Append(bcLog[s], [term |-> currTerm[s], txn |-> r])
<1>1. bcLog[s] \in Seq(Block) /\ currTerm[s] \in Term
  BY DEF ChainTypes, ServerTypes
<1>2. [term |-> currTerm[s], txn |-> r] \in Block  BY <1>1 DEF Block
<1>3. log \in Seq(Block) /\ Len(log) = Len(bcLog[s]) + 1
  BY <1>1, <1>2
<1>4. LastIndex(bcLog[s]) \in Index /\ LastIndex(bcLog[s]) <= LastIndex(log)
  BY <1>1, <1>3 DEF LastIndex, Index
<1>5. AppendFrom(s, log, LastIndex(bcLog[s])) \in Message
  BY <1>3, <1>4, AppendFromType
<1>6. /\ bcLog' = [bcLog EXCEPT ![s] = log]
      /\ net' = PushToOthers(net, s, AppendFrom(s, log, LastIndex(bcLog[s])))
  BY DEF LeaderTakeRequest
<1> HIDE DEF log
<1>7. NetTypes'
  <2>1. net' \in [Server -> [Server -> Seq(Message)]]
    BY <1>5, <1>6, PushToOthersType DEF NetTypes, Net
  <2> QED  BY <2>1 DEF NetTypes, LeaderTakeRequest
<1>8. ServerTypes' /\ HistoryTypes'
  <2>1. ServerTypes'  BY TypeFrame DEF LeaderTakeRequest
  <2>2. LastIndex(log) \in Index  BY <1>3, ChainType
  <2>3. accepted' = accepted \cup
            {<<s, LastIndex(log), [term |-> currTerm[s], txn |-> r]>>}
    BY DEF LeaderTakeRequest, log
  <2>4. UNCHANGED <<votes, elected, commits, allStored>>
    BY DEF LeaderTakeRequest, electionHist
  <2> QED  BY <1>2, <2>1, <2>2, <2>3, <2>4 DEF HistoryTypes
<1>9. ChainTypes'  BY <1>3, <1>6 DEF ChainTypes, LeaderTakeRequest
<1>10. /\ role' = role /\ role[s] = "Leader"
       /\ serving' = [serving EXCEPT ![s] = r]
       /\ nextIndex' = [nextIndex EXCEPT ![s] =
                            [j \in Server |-> LastIndex(bcLog[s]) + 1]]
       /\ numAccept' = [numAccept EXCEPT ![s] = 1]
       /\ voteCount' = voteCount
  BY DEF LeaderTakeRequest, serverVars
<1>11. LastIndex(bcLog[s]) + 1 = Len(bcLog[s])  BY <1>1 DEF LastIndex
<1>12. StateObjTypes'
  <2>1. Len(bcLog[s]) \in Int  BY <1>1
  <2>2. nextIndex' \in [Server -> [Server -> Int]]
    BY <1>10, <1>11, <2>1 DEF StateObjTypes
  <2>3. serving' \in [Server -> Request \cup {None}]
    BY <1>10 DEF StateObjTypes
  <2>4. numAccept' \in [Server -> Nat] /\ voteCount' \in [Server -> Nat]
    BY <1>10 DEF StateObjTypes
  <2> QED  BY <2>2, <2>3, <2>4 DEF StateObjTypes
<1>13. LeaderShape'
  <2> SUFFICES ASSUME NEW q \in Server
               PROVE  LeaderShape!(q)'
    BY DEF LeaderShape
  <2>1. CASE q = s
    <3>1. bcLog'[q] = log /\ role'[q] = "Leader"
      BY <1>6, <1>10, <2>1 DEF ChainTypes
    <3>2. \A j \in Server : nextIndex'[q][j] = Len(bcLog[s])
      BY <1>10, <1>11, <2>1 DEF StateObjTypes
    <3>3. log # <<>>  BY <1>1, <1>3
    <3> QED  BY <1>1, <1>3, <3>1, <3>2, <3>3
  <2>2. CASE q # s
    <3>1. /\ bcLog'[q] = bcLog[q] /\ serving'[q] = serving[q]
          /\ nextIndex'[q] = nextIndex[q] /\ role'[q] = role[q]
      BY <1>6, <1>10, <2>2 DEF ChainTypes, StateObjTypes
    <3> QED  BY <3>1 DEF LeaderShape
  <2> QED  BY <2>1, <2>2
<1> QED  BY <1>7, <1>8, <1>9, <1>12, <1>13, TypeTogether

\* A successful append moves nextIndex of its sender to the end of the chain.
LEMMA NextIndexShape ==
    ASSUME TypeInv, NEW s \in Server, NEW f \in Server, role[s] = "Leader",
           nextIndex' = [nextIndex EXCEPT ![s][f] = Len(bcLog[s])],
           serving' = serving \/ serving' = [serving EXCEPT ![s] = None],
           UNCHANGED <<role, bcLog>>
    PROVE  /\ nextIndex' \in [Server -> [Server -> Int]]
           /\ LeaderShape'
<1> USE DEF TypeInv, TypeOK
<1>1. Len(bcLog[s]) \in Nat  BY DEF ChainTypes
<1>2. nextIndex' \in [Server -> [Server -> Int]]
  <2>1. nextIndex \in [Server -> [Server -> Int]]  BY DEF StateObjTypes
  <2>2. nextIndex' = [nextIndex EXCEPT ![s][f] = Len(bcLog[s])]  OBVIOUS
  <2> QED  BY ONLY <1>1, <2>1, <2>2, s \in Server, f \in Server
<1>3. LeaderShape'
  <2> SUFFICES ASSUME NEW q \in Server
               PROVE  LeaderShape!(q)'
    BY DEF LeaderShape
  <2>1. \A j \in Server :
            nextIndex'[q][j] = nextIndex[q][j] \/ nextIndex'[q][j] = Len(bcLog[q])
    BY DEF StateObjTypes
  <2>2. serving'[q] = serving[q] \/ serving'[q] = None
    BY DEF StateObjTypes
  <2>3. role'[q] # "Leader" => nextIndex'[q] = nextIndex[q]
    BY DEF StateObjTypes
  <2>4. Len(bcLog[q]) \in Nat  BY DEF ChainTypes
  <2> QED  BY <2>1, <2>2, <2>3, <2>4 DEF LeaderShape
<1> QED  BY <1>2, <1>3

LEMMA TypeNoteAccept ==
    ASSUME TypeInv, NEW s \in Server, NEW f \in Server, LeaderNoteAccept(s, f)
    PROVE  TypeInv'
<1> USE DEF TypeInv, TypeOK
<1>1. PICK m \in Arriving(f, s, "APP_ENTR_RPL") : LeaderNoteAccept(s, f)!(m)
  BY DEF LeaderNoteAccept
<1>2. NetTypes'  BY <1>1, ArrivingType DEF NetTypes, Net
<1>3. ServerTypes' /\ ChainTypes' /\ HistoryTypes'  BY <1>1, TypeFrame
<1>4. nextIndex' \in [Server -> [Server -> Int]] /\ LeaderShape'
  BY <1>1, NextIndexShape DEF serverVars, chainVars
<1>5. StateObjTypes'  BY <1>1, <1>4 DEF StateObjTypes
<1> QED  BY <1>2, <1>3, <1>4, <1>5, TypeTogether

LEMMA TypeCountAccept ==
    ASSUME TypeInv, NEW s \in Server, NEW f \in Server, LeaderCountAccept(s, f)
    PROVE  TypeInv'
<1> USE DEF TypeInv, TypeOK
<1>1. PICK m \in Arriving(f, s, "APP_ENTR_RPL") : LeaderCountAccept(s, f)!(m)
  BY DEF LeaderCountAccept
<1>2. NetTypes'  BY <1>1, ArrivingType DEF NetTypes, Net
<1>3. ServerTypes' /\ ChainTypes' /\ HistoryTypes'  BY <1>1, TypeFrame
<1>4. nextIndex' \in [Server -> [Server -> Int]] /\ LeaderShape'
  BY <1>1, NextIndexShape DEF serverVars, chainVars
<1>5. StateObjTypes'
  <2>1. /\ numAccept' = [numAccept EXCEPT ![s] = @ + 1]
        /\ UNCHANGED <<voteCount, serving>>
    BY <1>1
  <2> QED  BY <1>4, <2>1 DEF StateObjTypes
<1> QED  BY <1>2, <1>3, <1>4, <1>5, TypeTogether

\* A leader that waits has a block to commit.
LEMMA TypeCommit ==
    ASSUME TypeInv, NEW s \in Server, NEW f \in Server, LeaderCommit(s, f)
    PROVE  TypeInv'
<1> USE DEF TypeInv, TypeOK
<1>1. PICK m \in Arriving(f, s, "APP_ENTR_RPL") : LeaderCommit(s, f)!(m)
  BY DEF LeaderCommit
<1>2. /\ bcLog[s] \in Seq(Block) /\ Len(bcLog[s]) \in Nat \ {0}
      /\ LastIndex(bcLog[s]) \in Index /\ bcLog[s][Len(bcLog[s])] \in Block
  <2>1. bcLog[s] \in Seq(Block)  BY DEF ChainTypes
  <2>2. bcLog[s] # <<>>  BY <1>1 DEF LeaderShape
  <2>3. Len(bcLog[s]) \in Nat \ {0}  BY <2>1, <2>2
  <2>4. LastIndex(bcLog[s]) \in Index  BY <2>1, ChainType
  <2>5. bcLog[s][Len(bcLog[s])] \in Block  BY <2>1, <2>3
  <2> QED  BY <2>1, <2>3, <2>4, <2>5
<1>3. serving[s] \in Request  BY <1>1 DEF StateObjTypes
<1>4. NetTypes'
  <2>1. Pop(net, f, s) \in Net  BY ArrivingType
  <2> QED  BY <1>1, <1>3, <2>1 DEF NetTypes, Net
<1>5. ServerTypes'  BY <1>1, TypeFrame
<1>6. ChainTypes'  BY <1>1, <1>2, CommitUpToType DEF ChainTypes
<1>7. nextIndex' \in [Server -> [Server -> Int]] /\ LeaderShape'
  BY <1>1, NextIndexShape DEF serverVars
<1>8. StateObjTypes'  BY <1>1, <1>7 DEF StateObjTypes
<1>9. HistoryTypes'
  <2>1. commits' \subseteq Index \X Block
    <3>1. BlockAt(bcLog[s], LastIndex(bcLog[s])) = bcLog[s][Len(bcLog[s])]
      BY <1>2 DEF BlockAt, LastIndex
    <3> QED  BY <1>1, <1>2, <3>1 DEF HistoryTypes
  <2>2. allStored' \in BOOLEAN  BY <1>1 DEF HistoryTypes
  <2> QED  BY <1>1, <2>1, <2>2 DEF HistoryTypes, electionHist
<1> QED  BY <1>4, <1>5, <1>6, <1>7, <1>8, <1>9, TypeTogether

\* The index before the one a refused leader steps back to is one of the log.
LEMMA StepBackBounds ==
    ASSUME NEW n \in Int, NEW k \in Nat, n <= k, ~(n - 2 < -1)
    PROVE  n - 2 \in Int /\ n - 2 >= -1 /\ n - 2 <= k - 1
  OBVIOUS

LEMMA TypeRetry ==
    ASSUME TypeInv, NEW s \in Server, NEW f \in Server, LeaderRetry(s, f)
    PROVE  TypeInv'
<1> USE DEF TypeInv, TypeOK
<1>1. PICK m \in Arriving(f, s, "APP_ENTR_RPL") : LeaderRetry(s, f)!(m)
  BY DEF LeaderRetry
<1> DEFINE prev == nextIndex[s][f] - 2
<1>2. /\ bcLog[s] \in Seq(Block) /\ nextIndex[s][f] \in Int
      /\ nextIndex[s][f] <= Len(bcLog[s])
  BY DEF ChainTypes, StateObjTypes, LeaderShape
<1>3. Pop(net, f, s) \in Net  BY ArrivingType
<1>4. NetTypes'
  <2>1. CASE prev < -1
    <3>1. net' = Pop(net, f, s) /\ answer' = answer  BY <1>1, <2>1
    <3> QED  BY <1>3, <3>1 DEF NetTypes, Net
  <2>2. CASE ~(prev < -1)
    <3>1. prev \in Index /\ prev <= LastIndex(bcLog[s])
      <4> HIDE DEF TypeInv, TypeOK
      <4>1. Len(bcLog[s]) \in Nat  BY <1>2
      <4>2. prev \in Int /\ prev >= -1 /\ prev <= Len(bcLog[s]) - 1
        BY <1>2, <2>2, <4>1, StepBackBounds
      <4> HIDE DEF prev
      <4> QED  BY <4>2 DEF Index, LastIndex
    <3>2. AppendFrom(s, bcLog[s], prev) \in Message
      BY <1>2, <3>1, AppendFromType
    <3>3. net' = Push(Pop(net, f, s), s, f, AppendFrom(s, bcLog[s], prev))
      BY <1>1, <2>2
    <3>4. net' \in Net  BY <1>3, <3>2, <3>3, PushType
    <3>5. answer' = answer  BY <1>1
    <3> QED  BY <3>4, <3>5 DEF NetTypes, Net
  <2> QED  BY <2>1, <2>2
<1>5. ServerTypes' /\ ChainTypes' /\ HistoryTypes'  BY <1>1, TypeFrame
<1>6. /\ nextIndex' = [nextIndex EXCEPT ![s][f] = @ - 1]
      /\ role[s] = "Leader"
      /\ UNCHANGED <<role, bcLog, serving, voteCount, numAccept>>
  BY <1>1 DEF serverVars, chainVars
<1>7. StateObjTypes'
  <2>1. nextIndex' \in [Server -> [Server -> Int]]
    BY <1>2, <1>6, SMTT(30) DEF StateObjTypes
  <2> QED  BY <1>6, <2>1 DEF StateObjTypes
<1>8. LeaderShape'
  <2> SUFFICES ASSUME NEW q \in Server
               PROVE  LeaderShape!(q)'
    BY DEF LeaderShape
  <2>1. ASSUME NEW j \in Server
        PROVE  \/ nextIndex'[q][j] = nextIndex[q][j]
               \/ nextIndex'[q][j] = nextIndex[q][j] - 1
    <3>1. CASE q = s /\ j = f  BY <1>6, <3>1 DEF StateObjTypes
    <3>2. CASE q = s /\ j # f  BY <1>6, <3>2 DEF StateObjTypes
    <3>3. CASE q # s  BY <1>6, <3>3 DEF StateObjTypes
    <3> QED  BY <3>1, <3>2, <3>3
  <2>2. role[q] # "Leader" => nextIndex'[q] = nextIndex[q]
    BY <1>6 DEF StateObjTypes
  <2>3. Len(bcLog[q]) \in Nat  BY DEF ChainTypes
  <2>4. \A j \in Server : nextIndex[q][j] \in Int  BY DEF StateObjTypes
  <2>5. \A j \in Server : nextIndex'[q][j] <= Len(bcLog[q])
    BY <2>1, <2>3, <2>4 DEF LeaderShape
  <2> QED  BY <1>6, <2>2, <2>5 DEF LeaderShape
<1> QED  BY <1>4, <1>5, <1>7, <1>8, TypeTogether

LEMMA TypeGiveUp ==
    ASSUME TypeInv, NEW s \in Server, LeaderGiveUp(s)
    PROVE  TypeInv'
<1> USE DEF TypeInv, TypeOK, LeaderGiveUp
<1>1. serving[s] \in Request  BY DEF StateObjTypes
<1>2. NetTypes'  BY <1>1 DEF NetTypes
<1>3. ServerTypes' /\ ChainTypes' /\ HistoryTypes'  BY TypeFrame
<1>4. StateObjTypes'  BY DEF StateObjTypes
<1>5. LeaderShape'
  BY DEF LeaderShape, StateObjTypes, serverVars, chainVars
<1> QED  BY <1>2, <1>3, <1>4, <1>5, TypeTogether

\* A message dropped, by the run() loop or by the mesh.
LEMMA TypeDropped ==
    ASSUME TypeInv, NEW i \in Server, NEW j \in Server,
           net[i][j] # <<>>, net' = Pop(net, i, j),
           UNCHANGED <<serverVars, chainVars, stateObjVars, answer,
                       electionHist, commitHist>>
    PROVE  TypeInv'
<1> USE DEF TypeInv, TypeOK
<1>1. NetTypes'  BY PopType DEF NetTypes, Net
<1>2. /\ ServerTypes' /\ ChainTypes' /\ StateObjTypes' /\ HistoryTypes'
  BY TypeFrame
<1>3. LeaderShape'
  BY ShapeFrame DEF serverVars, chainVars, stateObjVars
<1> QED  BY <1>1, <1>2, <1>3, TypeTogether

LEMMA TypeStep == TypeInv /\ [Next]_vars => TypeInv'
<1> SUFFICES ASSUME TypeInv, [Next]_vars PROVE TypeInv'
  OBVIOUS
<1>1. CASE \E s \in Server : BecomeCandidate(s) \/ LeaderHeartbeat(s)
                             \/ LeaderGiveUp(s)
  BY <1>1, TypeBecomeCandidate, TypeLeaderHeartbeat, TypeGiveUp
<1>2. CASE \E s \in Server, r \in Request : LeaderTakeRequest(s, r)
  BY <1>2, TypeTakeRequest
<1>3. ASSUME NEW s \in Server, NEW i \in Server,
             CandidateStepDown(s, i) \/ LeaderStepDown(s, i)
      PROVE  TypeInv'
  <2>1. StepDown(s, i)  BY <1>3 DEF CandidateStepDown, LeaderStepDown
  <2>2. net[i][s] # <<>>
    BY <1>3 DEF CandidateStepDown, LeaderStepDown, Arriving
  <2> QED  BY <2>1, <2>2, TypeStepDown
<1>4. ASSUME NEW s \in Server, NEW i \in Server, Ignore(s, i) \/ Lose(i, s)
      PROVE  TypeInv'
  BY <1>4, TypeDropped DEF Ignore, Lose
<1>5. ASSUME NEW s \in Server, NEW i \in Server,
             \/ FollowerVote(s, i) \/ FollowerRejectStale(s, i)
             \/ FollowerHeartbeat(s, i) \/ FollowerAppend(s, i)
             \/ CandidateCountVote(s, i) \/ BecomeLeader(s, i)
             \/ LeaderNoteAccept(s, i) \/ LeaderCountAccept(s, i)
             \/ LeaderCommit(s, i) \/ LeaderRetry(s, i)
      PROVE  TypeInv'
  BY <1>5, TypeFollowerVote, TypeRejectStale, TypeFollowerHeartbeat,
     TypeFollowerAppend, TypeCountVote, TypeBecomeLeader, TypeNoteAccept,
     TypeCountAccept, TypeCommit, TypeRetry
<1>6. CASE UNCHANGED vars
  BY <1>6 DEF vars, serverVars, chainVars, stateObjVars, electionHist,
              commitHist, TypeInv, TypeOK, ServerTypes, ChainTypes,
              StateObjTypes, NetTypes, HistoryTypes, LeaderShape
<1> QED  BY <1>1, <1>2, <1>3, <1>4, <1>5, <1>6 DEF Next

\* Every variable of every server keeps its type, and a leader's nextIndex and
\* pending request stay within its chain.
THEOREM TypeCorrect == Spec => []TypeInv
BY TypeInit, TypeStep, PTL DEF Spec
-----------------------------------------------------------------------------
(* Elections.                                                              *)

-----------------------------------------------------------------------------
(* Channels that change without gaining a vote or a request for one.       *)

\* Every request for a vote (every vote) of term t in q2 was in q, some d
\* places further back.
AsksFrom(q, q2, t) ==
    \E d \in Nat : \A k \in Asks(q2, t) : k + d \in Asks(q, t)
GrantsFrom(q, q2, t) ==
    \E d \in Nat : \A k \in Grants(q2, t) : k + d \in Grants(q, t)

Quieter(q, q2) == \A t \in Term : AsksFrom(q, q2, t) /\ GrantsFrom(q, q2, t)
QuietNet(n, n2) == \A i, j \in Server : Quieter(n[i][j], n2[i][j])

IsAsk(m, t) == m.type = "REQ_VOTE_RPC" /\ m.term = t
IsGrant(m, t) == m.type = "REQ_VOTE_RPL" /\ m.term = t /\ m.granted
Silent(m) == \A t \in Term : ~IsAsk(m, t) /\ ~IsGrant(m, t)

LEMMA QuieterSame ==
    ASSUME NEW q \in Seq(Message)
    PROVE  Quieter(q, q)
<1>1. ASSUME NEW t \in Term
      PROVE  /\ \A k \in Asks(q, t) : k + 0 \in Asks(q, t)
             /\ \A k \in Grants(q, t) : k + 0 \in Grants(q, t)
  BY DEF Asks, Grants
<1> QED  BY <1>1 DEF Quieter, AsksFrom, GrantsFrom

LEMMA QuieterTail ==
    ASSUME NEW q \in Seq(Message), q # <<>>
    PROVE  Quieter(q, Tail(q))
<1>1. ASSUME NEW t \in Term
      PROVE  /\ \A k \in Asks(Tail(q), t) : k + 1 \in Asks(q, t)
             /\ \A k \in Grants(Tail(q), t) : k + 1 \in Grants(q, t)
  BY DEF Asks, Grants
<1> QED  BY <1>1 DEF Quieter, AsksFrom, GrantsFrom

LEMMA AppendPlaces ==
    ASSUME NEW q \in Seq(Message), NEW m \in Message, NEW t \in Term
    PROVE  /\ Asks(Append(q, m), t) =
                IF IsAsk(m, t) THEN Asks(q, t) \cup {Len(q) + 1} ELSE Asks(q, t)
           /\ Grants(Append(q, m), t) =
                IF IsGrant(m, t) THEN Grants(q, t) \cup {Len(q) + 1}
                                 ELSE Grants(q, t)
<1>1. DOMAIN Append(q, m) = (DOMAIN q) \cup {Len(q) + 1}  OBVIOUS
<1>2. \A k \in DOMAIN q : Append(q, m)[k] = q[k]  OBVIOUS
<1>3. Append(q, m)[Len(q) + 1] = m /\ Len(q) + 1 \notin DOMAIN q  OBVIOUS
<1> QED  BY <1>1, <1>2, <1>3 DEF Asks, Grants, IsAsk, IsGrant

LEMMA AsksFromAppend ==
    ASSUME NEW q \in Seq(Message), NEW m \in Message, NEW t \in Term,
           ~IsAsk(m, t)
    PROVE  AsksFrom(q, Append(q, m), t)
BY QuieterSame, AppendPlaces DEF Quieter, AsksFrom

LEMMA GrantsFromAppend ==
    ASSUME NEW q \in Seq(Message), NEW m \in Message, NEW t \in Term,
           ~IsGrant(m, t)
    PROVE  GrantsFrom(q, Append(q, m), t)
BY QuieterSame, AppendPlaces DEF Quieter, GrantsFrom

LEMMA QuieterAppend ==
    ASSUME NEW q \in Seq(Message), NEW m \in Message, Silent(m)
    PROVE  Quieter(q, Append(q, m))
BY AsksFromAppend, GrantsFromAppend DEF Quieter, Silent

LEMMA QuieterTrans ==
    ASSUME NEW q, NEW q2, NEW q3 \in Seq(Message),
           Quieter(q, q2), Quieter(q2, q3)
    PROVE  Quieter(q, q3)
<1> SUFFICES ASSUME NEW t \in Term
             PROVE  AsksFrom(q, q3, t) /\ GrantsFrom(q, q3, t)
  BY DEF Quieter
<1>1. Asks(q3, t) \subseteq Nat /\ Grants(q3, t) \subseteq Nat
  BY DEF Asks, Grants
<1>2. \A k, d, e \in Nat : (k + e) + d = k + (e + d) /\ e + d \in Nat
  OBVIOUS
<1>3. AsksFrom(q, q3, t)
  <2>1. PICK d \in Nat : \A k \in Asks(q2, t) : k + d \in Asks(q, t)
    BY DEF Quieter, AsksFrom
  <2>2. PICK e \in Nat : \A k \in Asks(q3, t) : k + e \in Asks(q2, t)
    BY DEF Quieter, AsksFrom
  <2>3. \A k \in Asks(q3, t) : k + (e + d) \in Asks(q, t)
    BY <1>1, <1>2, <2>1, <2>2
  <2> QED  BY <1>2, <2>3 DEF AsksFrom
<1>4. GrantsFrom(q, q3, t)
  <2>1. PICK d \in Nat : \A k \in Grants(q2, t) : k + d \in Grants(q, t)
    BY DEF Quieter, GrantsFrom
  <2>2. PICK e \in Nat : \A k \in Grants(q3, t) : k + e \in Grants(q2, t)
    BY DEF Quieter, GrantsFrom
  <2>3. \A k \in Grants(q3, t) : k + (e + d) \in Grants(q, t)
    BY <1>1, <1>2, <2>1, <2>2
  <2> QED  BY <1>2, <2>3 DEF GrantsFrom
<1> QED  BY <1>3, <1>4

LEMMA QuietSame ==
    ASSUME NEW n \in Net
    PROVE  QuietNet(n, n)
BY QuieterSame DEF QuietNet, Net

LEMMA QuietPop ==
    ASSUME NEW n \in Net, NEW i \in Server, NEW j \in Server, n[i][j] # <<>>
    PROVE  QuietNet(n, Pop(n, i, j))
<1> SUFFICES ASSUME NEW a \in Server, NEW b \in Server
             PROVE  Quieter(n[a][b], Pop(n, i, j)[a][b])
  BY DEF QuietNet
<1>1. n[a][b] \in Seq(Message)  BY DEF Net
<1>2. CASE a = i /\ b = j
  <2>1. Pop(n, i, j)[a][b] = Tail(n[a][b])  BY <1>2 DEF Pop, Net
  <2> QED  BY <1>1, <1>2, <2>1, QuieterTail
<1>3. CASE ~(a = i /\ b = j)
  <2>1. Pop(n, i, j)[a][b] = n[a][b]  BY <1>3 DEF Pop, Net
  <2> QED  BY <1>1, <2>1, QuieterSame
<1> QED  BY <1>2, <1>3

LEMMA QuietPush ==
    ASSUME NEW n \in Net, NEW i \in Server, NEW j \in Server, NEW m \in Message,
           Silent(m)
    PROVE  QuietNet(n, Push(n, i, j, m))
<1> SUFFICES ASSUME NEW a \in Server, NEW b \in Server
             PROVE  Quieter(n[a][b], Push(n, i, j, m)[a][b])
  BY DEF QuietNet
<1>1. n[a][b] \in Seq(Message)  BY DEF Net
<1>2. CASE a = i /\ b = j
  <2>1. Push(n, i, j, m)[a][b] = Append(n[a][b], m)  BY <1>2 DEF Push, Net
  <2> QED  BY <1>1, <2>1, QuieterAppend
<1>3. CASE ~(a = i /\ b = j)
  <2>1. Push(n, i, j, m)[a][b] = n[a][b]  BY <1>3 DEF Push, Net
  <2> QED  BY <1>1, <2>1, QuieterSame
<1> QED  BY <1>2, <1>3

LEMMA QuietPushToOthers ==
    ASSUME NEW n \in Net, NEW i \in Server, NEW m \in Message,
           Silent(m)
    PROVE  QuietNet(n, PushToOthers(n, i, m))
<1> SUFFICES ASSUME NEW a \in Server, NEW b \in Server
             PROVE  Quieter(n[a][b], PushToOthers(n, i, m)[a][b])
  BY DEF QuietNet
<1>1. n[a][b] \in Seq(Message)  BY DEF Net
<1>2. CASE a = i /\ b # i
  <2>1. PushToOthers(n, i, m)[a][b] = Append(n[a][b], m)
    BY <1>2 DEF PushToOthers, Net
  <2> QED  BY <1>1, <2>1, QuieterAppend
<1>3. CASE ~(a = i /\ b # i)
  <2>1. PushToOthers(n, i, m)[a][b] = n[a][b]  BY <1>3 DEF PushToOthers, Net
  <2> QED  BY <1>1, <2>1, QuieterSame
<1> QED  BY <1>2, <1>3

LEMMA QuietTrans ==
    ASSUME NEW n, NEW n2, NEW n3 \in Net, QuietNet(n, n2), QuietNet(n2, n3)
    PROVE  QuietNet(n, n3)
<1> SUFFICES ASSUME NEW a \in Server, NEW b \in Server
             PROVE  Quieter(n[a][b], n3[a][b])
  BY DEF QuietNet
<1>1. n3[a][b] \in Seq(Message)  BY DEF Net
<1>2. Quieter(n[a][b], n2[a][b]) /\ Quieter(n2[a][b], n3[a][b])
  BY DEF QuietNet
<1> QED  BY <1>1, <1>2, QuieterTrans

LEMMA PopAt ==
    ASSUME NEW n \in Net, NEW i \in Server, NEW j \in Server,
           NEW a \in Server, NEW b \in Server
    PROVE  Pop(n, i, j)[a][b] = IF a = i /\ b = j THEN Tail(n[a][b])
                                ELSE n[a][b]
BY DEF Pop, Net

LEMMA PushAt ==
    ASSUME NEW n \in Net, NEW i \in Server, NEW j \in Server, NEW m,
           NEW a \in Server, NEW b \in Server
    PROVE  Push(n, i, j, m)[a][b] = IF a = i /\ b = j THEN Append(n[a][b], m)
                                    ELSE n[a][b]
BY DEF Push, Net

\* Nobody sends to itself.
Loopless(n) == \A s \in Server : n[s][s] = <<>>

LEMMA LooplessNets ==
    ASSUME NEW n \in Net, Loopless(n),
           NEW i \in Server, NEW j \in Server, NEW m
    PROVE  /\ n[i][j] # <<>> => i # j /\ Loopless(Pop(n, i, j))
           /\ i # j => Loopless(Push(n, i, j, m))
           /\ Loopless(PushToOthers(n, i, m))
BY DEF Loopless, Net, Pop, Push, PushToOthers

-----------------------------------------------------------------------------
(* Steps in which nobody votes.                                            *)

\* What a quiet step may do to terms and votes.
TermsAdvance ==
    \A s \in Server :
        /\ currTerm'[s] >= currTerm[s]
        /\ currTerm'[s] = currTerm[s] => votedCandidate'[s] = votedCandidate[s]

\* AsksOnce for one request-and-grant pair of channels that became q1, q2.
LEMMA AsksOnceFrom ==
    ASSUME AsksOnce, NEW c \in Server, NEW f \in Server, NEW t \in Term,
           NEW q1 \in Seq(Message), NEW q2 \in Seq(Message),
           AsksFrom(net[c][f], q1, t), GrantsFrom(net[f][c], q2, t)
    PROVE  /\ Asks(q1, t) # {} => t <= currTerm[c]
           /\ \A k, l \in Asks(q1, t) : k = l
           /\ \A k, l \in Grants(q2, t) : k = l
           /\ Asks(q1, t) # {} => Grants(q2, t) = {}
           /\ Asks(q1, t) # {} => Asks(net[c][f], t) # {}
           /\ Grants(q2, t) # {} => Grants(net[f][c], t) # {}
<1>1. PICK d \in Nat : \A k \in Asks(q1, t) : k + d \in Asks(net[c][f], t)
  BY DEF AsksFrom
<1>2. PICK e \in Nat : \A k \in Grants(q2, t) : k + e \in Grants(net[f][c], t)
  BY DEF GrantsFrom
<1>3. Asks(q1, t) \subseteq Nat /\ Grants(q2, t) \subseteq Nat
  BY DEF Asks, Grants
<1>4. /\ \A k, l \in Asks(q1, t) : k + d = l + d
      /\ \A k, l \in Grants(q2, t) : k + e = l + e
  BY <1>1, <1>2 DEF AsksOnce
<1>5. \A k, l, x \in Nat : k + x = l + x => k = l  OBVIOUS
<1>6. /\ \A k, l \in Asks(q1, t) : k = l
      /\ \A k, l \in Grants(q2, t) : k = l
  BY <1>3, <1>4, <1>5
<1> QED  BY <1>1, <1>2, <1>6 DEF AsksOnce

LEMMA ChannelType ==
    ASSUME TypeOK, TypeOK', NEW i \in Server, NEW j \in Server
    PROVE  net[i][j] \in Seq(Message) /\ net'[i][j] \in Seq(Message)
BY DEF TypeOK, NetTypes

LEMMA TermType ==
    ASSUME TypeOK, TypeOK'
    PROVE  /\ Term \subseteq Nat
           /\ \A s \in Server : currTerm[s] \in Term /\ currTerm'[s] \in Term
BY DEF TypeOK, ServerTypes, Term, BoundAssumption

LEMMA QuietChannels ==
    ASSUME TypeOK, TypeOK', AsksOnce, GrantsCast,
           QuietNet(net, net'), TermsAdvance, votes \subseteq votes'
    PROVE  AsksOnce' /\ GrantsCast'
<1> SUFFICES ASSUME NEW c \in Server, NEW f \in Server, NEW t \in Term
             PROVE  AsksOnce!(c, f, t)' /\ GrantsCast!(c, f, t)'
  BY DEF AsksOnce, GrantsCast
<1>1. /\ AsksFrom(net[c][f], net'[c][f], t)
      /\ GrantsFrom(net[f][c], net'[f][c], t)
  BY DEF QuietNet, Quieter
<1>2. /\ Asks(net'[c][f], t) # {} => t <= currTerm[c]
      /\ \A k, l \in Asks(net'[c][f], t) : k = l
      /\ \A k, l \in Grants(net'[f][c], t) : k = l
      /\ Asks(net'[c][f], t) # {} => Grants(net'[f][c], t) = {}
      /\ Grants(net'[f][c], t) # {} => Grants(net[f][c], t) # {}
  <2>1. net'[c][f] \in Seq(Message) /\ net'[f][c] \in Seq(Message)
    BY ChannelType
  <2> QED  BY <1>1, <2>1, AsksOnceFrom
<1>3. t <= currTerm[c] => t <= currTerm'[c]
  BY TermType DEF TermsAdvance
<1> QED  BY <1>2, <1>3 DEF GrantsCast

LEMMA QuietVotes ==
    ASSUME TypeOK, TypeOK', VotesRemembered, OneVotePerTerm,
           TermsAdvance, UNCHANGED votes
    PROVE  VotesRemembered' /\ OneVotePerTerm'
<1>1. VotesRemembered'
  <2> SUFFICES ASSUME NEW t \in Term, NEW f \in Server, NEW c \in Server,
                      <<t, f, c>> \in votes
               PROVE  /\ t <= currTerm'[f]
                      /\ t = currTerm'[f] => votedCandidate'[f] = c
    BY DEF VotesRemembered
  <2>1. t <= currTerm[f] /\ (t = currTerm[f] => votedCandidate[f] = c)
    BY DEF VotesRemembered
  <2>2. currTerm[f] \in Int /\ currTerm'[f] \in Int /\ t \in Int
    BY DEF TypeOK, ServerTypes, Term, BoundAssumption
  <2> QED  BY <2>1, <2>2 DEF TermsAdvance
<1>2. OneVotePerTerm'  BY DEF OneVotePerTerm
<1> QED  BY <1>1, <1>2

\* Candidates that stay what they are keep the votes they have counted.
CandidatesKeep ==
    \A c \in Server : role'[c] = "Candidate" =>
        /\ role[c] = "Candidate"
        /\ voteCount'[c] = voteCount[c]
        /\ currTerm'[c] = currTerm[c]

LEMMA QuietCounts ==
    ASSUME TypeOK, CountedVotes, QuietNet(net, net'), CandidatesKeep,
           votes \subseteq votes'
    PROVE  CountedVotes'
<1> SUFFICES ASSUME NEW c \in Server, role'[c] = "Candidate"
             PROVE  CountedVotes!(c)!2'
  BY DEF CountedVotes
<1>1. PICK V \in SUBSET Server :
        /\ Cardinality(V) = voteCount[c]
        /\ VotedBy(V, currTerm[c], c)
        /\ \A f \in V : Settled(c, f, currTerm[c])
  BY DEF CandidatesKeep, CountedVotes
<1>2. currTerm[c] \in Term  BY DEF TypeOK, ServerTypes
<1>3. ASSUME NEW f \in V PROVE Settled(c, f, currTerm[c])'
  BY <1>1, <1>2 DEF Settled, QuietNet, Quieter, AsksFrom, GrantsFrom,
                    CandidatesKeep
<1>4. VotedBy(V, currTerm[c], c)'
  BY <1>1 DEF VotedBy, CandidatesKeep
<1> QED  BY <1>1, <1>3, <1>4 DEF CandidatesKeep

LEMMA QuietElected ==
    ASSUME ElectedByMajority, UNCHANGED elected, votes \subseteq votes'
    PROVE  ElectedByMajority'
BY DEF ElectedByMajority, VotedBy

LEMMA QuietStep ==
    ASSUME TypeOK, TypeOK', ElectionInv, QuietNet(net, net'), Loopless(net'),
           TermsAdvance, CandidatesKeep, UNCHANGED <<votes, elected>>
    PROVE  ElectionInv'
<1>1. NoLoop'  BY DEF NoLoop, Loopless
<1>2. AsksOnce' /\ GrantsCast'  BY <1>1, QuietChannels DEF ElectionInv
<1>3. VotesRemembered' /\ OneVotePerTerm'  BY QuietVotes DEF ElectionInv
<1>4. CountedVotes'  BY QuietCounts DEF ElectionInv
<1>5. ElectedByMajority'  BY QuietElected DEF ElectionInv
<1> QED  BY <1>1, <1>2, <1>3, <1>4, <1>5 DEF ElectionInv

\* A step that neither elects nor counts: terms, votes and candidates stay.
LEMMA UnrelatedStep ==
    ASSUME TypeOK, TypeOK', ElectionInv, QuietNet(net, net'), Loopless(net'),
           UNCHANGED <<currTerm, votedCandidate, role, voteCount, votes, elected>>
    PROVE  ElectionInv'
<1>1. TermsAdvance
  BY DEF TermsAdvance, TypeOK, ServerTypes, Term, BoundAssumption
<1>2. CandidatesKeep  BY DEF CandidatesKeep
<1> QED  BY <1>1, <1>2, QuietStep

\* A follower that adopts a leader's term stays a follower.
LEMMA AdoptStep ==
    ASSUME TypeOK, TypeOK', ElectionInv, QuietNet(net, net'), Loopless(net'),
           NEW s \in Server, NEW t \in Term, t >= currTerm[s], AdoptTerm(s, t),
           UNCHANGED <<role, voteCount, votes, elected>>, role[s] = "Follower"
    PROVE  ElectionInv'
<1>1. \A q \in Server : currTerm[q] \in Int
  BY DEF TypeOK, ServerTypes, Term, BoundAssumption
<1>2. t \in Int  BY DEF Term, BoundAssumption
<1>3. TermsAdvance
  <2> SUFFICES ASSUME NEW q \in Server PROVE TermsAdvance!(q)
    BY DEF TermsAdvance
  <2>1. CASE q = s
    BY <1>1, <1>2, <2>1 DEF AdoptTerm, TypeOK, ServerTypes
  <2>2. CASE q # s
    BY <1>1, <2>2 DEF AdoptTerm, TypeOK, ServerTypes
  <2> QED  BY <2>1, <2>2
<1>4. CandidatesKeep  BY DEF CandidatesKeep, AdoptTerm, TypeOK, ServerTypes
<1> QED  BY <1>3, <1>4, QuietStep

\* The networks that the actions make are quiet and loopless.
LEMMA AfterPop ==
    ASSUME TypeOK, ElectionInv, NEW i \in Server, NEW s \in Server,
           net[i][s] # <<>>
    PROVE  /\ i # s
           /\ Pop(net, i, s) \in Net
           /\ QuietNet(net, Pop(net, i, s))
           /\ Loopless(Pop(net, i, s))
<1>1. net \in Net /\ Loopless(net)
  BY DEF TypeOK, NetTypes, Net, ElectionInv, NoLoop, Loopless
<1> QED  BY <1>1, PopType, QuietPop, LooplessNets

LEMMA AfterReply ==
    ASSUME TypeOK, ElectionInv, NEW i \in Server, NEW s \in Server,
           net[i][s] # <<>>, NEW m \in Message,
           Silent(m)
    PROVE  /\ QuietNet(net, Push(Pop(net, i, s), s, i, m))
           /\ Loopless(Push(Pop(net, i, s), s, i, m))
<1>1. i # s /\ Pop(net, i, s) \in Net /\ QuietNet(net, Pop(net, i, s))
      /\ Loopless(Pop(net, i, s))
  BY AfterPop
<1>2. Push(Pop(net, i, s), s, i, m) \in Net  BY <1>1, PushType
<1>3. QuietNet(Pop(net, i, s), Push(Pop(net, i, s), s, i, m))
  BY <1>1, QuietPush
<1>4. QuietNet(net, Push(Pop(net, i, s), s, i, m))
  BY <1>1, <1>2, <1>3, QuietTrans
<1> QED  BY <1>1, <1>4, LooplessNets

LEMMA AfterBroadcast ==
    ASSUME NEW n \in Net, Loopless(n), NEW s \in Server, NEW m \in Message,
           Silent(m)
    PROVE  QuietNet(n, PushToOthers(n, s, m)) /\ Loopless(PushToOthers(n, s, m))
BY QuietPushToOthers, LooplessNets

-----------------------------------------------------------------------------
(* The actions, the quiet ones first.                                      *)

LEMMA AppendKinds ==
    /\ \A s \in Server : Silent(Heartbeat(s))
    /\ \A s, log, prev : Silent(AppendFrom(s, log, prev))
    /\ \A t, ok, hb : Silent(AppendReply(t, ok, hb))
BY DEF Heartbeat, AppendFrom, AppendReply, Silent, IsAsk, IsGrant

LEMMA ElectionStepDown ==
    ASSUME TypeInv, TypeInv', ElectionInv, NEW s \in Server, NEW i \in Server,
           net[i][s] # <<>>, StepDown(s, i)
    PROVE  ElectionInv'
<1> USE DEF TypeInv, StepDown
<1>1. QuietNet(net, net') /\ Loopless(net')  BY AfterPop
<1>2. TermsAdvance
  BY DEF TermsAdvance, TypeOK, ServerTypes, Term, BoundAssumption
<1>3. CandidatesKeep
  BY DEF CandidatesKeep, DropStateObject, TypeOK, ServerTypes, StateObjTypes
<1> QED  BY <1>1, <1>2, <1>3, QuietStep DEF electionHist

LEMMA ElectionFollowerAppends ==
    ASSUME TypeInv, TypeInv', ElectionInv, NEW s \in Server, NEW i \in Server,
           \/ FollowerRejectStale(s, i)
           \/ FollowerHeartbeat(s, i)
           \/ FollowerAppend(s, i)
    PROVE  ElectionInv'
<1> USE DEF TypeInv
<1>1. CASE FollowerRejectStale(s, i)
  <2>1. PICK m \in Arriving(i, s, "APP_ENTR_RPC") : FollowerRejectStale(s, i)!(m)
    BY <1>1 DEF FollowerRejectStale
  <2>2. currTerm[s] \in Term  BY DEF TypeOK, ServerTypes
  <2>3. AppendReply(currTerm[s], FALSE, TRUE) \in Message
    BY <2>2, AppendReplyType
  <2>4. QuietNet(net, net') /\ Loopless(net')
    BY <2>1, <2>3, ArrivingType, AfterReply, AppendKinds
  <2>5. UNCHANGED <<currTerm, votedCandidate, role, voteCount, votes, elected>>
    BY <2>1 DEF serverVars, stateObjVars, electionHist
  <2> QED  BY <2>4, <2>5, UnrelatedStep
<1>2. CASE FollowerHeartbeat(s, i)
  <2>1. PICK m \in Arriving(i, s, "APP_ENTR_RPC") : FollowerHeartbeat(s, i)!(m)
    BY <1>2 DEF FollowerHeartbeat
  <2>2. m.term \in Term  BY ArrivingType, MessageKinds
  <2>3. AppendReply(m.term, TRUE, TRUE) \in Message  BY <2>2, AppendReplyType
  <2>4. QuietNet(net, net') /\ Loopless(net')
    BY <2>1, <2>3, ArrivingType, AfterReply, AppendKinds
  <2>5. UNCHANGED <<role, voteCount, votes, elected>>
    BY <2>1 DEF stateObjVars, electionHist
  <2>6. role[s] = "Follower" /\ m.term >= currTerm[s] /\ AdoptTerm(s, m.term)
    BY <2>1
  <2> QED  BY <2>2, <2>4, <2>5, <2>6, AdoptStep
<1>3. CASE FollowerAppend(s, i)
  <2>1. PICK m \in Arriving(i, s, "APP_ENTR_RPC") : FollowerAppend(s, i)!(m)
    BY <1>3 DEF FollowerAppend
  <2>2. m.term \in Term  BY ArrivingType, MessageKinds
  <2>3. PrevMatches(bcLog[s], m) \in BOOLEAN  BY DEF PrevMatches
  <2>4. AppendReply(m.term, PrevMatches(bcLog[s], m), FALSE) \in Message
    BY <2>2, <2>3, AppendReplyType
  <2>5. QuietNet(net, net') /\ Loopless(net')
    BY <2>1, <2>4, ArrivingType, AfterReply, AppendKinds
  <2>6. UNCHANGED <<role, voteCount, votes, elected>>
    BY <2>1 DEF stateObjVars, electionHist
  <2>7. role[s] = "Follower" /\ m.term >= currTerm[s] /\ AdoptTerm(s, m.term)
    BY <2>1
  <2> QED  BY <2>2, <2>5, <2>6, <2>7, AdoptStep
<1> QED  BY <1>1, <1>2, <1>3

LEMMA ElectionLeaderSends ==
    ASSUME TypeInv, TypeInv', ElectionInv, NEW s \in Server,
           LeaderHeartbeat(s) \/ \E r \in Request : LeaderTakeRequest(s, r)
    PROVE  ElectionInv'
<1> USE DEF TypeInv
<1>1. net \in Net /\ Loopless(net)
  BY DEF TypeOK, NetTypes, Net, ElectionInv, NoLoop, Loopless
<1>2. CASE LeaderHeartbeat(s)
  <2>1. QuietNet(net, net') /\ Loopless(net')
    BY <1>1, <1>2, HeartbeatType, AppendKinds, AfterBroadcast
       DEF LeaderHeartbeat
  <2>2. UNCHANGED <<currTerm, votedCandidate, role, voteCount, votes, elected>>
    BY <1>2 DEF LeaderHeartbeat, serverVars, stateObjVars, electionHist
  <2> QED  BY <2>1, <2>2, UnrelatedStep
<1>3. ASSUME NEW r \in Request, LeaderTakeRequest(s, r)
      PROVE  ElectionInv'
  <2> DEFINE log == Append(bcLog[s], [term |-> currTerm[s], txn |-> r])
             m == AppendFrom(s, log, LastIndex(bcLog[s]))
  <2>1. m \in Message
    <3>1. bcLog[s] \in Seq(Block) /\ currTerm[s] \in Term
      BY DEF TypeOK, ChainTypes, ServerTypes
    <3>2. [term |-> currTerm[s], txn |-> r] \in Block  BY <3>1 DEF Block
    <3>3. log \in Seq(Block) /\ Len(log) = Len(bcLog[s]) + 1
      BY <3>1, <3>2
    <3>4. LastIndex(bcLog[s]) \in Index /\ LastIndex(bcLog[s]) <= LastIndex(log)
      BY <3>1, <3>3 DEF LastIndex, Index
    <3> QED  BY <3>3, <3>4, AppendFromType
  <2>2. net' = PushToOthers(net, s, m)  BY <1>3 DEF LeaderTakeRequest
  <2>3. Silent(m)  BY AppendKinds
  <2> HIDE DEF m
  <2>4. QuietNet(net, net') /\ Loopless(net')
    BY <1>1, <2>1, <2>2, <2>3, AfterBroadcast
  <2>5. UNCHANGED <<currTerm, votedCandidate, role, voteCount, votes, elected>>
    BY <1>3 DEF LeaderTakeRequest, serverVars, electionHist
  <2> QED  BY <2>4, <2>5, UnrelatedStep
<1> QED  BY <1>2, <1>3

LEMMA ElectionLeaderReceives ==
    ASSUME TypeInv, TypeInv', ElectionInv, NEW s \in Server, NEW f \in Server,
           \/ LeaderNoteAccept(s, f) \/ LeaderCountAccept(s, f)
           \/ LeaderCommit(s, f) \/ LeaderRetry(s, f)
    PROVE  ElectionInv'
<1> USE DEF TypeInv
<1>1. UNCHANGED <<currTerm, votedCandidate, role, voteCount, votes, elected>>
  BY DEF LeaderNoteAccept, LeaderCountAccept, LeaderCommit, LeaderRetry,
         serverVars, electionHist
<1>2. net[f][s] # <<>>
  BY DEF LeaderNoteAccept, LeaderCountAccept, LeaderCommit, LeaderRetry, Arriving
<1>3. CASE net' = Pop(net, f, s)
  BY <1>1, <1>2, <1>3, AfterPop, UnrelatedStep
<1>4. CASE LeaderRetry(s, f) /\ net' # Pop(net, f, s)
  <2> DEFINE prev == nextIndex[s][f] - 2
  <2>1. ~(prev < -1) /\ net' = Push(Pop(net, f, s), s, f,
                                    AppendFrom(s, bcLog[s], prev))
    BY <1>4 DEF LeaderRetry
  <2>2. /\ bcLog[s] \in Seq(Block) /\ nextIndex[s][f] \in Int
        /\ nextIndex[s][f] <= Len(bcLog[s])
    BY DEF TypeOK, ChainTypes, StateObjTypes, LeaderShape
  <2>3. prev \in Index /\ prev <= LastIndex(bcLog[s])
    BY <2>1, <2>2 DEF Index, LastIndex
  <2>4. AppendFrom(s, bcLog[s], prev) \in Message
    BY <2>2, <2>3, AppendFromType
  <2>5. QuietNet(net, net') /\ Loopless(net')
    BY <1>2, <2>1, <2>4, AfterReply, AppendKinds
  <2> QED  BY <1>1, <2>5, UnrelatedStep
<1>5. LeaderRetry(s, f) \/ net' = Pop(net, f, s)
  BY DEF LeaderNoteAccept, LeaderCountAccept, LeaderCommit
<1> QED  BY <1>3, <1>4, <1>5

LEMMA ElectionGiveUpAndDrops ==
    ASSUME TypeInv, TypeInv', ElectionInv, NEW s \in Server, NEW i \in Server,
           LeaderGiveUp(s) \/ Ignore(s, i) \/ Lose(i, s)
    PROVE  ElectionInv'
<1> USE DEF TypeInv
<1>1. UNCHANGED <<currTerm, votedCandidate, role, voteCount, votes, elected>>
  BY DEF LeaderGiveUp, Ignore, Lose, serverVars, stateObjVars, electionHist
<1>2. CASE LeaderGiveUp(s)
  <2>1. net' = net  BY <1>2 DEF LeaderGiveUp
  <2>2. net \in Net /\ Loopless(net)
    BY DEF TypeOK, NetTypes, Net, ElectionInv, NoLoop, Loopless
  <2> QED  BY <1>1, <2>1, <2>2, QuietSame, UnrelatedStep
<1>3. CASE Ignore(s, i) \/ Lose(i, s)
  BY <1>1, <1>3, AfterPop, UnrelatedStep DEF Ignore, Lose
<1> QED  BY <1>2, <1>3

-----------------------------------------------------------------------------
(* The actions that vote, count votes and elect.                           *)

\* The new term is beyond every request and vote there is of the candidate.
LEMMA ElectionBecomeCandidate ==
    ASSUME TypeInv, TypeInv', ElectionInv, NEW s \in Server, BecomeCandidate(s)
    PROVE  ElectionInv'
<1> USE DEF TypeInv
<1> DEFINE t1 == currTerm[s] + 1
           m == [type |-> "REQ_VOTE_RPC", term |-> t1,
                 lastLogTerm |-> LastTerm(bcLog[s]),
                 lastLogIndex |-> LastIndex(bcLog[s])]
<1>1. /\ t1 \in Term /\ currTerm[s] \in Nat
      /\ role' = [role EXCEPT ![s] = "Candidate"]
      /\ currTerm' = [currTerm EXCEPT ![s] = t1]
      /\ votedCandidate' = [votedCandidate EXCEPT ![s] = s]
      /\ voteCount' = [voteCount EXCEPT ![s] = 1]
      /\ votes' = votes \cup {<<t1, s, s>>}
      /\ net' = PushToOthers(net, s, m)
      /\ elected' = elected
  BY TermType DEF BecomeCandidate, TypeOK, ServerTypes, Term, BoundAssumption
<1>2. m \in Message
  <2>1. bcLog[s] \in Seq(Block)  BY DEF TypeOK, ChainTypes
  <2> QED  BY <1>1, <2>1, ChainType DEF Message, VoteRpc
<1>3. (\A t \in Term : ~IsGrant(m, t)) /\ \A t \in Term : IsAsk(m, t) <=> t = t1
  BY DEF IsGrant, IsAsk
<1> HIDE DEF m, t1
<1>4. \A c, f \in Server :
        net'[c][f] = IF c = s /\ f # s THEN Append(net[c][f], m) ELSE net[c][f]
  BY <1>1 DEF PushToOthers, TypeOK, NetTypes
<1>5. \A q \in Server : /\ currTerm'[q] >= currTerm[q]
                        /\ q # s => currTerm'[q] = currTerm[q]
                        /\ currTerm'[s] = t1 /\ t1 = currTerm[s] + 1
  BY <1>1, TermType DEF TypeOK, ServerTypes, t1
<1>6. ASSUME NEW c \in Server, NEW f \in Server, NEW t \in Term
      PROVE  /\ GrantsFrom(net[f][c], net'[f][c], t)
             /\ ~(c = s /\ t = t1) => AsksFrom(net[c][f], net'[c][f], t)
  BY <1>2, <1>3, <1>4, ChannelType, GrantsFromAppend, AsksFromAppend,
     QuieterSame DEF Quieter
<1>7. ASSUME NEW f \in Server
      PROVE  /\ Asks(net[s][f], t1) = {}
             /\ Grants(net[f][s], t1) = {} /\ Grants(net'[f][s], t1) = {}
  <2>1. ~(t1 <= currTerm[s])  BY <1>1, <1>5
  <2>2. Asks(net[s][f], t1) = {}  BY <1>1, <2>1 DEF ElectionInv, AsksOnce
  <2>3. Grants(net[f][s], t1) = {}  BY <1>1, <2>1 DEF ElectionInv, GrantsCast
  <2> QED  BY <1>1, <1>6, <2>2, <2>3 DEF GrantsFrom
<1>8. NoLoop'  BY <1>4 DEF ElectionInv, NoLoop
<1>9. AsksOnce'
  <2> SUFFICES ASSUME NEW c \in Server, NEW f \in Server, NEW t \in Term
               PROVE  AsksOnce!(c, f, t)'
    BY DEF AsksOnce
  <2>1. CASE c = s /\ t = t1
    <3>1. Asks(net'[s][f], t1) \subseteq {Len(net[s][f]) + 1}
      <4>1. net[s][f] \in Seq(Message) /\ t1 \in Term  BY <1>1, ChannelType
      <4>2. Asks(net[s][f], t1) = {}  BY <1>7
      <4>3. Asks(Append(net[s][f], m), t1) = {Len(net[s][f]) + 1}
        <5>1. IsAsk(m, t1)  BY <1>3, <4>1
        <5>2. Asks(Append(net[s][f], m), t1)
                = Asks(net[s][f], t1) \cup {Len(net[s][f]) + 1}
          BY <1>2, <4>1, <5>1, AppendPlaces
        <5> QED  BY <4>2, <5>2
      <4>4. net'[s][f] = Append(net[s][f], m) \/ net'[s][f] = net[s][f]
        BY <1>4
      <4> QED  BY <4>2, <4>3, <4>4
    <3>2. t1 <= currTerm'[s]  BY <1>1, <1>5, TermType
    <3>3. \A k, l \in Asks(net'[s][f], t1) : k = l  BY <3>1
    <3> QED  BY <1>7, <2>1, <3>2, <3>3
  <2>2. CASE ~(c = s /\ t = t1)
    <3>1. /\ Asks(net'[c][f], t) # {} => t <= currTerm[c]
          /\ \A k, l \in Asks(net'[c][f], t) : k = l
          /\ \A k, l \in Grants(net'[f][c], t) : k = l
          /\ Asks(net'[c][f], t) # {} => Grants(net'[f][c], t) = {}
      BY <1>6, <2>2, ChannelType, AsksOnceFrom DEF ElectionInv
    <3> QED  BY <1>5, <3>1, TermType
  <2> QED  BY <2>1, <2>2
<1>10. GrantsCast'
  <2> SUFFICES ASSUME NEW c \in Server, NEW f \in Server, NEW t \in Term,
                      Grants(net'[f][c], t) # {}
               PROVE  <<t, f, c>> \in votes' /\ t <= currTerm'[c]
    BY DEF GrantsCast
  <2>1. Grants(net[f][c], t) # {}  BY <1>6 DEF GrantsFrom
  <2>2. <<t, f, c>> \in votes /\ t <= currTerm[c]
    BY <2>1 DEF ElectionInv, GrantsCast
  <2> QED  BY <1>1, <1>5, <2>2, TermType
<1>11. VotesRemembered'
  <2> SUFFICES ASSUME NEW t \in Term, NEW f \in Server, NEW c \in Server,
                      <<t, f, c>> \in votes'
               PROVE  /\ t <= currTerm'[f]
                      /\ t = currTerm'[f] => votedCandidate'[f] = c
    BY DEF VotesRemembered
  <2>1. CASE <<t, f, c>> \in votes
    <3>1. t <= currTerm[f] /\ (t = currTerm[f] => votedCandidate[f] = c)
      BY <2>1 DEF ElectionInv, VotesRemembered
    <3>2. CASE f = s  BY <1>1, <1>5, <3>1, <3>2, TermType
    <3>3. CASE f # s
      BY <1>1, <1>5, <3>1, <3>3, TermType DEF TypeOK, ServerTypes
    <3> QED  BY <3>2, <3>3
  <2>2. CASE t = t1 /\ f = s /\ c = s
    BY <1>1, <1>5, <2>2, TermType DEF TypeOK, ServerTypes
  <2> QED  BY <1>1, <2>1, <2>2
<1>12. OneVotePerTerm'
  <2>1. \A c \in Server : <<t1, s, c>> \notin votes
    BY <1>1, <1>5, TermType DEF ElectionInv, VotesRemembered
  <2> QED  BY <1>1, <2>1 DEF ElectionInv, OneVotePerTerm
<1>13. CountedVotes'
  <2> SUFFICES ASSUME NEW c \in Server, role'[c] = "Candidate"
               PROVE  CountedVotes!(c)!2'
    BY DEF CountedVotes
  <2>1. CASE c = s
    <3>1. Cardinality({s}) = 1  BY FS_Singleton
    <3>2. voteCount'[s] = 1 /\ currTerm'[s] = t1
      BY <1>1, <1>5 DEF TypeOK, StateObjTypes
    <3>3. VotedBy({s}, currTerm[s], s)'  BY <1>1, <3>2 DEF VotedBy
    <3>4. net'[s][s] = <<>>  BY <1>8 DEF NoLoop
    <3>5. Settled(s, s, currTerm[s])'
      BY <3>4 DEF Settled, Asks, Grants
    <3> QED  BY <2>1, <3>1, <3>2, <3>3, <3>5
  <2>2. CASE c # s
    <3>1. /\ role[c] = "Candidate" /\ voteCount'[c] = voteCount[c]
          /\ currTerm'[c] = currTerm[c]
      BY <1>1, <2>2 DEF TypeOK, ServerTypes, StateObjTypes
    <3>2. PICK V \in SUBSET Server :
            /\ Cardinality(V) = voteCount[c]
            /\ VotedBy(V, currTerm[c], c)
            /\ \A f \in V : Settled(c, f, currTerm[c])
      BY <3>1 DEF ElectionInv, CountedVotes
    <3>3. ASSUME NEW f \in V PROVE Settled(c, f, currTerm[c])'
      BY <1>6, <2>2, <3>1, <3>2, TermType DEF Settled, AsksFrom, GrantsFrom
    <3>4. VotedBy(V, currTerm[c], c)'  BY <1>1, <3>1, <3>2 DEF VotedBy
    <3> QED  BY <3>1, <3>2, <3>3, <3>4
  <2> QED  BY <2>1, <2>2
<1>14. ElectedByMajority'  BY <1>1, QuietElected DEF ElectionInv
<1> QED  BY <1>8, <1>9, <1>10, <1>11, <1>12, <1>13, <1>14 DEF ElectionInv

\* A granted vote uses up the one request of its term.
LEMMA ElectionGrant ==
    ASSUME TypeInv, TypeInv', ElectionInv, NEW s \in Server, NEW c \in Server,
           NEW m \in Arriving(c, s, "REQ_VOTE_RPC"), GrantsVote(s, c, m),
           NEW r \in Message, r.type = "REQ_VOTE_RPL", r.term = m.term, r.granted,
           role[s] = "Follower", UNCHANGED <<role, voteCount, elected>>,
           currTerm' = [currTerm EXCEPT ![s] = m.term],
           votedCandidate' = [votedCandidate EXCEPT ![s] = c],
           votes' = votes \cup {<<m.term, s, c>>},
           net' = Push(Pop(net, c, s), s, c, r)
    PROVE  ElectionInv'
<1> USE DEF TypeInv
<1> DEFINE t1 == m.term
<1>1. /\ net[c][s] # <<>> /\ m = Head(net[c][s]) /\ m.type = "REQ_VOTE_RPC"
      /\ t1 \in Term /\ t1 >= currTerm[s] /\ c # s
  BY ArrivingType, MessageKinds, AfterPop DEF GrantsVote
<1>2. 1 \in Asks(net[c][s], t1)
  <2>1. net[c][s] \in Seq(Message)  BY ChannelType
  <2> QED  BY <1>1, <2>1 DEF Asks
<1>3. t1 <= currTerm[c] /\ Grants(net[s][c], t1) = {}
  BY <1>1, <1>2 DEF ElectionInv, AsksOnce
<1>4. ~IsAsk(r, t1) /\ \A t \in Term : ~IsAsk(r, t) /\ (IsGrant(r, t) <=> t = t1)
  BY DEF IsAsk, IsGrant
<1>5. \A a, b \in Server :
        net'[a][b] = IF a = c /\ b = s THEN Tail(net[a][b])
                     ELSE IF a = s /\ b = c THEN Append(net[a][b], r)
                     ELSE net[a][b]
  <2>1. net \in Net /\ Pop(net, c, s) \in Net
    BY <1>1, AfterPop DEF TypeOK, NetTypes, Net
  <2>2. ASSUME NEW a \in Server, NEW b \in Server
        PROVE  net'[a][b] = IF a = c /\ b = s THEN Tail(net[a][b])
                            ELSE IF a = s /\ b = c THEN Append(net[a][b], r)
                            ELSE net[a][b]
    <3>1. ~(a = c /\ b = s) \/ ~(a = s /\ b = c)  BY <1>1
    <3>2. /\ net'[a][b] = IF a = s /\ b = c
                           THEN Append(Pop(net, c, s)[a][b], r)
                           ELSE Pop(net, c, s)[a][b]
          /\ Pop(net, c, s)[a][b] = IF a = c /\ b = s
                                    THEN Tail(net[a][b]) ELSE net[a][b]
      BY <2>1, PushAt, PopAt
    <3> QED  BY <3>1, <3>2
  <2> QED  BY <2>2
<1>6. /\ currTerm'[s] = t1 /\ votedCandidate'[s] = c
      /\ \A q \in Server :
            /\ currTerm'[q] >= currTerm[q]
            /\ q # s => /\ currTerm'[q] = currTerm[q]
                        /\ votedCandidate'[q] = votedCandidate[q]
  BY <1>1, TermType DEF TypeOK, ServerTypes
<1>7. votes' = votes \cup {<<t1, s, c>>}  OBVIOUS
<1> HIDE DEF t1
<1>8. ASSUME NEW a \in Server, NEW b \in Server, NEW t \in Term
      PROVE  /\ AsksFrom(net[a][b], net'[a][b], t)
             /\ ~(a = s /\ b = c /\ t = t1) => GrantsFrom(net[a][b], net'[a][b], t)
  <2>1. net[a][b] \in Seq(Message)  BY ChannelType
  <2>2. CASE a = c /\ b = s
    BY <1>1, <1>5, <2>1, <2>2, QuieterTail DEF Quieter
  <2>3. CASE a = s /\ b = c
    BY <1>1, <1>4, <1>5, <2>1, <2>3, AsksFromAppend, GrantsFromAppend
  <2>4. CASE ~(a = c /\ b = s) /\ ~(a = s /\ b = c)
    BY <1>5, <2>1, <2>4, QuieterSame DEF Quieter
  <2> QED  BY <2>2, <2>3, <2>4
<1>9. Asks(net'[c][s], t1) = {}
  <2>1. /\ net[c][s] \in Seq(Message) /\ net[c][s] # <<>>
        /\ net'[c][s] = Tail(net[c][s])
    BY <1>1, <1>5, ChannelType
  <2>2. ASSUME NEW k \in Asks(net'[c][s], t1) PROVE FALSE
    <3>1. k + 1 \in Asks(net[c][s], t1) /\ k >= 1 /\ k \in Nat
      BY <2>1 DEF Asks
    <3>2. k + 1 = 1
      <4>1. AsksOnce /\ t1 \in Term  BY <1>1 DEF ElectionInv
      <4>2. \A l \in Asks(net[c][s], t1) : k + 1 = l
        BY ONLY <3>1, <4>1, s \in Server, c \in Server DEF AsksOnce
      <4> QED  BY <1>2, <4>2
    <3> QED  BY <3>1, <3>2
  <2> QED  BY <2>2
<1>10. Grants(net'[s][c], t1) \subseteq {Len(net[s][c]) + 1}
  <2>1. net[s][c] \in Seq(Message)  BY ChannelType
  <2>2. net'[s][c] = Append(net[s][c], r)  BY <1>1, <1>5
  <2>3. Grants(Append(net[s][c], r), t1)
            \subseteq Grants(net[s][c], t1) \cup {Len(net[s][c]) + 1}
    BY <1>1, <2>1, AppendPlaces
  <2> QED  BY <1>3, <2>2, <2>3
<1>11. NoLoop'  BY <1>1, <1>5 DEF ElectionInv, NoLoop
<1>12. AsksOnce'
  <2> SUFFICES ASSUME NEW a \in Server, NEW b \in Server, NEW t \in Term
               PROVE  AsksOnce!(a, b, t)'
    BY DEF AsksOnce
  <2>1. CASE a = c /\ b = s /\ t = t1
    <3>1. \A k, l \in Grants(net'[b][a], t) : k = l  BY <1>10, <2>1
    <3>2. Asks(net'[a][b], t) = {}  BY <1>9, <2>1
    <3> QED  BY <3>1, <3>2
  <2>2. CASE ~(a = c /\ b = s /\ t = t1)
    <3>1. /\ Asks(net'[a][b], t) # {} => t <= currTerm[a]
          /\ \A k, l \in Asks(net'[a][b], t) : k = l
          /\ \A k, l \in Grants(net'[b][a], t) : k = l
          /\ Asks(net'[a][b], t) # {} => Grants(net'[b][a], t) = {}
      <4>1. AsksFrom(net[a][b], net'[a][b], t)  BY <1>8
      <4>2. GrantsFrom(net[b][a], net'[b][a], t)  BY <1>8, <2>2
      <4>3. net'[a][b] \in Seq(Message) /\ net'[b][a] \in Seq(Message)
        BY ChannelType
      <4> QED  BY <4>1, <4>2, <4>3, AsksOnceFrom DEF ElectionInv
    <3> QED  BY <1>6, <3>1, TermType
  <2> QED  BY <2>1, <2>2
<1>13. GrantsCast'
  <2> SUFFICES ASSUME NEW a \in Server, NEW b \in Server, NEW t \in Term,
                      Grants(net'[b][a], t) # {}
               PROVE  <<t, b, a>> \in votes' /\ t <= currTerm'[a]
    BY DEF GrantsCast
  <2>1. CASE a = c /\ b = s /\ t = t1
    BY <1>1, <1>3, <1>6, <1>7, <2>1, TermType
  <2>2. CASE ~(a = c /\ b = s /\ t = t1)
    <3>1. Grants(net[b][a], t) # {}  BY <1>8, <2>2 DEF GrantsFrom
    <3>2. <<t, b, a>> \in votes /\ t <= currTerm[a]
      BY <3>1 DEF ElectionInv, GrantsCast
    <3> QED  BY <1>6, <1>7, <3>2, TermType
  <2> QED  BY <2>1, <2>2
\* The voter has not voted for another candidate in this term.
<1>14. ASSUME NEW d \in Server, <<t1, s, d>> \in votes PROVE d = c
  <2>1. t1 <= currTerm[s] /\ (t1 = currTerm[s] => votedCandidate[s] = d)
    BY <1>1, <1>14 DEF ElectionInv, VotesRemembered
  <2>2. votedCandidate[s] = d /\ t1 = currTerm[s]
    BY <1>1, <2>1, TermType
  <2>3. votedCandidate[s] \in {None, c}
    BY <2>2, TermType DEF GrantsVote, t1
  <2> QED  BY <2>2, <2>3, NoneAssumption
<1>15. VotesRemembered'
  <2> SUFFICES ASSUME NEW t \in Term, NEW f \in Server, NEW d \in Server,
                      <<t, f, d>> \in votes'
               PROVE  /\ t <= currTerm'[f]
                      /\ t = currTerm'[f] => votedCandidate'[f] = d
    BY DEF VotesRemembered
  <2>1. CASE <<t, f, d>> \in votes
    <3>1. t <= currTerm[f] /\ (t = currTerm[f] => votedCandidate[f] = d)
      BY <2>1 DEF ElectionInv, VotesRemembered
    <3>2. CASE f = s
      <4>1. t <= t1  BY <1>1, <3>1, <3>2, TermType
      <4>2. t = t1 => d = c  BY <1>14, <2>1, <3>2
      <4> QED  BY <1>6, <3>2, <4>1, <4>2
    <3>3. CASE f # s  BY <1>6, <3>1, <3>3
    <3> QED  BY <3>2, <3>3
  <2>2. CASE t = t1 /\ f = s /\ d = c  BY <1>1, <1>6, <2>2, TermType
  <2> QED  BY <1>7, <2>1, <2>2
<1>16. OneVotePerTerm'
  BY <1>7, <1>14 DEF ElectionInv, OneVotePerTerm
<1>17. CountedVotes'
  <2> SUFFICES ASSUME NEW a \in Server, role'[a] = "Candidate"
               PROVE  CountedVotes!(a)!2'
    BY DEF CountedVotes
  <2>1. a # s /\ role[a] = "Candidate" /\ voteCount'[a] = voteCount[a]
        /\ currTerm'[a] = currTerm[a]
    BY <1>6
  <2>2. PICK V \in SUBSET Server :
          /\ Cardinality(V) = voteCount[a]
          /\ VotedBy(V, currTerm[a], a)
          /\ \A f \in V : Settled(a, f, currTerm[a])
    BY <2>1 DEF ElectionInv, CountedVotes
  <2>3. ASSUME NEW f \in V PROVE Settled(a, f, currTerm[a])'
    <3>1. Asks(net[a][f], currTerm[a]) = {} /\ Grants(net[f][a], currTerm[a]) = {}
      BY <2>2 DEF Settled
    <3>2. ~(f = s /\ a = c /\ currTerm[a] = t1)
      BY <1>2, <3>1
    <3>3. f \in Server /\ currTerm[a] \in Term  BY TermType
    <3>4. AsksFrom(net[a][f], net'[a][f], currTerm[a])  BY <1>8, <3>3
    <3>5. GrantsFrom(net[f][a], net'[f][a], currTerm[a])
      BY <1>8, <3>2, <3>3
    <3>6. /\ Asks(net'[a][f], currTerm[a]) = {}
          /\ Grants(net'[f][a], currTerm[a]) = {}
      BY <3>1, <3>4, <3>5 DEF AsksFrom, GrantsFrom
    <3> QED  BY <2>1, <3>6 DEF Settled
  <2>4. VotedBy(V, currTerm[a], a)'  BY <1>7, <2>1, <2>2 DEF VotedBy
  <2> QED  BY <2>1, <2>2, <2>3, <2>4
<1>18. ElectedByMajority'  BY <1>7, QuietElected DEF ElectionInv
<1> QED  BY <1>11, <1>12, <1>13, <1>15, <1>16, <1>17, <1>18 DEF ElectionInv

LEMMA ElectionFollowerVote ==
    ASSUME TypeInv, TypeInv', ElectionInv, NEW s \in Server, NEW c \in Server,
           FollowerVote(s, c)
    PROVE  ElectionInv'
<1> USE DEF TypeInv
<1>1. PICK m \in Arriving(c, s, "REQ_VOTE_RPC") : FollowerVote(s, c)!(m)
  BY DEF FollowerVote
<1> DEFINE grant == GrantsVote(s, c, m)
           term == IF m.term > currTerm[s] THEN m.term ELSE currTerm[s]
           r == [type |-> "REQ_VOTE_RPL", term |-> term, granted |-> grant]
<1>2. /\ role[s] = "Follower"
      /\ currTerm' = [currTerm EXCEPT ![s] = term]
      /\ votedCandidate' = [votedCandidate EXCEPT ![s] =
                                IF grant THEN c
                                ELSE IF m.term > currTerm[s] THEN None ELSE @]
      /\ votes' = IF grant THEN votes \cup {<<term, s, c>>} ELSE votes
      /\ net' = Push(Pop(net, c, s), s, c, r)
      /\ UNCHANGED <<role, voteCount, elected>>
  BY <1>1 DEF stateObjVars
<1>3. /\ net[c][s] # <<>> /\ m.term \in Term
      /\ term \in Term /\ currTerm[s] \in Nat
      /\ term >= currTerm[s] /\ (term = currTerm[s] => ~(m.term > currTerm[s]))
  BY ArrivingType, MessageKinds, TermType
<1>4. r \in Message
  <2>1. grant \in BOOLEAN  BY DEF GrantsVote, LogUpToDate
  <2> QED  BY <1>3, <2>1 DEF Message, VoteRpl
<1>5. CASE grant
  <2>1. term = m.term  BY <1>3, <1>5, TermType DEF GrantsVote
  <2>2. r.type = "REQ_VOTE_RPL" /\ r.term = m.term /\ r.granted
    BY <1>5, <2>1
  <2>3. /\ currTerm' = [currTerm EXCEPT ![s] = m.term]
        /\ votedCandidate' = [votedCandidate EXCEPT ![s] = c]
        /\ votes' = votes \cup {<<m.term, s, c>>}
    BY <1>2, <1>5, <2>1
  <2> HIDE DEF r, term, grant
  <2>4. GrantsVote(s, c, m)  BY <1>5 DEF grant
  <2>5. /\ role[s] = "Follower" /\ UNCHANGED <<role, voteCount, elected>>
        /\ net' = Push(Pop(net, c, s), s, c, r)
    BY <1>2
  <2> QED  BY <1>4, <2>2, <2>3, <2>4, <2>5, ElectionGrant
<1>6. CASE ~grant
  <2>1. Silent(r)  BY <1>6 DEF Silent, IsAsk, IsGrant
  <2> HIDE DEF r
  <2>2. QuietNet(net, net') /\ Loopless(net')
    BY <1>2, <1>3, <1>4, <2>1, AfterReply
  <2>3. CandidatesKeep
    BY <1>2 DEF CandidatesKeep, TypeOK, ServerTypes
  <2>4. ASSUME NEW q \in Server PROVE TermsAdvance!(q)
    <3>1. CASE q = s
      <4>1. currTerm'[s] = term /\ (~(m.term > currTerm[s])
                => votedCandidate'[s] = votedCandidate[s])
        BY <1>2, <1>6 DEF TypeOK, ServerTypes
      <4> QED  BY <1>3, <3>1, <4>1
    <3>2. CASE q # s
      BY <1>2, <3>2, TermType DEF TypeOK, ServerTypes
    <3> QED  BY <3>1, <3>2
  <2>5. TermsAdvance  BY <2>4 DEF TermsAdvance
  <2> QED  BY <1>2, <1>6, <2>2, <2>3, <2>5, QuietStep
<1> QED  BY <1>5, <1>6

\* The servers whose votes a candidate has received, with one more.
LEMMA OneMoreVote ==
    ASSUME TypeInv, TypeInv', ElectionInv, NEW s \in Server, NEW f \in Server,
           NEW m \in Arriving(f, s, "REQ_VOTE_RPL"), GrantCounts(s, m),
           role[s] = "Candidate"
    PROVE  \E V \in SUBSET Server :
              /\ f \in V
              /\ Cardinality(V) = voteCount[s] + 1
              /\ VotedBy(V, currTerm[s], s)
              /\ Asks(net[s][f], currTerm[s]) = {}
              /\ Grants(Tail(net[f][s]), currTerm[s]) = {}
              /\ \A g \in V \ {f} : Settled(s, g, currTerm[s])
<1> USE DEF TypeInv
<1> DEFINE t == currTerm[s]
<1>1. /\ net[f][s] # <<>> /\ net[f][s] \in Seq(Message)
      /\ m = Head(net[f][s]) /\ m.type = "REQ_VOTE_RPL"
      /\ t \in Term
  BY ArrivingType, ChannelType, TermType
<1>2. 1 \in Grants(net[f][s], t)  BY <1>1 DEF Grants, GrantCounts
<1>3. <<t, f, s>> \in votes  BY <1>1, <1>2 DEF ElectionInv, GrantsCast
<1>4. Asks(net[s][f], t) = {}  BY <1>1, <1>2 DEF ElectionInv, AsksOnce
<1>5. Grants(Tail(net[f][s]), t) = {}
  <2> SUFFICES ASSUME NEW k \in Grants(Tail(net[f][s]), t) PROVE FALSE
    OBVIOUS
  <2>1. k + 1 \in Grants(net[f][s], t) /\ k >= 1 /\ k \in Nat
    BY <1>1 DEF Grants
  <2>2. \A k1, k2 \in Grants(net[f][s], t) : k1 = k2
    BY <1>1 DEF ElectionInv, AsksOnce
  <2>3. k + 1 = 1  BY <1>2, <2>1, <2>2
  <2> QED  BY <2>1, <2>3
<1>6. PICK V \in SUBSET Server :
        /\ Cardinality(V) = voteCount[s]
        /\ VotedBy(V, t, s)
        /\ \A g \in V : Settled(s, g, t)
  BY DEF ElectionInv, CountedVotes
<1>7. f \notin V  BY <1>2, <1>6 DEF Settled
<1>8. Cardinality(V \cup {f}) = voteCount[s] + 1
  BY <1>6, <1>7, ServerAssumption, FS_Subset, FS_AddElement
<1>9. VotedBy(V \cup {f}, t, s)  BY <1>3, <1>6 DEF VotedBy
<1>10. V \cup {f} \in SUBSET Server  BY <1>6
<1> HIDE DEF t
<1> QED  BY <1>4, <1>5, <1>6, <1>8, <1>9, <1>10 DEF t

LEMMA ElectionCountVote ==
    ASSUME TypeInv, TypeInv', ElectionInv, NEW s \in Server, NEW f \in Server,
           CandidateCountVote(s, f)
    PROVE  ElectionInv'
<1> USE DEF TypeInv
<1>1. PICK m \in Arriving(f, s, "REQ_VOTE_RPL") : CandidateCountVote(s, f)!(m)
  BY DEF CandidateCountVote
<1>2. /\ role[s] = "Candidate" /\ GrantCounts(s, m)
      /\ voteCount' = [voteCount EXCEPT ![s] = @ + 1]
      /\ net' = Pop(net, f, s)
      /\ UNCHANGED <<currTerm, votedCandidate, role, votes, elected>>
  BY <1>1 DEF serverVars, electionHist
<1>3. net[f][s] # <<>>  BY ArrivingType
<1>4. QuietNet(net, net') /\ Loopless(net')  BY <1>2, <1>3, AfterPop
<1>5. TermsAdvance  BY <1>2, TermType DEF TermsAdvance, Term
<1>6. NoLoop'  BY <1>4 DEF NoLoop, Loopless
<1>7. AsksOnce' /\ GrantsCast'
  BY <1>2, <1>4, <1>5, QuietChannels DEF ElectionInv
<1>8. VotesRemembered' /\ OneVotePerTerm'
  BY <1>2, <1>5, QuietVotes DEF ElectionInv
<1>9. ElectedByMajority'  BY <1>2, QuietElected DEF ElectionInv
<1>10. CountedVotes'
  <2> SUFFICES ASSUME NEW c \in Server, role'[c] = "Candidate"
               PROVE  CountedVotes!(c)!2'
    BY DEF CountedVotes
  <2>0. currTerm[c] \in Term /\ role[c] = "Candidate"  BY <1>2, TermType
  <2>1. \A g \in Server :
          Settled(c, g, currTerm[c]) => Settled(c, g, currTerm[c])'
    BY <1>2, <1>4, <2>0 DEF Settled, QuietNet, Quieter, AsksFrom, GrantsFrom
  <2>2. CASE c = s
    <3>1. PICK V \in SUBSET Server :
            /\ f \in V
            /\ Cardinality(V) = voteCount[s] + 1
            /\ VotedBy(V, currTerm[s], s)
            /\ Asks(net[s][f], currTerm[s]) = {}
            /\ Grants(Tail(net[f][s]), currTerm[s]) = {}
            /\ \A g \in V \ {f} : Settled(s, g, currTerm[s])
      BY <1>2, OneMoreVote
    <3>2. net'[f][s] = Tail(net[f][s])
      BY <1>2 DEF Pop, TypeOK, NetTypes
    <3>3. Asks(net'[s][f], currTerm[s]) = {}
      BY <1>4, <2>0, <2>2, <3>1 DEF QuietNet, Quieter, AsksFrom
    <3>4. ASSUME NEW g \in V PROVE Settled(s, g, currTerm[s])'
      BY <1>2, <2>1, <2>2, <3>1, <3>2, <3>3 DEF Settled
    <3>5. VotedBy(V, currTerm[s], s)'  BY <1>2, <3>1 DEF VotedBy
    <3>6. voteCount'[s] = voteCount[s] + 1
      BY <1>2 DEF TypeOK, StateObjTypes
    <3> QED  BY <2>2, <3>1, <3>4, <3>5, <3>6
  <2>3. CASE c # s
    <3>1. PICK V \in SUBSET Server :
            /\ Cardinality(V) = voteCount[c]
            /\ VotedBy(V, currTerm[c], c)
            /\ \A g \in V : Settled(c, g, currTerm[c])
      BY <2>0 DEF ElectionInv, CountedVotes
    <3>2. ASSUME NEW g \in V PROVE Settled(c, g, currTerm[c])'
      BY <2>1, <3>1
    <3>3. VotedBy(V, currTerm[c], c)'  BY <1>2, <3>1 DEF VotedBy
    <3>4. voteCount'[c] = voteCount[c]
      BY <1>2, <2>3 DEF TypeOK, StateObjTypes
    <3> QED  BY <3>1, <3>2, <3>3, <3>4
  <2> QED  BY <2>2, <2>3
<1> QED  BY <1>6, <1>7, <1>8, <1>9, <1>10 DEF ElectionInv

LEMMA ElectionBecomeLeader ==
    ASSUME TypeInv, TypeInv', ElectionInv, NEW s \in Server, NEW f \in Server,
           BecomeLeader(s, f)
    PROVE  ElectionInv'
<1> USE DEF TypeInv
<1>1. PICK m \in Arriving(f, s, "REQ_VOTE_RPL") : BecomeLeader(s, f)!(m)
  BY DEF BecomeLeader
<1>2. /\ role[s] = "Candidate" /\ GrantCounts(s, m)
      /\ voteCount[s] + 1 >= Majority
      /\ role' = [role EXCEPT ![s] = "Leader"]
      /\ voteCount' = [voteCount EXCEPT ![s] = 0]
      /\ net' = PushToOthers(Pop(net, f, s), s, Heartbeat(s))
      /\ elected' = elected \cup {<<currTerm[s], s>>}
      /\ UNCHANGED <<currTerm, votedCandidate, votes>>
  BY <1>1 DEF DropStateObject
<1>3. QuietNet(net, net') /\ Loopless(net')
  <2>1. net[f][s] # <<>>  BY ArrivingType
  <2>2. /\ Pop(net, f, s) \in Net /\ QuietNet(net, Pop(net, f, s))
        /\ Loopless(Pop(net, f, s))
    BY <2>1, AfterPop
  <2>3. Heartbeat(s) \in Message /\ Silent(Heartbeat(s))
    BY HeartbeatType, AppendKinds
  <2>4. QuietNet(Pop(net, f, s), net') /\ Loopless(net')
    BY <1>2, <2>2, <2>3, AfterBroadcast
  <2>5. net' \in Net  BY <1>2, <2>2, <2>3, PushToOthersType
  <2> QED  BY <2>2, <2>4, <2>5, QuietTrans
<1>4. TermsAdvance  BY <1>2, TermType DEF TermsAdvance, Term
<1>5. CandidatesKeep
  BY <1>2 DEF CandidatesKeep, TypeOK, ServerTypes, StateObjTypes
<1>6. NoLoop'  BY <1>3 DEF NoLoop, Loopless
<1>7. AsksOnce' /\ GrantsCast'
  BY <1>2, <1>3, <1>4, QuietChannels DEF ElectionInv
<1>8. VotesRemembered' /\ OneVotePerTerm'
  BY <1>2, <1>4, QuietVotes DEF ElectionInv
<1>9. CountedVotes'  BY <1>2, <1>3, <1>5, QuietCounts DEF ElectionInv
<1>10. ElectedByMajority'
  <2>1. PICK V \in SUBSET Server :
          Cardinality(V) = voteCount[s] + 1 /\ VotedBy(V, currTerm[s], s)
    BY <1>2, OneMoreVote
  <2>2. Cardinality(V) >= Majority  BY <1>2, <2>1
  <2> QED  BY <1>2, <2>1, <2>2 DEF ElectionInv, ElectedByMajority, VotedBy
<1> QED  BY <1>6, <1>7, <1>8, <1>9, <1>10 DEF ElectionInv

-----------------------------------------------------------------------------
(* The theorems.                                                           *)

LEMMA ElectionInit == Init => ElectionInv
<1> SUFFICES ASSUME Init PROVE ElectionInv
  OBVIOUS
<1>1. \A i, j \in Server : net[i][j] = <<>>  BY DEF Init
<1>2. \A t \in Term : Asks(<<>>, t) = {} /\ Grants(<<>>, t) = {}
  BY DEF Asks, Grants
<1>3. NoLoop  BY <1>1 DEF NoLoop
<1>4. AsksOnce /\ GrantsCast  BY <1>1, <1>2 DEF AsksOnce, GrantsCast
<1>5. VotesRemembered /\ OneVotePerTerm
  BY DEF Init, VotesRemembered, OneVotePerTerm
<1>6. CountedVotes  BY DEF Init, CountedVotes
<1>7. ElectedByMajority  BY DEF Init, ElectedByMajority
<1> QED  BY <1>3, <1>4, <1>5, <1>6, <1>7 DEF ElectionInv

LEMMA ElectionStutter ==
    ASSUME TypeInv, TypeInv', ElectionInv, UNCHANGED vars
    PROVE  ElectionInv'
<1> USE DEF TypeInv
<1>1. UNCHANGED <<currTerm, votedCandidate, role, voteCount, votes, elected, net>>
  BY DEF vars, serverVars, stateObjVars, electionHist
<1>2. net \in Net /\ Loopless(net)
  BY DEF TypeOK, NetTypes, Net, ElectionInv, NoLoop, Loopless
<1> QED  BY <1>1, <1>2, QuietSame, UnrelatedStep

LEMMA ElectionStep == TypeInv /\ ElectionInv /\ [Next]_vars => ElectionInv'
<1> SUFFICES ASSUME TypeInv, ElectionInv, [Next]_vars PROVE ElectionInv'
  OBVIOUS
<1>1. TypeInv'  BY TypeStep
<1>2. CASE \E s \in Server : BecomeCandidate(s) \/ LeaderHeartbeat(s)
                             \/ LeaderGiveUp(s)
  BY <1>1, <1>2, ElectionBecomeCandidate, ElectionLeaderSends,
     ElectionGiveUpAndDrops
<1>3. CASE \E s \in Server, r \in Request : LeaderTakeRequest(s, r)
  BY <1>1, <1>3, ElectionLeaderSends
<1>4. ASSUME NEW s \in Server, NEW i \in Server,
             CandidateStepDown(s, i) \/ LeaderStepDown(s, i)
      PROVE  ElectionInv'
  <2>1. StepDown(s, i)  BY <1>4 DEF CandidateStepDown, LeaderStepDown
  <2>2. net[i][s] # <<>>
    BY <1>4 DEF CandidateStepDown, LeaderStepDown, Arriving
  <2> QED  BY <1>1, <2>1, <2>2, ElectionStepDown
<1>5. ASSUME NEW s \in Server, NEW i \in Server,
             \/ FollowerVote(s, i) \/ CandidateCountVote(s, i)
             \/ BecomeLeader(s, i)
      PROVE  ElectionInv'
  BY <1>1, <1>5, ElectionFollowerVote, ElectionCountVote, ElectionBecomeLeader
<1>6. ASSUME NEW s \in Server, NEW i \in Server,
             \/ FollowerRejectStale(s, i) \/ FollowerHeartbeat(s, i)
             \/ FollowerAppend(s, i)
             \/ LeaderNoteAccept(s, i) \/ LeaderCountAccept(s, i)
             \/ LeaderCommit(s, i) \/ LeaderRetry(s, i)
             \/ Ignore(s, i) \/ Lose(i, s)
      PROVE  ElectionInv'
  BY <1>1, <1>6, ElectionFollowerAppends, ElectionLeaderReceives,
     ElectionGiveUpAndDrops
<1>7. CASE UNCHANGED vars  BY <1>1, <1>7, ElectionStutter
<1> QED  BY <1>2, <1>3, <1>4, <1>5, <1>6, <1>7 DEF Next

\* Two majorities have a server in common.
LEMMA MajoritiesMeet ==
    ASSUME NEW V \in SUBSET Server, NEW W \in SUBSET Server,
           Cardinality(V) >= Majority, Cardinality(W) >= Majority
    PROVE  V \cap W # {}
<1>1. /\ IsFiniteSet(V) /\ Cardinality(V) \in Nat
      /\ IsFiniteSet(W) /\ Cardinality(W) \in Nat
      /\ Cardinality(Server) \in Nat
  BY ServerAssumption, FS_Subset, FS_CardinalityType
<1>2. SUFFICES ASSUME V \cap W = {} PROVE FALSE
  OBVIOUS
<1>3. Cardinality(V \cup W) = Cardinality(V) + Cardinality(W)
  <2>1. Cardinality(V \cup W)
          = Cardinality(V) + Cardinality(W) - Cardinality(V \cap W)
    BY <1>1, FS_Union
  <2>2. Cardinality(V \cap W) = 0  BY <1>2, FS_EmptySet
  <2> QED  BY <1>1, <2>1, <2>2
<1>4. Cardinality(V \cup W) <= Cardinality(Server)
  <2>1. V \cup W \subseteq Server  OBVIOUS
  <2> QED  BY <2>1, ServerAssumption, FS_Subset
<1>5. \A n, v, w \in Nat :
        v >= n \div 2 + 1 /\ w >= n \div 2 + 1 => ~(v + w <= n)
  OBVIOUS
<1> QED  BY <1>1, <1>3, <1>4, <1>5 DEF Majority

LEMMA ElectionImplies == TypeInv /\ ElectionInv => ElectionSafety
<1> SUFFICES ASSUME TypeInv, ElectionInv,
                    NEW e1 \in elected, NEW e2 \in elected, e1[1] = e2[1]
             PROVE  e1 = e2
  BY DEF ElectionSafety
<1>1. PICK t \in Term, c \in Server : e1 = <<t, c>>
  BY DEF TypeInv, TypeOK, HistoryTypes
<1>2. PICK d \in Server : e2 = <<t, d>>
  BY <1>1 DEF TypeInv, TypeOK, HistoryTypes
<1>3. PICK V \in SUBSET Server :
        Cardinality(V) >= Majority /\ VotedBy(V, t, c)
  BY <1>1 DEF ElectionInv, ElectedByMajority
<1>4. PICK W \in SUBSET Server :
        Cardinality(W) >= Majority /\ VotedBy(W, t, d)
  BY <1>2 DEF ElectionInv, ElectedByMajority
<1>5. PICK f \in V \cap W : TRUE  BY <1>3, <1>4, MajoritiesMeet
<1>6. <<t, f, c>> \in votes /\ <<t, f, d>> \in votes
  BY <1>3, <1>4, <1>5 DEF VotedBy
<1>7. c = d  BY <1>6 DEF ElectionInv, OneVotePerTerm
<1> QED  BY <1>1, <1>2, <1>7

\* A voter votes once in a term and its vote is counted once, whatever is lost
\* or late: the vote handler, the vote count and the majority test of state.cpp.
THEOREM ElectionInvariant == Spec => []ElectionInv
BY ElectionInit, ElectionStep, TypeCorrect, PTL DEF Spec

\* At most one server is leader in a term, for any number of servers, terms,
\* requests and messages.
THEOREM ElectionSafe == Spec => []ElectionSafety
BY ElectionInvariant, TypeCorrect, ElectionImplies, PTL

HIDE BoundAssumption
HIDE NoneAssumption
HIDE LeaderAssumption
HIDE ServerAssumption

-----------------------------------------------------------------------------
(* Appends under way.                                                      *)

LEMMA OffersIn ==
    ASSUME NEW n, NEW m
    PROVE  m \in Offers(n) <=>
                /\ m.type = "APP_ENTR_RPC"
                /\ \E i, j \in Server : \E k \in DOMAIN n[i][j] : m = n[i][j][k]
<1>1. m \in Offers(n) <=>
        /\ m.type = "APP_ENTR_RPC"
        /\ \E p \in Server \X Server : m \in UnderWay(n[p[1]][p[2]])
  BY Zenon DEF Offers
<1>2. (\E p \in Server \X Server : m \in UnderWay(n[p[1]][p[2]]))
        <=> \E i, j \in Server : m \in UnderWay(n[i][j])
  <2>1. ASSUME NEW i \in Server, NEW j \in Server, m \in UnderWay(n[i][j])
        PROVE  \E p \in Server \X Server : m \in UnderWay(n[p[1]][p[2]])
    <3>1. <<i, j>> \in Server \X Server /\ <<i, j>>[1] = i /\ <<i, j>>[2] = j
      OBVIOUS
    <3> QED  BY <2>1, <3>1
  <2>2. ASSUME NEW p \in Server \X Server, m \in UnderWay(n[p[1]][p[2]])
        PROVE  \E i, j \in Server : m \in UnderWay(n[i][j])
    BY <2>2
  <2> QED  BY <2>1, <2>2
<1>3. \A q : m \in UnderWay(q) <=> \E k \in DOMAIN q : m = q[k]
  BY Zenon DEF UnderWay
<1> QED  BY <1>1, <1>2, <1>3, Zenon

LEMMA OffersPop ==
    ASSUME NEW n \in Net, NEW i \in Server, NEW j \in Server, n[i][j] # <<>>
    PROVE  Offers(Pop(n, i, j)) \subseteq Offers(n)
<1> SUFFICES ASSUME NEW a \in Server, NEW b \in Server,
                    NEW k \in DOMAIN Pop(n, i, j)[a][b]
             PROVE  \E l \in DOMAIN n[a][b] : Pop(n, i, j)[a][b][k] = n[a][b][l]
  BY OffersIn
<1>1. n[a][b] \in Seq(Message)  BY DEF Net
<1>2. CASE a = i /\ b = j
  <2>1. Pop(n, i, j)[a][b] = Tail(n[a][b])  BY <1>2 DEF Pop, Net
  <2>2. k + 1 \in DOMAIN n[a][b] /\ Tail(n[a][b])[k] = n[a][b][k + 1]
    BY <1>1, <1>2, <2>1
  <2> QED  BY <2>1, <2>2
<1>3. CASE ~(a = i /\ b = j)
  <2>1. Pop(n, i, j)[a][b] = n[a][b]  BY <1>3 DEF Pop, Net
  <2> QED  BY <2>1
<1> QED  BY <1>2, <1>3

LEMMA OffersPush ==
    ASSUME NEW n \in Net, NEW i \in Server, NEW j \in Server, NEW m \in Message
    PROVE  Offers(Push(n, i, j, m)) \subseteq Offers(n) \cup {m}
<1> SUFFICES ASSUME NEW a \in Server, NEW b \in Server,
                    NEW k \in DOMAIN Push(n, i, j, m)[a][b],
                    Push(n, i, j, m)[a][b][k] # m
             PROVE  \E l \in DOMAIN n[a][b] : Push(n, i, j, m)[a][b][k] = n[a][b][l]
  BY OffersIn
<1>1. n[a][b] \in Seq(Message)  BY DEF Net
<1>2. CASE a = i /\ b = j
  <2>1. Push(n, i, j, m)[a][b] = Append(n[a][b], m)  BY <1>2 DEF Push, Net
  <2>2. k \in DOMAIN n[a][b] /\ Append(n[a][b], m)[k] = n[a][b][k]
    BY <1>1, <2>1
  <2> QED  BY <2>1, <2>2
<1>3. CASE ~(a = i /\ b = j)
  <2>1. Push(n, i, j, m)[a][b] = n[a][b]  BY <1>3 DEF Push, Net
  <2> QED  BY <2>1
<1> QED  BY <1>2, <1>3

LEMMA OffersPushToOthers ==
    ASSUME NEW n \in Net, NEW i \in Server, NEW m \in Message
    PROVE  Offers(PushToOthers(n, i, m)) \subseteq Offers(n) \cup {m}
<1> SUFFICES ASSUME NEW a \in Server, NEW b \in Server,
                    NEW k \in DOMAIN PushToOthers(n, i, m)[a][b],
                    PushToOthers(n, i, m)[a][b][k] # m
             PROVE  \E l \in DOMAIN n[a][b] :
                        PushToOthers(n, i, m)[a][b][k] = n[a][b][l]
  BY OffersIn
<1>1. n[a][b] \in Seq(Message)  BY DEF Net
<1>2. PushToOthers(n, i, m)[a][b] \in {n[a][b], Append(n[a][b], m)}
  BY DEF PushToOthers, Net
<1>3. CASE PushToOthers(n, i, m)[a][b] = Append(n[a][b], m)
  <2>1. k \in DOMAIN n[a][b] /\ Append(n[a][b], m)[k] = n[a][b][k]
    BY <1>1, <1>3
  <2> QED  BY <1>3, <2>1
<1> QED  BY <1>2, <1>3

-----------------------------------------------------------------------------
(* Links.                                                                  *)

LEMMA ChainLinksIn ==
    ASSUME NEW log, NEW l
    PROVE  l \in ChainLinks(log) <=>
                \E k \in DOMAIN log : l = Link(k, log[k], TermBefore(log, k))
BY Zenon DEF ChainLinks

LEMMA OfferLinksIn ==
    ASSUME NEW m, NEW l
    PROVE  l \in OfferLinks(m) <=>
                \E e \in DOMAIN m.entries :
                    l = Link(m.prevLogIndex + 1 + e, m.entries[e],
                             OfferedBefore(m, e))
BY Zenon DEF OfferLinks

LEMMA LinksIn ==
    ASSUME NEW l
    PROVE  l \in Links <=>
                \/ \E s \in Server : l \in ChainLinks(bcLog[s])
                \/ \E m \in Offers(net) : l \in OfferLinks(m)
BY Zenon DEF Links

\* What a step can do without making a link.
LEMMA LinksKept ==
    ASSUME \A s \in Server : ChainLinks(bcLog'[s]) \subseteq Links,
           \A o \in Offers(net') : o \in Offers(net) \/ OfferLinks(o) \subseteq Links
    PROVE  Links' \subseteq Links
<1>1. \A o \in Offers(net') : OfferLinks(o) \subseteq Links  BY LinksIn
<1> SUFFICES ASSUME NEW l \in Links' PROVE l \in Links
  OBVIOUS
<1>2. \/ \E s \in Server : l \in ChainLinks(bcLog'[s])
      \/ \E o \in Offers(net') : l \in OfferLinks(o)
  BY Zenon DEF Links
<1> QED  BY <1>1, <1>2

\* A leader offers links of its chain only.
LEMMA OfferFromChain ==
    ASSUME NEW s \in Server, NEW log \in Seq(Block), NEW prev \in Index,
           prev <= LastIndex(log)
    PROVE  OfferLinks(AppendFrom(s, log, prev)) \subseteq ChainLinks(log)
<1> DEFINE m == AppendFrom(s, log, prev)
<1>1. prev + 1 \in 0 .. Len(log) /\ prev \in Int /\ prev >= -1
  BY DEF Index, LastIndex
<1>2. /\ m.entries = SubSeq(log, prev + 2, Len(log)) /\ m.prevLogIndex = prev
      /\ m.prevLogTerm = IF prev = -1 THEN 0 ELSE log[prev + 1].term
  BY <1>1 DEF AppendFrom, EntriesFrom, BlockAt
<1>3. /\ DOMAIN m.entries = 1 .. Len(log) - prev - 1
      /\ \A e \in 1 .. Len(log) - prev - 1 : m.entries[e] = log[prev + 1 + e]
  <2> DEFINE t == SubSeq(log, prev + 2, Len(log))
  <2>1. DOMAIN t = 1 .. Len(log) - prev - 1  BY ONLY <1>1
  <2>2. ASSUME NEW e \in 1 .. Len(log) - prev - 1
        PROVE  t[e] = log[prev + 1 + e]
    BY ONLY <1>1, <2>2
  <2> HIDE DEF t
  <2>3. m.entries = t  BY ONLY <1>2 DEF t
  <2> HIDE DEF m
  <2> QED  BY ONLY <2>1, <2>2, <2>3
<1> HIDE DEF m
<1>4. ASSUME NEW e \in DOMAIN m.entries
      PROVE  Link(m.prevLogIndex + 1 + e, m.entries[e], OfferedBefore(m, e))
                \in ChainLinks(log)
  <2> DEFINE k == prev + 1 + e
             b == k - 1
  <2>1. /\ e \in 1 .. Len(log) - prev - 1 /\ Len(log) \in Nat
        /\ k = m.prevLogIndex + 1 + e
    <3>1. e \in 1 .. Len(log) - prev - 1 /\ Len(log) \in Nat  BY <1>3
    <3>2. m.prevLogIndex = prev  BY <1>2
    <3> QED  BY <3>1, <3>2
  <2>2. k \in DOMAIN log /\ log[k] = m.entries[e]
    <3>1. k \in 1 .. Len(log)  BY <1>1, <2>1
    <3> QED  BY <1>3, <2>1, <3>1
  <2>3. CASE e > 1
    <3>1. e - 1 \in 1 .. Len(log) - prev - 1 /\ prev + 1 + (e - 1) = b /\ k # 1
      BY <1>1, <2>1, <2>3
    <3>2. m.entries[e - 1] = log[b]
      <4>1. m.entries[e - 1] = log[prev + 1 + (e - 1)]  BY <1>3, <3>1
      <4> QED  BY <3>1, <4>1
    <3>3. OfferedBefore(m, e) = m.entries[e - 1].term
      BY <2>3 DEF OfferedBefore
    <3>4. TermBefore(log, k) = log[b].term  BY <3>1 DEF TermBefore
    <3> QED  BY <2>1, <2>2, <3>2, <3>3, <3>4, ChainLinksIn
  <2>4. CASE e = 1
    <3>1. (k = 1 <=> prev = -1) /\ b = prev + 1  BY <1>1, <2>4
    <3>2. OfferedBefore(m, e) = IF prev = -1 THEN 0 ELSE log[b].term
      BY <1>2, <2>4, <3>1 DEF OfferedBefore
    <3>3. TermBefore(log, k) = IF k = 1 THEN 0 ELSE log[b].term
      BY DEF TermBefore
    <3> QED  BY <2>1, <2>2, <3>1, <3>2, <3>3, ChainLinksIn
  <2> QED  BY <2>1, <2>3, <2>4
<1> QED  BY <1>4, OfferLinksIn DEF m

\* Where the blocks of a chain are after clean_up_blocks.
LEMMA CleanUpShape ==
    ASSUME NEW log \in Seq(Block), NEW m \in AppendRpc, PrevMatches(log, m),
           NEW p, p = m.prevLogIndex + 1,
           NEW new, new = CleanUpBlocks(log, p, m.entries)
    PROVE  /\ p \in 0 .. Len(log) /\ p \in Nat /\ Len(m.entries) \in Nat
           /\ p # 0 => log[p].term = m.prevLogTerm
           /\ new \in Seq(Block) /\ Len(new) = p + Len(m.entries)
           /\ DOMAIN new = 1 .. p + Len(m.entries)
           /\ \A k \in 1 .. p : new[k] = log[k]
           /\ \A e \in 1 .. Len(m.entries) : new[p + e] = m.entries[e]
<1>1. p \in 0 .. Len(log) /\ m.entries \in Seq(Block)
      /\ (p # 0 => log[p].term = m.prevLogTerm)
  <2>1. m.prevLogIndex \in Index /\ m.prevLogIndex <= Len(log) - 1
        /\ m.entries \in Seq(Block)
        /\ (m.prevLogIndex = -1 \/ log[m.prevLogIndex + 1].term = m.prevLogTerm)
    BY DEF PrevMatches, AppendRpc, LastIndex, BlockAt
  <2> QED  BY <2>1 DEF Index
<1> DEFINE old == SubSeq(log, 1, p)
           tail == m.entries
<1>2. old \in Seq(Block) /\ Len(old) = p /\ \A k \in 1 .. p : old[k] = log[k]
  BY <1>1
<1>3. new = old \o tail  BY DEF CleanUpBlocks
<1>4. tail \in Seq(Block) /\ p \in Nat /\ Len(tail) \in Nat  BY <1>1
<1> HIDE DEF old, tail
<1>5. new \in Seq(Block) /\ Len(new) = p + Len(tail)
      /\ \A i \in 1 .. Len(new) :
          new[i] = IF i <= Len(old) THEN old[i] ELSE tail[i - Len(old)]
  <2>1. old \in Seq(Block) /\ tail \in Seq(Block) /\ Len(old) = p
        /\ p \in Nat /\ Len(tail) \in Nat
    BY <1>2, <1>4
  <2>2. /\ old \o tail \in Seq(Block)
        /\ Len(old \o tail) = Len(old) + Len(tail)
        /\ \A i \in 1 .. Len(old) + Len(tail) : (old \o tail)[i] =
                IF i <= Len(old) THEN old[i] ELSE tail[i - Len(old)]
    BY <2>1, ConcatProperties
  <2>3. /\ new \in Seq(Block) /\ Len(new) = Len(old) + Len(tail)
        /\ \A i \in 1 .. Len(old) + Len(tail) :
                new[i] = IF i <= Len(old) THEN old[i] ELSE tail[i - Len(old)]
    BY <1>3, <2>2, Zenon
  <2>4. Len(old) + Len(tail) = p + Len(tail)  BY <2>1
  <2> QED  BY <2>3, <2>4, Zenon
<1>6. DOMAIN new = 1 .. p + Len(tail)  BY <1>5
<1>7. \A k \in 1 .. p : new[k] = log[k]
  <2>1. \A k \in 1 .. p : k \in 1 .. Len(new) /\ k <= Len(old)
    BY <1>2, <1>4, <1>5
  <2>2. \A k \in 1 .. p : new[k] = old[k]  BY <1>5, <2>1
  <2> QED  BY <1>2, <2>2
<1>8. \A e \in 1 .. Len(tail) : new[p + e] = tail[e]
  <2> SUFFICES ASSUME NEW e \in 1 .. Len(tail)
               PROVE  new[p + e] = tail[e]
    OBVIOUS
  <2> DEFINE i == p + e
             j == i - Len(old)
  <2>1. i \in 1 .. Len(new) /\ ~(i <= Len(old)) /\ j = e
    BY <1>2, <1>4, <1>5
  <2>2. new[i] = IF i <= Len(old) THEN old[i] ELSE tail[j]  BY <1>5, <2>1
  <2> HIDE DEF j
  <2> QED  BY <2>1, <2>2
<1> QED  BY <1>1, <1>4, <1>5, <1>6, <1>7, <1>8 DEF tail

\* A follower's chain after an append has links of its chain before and links
\* that were offered.
LEMMA CleanUpLinks ==
    ASSUME NEW log \in Seq(Block), NEW m \in AppendRpc, PrevMatches(log, m)
    PROVE  ChainLinks(CleanUpBlocks(log, m.prevLogIndex + 1, m.entries))
                \subseteq ChainLinks(log) \cup OfferLinks(m)
<1> DEFINE p == m.prevLogIndex + 1
           new == CleanUpBlocks(log, p, m.entries)
<1>2. m.entries \in Seq(Block) /\ m.prevLogIndex \in Int
  BY DEF AppendRpc, Index
<1>3. p = m.prevLogIndex + 1 /\ new = CleanUpBlocks(log, p, m.entries)
  OBVIOUS
<1> HIDE DEF p, new
<1>4. /\ p \in 0 .. Len(log)
      /\ (p # 0 => log[p].term = m.prevLogTerm)
      /\ DOMAIN new = 1 .. p + Len(m.entries)
      /\ \A k \in 1 .. p : new[k] = log[k]
      /\ \A e \in 1 .. Len(m.entries) : new[p + e] = m.entries[e]
  BY <1>3, CleanUpShape
<1>1. p \in 0 .. Len(log) /\ m.prevLogIndex = p - 1 /\ m.entries \in Seq(Block)
      /\ (p # 0 => log[p].term = m.prevLogTerm)
  BY <1>2, <1>3, <1>4
<1>5. ASSUME NEW k \in DOMAIN new
      PROVE  Link(k, new[k], TermBefore(new, k)) \in ChainLinks(log) \cup OfferLinks(m)
  <2>1. k \in 1 .. p + Len(m.entries) /\ p \in Nat /\ Len(m.entries) \in Nat
    BY <1>1, <1>4
  <2>2. CASE k <= p
    <3>1. k \in DOMAIN log /\ new[k] = log[k]
          /\ (k # 1 => k - 1 \in 1 .. p)
      BY <1>1, <1>4, <2>1, <2>2
    <3>2. TermBefore(new, k) = TermBefore(log, k)
      BY <1>4, <3>1 DEF TermBefore
    <3> QED  BY <3>1, <3>2, ChainLinksIn
  <2>3. CASE k > p
    <3> DEFINE e == k - p
    <3>1. e \in 1 .. Len(m.entries) /\ k = p + e /\ k = m.prevLogIndex + 1 + e
      BY <1>1, <2>1, <2>3
    <3>2. new[k] = m.entries[e] /\ e \in DOMAIN m.entries
      BY <1>1, <1>4, <3>1
    <3> HIDE DEF e
    <3>3. TermBefore(new, k) = OfferedBefore(m, e)
      <4>1. CASE e > 1
        <5>1. k # 1 /\ k - 1 = p + (e - 1) /\ e - 1 \in 1 .. Len(m.entries)
          BY <2>1, <3>1, <4>1
        <5>2. new[k - 1] = m.entries[e - 1]  BY <1>4, <5>1
        <5> QED  BY <4>1, <5>1, <5>2 DEF TermBefore, OfferedBefore
      <4>2. CASE e = 1 /\ p = 0
        BY <1>1, <3>1, <4>2 DEF TermBefore, OfferedBefore
      <4>3. CASE e = 1 /\ p # 0
        <5>1. k # 1 /\ k - 1 = p /\ p \in 1 .. p /\ m.prevLogIndex # -1
          BY <1>1, <2>1, <3>1, <4>3
        <5>2. new[k - 1].term = m.prevLogTerm  BY <1>1, <1>4, <4>3, <5>1
        <5> QED  BY <4>3, <5>1, <5>2 DEF TermBefore, OfferedBefore
      <4> QED  BY <3>1, <4>1, <4>2, <4>3
    <3> QED  BY <3>1, <3>2, <3>3, OfferLinksIn
  <2> QED  BY <2>1, <2>2, <2>3
<1> QED  BY <1>5, ChainLinksIn DEF new, p

-----------------------------------------------------------------------------
(* Steps that make no link.                                                *)

\* Nobody becomes a leader, and leaders stay what they are.
LeadersStay ==
    /\ elected' = elected
    /\ \A q \in Server :
        /\ currTerm[q] <= currTerm'[q]
        /\ role'[q] = "Leader" =>
            role[q] = "Leader" /\ currTerm'[q] = currTerm[q] /\ bcLog'[q] = bcLog[q]
        /\ role'[q] = "Candidate" =>
            role[q] = "Candidate" \/ currTerm[q] < currTerm'[q]

LEMMA LogFrame ==
    ASSUME TypeOK, TypeOK', LogInv, LeadersStay, Links' \subseteq Links
    PROVE  LogInv'
<1> USE DEF LogInv, LeadersStay
<1>1. LinkUnique'  BY DEF LinkUnique
<1>2. LinksElected'  BY DEF LinksElected
<1>3. LeaderHasLinks'  BY DEF LeaderHasLinks
<1>4. LeaderElected'  BY DEF LeaderElected
<1>5. ElectedPast'
  <2> SUFFICES ASSUME NEW s \in Server, NEW t \in Term, <<t, s>> \in elected
               PROVE  t <= currTerm'[s]
                      /\ (role'[s] = "Candidate" => t < currTerm'[s])
    BY DEF ElectedPast
  <2>1. t \in Int /\ currTerm[s] \in Int /\ currTerm'[s] \in Int
    BY DEF TypeOK, ServerTypes, Term
  <2>2. t <= currTerm[s] /\ (role[s] = "Candidate" => t < currTerm[s])
    BY DEF ElectedPast
  <2>3. currTerm[s] <= currTerm'[s]
        /\ (role'[s] = "Candidate" =>
                role[s] = "Candidate" \/ currTerm[s] < currTerm'[s])
    OBVIOUS
  <2> HIDE DEF LogInv, LeadersStay
  <2> QED  BY <2>1, <2>2, <2>3
<1> QED  BY <1>1, <1>2, <1>3, <1>4, <1>5

\* Chains stay, and append RPCs put on a channel offer links there are.
LEMMA QuietChains ==
    ASSUME TypeOK, TypeOK', LogInv, LeadersStay, bcLog' = bcLog,
           \A o \in Offers(net') : o \in Offers(net) \/ OfferLinks(o) \subseteq Links
    PROVE  LogInv'
<1>1. \A s \in Server : ChainLinks(bcLog'[s]) \subseteq Links  BY LinksIn
<1>2. Links' \subseteq Links  BY <1>1, LinksKept
<1> QED  BY <1>2, LogFrame

\* A message is taken from a channel.
LEMMA QuietReceive ==
    ASSUME TypeOK, TypeOK', LogInv, LeadersStay, bcLog' = bcLog,
           NEW i \in Server, NEW j \in Server,
           net[i][j] # <<>>, net' = Pop(net, i, j)
    PROVE  LogInv'
<1>1. net \in Net  BY DEF TypeOK, NetTypes, Net
<1>2. Offers(net') \subseteq Offers(net)  BY <1>1, OffersPop
<1> QED  BY <1>2, QuietChains

\* A message is taken and answered.
LEMMA OffersReply ==
    ASSUME TypeOK, NEW i \in Server, NEW s \in Server, NEW m \in Message,
           net[i][s] # <<>>, net' = Push(Pop(net, i, s), s, i, m)
    PROVE  Offers(net') \subseteq Offers(net) \cup {m}
<1>1. net \in Net  BY DEF TypeOK, NetTypes, Net
<1>2. Pop(net, i, s) \in Net  BY <1>1, PopType
<1>3. Offers(Pop(net, i, s)) \subseteq Offers(net)  BY <1>1, OffersPop
<1>4. Offers(net') \subseteq Offers(Pop(net, i, s)) \cup {m}
  BY <1>2, OffersPush
<1> QED  BY <1>3, <1>4

LEMMA QuietReply ==
    ASSUME TypeOK, TypeOK', LogInv, LeadersStay, bcLog' = bcLog,
           NEW i \in Server, NEW s \in Server, NEW m \in Message,
           net[i][s] # <<>>, net' = Push(Pop(net, i, s), s, i, m),
           m.type = "APP_ENTR_RPC" => OfferLinks(m) \subseteq Links
    PROVE  LogInv'
<1>1. Offers(net') \subseteq Offers(net) \cup {m}  BY OffersReply
<1>2. \A o \in Offers(net') : o.type = "APP_ENTR_RPC"  BY OffersIn
<1>3. \A o \in Offers(net') : o \in Offers(net) \/ OfferLinks(o) \subseteq Links
  BY <1>1, <1>2
<1> QED  BY <1>3, QuietChains

\* A message to all others.
LEMMA QuietBroadcast ==
    ASSUME TypeOK, TypeOK', LogInv, LeadersStay, bcLog' = bcLog,
           NEW s \in Server, NEW m \in Message, net' = PushToOthers(net, s, m),
           m.type = "APP_ENTR_RPC" => OfferLinks(m) \subseteq Links
    PROVE  LogInv'
<1>1. net \in Net  BY DEF TypeOK, NetTypes, Net
<1>2. Offers(net') \subseteq Offers(net) \cup {m}  BY <1>1, OffersPushToOthers
<1>3. \A o \in Offers(net') : o.type = "APP_ENTR_RPC"  BY OffersIn
<1>4. \A o \in Offers(net') : o \in Offers(net) \/ OfferLinks(o) \subseteq Links
  BY <1>2, <1>3
<1> QED  BY <1>4, QuietChains

LEMMA HeartbeatOffers ==
    ASSUME NEW s \in Server
    PROVE  OfferLinks(Heartbeat(s)) = {}
<1>1. Heartbeat(s).entries = <<>> /\ DOMAIN <<>> = {}  BY DEF Heartbeat
<1>2. ASSUME NEW l PROVE l \notin OfferLinks(Heartbeat(s))
  BY <1>1, OfferLinksIn
<1> QED  BY <1>2

-----------------------------------------------------------------------------
(* One lemma for each kind of step.                                        *)

\* Nobody's role, term or chain changes.
LEMMA AllStay ==
    ASSUME TypeOK, UNCHANGED <<role, currTerm, bcLog, elected>>
    PROVE  LeadersStay
BY DEF LeadersStay, TypeOK, ServerTypes, Term

\* A follower adopts a term.
LEMMA FollowersStay ==
    ASSUME TypeOK, NEW s \in Server, role[s] = "Follower", NEW t \in Term,
           t >= currTerm[s], currTerm' = [currTerm EXCEPT ![s] = t],
           UNCHANGED <<role, elected>>,
           \A q \in Server \ {s} : bcLog'[q] = bcLog[q]
    PROVE  LeadersStay
<1> SUFFICES ASSUME NEW q \in Server
             PROVE  /\ currTerm[q] <= currTerm'[q]
                    /\ q # s => currTerm'[q] = currTerm[q]
  BY DEF LeadersStay
<1>1. currTerm[q] \in Int /\ t \in Int  BY DEF TypeOK, ServerTypes, Term
<1>2. currTerm'[q] = IF q = s THEN t ELSE currTerm[q]
  BY DEF TypeOK, ServerTypes
<1> QED  BY <1>1, <1>2

LEMMA LogBecomeCandidate ==
    ASSUME TypeInv, TypeInv', LogInv, NEW s \in Server, BecomeCandidate(s)
    PROVE  LogInv'
<1> USE DEF TypeInv, BecomeCandidate
<1> DEFINE m == [type |-> "REQ_VOTE_RPC", term |-> currTerm[s] + 1,
                 lastLogTerm |-> LastTerm(bcLog[s]),
                 lastLogIndex |-> LastIndex(bcLog[s])]
<1>1. m \in Message
  <2>1. bcLog[s] \in Seq(Block)  BY DEF TypeOK, ChainTypes
  <2>2. currTerm[s] + 1 \in Term
    BY DEF TypeOK, ServerTypes, Term, BoundAssumption
  <2> QED  BY <2>1, <2>2, ChainType DEF Message, VoteRpc
<1>2. m.type # "APP_ENTR_RPC" /\ net' = PushToOthers(net, s, m)  OBVIOUS
<1>3. LeadersStay
  <2>1. \A q \in Server : currTerm[q] \in Int  BY DEF TypeOK, ServerTypes, Term
  <2>2. \A q \in Server :
            /\ role'[q] = IF q = s THEN "Candidate" ELSE role[q]
            /\ currTerm'[q] = IF q = s THEN currTerm[s] + 1 ELSE currTerm[q]
    BY DEF TypeOK, ServerTypes
  <2> QED  BY <2>1, <2>2 DEF LeadersStay, chainVars
<1> HIDE DEF m
<1> QED  BY <1>1, <1>2, <1>3, QuietBroadcast DEF chainVars

LEMMA LogLeaderHeartbeat ==
    ASSUME TypeInv, TypeInv', LogInv, NEW s \in Server, LeaderHeartbeat(s)
    PROVE  LogInv'
<1> USE DEF TypeInv, LeaderHeartbeat
<1>1. Heartbeat(s) \in Message  BY HeartbeatType
<1>2. LeadersStay /\ bcLog' = bcLog
  BY AllStay DEF serverVars, chainVars, electionHist
<1> QED  BY <1>1, <1>2, HeartbeatOffers, QuietBroadcast

\* What arrives at s is taken, answered or not, and no chain changes.
LEMMA LogVote ==
    ASSUME TypeInv, TypeInv', LogInv, NEW s \in Server, NEW c \in Server,
           FollowerVote(s, c)
    PROVE  LogInv'
<1> USE DEF TypeInv
<1>1. PICK m \in Arriving(c, s, "REQ_VOTE_RPC") : FollowerVote(s, c)!(m)
  BY DEF FollowerVote
<1> DEFINE grant == GrantsVote(s, c, m)
           term == IF m.term > currTerm[s] THEN m.term ELSE currTerm[s]
           reply == [type |-> "REQ_VOTE_RPL", term |-> term, granted |-> grant]
<1>2. /\ role[s] = "Follower" /\ net' = Push(Pop(net, c, s), s, c, reply)
      /\ currTerm' = [currTerm EXCEPT ![s] = term]
      /\ UNCHANGED <<role, bcLog, elected>>
  BY <1>1 DEF chainVars
<1>3. m \in Message /\ net[c][s] # <<>>  BY ArrivingType
<1>4. m.term \in Term /\ currTerm[s] \in Term
  BY <1>3, MessageKinds DEF TypeOK, ServerTypes
<1>5. term \in Term /\ term >= currTerm[s]  BY <1>4 DEF Term
<1>6. grant \in BOOLEAN  BY DEF GrantsVote
<1> HIDE DEF term, grant
<1>7. reply \in Message /\ reply.type # "APP_ENTR_RPC"
  BY <1>5, <1>6 DEF Message, VoteRpl
<1>8. LeadersStay  BY <1>2, <1>5, FollowersStay
<1> HIDE DEF reply
<1> QED  BY <1>2, <1>3, <1>7, <1>8, QuietReply

LEMMA LogFollower ==
    ASSUME TypeInv, TypeInv', LogInv, NEW s \in Server, NEW i \in Server,
           FollowerRejectStale(s, i) \/ FollowerHeartbeat(s, i)
    PROVE  LogInv'
<1> USE DEF TypeInv
<1>1. PICK m \in Arriving(i, s, "APP_ENTR_RPC") :
        FollowerRejectStale(s, i)!(m) \/ FollowerHeartbeat(s, i)!(m)
  BY DEF FollowerRejectStale, FollowerHeartbeat
<1>2. m \in Message /\ net[i][s] # <<>>  BY ArrivingType
<1>3. m.term \in Term /\ currTerm[s] \in Term
  BY <1>2, MessageKinds DEF TypeOK, ServerTypes
<1>4. PICK t \in Term, ok \in BOOLEAN, hb \in BOOLEAN :
        net' = Push(Pop(net, i, s), s, i, AppendReply(t, ok, hb))
  BY <1>1, <1>3
<1>5. AppendReply(t, ok, hb) \in Message
      /\ AppendReply(t, ok, hb).type # "APP_ENTR_RPC"
  BY AppendReplyType DEF AppendReply
<1>6. CASE FollowerRejectStale(s, i)!(m)
  <2>1. UNCHANGED <<role, currTerm, bcLog, elected>>
    BY <1>6 DEF serverVars, chainVars, electionHist
  <2>2. LeadersStay  BY <2>1, AllStay
  <2> QED  BY <1>2, <1>4, <1>5, <2>1, <2>2, QuietReply
<1>7. CASE FollowerHeartbeat(s, i)!(m)
  <2>1. /\ role[s] = "Follower" /\ m.term >= currTerm[s]
        /\ currTerm' = [currTerm EXCEPT ![s] = m.term]
        /\ UNCHANGED <<role, bcLog, elected>>
    BY <1>7 DEF AdoptTerm, electionHist
  <2>2. LeadersStay  BY <1>3, <2>1, FollowersStay
  <2> QED  BY <1>2, <1>4, <1>5, <2>1, <2>2, QuietReply
<1> QED  BY <1>1, <1>6, <1>7

\* Taking or refusing an append makes no link.
LEMMA AppendMakesNoLink ==
    ASSUME TypeInv, NEW s \in Server, NEW i \in Server, FollowerAppend(s, i)
    PROVE  Links' \subseteq Links
<1> USE DEF TypeInv
<1>1. PICK m \in Arriving(i, s, "APP_ENTR_RPC") : FollowerAppend(s, i)!(m)
  BY DEF FollowerAppend
<1> DEFINE ok == PrevMatches(bcLog[s], m)
           reply == AppendReply(m.term, ok, FALSE)
<1>2. m \in Message /\ net[i][s] # <<>> /\ m = Head(net[i][s])
      /\ m.type = "APP_ENTR_RPC"
  BY ArrivingType
<1>3. m \in AppendRpc /\ m.term \in Term  BY <1>2, MessageKinds
<1>4. /\ bcLog' = IF ok
                  THEN [bcLog EXCEPT ![s] =
                          CleanUpBlocks(@, m.prevLogIndex + 1, m.entries)]
                  ELSE bcLog
      /\ net' = Push(Pop(net, i, s), s, i, reply)
  BY <1>1
<1>5. ok \in BOOLEAN  BY DEF PrevMatches
<1>6. reply \in Message /\ reply.type # "APP_ENTR_RPC"
  BY <1>3, <1>5, AppendReplyType DEF AppendReply
<1>7. bcLog[s] \in Seq(Block)  BY DEF TypeOK, ChainTypes
<1>8. m \in Offers(net)
  <2>1. 1 \in DOMAIN net[i][s] /\ m = net[i][s][1]
    BY <1>2 DEF TypeOK, NetTypes
  <2> QED  BY <1>2, <2>1, OffersIn
<1>9. ChainLinks(bcLog[s]) \subseteq Links /\ OfferLinks(m) \subseteq Links
  BY <1>8, LinksIn
<1>10. \A q \in Server : ChainLinks(bcLog'[q]) \subseteq Links
  <2>1. CASE ~ok  BY <1>4, <2>1, LinksIn
  <2>2. CASE ok
    <3>1. ChainLinks(CleanUpBlocks(bcLog[s], m.prevLogIndex + 1, m.entries))
            \subseteq Links
      BY <1>3, <1>7, <1>9, <2>2, CleanUpLinks
    <3>2. \A q \in Server : bcLog'[q] =
            IF q = s THEN CleanUpBlocks(bcLog[s], m.prevLogIndex + 1, m.entries)
            ELSE bcLog[q]
      BY <1>4, <2>2 DEF TypeOK, ChainTypes
    <3> QED  BY <3>1, <3>2, LinksIn
  <2> QED  BY <1>5, <2>1, <2>2
<1> HIDE DEF ok, reply
<1>11. \A o \in Offers(net') : o \in Offers(net) \/ OfferLinks(o) \subseteq Links
  BY <1>2, <1>4, <1>6, OffersReply, OffersIn
<1> QED  BY <1>10, <1>11, LinksKept

LEMMA LogFollowerAppend ==
    ASSUME TypeInv, TypeInv', LogInv, NEW s \in Server, NEW i \in Server,
           FollowerAppend(s, i)
    PROVE  LogInv'
<1> USE DEF TypeInv
<1>1. PICK m \in Arriving(i, s, "APP_ENTR_RPC") : FollowerAppend(s, i)!(m)
  BY DEF FollowerAppend
<1>2. m.term \in Term  BY ArrivingType, MessageKinds
<1>3. /\ role[s] = "Follower" /\ m.term >= currTerm[s]
      /\ currTerm' = [currTerm EXCEPT ![s] = m.term]
      /\ UNCHANGED <<role, elected>>
      /\ \A q \in Server \ {s} : bcLog'[q] = bcLog[q]
  BY <1>1 DEF AdoptTerm, electionHist, TypeOK, ChainTypes
<1>4. LeadersStay  BY <1>2, <1>3, FollowersStay
<1> QED  BY <1>4, AppendMakesNoLink, LogFrame

LEMMA LogStepDown ==
    ASSUME TypeInv, TypeInv', LogInv, NEW s \in Server, NEW i \in Server,
           CandidateStepDown(s, i) \/ LeaderStepDown(s, i)
    PROVE  LogInv'
<1> USE DEF TypeInv
<1>1. StepDown(s, i) /\ net[i][s] # <<>>
  BY DEF CandidateStepDown, LeaderStepDown, Arriving
<1>2. /\ role' = [role EXCEPT ![s] = "Follower"] /\ net' = Pop(net, i, s)
      /\ UNCHANGED <<currTerm, bcLog, elected>>
  BY <1>1 DEF StepDown, chainVars, electionHist
<1>3. LeadersStay
  BY <1>2 DEF LeadersStay, TypeOK, ServerTypes, Term
<1> QED  BY <1>1, <1>2, <1>3, QuietReceive

\* Replies that only a candidate or leader's own variables remember.
LEMMA LogReceive ==
    ASSUME TypeInv, TypeInv', LogInv, NEW s \in Server, NEW f \in Server,
           CandidateCountVote(s, f) \/ LeaderNoteAccept(s, f)
               \/ LeaderCountAccept(s, f) \/ LeaderCommit(s, f)
               \/ Ignore(s, f) \/ Lose(f, s)
    PROVE  LogInv'
<1> USE DEF TypeInv
<1>1. net[f][s] # <<>> /\ net' = Pop(net, f, s)
  BY DEF CandidateCountVote, LeaderNoteAccept, LeaderCountAccept, LeaderCommit,
         Ignore, Lose, Arriving
<1>2. UNCHANGED <<role, currTerm, bcLog, elected>>
  BY DEF CandidateCountVote, LeaderNoteAccept, LeaderCountAccept, LeaderCommit,
         Ignore, Lose, serverVars, chainVars, electionHist
<1> QED  BY <1>1, <1>2, AllStay, QuietReceive

\* A retry offers blocks of the leader's chain.
LEMMA LogRetry ==
    ASSUME TypeInv, TypeInv', LogInv, NEW s \in Server, NEW f \in Server,
           LeaderRetry(s, f)
    PROVE  LogInv'
<1> USE DEF TypeInv
<1> DEFINE prev == nextIndex[s][f] - 2
           m == AppendFrom(s, bcLog[s], prev)
<1>1. /\ net[f][s] # <<>>
      /\ UNCHANGED <<role, currTerm, bcLog, elected>>
      /\ IF prev < -1 THEN net' = Pop(net, f, s)
         ELSE net' = Push(Pop(net, f, s), s, f, m)
  BY DEF LeaderRetry, Arriving, serverVars, chainVars, electionHist
<1>2. LeadersStay  BY <1>1, AllStay
<1>3. CASE prev < -1  BY <1>1, <1>2, <1>3, QuietReceive
<1>4. CASE ~(prev < -1)
  <2>1. nextIndex[s][f] \in Int /\ bcLog[s] \in Seq(Block)
        /\ nextIndex[s][f] <= Len(bcLog[s])
    BY DEF TypeOK, StateObjTypes, ChainTypes, LeaderShape
  <2>2. prev \in Index /\ prev <= LastIndex(bcLog[s])
    BY <1>4, <2>1 DEF Index, LastIndex
  <2> HIDE DEF prev
  <2>3. m \in Message  BY <2>1, <2>2, AppendFromType
  <2>4. OfferLinks(m) \subseteq Links
    BY <2>1, <2>2, OfferFromChain, LinksIn
  <2> QED  BY <1>1, <1>2, <1>4, <2>3, <2>4, QuietReply
<1> QED  BY <1>3, <1>4

LEMMA LogGiveUp ==
    ASSUME TypeInv, TypeInv', LogInv, NEW s \in Server, LeaderGiveUp(s)
    PROVE  LogInv'
<1>1. UNCHANGED <<role, currTerm, bcLog, elected, net>>
  BY DEF LeaderGiveUp, serverVars, chainVars, electionHist
<1> QED  BY <1>1, AllStay, QuietChains DEF TypeInv

\* The first leader of a term: no block is of that term yet.
LEMMA LogBecomeLeader ==
    ASSUME TypeInv, TypeInv', LogInv, ElectionSafety',
           NEW s \in Server, NEW f \in Server, BecomeLeader(s, f)
    PROVE  LogInv'
<1> USE DEF TypeInv
<1>1. /\ role[s] = "Candidate" /\ net[f][s] # <<>>
      /\ role' = [role EXCEPT ![s] = "Leader"]
      /\ net' = PushToOthers(Pop(net, f, s), s, Heartbeat(s))
      /\ elected' = elected \cup {<<currTerm[s], s>>}
      /\ UNCHANGED <<currTerm, bcLog>>
  BY DEF BecomeLeader, Arriving, chainVars
<1>2. net \in Net /\ Pop(net, f, s) \in Net
  <2>1. net \in Net  BY DEF TypeOK, NetTypes, Net
  <2> QED  BY <1>1, <2>1, PopType
<1>3. Offers(net') \subseteq Offers(net) \cup {Heartbeat(s)}
  <2>1. Heartbeat(s) \in Message  BY HeartbeatType
  <2>2. Offers(net') \subseteq Offers(Pop(net, f, s)) \cup {Heartbeat(s)}
    BY <1>1, <1>2, <2>1, OffersPushToOthers
  <2>3. Offers(Pop(net, f, s)) \subseteq Offers(net)
    BY <1>1, <1>2, OffersPop
  <2> QED  BY <2>2, <2>3
<1>4. Links' \subseteq Links
  <2>1. \A q \in Server : ChainLinks(bcLog'[q]) \subseteq Links
    BY <1>1, LinksIn
  <2> QED  BY <1>3, <2>1, HeartbeatOffers, LinksKept
<1>5. \A l \in Links : l.block.term # currTerm[s]
  <2> SUFFICES ASSUME NEW l \in Links, l.block.term = currTerm[s]
               PROVE  FALSE
    OBVIOUS
  <2>1. PICK q \in Server : <<currTerm[s], q>> \in elected
    BY DEF LogInv, LinksElected
  <2>2. <<currTerm[s], q>> \in elected' /\ <<currTerm[s], s>> \in elected'
    BY <1>1, <2>1
  <2>3. <<currTerm[s], q>>[1] = <<currTerm[s], s>>[1]  OBVIOUS
  <2>4. <<currTerm[s], q>> = <<currTerm[s], s>>
    BY <2>2, <2>3 DEF ElectionSafety
  <2>5. q = s  BY <2>4
  <2>6. currTerm[s] \in Term /\ currTerm[s] \in Int
    BY DEF TypeOK, ServerTypes, Term
  <2> QED  BY <1>1, <2>1, <2>5, <2>6 DEF LogInv, ElectedPast
<1>6. \A q \in Server : role'[q] = IF q = s THEN "Leader" ELSE role[q]
  BY <1>1 DEF TypeOK, ServerTypes
<1>7. LinkUnique'  BY <1>4 DEF LogInv, LinkUnique
<1>8. LinksElected'  BY <1>1, <1>4 DEF LogInv, LinksElected
<1>9. LeaderHasLinks'
  BY <1>1, <1>4, <1>5, <1>6 DEF LogInv, LeaderHasLinks
<1>10. LeaderElected'  BY <1>1, <1>6 DEF LogInv, LeaderElected
<1>11. ElectedPast'
  <2> SUFFICES ASSUME NEW q \in Server, NEW t \in Term, <<t, q>> \in elected'
               PROVE  t <= currTerm[q]
                      /\ (role'[q] = "Candidate" => t < currTerm[q])
    BY <1>1 DEF ElectedPast
  <2>1. CASE <<t, q>> \in elected
    BY <1>6, <2>1 DEF LogInv, ElectedPast
  <2>2. CASE <<t, q>> = <<currTerm[s], s>>
    <3>1. t = currTerm[s] /\ q = s /\ currTerm[s] \in Int
      BY <2>2 DEF TypeOK, ServerTypes, Term
    <3> QED  BY <1>6, <3>1
  <2> QED  BY <1>1, <2>1, <2>2
<1> QED  BY <1>7, <1>8, <1>9, <1>10, <1>11 DEF LogInv

\* The one step that makes a link: after all others of the leader's term.
LEMMA LogTakeRequest ==
    ASSUME TypeInv, TypeInv', LogInv, ElectionSafety,
           NEW s \in Server, NEW r \in Request, LeaderTakeRequest(s, r)
    PROVE  LogInv'
<1> USE DEF TypeInv
<1> DEFINE b == [term |-> currTerm[s], txn |-> r]
           log == Append(bcLog[s], b)
           n == Len(bcLog[s]) + 1
           new == Link(n, b, TermBefore(log, n))
           m == AppendFrom(s, log, LastIndex(bcLog[s]))
<1>1. /\ role[s] = "Leader"
      /\ bcLog' = [bcLog EXCEPT ![s] = log]
      /\ net' = PushToOthers(net, s, m)
      /\ UNCHANGED <<role, currTerm, elected>>
  BY DEF LeaderTakeRequest, serverVars, electionHist
<1>2. currTerm[s] \in Term /\ bcLog[s] \in Seq(Block) /\ b \in Block
  BY DEF TypeOK, ServerTypes, ChainTypes, Block
<1>3. /\ log \in Seq(Block) /\ LastIndex(bcLog[s]) \in Index
      /\ LastIndex(bcLog[s]) <= LastIndex(log)
  <2>1. Len(bcLog[s]) \in Nat /\ Len(log) = Len(bcLog[s]) + 1
        /\ log \in Seq(Block)
    BY <1>2
  <2> QED  BY <2>1 DEF LastIndex, Index
<1>4. ChainLinks(log) = ChainLinks(bcLog[s]) \cup {new}
  <2>1. /\ Len(bcLog[s]) \in Nat /\ DOMAIN bcLog[s] = 1 .. Len(bcLog[s])
        /\ DOMAIN log = 1 .. n /\ log[n] = b
        /\ \A k \in 1 .. Len(bcLog[s]) : log[k] = bcLog[s][k]
    BY <1>2
  <2> HIDE DEF log, b
  <2>2. \A k \in 1 .. Len(bcLog[s]) :
            TermBefore(log, k) = TermBefore(bcLog[s], k)
    <3> SUFFICES ASSUME NEW k \in 1 .. Len(bcLog[s]), k # 1
                 PROVE  log[k - 1] = bcLog[s][k - 1]
      BY DEF TermBefore
    <3>1. k - 1 \in 1 .. Len(bcLog[s])  BY <2>1
    <3> QED  BY <2>1, <3>1
  <2>3. \A k : k \in 1 .. n <=> k \in 1 .. Len(bcLog[s]) \/ k = n  BY <2>1
  <2> HIDE DEF n
  <2>4. ASSUME NEW l
        PROVE  l \in ChainLinks(log) <=> l \in ChainLinks(bcLog[s]) \/ l = new
    BY <2>1, <2>2, <2>3, ChainLinksIn
  <2> QED  BY <2>4
<1>5. m \in Message /\ OfferLinks(m) \subseteq ChainLinks(log)
  BY <1>2, <1>3, AppendFromType, OfferFromChain
<1>6. \A l \in ChainLinks(bcLog[s]) : l.at # n
  <2>1. \A k \in DOMAIN bcLog[s] : k # n  BY <1>2
  <2> QED  BY <2>1, ChainLinksIn DEF Link
<1>7. new.at = n /\ new.block = b /\ b.term = currTerm[s]  BY DEF Link
<1>8. \A q \in Server : bcLog'[q] = IF q = s THEN log ELSE bcLog[q]
  BY <1>1 DEF TypeOK, ChainTypes
<1> HIDE DEF new, n, m, log, b
<1>9. Links' \subseteq Links \cup {new}
  <2>1. net \in Net  BY DEF TypeOK, NetTypes, Net
  <2>2. Offers(net') \subseteq Offers(net) \cup {m}
    BY <1>1, <1>5, <2>1, OffersPushToOthers
  <2>3. ChainLinks(log) \subseteq Links \cup {new}  BY <1>4, LinksIn
  <2>4. \A o \in Offers(net') : OfferLinks(o) \subseteq Links \cup {new}
    BY <1>5, <2>2, <2>3, LinksIn
  <2>5. \A q \in Server : ChainLinks(bcLog'[q]) \subseteq Links \cup {new}
    BY <1>8, <2>3, LinksIn
  <2> SUFFICES ASSUME NEW l \in Links' PROVE l \in Links \cup {new}
    OBVIOUS
  <2>6. \/ \E q \in Server : l \in ChainLinks(bcLog'[q])
        \/ \E o \in Offers(net') : l \in OfferLinks(o)
    BY Zenon DEF Links
  <2> QED  BY <2>4, <2>5, <2>6
<1>10. \A l \in Links :
            l.block.term = currTerm[s] => l \in ChainLinks(bcLog[s])
  BY <1>1 DEF LogInv, LeaderHasLinks
<1>11. <<currTerm[s], s>> \in elected  BY <1>1 DEF LogInv, LeaderElected
<1>12. LinkUnique'
  <2> SUFFICES ASSUME NEW l1 \in Links', NEW l2 \in Links',
                      l1.at = l2.at, l1.block.term = l2.block.term
               PROVE  l1 = l2
    BY DEF LinkUnique
  <2>1. CASE l1 \in Links /\ l2 \in Links
    BY <2>1 DEF LogInv, LinkUnique
  <2>2. \A l \in Links : l.at = n => l.block.term # currTerm[s]
    BY <1>6, <1>10
  <2> QED  BY <1>7, <1>9, <2>1, <2>2
<1>13. LinksElected'
  BY <1>1, <1>7, <1>9, <1>11 DEF LogInv, LinksElected
<1>14. LeaderHasLinks'
  <2> SUFFICES ASSUME NEW q \in Server, role[q] = "Leader", NEW l \in Links',
                      l.block.term = currTerm[q]
               PROVE  l \in ChainLinks(bcLog'[q])
    BY <1>1 DEF LeaderHasLinks
  <2>1. CASE q = s  BY <1>4, <1>8, <1>9, <1>10, <2>1
  <2>2. CASE q # s
    <3>1. <<currTerm[q], q>> \in elected  BY DEF LogInv, LeaderElected
    <3>2. currTerm[q] # currTerm[s]
      <4>1. <<currTerm[q], q>>[1] = currTerm[q]
            /\ <<currTerm[s], s>>[1] = currTerm[s]
            /\ <<currTerm[q], q>> # <<currTerm[s], s>>
        BY <2>2
      <4> QED  BY <1>11, <3>1, <4>1 DEF ElectionSafety
    <3>3. l \in Links  BY <1>7, <1>9, <3>2
    <3> QED  BY <1>8, <2>2, <3>3 DEF LogInv, LeaderHasLinks
  <2> QED  BY <2>1, <2>2
<1>15. LeaderElected' /\ ElectedPast'
  BY <1>1 DEF LogInv, LeaderElected, ElectedPast
<1> QED  BY <1>12, <1>13, <1>14, <1>15 DEF LogInv

-----------------------------------------------------------------------------
(* The theorems.                                                           *)

LEMMA LogInit == Init => LogInv
<1> SUFFICES ASSUME Init PROVE LogInv
  OBVIOUS
<1>1. \A q \in Server : bcLog[q] = <<>> /\ role[q] = "Follower"  BY DEF Init
<1>2. \A i, j \in Server : net[i][j] = <<>>  BY DEF Init
<1>3. \A q \in Server : ChainLinks(bcLog[q]) = {}
  <2>1. DOMAIN <<>> = {}  OBVIOUS
  <2>2. ASSUME NEW l, NEW q \in Server PROVE l \notin ChainLinks(bcLog[q])
    BY <1>1, <2>1, ChainLinksIn
  <2> QED  BY <2>2
<1>4. Offers(net) = {}
  <2>1. DOMAIN <<>> = {}  OBVIOUS
  <2>2. ASSUME NEW o PROVE o \notin Offers(net)  BY <1>2, <2>1, OffersIn
  <2> QED  BY <2>2
<1>5. \A l : l \notin Links  BY <1>3, <1>4, LinksIn
<1> QED
  BY <1>1, <1>5
  DEF Init, LogInv, LinkUnique, LinksElected, LeaderHasLinks, LeaderElected,
      ElectedPast

LEMMA LogStep ==
    TypeInv /\ TypeInv' /\ ElectionSafety /\ ElectionSafety' /\ LogInv
        /\ [Next]_vars => LogInv'
<1> SUFFICES ASSUME TypeInv, TypeInv', ElectionSafety, ElectionSafety', LogInv,
                    [Next]_vars
             PROVE  LogInv'
  OBVIOUS
<1>1. ASSUME NEW s \in Server,
             BecomeCandidate(s) \/ LeaderHeartbeat(s) \/ LeaderGiveUp(s)
      PROVE  LogInv'
  BY <1>1, LogBecomeCandidate, LogLeaderHeartbeat, LogGiveUp
<1>2. ASSUME NEW s \in Server, NEW r \in Request, LeaderTakeRequest(s, r)
      PROVE  LogInv'
  BY <1>2, LogTakeRequest
<1>3. ASSUME NEW s \in Server, NEW i \in Server,
             \/ FollowerVote(s, i) \/ FollowerRejectStale(s, i)
             \/ FollowerHeartbeat(s, i) \/ FollowerAppend(s, i)
      PROVE  LogInv'
  BY <1>3, LogVote, LogFollower, LogFollowerAppend
<1>4. ASSUME NEW s \in Server, NEW i \in Server,
             \/ CandidateStepDown(s, i) \/ LeaderStepDown(s, i)
             \/ CandidateCountVote(s, i) \/ BecomeLeader(s, i)
             \/ LeaderNoteAccept(s, i) \/ LeaderCountAccept(s, i)
             \/ LeaderCommit(s, i) \/ LeaderRetry(s, i)
             \/ Ignore(s, i) \/ Lose(i, s)
      PROVE  LogInv'
  BY <1>4, LogStepDown, LogReceive, LogBecomeLeader, LogRetry
<1>5. CASE UNCHANGED vars
  <2>1. UNCHANGED <<role, currTerm, bcLog, elected, net>>
    BY <1>5 DEF vars, serverVars, chainVars, electionHist
  <2> QED  BY <2>1, AllStay, QuietChains DEF TypeInv
<1> QED  BY <1>1, <1>2, <1>3, <1>4, <1>5 DEF Next

\* Two chains with blocks of one term at a place have the same blocks before it:
\* the last place below where they differ would have a link like the other's.
LEMMA ChainsAgreeBelow ==
    ASSUME NEW L, \A l1, l2 \in L :
                l1.at = l2.at /\ l1.block.term = l2.block.term => l1 = l2,
           NEW A \in Seq(Block), NEW B \in Seq(Block),
           ChainLinks(A) \subseteq L, ChainLinks(B) \subseteq L,
           NEW k \in DOMAIN A, k \in DOMAIN B, A[k].term = B[k].term,
           NEW j \in 1 .. k
    PROVE  A[j] = B[j]
<1> DEFINE Less == {p \in Nat \X Nat : p[1] < p[2]}
           Bad == {d \in Nat : d < k /\ A[k - d].term # B[k - d].term}
<1>1. /\ k \in Nat /\ k # 0
      /\ \A i \in 1 .. k : i \in DOMAIN A /\ i \in DOMAIN B
  OBVIOUS
<1>2. ASSUME NEW i \in 1 .. k, A[i].term = B[i].term
      PROVE  A[i] = B[i] /\ TermBefore(A, i) = TermBefore(B, i)
  <2> DEFINE l1 == Link(i, A[i], TermBefore(A, i))
             l2 == Link(i, B[i], TermBefore(B, i))
  <2>1. l1 \in L /\ l2 \in L  BY <1>1, ChainLinksIn
  <2>2. l1.at = l2.at /\ l1.block.term = l2.block.term  BY <1>2 DEF Link
  <2>3. l1 = l2
    <3> HIDE DEF l1, l2
    <3> QED  BY <2>1, <2>2
  <2>4. l1.block = l2.block /\ l1.after = l2.after
    <3> HIDE DEF l1, l2
    <3> QED  BY <2>3
  <2> QED  BY <2>4 DEF Link
<1>3. Bad = {}
  <2> SUFFICES ASSUME Bad # {} PROVE FALSE
    OBVIOUS
  <2>1. PICK d \in Bad : \A e \in Bad : ~(<<e, d>> \in Less)
    <3>1. IsWellFoundedOn(Less, Nat)  BY NatLessThanWellFounded DEF OpToRel
    <3>2. Bad \subseteq Nat  OBVIOUS
    <3> HIDE DEF Bad, Less
    <3> QED  BY <3>1, <3>2, WFMin
  <2>2. d \in Nat /\ d < k /\ A[k - d].term # B[k - d].term  OBVIOUS
  <2>3. d # 0
    <3> SUFFICES ASSUME d = 0 PROVE FALSE
      OBVIOUS
    <3>1. k - d = k  BY <1>1
    <3> QED  BY <2>2, <3>1
  <2> DEFINE e == d - 1
             i == k - e
  <2>4. e \in Nat /\ e < d /\ e < k /\ i \in 1 .. k /\ i # 1 /\ i - 1 = k - d
    BY <1>1, <2>2, <2>3, SMTT(30)
  <2>5. e \notin Bad
    <3>1. <<e, d>> \in Nat \X Nat /\ <<e, d>>[1] = e /\ <<e, d>>[2] = d
      BY <2>2, <2>4
    <3>2. <<e, d>> \in Less  BY <2>4, <3>1
    <3> HIDE DEF Bad, Less, e
    <3> QED  BY <2>1, <3>2
  <2>6. A[i].term = B[i].term  BY <2>4, <2>5
  <2>7. TermBefore(A, i) = A[i - 1].term /\ TermBefore(B, i) = B[i - 1].term
    BY <2>4 DEF TermBefore
  <2>8. TermBefore(A, i) = TermBefore(B, i)
    <3> HIDE DEF i
    <3> QED  BY <1>2, <2>4, <2>6
  <2>9. A[k - d].term = B[k - d].term
    <3>1. A[i - 1].term = A[k - d].term /\ B[i - 1].term = B[k - d].term
      BY <2>4
    <3> QED  BY <2>7, <2>8, <3>1
  <2> QED  BY <2>2, <2>9
<1>4. A[j].term = B[j].term
  <2> DEFINE d == k - j
  <2>1. d \in Nat /\ d < k /\ k - d = j  BY <1>1
  <2>2. A[k - d].term = B[k - d].term  BY <1>3, <2>1
  <2>3. A[k - d] = A[j] /\ B[k - d] = B[j]  BY <2>1
  <2> QED  BY <2>2, <2>3
<1> QED  BY <1>2, <1>4

LEMMA LogImplies == TypeInv /\ LogInv => LogMatching
<1> SUFFICES ASSUME TypeInv, LogInv, NEW a \in Server, NEW b \in Server,
                    NEW k \in 1 .. Len(bcLog[a]), k <= Len(bcLog[b]),
                    bcLog[a][k].term = bcLog[b][k].term
             PROVE  SubSeq(bcLog[a], 1, k) = SubSeq(bcLog[b], 1, k)
  BY DEF LogMatching
<1>1. /\ bcLog[a] \in Seq(Block) /\ bcLog[b] \in Seq(Block)
      /\ k \in DOMAIN bcLog[a] /\ k \in DOMAIN bcLog[b] /\ k \in Nat
  BY DEF TypeInv, TypeOK, ChainTypes
<1>2. \A j \in 1 .. k : bcLog[a][j] = bcLog[b][j]
  <2>1. ChainLinks(bcLog[a]) \subseteq Links /\ ChainLinks(bcLog[b]) \subseteq Links
    BY LinksIn
  <2> QED  BY <1>1, <2>1, ChainsAgreeBelow DEF LogInv, LinkUnique
<1> DEFINE A == SubSeq(bcLog[a], 1, k)
           B == SubSeq(bcLog[b], 1, k)
<1>3. /\ A \in Seq(Block) /\ B \in Seq(Block) /\ Len(A) = k /\ Len(B) = k
      /\ \A j \in 1 .. k : A[j] = bcLog[a][j] /\ B[j] = bcLog[b][j]
  BY <1>1
<1> HIDE DEF A, B
<1>4. A = B  BY <1>2, <1>3, SeqEqual
<1> QED  BY <1>4 DEF A, B

\* The invariant of links: add_transaction, clean_up_blocks and the append RPCs of
\* state.cpp, in every reachable state.
THEOREM LogInvariant == Spec => []LogInv
<1>1. Init => LogInv  BY LogInit
<1> QED
  BY <1>1, LogStep, TypeCorrect, ElectionSafe, PTL DEF Spec

\* Blocks of one term at one index are the same block after the same chain,
\* whatever was lost, repeated, cut or offered again.
THEOREM ChainsMatch == Spec => []LogMatching
BY LogInvariant, TypeCorrect, LogImplies, PTL
-----------------------------------------------------------------------------
(* How chains grow.                                                        *)

-----------------------------------------------------------------------------
(* What a step does to the channels.                                       *)

\* Each channel loses its head or nothing, and those of s get m or nothing.
NetMoves(s, m) ==
    \A i, j \in Server : \E d \in {0, 1} : \A k \in DOMAIN net'[i][j] :
        IF k + d \in DOMAIN net[i][j]
        THEN net'[i][j][k] = net[i][j][k + d]
        ELSE /\ i = s /\ net'[i][j][k] = m
             /\ \A l \in DOMAIN net'[i][j] : l <= k

\* What s sends when it sends no blocks.
NoBlocks(s, m) ==
    /\ m.type = "APP_ENTR_RPC" => role'[s] = "Leader" /\ m = Heartbeat(s)'
    /\ m.type = "REQ_VOTE_RPC" => /\ m.lastLogTerm = LastTerm(bcLog[s])
                                 /\ m.lastLogIndex = LastIndex(bcLog[s])

\* A step that touches no chain and sends no blocks.
SteadyStep ==
    /\ UNCHANGED <<bcLog, accepted>>
    /\ elected \subseteq elected'
    /\ \A q \in Server :
        /\ currTerm[q] <= currTerm'[q]
        /\ serving'[q] # None => serving[q] # None /\ currTerm'[q] = currTerm[q]
        /\ role'[q] = "Candidate" => \/ currTerm[q] < currTerm'[q]
                                    \/ /\ role[q] = "Candidate"
                                       /\ currTerm'[q] = currTerm[q]
    /\ \E s \in Server, m \in Message : NetMoves(s, m) /\ NoBlocks(s, m)

\* How one channel may change.
LEMMA OneMorePlace ==
    ASSUME NEW q, NEW r, NEW m, NEW n \in Nat,
           DOMAIN q = 1 .. n, DOMAIN r = 1 .. n + 1,
           \A k \in 1 .. n : r[k] = q[k], r[n + 1] = m
    PROVE  \E d \in {0, 1} : \A k \in DOMAIN r :
                IF k + d \in DOMAIN q THEN r[k] = q[k + d]
                ELSE r[k] = m /\ \A l \in DOMAIN r : l <= k
<1>1. ASSUME NEW k \in DOMAIN r
      PROVE  IF k + 0 \in DOMAIN q THEN r[k] = q[k + 0]
             ELSE r[k] = m /\ \A l \in DOMAIN r : l <= k
  <2>1. k \in 1 .. n \/ k = n + 1  OBVIOUS
  <2>2. k + 0 = k  OBVIOUS
  <2>3. CASE k \in 1 .. n  BY <2>2, <2>3
  <2>4. CASE k = n + 1  BY <2>2, <2>4
  <2> QED  BY <2>1, <2>3, <2>4
<1> QED  BY <1>1

LEMMA ChannelMoves ==
    ASSUME NEW q \in Seq(Message), NEW m \in Message, NEW r,
           \/ r = q
           \/ q # <<>> /\ r = Tail(q)
           \/ r = Append(q, m)
    PROVE  \E d \in {0, 1} : \A k \in DOMAIN r :
                IF k + d \in DOMAIN q THEN r[k] = q[k + d]
                ELSE r = Append(q, m) /\ r[k] = m /\ \A l \in DOMAIN r : l <= k
<1>1. CASE r = q
  <2>1. \A k \in DOMAIN r : k + 0 \in DOMAIN q /\ r[k] = q[k + 0]  BY <1>1
  <2> QED  BY <2>1
<1>2. CASE q # <<>> /\ r = Tail(q)
  <2>1. \A k \in DOMAIN r : k + 1 \in DOMAIN q /\ r[k] = q[k + 1]  BY <1>2
  <2> QED  BY <2>1
<1>3. CASE r = Append(q, m)
  <2>1. DOMAIN r = 1 .. Len(q) + 1 /\ DOMAIN q = 1 .. Len(q) /\ Len(q) \in Nat
    <3>1. DOMAIN Append(q, m) = 1 .. Len(q) + 1  OBVIOUS
    <3> QED  BY <1>3, <3>1
  <2>2. \A k \in 1 .. Len(q) : r[k] = q[k]
    <3>1. \A k \in 1 .. Len(q) : Append(q, m)[k] = q[k]  OBVIOUS
    <3> QED  BY <1>3, <3>1
  <2>3. r[Len(q) + 1] = m
    <3>1. Append(q, m)[Len(q) + 1] = m  OBVIOUS
    <3> QED  BY <1>3, <3>1
  <2>4. \E d \in {0, 1} : \A k \in DOMAIN r :
            IF k + d \in DOMAIN q THEN r[k] = q[k + d]
            ELSE r[k] = m /\ \A l \in DOMAIN r : l <= k
    <3> DEFINE n == Len(q)
    <3>1. n \in Nat /\ DOMAIN q = 1 .. n /\ DOMAIN r = 1 .. n + 1
          /\ (\A k \in 1 .. n : r[k] = q[k]) /\ r[n + 1] = m
      BY <2>1, <2>2, <2>3
    <3> HIDE DEF n
    <3> QED  BY ONLY <3>1, OneMorePlace
  <2> QED  BY <1>3, <2>4
<1> QED  BY <1>1, <1>2, <1>3

\* Channels are told apart before they are looked at.
LEMMA NetMovesFrom ==
    ASSUME TypeOK, NEW s \in Server, NEW m \in Message,
           \A i, j \in Server :
                \/ net'[i][j] = net[i][j]
                \/ net[i][j] # <<>> /\ net'[i][j] = Tail(net[i][j])
                \/ i = s /\ net'[i][j] = Append(net[i][j], m)
    PROVE  NetMoves(s, m)
<1> SUFFICES ASSUME NEW i \in Server, NEW j \in Server
             PROVE  NetMoves(s, m)!(i, j)
  BY DEF NetMoves
<1>1. net[i][j] \in Seq(Message)  BY DEF TypeOK, NetTypes
<1> DEFINE q == net[i][j]
           r == net'[i][j]
<1>2. q \in Seq(Message)  BY <1>1
<1>3. \/ r = q
      \/ q # <<>> /\ r = Tail(q)
      \/ i = s /\ r = Append(q, m)
  OBVIOUS
<1> HIDE DEF q, r
<1>4. CASE i = s
  <2>1. \E d \in {0, 1} : \A k \in DOMAIN r :
            IF k + d \in DOMAIN q THEN r[k] = q[k + d]
            ELSE r = Append(q, m) /\ r[k] = m /\ \A l \in DOMAIN r : l <= k
    BY <1>2, <1>3, ChannelMoves
  <2> QED  BY <1>4, <2>1 DEF q, r
<1>5. CASE i # s
  <2>1. CASE r = q
    <3>1. \A k \in DOMAIN r : k + 0 \in DOMAIN q /\ r[k] = q[k + 0]
      BY <1>2, <2>1
    <3> QED  BY <3>1 DEF q, r
  <2>2. CASE q # <<>> /\ r = Tail(q)
    <3>1. \A k \in DOMAIN r : k + 1 \in DOMAIN q /\ r[k] = q[k + 1]
      BY <1>2, <2>2
    <3> QED  BY <3>1 DEF q, r
  <2> QED  BY <1>3, <1>5, <2>1, <2>2
<1> QED  BY <1>4, <1>5

LEMMA MovesSame ==
    ASSUME TypeOK, net' = net, NEW s \in Server, NEW m \in Message
    PROVE  NetMoves(s, m)
BY NetMovesFrom

LEMMA MovesPop ==
    ASSUME TypeOK, NEW i \in Server, NEW j \in Server, net[i][j] # <<>>,
           net' = Pop(net, i, j), NEW s \in Server, NEW m \in Message
    PROVE  NetMoves(s, m)
<1>1. net \in Net  BY DEF TypeOK, NetTypes, Net
<1>2. \A a, b \in Server :
        net'[a][b] = IF a = i /\ b = j THEN Tail(net[a][b]) ELSE net[a][b]
  BY <1>1, PopAt
<1> QED  BY <1>2, NetMovesFrom

LEMMA MovesReply ==
    ASSUME TypeOK, NoLoop, NEW i \in Server, NEW s \in Server, net[i][s] # <<>>,
           NEW m \in Message, net' = Push(Pop(net, i, s), s, i, m)
    PROVE  NetMoves(s, m)
<1>1. net \in Net  BY DEF TypeOK, NetTypes, Net
<1>2. Pop(net, i, s) \in Net /\ i # s  BY <1>1, PopType DEF NoLoop
<1>3. \A a, b \in Server :
        /\ Pop(net, i, s)[a][b] =
                IF a = i /\ b = s THEN Tail(net[a][b]) ELSE net[a][b]
        /\ net'[a][b] = IF a = s /\ b = i THEN Append(Pop(net, i, s)[a][b], m)
                        ELSE Pop(net, i, s)[a][b]
  BY <1>1, <1>2, PopAt, PushAt
<1>4. ASSUME NEW a \in Server, NEW b \in Server
      PROVE  \/ net'[a][b] = net[a][b]
             \/ net[a][b] # <<>> /\ net'[a][b] = Tail(net[a][b])
             \/ a = s /\ net'[a][b] = Append(net[a][b], m)
  <2>1. CASE a = i /\ b = s
    <3>1. net'[a][b] = Tail(net[a][b])  BY <1>2, <1>3, <2>1
    <3> QED  BY <2>1, <3>1
  <2>2. CASE ~(a = i /\ b = s)
    <3>1. Pop(net, i, s)[a][b] = net[a][b]  BY <1>3, <2>2
    <3> QED  BY <1>3, <3>1
  <2> QED  BY <2>1, <2>2
<1> QED  BY <1>4, NetMovesFrom

LEMMA PushToOthersAt ==
    ASSUME NEW n \in Net, NEW s \in Server, NEW m, NEW a \in Server, NEW b \in Server
    PROVE  PushToOthers(n, s, m)[a][b] =
                IF a = s /\ b # s THEN Append(n[a][b], m) ELSE n[a][b]
BY DEF PushToOthers, Net

LEMMA MovesBroadcast ==
    ASSUME TypeOK, NEW s \in Server, NEW m \in Message,
           net' = PushToOthers(net, s, m)
    PROVE  NetMoves(s, m)
<1>1. net \in Net  BY DEF TypeOK, NetTypes, Net
<1>2. \A a, b \in Server : net'[a][b] =
        IF a = s /\ b # s THEN Append(net[a][b], m) ELSE net[a][b]
  BY <1>1, PushToOthersAt
<1> QED  BY <1>2, NetMovesFrom

LEMMA MovesPopBroadcast ==
    ASSUME TypeOK, NoLoop, NEW f \in Server, NEW s \in Server, net[f][s] # <<>>,
           NEW m \in Message, net' = PushToOthers(Pop(net, f, s), s, m)
    PROVE  NetMoves(s, m)
<1>1. net \in Net  BY DEF TypeOK, NetTypes, Net
<1>2. Pop(net, f, s) \in Net /\ f # s  BY <1>1, PopType DEF NoLoop
<1>3. \A a, b \in Server :
        /\ Pop(net, f, s)[a][b] =
                IF a = f /\ b = s THEN Tail(net[a][b]) ELSE net[a][b]
        /\ net'[a][b] = IF a = s /\ b # s THEN Append(Pop(net, f, s)[a][b], m)
                        ELSE Pop(net, f, s)[a][b]
  BY <1>1, <1>2, PopAt, PushToOthersAt
<1>4. ASSUME NEW a \in Server, NEW b \in Server
      PROVE  \/ net'[a][b] = net[a][b]
             \/ net[a][b] # <<>> /\ net'[a][b] = Tail(net[a][b])
             \/ a = s /\ net'[a][b] = Append(net[a][b], m)
  <2>1. CASE a = f /\ b = s
    <3>1. net'[a][b] = Tail(net[a][b])  BY <1>2, <1>3, <2>1
    <3> QED  BY <2>1, <3>1
  <2>2. CASE ~(a = f /\ b = s)
    <3>1. Pop(net, f, s)[a][b] = net[a][b]  BY <1>3, <2>2
    <3>2. \/ net'[a][b] = net[a][b]
          \/ a = s /\ net'[a][b] = Append(net[a][b], m)
      <4>1. CASE a = s /\ b # s
        <5>1. net'[a][b] = Append(Pop(net, f, s)[a][b], m)  BY <1>3, <4>1
        <5> QED  BY <3>1, <4>1, <5>1
      <4>2. CASE ~(a = s /\ b # s)  BY <1>3, <3>1, <4>2
      <4> QED  BY <4>1, <4>2
    <3> QED  BY <3>2
  <2> QED  BY <2>1, <2>2
<1> QED  BY <1>4, NetMovesFrom

\* What is under way after a step was before, or is the message sent.
LEMMA MovesOffers ==
    ASSUME NEW s \in Server, NEW m, NetMoves(s, m)
    PROVE  \A o \in Offers(net') : o \in Offers(net) \/ o = m
<1> SUFFICES ASSUME NEW o \in Offers(net'), o # m PROVE o \in Offers(net)
  OBVIOUS
<1>1. /\ o.type = "APP_ENTR_RPC"
      /\ \E i, j \in Server : \E k \in DOMAIN net'[i][j] : o = net'[i][j][k]
  BY OffersIn
<1>2. PICK i \in Server, j \in Server : \E k \in DOMAIN net'[i][j] : o = net'[i][j][k]
  BY <1>1
<1>3. PICK k \in DOMAIN net'[i][j] : o = net'[i][j][k]  BY <1>2
<1>4. PICK d \in {0, 1} : \A l \in DOMAIN net'[i][j] :
        IF l + d \in DOMAIN net[i][j] THEN net'[i][j][l] = net[i][j][l + d]
        ELSE net'[i][j][l] = m
  BY DEF NetMoves
<1>5. k + d \in DOMAIN net[i][j] /\ o = net[i][j][k + d]  BY <1>3, <1>4
<1> QED  BY <1>1, <1>5, OffersIn

-----------------------------------------------------------------------------
(* Which steps are quiet.                                                  *)

LEMMA QuietFrom ==
    ASSUME TypeInv, TypeInv', LeadersStay, UNCHANGED <<bcLog, accepted>>,
           \A q \in Server : serving'[q] \in {serving[q], None},
           NEW s \in Server, NEW m \in Message, NetMoves(s, m), NoBlocks(s, m)
    PROVE  SteadyStep
<1>1. elected \subseteq elected' /\ \A q \in Server : currTerm[q] <= currTerm'[q]
  BY DEF LeadersStay
<1>2. \A q \in Server :
        serving'[q] # None => serving[q] # None /\ currTerm'[q] = currTerm[q]
  BY DEF LeadersStay, TypeInv, LeaderShape
<1>3. ASSUME NEW q \in Server, role'[q] = "Candidate"
      PROVE  \/ currTerm[q] < currTerm'[q]
             \/ role[q] = "Candidate" /\ currTerm'[q] = currTerm[q]
  <2>1. currTerm[q] \in Int /\ currTerm'[q] \in Int
    BY DEF TypeInv, TypeOK, ServerTypes, Term
  <2> QED  BY <1>3, <2>1 DEF LeadersStay
<1> QED  BY <1>1, <1>2, <1>3 DEF SteadyStep

LEMMA SomeReply ==
    \E m \in Message : m.type # "APP_ENTR_RPC" /\ m.type # "REQ_VOTE_RPC"
<1>1. 0 \in Term /\ TRUE \in BOOLEAN  BY BoundAssumption DEF Term
<1>2. AppendReply(0, TRUE, TRUE) \in Message  BY <1>1, AppendReplyType
<1>3. AppendReply(0, TRUE, TRUE).type = "APP_ENTR_RPL"  BY DEF AppendReply
<1> QED  BY <1>2, <1>3

\* A message is taken and nothing sent.
LEMMA QuietTaking ==
    ASSUME TypeInv, TypeInv', LeadersStay, UNCHANGED <<bcLog, accepted>>,
           \A q \in Server : serving'[q] \in {serving[q], None},
           NEW i \in Server, NEW j \in Server,
           net[i][j] # <<>>, net' = Pop(net, i, j)
    PROVE  SteadyStep
<1>1. PICK m \in Message : m.type # "APP_ENTR_RPC" /\ m.type # "REQ_VOTE_RPC"
  BY SomeReply
<1>2. NetMoves(i, m)  BY <1>1, MovesPop DEF TypeInv
<1>3. NoBlocks(i, m)  BY <1>1 DEF NoBlocks
<1> QED  BY <1>1, <1>2, <1>3, QuietFrom

LEMMA QuietCandidates ==
    ASSUME TypeInv, TypeInv', NEW s \in Server, BecomeCandidate(s)
    PROVE  SteadyStep
<1> DEFINE m == [type |-> "REQ_VOTE_RPC", term |-> currTerm[s] + 1,
                 lastLogTerm |-> LastTerm(bcLog[s]),
                 lastLogIndex |-> LastIndex(bcLog[s])]
<1>1. m \in Message /\ NoBlocks(s, m)
  <2>1. bcLog[s] \in Seq(Block)  BY DEF TypeInv, TypeOK, ChainTypes
  <2>2. currTerm[s] + 1 \in Term
    BY DEF BecomeCandidate, TypeInv, TypeOK, ServerTypes, Term, BoundAssumption
  <2> QED  BY <2>1, <2>2, ChainType DEF Message, VoteRpc, NoBlocks
<1>2. /\ net' = PushToOthers(net, s, m)
      /\ role' = [role EXCEPT ![s] = "Candidate"]
      /\ currTerm' = [currTerm EXCEPT ![s] = currTerm[s] + 1]
      /\ UNCHANGED <<bcLog, accepted, elected, serving>>
  BY DEF BecomeCandidate, chainVars, commitHist
<1> HIDE DEF m
<1>3. NetMoves(s, m)  BY <1>1, <1>2, MovesBroadcast DEF TypeInv
<1>4. LeadersStay
  <2>1. \A q \in Server : currTerm[q] \in Int
    BY DEF TypeInv, TypeOK, ServerTypes, Term
  <2>2. \A q \in Server :
            /\ role'[q] = IF q = s THEN "Candidate" ELSE role[q]
            /\ currTerm'[q] = IF q = s THEN currTerm[s] + 1 ELSE currTerm[q]
    BY <1>2 DEF TypeInv, TypeOK, ServerTypes
  <2> QED  BY <1>2, <2>1, <2>2 DEF LeadersStay
<1> QED  BY <1>1, <1>2, <1>3, <1>4, QuietFrom

LEMMA QuietLeaders ==
    ASSUME TypeInv, TypeInv', NoLoop, NEW s \in Server,
           LeaderHeartbeat(s) \/ \E f \in Server : BecomeLeader(s, f)
    PROVE  SteadyStep
<1>1. Heartbeat(s) \in Message  BY HeartbeatType DEF TypeInv
<1>2. CASE LeaderHeartbeat(s)
  <2>1. /\ role[s] = "Leader" /\ net' = PushToOthers(net, s, Heartbeat(s))
        /\ UNCHANGED <<role, currTerm, bcLog, committedIndex, serving, elected,
                       accepted>>
    BY <1>2 DEF LeaderHeartbeat, serverVars, chainVars, stateObjVars,
                electionHist, commitHist
  <2>2. NetMoves(s, Heartbeat(s))  BY <1>1, <2>1, MovesBroadcast DEF TypeInv
  <2>3. Heartbeat(s)' = Heartbeat(s) /\ role'[s] = "Leader"
    BY <2>1 DEF Heartbeat
  <2>4. LeadersStay  BY <2>1, AllStay DEF TypeInv
  <2>5. NoBlocks(s, Heartbeat(s))  BY <2>3 DEF NoBlocks, Heartbeat
  <2> QED  BY <1>1, <2>1, <2>2, <2>4, <2>5, QuietFrom
<1>3. ASSUME NEW f \in Server, BecomeLeader(s, f)
      PROVE  SteadyStep
  <2>1. /\ role[s] = "Candidate" /\ net[f][s] # <<>>
        /\ role' = [role EXCEPT ![s] = "Leader"]
        /\ serving' = [serving EXCEPT ![s] = None]
        /\ net' = PushToOthers(Pop(net, f, s), s, Heartbeat(s))
        /\ elected' = elected \cup {<<currTerm[s], s>>}
        /\ UNCHANGED <<currTerm, bcLog, committedIndex, accepted>>
    BY <1>3 DEF BecomeLeader, Arriving, DropStateObject, chainVars, commitHist
  <2>2. NetMoves(s, Heartbeat(s))
    BY <1>1, <2>1, MovesPopBroadcast DEF TypeInv
  <2>3. Heartbeat(s)' = Heartbeat(s)  BY <2>1 DEF Heartbeat
  <2>4. role'[s] = "Leader"  BY <2>1 DEF TypeInv, TypeOK, ServerTypes
  <2>5. ASSUME NEW q \in Server
        PROVE  /\ currTerm[q] <= currTerm'[q]
               /\ serving'[q] # None =>
                    serving[q] # None /\ currTerm'[q] = currTerm[q]
               /\ role'[q] = "Candidate" =>
                    \/ currTerm[q] < currTerm'[q]
                    \/ role[q] = "Candidate" /\ currTerm'[q] = currTerm[q]
    <3>1. currTerm'[q] = currTerm[q] /\ currTerm[q] \in Int
      BY <2>1 DEF TypeInv, TypeOK, ServerTypes, Term
    <3>2. serving'[q] = IF q = s THEN None ELSE serving[q]
      BY <2>1 DEF TypeInv, TypeOK, StateObjTypes
    <3>3. role'[q] = IF q = s THEN "Leader" ELSE role[q]
      BY <2>1 DEF TypeInv, TypeOK, ServerTypes
    <3> QED  BY <3>1, <3>2, <3>3
  <2>6. NoBlocks(s, Heartbeat(s))  BY <2>3, <2>4 DEF NoBlocks, Heartbeat
  <2>7. elected \subseteq elected'  BY <2>1
  <2> QED  BY <1>1, <2>1, <2>2, <2>5, <2>6, <2>7 DEF SteadyStep
<1> QED  BY <1>2, <1>3

LEMMA QuietFollowers ==
    ASSUME TypeInv, TypeInv', NoLoop, NEW s \in Server, NEW i \in Server,
           \/ FollowerVote(s, i) \/ FollowerRejectStale(s, i)
           \/ FollowerHeartbeat(s, i)
    PROVE  SteadyStep
<1> USE DEF TypeInv
<1>1. CASE FollowerVote(s, i)
  <2>1. PICK m \in Arriving(i, s, "REQ_VOTE_RPC") : FollowerVote(s, i)!(m)
    BY <1>1 DEF FollowerVote
  <2> DEFINE grant == GrantsVote(s, i, m)
             term == IF m.term > currTerm[s] THEN m.term ELSE currTerm[s]
             reply == [type |-> "REQ_VOTE_RPL", term |-> term, granted |-> grant]
  <2>2. /\ role[s] = "Follower" /\ net' = Push(Pop(net, i, s), s, i, reply)
        /\ currTerm' = [currTerm EXCEPT ![s] = term]
        /\ UNCHANGED <<role, bcLog, elected, serving, accepted>>
    BY <2>1 DEF chainVars, stateObjVars, commitHist
  <2>3. m \in Message /\ net[i][s] # <<>>  BY ArrivingType
  <2>4. m.term \in Term /\ currTerm[s] \in Term
    BY <2>3, MessageKinds DEF TypeOK, ServerTypes
  <2>5. term \in Term /\ term >= currTerm[s]  BY <2>4 DEF Term
  <2>6. grant \in BOOLEAN  BY DEF GrantsVote
  <2> HIDE DEF term, grant
  <2>7. reply \in Message /\ NoBlocks(s, reply)
    BY <2>5, <2>6 DEF Message, VoteRpl, NoBlocks
  <2>8. LeadersStay  BY <2>2, <2>5, FollowersStay
  <2> HIDE DEF reply
  <2>9. NetMoves(s, reply)  BY <2>2, <2>3, <2>7, MovesReply
  <2> QED  BY <2>2, <2>7, <2>8, <2>9, QuietFrom
<1>2. CASE FollowerRejectStale(s, i) \/ FollowerHeartbeat(s, i)
  <2>1. PICK m \in Arriving(i, s, "APP_ENTR_RPC") :
          FollowerRejectStale(s, i)!(m) \/ FollowerHeartbeat(s, i)!(m)
    BY <1>2 DEF FollowerRejectStale, FollowerHeartbeat
  <2>2. m \in Message /\ net[i][s] # <<>>  BY ArrivingType
  <2>3. m.term \in Term /\ currTerm[s] \in Term
    BY <2>2, MessageKinds DEF TypeOK, ServerTypes
  <2>4. PICK t \in Term, ok \in BOOLEAN, hb \in BOOLEAN :
          net' = Push(Pop(net, i, s), s, i, AppendReply(t, ok, hb))
    BY <2>1, <2>3
  <2> DEFINE reply == AppendReply(t, ok, hb)
  <2>5. reply \in Message /\ NoBlocks(s, reply)
    BY AppendReplyType DEF AppendReply, NoBlocks
  <2>6. UNCHANGED <<role, bcLog, elected, serving, accepted>>
    BY <2>1 DEF serverVars, chainVars, stateObjVars, electionHist, commitHist
  <2>7. LeadersStay
    <3>1. CASE FollowerRejectStale(s, i)!(m)
      <4>1. currTerm' = currTerm  BY <3>1 DEF serverVars
      <4> QED  BY <2>6, <4>1, AllStay
    <3>2. CASE FollowerHeartbeat(s, i)!(m)
      <4>1. /\ role[s] = "Follower" /\ m.term >= currTerm[s]
            /\ currTerm' = [currTerm EXCEPT ![s] = m.term]
        BY <3>2 DEF AdoptTerm
      <4> QED  BY <2>3, <2>6, <4>1, FollowersStay
    <3> QED  BY <2>1, <3>1, <3>2
  <2> HIDE DEF reply
  <2>8. NetMoves(s, reply)  BY <2>2, <2>4, <2>5, MovesReply DEF reply
  <2> QED  BY <2>5, <2>6, <2>7, <2>8, QuietFrom
<1> QED  BY <1>1, <1>2

LEMMA QuietReceivers ==
    ASSUME TypeInv, TypeInv', NEW s \in Server, NEW f \in Server,
           \/ CandidateStepDown(s, f) \/ LeaderStepDown(s, f)
           \/ CandidateCountVote(s, f) \/ LeaderNoteAccept(s, f)
           \/ LeaderCountAccept(s, f) \/ LeaderCommit(s, f)
           \/ Ignore(s, f) \/ Lose(f, s)
    PROVE  SteadyStep
<1>1. net[f][s] # <<>> /\ net' = Pop(net, f, s)
  BY DEF CandidateStepDown, LeaderStepDown, StepDown, CandidateCountVote,
         LeaderNoteAccept, LeaderCountAccept, LeaderCommit, Ignore, Lose, Arriving
<1>2. UNCHANGED <<currTerm, bcLog, elected, accepted>>
  BY DEF CandidateStepDown, LeaderStepDown, StepDown, CandidateCountVote,
         LeaderNoteAccept, LeaderCountAccept, LeaderCommit, Ignore, Lose,
         serverVars, chainVars, electionHist, commitHist
<1>3. /\ serving' = serving \/ serving' = [serving EXCEPT ![s] = None]
      /\ role' = role \/ role' = [role EXCEPT ![s] = "Follower"]
  BY DEF CandidateStepDown, LeaderStepDown, StepDown, DropStateObject,
         CandidateCountVote, LeaderNoteAccept, LeaderCountAccept, LeaderCommit,
         Ignore, Lose, serverVars, stateObjVars
<1>4. \A q \in Server : serving'[q] \in {serving[q], None}
  BY <1>3 DEF TypeInv, TypeOK, StateObjTypes
<1>5. LeadersStay
  BY <1>2, <1>3 DEF LeadersStay, TypeInv, TypeOK, ServerTypes, Term
<1> QED  BY <1>1, <1>2, <1>4, <1>5, QuietTaking

\* Nothing but the leader's own variables changes, or nothing at all.
LEMMA QuietRest ==
    ASSUME TypeInv, TypeInv',
           UNCHANGED vars \/ \E s \in Server : LeaderGiveUp(s)
    PROVE  SteadyStep
<1>1. PICK m \in Message : m.type # "APP_ENTR_RPC" /\ m.type # "REQ_VOTE_RPC"
  BY SomeReply
<1>2. UNCHANGED <<role, currTerm, bcLog, elected, net, accepted>>
  BY DEF LeaderGiveUp, vars, serverVars, chainVars, electionHist, commitHist
<1>3. \A q \in Server : serving'[q] \in {serving[q], None}
  <2>1. CASE UNCHANGED vars  BY <2>1 DEF vars, stateObjVars
  <2>2. ASSUME NEW s \in Server, LeaderGiveUp(s)
        PROVE  \A q \in Server : serving'[q] \in {serving[q], None}
    <3>1. serving' = [serving EXCEPT ![s] = None]  BY <2>2 DEF LeaderGiveUp
    <3> QED  BY <3>1 DEF TypeInv, TypeOK, StateObjTypes
  <2> QED  BY <2>1, <2>2
<1>4. NetMoves(DefaultLeader, m)
  BY <1>1, <1>2, MovesSame, LeaderAssumption DEF TypeInv
<1>5. LeadersStay  BY <1>2, AllStay DEF TypeInv
<1>6. NoBlocks(DefaultLeader, m)  BY <1>1 DEF NoBlocks
<1> QED  BY <1>1, <1>2, <1>3, <1>4, <1>5, <1>6, QuietFrom, LeaderAssumption

\* A step is quiet, or a leader takes a request, or a follower an append, or a
\* leader sends one again.
LEMMA StepKinds ==
    ASSUME TypeInv, TypeInv', NoLoop, [Next]_vars
    PROVE  \/ SteadyStep
           \/ \E s \in Server, r \in Request : LeaderTakeRequest(s, r)
           \/ \E s, i \in Server : FollowerAppend(s, i)
           \/ \E s, f \in Server : LeaderRetry(s, f)
<1>1. ASSUME NEW s \in Server,
             BecomeCandidate(s) \/ LeaderHeartbeat(s) \/ LeaderGiveUp(s)
      PROVE  SteadyStep
  BY <1>1, QuietCandidates, QuietLeaders, QuietRest
<1>2. ASSUME NEW s \in Server, NEW i \in Server,
             \/ FollowerVote(s, i) \/ FollowerRejectStale(s, i)
             \/ FollowerHeartbeat(s, i) \/ BecomeLeader(s, i)
      PROVE  SteadyStep
  BY <1>2, QuietFollowers, QuietLeaders
<1>3. ASSUME NEW s \in Server, NEW i \in Server,
             \/ CandidateStepDown(s, i) \/ LeaderStepDown(s, i)
             \/ CandidateCountVote(s, i) \/ LeaderNoteAccept(s, i)
             \/ LeaderCountAccept(s, i) \/ LeaderCommit(s, i)
             \/ Ignore(s, i) \/ Lose(i, s)
      PROVE  SteadyStep
  BY <1>3, QuietReceivers
<1>4. CASE UNCHANGED vars  BY <1>4, QuietRest
<1> QED  BY <1>1, <1>2, <1>3, <1>4 DEF Next

-----------------------------------------------------------------------------
(* Links and places.                                                       *)

LEMMA EmptyOffer ==
    ASSUME NEW o, o.entries = <<>>
    PROVE  DOMAIN o.entries = {} /\ OfferLinks(o) = {}
<1>1. DOMAIN o.entries = {}  OBVIOUS
<1>2. ASSUME NEW l PROVE l \notin OfferLinks(o)  BY <1>1, OfferLinksIn
<1> QED  BY <1>1, <1>2

\* The link at a place of a chain, and of an offer.
LEMMA PlaceLinks ==
    ASSUME NEW s \in Server, NEW k \in DOMAIN bcLog[s]
    PROVE  \E l \in Links : l.at = k /\ l.block = bcLog[s][k]
<1> DEFINE l == Link(k, bcLog[s][k], TermBefore(bcLog[s], k))
<1>1. l \in Links  BY ChainLinksIn, LinksIn
<1>2. l.at = k /\ l.block = bcLog[s][k]  BY DEF Link
<1> QED  BY <1>1, <1>2

LEMMA EntryLinks ==
    ASSUME NEW o \in Offers(net), NEW e \in DOMAIN o.entries
    PROVE  \E l \in Links :
                l.at = o.prevLogIndex + 1 + e /\ l.block = o.entries[e]
<1> DEFINE l == Link(o.prevLogIndex + 1 + e, o.entries[e], OfferedBefore(o, e))
<1>1. l \in Links  BY OfferLinksIn, LinksIn
<1>2. l.at = o.prevLogIndex + 1 + e /\ l.block = o.entries[e]  BY DEF Link
<1> QED  BY <1>1, <1>2

LEMMA ChainPlaces ==
    ASSUME NEW log, NEW l \in ChainLinks(log)
    PROVE  l.at \in DOMAIN log /\ l.block = log[l.at]
<1>1. PICK k \in DOMAIN log : l = Link(k, log[k], TermBefore(log, k))
  BY ChainLinksIn
<1> QED  BY <1>1 DEF Link

LEMMA OfferTypes ==
    ASSUME TypeOK, NEW o \in Offers(net)
    PROVE  /\ o \in AppendRpc /\ o.term \in Int /\ o.prevLogIndex \in Int
           /\ o.prevLogIndex >= -1 /\ o.entries \in Seq(Block)
           /\ \A e \in DOMAIN o.entries : o.entries[e].term \in Int
           /\ o.prevLogTerm \in Int
<1>1. PICK i \in Server, j \in Server : \E k \in DOMAIN net[i][j] : o = net[i][j][k]
  BY OffersIn
<1>2. o \in Message /\ o.type = "APP_ENTR_RPC"
  <2>1. net[i][j] \in Seq(Message)  BY DEF TypeOK, NetTypes
  <2> QED  BY <1>1, <2>1, OffersIn
<1>3. o \in AppendRpc  BY <1>2, MessageKinds
<1>4. o.entries \in Seq(Block)  BY <1>3 DEF AppendRpc
<1>5. \A e \in DOMAIN o.entries : o.entries[e] \in Block  BY <1>4
<1> QED  BY <1>3, <1>4, <1>5 DEF AppendRpc, Term, Index, Block

LEMMA ChainTypesAt ==
    ASSUME TypeOK, NEW s \in Server
    PROVE  /\ bcLog[s] \in Seq(Block) /\ Len(bcLog[s]) \in Nat
           /\ DOMAIN bcLog[s] = 1 .. Len(bcLog[s])
           /\ \A k \in DOMAIN bcLog[s] : bcLog[s][k].term \in Int
           /\ currTerm[s] \in Int
<1>1. bcLog[s] \in Seq(Block) /\ currTerm[s] \in Int
  BY DEF TypeOK, ChainTypes, ServerTypes, Term
<1>2. \A k \in DOMAIN bcLog[s] : bcLog[s][k] \in Block  BY <1>1
<1> QED  BY <1>1, <1>2 DEF Block, Term

\* Links of one place and term are one: the one of a chain is the chain's.
LEMMA LinkOfChain ==
    ASSUME NEW L, \A l1, l2 \in L :
                l1.at = l2.at /\ l1.block.term = l2.block.term => l1 = l2,
           NEW log, ChainLinks(log) \subseteq L, NEW l \in L,
           l.at \in DOMAIN log, log[l.at].term = l.block.term
    PROVE  l \in ChainLinks(log)
<1> DEFINE c == Link(l.at, log[l.at], TermBefore(log, l.at))
<1>1. c \in ChainLinks(log)  BY ChainLinksIn
<1>2. c.at = l.at /\ c.block.term = l.block.term  BY DEF Link
<1> HIDE DEF c
<1> QED  BY <1>1, <1>2

\* Places of links are places of blocks.
LEMMA LinkPlaces ==
    ASSUME TypeOK, NEW l \in Links
    PROVE  l.at \in Int /\ 1 <= l.at
<1>1. CASE \E s \in Server : l \in ChainLinks(bcLog[s])
  BY <1>1, ChainPlaces, ChainTypesAt
<1>2. ASSUME NEW m \in Offers(net), l \in OfferLinks(m)
      PROVE  l.at \in Int /\ 1 <= l.at
  <2>1. PICK e \in DOMAIN m.entries :
            l = Link(m.prevLogIndex + 1 + e, m.entries[e], OfferedBefore(m, e))
    BY <1>2, OfferLinksIn
  <2>2. m.prevLogIndex \in Int /\ m.prevLogIndex >= -1
        /\ m.entries \in Seq(Block)
    BY OfferTypes
  <2>3. e \in Int /\ 1 <= e  BY <2>2
  <2> QED  BY <2>1, <2>2, <2>3 DEF Link
<1> QED  BY <1>1, <1>2, LinksIn

LEMMA ChainsAreLinks ==
    \A a \in Server : ChainLinks(bcLog[a]) \subseteq Links
BY LinksIn

-----------------------------------------------------------------------------
(* Steps that send no blocks.                                              *)

LEMMA SteadyLinks ==
    ASSUME SteadyStep
    PROVE  Links' \subseteq Links
<1>1. PICK s \in Server, m \in Message : NetMoves(s, m) /\ NoBlocks(s, m)
  BY DEF SteadyStep
<1>2. ASSUME NEW o \in Offers(net')
      PROVE  o \in Offers(net) \/ OfferLinks(o) \subseteq Links
  <2>1. o \in Offers(net) \/ o = m  BY <1>1, MovesOffers
  <2>2. CASE o = m
    <3>1. m.type = "APP_ENTR_RPC"  BY <2>2, OffersIn
    <3>2. m.entries = <<>>  BY <1>1, <3>1 DEF NoBlocks, Heartbeat
    <3> QED  BY <2>2, <3>2, EmptyOffer
  <2> QED  BY <2>1, <2>2
<1>3. \A q \in Server : ChainLinks(bcLog'[q]) \subseteq Links
  BY LinksIn DEF SteadyStep
<1> QED  BY <1>2, <1>3, LinksKept

LEMMA NoBlocksSent ==
    ASSUME TypeOK, TypeOK', GrowthInv, Links' \subseteq Links,
           NEW s \in Server, NEW m, NetMoves(s, m), ~IsAppend(m)
    PROVE  OffersClimb' /\ OffersOwnBlock' /\ OffersInOrder' /\ OffersFull'
<1>1. \A o \in Offers(net') :
        o \in Offers(net) \/ (o.entries = <<>> /\ DOMAIN o.entries = {})
  BY MovesOffers, OffersIn, EmptyOffer DEF IsAppend
<1>2. OffersClimb'  BY <1>1 DEF GrowthInv, OffersClimb
<1>3. OffersOwnBlock'  BY <1>1 DEF GrowthInv, OffersOwnBlock
<1>4. OffersFull'  BY <1>1 DEF GrowthInv, OffersFull
<1>5. OffersInOrder'
  <2> SUFFICES ASSUME NEW i \in Server, NEW j \in Server,
                      NEW k \in DOMAIN net'[i][j], NEW l \in DOMAIN net'[i][j],
                      IsAppend(net'[i][j][k]), IsAppend(net'[i][j][l]), l > k,
                      net'[i][j][l].term = net'[i][j][k].term
               PROVE  EndOf(net'[i][j][k]) <= EndOf(net'[i][j][l])
    BY DEF OffersInOrder
  <2>1. PICK d \in {0, 1} : \A a \in DOMAIN net'[i][j] :
          IF a + d \in DOMAIN net[i][j]
          THEN net'[i][j][a] = net[i][j][a + d] ELSE net'[i][j][a] = m
    BY DEF NetMoves
  <2>2. /\ k + d \in DOMAIN net[i][j] /\ net'[i][j][k] = net[i][j][k + d]
        /\ l + d \in DOMAIN net[i][j] /\ net'[i][j][l] = net[i][j][l + d]
    BY <2>1
  <2>3. l + d > k + d
    <3>1. net'[i][j] \in Seq(Message)  BY DEF TypeOK, NetTypes
    <3>2. k \in Int /\ l \in Int /\ d \in Int  BY <3>1
    <3> QED  BY <3>2
  <2> QED  BY <2>2, <2>3 DEF GrowthInv, OffersInOrder
<1> QED  BY <1>2, <1>3, <1>4, <1>5

LEMMA GrowthQuiet ==
    ASSUME TypeInv, TypeInv', LogInv', GrowthInv, SteadyStep
    PROVE  GrowthInv'
<1> USE DEF TypeInv
<1>1. /\ bcLog' = bcLog /\ elected \subseteq elected'
      /\ \A q \in Server :
            /\ currTerm[q] <= currTerm'[q]
            /\ serving'[q] # None => serving[q] # None /\ currTerm'[q] = currTerm[q]
  BY DEF SteadyStep
<1>2. PICK s \in Server, m \in Message :
        /\ NetMoves(s, m)
        /\ m.type = "APP_ENTR_RPC" => role'[s] = "Leader" /\ m = Heartbeat(s)'
  BY DEF SteadyStep, NoBlocks
<1>3. m.type = "APP_ENTR_RPC" =>
        m.entries = <<>> /\ m.term = currTerm'[s] /\ <<currTerm'[s], s>> \in elected'
  BY <1>2 DEF Heartbeat, LogInv, LeaderElected
<1>4. ~IsAppend(m)  BY <1>3 DEF IsAppend
<1>5. Links' \subseteq Links  BY SteadyLinks
<1>6. TermsClimb'
  <2> SUFFICES ASSUME NEW q \in Server, NEW k \in DOMAIN bcLog[q]
               PROVE  /\ bcLog[q][k].term <= currTerm'[q]
                      /\ \A j \in 1 .. k : bcLog[q][j].term <= bcLog[q][k].term
    BY <1>1 DEF TermsClimb
  <2>1. /\ bcLog[q][k].term <= currTerm[q]
        /\ \A j \in 1 .. k : bcLog[q][j].term <= bcLog[q][k].term
    BY DEF GrowthInv, TermsClimb
  <2>2. bcLog[q][k].term \in Int /\ currTerm[q] \in Int  BY ChainTypesAt
  <2>3. currTerm'[q] \in Int  BY DEF TypeOK, ServerTypes, Term
  <2> QED  BY <1>1, <2>1, <2>2, <2>3
<1>7. ServesOwnBlock'
  BY <1>1 DEF GrowthInv, ServesOwnBlock
<1>8. OffersElected'
  <2> SUFFICES ASSUME NEW i \in Server, NEW j \in Server,
                      NEW k \in DOMAIN net'[i][j],
                      net'[i][j][k].type = "APP_ENTR_RPC"
               PROVE  <<net'[i][j][k].term, i>> \in elected'
    BY DEF OffersElected
  <2>1. PICK d \in {0, 1} : \A a \in DOMAIN net'[i][j] :
          IF a + d \in DOMAIN net[i][j]
          THEN net'[i][j][a] = net[i][j][a + d] ELSE i = s /\ net'[i][j][a] = m
    BY <1>2 DEF NetMoves
  <2>2. CASE k + d \in DOMAIN net[i][j]
    BY <1>1, <2>1, <2>2 DEF GrowthInv, OffersElected
  <2>3. CASE k + d \notin DOMAIN net[i][j]  BY <1>3, <2>1, <2>3
  <2> QED  BY <2>2, <2>3
<1>9. OffersReachOn'
  <2> SUFFICES ASSUME NEW i \in Server, NEW j \in Server,
                      NEW k \in DOMAIN net'[i][j], IsAppend(net'[i][j][k]),
                      currTerm'[j] <= net'[i][j][k].term,
                      NEW p \in DOMAIN bcLog[j],
                      bcLog[j][p].term = net'[i][j][k].term
               PROVE  p <= EndOf(net'[i][j][k])
    BY <1>1 DEF OffersReachOn
  <2>1. PICK d \in {0, 1} : \A a \in DOMAIN net'[i][j] :
          IF a + d \in DOMAIN net[i][j]
          THEN net'[i][j][a] = net[i][j][a + d] ELSE net'[i][j][a] = m
    BY <1>2 DEF NetMoves
  <2>2. k + d \in DOMAIN net[i][j] /\ net'[i][j][k] = net[i][j][k + d]
    BY <1>4, <2>1
  <2>3. currTerm[j] <= net'[i][j][k].term
    <3>1. currTerm[j] \in Int /\ currTerm'[j] \in Int
          /\ bcLog[j][p].term \in Int
      BY ChainTypesAt DEF TypeOK, ServerTypes, Term
    <3> QED  BY <1>1, <3>1
  <2> QED  BY <2>2, <2>3 DEF GrowthInv, OffersReachOn
<1>10. ChainsFull'  BY <1>1, <1>5 DEF GrowthInv, ChainsFull
<1> QED
  BY <1>2, <1>4, <1>5, <1>6, <1>7, <1>8, <1>9, <1>10, NoBlocksSent
  DEF GrowthInv

-----------------------------------------------------------------------------
(* Steps of a leader that sends blocks.                                    *)

LEMMA OnePlaceOneLink ==
    ASSUME NEW log, NEW l1 \in ChainLinks(log), NEW l2 \in ChainLinks(log),
           l1.at = l2.at
    PROVE  l1 = l2
<1>1. PICK j \in DOMAIN log : l1 = Link(j, log[j], TermBefore(log, j))
  BY ChainLinksIn
<1>2. PICK k \in DOMAIN log : l2 = Link(k, log[k], TermBefore(log, k))
  BY ChainLinksIn
<1>3. j = k
  <2>1. l1.at = j /\ l2.at = k  BY <1>1, <1>2 DEF Link
  <2> QED  BY <2>1
<1> QED  BY <1>1, <1>2, <1>3

\* What an append RPC brings of a chain that goes on after prev.
LEMMA OfferShape ==
    ASSUME NEW s \in Server, NEW log \in Seq(Block), NEW prev \in Index,
           prev <= Len(log) - 2, NEW m, m = AppendFrom(s, log, prev)
    PROVE  /\ m.type = "APP_ENTR_RPC" /\ m.term = currTerm[s]
           /\ m.prevLogIndex = prev /\ prev \in Int /\ Len(log) \in Nat
           /\ prev # -1 => m.prevLogTerm = log[prev + 1].term
           /\ DOMAIN m.entries = 1 .. Len(log) - prev - 1
           /\ Len(m.entries) = Len(log) - prev - 1
           /\ \A e \in DOMAIN m.entries : m.entries[e] = log[prev + 1 + e]
           /\ m.entries # <<>> /\ m.entries[Len(m.entries)] = log[Len(log)]
           /\ EndOf(m) = Len(log)
<1>1. prev + 1 \in 0 .. Len(log) /\ prev \in Int /\ prev >= -1
      /\ Len(log) \in Nat
  BY DEF Index
<1>2. /\ m.type = "APP_ENTR_RPC" /\ m.term = currTerm[s]
      /\ m.entries = SubSeq(log, prev + 2, Len(log)) /\ m.prevLogIndex = prev
      /\ prev # -1 => m.prevLogTerm = log[prev + 1].term
  BY <1>1 DEF AppendFrom, EntriesFrom, BlockAt
<1>3. /\ DOMAIN m.entries = 1 .. Len(log) - prev - 1
      /\ Len(m.entries) = Len(log) - prev - 1
      /\ \A e \in 1 .. Len(log) - prev - 1 : m.entries[e] = log[prev + 1 + e]
  BY <1>1, <1>2
<1>4. m.entries # <<>>
  <2>1. 1 \in DOMAIN m.entries  BY <1>1, <1>3
  <2> QED  BY <2>1
<1>5. m.entries[Len(m.entries)] = log[Len(log)]
  <2> DEFINE e == Len(log) - prev - 1
  <2>1. e \in 1 .. e /\ prev + 1 + e = Len(log)  BY <1>1
  <2>2. m.entries[e] = log[prev + 1 + e]  BY <1>3, <2>1
  <2> QED  BY <1>3, <2>1, <2>2
<1>6. EndOf(m) = Len(log)  BY <1>1, <1>2, <1>3 DEF EndOf
<1> QED  BY <1>1, <1>2, <1>3, <1>4, <1>5, <1>6

\* What holds of a chain holds of what is offered of it.
LEMMA OfferLikeChain ==
    ASSUME TypeOK, NEW s \in Server, NEW log \in Seq(Block), NEW prev \in Index,
           prev <= Len(log) - 2, NEW m, m = AppendFrom(s, log, prev), NEW L,
           \A k \in DOMAIN log :
                /\ log[k].term <= currTerm[s]
                /\ \A j \in 1 .. k : log[j].term <= log[k].term
                /\ \A l \in L : l.block.term = log[k].term /\ l.at <= k
                                    => l \in ChainLinks(log)
    PROVE  \A e \in DOMAIN m.entries :
             /\ m.entries[e].term <= m.term
             /\ \A d \in 1 .. e : m.entries[d].term <= m.entries[e].term
             /\ m.prevLogIndex # -1 => m.prevLogTerm <= m.entries[e].term
             /\ \A l \in L :
                    l.block.term = m.entries[e].term
                        /\ l.at <= m.prevLogIndex + 1 + e =>
                    IF l.at <= m.prevLogIndex + 1 THEN m.prevLogTerm = l.block.term
                    ELSE l \in OfferLinks(m)
<1>1. /\ m.term = currTerm[s]
      /\ m.prevLogIndex = prev /\ prev \in Int /\ Len(log) \in Nat
      /\ prev # -1 => m.prevLogTerm = log[prev + 1].term
      /\ DOMAIN m.entries = 1 .. Len(log) - prev - 1
      /\ \A e \in DOMAIN m.entries : m.entries[e] = log[prev + 1 + e]
  BY OfferShape
<1>2. OfferLinks(m) \subseteq ChainLinks(log)
  <2>1. prev <= LastIndex(log)  BY <1>1 DEF LastIndex
  <2> QED  BY <2>1, OfferFromChain
<1>3. prev >= -1 /\ DOMAIN log = 1 .. Len(log)  BY DEF Index
<1> SUFFICES ASSUME NEW e \in DOMAIN m.entries
             PROVE  /\ m.entries[e].term <= m.term
                    /\ \A d \in 1 .. e : m.entries[d].term <= m.entries[e].term
                    /\ m.prevLogIndex # -1 => m.prevLogTerm <= m.entries[e].term
                    /\ \A l \in L :
                        l.block.term = m.entries[e].term
                            /\ l.at <= m.prevLogIndex + 1 + e =>
                        IF l.at <= m.prevLogIndex + 1
                        THEN m.prevLogTerm = l.block.term ELSE l \in OfferLinks(m)
  OBVIOUS
<1> DEFINE k == prev + 1 + e
<1>4. e \in 1 .. Len(log) - prev - 1 /\ e \in Int /\ 1 <= e  BY <1>1
<1>5. k \in DOMAIN log /\ k \in Int /\ m.entries[e] = log[k]
      /\ k = m.prevLogIndex + 1 + e
  BY <1>1, <1>3, <1>4
<1>6. m.entries[e].term <= m.term  BY <1>1, <1>5
<1>7. ASSUME NEW d \in 1 .. e PROVE m.entries[d].term <= m.entries[e].term
  <2>1. d \in DOMAIN m.entries /\ prev + 1 + d \in 1 .. k
    BY <1>1, <1>3, <1>4
  <2> QED  BY <1>1, <1>5, <2>1
<1>8. ASSUME m.prevLogIndex # -1 PROVE m.prevLogTerm <= m.entries[e].term
  <2>1. prev + 1 \in 1 .. k  BY <1>1, <1>3, <1>4, <1>8
  <2> QED  BY <1>1, <1>5, <1>8, <2>1
<1>9. ASSUME NEW l \in L, l.block.term = m.entries[e].term,
             l.at <= m.prevLogIndex + 1 + e
      PROVE  IF l.at <= m.prevLogIndex + 1 THEN m.prevLogTerm = l.block.term
             ELSE l \in OfferLinks(m)
  <2>1. l \in ChainLinks(log)  BY <1>5, <1>9
  <2>2. l.at \in DOMAIN log /\ l.block = log[l.at] /\ l.at \in Int
        /\ l.at >= 1 /\ l.at <= Len(log)
    BY <1>3, <2>1, ChainPlaces
  <2>3. CASE l.at <= prev + 1
    <3>1. prev # -1 /\ l.at \in 1 .. prev + 1 /\ prev + 1 \in 1 .. k
          /\ prev + 1 \in DOMAIN log
      BY <1>1, <1>3, <1>4, <1>5, <2>2, <2>3
    <3>2. log[l.at].term <= log[prev + 1].term
          /\ log[prev + 1].term <= log[k].term /\ log[l.at].term = log[k].term
      BY <1>5, <1>9, <2>2, <3>1
    <3>3. log[prev + 1].term \in Int /\ log[k].term \in Int
      <4>1. log[prev + 1] \in Block /\ log[k] \in Block  BY <1>5, <3>1
      <4> QED  BY <4>1 DEF Block, Term
    <3>4. log[prev + 1].term = log[k].term  BY <3>2, <3>3
    <3> QED  BY <1>1, <1>5, <1>9, <2>3, <3>1, <3>4
  <2>4. CASE ~(l.at <= prev + 1)
    <3> DEFINE d == l.at - prev - 1
               c == Link(m.prevLogIndex + 1 + d, m.entries[d], OfferedBefore(m, d))
    <3>1. d \in DOMAIN m.entries /\ m.prevLogIndex + 1 + d = l.at
      <4>1. /\ l.at \in Int /\ prev \in Int /\ Len(log) \in Int
            /\ l.at > prev + 1 /\ l.at <= Len(log)
        BY <1>1, <2>2, <2>4
      <4>2. \A a, p, n \in Int : a > p + 1 /\ a <= n
                => a - p - 1 \in 1 .. n - p - 1 /\ p + 1 + (a - p - 1) = a
        OBVIOUS
      <4>3. d \in 1 .. Len(log) - prev - 1 /\ prev + 1 + d = l.at
        BY <4>1, <4>2
      <4> HIDE DEF d
      <4> QED  BY <1>1, <4>3
    <3>2. c \in OfferLinks(m) /\ c.at = l.at  BY <3>1, OfferLinksIn DEF Link
    <3>3. c = l  BY <1>2, <2>1, <3>2, OnePlaceOneLink
    <3> QED  BY <1>1, <2>4, <3>2, <3>3
  <2> QED  BY <2>3, <2>4
<1> QED  BY <1>6, <1>7, <1>8, <1>9

\* A leader sends blocks of its chain, which may have got one more.
LEMMA GrowthOffers ==
    ASSUME TypeInv, TypeInv', LogInv, LogInv', GrowthInv, NoLoop, ElectionSafety,
           NEW s \in Server, NEW log \in Seq(Block),
           NEW prev \in Index, prev <= Len(log) - 2,
           NEW m, m = AppendFrom(s, log, prev), NetMoves(s, m),
           role[s] = "Leader", UNCHANGED <<role, currTerm, elected>>,
           \A q \in Server : bcLog'[q] = IF q = s THEN log ELSE bcLog[q],
           Len(bcLog[s]) <= Len(log), Len(log) <= Len(bcLog[s]) + 1,
           \A k \in DOMAIN bcLog[s] : log[k] = bcLog[s][k],
           log[Len(log)].term = currTerm[s],
           \A q \in Server \ {s} : serving'[q] = serving[q],
           \A l \in Links' : l \in Links
                \/ (l.block.term = currTerm[s] /\ l.at > Len(bcLog[s]))
    PROVE  GrowthInv'
<1> USE DEF TypeInv
<1> DEFINE T == currTerm[s]
           n == Len(bcLog[s])
           N == Len(log)
<1>1. /\ m.type = "APP_ENTR_RPC" /\ m.term = T /\ EndOf(m) = N
      /\ m.entries # <<>> /\ m.entries[Len(m.entries)].term = T
  BY OfferShape
<1>2. /\ n \in Nat /\ N \in Nat /\ n <= N /\ N <= n + 1 /\ 1 <= N
      /\ DOMAIN bcLog[s] = 1 .. n /\ DOMAIN log = 1 .. N /\ T \in Int
      /\ \A k \in DOMAIN log : log[k].term \in Int
  <2>1. n \in Nat /\ DOMAIN bcLog[s] = 1 .. n /\ T \in Int
    BY ChainTypesAt
  <2>2. \A k \in DOMAIN log : log[k].term \in Int
    <3>1. \A k \in DOMAIN log : log[k] \in Block  OBVIOUS
    <3> QED  BY <3>1 DEF Block, Term
  <2>3. N \in Nat /\ DOMAIN log = 1 .. N /\ 1 <= N
    BY DEF Index
  <2> QED  BY <2>1, <2>2, <2>3
<1> HIDE DEF T, n, N
<1>21. \A k \in DOMAIN log :
         /\ k \in Int /\ k <= N /\ \A j \in 1 .. k : j \in DOMAIN log
         /\ k \in DOMAIN bcLog[s] \/ k = N
  BY ONLY <1>2
<1>22. \A k \in DOMAIN bcLog[s] :
         /\ k \in Int /\ k <= n /\ k <= N /\ k \in DOMAIN log
         /\ \A j \in 1 .. k : j \in DOMAIN bcLog[s]
  BY ONLY <1>2
<1>23. log # <<>> /\ LastTerm(log) = T /\ log[N].term = T
       /\ \A l \in Links' : l \in Links \/ (l.block.term = T /\ l.at > n)
  BY <1>2 DEF LastTerm, T, N, n
\* Blocks of its term are in its own chain, and no later than its end.
<1>3. /\ \A l \in Links : l.block.term = T => l.at \in DOMAIN bcLog[s]
      /\ \A l \in Links' : l.block.term = T =>
            l \in ChainLinks(log) /\ l.at \in DOMAIN log
  <2>1. \A l \in Links : l.block.term = T => l \in ChainLinks(bcLog[s])
    BY DEF LogInv, LeaderHasLinks, T
  <2>2. \A l \in Links' : l.block.term = T => l \in ChainLinks(log)
    BY DEF LogInv, LeaderHasLinks, T
  <2> QED  BY <2>1, <2>2, ChainPlaces
<1>4. \A q \in Server : \A k \in DOMAIN bcLog[q] :
        bcLog[q][k].term = T => k \in DOMAIN bcLog[s]
  BY <1>3, PlaceLinks
<1>5. \A o \in Offers(net) : \A e \in DOMAIN o.entries :
        o.entries[e].term = T => o.prevLogIndex + 1 + e \in DOMAIN bcLog[s]
  BY <1>3, EntryLinks
<1>6. \A o \in Offers(net') : o \in Offers(net) \/ o = m  BY MovesOffers
<1>7. <<T, s>> \in elected  BY DEF LogInv, LeaderElected, T
<1>8. TermsClimb'
  <2> SUFFICES ASSUME NEW q \in Server, NEW k \in DOMAIN bcLog'[q]
               PROVE  /\ bcLog'[q][k].term <= currTerm[q]
                      /\ \A j \in 1 .. k : bcLog'[q][j].term <= bcLog'[q][k].term
    BY DEF TermsClimb
  <2>1. CASE q # s  BY <2>1 DEF GrowthInv, TermsClimb
  <2>2. CASE q = s
    <3>1. \A j \in DOMAIN bcLog[s] : log[j].term <= T
      BY DEF GrowthInv, TermsClimb, T
    <3>2. \A j \in DOMAIN log : log[j].term <= T
      <4>1. T <= T  BY <1>2
      <4> QED  BY <1>21, <1>23, <3>1, <4>1
    <3>3. k \in DOMAIN log /\ \A j \in 1 .. k : j \in DOMAIN log
      BY <1>21, <2>2
    <3>4. CASE k = N  BY <1>23, <2>2, <3>2, <3>3, <3>4 DEF T
    <3>5. CASE k \in DOMAIN bcLog[s]
      <4>1. \A j \in 1 .. k : j \in DOMAIN bcLog[s]  BY <1>22, <3>5
      <4> QED  BY <2>2, <3>2, <3>3, <3>5, <4>1 DEF GrowthInv, TermsClimb, T
    <3> QED  BY <1>21, <3>3, <3>4, <3>5
  <2> QED  BY <2>1, <2>2
<1>9. ChainsFull'
  <2> SUFFICES ASSUME NEW q \in Server, NEW k \in DOMAIN bcLog'[q], NEW l \in Links',
                      l.block.term = bcLog'[q][k].term, l.at <= k
               PROVE  l \in ChainLinks(bcLog'[q])
    BY DEF ChainsFull
  <2>1. CASE q # s
    <3>1. k \in DOMAIN bcLog[q] /\ bcLog'[q] = bcLog[q] /\ k \in Int
      BY <2>1, ChainTypesAt
    <3>2. l \in Links
      <4> SUFFICES ASSUME l \notin Links PROVE FALSE
        OBVIOUS
      <4>1. l.block.term = T /\ l.at > n  BY <1>23
      <4>2. k \in Int /\ k <= n  BY <1>4, <1>22, <3>1, <4>1
      <4>3. l.at \in Int  BY <1>3, <1>21, <4>1
      <4>4. l.at <= k  OBVIOUS
      <4> QED  BY ONLY <1>2, <4>1, <4>2, <4>3, <4>4
    <3> QED  BY <3>1, <3>2 DEF GrowthInv, ChainsFull
  <2>2. CASE q = s /\ l.block.term = T  BY <1>3, <2>2
  <2>3. CASE q = s /\ l.block.term # T
    <3>1. l \in Links /\ k \in DOMAIN log  BY <1>23, <2>3
    <3>2. k \in DOMAIN bcLog[s]  BY <1>21, <1>23, <2>3, <3>1
    <3>3. l \in ChainLinks(bcLog[s])
      BY <2>3, <3>1, <3>2 DEF GrowthInv, ChainsFull
    <3>4. l.at \in DOMAIN bcLog[s] /\ l.block = bcLog[s][l.at]
      BY <3>3, ChainPlaces
    <3>5. l.at \in DOMAIN bcLog'[s] /\ bcLog'[s][l.at].term = l.block.term
      BY <1>22, <3>4
    <3>6. ChainLinks(bcLog'[s]) \subseteq Links'
      <4>1. (\A a \in Server : ChainLinks(bcLog[a]) \subseteq Links)'
        BY ChainsAreLinks, PTL
      <4> QED  BY <4>1
    <3>7. l \in ChainLinks(bcLog'[s])
      BY <3>5, <3>6, LinkOfChain DEF LogInv, LinkUnique
    <3> QED  BY <2>3, <3>7
  <2> QED  BY <2>1, <2>2, <2>3
\* What is offered is like the chain it is taken from.
<1>10. \A e \in DOMAIN m.entries :
         /\ m.entries[e].term <= m.term
         /\ \A d \in 1 .. e : m.entries[d].term <= m.entries[e].term
         /\ m.prevLogIndex # -1 => m.prevLogTerm <= m.entries[e].term
         /\ \A l \in Links' :
                l.block.term = m.entries[e].term
                    /\ l.at <= m.prevLogIndex + 1 + e =>
                IF l.at <= m.prevLogIndex + 1 THEN m.prevLogTerm = l.block.term
                ELSE l \in OfferLinks(m)
  <2> DEFINE L == Links'
  <2>1. bcLog'[s] = log /\ currTerm'[s] = currTerm[s]  OBVIOUS
  <2>2. \A k \in DOMAIN log :
            /\ log[k].term <= currTerm[s]
            /\ \A j \in 1 .. k : log[j].term <= log[k].term
            /\ \A l \in L : l.block.term = log[k].term /\ l.at <= k
                                => l \in ChainLinks(log)
    BY <1>8, <1>9, <2>1 DEF TermsClimb, ChainsFull
  <2> HIDE DEF L
  <2>3. \A e \in DOMAIN m.entries :
         /\ m.entries[e].term <= m.term
         /\ \A d \in 1 .. e : m.entries[d].term <= m.entries[e].term
         /\ m.prevLogIndex # -1 => m.prevLogTerm <= m.entries[e].term
         /\ \A l \in L :
                l.block.term = m.entries[e].term
                    /\ l.at <= m.prevLogIndex + 1 + e =>
                IF l.at <= m.prevLogIndex + 1 THEN m.prevLogTerm = l.block.term
                ELSE l \in OfferLinks(m)
    BY <2>2, OfferLikeChain
  <2> QED  BY <2>3 DEF L
<1>11. OffersClimb'  BY <1>6, <1>10 DEF GrowthInv, OffersClimb
<1>12. OffersFull'
  <2> SUFFICES ASSUME NEW o \in Offers(net'), NEW e \in DOMAIN o.entries,
                      NEW l \in Links', l.block.term = o.entries[e].term,
                      l.at <= o.prevLogIndex + 1 + e
               PROVE  IF l.at <= o.prevLogIndex + 1
                      THEN o.prevLogTerm = l.block.term ELSE l \in OfferLinks(o)
    BY DEF OffersFull
  <2>1. CASE o = m  BY <1>10, <2>1
  <2>2. CASE o \in Offers(net)
    <3>1. l \in Links
      <4> SUFFICES ASSUME l \notin Links PROVE FALSE
        OBVIOUS
      <4>1. l.block.term = T /\ l.at > n  BY <1>23
      <4> DEFINE k == o.prevLogIndex + 1 + e
      <4>2. k \in Int /\ k <= n  BY <1>5, <1>22, <2>2, <4>1
      <4>3. l.at \in Int  BY <1>3, <1>21, <4>1
      <4>4. l.at <= k  OBVIOUS
      <4> HIDE DEF k
      <4> QED  BY ONLY <1>2, <4>1, <4>2, <4>3, <4>4
    <3> QED  BY <2>2, <3>1 DEF GrowthInv, OffersFull
  <2> QED  BY <1>6, <2>1, <2>2
<1>13. ServesOwnBlock'
  <2> SUFFICES ASSUME NEW q \in Server, serving'[q] # None
               PROVE  LastTerm(bcLog'[q]) = currTerm[q]
    BY DEF ServesOwnBlock
  <2>1. CASE q = s
    <3>1. bcLog'[q] = log  BY <2>1
    <3> QED  BY <1>23, <2>1, <3>1 DEF T
  <2>2. CASE q # s
    <3>1. serving[q] # None /\ bcLog'[q] = bcLog[q]  BY <2>2
    <3> QED  BY <3>1 DEF GrowthInv, ServesOwnBlock
  <2> QED  BY <2>1, <2>2
<1>14. OffersOwnBlock'  BY <1>1, <1>6 DEF GrowthInv, OffersOwnBlock
<1>15. OffersElected'
  <2> SUFFICES ASSUME NEW i \in Server, NEW j \in Server,
                      NEW k \in DOMAIN net'[i][j],
                      net'[i][j][k].type = "APP_ENTR_RPC"
               PROVE  <<net'[i][j][k].term, i>> \in elected
    BY DEF OffersElected
  <2>1. PICK d \in {0, 1} : \A a \in DOMAIN net'[i][j] :
          IF a + d \in DOMAIN net[i][j]
          THEN net'[i][j][a] = net[i][j][a + d] ELSE i = s /\ net'[i][j][a] = m
    BY DEF NetMoves
  <2>2. CASE k + d \in DOMAIN net[i][j]
    <3>1. net'[i][j][k] = net[i][j][k + d]  BY <2>1, <2>2
    <3>2. OffersElected  BY DEF GrowthInv
    <3> QED  BY ONLY <2>2, <3>1, <3>2,
                     net'[i][j][k].type = "APP_ENTR_RPC", elected' = elected,
                     i \in Server, j \in Server
             DEF OffersElected
  <2>3. CASE k + d \notin DOMAIN net[i][j]  BY <1>1, <1>7, <2>1, <2>3
  <2> QED  BY <2>2, <2>3
\* An older append of the leader ends no later than its chain.
<1>16. \A o \in Offers(net) : IsAppend(o) /\ o.term = T => EndOf(o) <= N
  <2> SUFFICES ASSUME NEW o \in Offers(net), IsAppend(o), o.term = T
               PROVE  EndOf(o) <= N
    OBVIOUS
  <2>1. o.entries \in Seq(Block) /\ o.entries # <<>>
    BY OfferTypes DEF IsAppend
  <2>2. Len(o.entries) \in DOMAIN o.entries  BY <2>1
  <2>3. o.entries[Len(o.entries)].term = T
    BY <2>1 DEF GrowthInv, OffersOwnBlock
  <2>4. EndOf(o) \in DOMAIN bcLog[s]  BY <1>5, <2>2, <2>3 DEF EndOf
  <2> QED  BY <1>22, <2>4
<1>17. OffersInOrder'
  <2> SUFFICES ASSUME NEW i \in Server, NEW j \in Server,
                      NEW k \in DOMAIN net'[i][j], NEW l \in DOMAIN net'[i][j],
                      IsAppend(net'[i][j][k]), IsAppend(net'[i][j][l]), l > k,
                      net'[i][j][l].term = net'[i][j][k].term
               PROVE  EndOf(net'[i][j][k]) <= EndOf(net'[i][j][l])
    BY DEF OffersInOrder
  <2>1. PICK d \in {0, 1} : \A a \in DOMAIN net'[i][j] :
          IF a + d \in DOMAIN net[i][j]
          THEN net'[i][j][a] = net[i][j][a + d]
          ELSE net'[i][j][a] = m /\ \A b \in DOMAIN net'[i][j] : b <= a
    BY DEF NetMoves
  <2>2. k \in Int /\ l \in Int /\ d \in Int /\ ~(l <= k)
    <3>1. net'[i][j] \in Seq(Message)  BY DEF TypeOK, NetTypes
    <3> QED  BY <3>1
  <2>3. k + d \in DOMAIN net[i][j] /\ net'[i][j][k] = net[i][j][k + d]
    BY <2>1, <2>2
  <2>4. CASE l + d \in DOMAIN net[i][j]
    <3>1. net'[i][j][l] = net[i][j][l + d]  BY <2>1, <2>4
    <3>2. l + d > k + d  BY ONLY <2>2
    <3> QED  BY <2>3, <2>4, <3>1, <3>2 DEF GrowthInv, OffersInOrder
  <2>5. CASE l + d \notin DOMAIN net[i][j]
    <3>1. net'[i][j][l] = m  BY <2>1, <2>5
    <3>2. net'[i][j][k] \in Offers(net)  BY <2>3, OffersIn DEF IsAppend
    <3> QED  BY <1>1, <1>16, <3>1, <3>2
  <2> QED  BY <2>4, <2>5
<1>18. OffersReachOn'
  <2> SUFFICES ASSUME NEW i \in Server, NEW j \in Server,
                      NEW k \in DOMAIN net'[i][j], IsAppend(net'[i][j][k]),
                      currTerm[j] <= net'[i][j][k].term,
                      NEW p \in DOMAIN bcLog'[j],
                      bcLog'[j][p].term = net'[i][j][k].term
               PROVE  p <= EndOf(net'[i][j][k])
    BY DEF OffersReachOn
  <2>1. PICK d \in {0, 1} : \A a \in DOMAIN net'[i][j] :
          IF a + d \in DOMAIN net[i][j]
          THEN net'[i][j][a] = net[i][j][a + d] ELSE net'[i][j][a] = m
    BY DEF NetMoves
  <2>2. CASE k + d \notin DOMAIN net[i][j]
    <3>1. net'[i][j][k] = m  BY <2>1, <2>2
    <3>2. p \in DOMAIN log
      <4>1. CASE j = s  BY <4>1
      <4>2. CASE j # s
        <5>1. p \in DOMAIN bcLog[j] /\ bcLog[j][p].term = T
          BY <1>1, <3>1, <4>2
        <5>2. p \in DOMAIN bcLog[s]  BY <1>4, <5>1
        <5> QED  BY <1>22, <5>2
      <4> QED  BY <4>1, <4>2
    <3> QED  BY <1>1, <1>21, <3>1, <3>2
  <2>3. CASE k + d \in DOMAIN net[i][j]
    <3>1. net'[i][j][k] = net[i][j][k + d]  BY <2>1, <2>3
    <3>2. p \in DOMAIN bcLog[j] /\ bcLog[j][p] = bcLog'[j][p]
      <4>1. CASE j # s  BY <4>1
      <4>2. CASE j = s
        <5>1. net[i][j] # <<>>  BY <2>3
        <5>2. i # s  BY <4>2, <5>1 DEF NoLoop
        <5>3. <<net'[i][j][k].term, i>> \in elected
          BY <1>15 DEF OffersElected, IsAppend
        <5>4. net'[i][j][k].term # T
          <6> SUFFICES ASSUME net'[i][j][k].term = T PROVE FALSE
            OBVIOUS
          <6>1. <<T, i>> \in elected /\ <<T, i>> # <<T, s>>  BY <5>2, <5>3
          <6>2. <<T, i>>[1] = <<T, s>>[1]  OBVIOUS
          <6> QED  BY <1>7, <6>1, <6>2 DEF ElectionSafety
        <5>5. p \in DOMAIN log /\ log[p].term # T  BY <4>2, <5>4
        <5>6. p \in DOMAIN bcLog[s]  BY <1>21, <1>23, <5>5
        <5> QED  BY <4>2, <5>6
      <4> QED  BY <4>1, <4>2
    <3> QED  BY <2>3, <3>1, <3>2 DEF GrowthInv, OffersReachOn
  <2> QED  BY <2>2, <2>3
<1> QED
  BY <1>8, <1>9, <1>11, <1>12, <1>13, <1>14, <1>15, <1>17, <1>18 DEF GrowthInv

\* What a leader's new block does to its chain, and what it sends.
NewBlock(s, r) == [term |-> currTerm[s], txn |-> r]
GrownChain(s, r) == Append(bcLog[s], NewBlock(s, r))
NewOffer(s, r) == AppendFrom(s, GrownChain(s, r), LastIndex(bcLog[s]))

LEMMA TakeRequestShape ==
    ASSUME TypeInv, NEW s \in Server, NEW r \in Request, LeaderTakeRequest(s, r)
    PROVE  /\ role[s] = "Leader"
           /\ NewBlock(s, r) \in Block /\ NewBlock(s, r).term = currTerm[s]
           /\ GrownChain(s, r) \in Seq(Block)
           /\ Len(GrownChain(s, r)) = Len(bcLog[s]) + 1
           /\ GrownChain(s, r)[Len(bcLog[s]) + 1] = NewBlock(s, r)
           /\ \A k \in DOMAIN bcLog[s] :
                /\ k \in DOMAIN GrownChain(s, r)
                /\ GrownChain(s, r)[k] = bcLog[s][k]
           /\ LastIndex(bcLog[s]) \in Index
           /\ LastIndex(bcLog[s]) <= Len(GrownChain(s, r)) - 2
           /\ NewOffer(s, r) \in Message /\ NetMoves(s, NewOffer(s, r))
           /\ OfferLinks(NewOffer(s, r)) \subseteq ChainLinks(GrownChain(s, r))
           /\ \A q \in Server :
                bcLog'[q] = IF q = s THEN GrownChain(s, r) ELSE bcLog[q]
           /\ \A q \in Server \ {s} : serving'[q] = serving[q]
           /\ accepted' = accepted \cup {<<s, Len(bcLog[s]), NewBlock(s, r)>>}
           /\ UNCHANGED <<role, currTerm, elected, votes>>
<1> DEFINE b == NewBlock(s, r)
           log == GrownChain(s, r)
           prev == LastIndex(bcLog[s])
           m == NewOffer(s, r)
<1> USE DEF TypeInv
<1>1. /\ role[s] = "Leader"
      /\ bcLog' = [bcLog EXCEPT ![s] = log]
      /\ serving' = [serving EXCEPT ![s] = r]
      /\ net' = PushToOthers(net, s, m)
      /\ accepted' = accepted \cup {<<s, LastIndex(log), b>>}
      /\ UNCHANGED <<role, currTerm, elected, votes>>
  BY DEF LeaderTakeRequest, NewBlock, GrownChain, NewOffer, serverVars,
         electionHist
<1>2. /\ currTerm[s] \in Term /\ bcLog[s] \in Seq(Block)
      /\ b \in Block /\ b.term = currTerm[s]
  BY DEF NewBlock, TypeOK, ServerTypes, ChainTypes, Block
<1>3. /\ log \in Seq(Block) /\ Len(log) = Len(bcLog[s]) + 1
      /\ log[Len(bcLog[s]) + 1] = b /\ Len(bcLog[s]) \in Nat
      /\ \A k \in DOMAIN bcLog[s] : k \in DOMAIN log /\ log[k] = bcLog[s][k]
  BY <1>2 DEF GrownChain
<1>4. prev \in Index /\ prev <= Len(log) - 2 /\ prev <= LastIndex(log)
      /\ LastIndex(log) = Len(bcLog[s])
  BY <1>3 DEF LastIndex, Index
<1>5. m \in Message  BY <1>3, <1>4, AppendFromType DEF NewOffer
<1>6. NetMoves(s, m)  BY <1>1, <1>5, MovesBroadcast
<1>7. \A q \in Server : bcLog'[q] = IF q = s THEN log ELSE bcLog[q]
  BY <1>1 DEF TypeOK, ChainTypes
<1>8. \A q \in Server \ {s} : serving'[q] = serving[q]
  BY <1>1 DEF TypeOK, StateObjTypes
<1>9. OfferLinks(m) \subseteq ChainLinks(log)
  BY <1>3, <1>4, OfferFromChain DEF NewOffer
<1> QED  BY <1>1, <1>2, <1>3, <1>4, <1>5, <1>6, <1>7, <1>8, <1>9

\* A link after the step is an old one or that of the new block.
LEMMA TakeRequestLinks ==
    ASSUME TypeInv, NEW s \in Server, NEW r \in Request, LeaderTakeRequest(s, r),
           NEW l \in Links'
    PROVE  \/ l \in Links
           \/ /\ l.at = Len(bcLog[s]) + 1
              /\ l.block = NewBlock(s, r)
<1> DEFINE b == NewBlock(s, r)
           old == bcLog[s]
           log == GrownChain(s, r)
           m == NewOffer(s, r)
<1>1. /\ log \in Seq(Block) /\ Len(log) = Len(old) + 1
      /\ log[Len(old) + 1] = b
      /\ \A k \in DOMAIN old : log[k] = old[k]
      /\ NetMoves(s, m) /\ OfferLinks(m) \subseteq ChainLinks(log)
      /\ \A q \in Server : bcLog'[q] = IF q = s THEN log ELSE bcLog[q]
  BY TakeRequestShape
<1>2. old \in Seq(Block) /\ Len(old) \in Nat  BY ChainTypesAt DEF TypeInv
<1> HIDE DEF b, log, m
<1>3. ASSUME l \in ChainLinks(log)
      PROVE  l \in Links \/ (l.at = Len(old) + 1 /\ l.block = b)
  <2>1. PICK k \in DOMAIN log : l = Link(k, log[k], TermBefore(log, k))
    BY <1>3, ChainLinksIn
  <2>2. k \in 1 .. Len(old) + 1 /\ DOMAIN old = 1 .. Len(old)  BY <1>1, <1>2
  <2>3. CASE k = Len(old) + 1
    <3>1. l.block = log[k] /\ l.at = k  BY <2>1 DEF Link
    <3> QED  BY <1>1, <2>3, <3>1
  <2>4. CASE k \in DOMAIN old
    <3>1. log[k] = old[k]  BY <1>1, <2>4
    <3>2. TermBefore(log, k) = TermBefore(old, k)
      <4>1. CASE k = 1  BY <4>1 DEF TermBefore
      <4>2. CASE k # 1
        <5>1. k - 1 \in DOMAIN old  BY <1>2, <2>2, <2>4, <4>2
        <5>2. log[k - 1] = old[k - 1]  BY <1>1, <5>1
        <5> QED  BY <4>2, <5>2 DEF TermBefore
      <4> QED  BY <4>1, <4>2
    <3>3. l \in ChainLinks(old)  BY <2>1, <2>4, <3>1, <3>2, ChainLinksIn
    <3>4. l \in Links  BY <3>3, LinksIn
    <3> QED  BY <3>4
  <2>5. k \in DOMAIN old \/ k = Len(old) + 1  BY ONLY <1>2, <2>2
  <2> QED  BY <2>3, <2>4, <2>5
<1>4. \/ \E q \in Server : l \in ChainLinks(bcLog'[q])
      \/ \E o \in Offers(net') : l \in OfferLinks(o)
  BY Zenon DEF Links
<1>5. ASSUME NEW q \in Server, l \in ChainLinks(bcLog'[q])
      PROVE  l \in Links \/ l \in ChainLinks(log)
  BY <1>1, <1>5, LinksIn
<1>6. ASSUME NEW o \in Offers(net'), l \in OfferLinks(o)
      PROVE  l \in Links \/ l \in ChainLinks(log)
  <2>1. o \in Offers(net) \/ o = m  BY <1>1, MovesOffers
  <2> QED  BY <1>1, <1>6, <2>1, LinksIn
<1>7. l \in Links \/ l \in ChainLinks(log)  BY <1>4, <1>5, <1>6
<1>8. l \in Links \/ (l.at = Len(old) + 1 /\ l.block = b)  BY <1>3, <1>7
<1> QED  BY <1>8 DEF b

LEMMA GrowthTakeRequest ==
    ASSUME TypeInv, TypeInv', LogInv, LogInv', GrowthInv, NoLoop, ElectionSafety,
           NEW s \in Server, NEW r \in Request, LeaderTakeRequest(s, r)
    PROVE  GrowthInv'
<1> DEFINE b == NewBlock(s, r)
           log == GrownChain(s, r)
           prev == LastIndex(bcLog[s])
           m == NewOffer(s, r)
<1>1. /\ role[s] = "Leader" /\ b.term = currTerm[s]
      /\ log \in Seq(Block) /\ Len(log) = Len(bcLog[s]) + 1
      /\ log[Len(bcLog[s]) + 1] = b
      /\ \A k \in DOMAIN bcLog[s] : log[k] = bcLog[s][k]
      /\ prev \in Index /\ prev <= Len(log) - 2 /\ NetMoves(s, m)
      /\ \A q \in Server : bcLog'[q] = IF q = s THEN log ELSE bcLog[q]
      /\ \A q \in Server \ {s} : serving'[q] = serving[q]
      /\ UNCHANGED <<role, currTerm, elected>>
  BY TakeRequestShape
<1>2. Len(bcLog[s]) \in Nat  BY ChainTypesAt DEF TypeInv
<1>3. \A l \in Links' : l \in Links
            \/ (l.block.term = currTerm[s] /\ l.at > Len(bcLog[s]))
  <2>1. \A l \in Links' : l \in Links \/ (l.at = Len(bcLog[s]) + 1 /\ l.block = b)
    BY TakeRequestLinks
  <2> HIDE DEF b
  <2> QED  BY <1>1, <1>2, <2>1
<1>4. /\ Len(bcLog[s]) <= Len(log) /\ Len(log) <= Len(bcLog[s]) + 1
      /\ log[Len(log)].term = currTerm[s]
  <2> HIDE DEF b, log
  <2> QED  BY <1>1, <1>2
<1>5. m = AppendFrom(s, log, prev)  BY DEF NewOffer
<1> HIDE DEF b, log, prev, m
<1> QED  BY <1>1, <1>3, <1>4, <1>5, GrowthOffers

\* A leader that has counted down past the first block sends nothing.
LEMMA RetryShape ==
    ASSUME TypeInv, TypeInv', NoLoop,
           NEW s \in Server, NEW f \in Server, LeaderRetry(s, f)
    PROVE  /\ role[s] = "Leader" /\ serving[s] # None
           /\ UNCHANGED <<role, currTerm, bcLog, elected, serving, accepted,
                          votes>>
           /\ \/ SteadyStep
              \/ \E prev \in Index :
                    /\ prev <= Len(bcLog[s]) - 2
                    /\ NetMoves(s, AppendFrom(s, bcLog[s], prev))
                    /\ Links' \subseteq Links
<1> USE DEF TypeInv
<1> DEFINE prev == nextIndex[s][f] - 2
           m == AppendFrom(s, bcLog[s], prev)
<1>1. /\ net[f][s] # <<>> /\ role[s] = "Leader" /\ serving[s] # None
      /\ UNCHANGED <<role, currTerm, bcLog, elected, serving, accepted, votes>>
      /\ IF prev < -1 THEN net' = Pop(net, f, s)
         ELSE net' = Push(Pop(net, f, s), s, f, m)
  BY DEF LeaderRetry, Arriving, serverVars, chainVars, electionHist, commitHist
<1>2. CASE prev < -1
  <2>1. LeadersStay  BY <1>1, AllStay
  <2>2. SteadyStep  BY <1>1, <1>2, <2>1, QuietTaking
  <2> QED  BY <1>1, <2>2
<1>3. CASE ~(prev < -1)
  <2>1. bcLog[s] \in Seq(Block) /\ Len(bcLog[s]) \in Nat  BY ChainTypesAt
  <2>2. nextIndex[s][f] \in Int /\ nextIndex[s][f] <= Len(bcLog[s])
    BY DEF TypeOK, StateObjTypes, LeaderShape
  <2>3. prev \in Index /\ prev <= Len(bcLog[s]) - 2 /\ prev <= LastIndex(bcLog[s])
    BY <1>3, <2>1, <2>2 DEF Index, LastIndex
  <2>4. m \in Message /\ OfferLinks(m) \subseteq ChainLinks(bcLog[s])
    BY <2>1, <2>3, AppendFromType, OfferFromChain
  <2>5. net' = Push(Pop(net, f, s), s, f, m)  BY <1>1, <1>3
  <2>6. m = AppendFrom(s, bcLog[s], prev)  OBVIOUS
  <2> HIDE DEF m, prev
  <2>7. NetMoves(s, m)  BY <1>1, <2>4, <2>5, MovesReply
  <2>8. Links' \subseteq Links
    <3>1. \A o \in Offers(net') : o \in Offers(net) \/ OfferLinks(o) \subseteq Links
      BY <2>4, <2>7, MovesOffers, LinksIn
    <3>2. \A q \in Server : ChainLinks(bcLog'[q]) \subseteq Links
      BY <1>1, LinksIn
    <3> QED  BY <3>1, <3>2, LinksKept
  <2> QED  BY <1>1, <2>3, <2>6, <2>7, <2>8
<1> QED  BY <1>2, <1>3

LEMMA GrowthRetry ==
    ASSUME TypeInv, TypeInv', LogInv, LogInv', GrowthInv, NoLoop, ElectionSafety,
           NEW s \in Server, NEW f \in Server, LeaderRetry(s, f)
    PROVE  GrowthInv'
<1>1. /\ role[s] = "Leader" /\ serving[s] # None
      /\ UNCHANGED <<role, currTerm, bcLog, elected, serving>>
      /\ \/ SteadyStep
         \/ \E prev \in Index :
                /\ prev <= Len(bcLog[s]) - 2
                /\ NetMoves(s, AppendFrom(s, bcLog[s], prev))
                /\ Links' \subseteq Links
  BY RetryShape
<1>2. CASE SteadyStep  BY <1>2, GrowthQuiet
<1>3. ASSUME NEW prev \in Index, prev <= Len(bcLog[s]) - 2,
             NetMoves(s, AppendFrom(s, bcLog[s], prev)), Links' \subseteq Links
      PROVE  GrowthInv'
  <2> DEFINE m == AppendFrom(s, bcLog[s], prev)
  <2>1. bcLog[s] \in Seq(Block) /\ Len(bcLog[s]) \in Nat
    BY ChainTypesAt DEF TypeInv
  <2>2. bcLog[s][Len(bcLog[s])].term = currTerm[s]
    <3>1. bcLog[s] # <<>> /\ LastTerm(bcLog[s]) = currTerm[s]
      BY <1>1 DEF GrowthInv, ServesOwnBlock, TypeInv, LeaderShape
    <3> QED  BY <3>1 DEF LastTerm
  <2>3. Len(bcLog[s]) <= Len(bcLog[s]) /\ Len(bcLog[s]) <= Len(bcLog[s]) + 1
    BY <2>1
  <2>4. \A q \in Server : bcLog'[q] = IF q = s THEN bcLog[s] ELSE bcLog[q]
    BY <1>1
  <2>5. \A q \in Server \ {s} : serving'[q] = serving[q]  BY <1>1
  <2>6. \A k \in DOMAIN bcLog[s] : bcLog[s][k] = bcLog[s][k]  OBVIOUS
  <2>7. \A l \in Links' : l \in Links
            \/ (l.block.term = currTerm[s] /\ l.at > Len(bcLog[s]))
    BY <1>3
  <2>8. UNCHANGED <<role, currTerm, elected>> /\ role[s] = "Leader"  BY <1>1
  <2>9. m = AppendFrom(s, bcLog[s], prev) /\ NetMoves(s, m)  BY <1>3
  <2> HIDE DEF m
  <2> QED
    BY <1>3, <2>1, <2>2, <2>3, <2>4, <2>5, <2>6, <2>7, <2>8, <2>9, GrowthOffers
<1> QED  BY <1>1, <1>2, <1>3

-----------------------------------------------------------------------------
(* The follower's step, the other steps, and the theorem.                  *)

\* Which blocks a chain has after clean_up_blocks.
LEMMA CleanUpPlaces ==
    ASSUME NEW log \in Seq(Block), NEW m \in AppendRpc, PrevMatches(log, m),
           NEW p, p = m.prevLogIndex + 1,
           NEW new, new = CleanUpBlocks(log, p, m.entries)
    PROVE  /\ p \in Nat
           /\ \A k \in DOMAIN new : k \in Int /\ \A j \in 1 .. k : j \in DOMAIN new
           /\ \A k \in DOMAIN new : k <= p =>
                /\ k \in DOMAIN log /\ new[k] = log[k] /\ k \in 1 .. p
                /\ p \in DOMAIN log /\ log[p].term = m.prevLogTerm
                /\ m.prevLogIndex # -1
           /\ \A k \in DOMAIN new : ~(k <= p) =>
                \E e \in DOMAIN m.entries : k = p + e /\ new[k] = m.entries[e]
<1> DEFINE n == Len(m.entries)
           h == Len(log)
<1>1. /\ p \in 0 .. h /\ p \in Nat /\ n \in Nat
      /\ p # 0 => log[p].term = m.prevLogTerm
      /\ DOMAIN new = 1 .. p + n
      /\ \A k \in 1 .. p : new[k] = log[k]
      /\ \A e \in 1 .. n : new[p + e] = m.entries[e]
  BY CleanUpShape
<1>2. m.entries \in Seq(Block) /\ m.prevLogIndex \in Int
  BY DEF AppendRpc, Index
<1>3. DOMAIN log = 1 .. h /\ DOMAIN m.entries = 1 .. n /\ h \in Nat  BY <1>2
<1> HIDE DEF n, h
<1>4. \A k \in DOMAIN new : k \in Int /\ \A j \in 1 .. k : j \in DOMAIN new
  BY ONLY <1>1
<1>5. ASSUME NEW k \in DOMAIN new, k <= p
      PROVE  /\ k \in DOMAIN log /\ new[k] = log[k] /\ k \in 1 .. p
             /\ p \in DOMAIN log /\ log[p].term = m.prevLogTerm
             /\ m.prevLogIndex # -1
  <2>1. k \in 1 .. p /\ p # 0 /\ k \in 1 .. h /\ p \in 1 .. h
    BY ONLY <1>1, <1>3, <1>5
  <2>2. m.prevLogIndex # -1  BY <1>2, <2>1
  <2> QED  BY <1>1, <1>3, <2>1, <2>2
<1>6. ASSUME NEW k \in DOMAIN new, ~(k <= p)
      PROVE  \E e \in DOMAIN m.entries : k = p + e /\ new[k] = m.entries[e]
  <2>1. k - p \in 1 .. n /\ k = p + (k - p)  BY ONLY <1>1, <1>6
  <2>2. new[k] = m.entries[k - p]  BY <1>1, <2>1
  <2> QED  BY <1>3, <2>1, <2>2
<1> QED  BY <1>1, <1>4, <1>5, <1>6

LEMMA GrowthFollowerAppend ==
    ASSUME TypeInv, TypeInv', LogInv, LogInv', GrowthInv, NoLoop, ElectionSafety,
           NEW s \in Server, NEW i \in Server, FollowerAppend(s, i)
    PROVE  GrowthInv'
<1> USE DEF TypeInv
<1>1. PICK m \in Arriving(i, s, "APP_ENTR_RPC") : FollowerAppend(s, i)!(m)
  BY DEF FollowerAppend
<1> DEFINE ok == PrevMatches(bcLog[s], m)
           reply == AppendReply(m.term, ok, FALSE)
           p == m.prevLogIndex + 1
           log == bcLog[s]
           new == CleanUpBlocks(log, p, m.entries)
<1>2. m \in Message /\ net[i][s] # <<>> /\ m = Head(net[i][s])
      /\ m.type = "APP_ENTR_RPC"
  BY ArrivingType
<1>3. m \in AppendRpc /\ m.term \in Term  BY <1>2, MessageKinds
<1>4. /\ role[s] = "Follower" /\ m.term >= currTerm[s] /\ m.entries # <<>>
      /\ currTerm' = [currTerm EXCEPT ![s] = m.term]
      /\ bcLog' = IF ok THEN [bcLog EXCEPT ![s] = new] ELSE bcLog
      /\ net' = Push(Pop(net, i, s), s, i, reply)
      /\ UNCHANGED <<role, serving, elected>>
  BY <1>1 DEF AdoptTerm, stateObjVars, electionHist
<1>5. /\ net[i][s] \in Seq(Message) /\ net \in Net
      /\ 1 \in DOMAIN net[i][s] /\ m = net[i][s][1]
  <2>1. net[i][s] \in Seq(Message) /\ net \in Net  BY DEF TypeOK, NetTypes, Net
  <2> QED  BY <1>2, <2>1
<1>6. m \in Offers(net) /\ IsAppend(m)
  BY <1>2, <1>4, <1>5, OffersIn DEF IsAppend
<1>7. reply \in Message /\ ~IsAppend(reply) /\ reply.type # "APP_ENTR_RPC"
  <2>1. ok \in BOOLEAN  BY DEF PrevMatches
  <2> HIDE DEF ok
  <2> QED  BY <1>3, <2>1, AppendReplyType DEF AppendReply, IsAppend
<1>8. Links' \subseteq Links  BY AppendMakesNoLink
<1> HIDE DEF ok, reply, p, new
<1>9. NetMoves(s, reply)  BY <1>2, <1>4, <1>7, MovesReply
<1>10. net'[i][s] = Tail(net[i][s])
  <2>1. Pop(net, i, s) \in Net /\ i # s  BY <1>2, <1>5, PopType DEF NoLoop
  <2>2. net'[i][s] = Pop(net, i, s)[i][s]  BY <1>4, <1>7, <2>1, PushAt
  <2> QED  BY <1>2, <1>5, <2>2, PopAt
<1>11. /\ \A q \in Server \ {s} : bcLog'[q] = bcLog[q] /\ currTerm'[q] = currTerm[q]
       /\ bcLog'[s] = IF ok THEN new ELSE log
       /\ currTerm'[s] = m.term
  BY <1>4 DEF TypeOK, ChainTypes, ServerTypes
<1>12. ASSUME ok
       PROVE  /\ p \in Nat
              /\ \A k \in DOMAIN new :
                    k \in Int /\ \A j \in 1 .. k : j \in DOMAIN new
              /\ \A k \in DOMAIN new : k <= p =>
                    /\ k \in DOMAIN log /\ new[k] = log[k] /\ k \in 1 .. p
                    /\ p \in DOMAIN log /\ log[p].term = m.prevLogTerm
                    /\ m.prevLogIndex # -1
              /\ \A k \in DOMAIN new : ~(k <= p) =>
                    \E e \in DOMAIN m.entries : k = p + e /\ new[k] = m.entries[e]
  <2>1. log \in Seq(Block)  BY ChainTypesAt
  <2>2. p = m.prevLogIndex + 1 /\ new = CleanUpBlocks(log, p, m.entries)
        /\ PrevMatches(log, m)
    BY <1>12 DEF p, new, ok
  <2> HIDE DEF log
  <2> QED  BY <1>3, <2>1, <2>2, CleanUpPlaces
<1>13. /\ \A k \in DOMAIN log : log[k].term \in Int
       /\ m.prevLogTerm \in Int /\ currTerm[s] \in Int /\ m.term \in Int
       /\ \A e \in DOMAIN m.entries : e \in Int /\ m.entries[e].term \in Int
  <2>1. m.entries \in Seq(Block)  BY <1>6, OfferTypes
  <2>2. \A e \in DOMAIN m.entries : e \in Int  BY <2>1
  <2> QED  BY <1>6, <2>2, ChainTypesAt, OfferTypes
<1>14. \A e \in DOMAIN m.entries :
         /\ m.entries[e].term <= m.term
         /\ \A d \in 1 .. e : m.entries[d].term <= m.entries[e].term
         /\ m.prevLogIndex # -1 => m.prevLogTerm <= m.entries[e].term
  BY <1>6 DEF GrowthInv, OffersClimb
<1>15. \A k \in DOMAIN log :
         /\ log[k].term <= currTerm[s]
         /\ \A j \in 1 .. k : log[j].term <= log[k].term
  BY DEF GrowthInv, TermsClimb
<1>16. TermsClimb'
  <2> SUFFICES ASSUME NEW q \in Server, NEW k \in DOMAIN bcLog'[q]
               PROVE  /\ bcLog'[q][k].term <= currTerm'[q]
                      /\ \A j \in 1 .. k : bcLog'[q][j].term <= bcLog'[q][k].term
    BY DEF TermsClimb
  <2>1. CASE q # s  BY <1>11, <2>1 DEF GrowthInv, TermsClimb
  <2>2. CASE q = s /\ ~ok
    <3>1. bcLog'[q] = log /\ currTerm'[q] = m.term  BY <1>11, <2>2
    <3>2. log[k].term <= m.term
      BY <1>4, <1>13, <1>15, <3>1
    <3> QED  BY <1>15, <3>1, <3>2
  <2>3. CASE q = s /\ ok
    <3>1. bcLog'[q] = new /\ currTerm'[q] = m.term /\ k \in DOMAIN new
      BY <1>11, <2>3
    <3>2. CASE k <= p
      <4>1. k \in DOMAIN log /\ new[k] = log[k] /\ k \in 1 .. p
        BY <1>12, <2>3, <3>1, <3>2
      <4>2. \A j \in 1 .. k : j \in DOMAIN new /\ j <= p
        BY <1>12, <2>3, <3>1, <3>2
      <4>3. \A j \in 1 .. k : new[j] = log[j]  BY <1>12, <2>3, <4>2
      <4>4. log[k].term <= m.term  BY <1>4, <1>13, <1>15, <4>1
      <4> QED  BY <1>15, <3>1, <4>1, <4>3, <4>4
    <3>3. CASE ~(k <= p)
      <4>1. PICK e \in DOMAIN m.entries : k = p + e /\ new[k] = m.entries[e]
        BY <1>12, <2>3, <3>1, <3>3
      <4>2. ASSUME NEW j \in 1 .. k PROVE new[j].term <= new[k].term
        <5>1. j \in DOMAIN new /\ j \in Int /\ p \in Int
          BY <1>12, <2>3, <3>1
        <5>2. CASE j <= p
          <6>1. /\ j \in 1 .. p /\ new[j] = log[j] /\ p \in DOMAIN log
                /\ log[p].term = m.prevLogTerm /\ m.prevLogIndex # -1
                /\ j \in DOMAIN log
            BY <1>12, <2>3, <5>1, <5>2
          <6>2. log[j].term <= log[p].term /\ m.prevLogTerm <= m.entries[e].term
            BY <1>14, <1>15, <6>1
          <6> QED  BY <1>13, <4>1, <6>1, <6>2
        <5>3. CASE ~(j <= p)
          <6>1. PICK d \in DOMAIN m.entries : j = p + d /\ new[j] = m.entries[d]
            BY <1>12, <2>3, <5>1, <5>3
          <6>2. d \in Int /\ e \in Int /\ 1 <= d
            <7>1. m.entries \in Seq(Block)  BY <1>6, OfferTypes
            <7> QED  BY <7>1
          <6>3. d \in 1 .. e  BY ONLY <4>1, <4>2, <5>1, <6>1, <6>2
          <6> QED  BY <1>14, <4>1, <6>1, <6>3
        <5> QED  BY <5>2, <5>3
      <4> QED  BY <1>14, <3>1, <4>1, <4>2
    <3> QED  BY <3>2, <3>3
  <2> QED  BY <2>1, <2>2, <2>3
\* Where its chain has a block of the term of a link, it has that link.
<1>17. \A l \in Links' : l.at \in DOMAIN bcLog'[s]
            /\ bcLog'[s][l.at].term = l.block.term => l \in ChainLinks(bcLog'[s])
  <2>1. (\A a \in Server : ChainLinks(bcLog[a]) \subseteq Links)'
    BY ChainsAreLinks, PTL
  <2>2. ChainLinks(bcLog'[s]) \subseteq Links'  BY <2>1
  <2> QED  BY <2>2, LinkOfChain DEF LogInv, LinkUnique
<1>18. ChainsFull'
  <2> SUFFICES ASSUME NEW q \in Server, NEW k \in DOMAIN bcLog'[q], NEW l \in Links',
                      l.block.term = bcLog'[q][k].term, l.at <= k
               PROVE  l \in ChainLinks(bcLog'[q])
    BY DEF ChainsFull
  <2>0. l \in Links  BY <1>8
  <2>1. CASE bcLog'[q] = bcLog[q]  BY <2>0, <2>1 DEF GrowthInv, ChainsFull
  <2>2. CASE q = s /\ ok
    <3>1. bcLog'[q] = new /\ k \in DOMAIN new  BY <1>11, <2>2
    <3>2. ASSUME l \in ChainLinks(log), l.at <= p
          PROVE  l \in ChainLinks(bcLog'[q])
      <4>1. l.at \in DOMAIN log /\ l.block = log[l.at]  BY <3>2, ChainPlaces
      <4>2. l.at \in 1 .. k
        <5>1. l.at \in Int /\ 1 <= l.at /\ k \in Int
          BY <1>12, <2>2, <3>1, <4>1, ChainTypesAt
        <5> QED  BY <5>1
      <4>3. l.at \in DOMAIN new /\ new[l.at] = log[l.at]
        BY <1>12, <2>2, <3>1, <3>2, <4>2
      <4> QED  BY <1>17, <2>2, <3>1, <4>1, <4>3
    <3>3. CASE k <= p
      <4>1. k \in DOMAIN log /\ new[k] = log[k]  BY <1>12, <2>2, <3>1, <3>3
      <4>2. l \in ChainLinks(log)
        BY <2>0, <3>1, <4>1 DEF GrowthInv, ChainsFull
      <4>3. l.at \in Int  BY <4>2, ChainPlaces, ChainTypesAt
      <4>4. l.at <= p
        <5>1. k \in Int /\ p \in Int  BY <1>12, <2>2, <3>1
        <5> QED  BY <3>3, <4>3, <5>1
      <4> QED  BY <3>2, <4>2, <4>4
    <3>4. CASE ~(k <= p)
      <4>1. PICK e \in DOMAIN m.entries : k = p + e /\ new[k] = m.entries[e]
        BY <1>12, <2>2, <3>1, <3>4
      <4>2. IF l.at <= p THEN m.prevLogTerm = l.block.term ELSE l \in OfferLinks(m)
        BY <1>6, <2>0, <3>1, <4>1 DEF GrowthInv, OffersFull, p
      <4>3. l.at \in Int /\ 1 <= l.at  BY <2>0, LinkPlaces
      <4>4. CASE l.at <= p
        <5>1. l.at \in 1 .. k  BY <1>12, <2>2, <3>1, <4>3
        <5>2. l.at \in DOMAIN new  BY <1>12, <2>2, <3>1, <5>1
        <5>3. p \in DOMAIN log /\ log[p].term = m.prevLogTerm
          BY <1>12, <2>2, <4>4, <5>2
        <5>4. l.block.term = log[p].term  BY <4>2, <4>4, <5>3
        <5>5. l \in ChainLinks(log)
          BY <2>0, <4>4, <5>3, <5>4 DEF GrowthInv, ChainsFull
        <5> QED  BY <3>2, <4>4, <5>5
      <4>5. CASE ~(l.at <= p)
        <5>1. PICK d \in DOMAIN m.entries :
                l = Link(m.prevLogIndex + 1 + d, m.entries[d], OfferedBefore(m, d))
          BY <4>2, <4>5, OfferLinksIn
        <5>2. l.at = p + d /\ l.block = m.entries[d]  BY <5>1 DEF Link, p
        <5>3. l.at \in 1 .. k  BY <1>12, <2>2, <3>1, <4>3
        <5>4. l.at \in DOMAIN new  BY <1>12, <2>2, <3>1, <5>3
        <5>5. PICK c \in DOMAIN m.entries : l.at = p + c /\ new[l.at] = m.entries[c]
          BY <1>12, <2>2, <4>5, <5>4
        <5>6. c = d  BY <1>12, <1>13, <2>2, <5>2, <5>5, SMTT(30)
        <5> QED  BY <1>17, <2>2, <3>1, <5>2, <5>4, <5>5, <5>6
      <4> QED  BY <4>4, <4>5
    <3> QED  BY <3>3, <3>4
  <2> QED  BY <1>11, <2>1, <2>2
<1>19. ServesOwnBlock'
  <2> SUFFICES ASSUME NEW q \in Server, serving[q] # None
               PROVE  LastTerm(bcLog'[q]) = currTerm'[q]
    BY <1>4 DEF ServesOwnBlock
  <2>1. q # s  BY <1>4 DEF LeaderShape
  <2> QED  BY <1>11, <2>1 DEF GrowthInv, ServesOwnBlock
<1>20. OffersElected'
  <2> SUFFICES ASSUME NEW a \in Server, NEW b \in Server,
                      NEW k \in DOMAIN net'[a][b],
                      net'[a][b][k].type = "APP_ENTR_RPC"
               PROVE  <<net'[a][b][k].term, a>> \in elected
    BY <1>4 DEF OffersElected
  <2>1. PICK d \in {0, 1} : \A c \in DOMAIN net'[a][b] :
          IF c + d \in DOMAIN net[a][b]
          THEN net'[a][b][c] = net[a][b][c + d] ELSE net'[a][b][c] = reply
    BY <1>9 DEF NetMoves
  <2>2. k + d \in DOMAIN net[a][b] /\ net'[a][b][k] = net[a][b][k + d]
    BY <1>7, <2>1
  <2> QED  BY <2>2 DEF GrowthInv, OffersElected
\* What follows the append that was taken reaches as far as it did.
<1>21. OffersReachOn'
  <2> SUFFICES ASSUME NEW a \in Server, NEW b \in Server,
                      NEW k \in DOMAIN net'[a][b], IsAppend(net'[a][b][k]),
                      currTerm'[b] <= net'[a][b][k].term,
                      NEW c \in DOMAIN bcLog'[b],
                      bcLog'[b][c].term = net'[a][b][k].term
               PROVE  c <= EndOf(net'[a][b][k])
    BY DEF OffersReachOn
  <2> DEFINE o == net'[a][b][k]
  <2>1. PICK d \in {0, 1} : \A e \in DOMAIN net'[a][b] :
          IF e + d \in DOMAIN net[a][b]
          THEN net'[a][b][e] = net[a][b][e + d] ELSE net'[a][b][e] = reply
    BY <1>9 DEF NetMoves
  <2>2. k + d \in DOMAIN net[a][b] /\ o = net[a][b][k + d]
    BY <1>7, <2>1
  <2>3. o \in Offers(net) /\ o.term \in Int
    BY <2>2, OffersIn, OfferTypes DEF IsAppend
  <2>4. ASSUME c \in DOMAIN bcLog[b], bcLog[b][c] = bcLog'[b][c]
        PROVE  c <= EndOf(o)
    <3>1. currTerm[b] <= o.term
      <4>1. CASE b # s  BY <1>11, <4>1
      <4>2. CASE b = s  BY <1>4, <1>11, <1>13, <2>3, <4>2
      <4> QED  BY <4>1, <4>2
    <3>2. IsAppend(net[a][b][k + d]) /\ currTerm[b] <= net[a][b][k + d].term
          /\ bcLog[b][c].term = net[a][b][k + d].term
      BY <2>2, <2>4, <3>1
    <3>3. c <= EndOf(net[a][b][k + d])
      BY <2>2, <2>4, <3>2 DEF GrowthInv, OffersReachOn
    <3> QED  BY <2>2, <3>3
  <2>5. CASE bcLog'[b] = bcLog[b]  BY <2>4, <2>5
  <2>6. CASE b = s /\ ok
    <3>1. bcLog'[b] = new /\ c \in DOMAIN new  BY <1>11, <2>6
    <3>2. CASE c <= p
      <4>1. c \in DOMAIN log /\ new[c] = log[c]  BY <1>12, <2>6, <3>1, <3>2
      <4> QED  BY <2>4, <2>6, <3>1, <4>1
    <3>3. CASE ~(c <= p)
      <4>1. PICK e \in DOMAIN m.entries : c = p + e /\ new[c] = m.entries[e]
        BY <1>12, <2>6, <3>1, <3>3
      <4>2. o.term = m.term
        <5>1. m.term <= o.term /\ o.term <= m.term
          BY <1>11, <1>14, <2>6, <3>1, <4>1
        <5> QED  BY <1>13, <2>3, <5>1
      <4>3. a = i
        <5>1. <<o.term, a>> \in elected /\ <<m.term, i>> \in elected
          BY <1>2, <1>5, <1>4, <1>20 DEF OffersElected, IsAppend, GrowthInv
        <5>2. <<o.term, a>>[1] = <<m.term, i>>[1]  BY <4>2
        <5>3. <<o.term, a>> = <<m.term, i>>
          BY <5>1, <5>2 DEF ElectionSafety
        <5> QED  BY <5>3
      <4>4. k \in Int /\ k + 1 \in DOMAIN net[i][s] /\ k + 1 > 1
            /\ o = net[i][s][k + 1]
        <5>1. net'[i][s] = Tail(net[i][s]) /\ k \in DOMAIN Tail(net[i][s])
              /\ o = Tail(net[i][s])[k]
          BY <1>10, <2>6, <4>3
        <5> HIDE DEF o
        <5> QED  BY <1>2, <1>5, <5>1
      <4>5. EndOf(m) <= EndOf(o)
        <5>1. IsAppend(net[i][s][1]) /\ IsAppend(net[i][s][k + 1])
              /\ net[i][s][k + 1].term = net[i][s][1].term
          BY <1>5, <1>6, <4>2, <4>4
        <5>2. EndOf(net[i][s][1]) <= EndOf(net[i][s][k + 1])
          BY <1>5, <4>4, <5>1 DEF GrowthInv, OffersInOrder
        <5> QED  BY <1>5, <4>4, <5>2
      <4>6. c <= EndOf(m) /\ c \in Int /\ EndOf(m) \in Int
        <5>1. /\ m.entries \in Seq(Block) /\ m.prevLogIndex \in Int
              /\ Len(m.entries) \in Nat
          BY <1>6, OfferTypes
        <5>2. DOMAIN m.entries = 1 .. Len(m.entries)  BY <5>1
        <5> QED  BY <4>1, <5>1, <5>2 DEF EndOf, p
      <4>7. EndOf(o) \in Int
        <5>1. /\ o.entries \in Seq(Block) /\ o.prevLogIndex \in Int
          BY <2>3, OfferTypes
        <5> HIDE DEF o
        <5> QED  BY <5>1 DEF EndOf
      <4> HIDE DEF o
      <4>8. c <= EndOf(o)  BY ONLY <4>5, <4>6, <4>7
      <4> QED  BY <4>8 DEF o
    <3> QED  BY <3>2, <3>3
  <2> QED  BY <1>11, <2>5, <2>6
<1> QED
  BY <1>7, <1>8, <1>9, <1>16, <1>18, <1>19, <1>20, <1>21, NoBlocksSent
  DEF GrowthInv

LEMMA GrowthInit == Init => GrowthInv
<1> SUFFICES ASSUME Init PROVE GrowthInv
  OBVIOUS
<1>1. /\ \A q \in Server : bcLog[q] = <<>> /\ serving[q] = None
      /\ \A a, b \in Server : net[a][b] = <<>>
  BY DEF Init
<1>2. DOMAIN <<>> = {}  OBVIOUS
<1>3. \A o : o \notin Offers(net)  BY <1>1, <1>2, OffersIn
<1> QED
  BY <1>1, <1>2, <1>3
  DEF GrowthInv, TermsClimb, OffersClimb, ServesOwnBlock, OffersOwnBlock,
      OffersElected, OffersInOrder, OffersReachOn, ChainsFull, OffersFull

LEMMA GrowthStep ==
    TypeInv /\ TypeInv' /\ ElectionInv /\ ElectionSafety /\ LogInv /\ LogInv'
        /\ GrowthInv /\ [Next]_vars => GrowthInv'
<1> SUFFICES ASSUME TypeInv, TypeInv', ElectionInv, ElectionSafety,
                    LogInv, LogInv', GrowthInv, [Next]_vars
             PROVE  GrowthInv'
  OBVIOUS
<1>1. NoLoop  BY DEF ElectionInv
<1>2. CASE SteadyStep  BY <1>2, GrowthQuiet
<1>3. ASSUME NEW s \in Server, NEW r \in Request, LeaderTakeRequest(s, r)
      PROVE  GrowthInv'
  BY <1>1, <1>3, GrowthTakeRequest
<1>4. ASSUME NEW s \in Server, NEW i \in Server, FollowerAppend(s, i)
      PROVE  GrowthInv'
  BY <1>1, <1>4, GrowthFollowerAppend
<1>5. ASSUME NEW s \in Server, NEW f \in Server, LeaderRetry(s, f)
      PROVE  GrowthInv'
  BY <1>1, <1>5, GrowthRetry
<1> QED  BY <1>1, <1>2, <1>3, <1>4, <1>5, StepKinds

\* How chains grow, in every reachable state: terms never fall along a chain of
\* state.cpp, its leaders alone offer blocks, each with one of its own term last,
\* and a chain that has a block of a term has all of that term before it.
THEOREM GrowthInvariant == Spec => []GrowthInv
<1>1. Init => GrowthInv  BY GrowthInit
<1> QED
  BY <1>1, GrowthStep, TypeCorrect, ElectionInvariant, ElectionSafe, LogInvariant,
     PTL DEF Spec

-----------------------------------------------------------------------------
(* What is chosen and what is executed.                                    *)

BaseInv == TypeInv /\ ElectionInv /\ ElectionSafety /\ LogInv /\ GrowthInv

-----------------------------------------------------------------------------
(* Chains that hold a block.                                               *)

LEMMA HoldsAt ==
    ASSUME NEW log \in Seq(Block), NEW x \in Int, NEW b
    PROVE  Holds(log, x, b) <=> x + 1 \in DOMAIN log /\ log[x + 1] = b
<1>1. x \in 0 .. LastIndex(log) <=> x + 1 \in DOMAIN log  BY DEF LastIndex
<1> QED  BY <1>1 DEF Holds, BlockAt

LEMMA ServerHolds ==
    ASSUME TypeOK, NEW s \in Server, NEW x \in Index, NEW b
    PROVE  /\ x \in Int
           /\ Holds(bcLog[s], x, b) <=>
                    x + 1 \in DOMAIN bcLog[s] /\ bcLog[s][x + 1] = b
<1>1. bcLog[s] \in Seq(Block) /\ x \in Int  BY ChainTypesAt DEF Index
<1> QED  BY <1>1, HoldsAt

\* A block held by a chain is a link, and every chain that reaches as far with
\* a block of its term has it.
LEMMA HeldLink ==
    ASSUME TypeOK, NEW s \in Server, NEW x \in Index, NEW b,
           Holds(bcLog[s], x, b)
    PROVE  \E l \in Links : l.at = x + 1 /\ l.block = b
<1>1. x + 1 \in DOMAIN bcLog[s] /\ bcLog[s][x + 1] = b  BY ServerHolds
<1>2. \E l \in Links : l.at = x + 1 /\ l.block = bcLog[s][x + 1]
  BY <1>1, PlaceLinks
<1> QED  BY <1>1, <1>2

LinkedBlocks ==
    \A a \in Server : \A j \in DOMAIN bcLog[a] :
        \E l \in Links : l.at = j /\ l.block = bcLog[a][j]

LEMMA BlocksAreLinks == LinkedBlocks
BY PlaceLinks DEF LinkedBlocks

LEMMA LinkHeld ==
    ASSUME TypeOK, NEW s \in Server, NEW x \in Index, NEW b,
           NEW l \in ChainLinks(bcLog[s]), l.at = x + 1, l.block = b
    PROVE  Holds(bcLog[s], x, b)
BY ChainPlaces, ServerHolds

LEMMA LaterHolds ==
    ASSUME TypeInv, GrowthInv, NEW x \in Index, NEW b \in Block, Safe(x, b),
           AcceptedBy(x, b) # {},
           NEW s \in Server, NEW k \in DOMAIN bcLog[s],
           bcLog[s][k].term >= b.term, x + 1 <= k
    PROVE  Holds(bcLog[s], x, b)
<1>1. bcLog[s][k].term \in Int /\ b.term \in Int
  BY ChainTypesAt DEF TypeInv, Block, Term
<1>2. CASE bcLog[s][k].term > b.term
  BY <1>2 DEF Safe, BelowLaterBlocks
<1>3. CASE bcLog[s][k].term = b.term
  <2>1. PICK q \in AcceptedBy(x, b) : TRUE  OBVIOUS
  <2>2. q \in Server /\ Holds(bcLog[q], x, b)
    BY <2>1 DEF AcceptedBy, Safe, KeptByAccepters
  <2>3. PICK l \in Links : l.at = x + 1 /\ l.block = b
    BY <2>2, HeldLink DEF TypeInv
  <2>4. l \in ChainLinks(bcLog[s])
    BY <1>3, <2>3 DEF GrowthInv, ChainsFull
  <2> QED  BY <2>3, <2>4, LinkHeld DEF TypeInv
<1> QED  BY <1>1, <1>2, <1>3

\* A block that is dead stays so: blocks are accepted in their own term.
OwnTermOnly ==
    \A a \in accepted' : a \in accepted \/ a[3].term = currTerm'[a[1]]
TermsGrow == \A q \in Server : currTerm[q] <= currTerm'[q]

LEMMA DeadStays ==
    ASSUME TypeOK, TypeOK', TermsGrow, OwnTermOnly,
           NEW x, NEW b \in Block, Dead(x, b)
    PROVE  Dead(x, b)'
<1>1. PICK W \in SUBSET Server :
        /\ Cardinality(W) >= Majority
        /\ \A w \in W : currTerm[w] > b.term /\ w \notin AcceptedBy(x, b)
  BY DEF Dead
<1>2. ASSUME NEW w \in W
      PROVE  currTerm'[w] > b.term /\ w \notin AcceptedBy(x, b)'
  <2>1. /\ b.term \in Int /\ currTerm[w] \in Int /\ currTerm'[w] \in Int
        /\ currTerm[w] <= currTerm'[w] /\ currTerm[w] > b.term
    BY <1>1 DEF TypeOK, ServerTypes, Block, Term, TermsGrow
  <2>2. currTerm'[w] > b.term  BY <2>1
  <2>3. <<w, x, b>> \notin accepted  BY <1>1 DEF AcceptedBy
  <2>4. <<w, x, b>>[3].term = b.term /\ <<w, x, b>>[1] = w  OBVIOUS
  <2>5. <<w, x, b>> \notin accepted'
    BY <2>1, <2>2, <2>3, <2>4 DEF OwnTermOnly
  <2> QED  BY <2>2, <2>5 DEF AcceptedBy
<1> QED  BY <1>1, <1>2 DEF Dead, Majority

-----------------------------------------------------------------------------
(* Steps that send no blocks.                                              *)

\* A server that leads or stands after a step did so before, in that term.
RolesStay ==
    /\ UNCHANGED votes
    /\ \A q \in Server : role'[q] # "Follower" =>
            role'[q] = role[q] /\ currTerm'[q] = currTerm[q]

LEMMA SteadySafe ==
    ASSUME SteadyStep, NEW x, NEW b, Safe(x, b),
           HeldByLaterLeaders(x, b)', HeldByVotedFor(x, b)'
    PROVE  Safe(x, b)'
<1>1. bcLog' = bcLog /\ accepted' = accepted  BY DEF SteadyStep
<1>2. KeptByAccepters(x, b)' /\ BelowLaterBlocks(x, b)'
  BY <1>1 DEF Safe, KeptByAccepters, BelowLaterBlocks, AcceptedBy
<1>3. PICK s \in Server, m \in Message : NetMoves(s, m) /\ NoBlocks(s, m)
  BY DEF SteadyStep
<1>4. OfferedLater(x, b)'
  <2> SUFFICES ASSUME NEW o \in Offers(net'), o.entries # <<>>, o.term > b.term
               PROVE  Covers(o, x, b)
    BY DEF OfferedLater, Covers
  <2>1. o \in Offers(net) \/ o = m  BY <1>3, MovesOffers
  <2>2. o # m
    <3>1. o.type = "APP_ENTR_RPC"  BY OffersIn
    <3>2. m.type = "APP_ENTR_RPC" => m.entries = <<>>
      BY <1>3 DEF NoBlocks, Heartbeat
    <3> QED  BY <3>1, <3>2
  <2> QED  BY <2>1, <2>2 DEF Safe, OfferedLater
<1> QED  BY <1>2, <1>4 DEF Safe

LEMMA RolesStaySafe ==
    ASSUME SteadyStep, RolesStay, NEW x, NEW b, Safe(x, b)
    PROVE  Safe(x, b)'
<1>1. bcLog' = bcLog /\ accepted' = accepted  BY DEF SteadyStep
<1>2. HeldByLaterLeaders(x, b)'
  BY <1>1 DEF RolesStay, Safe, HeldByLaterLeaders
<1>3. HeldByVotedFor(x, b)'
  BY <1>1 DEF RolesStay, Safe, HeldByVotedFor, AcceptedBy
<1> QED  BY <1>2, <1>3, SteadySafe

\* A new candidate has but its own vote.
LEMMA CandidateSafe ==
    ASSUME TypeInv, VotesReached, NEW s \in Server, BecomeCandidate(s),
           SteadyStep, NEW x, NEW b, Safe(x, b)
    PROVE  Safe(x, b)'
<1>1. bcLog' = bcLog /\ accepted' = accepted  BY DEF SteadyStep
<1>2. /\ \A q \in Server : role'[q] = IF q = s THEN "Candidate" ELSE role[q]
      /\ \A q \in Server :
            currTerm'[q] = IF q = s THEN currTerm[s] + 1 ELSE currTerm[q]
      /\ votes' = votes \cup {<<currTerm[s] + 1, s, s>>}
      /\ currTerm[s] \in Int
  BY DEF BecomeCandidate, TypeInv, TypeOK, ServerTypes, Term
<1>3. HeldByLaterLeaders(x, b)'  BY <1>1, <1>2 DEF Safe, HeldByLaterLeaders
<1>4. HeldByVotedFor(x, b)'
  <2> SUFFICES ASSUME NEW q \in AcceptedBy(x, b), NEW c \in Server,
                      role'[c] = "Candidate", currTerm'[c] > b.term,
                      <<currTerm'[c], q, c>> \in votes'
               PROVE  Holds(bcLog[c], x, b)
    BY <1>1 DEF HeldByVotedFor, AcceptedBy
  <2>1. CASE c # s
    <3>1. <<currTerm[c], q, c>> # <<currTerm[s] + 1, s, s>>  BY <2>1
    <3>2. <<currTerm[c], q, c>> \in votes  BY <1>2, <2>1, <3>1
    <3> QED  BY <1>2, <2>1, <3>2 DEF Safe, HeldByVotedFor
  <2>2. CASE c = s
    <3>1. <<currTerm[s] + 1, q, s>> \notin votes
      <4> SUFFICES ASSUME <<currTerm[s] + 1, q, s>> \in votes PROVE FALSE
        OBVIOUS
      <4>1. currTerm[s] + 1 \in Term /\ q \in Server
        BY DEF TypeInv, TypeOK, HistoryTypes
      <4>2. currTerm[s] + 1 <= currTerm[s]  BY <4>1 DEF VotesReached
      <4> QED  BY <1>2, <4>2
    <3>2. <<currTerm[s] + 1, q, s>> = <<currTerm[s] + 1, s, s>>
      BY <1>2, <2>2, <3>1
    <3>3. q = s  BY <3>2
    <3> QED  BY <2>2, <3>3 DEF Safe, KeptByAccepters
  <2> QED  BY <2>1, <2>2
<1> QED  BY <1>3, <1>4, SteadySafe

\* A voter that has accepted the block votes for a chain that has it.
LEMMA VotedChainHolds ==
    ASSUME TypeInv, GrowthInv, NEW s \in Server, NEW c \in Server,
           NEW m \in VoteRpc, LogUpToDate(s, m),
           m.lastLogTerm = LastTerm(bcLog[c]),
           m.lastLogIndex = LastIndex(bcLog[c]),
           NEW x \in Index, NEW b \in Block, Safe(x, b), s \in AcceptedBy(x, b)
    PROVE  Holds(bcLog[c], x, b)
<1> DEFINE log == bcLog[s]
           n == Len(bcLog[c])
<1>1. /\ log \in Seq(Block) /\ Len(log) \in Nat /\ DOMAIN log = 1 .. Len(log)
      /\ \A k \in DOMAIN log : log[k].term \in Int
      /\ n \in Nat /\ DOMAIN bcLog[c] = 1 .. n
      /\ \A k \in 1 .. n : bcLog[c][k].term \in Int
      /\ x \in Int /\ b.term \in Int /\ b.term >= 0
  <2>1. x \in Int /\ b.term \in Int /\ b.term >= 0  BY DEF Index, Block, Term
  <2>2. \A q \in Server :
            /\ bcLog[q] \in Seq(Block) /\ Len(bcLog[q]) \in Nat
            /\ DOMAIN bcLog[q] = 1 .. Len(bcLog[q])
            /\ \A k \in DOMAIN bcLog[q] : bcLog[q][k].term \in Int
    BY ChainTypesAt DEF TypeInv
  <2> QED  BY <2>1, <2>2
<1>2. x + 1 \in DOMAIN log /\ log[x + 1] = b
  BY ServerHolds DEF TypeInv, Safe, KeptByAccepters
<1>3. /\ x + 1 <= Len(log) /\ log[Len(log)].term >= b.term /\ log # <<>>
      /\ Len(log) \in DOMAIN log
  <2>1. Len(log) \in DOMAIN log /\ x + 1 \in 1 .. Len(log)  BY <1>1, <1>2
  <2>2. log[x + 1].term <= log[Len(log)].term
    BY <2>1 DEF GrowthInv, TermsClimb
  <2>3. log # <<>>  BY <2>1
  <2> QED  BY <1>1, <1>2, <2>1, <2>2, <2>3
<1>4. LastTerm(log) = log[Len(log)].term /\ LastTerm(log) >= b.term
      /\ LastTerm(log) \in Int
  BY <1>1, <1>3 DEF LastTerm
<1>5. LastTerm(bcLog[c]) =
        IF bcLog[c] = <<>> THEN 0 ELSE bcLog[c][n].term
  BY DEF LastTerm
<1>6. bcLog[c] # <<>> => n \in 1 .. n
  <2>1. bcLog[c] \in Seq(Block)  BY ChainTypesAt DEF TypeInv
  <2> QED  BY <1>1, <2>1
<1>7. LastIndex(log) = Len(log) - 1 /\ LastIndex(bcLog[c]) = n - 1
  BY DEF LastIndex
<1> HIDE DEF log, n
<1>8. CASE LastTerm(log) < LastTerm(bcLog[c])
  <2>1. bcLog[c] # <<>>  BY <1>1, <1>4, <1>5, <1>8
  <2>2. bcLog[c][n].term > b.term  BY <1>1, <1>4, <1>5, <1>6, <1>8, <2>1
  <2> QED  BY <1>1, <1>6, <2>1, <2>2 DEF Safe, BelowLaterBlocks
<1>9. CASE LastTerm(log) = LastTerm(bcLog[c])
           /\ LastIndex(log) <= LastIndex(bcLog[c])
  <2>1. x + 1 <= n /\ 1 <= n  BY <1>1, <1>2, <1>3, <1>7, <1>9
  <2>2. bcLog[c] # <<>> /\ n \in DOMAIN bcLog[c]
    <3>1. n \in DOMAIN bcLog[c]  BY <1>1, <2>1
    <3> QED  BY <3>1
  <2>3. bcLog[c][n].term >= b.term  BY <1>4, <1>5, <1>9, <2>2
  <2> QED  BY <2>1, <2>2, <2>3, LaterHolds
<1> QED  BY <1>8, <1>9 DEF LogUpToDate, log

LEMMA VoteSafe ==
    ASSUME TypeInv, GrowthInv, NoLoop, AsksWithChain,
           NEW s \in Server, NEW c \in Server, FollowerVote(s, c), SteadyStep,
           NEW x \in Index, NEW b \in Block, Safe(x, b)
    PROVE  Safe(x, b)'
<1>1. bcLog' = bcLog /\ accepted' = accepted  BY DEF SteadyStep
<1>2. PICK m \in Arriving(c, s, "REQ_VOTE_RPC") : FollowerVote(s, c)!(m)
  BY DEF FollowerVote
<1>3. m \in Message /\ net[c][s] # <<>> /\ m = Head(net[c][s])
      /\ m.type = "REQ_VOTE_RPC"
  BY ArrivingType DEF TypeInv
<1>4. m \in VoteRpc /\ m.term \in Int
  BY <1>3, MessageKinds DEF Term
<1>5. /\ role[s] = "Follower" /\ c # s /\ role' = role
      /\ \A q \in Server \ {s} : currTerm'[q] = currTerm[q]
  BY <1>2, <1>3 DEF NoLoop, TypeInv, TypeOK, ServerTypes
<1>6. 1 \in DOMAIN net[c][s] /\ m = net[c][s][1]
  <2>1. net[c][s] \in Seq(Message)  BY DEF TypeInv, TypeOK, NetTypes
  <2> QED  BY <1>3, <2>1
<1>7. HeldByLaterLeaders(x, b)'
  BY <1>1, <1>5 DEF Safe, HeldByLaterLeaders
<1>8. HeldByVotedFor(x, b)'
  <2> SUFFICES ASSUME NEW q \in AcceptedBy(x, b), NEW d \in Server,
                      role'[d] = "Candidate", currTerm'[d] > b.term,
                      <<currTerm'[d], q, d>> \in votes'
               PROVE  Holds(bcLog[d], x, b)
    BY <1>1 DEF HeldByVotedFor, AcceptedBy
  <2>1. role[d] = "Candidate" /\ d # s /\ currTerm'[d] = currTerm[d]
    BY <1>5
  <2>2. CASE <<currTerm[d], q, d>> \in votes
    BY <2>1, <2>2 DEF Safe, HeldByVotedFor
  <2>3. CASE <<currTerm[d], q, d>> \notin votes
    <3>1. /\ GrantsVote(s, c, m)
          /\ votes' = votes \cup
                {<<IF m.term > currTerm[s] THEN m.term ELSE currTerm[s], s, c>>}
      BY <1>2, <2>1, <2>3
    <3>2. q = s /\ d = c
          /\ currTerm[c] = IF m.term > currTerm[s] THEN m.term ELSE currTerm[s]
      BY <2>1, <2>3, <3>1
    <3>3. currTerm[s] \in Int /\ m.term >= currTerm[s] /\ LogUpToDate(s, m)
      BY <3>1 DEF GrantsVote, TypeInv, TypeOK, ServerTypes, Term
    <3>4. m.term = currTerm[c]  BY <1>4, <3>2, <3>3
    <3>5. /\ m.lastLogTerm = LastTerm(bcLog[c])
          /\ m.lastLogIndex = LastIndex(bcLog[c])
      BY <1>3, <1>6, <2>1, <3>2, <3>4 DEF AsksWithChain
    <3> QED  BY <1>4, <3>2, <3>3, <3>5, VotedChainHolds
  <2> QED  BY <2>2, <2>3
<1> QED  BY <1>7, <1>8, SteadySafe

\* Of a leader's voters one has accepted the block, or none: it is dead.
LEMMA LeaderSafe ==
    ASSUME TypeInv, TypeInv', ElectionInv, ElectionInv',
           NEW s \in Server, NEW f \in Server, BecomeLeader(s, f), SteadyStep,
           NEW x \in Index, NEW b \in Block, Safe(x, b), ~Dead(x, b)
    PROVE  Safe(x, b)'
<1>1. bcLog' = bcLog /\ accepted' = accepted  BY DEF SteadyStep
<1>2. /\ role[s] = "Candidate" /\ currTerm' = currTerm /\ votes' = votes
      /\ elected' = elected \cup {<<currTerm[s], s>>}
      /\ \A q \in Server : role'[q] = IF q = s THEN "Leader" ELSE role[q]
  BY DEF BecomeLeader, TypeInv, TypeOK, ServerTypes
<1>3. HeldByVotedFor(x, b)'
  BY <1>1, <1>2 DEF Safe, HeldByVotedFor, AcceptedBy
<1>4. ASSUME currTerm[s] > b.term PROVE Holds(bcLog[s], x, b)
  <2>1. currTerm[s] \in Term  BY DEF TypeInv, TypeOK, ServerTypes
  <2>2. <<currTerm[s], s>> \in elected'  BY <1>2
  <2>3. PICK V \in SUBSET Server :
            /\ Cardinality(V) >= Majority
            /\ \A v \in V : <<currTerm[s], v, s>> \in votes'
    BY <2>1, <2>2 DEF ElectionInv, ElectedByMajority, Majority, VotedBy
  <2>4. Cardinality(V) >= Majority /\ VotedBy(V, currTerm[s], s)
    BY <1>2, <2>3 DEF VotedBy
  <2>5. CASE V \cap AcceptedBy(x, b) # {}
    <3>1. PICK q \in V : q \in AcceptedBy(x, b)  BY <2>5
    <3>2. <<currTerm[s], q, s>> \in votes  BY <2>4, <3>1 DEF VotedBy
    <3> QED  BY <1>2, <1>4, <3>1, <3>2 DEF Safe, HeldByVotedFor
  <2>6. CASE V \cap AcceptedBy(x, b) = {}
    <3>1. ASSUME NEW v \in V
          PROVE  currTerm[v] > b.term /\ v \notin AcceptedBy(x, b)
      <4>1. <<currTerm[s], v, s>> \in votes  BY <2>4 DEF VotedBy
      <4>2. currTerm[s] <= currTerm[v]
        BY <2>1, <4>1 DEF ElectionInv, VotesRemembered
      <4>3. currTerm[v] \in Int /\ currTerm[s] \in Int /\ b.term \in Int
        BY DEF TypeInv, TypeOK, ServerTypes, Block, Term
      <4> QED  BY <1>4, <2>6, <4>2, <4>3
    <3>2. Dead(x, b)  BY <2>4, <3>1 DEF Dead
    <3> QED  BY <3>2
  <2> QED  BY <2>5, <2>6
<1>5. HeldByLaterLeaders(x, b)'
  BY <1>1, <1>2, <1>4 DEF Safe, HeldByLaterLeaders
<1> QED  BY <1>3, <1>5, SteadySafe

-----------------------------------------------------------------------------
(* A leader takes a request, or sends blocks again.                        *)

LEMMA CoversFromChain ==
    ASSUME NEW s \in Server, NEW log \in Seq(Block), NEW prev \in Index,
           prev <= Len(log) - 2, NEW x \in Int, NEW b, Holds(log, x, b),
           \A k \in DOMAIN log : \A j \in 1 .. k : log[j].term <= log[k].term
    PROVE  Covers(AppendFrom(s, log, prev), x, b)
<1> DEFINE m == AppendFrom(s, log, prev)
<1>1. /\ m.prevLogIndex = prev /\ prev \in Int /\ Len(log) \in Nat
      /\ prev # -1 => m.prevLogTerm = log[prev + 1].term
      /\ DOMAIN m.entries = 1 .. Len(log) - prev - 1
      /\ \A e \in DOMAIN m.entries : m.entries[e] = log[prev + 1 + e]
      /\ EndOf(m) = Len(log)
  <2>1. m = AppendFrom(s, log, prev)  OBVIOUS
  <2> HIDE DEF m
  <2> QED  BY <2>1, OfferShape
<1>2. x + 1 \in DOMAIN log /\ log[x + 1] = b /\ DOMAIN log = 1 .. Len(log)
  BY HoldsAt
<1> HIDE DEF m
<1>3. CASE x <= prev
  <2>1. prev + 1 \in DOMAIN log /\ x + 1 \in 1 .. prev + 1 /\ prev # -1
    BY <1>1, <1>2, <1>3
  <2>2. log[x + 1].term <= log[prev + 1].term  BY <2>1
  <2> QED  BY <1>1, <1>2, <1>3, <2>1, <2>2 DEF Covers, m
<1>4. CASE ~(x <= prev)
  <2>1. x - prev \in 1 .. Len(log) - prev - 1 /\ prev + 1 + (x - prev) = x + 1
        /\ x < Len(log)
    BY <1>1, <1>2, <1>4
  <2>2. m.entries[x - prev] = log[x + 1]  BY <1>1, <2>1
  <2>3. x < EndOf(m) /\ m.entries[x - m.prevLogIndex] = b
    BY <1>1, <1>2, <2>1, <2>2
  <2> QED  BY <1>1, <1>4, <2>3 DEF Covers, m
<1> QED  BY <1>3, <1>4

LEMMA RetrySafe ==
    ASSUME TypeInv, GrowthInv, NEW s \in Server, role[s] = "Leader",
           UNCHANGED <<role, currTerm, bcLog, accepted, votes>>,
           NEW prev \in Index, prev <= Len(bcLog[s]) - 2,
           NetMoves(s, AppendFrom(s, bcLog[s], prev)),
           NEW x \in Index, NEW b \in Block, Safe(x, b)
    PROVE  Safe(x, b)'
<1> DEFINE m == AppendFrom(s, bcLog[s], prev)
<1>1. /\ KeptByAccepters(x, b)' /\ BelowLaterBlocks(x, b)'
      /\ HeldByLaterLeaders(x, b)' /\ HeldByVotedFor(x, b)'
  BY DEF Safe, KeptByAccepters, BelowLaterBlocks, HeldByLaterLeaders,
         HeldByVotedFor, AcceptedBy
<1>2. OfferedLater(x, b)'
  <2> SUFFICES ASSUME NEW o \in Offers(net'), o.entries # <<>>, o.term > b.term
               PROVE  Covers(o, x, b)
    BY DEF OfferedLater, Covers
  <2>1. o \in Offers(net) \/ o = m  BY MovesOffers
  <2>2. CASE o = m
    <3>1. currTerm[s] > b.term  BY <2>2 DEF AppendFrom
    <3>2. Holds(bcLog[s], x, b)  BY <3>1 DEF Safe, HeldByLaterLeaders
    <3>3. bcLog[s] \in Seq(Block) /\ x \in Int
      BY ChainTypesAt DEF TypeInv, Index
    <3>4. \A k \in DOMAIN bcLog[s] :
            \A j \in 1 .. k : bcLog[s][j].term <= bcLog[s][k].term
      BY DEF GrowthInv, TermsClimb
    <3> QED  BY <2>2, <3>2, <3>3, <3>4, CoversFromChain
  <2> QED  BY <2>1, <2>2 DEF Safe, OfferedLater
<1> QED  BY <1>1, <1>2 DEF Safe

\* A leader's new block does no harm to what is safe.
LEMMA TakeRequestSafe ==
    ASSUME TypeInv, TypeInv', ElectionInv, GrowthInv',
           NEW s \in Server, NEW r \in Request, LeaderTakeRequest(s, r),
           NEW x \in Index, NEW b \in Block, Safe(x, b)
    PROVE  Safe(x, b)'
<1> DEFINE old == bcLog[s]
           log == GrownChain(s, r)
           T == currTerm[s]
<1>1. /\ role[s] = "Leader" /\ log \in Seq(Block) /\ Len(log) = Len(old) + 1
      /\ log[Len(old) + 1] = NewBlock(s, r) /\ NewBlock(s, r).term = T
      /\ \A k \in DOMAIN old : k \in DOMAIN log /\ log[k] = old[k]
      /\ LastIndex(old) \in Index /\ LastIndex(old) <= Len(log) - 2
      /\ NetMoves(s, NewOffer(s, r))
      /\ \A q \in Server : bcLog'[q] = IF q = s THEN log ELSE bcLog[q]
      /\ accepted' = accepted \cup {<<s, Len(old), NewBlock(s, r)>>}
      /\ UNCHANGED <<role, currTerm, votes>>
  BY TakeRequestShape
<1>2. /\ x \in Int /\ old \in Seq(Block) /\ DOMAIN old = 1 .. Len(old)
      /\ Len(old) \in Nat /\ b.term \in Int /\ T \in Int
  <2>1. x \in Int /\ b.term \in Int  BY DEF Index, Block, Term
  <2>2. /\ old \in Seq(Block) /\ DOMAIN old = 1 .. Len(old)
        /\ Len(old) \in Nat /\ T \in Int
    BY ChainTypesAt DEF TypeInv
  <2> QED  BY <2>1, <2>2
<1> HIDE DEF old, log, T
<1>3. Holds(old, x, b) => Holds(log, x, b)  BY <1>1, <1>2, HoldsAt
<1>4. ASSUME NEW q \in Server, Holds(bcLog[q], x, b)
      PROVE  Holds(bcLog'[q], x, b)
  BY <1>1, <1>3, <1>4 DEF old
<1>5. T > b.term => Holds(log, x, b)
  BY <1>1, <1>3 DEF Safe, HeldByLaterLeaders, old, T
<1>6. \A q \in AcceptedBy(x, b)' : q \in AcceptedBy(x, b)
            \/ (q = s /\ x = Len(old) /\ b = NewBlock(s, r))
  BY <1>1 DEF AcceptedBy
<1>7. KeptByAccepters(x, b)'
  <2> SUFFICES ASSUME NEW q \in AcceptedBy(x, b)'
               PROVE  Holds(bcLog'[q], x, b)
    BY DEF KeptByAccepters
  <2>1. CASE q \in AcceptedBy(x, b)
    BY <1>4, <2>1 DEF Safe, KeptByAccepters, AcceptedBy
  <2>2. CASE q = s /\ x = Len(old) /\ b = NewBlock(s, r)
    <3>1. x + 1 \in DOMAIN log  BY <1>1, <1>2, <2>2
    <3>2. Holds(log, x, b)  BY <1>1, <1>2, <2>2, <3>1, HoldsAt
    <3> QED  BY <1>1, <2>2, <3>2
  <2> QED  BY <1>6, <2>1, <2>2
<1>8. BelowLaterBlocks(x, b)'
  <2> SUFFICES ASSUME NEW q \in Server, NEW k \in DOMAIN bcLog'[q],
                      bcLog'[q][k].term > b.term
               PROVE  Holds(bcLog'[q], x, b)
    BY DEF BelowLaterBlocks
  <2>1. CASE q # s  BY <1>1, <2>1 DEF Safe, BelowLaterBlocks
  <2>2. CASE q = s
    <3>1. bcLog'[q] = log /\ k \in 1 .. Len(old) + 1  BY <1>1, <2>2
    <3>2. CASE k = Len(old) + 1  BY <1>1, <1>5, <3>1, <3>2
    <3>3. CASE k # Len(old) + 1
      <4>1. k \in DOMAIN old  BY <1>2, <3>1, <3>3
      <4>2. old[k].term > b.term  BY <1>1, <3>1, <4>1
      <4> QED  BY <1>3, <3>1, <4>1, <4>2 DEF Safe, BelowLaterBlocks, old
    <3> QED  BY <3>2, <3>3
  <2> QED  BY <2>1, <2>2
<1>9. HeldByLaterLeaders(x, b)'
  BY <1>1, <1>4 DEF Safe, HeldByLaterLeaders
<1>10. HeldByVotedFor(x, b)'
  <2> SUFFICES ASSUME NEW q \in AcceptedBy(x, b)', NEW c \in Server,
                      role[c] = "Candidate", currTerm[c] > b.term,
                      <<currTerm[c], q, c>> \in votes
               PROVE  Holds(bcLog'[c], x, b)
    BY <1>1 DEF HeldByVotedFor
  <2>1. CASE q \in AcceptedBy(x, b)
    BY <1>4, <2>1 DEF Safe, HeldByVotedFor
  <2>2. CASE q = s /\ b = NewBlock(s, r)
    <3>1. currTerm[c] \in Term /\ currTerm[c] \in Int
      BY DEF TypeInv, TypeOK, ServerTypes, Term
    <3>2. currTerm[c] <= T
      BY <2>2, <3>1 DEF ElectionInv, VotesRemembered, T
    <3> QED  BY <1>1, <1>2, <2>2, <3>1, <3>2
  <2> QED  BY <1>6, <2>1, <2>2
<1>11. OfferedLater(x, b)'
  <2> SUFFICES ASSUME NEW o \in Offers(net'), o.entries # <<>>, o.term > b.term
               PROVE  Covers(o, x, b)
    BY DEF OfferedLater, Covers
  <2>1. o \in Offers(net) \/ o = NewOffer(s, r)  BY <1>1, MovesOffers
  <2>2. CASE o = NewOffer(s, r)
    <3>1. o = AppendFrom(s, log, LastIndex(old))
      BY <2>2 DEF NewOffer, log, old
    <3>2. Holds(log, x, b)  BY <1>5, <3>1 DEF AppendFrom, T
    <3>3. \A k \in DOMAIN log : \A j \in 1 .. k : log[j].term <= log[k].term
      BY <1>1 DEF GrowthInv, TermsClimb
    <3> QED  BY <1>1, <1>2, <3>1, <3>2, <3>3, CoversFromChain
  <2> QED  BY <2>1, <2>2 DEF Safe, OfferedLater
<1> QED  BY <1>7, <1>8, <1>9, <1>10, <1>11 DEF Safe

\* It is safe itself as long as no later leader was elected, and dead when one
\* was: the server that takes the request is the only one to accept the block.
LEMMA NewBlockSafe ==
    ASSUME TypeInv, TypeInv', ElectionInv, LogInv', GrowthInv',
           NEW s \in Server, NEW r \in Request, LeaderTakeRequest(s, r),
           NEW x \in Index, NEW b \in Block, x = Len(bcLog[s]),
           b = NewBlock(s, r), AcceptedBy(x, b) = {}
    PROVE  Dead(x, b)' \/ Safe(x, b)'
<1> DEFINE log == GrownChain(s, r)
           T == currTerm[s]
<1>1. /\ log \in Seq(Block) /\ Len(log) = x + 1 /\ log[x + 1] = b /\ b.term = T
      /\ bcLog'[s] = log
      /\ accepted' = accepted \cup {<<s, x, b>>}
      /\ UNCHANGED <<role, currTerm, votes, elected>>
  BY TakeRequestShape
<1>2. x \in Nat /\ T \in Int /\ \A q \in Server : currTerm[q] \in Int
  BY ChainTypesAt DEF TypeInv
<1> HIDE DEF log, T
<1>4. \A q \in AcceptedBy(x, b)' : q = s
  BY <1>1 DEF AcceptedBy
<1>5. \A t \in Term : t \in Int  BY DEF Term
<1>6. CASE \E t \in Term, e \in Server : <<t, e>> \in elected /\ t > T
  <2>1. PICK t \in Term, e \in Server : <<t, e>> \in elected /\ t > T
    BY <1>6
  <2>2. PICK V \in SUBSET Server : Cardinality(V) >= Majority /\ VotedBy(V, t, e)
    BY <2>1 DEF ElectionInv, ElectedByMajority
  <2>3. ASSUME NEW v \in V
        PROVE  currTerm'[v] > b.term /\ v \notin AcceptedBy(x, b)'
    <3>1. t <= currTerm[v]
      BY <2>2 DEF VotedBy, ElectionInv, VotesRemembered
    <3>2. currTerm[v] > T  BY <1>2, <1>5, <2>1, <3>1
    <3>3. v # s  BY <1>2, <3>2 DEF T
    <3> QED  BY <1>1, <1>4, <3>2, <3>3
  <2> QED  BY <2>2, <2>3 DEF Dead, Majority
<1>7. CASE ~\E t \in Term, e \in Server : <<t, e>> \in elected /\ t > T
  <2>1. \A t \in Term, e \in Server : <<t, e>> \in elected' => ~(t > b.term)
    BY <1>1, <1>7
  <2>2. KeptByAccepters(x, b)'
    <3>1. x + 1 \in DOMAIN log  BY <1>1, <1>2
    <3>2. Holds(log, x, b)  BY <1>1, <1>2, <3>1, HoldsAt
    <3> QED  BY <1>1, <1>4, <3>2 DEF KeptByAccepters
  <2>3. BelowLaterBlocks(x, b)'
    <3> SUFFICES ASSUME NEW q \in Server, NEW k \in DOMAIN bcLog'[q]
                 PROVE  ~(bcLog'[q][k].term > b.term)
      BY DEF BelowLaterBlocks
    <3>1. LinkedBlocks'  BY BlocksAreLinks, PTL
    <3>2. PICK l \in Links' : l.block = bcLog'[q][k]
      BY <3>1 DEF LinkedBlocks
    <3>3. PICK e \in Server : <<l.block.term, e>> \in elected'
      BY DEF LogInv, LinksElected
    <3>4. l.block.term \in Term  BY <3>3 DEF TypeInv, TypeOK, HistoryTypes
    <3> QED  BY <2>1, <3>2, <3>3, <3>4
  <2>4. HeldByLaterLeaders(x, b)'
    <3> SUFFICES ASSUME NEW q \in Server, role'[q] = "Leader"
                 PROVE  ~(currTerm'[q] > b.term)
      BY DEF HeldByLaterLeaders
    <3>1. <<currTerm'[q], q>> \in elected'  BY DEF LogInv, LeaderElected
    <3>2. currTerm'[q] \in Term  BY DEF TypeInv, TypeOK, ServerTypes
    <3> QED  BY <2>1, <3>1, <3>2
  <2>5. HeldByVotedFor(x, b)'
    <3> SUFFICES ASSUME NEW c \in Server, currTerm[c] > b.term,
                        <<currTerm[c], s, c>> \in votes
                 PROVE  FALSE
      BY <1>1, <1>4 DEF HeldByVotedFor
    <3>1. currTerm[c] \in Term  BY DEF TypeInv, TypeOK, ServerTypes
    <3>2. currTerm[c] <= T
      BY <3>1 DEF ElectionInv, VotesRemembered, T
    <3> QED  BY <1>1, <1>2, <3>2
  <2>6. OfferedLater(x, b)'
    <3> SUFFICES ASSUME NEW o \in Offers(net')
                 PROVE  ~(o.term > b.term)
      BY DEF OfferedLater
    <3>1. /\ o.type = "APP_ENTR_RPC"
          /\ \E i, j \in Server : \E k \in DOMAIN net'[i][j] : o = net'[i][j][k]
      BY OffersIn
    <3>2. PICK i \in Server : <<o.term, i>> \in elected'
      BY <3>1 DEF GrowthInv, OffersElected
    <3>3. o.term \in Term  BY <3>2 DEF TypeInv, TypeOK, HistoryTypes
    <3> QED  BY <2>1, <3>2, <3>3
  <2> QED  BY <2>2, <2>3, <2>4, <2>5, <2>6 DEF Safe
<1> QED  BY <1>6, <1>7

-----------------------------------------------------------------------------
(* A follower takes an append.                                             *)

\* What it does with m, whether the blocks fit or not.
TakesAppend(s, m) ==
    /\ m \in Offers(net) /\ m \in AppendRpc /\ m.entries # <<>>
    /\ role[s] = "Follower" /\ m.term >= currTerm[s]
    /\ \A k \in DOMAIN bcLog[s] : bcLog[s][k].term = m.term => k <= EndOf(m)
    /\ UNCHANGED <<role, elected, votes>>
    /\ \A q \in Server \ {s} : bcLog'[q] = bcLog[q] /\ currTerm'[q] = currTerm[q]
    /\ currTerm'[s] = m.term
    /\ \E reply \in Message : reply.type = "APP_ENTR_RPL" /\ NetMoves(s, reply)
    /\ \/ /\ PrevMatches(bcLog[s], m)
          /\ bcLog'[s] = CleanUpBlocks(bcLog[s], m.prevLogIndex + 1, m.entries)
          /\ accepted' = accepted \cup AcceptedWith(s, m)
       \/ bcLog'[s] = bcLog[s] /\ accepted' = accepted

LEMMA AppendShape ==
    ASSUME TypeInv, NoLoop, GrowthInv, NEW s \in Server, NEW i \in Server,
           FollowerAppend(s, i)
    PROVE  \E m \in Offers(net) : TakesAppend(s, m)
<1> USE DEF TypeInv
<1>1. PICK m \in Arriving(i, s, "APP_ENTR_RPC") : FollowerAppend(s, i)!(m)
  BY DEF FollowerAppend
<1> DEFINE ok == PrevMatches(bcLog[s], m)
           reply == AppendReply(m.term, ok, FALSE)
           new == CleanUpBlocks(bcLog[s], m.prevLogIndex + 1, m.entries)
<1>2. m \in Message /\ net[i][s] # <<>> /\ m = Head(net[i][s])
      /\ m.type = "APP_ENTR_RPC"
  BY ArrivingType
<1>3. m \in AppendRpc /\ m.term \in Term  BY <1>2, MessageKinds
<1>4. /\ role[s] = "Follower" /\ m.term >= currTerm[s] /\ m.entries # <<>>
      /\ currTerm' = [currTerm EXCEPT ![s] = m.term]
      /\ bcLog' = IF ok THEN [bcLog EXCEPT ![s] = new] ELSE bcLog
      /\ accepted' = IF ok THEN accepted \cup AcceptedWith(s, m) ELSE accepted
      /\ net' = Push(Pop(net, i, s), s, i, reply)
      /\ UNCHANGED <<role, elected, votes>>
  BY <1>1 DEF AdoptTerm, electionHist
<1>5. 1 \in DOMAIN net[i][s] /\ m = net[i][s][1]
  <2>1. net[i][s] \in Seq(Message)  BY DEF TypeOK, NetTypes
  <2> QED  BY <1>2, <2>1
<1>6. m \in Offers(net) /\ IsAppend(m)
  BY <1>2, <1>4, <1>5, OffersIn DEF IsAppend
<1>7. reply \in Message /\ reply.type = "APP_ENTR_RPL"
  <2>1. ok \in BOOLEAN  BY DEF PrevMatches
  <2> HIDE DEF ok
  <2> QED  BY <1>3, <2>1, AppendReplyType DEF AppendReply
<1> HIDE DEF reply, new, ok
<1>8. NetMoves(s, reply)  BY <1>2, <1>4, <1>7, MovesReply
<1>9. \A k \in DOMAIN bcLog[s] : bcLog[s][k].term = m.term => k <= EndOf(m)
  <2>1. currTerm[s] <= m.term
    BY <1>3, <1>4 DEF TypeOK, ServerTypes, Term
  <2> QED  BY <1>5, <1>6, <2>1 DEF GrowthInv, OffersReachOn
<1>10. /\ \A q \in Server \ {s} : bcLog'[q] = bcLog[q] /\ currTerm'[q] = currTerm[q]
       /\ currTerm'[s] = m.term
  BY <1>4 DEF TypeOK, ChainTypes, ServerTypes
<1>11. CASE ok
  <2>1. bcLog'[s] = new /\ accepted' = accepted \cup AcceptedWith(s, m)
    BY <1>4, <1>11 DEF TypeOK, ChainTypes
  <2>2. TakesAppend(s, m)
    BY <1>3, <1>4, <1>6, <1>7, <1>8, <1>9, <1>10, <1>11, <2>1
    DEF TakesAppend, ok, new
  <2> QED  BY <1>6, <2>2
<1>12. CASE ~ok
  <2>1. bcLog'[s] = bcLog[s] /\ accepted' = accepted  BY <1>4, <1>12
  <2>2. TakesAppend(s, m)
    BY <1>3, <1>4, <1>6, <1>7, <1>8, <1>9, <1>10, <2>1 DEF TakesAppend
  <2> QED  BY <1>6, <2>2
<1> QED  BY <1>11, <1>12

\* What fits: the places of the follower's new chain.
FitsAt(log, m, new) ==
    /\ \A k \in DOMAIN new : k \in Int
    /\ \A k \in Int : k <= m.prevLogIndex + 1 /\ k \in DOMAIN log =>
            k \in DOMAIN new /\ new[k] = log[k]
    /\ \A k \in DOMAIN new : k <= m.prevLogIndex + 1 =>
            /\ k \in DOMAIN log /\ new[k] = log[k]
    /\ m.prevLogIndex # -1 =>
            /\ m.prevLogIndex + 1 \in DOMAIN log
            /\ log[m.prevLogIndex + 1].term = m.prevLogTerm
    /\ \A e \in DOMAIN m.entries : m.prevLogIndex + 1 + e \in DOMAIN new
            /\ new[m.prevLogIndex + 1 + e] = m.entries[e]
    /\ \A k \in DOMAIN new : ~(k <= m.prevLogIndex + 1) =>
            \E e \in DOMAIN m.entries :
                k = m.prevLogIndex + 1 + e /\ new[k] = m.entries[e]

LEMMA CleanUpFits ==
    ASSUME NEW log \in Seq(Block), NEW m \in AppendRpc, PrevMatches(log, m),
           NEW new, new = CleanUpBlocks(log, m.prevLogIndex + 1, m.entries)
    PROVE  FitsAt(log, m, new)
<1> DEFINE p == m.prevLogIndex + 1
           n == Len(m.entries)
<1>1. /\ p \in 0 .. Len(log) /\ p \in Nat /\ n \in Nat
      /\ p # 0 => log[p].term = m.prevLogTerm
      /\ DOMAIN new = 1 .. p + n
      /\ \A k \in 1 .. p : new[k] = log[k]
      /\ \A e \in 1 .. n : new[p + e] = m.entries[e]
  BY CleanUpShape
<1>2. /\ m.entries \in Seq(Block) /\ m.prevLogIndex \in Int
      /\ m.prevLogIndex >= -1
  BY DEF AppendRpc, Index
<1>3. DOMAIN log = 1 .. Len(log) /\ DOMAIN m.entries = 1 .. n /\ Len(log) \in Nat
  BY <1>2
<1>4. p = m.prevLogIndex + 1  OBVIOUS
<1> HIDE DEF n, p
<1>5. \A k \in DOMAIN new : k \in Int  BY <1>1
<1>6. \A k \in Int : k <= p /\ k \in DOMAIN log =>
            k \in DOMAIN new /\ new[k] = log[k]
  <2> SUFFICES ASSUME NEW k \in Int, k <= p, k \in DOMAIN log
               PROVE  k \in DOMAIN new /\ new[k] = log[k]
    OBVIOUS
  <2>1. k \in 1 .. p /\ k \in 1 .. p + n  BY <1>1, <1>3
  <2> QED  BY <1>1, <2>1
<1>7. \A k \in DOMAIN new : k <= p => k \in DOMAIN log /\ new[k] = log[k]
  <2> SUFFICES ASSUME NEW k \in DOMAIN new, k <= p
               PROVE  k \in DOMAIN log /\ new[k] = log[k]
    OBVIOUS
  <2>1. k \in 1 .. p /\ k \in 1 .. Len(log)  BY <1>1
  <2> QED  BY <1>1, <1>3, <2>1
<1>8. m.prevLogIndex # -1 => p \in DOMAIN log /\ log[p].term = m.prevLogTerm
  <2> SUFFICES ASSUME m.prevLogIndex # -1
               PROVE  p \in DOMAIN log /\ log[p].term = m.prevLogTerm
    OBVIOUS
  <2>1. p # 0 /\ p \in 1 .. Len(log)  BY <1>1, <1>2, <1>4
  <2> QED  BY <1>1, <1>3, <2>1
<1>9. \A e \in DOMAIN m.entries : p + e \in DOMAIN new /\ new[p + e] = m.entries[e]
  <2> SUFFICES ASSUME NEW e \in 1 .. n
               PROVE  p + e \in DOMAIN new /\ new[p + e] = m.entries[e]
    BY <1>3
  <2>1. p + e \in 1 .. p + n  BY <1>1
  <2> QED  BY <1>1, <2>1
<1>10. \A k \in DOMAIN new : ~(k <= p) =>
            \E e \in DOMAIN m.entries : k = p + e /\ new[k] = m.entries[e]
  <2> SUFFICES ASSUME NEW k \in DOMAIN new, ~(k <= p)
               PROVE  \E e \in DOMAIN m.entries : k = p + e /\ new[k] = m.entries[e]
    OBVIOUS
  <2>1. k - p \in 1 .. n /\ k = p + (k - p)  BY <1>1
  <2>2. new[k] = m.entries[k - p]  BY <1>1, <2>1
  <2> QED  BY <1>3, <2>1, <2>2
<1> QED  BY <1>4, <1>5, <1>6, <1>7, <1>8, <1>9, <1>10 DEF FitsAt

\* The follower keeps a block that is safe, and gets it from a later append.
LEMMA AppendKeeps ==
    ASSUME TypeInv, TypeInv', GrowthInv, NEW s \in Server,
           NEW m \in Offers(net), TakesAppend(s, m),
           NEW x \in Index, NEW b \in Block, Safe(x, b), Holds(bcLog[s], x, b)
    PROVE  Holds(bcLog'[s], x, b)
<1> DEFINE log == bcLog[s]
           new == bcLog'[s]
           p == m.prevLogIndex + 1
<1>1. /\ log \in Seq(Block) /\ new \in Seq(Block) /\ x \in Int
      /\ \A k \in DOMAIN log : k \in Int
  <2>1. log \in Seq(Block) /\ new \in Seq(Block)
    BY DEF TypeInv, TypeOK, ChainTypes
  <2> QED  BY <2>1 DEF Index
<1>2. x + 1 \in DOMAIN log /\ log[x + 1] = b  BY <1>1, HoldsAt
<1>3. new = log \/ FitsAt(log, m, new)
  <2>1. CASE new = log  BY <2>1
  <2>2. CASE PrevMatches(log, m)
             /\ new = CleanUpBlocks(log, m.prevLogIndex + 1, m.entries)
    <3>1. m \in AppendRpc  BY DEF TakesAppend
    <3> HIDE DEF log, new
    <3> QED  BY <1>1, <2>2, <3>1, CleanUpFits
  <2> QED  BY <2>1, <2>2 DEF TakesAppend
<1>4. /\ m.prevLogIndex \in Int /\ m.entries \in Seq(Block) /\ m.term \in Int
      /\ m.entries # <<>> /\ m.term >= currTerm[s] /\ Len(m.entries) \in Nat
      /\ DOMAIN m.entries = 1 .. Len(m.entries)
      /\ Len(m.entries) \in DOMAIN m.entries
  <2>1. m.prevLogIndex \in Int /\ m.entries \in Seq(Block) /\ m.term \in Int
    BY OfferTypes DEF TypeInv
  <2>2. m.entries # <<>> /\ m.term >= currTerm[s]  BY DEF TakesAppend
  <2> QED  BY <2>1, <2>2
<1>5. b.term <= m.term /\ b.term \in Int
  <2>1. log[x + 1].term <= currTerm[s]
    BY <1>2 DEF GrowthInv, TermsClimb
  <2>2. b.term \in Int /\ currTerm[s] \in Int
    BY DEF TypeInv, TypeOK, ServerTypes, Block, Term
  <2> QED  BY <1>2, <1>4, <2>1, <2>2
<1>6. ASSUME FitsAt(log, m, new), x + 1 <= p
      PROVE  Holds(new, x, b)
  <2>1. x + 1 \in DOMAIN new /\ new[x + 1] = log[x + 1]
    BY <1>1, <1>2, <1>6 DEF FitsAt
  <2> QED  BY <1>1, <1>2, <2>1, HoldsAt
<1>7. ASSUME FitsAt(log, m, new), NEW e \in DOMAIN m.entries, x + 1 = p + e,
             m.entries[e] = b
      PROVE  Holds(new, x, b)
  <2>1. x + 1 \in DOMAIN new /\ new[x + 1] = b
    BY <1>7 DEF FitsAt
  <2> QED  BY <1>1, <2>1, HoldsAt
<1>8. CASE FitsAt(log, m, new) /\ m.term > b.term
  <2>1. Covers(m, x, b)  BY <1>4, <1>8 DEF Safe, OfferedLater
  <2>2. CASE x <= m.prevLogIndex  BY <1>1, <1>4, <1>6, <1>8, <2>2
  <2>3. CASE ~(x <= m.prevLogIndex)
    <3>1. x < EndOf(m) /\ m.entries[x - m.prevLogIndex] = b
      BY <2>1, <2>3 DEF Covers
    <3>2. x - m.prevLogIndex \in DOMAIN m.entries
          /\ x + 1 = p + (x - m.prevLogIndex)
      BY <1>1, <1>4, <2>3, <3>1 DEF EndOf
    <3> QED  BY <1>7, <1>8, <3>1, <3>2
  <2> QED  BY <2>2, <2>3
<1>9. CASE FitsAt(log, m, new) /\ m.term = b.term /\ ~(x + 1 <= p)
  <2>1. x + 1 <= EndOf(m)  BY <1>2, <1>9 DEF TakesAppend
  <2>2. PICK l \in Links : l.at = x + 1 /\ l.block = b
    BY HeldLink DEF TypeInv
  <2>3. m.entries[Len(m.entries)].term = m.term
    BY <1>4 DEF GrowthInv, OffersOwnBlock
  <2>4. l.at <= m.prevLogIndex + 1 + Len(m.entries)
    BY <2>1, <2>2 DEF EndOf
  <2>5. l \in OfferLinks(m)
    <3>1. IF l.at <= m.prevLogIndex + 1 THEN m.prevLogTerm = l.block.term
          ELSE l \in OfferLinks(m)
      BY <1>4, <1>9, <2>2, <2>3, <2>4 DEF GrowthInv, OffersFull
    <3> QED  BY <1>9, <2>2, <3>1
  <2>6. PICK e \in DOMAIN m.entries :
            l = Link(m.prevLogIndex + 1 + e, m.entries[e], OfferedBefore(m, e))
    BY <2>5, OfferLinksIn
  <2>7. x + 1 = p + e /\ m.entries[e] = b  BY <2>2, <2>6 DEF Link
  <2> QED  BY <1>7, <1>9, <2>7
<1>10. CASE new = log  BY <1>10
<1> QED  BY <1>3, <1>4, <1>5, <1>6, <1>8, <1>9, <1>10

LEMMA AppendBrings ==
    ASSUME TypeInv, TypeInv', GrowthInv, NEW s \in Server,
           NEW m \in Offers(net), TakesAppend(s, m),
           FitsAt(bcLog[s], m, bcLog'[s]), NEW x \in Index, NEW b \in Block,
           Safe(x, b), AcceptedBy(x, b) # {}, m.term > b.term
    PROVE  Holds(bcLog'[s], x, b)
<1> DEFINE log == bcLog[s]
           new == bcLog'[s]
           p == m.prevLogIndex + 1
<1>1. new \in Seq(Block) /\ x \in Int /\ x >= -1
  BY DEF TypeInv, TypeOK, ChainTypes, Index
<1>2. /\ m.prevLogIndex \in Int /\ m.entries \in Seq(Block)
      /\ m.entries # <<>> /\ Len(m.entries) \in Nat
      /\ DOMAIN m.entries = 1 .. Len(m.entries)
  <2>1. m.prevLogIndex \in Int /\ m.entries \in Seq(Block)
    BY OfferTypes DEF TypeInv
  <2>2. m.entries # <<>>  BY DEF TakesAppend
  <2> QED  BY <2>1, <2>2
<1>3. Covers(m, x, b)  BY <1>2 DEF Safe, OfferedLater
<1>4. CASE x <= m.prevLogIndex
  <2>1. b.term <= m.prevLogTerm  BY <1>3, <1>4 DEF Covers
  <2>2. CASE m.prevLogIndex # -1
    <3>1. p \in DOMAIN log /\ log[p].term = m.prevLogTerm
      BY <2>2 DEF FitsAt
    <3>2. x + 1 <= p /\ log[p].term >= b.term
      BY <1>1, <1>2, <1>4, <2>1, <3>1, OfferTypes DEF TypeInv, Block, Term
    <3>3. Holds(log, x, b)  BY <3>1, <3>2, LaterHolds
    <3> QED  BY <3>3, AppendKeeps
  <2>3. CASE m.prevLogIndex = -1
    <3>1. PICK q \in AcceptedBy(x, b) : Holds(bcLog[q], x, b)
      BY DEF Safe, KeptByAccepters
    <3>2. x \in 0 .. LastIndex(bcLog[q])  BY <3>1 DEF Holds
    <3> QED  BY <1>1, <1>4, <2>3, <3>2
  <2> QED  BY <2>2, <2>3
<1>5. CASE ~(x <= m.prevLogIndex)
  <2>1. x < EndOf(m) /\ m.entries[x - m.prevLogIndex] = b
    BY <1>3, <1>5 DEF Covers
  <2>2. x - m.prevLogIndex \in DOMAIN m.entries
        /\ x + 1 = p + (x - m.prevLogIndex)
    BY <1>1, <1>2, <1>5, <2>1 DEF EndOf
  <2>3. x + 1 \in DOMAIN new /\ new[x + 1] = b  BY <2>1, <2>2 DEF FitsAt
  <2> QED  BY <1>1, <2>3, HoldsAt
<1> QED  BY <1>4, <1>5

\* What a follower accepts are blocks of the append's own term.
LEMMA NewlyAccepted ==
    ASSUME NEW s \in Server, NEW m, TakesAppend(s, m), NEW a \in accepted',
           a \notin accepted
    PROVE  /\ PrevMatches(bcLog[s], m)
           /\ bcLog'[s] = CleanUpBlocks(bcLog[s], m.prevLogIndex + 1, m.entries)
           /\ \E e \in DOMAIN m.entries :
                a = <<s, m.prevLogIndex + e, m.entries[e]>>
                    /\ m.entries[e].term = m.term
BY DEF TakesAppend, AcceptedWith

LEMMA AppendSafe ==
    ASSUME TypeInv, TypeInv', ElectionInv', GrowthInv, NEW s \in Server,
           NEW m \in Offers(net), TakesAppend(s, m),
           NEW x \in Index, NEW b \in Block, Safe(x, b), AcceptedBy(x, b) # {}
    PROVE  Safe(x, b)'
<1> DEFINE log == bcLog[s]
           new == bcLog'[s]
<1>1. /\ role' = role /\ votes' = votes /\ role[s] = "Follower"
      /\ \A q \in Server \ {s} : bcLog'[q] = bcLog[q] /\ currTerm'[q] = currTerm[q]
      /\ currTerm'[s] = m.term
  BY DEF TakesAppend
<1>2. log \in Seq(Block) /\ new \in Seq(Block) /\ x \in Int
  BY DEF TypeInv, TypeOK, ChainTypes, Index
<1>3. ASSUME PrevMatches(log, m),
             new = CleanUpBlocks(log, m.prevLogIndex + 1, m.entries)
      PROVE  FitsAt(log, m, new)
  <2>1. m \in AppendRpc  BY DEF TakesAppend
  <2> HIDE DEF log, new
  <2> QED  BY <1>2, <1>3, <2>1, CleanUpFits
<1>4. ASSUME NEW q \in Server, Holds(bcLog[q], x, b)
      PROVE  Holds(bcLog'[q], x, b)
  BY <1>1, <1>4, AppendKeeps
<1>5. ASSUME NEW q \in AcceptedBy(x, b)', q \notin AcceptedBy(x, b)
      PROVE  q = s /\ b.term = m.term /\ Holds(bcLog'[q], x, b)
  <2>1. <<q, x, b>> \in accepted' /\ <<q, x, b>> \notin accepted
    BY <1>5 DEF AcceptedBy
  <2>2. /\ PrevMatches(log, m)
        /\ new = CleanUpBlocks(log, m.prevLogIndex + 1, m.entries)
        /\ \E e \in DOMAIN m.entries :
                <<q, x, b>> = <<s, m.prevLogIndex + e, m.entries[e]>>
                    /\ m.entries[e].term = m.term
    BY <2>1, NewlyAccepted
  <2>3. PICK e \in DOMAIN m.entries :
            /\ q = s /\ x = m.prevLogIndex + e /\ b = m.entries[e]
            /\ m.entries[e].term = m.term
    BY <2>2
  <2>4. FitsAt(log, m, new)  BY <1>3, <2>2
  <2>5. x + 1 = m.prevLogIndex + 1 + e
    <3>1. m.prevLogIndex \in Int /\ e \in Int
      <4>1. m.prevLogIndex \in Int /\ m.entries \in Seq(Block)
        BY OfferTypes DEF TypeInv
      <4> QED  BY <4>1
    <3> QED  BY <2>3, <3>1
  <2>6. x + 1 \in DOMAIN new /\ new[x + 1] = b
    BY <2>3, <2>4, <2>5 DEF FitsAt
  <2>7. Holds(new, x, b)  BY <1>2, <2>6, HoldsAt
  <2> QED  BY <2>3, <2>7
<1>6. KeptByAccepters(x, b)'
  <2> SUFFICES ASSUME NEW q \in AcceptedBy(x, b)'
               PROVE  Holds(bcLog'[q], x, b)
    BY DEF KeptByAccepters
  <2>1. CASE q \in AcceptedBy(x, b)
    BY <1>4, <2>1 DEF Safe, KeptByAccepters, AcceptedBy
  <2> QED  BY <1>5, <2>1
<1>7. BelowLaterBlocks(x, b)'
  <2> SUFFICES ASSUME NEW q \in Server, NEW k \in DOMAIN bcLog'[q],
                      bcLog'[q][k].term > b.term
               PROVE  Holds(bcLog'[q], x, b)
    BY DEF BelowLaterBlocks
  <2>1. CASE bcLog'[q] = bcLog[q]  BY <2>1 DEF Safe, BelowLaterBlocks
  <2>2. CASE q = s /\ PrevMatches(log, m)
             /\ new = CleanUpBlocks(log, m.prevLogIndex + 1, m.entries)
    <3>1. FitsAt(log, m, new)  BY <1>3, <2>2
    <3>2. k \in DOMAIN new /\ new[k].term > b.term  BY <2>2
    <3>3. CASE k <= m.prevLogIndex + 1
      <4>1. k \in DOMAIN log /\ log[k].term > b.term
        BY <3>1, <3>2, <3>3 DEF FitsAt
      <4>2. Holds(log, x, b)  BY <4>1 DEF Safe, BelowLaterBlocks
      <4> QED  BY <1>4, <2>2, <4>2
    <3>4. CASE ~(k <= m.prevLogIndex + 1)
      <4>1. PICK e \in DOMAIN m.entries : new[k] = m.entries[e]
        BY <3>1, <3>2, <3>4 DEF FitsAt
      <4>2. m.entries[e].term <= m.term
        BY DEF GrowthInv, OffersClimb
      <4>3. m.term > b.term
        <5>1. m.entries[e].term \in Int /\ m.term \in Int /\ b.term \in Int
          BY OfferTypes DEF TypeInv, Block, Term
        <5> QED  BY <3>2, <4>1, <4>2, <5>1
      <4> QED  BY <2>2, <3>1, <4>3, AppendBrings
    <3> QED  BY <3>3, <3>4
  <2> QED  BY <1>1, <2>1, <2>2 DEF TakesAppend
<1>8. HeldByLaterLeaders(x, b)'
  <2> SUFFICES ASSUME NEW q \in Server, role'[q] = "Leader",
                      currTerm'[q] > b.term
               PROVE  Holds(bcLog'[q], x, b)
    BY DEF HeldByLaterLeaders
  <2>1. q # s  BY <1>1
  <2> QED  BY <1>1, <2>1 DEF Safe, HeldByLaterLeaders
<1>9. HeldByVotedFor(x, b)'
  <2> SUFFICES ASSUME NEW q \in AcceptedBy(x, b)', NEW c \in Server,
                      role'[c] = "Candidate", currTerm'[c] > b.term,
                      <<currTerm'[c], q, c>> \in votes'
               PROVE  Holds(bcLog'[c], x, b)
    BY DEF HeldByVotedFor
  <2>1. c # s /\ currTerm'[c] = currTerm[c] /\ bcLog'[c] = bcLog[c]  BY <1>1
  <2>2. CASE q \in AcceptedBy(x, b)
    BY <1>1, <2>1, <2>2 DEF Safe, HeldByVotedFor
  <2>3. CASE q \notin AcceptedBy(x, b)
    <3>1. q = s /\ b.term = currTerm'[s]  BY <1>1, <1>5, <2>3
    <3>2. currTerm'[c] \in Term  BY DEF TypeInv, TypeOK, ServerTypes
    <3>3. currTerm'[c] <= currTerm'[s]
      BY <3>1, <3>2 DEF ElectionInv, VotesRemembered
    <3>4. currTerm'[c] \in Int /\ currTerm'[s] \in Int
      BY DEF TypeInv, TypeOK, ServerTypes, Term
    <3> QED  BY <3>1, <3>3, <3>4
  <2> QED  BY <2>2, <2>3
<1>10. OfferedLater(x, b)'
  <2> SUFFICES ASSUME NEW o \in Offers(net'), o.entries # <<>>, o.term > b.term
               PROVE  Covers(o, x, b)
    BY DEF OfferedLater, Covers
  <2>1. PICK reply : reply.type = "APP_ENTR_RPL" /\ NetMoves(s, reply)
    BY DEF TakesAppend
  <2>2. o \in Offers(net) \/ o = reply  BY <2>1, MovesOffers
  <2>3. o.type = "APP_ENTR_RPC"  BY OffersIn
  <2>4. o \in Offers(net)  BY <2>1, <2>2, <2>3
  <2> QED  BY <2>4 DEF Safe, OfferedLater
<1> QED  BY <1>6, <1>7, <1>8, <1>9, <1>10 DEF Safe

-----------------------------------------------------------------------------
(* All steps.                                                              *)

LEMMA RolesStayFrom ==
    ASSUME TypeOK, votes' = votes, NEW s \in Server,
           role' = role \/ role' = [role EXCEPT ![s] = "Follower"],
           \/ currTerm' = currTerm
           \/ /\ role[s] = "Follower"
              /\ \E t : currTerm' = [currTerm EXCEPT ![s] = t]
    PROVE  RolesStay
BY DEF RolesStay, TypeOK, ServerTypes

\* Elections alone put servers into office.
LEMMA RoleKinds ==
    ASSUME TypeInv, [Next]_vars
    PROVE  \/ RolesStay
           \/ \E s \in Server : BecomeCandidate(s)
           \/ \E s, i \in Server : FollowerVote(s, i) \/ BecomeLeader(s, i)
<1> USE DEF TypeInv
<1>1. ASSUME NEW s \in Server, LeaderHeartbeat(s) \/ LeaderGiveUp(s)
      PROVE  RolesStay
  <2>1. UNCHANGED <<role, currTerm, votes>>
    BY <1>1 DEF LeaderHeartbeat, LeaderGiveUp, serverVars, electionHist
  <2> QED  BY <2>1, RolesStayFrom
<1>2. ASSUME NEW s \in Server, NEW r \in Request, LeaderTakeRequest(s, r)
      PROVE  RolesStay
  <2>1. UNCHANGED <<role, currTerm, votes>>
    BY <1>2 DEF LeaderTakeRequest, serverVars, electionHist
  <2> QED  BY <2>1, RolesStayFrom
<1>3. ASSUME NEW s \in Server, NEW i \in Server,
             \/ FollowerRejectStale(s, i) \/ CandidateCountVote(s, i)
             \/ LeaderNoteAccept(s, i) \/ LeaderCountAccept(s, i)
             \/ LeaderCommit(s, i) \/ LeaderRetry(s, i)
             \/ Ignore(s, i) \/ Lose(i, s)
      PROVE  RolesStay
  <2>1. UNCHANGED <<role, currTerm, votes>>
    BY <1>3 DEF FollowerRejectStale, CandidateCountVote, LeaderNoteAccept,
                LeaderCountAccept, LeaderCommit, LeaderRetry, Ignore, Lose,
                serverVars, electionHist
  <2> QED  BY <2>1, RolesStayFrom
<1>4. ASSUME NEW s \in Server, NEW i \in Server,
             FollowerHeartbeat(s, i) \/ FollowerAppend(s, i)
      PROVE  RolesStay
  <2>1. /\ role[s] = "Follower" /\ UNCHANGED <<role, votes>>
        /\ \E t : currTerm' = [currTerm EXCEPT ![s] = t]
    BY <1>4 DEF FollowerHeartbeat, FollowerAppend, AdoptTerm, electionHist
  <2> QED  BY <2>1, RolesStayFrom
<1>5. ASSUME NEW s \in Server, NEW i \in Server,
             CandidateStepDown(s, i) \/ LeaderStepDown(s, i)
      PROVE  RolesStay
  <2>1. /\ role' = [role EXCEPT ![s] = "Follower"]
        /\ UNCHANGED <<currTerm, votes>>
    BY <1>5 DEF CandidateStepDown, LeaderStepDown, StepDown, electionHist
  <2> QED  BY <2>1, RolesStayFrom
<1>6. CASE UNCHANGED vars
  <2>1. UNCHANGED <<role, currTerm, votes>>
    BY <1>6 DEF vars, serverVars, electionHist
  <2> QED  BY <2>1, RolesStayFrom, LeaderAssumption
<1> QED  BY <1>1, <1>2, <1>3, <1>4, <1>5, <1>6 DEF Next

\* The four kinds of steps, as far as what is chosen depends on them.
LEMMA ChosenKinds ==
    ASSUME BaseInv, BaseInv', [Next]_vars
    PROVE  \/ SteadyStep
           \/ \E s \in Server, r \in Request : LeaderTakeRequest(s, r)
           \/ \E s \in Server : \E m \in Offers(net) : TakesAppend(s, m)
           \/ \E s \in Server :
                /\ role[s] = "Leader"
                /\ UNCHANGED <<role, currTerm, bcLog, accepted, votes>>
                /\ \E prev \in Index :
                    /\ prev <= Len(bcLog[s]) - 2
                    /\ NetMoves(s, AppendFrom(s, bcLog[s], prev))
                    /\ Links' \subseteq Links
<1> USE DEF BaseInv
<1>1. NoLoop  BY DEF ElectionInv
<1>2. ASSUME NEW s \in Server, NEW i \in Server, FollowerAppend(s, i)
      PROVE  \E m \in Offers(net) : TakesAppend(s, m)
  BY <1>1, <1>2, AppendShape
<1>3. ASSUME NEW s \in Server, NEW f \in Server, LeaderRetry(s, f)
      PROVE  \/ SteadyStep
             \/ /\ role[s] = "Leader"
                /\ UNCHANGED <<role, currTerm, bcLog, accepted, votes>>
                /\ \E prev \in Index :
                    /\ prev <= Len(bcLog[s]) - 2
                    /\ NetMoves(s, AppendFrom(s, bcLog[s], prev))
                    /\ Links' \subseteq Links
  BY <1>1, <1>3, RetryShape
<1> QED  BY <1>1, <1>2, <1>3, StepKinds

LEMMA TermsStep ==
    ASSUME BaseInv, BaseInv', [Next]_vars
    PROVE  TermsGrow /\ OwnTermOnly
<1>1. \A q \in Server : currTerm[q] \in Int
  BY DEF BaseInv, TypeInv, TypeOK, ServerTypes, Term
<1>2. CASE SteadyStep  BY <1>2 DEF SteadyStep, TermsGrow, OwnTermOnly
<1>3. ASSUME NEW s \in Server, NEW r \in Request, LeaderTakeRequest(s, r)
      PROVE  TermsGrow /\ OwnTermOnly
  <2>1. /\ currTerm' = currTerm /\ NewBlock(s, r).term = currTerm[s]
        /\ accepted' = accepted \cup {<<s, Len(bcLog[s]), NewBlock(s, r)>>}
    BY <1>3, TakeRequestShape DEF BaseInv
  <2> QED  BY <1>1, <2>1 DEF TermsGrow, OwnTermOnly
<1>4. ASSUME NEW s \in Server, NEW m \in Offers(net), TakesAppend(s, m)
      PROVE  TermsGrow /\ OwnTermOnly
  <2>1. m.term >= currTerm[s] /\ currTerm'[s] = m.term /\ m.term \in Int
    BY <1>4, OfferTypes DEF TakesAppend, BaseInv, TypeInv
  <2>2. TermsGrow  BY <1>1, <1>4, <2>1 DEF TermsGrow, TakesAppend
  <2>3. OwnTermOnly
    <3> SUFFICES ASSUME NEW a \in accepted', a \notin accepted
                 PROVE  a[3].term = currTerm'[a[1]]
      BY DEF OwnTermOnly
    <3>1. PICK e \in DOMAIN m.entries :
            a = <<s, m.prevLogIndex + e, m.entries[e]>>
                /\ m.entries[e].term = m.term
      BY <1>4, NewlyAccepted
    <3> QED  BY <2>1, <3>1
  <2> QED  BY <2>2, <2>3
<1>5. ASSUME UNCHANGED <<currTerm, accepted>>
      PROVE  TermsGrow /\ OwnTermOnly
  BY <1>1, <1>5 DEF TermsGrow, OwnTermOnly
<1> QED  BY <1>2, <1>3, <1>4, <1>5, ChosenKinds

LEMMA AsksFrame ==
    ASSUME AsksWithChain, NEW s \in Server, NEW m, NetMoves(s, m),
           m.type # "REQ_VOTE_RPC",
           \A c \in Server : role'[c] = "Candidate" =>
                /\ role[c] = "Candidate" /\ currTerm'[c] = currTerm[c]
                /\ bcLog'[c] = bcLog[c]
    PROVE  AsksWithChain'
<1> SUFFICES ASSUME NEW c \in Server, NEW f \in Server,
                    NEW k \in DOMAIN net'[c][f],
                    net'[c][f][k].type = "REQ_VOTE_RPC",
                    role'[c] = "Candidate", net'[c][f][k].term = currTerm'[c]
             PROVE  /\ net'[c][f][k].lastLogTerm = LastTerm(bcLog'[c])
                    /\ net'[c][f][k].lastLogIndex = LastIndex(bcLog'[c])
  BY DEF AsksWithChain, LastTerm, LastIndex
<1>1. PICK d \in {0, 1} : \A l \in DOMAIN net'[c][f] :
        IF l + d \in DOMAIN net[c][f]
        THEN net'[c][f][l] = net[c][f][l + d] ELSE net'[c][f][l] = m
  BY DEF NetMoves
<1>2. k + d \in DOMAIN net[c][f] /\ net'[c][f][k] = net[c][f][k + d]
  BY <1>1
<1> QED  BY <1>2 DEF AsksWithChain

LEMMA AsksSteady ==
    ASSUME TypeInv, TypeInv', AsksOnce, AsksWithChain, SteadyStep
    PROVE  AsksWithChain'
<1> SUFFICES ASSUME NEW c \in Server, NEW f \in Server,
                    NEW k \in DOMAIN net'[c][f],
                    net'[c][f][k].type = "REQ_VOTE_RPC",
                    role'[c] = "Candidate", net'[c][f][k].term = currTerm'[c]
             PROVE  /\ net'[c][f][k].lastLogTerm = LastTerm(bcLog[c])
                    /\ net'[c][f][k].lastLogIndex = LastIndex(bcLog[c])
  BY DEF AsksWithChain, LastTerm, LastIndex, SteadyStep
<1>1. PICK s \in Server, m \in Message : NetMoves(s, m) /\ NoBlocks(s, m)
  BY DEF SteadyStep
<1>2. PICK d \in {0, 1} : \A l \in DOMAIN net'[c][f] :
        IF l + d \in DOMAIN net[c][f]
        THEN net'[c][f][l] = net[c][f][l + d] ELSE c = s /\ net'[c][f][l] = m
  BY <1>1 DEF NetMoves
<1>3. CASE k + d \notin DOMAIN net[c][f]
  BY <1>1, <1>2, <1>3 DEF NoBlocks
<1>4. CASE k + d \in DOMAIN net[c][f]
  <2>1. net'[c][f][k] = net[c][f][k + d]  BY <1>2, <1>4
  <2>2. currTerm'[c] \in Term /\ currTerm'[c] \in Int /\ currTerm[c] \in Int
    BY DEF TypeInv, TypeOK, ServerTypes, Term
  <2>3. k + d \in Asks(net[c][f], currTerm'[c])  BY <1>4, <2>1 DEF Asks
  <2>4. currTerm'[c] <= currTerm[c]  BY <2>2, <2>3 DEF AsksOnce
  <2>5. role[c] = "Candidate" /\ currTerm'[c] = currTerm[c]
    BY <2>2, <2>4 DEF SteadyStep
  <2> QED  BY <1>4, <2>1, <2>5 DEF AsksWithChain
<1> QED  BY <1>3, <1>4

LEMMA AsksStep ==
    ASSUME BaseInv, BaseInv', AsksWithChain, [Next]_vars
    PROVE  AsksWithChain'
<1> USE DEF BaseInv
<1>1. CASE SteadyStep  BY <1>1, AsksSteady DEF ElectionInv
<1>2. ASSUME NEW s \in Server, NEW r \in Request, LeaderTakeRequest(s, r)
      PROVE  AsksWithChain'
  <2>1. /\ role[s] = "Leader" /\ UNCHANGED <<role, currTerm>>
        /\ NetMoves(s, NewOffer(s, r))
        /\ \A q \in Server :
            bcLog'[q] = IF q = s THEN GrownChain(s, r) ELSE bcLog[q]
    BY <1>2, TakeRequestShape
  <2>2. NewOffer(s, r).type = "APP_ENTR_RPC"  BY DEF NewOffer, AppendFrom
  <2> QED  BY <2>1, <2>2, AsksFrame
<1>3. ASSUME NEW s \in Server, NEW m \in Offers(net), TakesAppend(s, m)
      PROVE  AsksWithChain'
  <2>1. PICK reply : reply.type = "APP_ENTR_RPL" /\ NetMoves(s, reply)
    BY <1>3 DEF TakesAppend
  <2>2. \A c \in Server : role'[c] = "Candidate" =>
            /\ role[c] = "Candidate" /\ currTerm'[c] = currTerm[c]
            /\ bcLog'[c] = bcLog[c]
    BY <1>3 DEF TakesAppend
  <2> QED  BY <2>1, <2>2, AsksFrame
<1>4. ASSUME NEW s \in Server, UNCHANGED <<role, currTerm, bcLog>>,
             NEW prev, NetMoves(s, AppendFrom(s, bcLog[s], prev))
      PROVE  AsksWithChain'
  <2>1. AppendFrom(s, bcLog[s], prev).type = "APP_ENTR_RPC"  BY DEF AppendFrom
  <2> QED  BY <1>4, <2>1, AsksFrame
<1> QED  BY <1>1, <1>2, <1>3, <1>4, ChosenKinds

LEMMA VotesStep ==
    ASSUME BaseInv, BaseInv', VotesReached, [Next]_vars
    PROVE  VotesReached'
<1> USE DEF BaseInv
<1>1. TermsGrow  BY TermsStep
<1>2. /\ Term \subseteq Int
      /\ \A q \in Server : currTerm[q] \in Int /\ currTerm'[q] \in Int
  BY DEF TypeInv, TypeOK, ServerTypes, Term
<1>3. ASSUME NEW t \in Term, NEW f \in Server, NEW c \in Server,
             <<t, f, c>> \in votes
      PROVE  t <= currTerm'[c]
  <2>1. t <= currTerm[c] /\ currTerm[c] <= currTerm'[c]
    BY <1>1, <1>3 DEF VotesReached, TermsGrow
  <2> QED  BY <1>2, <2>1
<1>4. CASE RolesStay  BY <1>3, <1>4 DEF RolesStay, VotesReached
<1>5. ASSUME NEW s \in Server, BecomeCandidate(s) PROVE VotesReached'
  <2>1. votes' = votes \cup {<<currTerm[s] + 1, s, s>>}
        /\ currTerm'[s] = currTerm[s] + 1
    BY <1>5 DEF BecomeCandidate, TypeInv, TypeOK, ServerTypes
  <2> SUFFICES ASSUME NEW t \in Term, NEW f \in Server, NEW c \in Server,
                      <<t, f, c>> \in votes', <<t, f, c>> \notin votes
               PROVE  t <= currTerm'[c]
    BY <1>3 DEF VotesReached
  <2>2. t = currTerm[s] + 1 /\ c = s  BY <2>1
  <2> QED  BY <1>2, <2>1, <2>2
<1>6. ASSUME NEW s \in Server, NEW i \in Server, FollowerVote(s, i)
      PROVE  VotesReached'
  <2>1. PICK m \in Arriving(i, s, "REQ_VOTE_RPC") : FollowerVote(s, i)!(m)
    BY <1>6 DEF FollowerVote
  <2>2. m \in Message /\ net[i][s] # <<>> /\ m = Head(net[i][s])
        /\ m.type = "REQ_VOTE_RPC"
    BY ArrivingType DEF TypeInv
  <2>3. m.term \in Term /\ m.term \in Int  BY <2>2, MessageKinds DEF Term
  <2>4. 1 \in DOMAIN net[i][s] /\ m = net[i][s][1]
    <3>1. net[i][s] \in Seq(Message)  BY DEF TypeInv, TypeOK, NetTypes
    <3> QED  BY <2>2, <3>1
  <2>5. 1 \in Asks(net[i][s], m.term)  BY <2>2, <2>4 DEF Asks
  <2>6. m.term <= currTerm[i]  BY <2>3, <2>5 DEF ElectionInv, AsksOnce
  <2>7. m.term <= currTerm'[i]
    <3>1. currTerm[i] <= currTerm'[i]  BY <1>1 DEF TermsGrow
    <3> QED  BY <1>2, <2>3, <2>6, <3>1
  <2> SUFFICES ASSUME NEW t \in Term, NEW f \in Server, NEW c \in Server,
                      <<t, f, c>> \in votes', <<t, f, c>> \notin votes
               PROVE  t <= currTerm'[c]
    BY <1>3 DEF VotesReached
  <2>8. /\ GrantsVote(s, i, m)
        /\ votes' = votes \cup
            {<<IF m.term > currTerm[s] THEN m.term ELSE currTerm[s], s, i>>}
    BY <2>1
  <2>9. c = i /\ t = (IF m.term > currTerm[s] THEN m.term ELSE currTerm[s])
    BY <2>8
  <2>10. m.term >= currTerm[s]  BY <2>8 DEF GrantsVote
  <2>11. t = m.term  BY <1>2, <2>3, <2>9, <2>10
  <2> QED  BY <2>7, <2>9, <2>11
<1>7. ASSUME NEW s \in Server, NEW i \in Server, BecomeLeader(s, i)
      PROVE  VotesReached'
  <2>1. votes' = votes  BY <1>7 DEF BecomeLeader
  <2> QED  BY <1>3, <2>1 DEF VotesReached
<1> QED  BY <1>4, <1>5, <1>6, <1>7, RoleKinds

LEMMA AcceptedStep ==
    ASSUME BaseInv, BaseInv', LinksAccepted, AcceptedReached, [Next]_vars
    PROVE  accepted \subseteq accepted' /\ LinksAccepted' /\ AcceptedReached'
<1> USE DEF BaseInv
<1>1. AcceptedReached'
  <2> SUFFICES ASSUME NEW a \in accepted' PROVE a[3].term <= currTerm'[a[1]]
    BY DEF AcceptedReached
  <2>1. TermsGrow /\ OwnTermOnly  BY TermsStep
  <2>2. a[1] \in Server /\ a[3].term \in Int /\ currTerm'[a[1]] \in Int
        /\ currTerm[a[1]] \in Int
    <3>1. a \in Server \X Index \X Block
      BY DEF TypeInv, TypeOK, HistoryTypes
    <3>2. a[1] \in Server /\ a[3] \in Block  BY <3>1
    <3> QED  BY <3>2 DEF TypeInv, TypeOK, ServerTypes, Block, Term
  <2>3. CASE a \in accepted
    <3>1. a[3].term <= currTerm[a[1]] /\ currTerm[a[1]] <= currTerm'[a[1]]
      BY <2>1, <2>2, <2>3 DEF AcceptedReached, TermsGrow
    <3> QED  BY <2>2, <3>1
  <2>4. CASE a \notin accepted  BY <2>1, <2>2, <2>4 DEF OwnTermOnly
  <2> QED  BY <2>3, <2>4
<1>2. ASSUME Links' \subseteq Links, accepted \subseteq accepted'
      PROVE  LinksAccepted'
  BY <1>2 DEF LinksAccepted
<1>3. CASE SteadyStep  BY <1>1, <1>2, <1>3, SteadyLinks DEF SteadyStep
<1>4. ASSUME NEW s \in Server, NEW r \in Request, LeaderTakeRequest(s, r)
      PROVE  accepted \subseteq accepted' /\ LinksAccepted'
  <2>1. accepted' = accepted \cup {<<s, Len(bcLog[s]), NewBlock(s, r)>>}
    BY <1>4, TakeRequestShape
  <2>2. Len(bcLog[s]) \in Int  BY ChainTypesAt DEF TypeInv
  <2>3. ASSUME NEW l \in Links'
        PROVE  \E q \in Server : <<q, l.at - 1, l.block>> \in accepted'
    <3>1. CASE l \in Links  BY <2>1, <3>1 DEF LinksAccepted
    <3>2. CASE l.at = Len(bcLog[s]) + 1 /\ l.block = NewBlock(s, r)
      <4>1. l.at - 1 = Len(bcLog[s])  BY <2>2, <3>2
      <4> QED  BY <2>1, <3>2, <4>1
    <3> QED  BY <1>4, <3>1, <3>2, TakeRequestLinks
  <2> QED  BY <2>1, <2>3 DEF LinksAccepted
<1>5. ASSUME NEW s \in Server, NEW i \in Server, FollowerAppend(s, i)
      PROVE  accepted \subseteq accepted' /\ LinksAccepted'
  <2>1. Links' \subseteq Links  BY <1>5, AppendMakesNoLink
  <2>2. accepted \subseteq accepted'  BY <1>5 DEF FollowerAppend
  <2> QED  BY <1>2, <2>1, <2>2
<1>6. ASSUME NEW s \in Server, NEW f \in Server, LeaderRetry(s, f)
      PROVE  accepted \subseteq accepted' /\ LinksAccepted'
  <2>1. NoLoop  BY DEF ElectionInv
  <2>2. accepted' = accepted /\ Links' \subseteq Links
    BY <1>6, <2>1, RetryShape, SteadyLinks
  <2> QED  BY <1>2, <2>2
<1> QED  BY <1>1, <1>3, <1>4, <1>5, <1>6, StepKinds DEF ElectionInv

\* What is safe stays safe unless it is dead.
LEMMA SafeStep ==
    ASSUME BaseInv, BaseInv', AsksWithChain, VotesReached, [Next]_vars,
           NEW x \in Index, NEW b \in Block, Safe(x, b), ~Dead(x, b),
           AcceptedBy(x, b) # {}
    PROVE  Safe(x, b)'
<1> USE DEF BaseInv
<1>1. CASE SteadyStep
  <2>1. CASE RolesStay  BY <1>1, <2>1, RolesStaySafe
  <2>2. ASSUME NEW s \in Server, BecomeCandidate(s) PROVE Safe(x, b)'
    BY <1>1, <2>2, CandidateSafe
  <2>3. ASSUME NEW s \in Server, NEW i \in Server, FollowerVote(s, i)
        PROVE  Safe(x, b)'
    <3>1. NoLoop  BY DEF ElectionInv
    <3> QED  BY <1>1, <2>3, <3>1, VoteSafe
  <2>4. ASSUME NEW s \in Server, NEW i \in Server, BecomeLeader(s, i)
        PROVE  Safe(x, b)'
    BY <1>1, <2>4, LeaderSafe
  <2> QED  BY <2>1, <2>2, <2>3, <2>4, RoleKinds
<1>2. ASSUME NEW s \in Server, NEW r \in Request, LeaderTakeRequest(s, r)
      PROVE  Safe(x, b)'
  BY <1>2, TakeRequestSafe
<1>3. ASSUME NEW s \in Server, NEW m \in Offers(net), TakesAppend(s, m)
      PROVE  Safe(x, b)'
  BY <1>3, AppendSafe
<1>4. ASSUME NEW s \in Server, role[s] = "Leader",
             UNCHANGED <<role, currTerm, bcLog, accepted, votes>>,
             NEW prev \in Index, prev <= Len(bcLog[s]) - 2,
             NetMoves(s, AppendFrom(s, bcLog[s], prev))
      PROVE  Safe(x, b)'
  BY <1>4, RetrySafe
<1> QED  BY <1>1, <1>2, <1>3, <1>4, ChosenKinds

\* A block that nobody had accepted is a leader's new block: what a follower
\* accepts was accepted before by the leader that sent it.
LEMMA FirstAccepted ==
    ASSUME BaseInv, BaseInv', LinksAccepted, [Next]_vars,
           NEW x \in Index, NEW b \in Block, AcceptedBy(x, b) = {},
           NEW q \in Server, <<q, x, b>> \in accepted'
    PROVE  Dead(x, b)' \/ Safe(x, b)'
<1> USE DEF BaseInv
<1>1. <<q, x, b>> \notin accepted  BY DEF AcceptedBy
<1>2. CASE SteadyStep  BY <1>1, <1>2 DEF SteadyStep
<1>3. ASSUME NEW s \in Server, NEW r \in Request, LeaderTakeRequest(s, r)
      PROVE  Dead(x, b)' \/ Safe(x, b)'
  <2>1. accepted' = accepted \cup {<<s, Len(bcLog[s]), NewBlock(s, r)>>}
    BY <1>3, TakeRequestShape
  <2>2. <<q, x, b>> = <<s, Len(bcLog[s]), NewBlock(s, r)>>  BY <1>1, <2>1
  <2>3. x = Len(bcLog[s]) /\ b = NewBlock(s, r)  BY <2>2
  <2> QED  BY <1>3, <2>3, NewBlockSafe
<1>4. ASSUME NEW s \in Server, NEW m \in Offers(net), TakesAppend(s, m)
      PROVE  FALSE
  <2>1. PICK e \in DOMAIN m.entries :
            <<q, x, b>> = <<s, m.prevLogIndex + e, m.entries[e]>>
    BY <1>1, <1>4, NewlyAccepted
  <2>2. x = m.prevLogIndex + e /\ b = m.entries[e]  BY <2>1
  <2>3. PICK l \in Links :
            l.at = m.prevLogIndex + 1 + e /\ l.block = m.entries[e]
    BY EntryLinks
  <2>4. m.prevLogIndex \in Int /\ e \in Int
    <3>1. m.prevLogIndex \in Int /\ m.entries \in Seq(Block)
      BY OfferTypes DEF TypeInv
    <3> QED  BY <3>1
  <2>5. l.at - 1 = x /\ l.block = b  BY <2>2, <2>3, <2>4
  <2>6. PICK p \in Server : <<p, l.at - 1, l.block>> \in accepted
    BY DEF LinksAccepted
  <2> QED  BY <2>5, <2>6 DEF AcceptedBy
<1>5. CASE UNCHANGED accepted  BY <1>1, <1>5
<1> QED  BY <1>2, <1>3, <1>4, <1>5, ChosenKinds

LEMMA ChosenStep ==
    ASSUME BaseInv, BaseInv', ChosenInv, [Next]_vars
    PROVE  ChosenInv'
<1>1. AsksWithChain /\ VotesReached /\ LinksAccepted /\ AcceptedReached
  BY DEF ChosenInv
<1>2. AsksWithChain' /\ VotesReached' /\ LinksAccepted' /\ AcceptedReached'
  BY <1>1, AsksStep, VotesStep, AcceptedStep
<1>3. TermsGrow /\ OwnTermOnly  BY TermsStep
<1>4. TypeOK /\ TypeOK'  BY DEF BaseInv, TypeInv
<1>5. ASSUME NEW a \in accepted' PROVE Dead(a[2], a[3])' \/ Safe(a[2], a[3])'
  <2>1. PICK q \in Server, x \in Index, b \in Block : a = <<q, x, b>>
    BY <1>4 DEF TypeOK, HistoryTypes
  <2>2. a[2] = x /\ a[3] = b  BY <2>1
  <2>3. ASSUME AcceptedBy(x, b) = {} PROVE Dead(x, b)' \/ Safe(x, b)'
    BY <1>1, <2>1, <2>3, FirstAccepted
  <2>4. ASSUME AcceptedBy(x, b) # {} PROVE Dead(x, b)' \/ Safe(x, b)'
    <3>1. PICK p \in Server : <<p, x, b>> \in accepted
      BY <2>4 DEF AcceptedBy
    <3>2. <<p, x, b>>[2] = x /\ <<p, x, b>>[3] = b  OBVIOUS
    <3>3. Dead(x, b) \/ Safe(x, b)  BY <3>1, <3>2 DEF ChosenInv
    <3>4. CASE Dead(x, b)  BY <1>3, <1>4, <3>4, DeadStays
    <3>5. CASE Safe(x, b) /\ ~Dead(x, b)
      BY <1>1, <2>4, <3>5, SafeStep
    <3> QED  BY <3>3, <3>4, <3>5
  <2> QED  BY <2>2, <2>3, <2>4
<1> QED  BY <1>2, <1>5 DEF ChosenInv

LEMMA ChosenInit == Init => ChosenInv
<1> SUFFICES ASSUME Init PROVE ChosenInv
  OBVIOUS
<1>1. /\ accepted = {} /\ votes = {} /\ \A s \in Server : bcLog[s] = <<>>
      /\ \A i, j \in Server : net[i][j] = <<>>
  BY DEF Init
<1>2. Links = {}
  <2>1. Offers(net) = {}  BY <1>1, OffersIn
  <2>2. \A s \in Server : ChainLinks(bcLog[s]) = {}  BY <1>1, ChainLinksIn
  <2> QED  BY <2>1, <2>2, LinksIn
<1> QED
  BY <1>1, <1>2 DEF ChosenInv, AsksWithChain, VotesReached, LinksAccepted,
                    AcceptedReached

\* A block that a leader or a follower of state.cpp has put into its chain in
\* the block's own term is dead, a majority having gone on without it, or it is
\* kept by all that matter: those that accepted it, later leaders and chains,
\* candidates that may win, and appends under way.
THEOREM ChosenInvariant == Spec => []ChosenInv
<1>1. Init => ChosenInv  BY ChosenInit
<1>2. TypeInv /\ TypeInv' /\ ElectionInv /\ ElectionInv' /\ ElectionSafety
        /\ ElectionSafety' /\ LogInv /\ LogInv' /\ GrowthInv /\ GrowthInv'
        /\ ChosenInv /\ [Next]_vars => ChosenInv'
  BY ChosenStep DEF BaseInv
<1> QED
  BY <1>1, <1>2, TypeCorrect, ElectionInvariant, ElectionSafe, LogInvariant,
     GrowthInvariant, PTL DEF Spec

-----------------------------------------------------------------------------
(* Commits.                                                                *)

LEMMA MajorityAlive ==
    ASSUME NEW x, NEW b, Cardinality(AcceptedBy(x, b)) >= Majority
    PROVE  AcceptedBy(x, b) # {} /\ ~Dead(x, b)
<1>1. AcceptedBy(x, b) \in SUBSET Server  BY DEF AcceptedBy
<1>2. AcceptedBy(x, b) # {}
  <2>1. AcceptedBy(x, b) \cap AcceptedBy(x, b) # {}
    BY <1>1, MajoritiesMeet
  <2> QED  BY <2>1
<1>3. ASSUME Dead(x, b) PROVE FALSE
  <2>1. PICK W \in SUBSET Server :
            /\ Cardinality(W) >= Majority
            /\ \A w \in W : w \notin AcceptedBy(x, b)
    BY <1>3 DEF Dead
  <2>2. W \cap AcceptedBy(x, b) # {}  BY <1>1, <2>1, MajoritiesMeet
  <2> QED  BY <2>1, <2>2
<1> QED  BY <1>2, <1>3

LEMMA CommitSafe ==
    ASSUME TypeOK, ChosenInv, CommitsAccepted, NEW c \in commits
    PROVE  /\ c[1] \in Index /\ c[2] \in Block
           /\ AcceptedBy(c[1], c[2]) # {} /\ Safe(c[1], c[2])
<1>1. PICK x \in Index, b \in Block : c = <<x, b>>
  BY DEF TypeOK, HistoryTypes
<1>2. c[1] = x /\ c[2] = b  BY <1>1
<1>3. Cardinality(AcceptedBy(x, b)) >= Majority
  BY <1>2 DEF CommitsAccepted
<1>4. AcceptedBy(x, b) # {} /\ ~Dead(x, b)  BY <1>3, MajorityAlive
<1>5. PICK q \in Server : <<q, x, b>> \in accepted  BY <1>4 DEF AcceptedBy
<1>6. <<q, x, b>>[2] = x /\ <<q, x, b>>[3] = b  OBVIOUS
<1>7. Safe(x, b)  BY <1>4, <1>5, <1>6 DEF ChosenInv
<1> QED  BY <1>2, <1>4, <1>7

LEMMA HeldStays ==
    ASSUME BaseInv, BaseInv', [Next]_vars, NEW q \in Server,
           NEW x \in Index, NEW b \in Block, Safe(x, b), Holds(bcLog[q], x, b)
    PROVE  Holds(bcLog'[q], x, b)
<1> USE DEF BaseInv
<1>1. CASE UNCHANGED bcLog  BY <1>1
<1>2. ASSUME NEW s \in Server, NEW r \in Request, LeaderTakeRequest(s, r)
      PROVE  Holds(bcLog'[q], x, b)
  <2>1. /\ GrownChain(s, r) \in Seq(Block)
        /\ \A k \in DOMAIN bcLog[s] :
            k \in DOMAIN GrownChain(s, r) /\ GrownChain(s, r)[k] = bcLog[s][k]
        /\ bcLog'[q] = IF q = s THEN GrownChain(s, r) ELSE bcLog[q]
    BY <1>2, TakeRequestShape
  <2>2. CASE q # s  BY <2>1, <2>2
  <2>3. CASE q = s
    <3>1. x \in Int /\ x + 1 \in DOMAIN bcLog[s] /\ bcLog[s][x + 1] = b
      BY <2>3, ServerHolds DEF TypeInv
    <3>2. x + 1 \in DOMAIN GrownChain(s, r) /\ GrownChain(s, r)[x + 1] = b
      BY <2>1, <3>1
    <3>3. Holds(GrownChain(s, r), x, b)  BY <2>1, <3>1, <3>2, HoldsAt
    <3> QED  BY <2>1, <2>3, <3>3
  <2> QED  BY <2>2, <2>3
<1>3. ASSUME NEW s \in Server, NEW m \in Offers(net), TakesAppend(s, m)
      PROVE  Holds(bcLog'[q], x, b)
  <2>1. CASE q # s  BY <1>3, <2>1 DEF TakesAppend
  <2>2. CASE q = s  BY <1>3, <2>2, AppendKeeps
  <2> QED  BY <2>1, <2>2
<1>4. CASE SteadyStep  BY <1>1, <1>4 DEF SteadyStep
<1> QED  BY <1>1, <1>2, <1>3, <1>4, ChosenKinds

\* A chain that keeps a block keeps all before it.
LEMMA PrefixStays ==
    ASSUME BaseInv, BaseInv', [Next]_vars, NEW q \in Server,
           NEW x \in Index, NEW b, Holds(bcLog[q], x, b),
           Holds(bcLog'[q], x, b), NEW k \in 1 .. x + 1
    PROVE  bcLog'[q][k] = bcLog[q][k]
<1> USE DEF BaseInv
<1>1. /\ bcLog[q] \in Seq(Block) /\ bcLog'[q] \in Seq(Block) /\ x \in Int
  BY DEF TypeInv, TypeOK, ChainTypes, Index
<1>2. /\ x + 1 \in DOMAIN bcLog[q] /\ bcLog[q][x + 1] = b
      /\ x + 1 \in DOMAIN bcLog'[q] /\ bcLog'[q][x + 1] = b
  BY <1>1, HoldsAt
<1>3. ASSUME Links' \subseteq Links PROVE bcLog'[q][k] = bcLog[q][k]
  <2>1. ChainLinks(bcLog[q]) \subseteq Links  BY LinksIn
  <2>2. ChainLinks(bcLog'[q]) \subseteq Links'  BY Zenon DEF Links
  <2>3. ChainLinks(bcLog'[q]) \subseteq Links  BY <1>3, <2>2
  <2> QED
    BY <1>1, <1>2, <2>1, <2>3, ChainsAgreeBelow DEF LogInv, LinkUnique
<1>4. CASE SteadyStep  BY <1>3, <1>4, SteadyLinks
<1>5. ASSUME NEW s \in Server, NEW r \in Request, LeaderTakeRequest(s, r)
      PROVE  bcLog'[q][k] = bcLog[q][k]
  <2>1. k \in DOMAIN bcLog[q]  BY <1>1, <1>2
  <2> QED  BY <1>5, <2>1, TakeRequestShape
<1>6. ASSUME NEW s \in Server, NEW i \in Server, FollowerAppend(s, i)
      PROVE  bcLog'[q][k] = bcLog[q][k]
  BY <1>3, <1>6, AppendMakesNoLink
<1>7. ASSUME NEW s \in Server, NEW f \in Server, LeaderRetry(s, f)
      PROVE  bcLog'[q][k] = bcLog[q][k]
  <2>1. NoLoop /\ bcLog' = bcLog  BY <1>7 DEF ElectionInv, LeaderRetry, chainVars
  <2> QED  BY <2>1
<1> QED  BY <1>4, <1>5, <1>6, <1>7, StepKinds DEF ElectionInv

\* Two steps execute blocks.
CommitsNothing == UNCHANGED <<commits, allStored, committedIndex, balTab>>

LEMMA CommitKinds ==
    ASSUME [Next]_vars
    PROVE  \/ CommitsNothing
           \/ \E s, i \in Server : FollowerHeartbeat(s, i) \/ LeaderCommit(s, i)
<1>1. ASSUME NEW s \in Server,
             BecomeCandidate(s) \/ LeaderHeartbeat(s) \/ LeaderGiveUp(s)
      PROVE  CommitsNothing
  BY <1>1 DEF CommitsNothing, BecomeCandidate, LeaderHeartbeat, LeaderGiveUp,
              chainVars, commitHist
<1>2. ASSUME NEW s \in Server, NEW r \in Request, LeaderTakeRequest(s, r)
      PROVE  CommitsNothing
  BY <1>2 DEF CommitsNothing, LeaderTakeRequest
<1>3. ASSUME NEW s \in Server, NEW i \in Server,
             \/ FollowerVote(s, i) \/ FollowerRejectStale(s, i)
             \/ FollowerAppend(s, i) \/ CandidateStepDown(s, i)
             \/ CandidateCountVote(s, i) \/ BecomeLeader(s, i)
      PROVE  CommitsNothing
  BY <1>3 DEF CommitsNothing, FollowerVote, FollowerRejectStale,
              FollowerAppend, CandidateStepDown, CandidateCountVote,
              BecomeLeader, StepDown, chainVars, commitHist
<1>4. ASSUME NEW s \in Server, NEW i \in Server,
             \/ LeaderStepDown(s, i) \/ LeaderNoteAccept(s, i)
             \/ LeaderCountAccept(s, i) \/ LeaderRetry(s, i)
             \/ Ignore(s, i) \/ Lose(i, s)
      PROVE  CommitsNothing
  BY <1>4 DEF CommitsNothing, LeaderStepDown, LeaderNoteAccept,
              LeaderCountAccept, LeaderRetry, Ignore, Lose, StepDown,
              chainVars, commitHist
<1>5. CASE UNCHANGED vars
  BY <1>5 DEF CommitsNothing, vars, chainVars, commitHist
<1> QED  BY <1>1, <1>2, <1>3, <1>4, <1>5 DEF Next

\* s executes its blocks up to new, as the head of its chain tells or as a
\* leader's heartbeat does.
ExecutesUpTo(s, new) ==
    /\ new \in 0 .. LastIndex(bcLog[s])
    /\ bcLog' = bcLog
    /\ committedIndex' = [committedIndex EXCEPT ![s] = new]
    /\ balTab' = [balTab EXCEPT ![s] =
                    @ \o Executed(bcLog[s], committedIndex[s], new)]
    /\ \/ /\ new = LastIndex(bcLog[s])
          /\ commits' = commits \cup {<<new, bcLog[s][new + 1]>>}
          /\ allStored' =
                (/\ allStored
                 /\ Cardinality(AcceptedBy(new, bcLog[s][new + 1])) >= Majority)
       \/ /\ UNCHANGED <<commits, allStored>>
          /\ new > committedIndex[s]
          /\ \E m \in Offers(net) :
                /\ m.entries = <<>> /\ m.commitIndex = new
                /\ m.prevLogIndex = LastIndex(bcLog[s])
                /\ m.prevLogTerm = LastTerm(bcLog[s])

LEMMA CommitShape ==
    ASSUME TypeInv, [Next]_vars
    PROVE  CommitsNothing \/ \E s \in Server, new \in Int : ExecutesUpTo(s, new)
<1> USE DEF TypeInv
<1>1. ASSUME NEW s \in Server, NEW i \in Server, FollowerHeartbeat(s, i)
      PROVE  CommitsNothing \/ \E new \in Int : ExecutesUpTo(s, new)
  <2>1. PICK m \in Arriving(i, s, "APP_ENTR_RPC") : FollowerHeartbeat(s, i)!(m)
    BY <1>1 DEF FollowerHeartbeat
  <2>2. m \in Message /\ net[i][s] # <<>> /\ m = Head(net[i][s])
        /\ m.type = "APP_ENTR_RPC"
    BY ArrivingType
  <2>3. 1 \in DOMAIN net[i][s] /\ m = net[i][s][1]
    <3>1. net[i][s] \in Seq(Message)  BY DEF TypeOK, NetTypes
    <3> QED  BY <2>2, <3>1
  <2>4. m \in Offers(net)  BY <2>2, <2>3, OffersIn
  <2>5. /\ m.entries = <<>> /\ UNCHANGED <<bcLog, commits, allStored>>
        /\ IF CommitsOnHeartbeat(s, m) THEN CommitUpTo(s, m.commitIndex)
           ELSE UNCHANGED <<committedIndex, balTab>>
    BY <2>1 DEF commitHist
  <2>6. CASE CommitsOnHeartbeat(s, m)
                /\ m.commitIndex \in 0 .. LastIndex(bcLog[s])
    <3>1. ExecutesUpTo(s, m.commitIndex)
      BY <2>4, <2>5, <2>6 DEF CommitUpTo, CommitsOnHeartbeat, ExecutesUpTo
    <3> QED  BY <2>6, <3>1
  <2>7. CASE ~(CommitsOnHeartbeat(s, m)
                /\ m.commitIndex \in 0 .. LastIndex(bcLog[s]))
    BY <2>5, <2>7 DEF CommitUpTo, CommitsNothing
  <2> QED  BY <2>6, <2>7
<1>2. ASSUME NEW s \in Server, NEW f \in Server, LeaderCommit(s, f)
      PROVE  \E new \in Int : ExecutesUpTo(s, new)
  <2> DEFINE new == LastIndex(bcLog[s])
  <2>1. bcLog[s] \in Seq(Block) /\ bcLog[s] # <<>>
    BY <1>2 DEF LeaderCommit, LeaderShape, TypeOK, ChainTypes
  <2>2. new \in 0 .. LastIndex(bcLog[s]) /\ new \in Int
    BY <2>1 DEF LastIndex
  <2>3. /\ CommitUpTo(s, new) /\ bcLog' = bcLog
        /\ commits' = commits \cup {<<new, bcLog[s][new + 1]>>}
        /\ allStored' =
              (/\ allStored
               /\ Cardinality(AcceptedBy(new, bcLog[s][new + 1])) >= Majority)
    BY <1>2 DEF LeaderCommit, BlockAt
  <2>4. new = LastIndex(bcLog[s])  OBVIOUS
  <2> HIDE DEF new
  <2>5. ExecutesUpTo(s, new)
    BY <2>2, <2>3, <2>4 DEF CommitUpTo, ExecutesUpTo
  <2> QED  BY <2>2, <2>5
<1> QED  BY <1>1, <1>2, CommitKinds

LEMMA CommitsAcceptedStep ==
    ASSUME BaseInv, BaseInv', ChosenInv, CommitsAccepted, [Next]_vars, allStored'
    PROVE  CommitsAccepted'
<1> USE DEF BaseInv
<1>1. accepted \subseteq accepted'  BY AcceptedStep DEF ChosenInv
<1>2. ASSUME NEW x, NEW b, Cardinality(AcceptedBy(x, b)) >= Majority
      PROVE  Cardinality(AcceptedBy(x, b)') >= Majority
  <2>1. AcceptedBy(x, b) \subseteq AcceptedBy(x, b)'
        /\ AcceptedBy(x, b)' \subseteq Server
    BY <1>1 DEF AcceptedBy
  <2>2. IsFiniteSet(AcceptedBy(x, b)')  BY <2>1, ServerAssumption, FS_Subset
  <2>3. Cardinality(AcceptedBy(x, b)) <= Cardinality(AcceptedBy(x, b)')
        /\ IsFiniteSet(AcceptedBy(x, b))
    BY <2>1, <2>2, FS_Subset
  <2>4. /\ Cardinality(AcceptedBy(x, b)) \in Int
        /\ Cardinality(AcceptedBy(x, b)') \in Int
        /\ Cardinality(Server) \in Int
    BY <2>2, <2>3, ServerAssumption, FS_CardinalityType
  <2>5. Majority \in Int  BY <2>4 DEF Majority
  <2> QED  BY <1>2, <2>3, <2>4, <2>5
<1>3. ASSUME NEW c \in commits'
      PROVE  Cardinality(AcceptedBy(c[1], c[2])') >= Majority
  <2>1. CASE c \in commits  BY <1>2, <2>1 DEF CommitsAccepted
  <2>2. CASE c \notin commits
    <3>1. PICK s \in Server, new \in Int : ExecutesUpTo(s, new)
      BY <2>2, CommitShape DEF CommitsNothing
    <3>2. /\ c = <<new, bcLog[s][new + 1]>>
          /\ Cardinality(AcceptedBy(new, bcLog[s][new + 1])) >= Majority
      BY <2>2, <3>1 DEF ExecutesUpTo
    <3>3. c[1] = new /\ c[2] = bcLog[s][new + 1]  BY <3>2
    <3> QED  BY <1>2, <3>2, <3>3
  <2> QED  BY <2>1, <2>2
<1>4. Majority' = Majority  BY DEF Majority
<1> QED  BY <1>3, <1>4 DEF CommitsAccepted

\* Where a server may execute, the block is that of a commit.
LEMMA CommittedHeldStep ==
    ASSUME BaseInv, BaseInv', ChosenInv, CommitsAccepted, CommittedHeld,
           HeartbeatsHeld, [Next]_vars
    PROVE  CommittedHeld'
<1> USE DEF BaseInv
<1>1. commits \subseteq commits'
  BY CommitShape DEF CommitsNothing, ExecutesUpTo
<1>2. ASSUME NEW q \in Server, committedIndex'[q] # -1,
             committedIndex'[q] = committedIndex[q]
      PROVE  \E c \in commits' :
                c[1] = committedIndex'[q] /\ Holds(bcLog'[q], c[1], c[2])
  <2>1. PICK c \in commits :
            c[1] = committedIndex[q] /\ Holds(bcLog[q], c[1], c[2])
    BY <1>2 DEF CommittedHeld
  <2>2. c[1] \in Index /\ c[2] \in Block /\ Safe(c[1], c[2])
    BY CommitSafe DEF TypeInv
  <2>3. Holds(bcLog'[q], c[1], c[2])  BY <2>1, <2>2, HeldStays
  <2> QED  BY <1>1, <1>2, <2>1, <2>3
<1>3. ASSUME NEW s \in Server, NEW new \in Int, ExecutesUpTo(s, new)
      PROVE  \E c \in commits' : c[1] = new /\ Holds(bcLog'[s], c[1], c[2])
  <2>1. new \in 0 .. LastIndex(bcLog[s]) /\ bcLog' = bcLog /\ new \in Index
    BY <1>3 DEF ExecutesUpTo, Index
  <2>2. CASE commits' = commits \cup {<<new, bcLog[s][new + 1]>>}
    <3> DEFINE c == <<new, bcLog[s][new + 1]>>
    <3>1. c \in commits' /\ c[1] = new /\ c[2] = BlockAt(bcLog[s], new)
      BY <2>2 DEF BlockAt
    <3>2. Holds(bcLog'[s], c[1], c[2])  BY <2>1, <3>1 DEF Holds
    <3> QED  BY <3>1, <3>2
  <2>3. ASSUME NEW m \in Offers(net), m.entries = <<>>, m.commitIndex = new,
               m.prevLogIndex = LastIndex(bcLog[s]),
               m.prevLogTerm = LastTerm(bcLog[s])
        PROVE  \E c \in commits' : c[1] = new /\ Holds(bcLog'[s], c[1], c[2])
    <3>1. PICK c \in commits :
            c[1] = new /\ c[1] <= m.prevLogIndex /\ c[2].term <= m.prevLogTerm
      BY <2>1, <2>3 DEF HeartbeatsHeld
    <3>2. /\ c[1] \in Index /\ c[2] \in Block
          /\ AcceptedBy(c[1], c[2]) # {} /\ Safe(c[1], c[2])
      BY CommitSafe DEF TypeInv
    <3> DEFINE n == Len(bcLog[s])
    <3>3. bcLog[s] \in Seq(Block) /\ n \in Nat /\ DOMAIN bcLog[s] = 1 .. n
          /\ \A k \in DOMAIN bcLog[s] : bcLog[s][k].term \in Int
      BY ChainTypesAt DEF TypeInv
    <3>4. n \in DOMAIN bcLog[s] /\ new + 1 <= n /\ bcLog[s] # <<>>
      BY <2>1, <3>3 DEF LastIndex
    <3>5. bcLog[s][n].term >= c[2].term
      <4>1. LastTerm(bcLog[s]) = bcLog[s][n].term  BY <3>4 DEF LastTerm
      <4>2. c[2].term \in Int  BY <3>2 DEF Block, Term
      <4> QED  BY <2>3, <3>1, <3>3, <3>4, <4>1, <4>2
    <3>6. Holds(bcLog[s], c[1], c[2])
      BY <3>1, <3>2, <3>4, <3>5, LaterHolds
    <3> QED  BY <1>1, <2>1, <3>1, <3>6
  <2> QED  BY <1>3, <2>2, <2>3 DEF ExecutesUpTo
<1>4. CASE CommitsNothing  BY <1>2, <1>4 DEF CommitsNothing, CommittedHeld
<1>5. ASSUME NEW s \in Server, NEW new \in Int, ExecutesUpTo(s, new)
      PROVE  CommittedHeld'
  <2> SUFFICES ASSUME NEW q \in Server, committedIndex'[q] # -1
               PROVE  \E c \in commits' :
                        c[1] = committedIndex'[q] /\ Holds(bcLog'[q], c[1], c[2])
    BY DEF CommittedHeld
  <2>1. committedIndex'[q] = IF q = s THEN new ELSE committedIndex[q]
    BY <1>5 DEF ExecutesUpTo, TypeInv, TypeOK, ChainTypes
  <2>2. CASE q = s  BY <1>3, <1>5, <2>1, <2>2
  <2>3. CASE q # s  BY <1>2, <2>1, <2>3
  <2> QED  BY <2>2, <2>3
<1> QED  BY <1>4, <1>5, CommitShape

\* A heartbeat tells of a commit in the chain that it describes.
LEMMA HeartbeatsHeldStep ==
    ASSUME BaseInv, BaseInv', HeartbeatsHeld, CommittedHeld', [Next]_vars
    PROVE  HeartbeatsHeld'
<1> USE DEF BaseInv
<1>1. commits \subseteq commits'
  BY CommitShape DEF CommitsNothing, ExecutesUpTo
<1>2. ASSUME NEW m, \A o \in Offers(net') : o \in Offers(net) \/ o = m,
             m.type = "APP_ENTR_RPC" => m.entries # <<>>
      PROVE  HeartbeatsHeld'
  BY <1>1, <1>2, OffersIn DEF HeartbeatsHeld
<1>3. ASSUME NEW s \in Server, NEW log \in Seq(Block), NEW prev \in Index,
             prev <= Len(log) - 2, NetMoves(s, AppendFrom(s, log, prev))
      PROVE  HeartbeatsHeld'
  <2> DEFINE m == AppendFrom(s, log, prev)
  <2>1. DOMAIN m.entries = 1 .. Len(log) - prev - 1 /\ Len(log) \in Nat
        /\ prev \in Int
    BY <1>3, OfferShape DEF Index
  <2> HIDE DEF m
  <2>2. 1 \in DOMAIN m.entries  BY <1>3, <2>1
  <2>3. m.entries # <<>>  BY <2>2
  <2>4. \A o \in Offers(net') : o \in Offers(net) \/ o = m
    BY <1>3, MovesOffers DEF m
  <2> QED  BY <1>2, <2>3, <2>4
<1>4. ASSUME NEW s \in Server, NEW m, NetMoves(s, m), m = Heartbeat(s)'
      PROVE  HeartbeatsHeld'
  <2> SUFFICES ASSUME NEW o \in Offers(net'), o.commitIndex # -1,
                      o.entries = <<>>
               PROVE  \E c \in commits' :
                        /\ c[1] = o.commitIndex /\ c[1] <= o.prevLogIndex
                        /\ c[2].term <= o.prevLogTerm
    BY DEF HeartbeatsHeld
  <2>1. o \in Offers(net) \/ o = m  BY <1>4, MovesOffers
  <2>2. CASE o \in Offers(net)  BY <1>1, <2>2 DEF HeartbeatsHeld
  <2>3. CASE o = m
    <3>1. /\ o.commitIndex = committedIndex'[s]
          /\ o.prevLogIndex = LastIndex(bcLog'[s])
          /\ o.prevLogTerm = LastTerm(bcLog'[s])
      BY <1>4, <2>3 DEF Heartbeat, LastIndex, LastTerm
    <3>2. PICK c \in commits' :
            c[1] = committedIndex'[s] /\ Holds(bcLog'[s], c[1], c[2])
      BY <3>1 DEF CommittedHeld
    <3> DEFINE n == Len(bcLog'[s])
    <3>3. c[1] \in 0 .. n - 1 /\ bcLog'[s][c[1] + 1] = c[2]
      BY <3>2 DEF Holds, LastIndex, BlockAt
    <3>4. bcLog'[s] \in Seq(Block)  BY DEF TypeInv, TypeOK, ChainTypes
    <3>5. n \in DOMAIN bcLog'[s] /\ c[1] + 1 \in 1 .. n /\ bcLog'[s] # <<>>
      BY <3>3, <3>4
    <3>6. bcLog'[s][c[1] + 1].term <= bcLog'[s][n].term
      BY <3>5 DEF GrowthInv, TermsClimb
    <3>7. LastTerm(bcLog'[s]) = bcLog'[s][n].term  BY <3>5 DEF LastTerm
    <3> QED  BY <3>1, <3>2, <3>3, <3>6, <3>7 DEF LastIndex
  <2> QED  BY <2>1, <2>2, <2>3
<1>5. CASE SteadyStep
  <2>1. PICK s \in Server, m \in Message : NetMoves(s, m) /\ NoBlocks(s, m)
    BY <1>5 DEF SteadyStep
  <2>2. CASE m = Heartbeat(s)'  BY <1>4, <2>1, <2>2
  <2>3. CASE m.type # "APP_ENTR_RPC"  BY <1>2, <2>1, <2>3, MovesOffers
  <2> QED  BY <2>1, <2>2, <2>3 DEF NoBlocks
<1>6. ASSUME NEW s \in Server, NEW r \in Request, LeaderTakeRequest(s, r)
      PROVE  HeartbeatsHeld'
  BY <1>3, <1>6, TakeRequestShape DEF NewOffer
<1>7. ASSUME NEW s \in Server, NEW m \in Offers(net), TakesAppend(s, m)
      PROVE  HeartbeatsHeld'
  BY <1>2, <1>7, MovesOffers DEF TakesAppend
<1>8. ASSUME NEW s \in Server, NEW prev \in Index, prev <= Len(bcLog[s]) - 2,
             NetMoves(s, AppendFrom(s, bcLog[s], prev))
      PROVE  HeartbeatsHeld'
  BY <1>3, <1>8, ChainTypesAt DEF TypeInv
<1> QED  BY <1>5, <1>6, <1>7, <1>8, ChosenKinds

-----------------------------------------------------------------------------
(* Tables.                                                                 *)

ExecutedChain(log, index) == [k \in 1 .. index + 1 |-> log[k].txn]

LEMMA SeqFrom ==
    ASSUME NEW S, NEW n \in Nat, NEW f \in [1 .. n -> S]
    PROVE  f \in Seq(S) /\ Len(f) = n
OBVIOUS

LEMMA ExecutedExtends ==
    ASSUME NEW log \in Seq(Block), NEW old \in Int, NEW new \in Int, -1 <= old,
           old <= new, new <= Len(log) - 1
    PROVE  ExecutedChain(log, old) \o Executed(log, old, new)
                = ExecutedChain(log, new)
<1> DEFINE A == ExecutedChain(log, old)
           B == Executed(log, old, new)
           C == ExecutedChain(log, new)
<1>1. \A k \in 1 .. Len(log) : log[k].txn \in Request
  <2>1. \A k \in 1 .. Len(log) : log[k] \in Block  OBVIOUS
  <2> QED  BY <2>1 DEF Block
<1>2. (IF new > old THEN new - old ELSE 0) = new - old  OBVIOUS
<1>3. B = [k \in 1 .. new - old |-> log[old + k + 1].txn]
  BY <1>2 DEF Executed, BlockAt
<1>4. A \in Seq(Request) /\ Len(A) = old + 1
      /\ \A k \in 1 .. old + 1 : A[k] = log[k].txn
  <2>1. old + 1 \in Nat /\ \A k \in 1 .. old + 1 : k \in 1 .. Len(log)
    OBVIOUS
  <2>2. A \in [1 .. old + 1 -> Request]  BY <1>1, <2>1 DEF ExecutedChain
  <2>3. \A k \in 1 .. old + 1 : A[k] = log[k].txn  BY DEF ExecutedChain
  <2> HIDE DEF A
  <2> QED  BY <2>1, <2>2, <2>3, SeqFrom
<1>5. B \in Seq(Request) /\ Len(B) = new - old
      /\ \A k \in 1 .. new - old : B[k] = log[old + k + 1].txn
  <2>1. new - old \in Nat
        /\ \A k \in 1 .. new - old : old + k + 1 \in 1 .. Len(log)
    OBVIOUS
  <2> HIDE DEF B
  <2>2. B \in [1 .. new - old -> Request]  BY <1>1, <1>3, <2>1
  <2> QED  BY <1>3, <2>1, <2>2, SeqFrom
<1>6. C \in Seq(Request) /\ Len(C) = new + 1
      /\ \A k \in 1 .. new + 1 : C[k] = log[k].txn
  <2>1. new + 1 \in Nat /\ \A k \in 1 .. new + 1 : k \in 1 .. Len(log)
    OBVIOUS
  <2>2. C \in [1 .. new + 1 -> Request]  BY <1>1, <2>1 DEF ExecutedChain
  <2>3. \A k \in 1 .. new + 1 : C[k] = log[k].txn  BY DEF ExecutedChain
  <2> HIDE DEF C
  <2> QED  BY <2>1, <2>2, <2>3, SeqFrom
<1> HIDE DEF A, B, C
<1>7. /\ A \o B \in Seq(Request) /\ Len(A \o B) = new + 1
      /\ \A k \in 1 .. new + 1 :
            (A \o B)[k] = IF k <= old + 1 THEN A[k] ELSE B[k - (old + 1)]
  <2>1. (old + 1) + (new - old) = new + 1  OBVIOUS
  <2>2. /\ A \o B \in Seq(Request) /\ Len(A \o B) = Len(A) + Len(B)
        /\ \A k \in 1 .. Len(A) + Len(B) :
            (A \o B)[k] = IF k <= Len(A) THEN A[k] ELSE B[k - Len(A)]
    BY ONLY <1>4, <1>5, ConcatProperties, Zenon
  <2>3. Len(A) = old + 1 /\ Len(B) = new - old  BY <1>4, <1>5
  <2>4. Len(A) + Len(B) = new + 1  BY <2>1, <2>3
  <2> QED  BY ONLY <2>2, <2>3, <2>4, Zenon
<1>8. ASSUME NEW k \in 1 .. new + 1 PROVE (A \o B)[k] = C[k]
  <2>1. CASE k <= old + 1
    <3>1. k \in 1 .. old + 1  BY <2>1
    <3> QED  BY <1>4, <1>6, <1>7, <2>1, <3>1
  <2>2. CASE ~(k <= old + 1)
    <3>1. k - (old + 1) \in 1 .. new - old /\ old + (k - (old + 1)) + 1 = k
      BY <2>2
    <3>2. (A \o B)[k] = B[k - (old + 1)]  BY <1>7, <2>2
    <3> QED  BY <1>5, <1>6, <3>1, <3>2
  <2> QED  BY <2>1, <2>2
<1>9. A \o B = C  BY <1>6, <1>7, <1>8, SeqEqual
<1> QED  BY <1>9 DEF A, B, C

\* The part of TableMatchesChain about one server.
TableMatches(s) ==
    /\ committedIndex[s] <= LastIndex(bcLog[s])
    /\ balTab[s] = ExecutedChain(bcLog[s], committedIndex[s])

LEMMA TableParts ==
    TableMatchesChain <=> (allStored => \A s \in Server : TableMatches(s))
BY DEF TableMatchesChain, TableMatches, ExecutedChain

\* What a server has executed stays in its chain.
LEMMA CommittedPrefix ==
    ASSUME BaseInv, BaseInv', ChosenInv, CommitsAccepted, CommittedHeld,
           [Next]_vars, NEW q \in Server
    PROVE  /\ committedIndex[q] <= LastIndex(bcLog'[q])
           /\ \A k \in 1 .. committedIndex[q] + 1 :
                bcLog'[q][k] = bcLog[q][k]
<1> USE DEF BaseInv
<1>1. committedIndex[q] \in Index /\ committedIndex[q] \in Int
      /\ bcLog'[q] \in Seq(Block)
  BY DEF TypeInv, TypeOK, ChainTypes, Index
<1>2. CASE committedIndex[q] = -1
  BY <1>1, <1>2 DEF LastIndex
<1>3. CASE committedIndex[q] # -1
  <2>1. PICK c \in commits :
            c[1] = committedIndex[q] /\ Holds(bcLog[q], c[1], c[2])
    BY <1>3 DEF CommittedHeld
  <2>2. c[1] \in Index /\ c[2] \in Block /\ Safe(c[1], c[2])
    BY CommitSafe DEF TypeInv
  <2>3. Holds(bcLog'[q], c[1], c[2])  BY <2>1, <2>2, HeldStays
  <2>4. c[1] <= LastIndex(bcLog'[q])  BY <1>1, <2>3 DEF Holds
  <2>5. \A k \in 1 .. c[1] + 1 : bcLog'[q][k] = bcLog[q][k]
    BY <2>1, <2>2, <2>3, PrefixStays
  <2> QED  BY <2>1, <2>4, <2>5
<1> QED  BY <1>2, <1>3

LEMMA TableStep ==
    ASSUME BaseInv, BaseInv', ChosenInv, CommitsAccepted, CommittedHeld,
           \A s \in Server : TableMatches(s), [Next]_vars, NEW q \in Server
    PROVE  TableMatches(q)' /\ committedIndex'[q] >= committedIndex[q]
<1> USE DEF BaseInv
<1>1. /\ committedIndex[q] \in Int /\ committedIndex[q] >= -1
      /\ bcLog[q] \in Seq(Block)
  BY DEF TypeInv, TypeOK, ChainTypes, Index
<1>2. /\ committedIndex[q] <= LastIndex(bcLog'[q])
      /\ ExecutedChain(bcLog'[q], committedIndex[q])
            = ExecutedChain(bcLog[q], committedIndex[q])
  BY CommittedPrefix DEF ExecutedChain
<1>3. /\ committedIndex[q] <= LastIndex(bcLog[q])
      /\ balTab[q] = ExecutedChain(bcLog[q], committedIndex[q])
  BY DEF TableMatches
<1>4. ASSUME committedIndex'[q] = committedIndex[q], balTab'[q] = balTab[q]
      PROVE  TableMatches(q)' /\ committedIndex'[q] >= committedIndex[q]
  <2>1. committedIndex'[q] <= LastIndex(bcLog'[q])  BY <1>2, <1>4
  <2>2. balTab'[q] = ExecutedChain(bcLog'[q], committedIndex'[q])
    BY <1>2, <1>3, <1>4
  <2>3. TableMatches(q)'
    BY <2>1, <2>2 DEF TableMatches, LastIndex, ExecutedChain
  <2> QED  BY <1>1, <1>4, <2>3
<1>5. ASSUME NEW s \in Server, NEW new \in Int, ExecutesUpTo(s, new)
      PROVE  TableMatches(q)' /\ committedIndex'[q] >= committedIndex[q]
  <2>1. /\ committedIndex'[q] = IF q = s THEN new ELSE committedIndex[q]
        /\ balTab'[q] = IF q = s
              THEN balTab[q] \o Executed(bcLog[q], committedIndex[q], new)
              ELSE balTab[q]
        /\ bcLog' = bcLog
    BY <1>5 DEF ExecutesUpTo, TypeInv, TypeOK, ChainTypes
  <2>2. CASE q # s  BY <1>4, <2>1, <2>2
  <2>3. CASE q = s
    <3>1. new <= LastIndex(bcLog[q])  BY <1>5, <2>3 DEF ExecutesUpTo
    <3>2. committedIndex[q] <= new
      <4>1. new = LastIndex(bcLog[q]) \/ new > committedIndex[q]
        BY <1>5, <2>3 DEF ExecutesUpTo
      <4>2. CASE new = LastIndex(bcLog[q])  BY <1>3, <4>2
      <4>3. CASE new > committedIndex[q]  BY <1>1, <4>3
      <4> QED  BY <4>1, <4>2, <4>3
    <3>3. new <= Len(bcLog[q]) - 1  BY <3>1 DEF LastIndex
    <3>4. balTab'[q] = ExecutedChain(bcLog[q], new)
      <4>1. balTab'[q] = ExecutedChain(bcLog[q], committedIndex[q])
                \o Executed(bcLog[q], committedIndex[q], new)
        BY <1>3, <2>1, <2>3
      <4>2. new \in Int  BY <1>5
      <4> QED  BY ONLY <1>1, <3>2, <3>3, <4>1, <4>2, ExecutedExtends
    <3>5. TableMatches(q)'
      BY <2>1, <2>3, <3>1, <3>4 DEF TableMatches, LastIndex, ExecutedChain
    <3> QED  BY <1>1, <2>1, <2>3, <3>2, <3>5
  <2> QED  BY <2>2, <2>3
<1>6. CASE CommitsNothing  BY <1>4, <1>6 DEF CommitsNothing
<1> QED  BY <1>5, <1>6, CommitShape DEF TypeInv

LEMMA CommitStep ==
    ASSUME BaseInv, BaseInv', ChosenInv, CommitInv, [Next]_vars
    PROVE  CommitInv'
<1> SUFFICES ASSUME allStored'
             PROVE  CommitsAccepted' /\ CommittedHeld' /\ HeartbeatsHeld'
                        /\ TableMatchesChain'
  BY DEF CommitInv
<1>1. allStored
  BY CommitShape DEF BaseInv, CommitsNothing, ExecutesUpTo
<1>2. CommitsAccepted /\ CommittedHeld /\ HeartbeatsHeld
      /\ \A s \in Server : TableMatches(s)
  BY <1>1, TableParts DEF CommitInv
<1>3. CommitsAccepted'  BY <1>2, CommitsAcceptedStep
<1>4. CommittedHeld'  BY <1>2, CommittedHeldStep
<1>5. HeartbeatsHeld'  BY <1>2, <1>4, HeartbeatsHeldStep
<1>6. \A q \in Server : TableMatches(q)'  BY <1>2, TableStep
<1>7. TableMatchesChain'
  BY <1>6 DEF TableMatchesChain, TableMatches, ExecutedChain, LastIndex
<1> QED  BY <1>3, <1>4, <1>5, <1>7

LEMMA CommitInit == Init => CommitInv
<1> SUFFICES ASSUME Init PROVE CommitInv
  OBVIOUS
<1>1. Offers(net) = {}  BY OffersIn DEF Init
<1>2. \A s \in Server : TableMatches(s)
  <2> SUFFICES ASSUME NEW s \in Server PROVE TableMatches(s)
    OBVIOUS
  <2>1. bcLog[s] = <<>> /\ balTab[s] = <<>> /\ committedIndex[s] = -1
    BY DEF Init
  <2>2. ExecutedChain(<<>>, -1) = <<>>  BY DEF ExecutedChain
  <2> QED  BY <2>1, <2>2 DEF TableMatches, LastIndex
<1> QED
  BY <1>1, <1>2, TableParts
  DEF Init, CommitInv, CommitsAccepted, CommittedHeld, HeartbeatsHeld

AllInv == BaseInv /\ ChosenInv /\ CommitInv

\* What heartbeats, the leader's count of accepts and
\* update_bal_tab_and_committed_index leave in every reachable state: as long
\* as every commit found its block accepted by a majority in the block's own
\* term, committed indices and heartbeats are those of commits.
THEOREM CommitInvariant == Spec => []CommitInv
<1>1. Init => CommitInv  BY CommitInit
<1>2. TypeInv /\ TypeInv' /\ ElectionInv /\ ElectionInv' /\ ElectionSafety
        /\ ElectionSafety' /\ LogInv /\ LogInv' /\ GrowthInv /\ GrowthInv'
        /\ ChosenInv /\ CommitInv /\ [Next]_vars => CommitInv'
  BY CommitStep DEF BaseInv
<1> QED
  BY <1>1, <1>2, TypeCorrect, ElectionInvariant, ElectionSafe, LogInvariant,
     GrowthInvariant, ChosenInvariant, PTL DEF Spec

LEMMA AllHolds == Spec => []AllInv
<1>1. TypeInv /\ ElectionInv /\ ElectionSafety /\ LogInv /\ GrowthInv
        /\ ChosenInv /\ CommitInv => AllInv
  BY DEF AllInv, BaseInv
<1> QED
  BY <1>1, TypeCorrect, ElectionInvariant, ElectionSafe, LogInvariant,
     GrowthInvariant, ChosenInvariant, CommitInvariant, PTL

\* Each balance table is the outcome of the committed part of the server's own
\* chain, in order and once each.
THEOREM TablesMatch == Spec => []TableMatchesChain
<1>1. AllInv => TableMatchesChain
  BY DEF AllInv, CommitInv, TableMatchesChain
<1> QED  BY <1>1, AllHolds, PTL

LEMMA CommitsHold ==
    ASSUME AllInv, allStored, NEW c \in commits, NEW s \in Server,
           role[s] = "Leader", currTerm[s] >= c[2].term
    PROVE  Holds(bcLog[s], c[1], c[2])
<1> USE DEF AllInv, BaseInv
<1>1. /\ c[1] \in Index /\ c[2] \in Block /\ AcceptedBy(c[1], c[2]) # {}
      /\ Safe(c[1], c[2])
  BY CommitSafe DEF CommitInv, TypeInv
<1>2. CASE currTerm[s] > c[2].term
  BY <1>1, <1>2 DEF Safe, HeldByLaterLeaders
<1>3. CASE currTerm[s] = c[2].term
  <2>1. PICK q \in AcceptedBy(c[1], c[2]) : TRUE  BY <1>1
  <2>2. q \in Server /\ Holds(bcLog[q], c[1], c[2])
    BY <1>1, <2>1 DEF AcceptedBy, Safe, KeptByAccepters
  <2>3. PICK l \in Links : l.at = c[1] + 1 /\ l.block = c[2]
    BY <1>1, <2>2, HeldLink DEF TypeInv
  <2>4. l \in ChainLinks(bcLog[s])
    BY <1>3, <2>3 DEF LogInv, LeaderHasLinks
  <2> QED  BY <1>1, <2>3, <2>4, LinkHeld DEF TypeInv
<1>4. currTerm[s] \in Int /\ c[2].term \in Int
  BY <1>1 DEF TypeInv, TypeOK, ServerTypes, Block, Term
<1> QED  BY <1>2, <1>3, <1>4

\* A block that a leader has committed is in the chain of every leader of its
\* term or a later one: what the comparison of chains in the vote handler of
\* state.cpp is for.
THEOREM LeadersComplete == Spec => []LeaderCompleteness
<1>1. AllInv => LeaderCompleteness
  BY CommitsHold DEF LeaderCompleteness, Holds
<1> QED  BY <1>1, AllHolds, PTL

\* Of two servers that have executed as far as a place, one has the other's
\* last executed block, and so the same blocks below.
LEMMA ExecutedAgree ==
    ASSUME AllInv, allStored, NEW a \in Server, NEW b \in Server, NEW k \in Int,
           1 <= k, k <= committedIndex[a] + 1, k <= committedIndex[b] + 1
    PROVE  bcLog[a][k] = bcLog[b][k]
<1> USE DEF AllInv, BaseInv
<1>1. /\ committedIndex[a] \in Int /\ committedIndex[b] \in Int
      /\ committedIndex[a] # -1 /\ committedIndex[b] # -1
  <2>1. committedIndex[a] \in Int /\ committedIndex[b] \in Int
    BY DEF TypeInv, TypeOK, ChainTypes, Index
  <2> QED  BY <2>1
<1>2. PICK c \in commits : c[1] = committedIndex[a] /\ Holds(bcLog[a], c[1], c[2])
  BY <1>1 DEF CommitInv, CommittedHeld
<1>3. PICK d \in commits : d[1] = committedIndex[b] /\ Holds(bcLog[b], d[1], d[2])
  BY <1>1 DEF CommitInv, CommittedHeld
<1>4. /\ c[1] \in Index /\ c[2] \in Block /\ AcceptedBy(c[1], c[2]) # {}
      /\ Safe(c[1], c[2]) /\ d[1] \in Index /\ d[2] \in Block
      /\ AcceptedBy(d[1], d[2]) # {} /\ Safe(d[1], d[2])
  BY CommitSafe DEF CommitInv, TypeInv
<1>5. /\ c[1] + 1 \in DOMAIN bcLog[a] /\ bcLog[a][c[1] + 1] = c[2]
      /\ d[1] + 1 \in DOMAIN bcLog[b] /\ bcLog[b][d[1] + 1] = d[2]
      /\ c[1] \in Int /\ d[1] \in Int
  <2>1. TypeOK /\ c[1] \in Index /\ d[1] \in Index
    BY <1>4 DEF TypeInv
  <2>2. ASSUME NEW p \in Server, NEW x \in Index, NEW e, Holds(bcLog[p], x, e)
        PROVE  x \in Int /\ x + 1 \in DOMAIN bcLog[p] /\ bcLog[p][x + 1] = e
    BY <2>1, <2>2, ServerHolds
  <2>3. Holds(bcLog[a], c[1], c[2])  BY <1>2
  <2>4. Holds(bcLog[b], d[1], d[2])  BY <1>3
  <2> DEFINE x == c[1]
             e == c[2]
             y == d[1]
             f == d[2]
  <2>5. x \in Index /\ y \in Index /\ Holds(bcLog[a], x, e)
        /\ Holds(bcLog[b], y, f)
    BY <2>1, <2>3, <2>4
  <2> HIDE DEF x, e, y, f
  <2>6. x \in Int /\ x + 1 \in DOMAIN bcLog[a] /\ bcLog[a][x + 1] = e
    BY <2>2, <2>5
  <2>7. y \in Int /\ y + 1 \in DOMAIN bcLog[b] /\ bcLog[b][y + 1] = f
    BY <2>2, <2>5
  <2> QED  BY <2>6, <2>7 DEF x, e, y, f
<1>6. c[2].term \in Int /\ d[2].term \in Int  BY <1>4 DEF Block, Term
<1>7. Holds(bcLog[b], c[1], c[2]) \/ Holds(bcLog[a], d[1], d[2])
  <2>1. CASE c[2].term < d[2].term
    BY <1>4, <1>5, <1>6, <2>1 DEF Safe, BelowLaterBlocks
  <2>2. CASE d[2].term < c[2].term
    BY <1>4, <1>5, <1>6, <2>2 DEF Safe, BelowLaterBlocks
  <2>3. CASE c[2].term = d[2].term /\ c[1] <= d[1]
    <3>1. c[1] + 1 <= d[1] + 1  BY <1>5, <2>3
    <3>2. bcLog[b][d[1] + 1].term >= c[2].term  BY <1>5, <1>6, <2>3
    <3> QED  BY <1>4, <1>5, <3>1, <3>2, LaterHolds
  <2>4. CASE c[2].term = d[2].term /\ d[1] <= c[1]
    <3>1. d[1] + 1 <= c[1] + 1  BY <1>5, <2>4
    <3>2. bcLog[a][c[1] + 1].term >= d[2].term  BY <1>5, <1>6, <2>4
    <3> QED  BY <1>4, <1>5, <3>1, <3>2, LaterHolds
  <2>5. c[1] <= d[1] \/ d[1] <= c[1]  BY <1>5
  <2> QED  BY <1>6, <2>1, <2>2, <2>3, <2>4, <2>5
<1>8. ASSUME NEW x \in Index, NEW e, Holds(bcLog[a], x, e),
             Holds(bcLog[b], x, e), k <= x + 1
      PROVE  bcLog[a][k] = bcLog[b][k]
  <2>1. /\ x + 1 \in DOMAIN bcLog[a] /\ bcLog[a][x + 1] = e
        /\ x + 1 \in DOMAIN bcLog[b] /\ bcLog[b][x + 1] = e /\ x \in Int
    BY <1>8, ServerHolds DEF TypeInv
  <2>2. bcLog[a] \in Seq(Block) /\ bcLog[b] \in Seq(Block)
    BY DEF TypeInv, TypeOK, ChainTypes
  <2>3. k \in 1 .. x + 1  BY <1>8, <2>1
  <2>4. ChainLinks(bcLog[a]) \subseteq Links /\ ChainLinks(bcLog[b]) \subseteq Links
    BY LinksIn
  <2> QED
    BY <2>1, <2>2, <2>3, <2>4, ChainsAgreeBelow DEF LogInv, LinkUnique
<1>9. CASE Holds(bcLog[b], c[1], c[2])  BY <1>2, <1>4, <1>8, <1>9
<1>10. CASE Holds(bcLog[a], d[1], d[2])  BY <1>3, <1>4, <1>8, <1>10
<1> QED  BY <1>7, <1>9, <1>10

\* No two servers execute different transactions at one place.
THEOREM TablesSame == Spec => []TablesAgree
<1>1. ASSUME AllInv, allStored, NEW a \in Server, NEW b \in Server,
             NEW k \in 1 .. Len(balTab[a]), k <= Len(balTab[b])
      PROVE  balTab[a][k] = balTab[b][k]
  <2>0. \A s \in Server : balTab[s] \in Seq(Request) /\ committedIndex[s] \in Int
    BY <1>1 DEF AllInv, BaseInv, TypeInv, TypeOK, ChainTypes, Index
  <2>1. \A s \in Server :
            /\ balTab[s] = ExecutedChain(bcLog[s], committedIndex[s])
            /\ DOMAIN balTab[s] = 1 .. Len(balTab[s])
            /\ committedIndex[s] \in Int
    <3>1. \A s \in Server : balTab[s] = ExecutedChain(bcLog[s], committedIndex[s])
      BY <1>1, TableParts DEF AllInv, CommitInv, TableMatches
    <3> QED  BY <2>0, <3>1
  <2>2. \A s \in Server : DOMAIN balTab[s] = 1 .. committedIndex[s] + 1
            /\ \A j \in 1 .. committedIndex[s] + 1 :
                    balTab[s][j] = bcLog[s][j].txn
    <3> SUFFICES ASSUME NEW s \in Server
                 PROVE  DOMAIN balTab[s] = 1 .. committedIndex[s] + 1
                        /\ \A j \in 1 .. committedIndex[s] + 1 :
                                balTab[s][j] = bcLog[s][j].txn
      OBVIOUS
    <3>1. balTab[s] = [j \in 1 .. committedIndex[s] + 1 |-> bcLog[s][j].txn]
      BY <2>1 DEF ExecutedChain
    <3> QED  BY ONLY <3>1
  <2>3. k \in DOMAIN balTab[a] /\ k \in DOMAIN balTab[b]
    BY <1>1, <2>0
  <2>4. k \in 1 .. committedIndex[a] + 1 /\ k \in 1 .. committedIndex[b] + 1
    BY <2>2, <2>3
  <2>5. bcLog[a][k] = bcLog[b][k]  BY <1>1, <2>1, <2>4, ExecutedAgree
  <2> QED  BY <2>2, <2>4, <2>5
<1>2. AllInv => TablesAgree  BY <1>1 DEF TablesAgree
<1> QED  BY <1>2, AllHolds, PTL

\* A server never gives up or replaces a block it has committed, although
\* clean_up_blocks cuts below the committed index.
THEOREM CommittedKept == Spec => CommittedStays
<1>1. AllInv /\ AllInv' /\ [Next]_vars => [KeepsCommitted]_vars
  <2> SUFFICES ASSUME AllInv, AllInv', [Next]_vars, allStored',
                      NEW s \in Server
               PROVE  /\ committedIndex'[s] >= committedIndex[s]
                      /\ SubSeq(bcLog'[s], 1, committedIndex[s] + 1)
                            = SubSeq(bcLog[s], 1, committedIndex[s] + 1)
    BY DEF KeepsCommitted
  <2>1. BaseInv /\ BaseInv' /\ ChosenInv  BY DEF AllInv
  <2>2. allStored
    BY <2>1, CommitShape DEF BaseInv, CommitsNothing, ExecutesUpTo
  <2>3. CommitsAccepted /\ CommittedHeld /\ \A q \in Server : TableMatches(q)
    BY <2>2, TableParts DEF AllInv, CommitInv
  <2>4. committedIndex'[s] >= committedIndex[s]  BY <2>1, <2>3, TableStep
  <2>5. /\ committedIndex[s] <= LastIndex(bcLog'[s])
        /\ \A k \in 1 .. committedIndex[s] + 1 : bcLog'[s][k] = bcLog[s][k]
    BY <2>1, <2>3, CommittedPrefix
  <2>6. committedIndex[s] <= LastIndex(bcLog[s])  BY <2>3 DEF TableMatches
  <2> DEFINE n == committedIndex[s] + 1
  <2>7. bcLog[s] \in Seq(Block) /\ bcLog'[s] \in Seq(Block) /\ n \in Nat
        /\ n <= Len(bcLog[s]) /\ n <= Len(bcLog'[s])
    <3>1. /\ bcLog[s] \in Seq(Block) /\ bcLog'[s] \in Seq(Block)
          /\ committedIndex[s] \in Int /\ committedIndex[s] >= -1
      BY <2>1 DEF BaseInv, TypeInv, TypeOK, ChainTypes, Index
    <3> QED  BY <2>5, <2>6, <3>1 DEF LastIndex
  <2> HIDE DEF n
  <2>8. ASSUME NEW A \in Seq(Block), NEW B \in Seq(Block), n <= Len(A),
               n <= Len(B), \A k \in 1 .. n : A[k] = B[k]
        PROVE  SubSeq(A, 1, n) = SubSeq(B, 1, n)
    <3> DEFINE P == SubSeq(A, 1, n)
               Q == SubSeq(B, 1, n)
    <3>1. /\ P \in Seq(Block) /\ Q \in Seq(Block) /\ Len(P) = n /\ Len(Q) = n
          /\ \A k \in 1 .. n : P[k] = A[k] /\ Q[k] = B[k]
      BY <2>7, <2>8
    <3> HIDE DEF P, Q
    <3>2. P = Q  BY <2>8, <3>1, SeqEqual
    <3> QED  BY <3>2 DEF P, Q
  <2>9. \A k \in 1 .. n : bcLog'[s][k] = bcLog[s][k]  BY <2>5 DEF n
  <2> QED  BY <2>4, <2>7, <2>8, <2>9 DEF n
<1> QED  BY <1>1, AllHolds, PTL DEF Spec, CommittedStays

-----------------------------------------------------------------------------
(* What clients are told.                                                  *)

\* Three steps tell a client anything; the others leave the leaders that wait
\* with their chains, or drop them.
AnswersNothing ==
    /\ answer' = answer
    /\ \A q \in Server : \/ serving'[q] = None
                         \/ serving'[q] = serving[q] /\ bcLog'[q] = bcLog[q]

LEMMA AnswersFrom ==
    ASSUME UNCHANGED <<answer, serving, bcLog>>
    PROVE  AnswersNothing
BY DEF AnswersNothing

LEMMA DroppedAnswersNothing ==
    ASSUME TypeInv, NEW s \in Server, NEW i \in Server, StepDown(s, i)
    PROVE  AnswersNothing
BY DEF StepDown, DropStateObject, AnswersNothing, TypeInv, TypeOK, StateObjTypes,
       chainVars

LEMMA AnswerKinds ==
    ASSUME TypeInv, [Next]_vars
    PROVE  \/ AnswersNothing
           \/ \E s \in Server : LeaderGiveUp(s)
           \/ \E s \in Server, r \in Request : LeaderTakeRequest(s, r)
           \/ \E s, f \in Server : LeaderCommit(s, f)
<1>1. ASSUME NEW s \in Server, BecomeCandidate(s) \/ LeaderHeartbeat(s)
      PROVE  AnswersNothing
  BY <1>1, AnswersFrom
  DEF BecomeCandidate, LeaderHeartbeat, chainVars, stateObjVars
<1>2. ASSUME NEW s \in Server, NEW i \in Server,
             \/ FollowerVote(s, i) \/ FollowerRejectStale(s, i)
             \/ FollowerHeartbeat(s, i) \/ CandidateCountVote(s, i)
             \/ LeaderNoteAccept(s, i) \/ LeaderCountAccept(s, i)
             \/ LeaderRetry(s, i) \/ Ignore(s, i) \/ Lose(i, s)
      PROVE  AnswersNothing
  BY <1>2, AnswersFrom
  DEF FollowerVote, FollowerRejectStale, FollowerHeartbeat, CandidateCountVote,
      LeaderNoteAccept, LeaderCountAccept, LeaderRetry, Ignore, Lose, chainVars,
      stateObjVars
<1>3. ASSUME NEW s \in Server, NEW i \in Server, FollowerAppend(s, i)
      PROVE  AnswersNothing
  <2>1. role[s] = "Follower" /\ UNCHANGED <<answer, serving>>
        /\ \A q \in Server \ {s} : bcLog'[q] = bcLog[q]
    BY <1>3 DEF FollowerAppend, stateObjVars, TypeInv, TypeOK, ChainTypes
  <2>2. serving[s] = None  BY <2>1 DEF TypeInv, LeaderShape
  <2> QED  BY <2>1, <2>2 DEF AnswersNothing
<1>4. ASSUME NEW s \in Server, NEW i \in Server, BecomeLeader(s, i)
      PROVE  AnswersNothing
  <2>1. answer' = answer /\ bcLog' = bcLog
        /\ serving' = [serving EXCEPT ![s] = None]
    BY <1>4 DEF BecomeLeader, chainVars, DropStateObject
  <2> QED  BY <2>1 DEF AnswersNothing, TypeInv, TypeOK, StateObjTypes
<1>5. ASSUME NEW s \in Server, NEW i \in Server,
             CandidateStepDown(s, i) \/ LeaderStepDown(s, i)
      PROVE  AnswersNothing
  BY <1>5, DroppedAnswersNothing DEF CandidateStepDown, LeaderStepDown
<1>6. CASE UNCHANGED vars
  BY <1>6, AnswersFrom DEF vars, chainVars, stateObjVars
<1> QED  BY <1>1, <1>2, <1>3, <1>4, <1>5, <1>6 DEF Next

\* A new link is that of a block a leader has just made.
LEMMA LinkKinds ==
    ASSUME BaseInv, BaseInv', [Next]_vars
    PROVE  \/ Links' \subseteq Links
           \/ \E s \in Server, r \in Request : LeaderTakeRequest(s, r)
<1> USE DEF BaseInv
<1>1. NoLoop  BY DEF ElectionInv
<1>2. ASSUME NEW s \in Server, NEW i \in Server, FollowerAppend(s, i)
      PROVE  Links' \subseteq Links
  BY <1>2, AppendMakesNoLink
<1>3. ASSUME NEW s \in Server, NEW f \in Server, LeaderRetry(s, f)
      PROVE  Links' \subseteq Links
  BY <1>1, <1>3, RetryShape, SteadyLinks
<1> QED  BY <1>1, <1>2, <1>3, StepKinds, SteadyLinks

LEMMA LinkTxn ==
    ASSUME TypeOK, NEW l \in Links
    PROVE  l.block.txn \in Request
<1>1. ASSUME NEW s \in Server, l \in ChainLinks(bcLog[s])
      PROVE  l.block \in Block
  <2>1. bcLog[s] \in Seq(Block)  BY DEF TypeOK, ChainTypes
  <2>2. l.at \in DOMAIN bcLog[s] /\ l.block = bcLog[s][l.at]
    BY <1>1, ChainPlaces
  <2> QED  BY <2>1, <2>2
<1>2. ASSUME NEW o \in Offers(net), l \in OfferLinks(o)
      PROVE  l.block \in Block
  <2>1. o.entries \in Seq(Block)  BY OfferTypes
  <2>2. PICK e \in DOMAIN o.entries : l.block = o.entries[e]
    BY <1>2, OfferLinksIn DEF Link
  <2> QED  BY <2>1, <2>2
<1>3. l.block \in Block  BY <1>1, <1>2, LinksIn
<1> QED  BY <1>3 DEF Block

\* A request that was taken stays so, whatever is told its client.
LEMMA AnswersStay ==
    ASSUME TypeInv, [Next]_vars, NEW r \in Request, answer[r] # "unsent"
    PROVE  answer'[r] # "unsent"
<1>1. CASE AnswersNothing  BY <1>1 DEF AnswersNothing
<1>2. ASSUME NEW s \in Server, LeaderGiveUp(s) PROVE answer'[r] # "unsent"
  BY <1>2 DEF LeaderGiveUp, TypeInv, TypeOK, NetTypes
<1>3. ASSUME NEW s \in Server, NEW f \in Server, LeaderCommit(s, f)
      PROVE  answer'[r] # "unsent"
  BY <1>3 DEF LeaderCommit, TypeInv, TypeOK, NetTypes
<1>4. ASSUME NEW s \in Server, NEW q \in Request, LeaderTakeRequest(s, q)
      PROVE  answer'[r] # "unsent"
  BY <1>4 DEF LeaderTakeRequest, TypeInv, TypeOK, NetTypes
<1> QED  BY <1>1, <1>2, <1>3, <1>4, AnswerKinds

LEMMA TakenStep ==
    ASSUME BaseInv, BaseInv', TakenLinks, TxnOnce, [Next]_vars
    PROVE  TakenLinks' /\ TxnOnce'
<1> USE DEF BaseInv, TypeInv
<1>1. \A l \in Links : answer'[l.block.txn] # "unsent"
  BY AnswersStay, LinkTxn DEF TakenLinks
<1>2. CASE Links' \subseteq Links  BY <1>1, <1>2 DEF TakenLinks, TxnOnce
<1>3. ASSUME NEW s \in Server, NEW r \in Request, LeaderTakeRequest(s, r)
      PROVE  TakenLinks' /\ TxnOnce'
  <2> DEFINE New(l) == l.at = Len(bcLog[s]) + 1 /\ l.block = NewBlock(s, r)
  <2>1. \A l \in Links' : l \in Links \/ New(l)
    BY <1>3, TakeRequestLinks
  <2>2. answer[r] = "unsent" /\ answer'[r] = "taken"
    BY <1>3 DEF LeaderTakeRequest, TypeOK, NetTypes
  <2>3. \A l : New(l) => l.block.txn = r  BY DEF NewBlock
  <2>4. \A l \in Links : l.block.txn # r  BY <2>2 DEF TakenLinks
  <2>5. TakenLinks'  BY <1>1, <2>1, <2>2, <2>3 DEF TakenLinks
  <2>6. ASSUME NEW l1 \in Links', NEW l2 \in Links', New(l1), New(l2)
        PROVE  l1 = l2
    BY <2>6, Zenon DEF LogInv, LinkUnique
  <2> HIDE DEF New
  <2>7. TxnOnce'  BY <2>1, <2>3, <2>4, <2>6 DEF TxnOnce
  <2> QED  BY <2>5, <2>7
<1> QED  BY <1>2, <1>3, LinkKinds

\* A leader that waits.
Waits(s) == /\ serving[s] \in Request
            /\ answer[serving[s]] = "taken"
            /\ bcLog[s][Len(bcLog[s])].txn = serving[s]

LEMMA Waiting ==
    ASSUME TypeInv, ServesTaken, NEW s \in Server, serving[s] # None
    PROVE  Waits(s)
BY DEF ServesTaken, Waits, TypeInv, TypeOK, StateObjTypes

\* One waiting leader answers and stops waiting.
LEMMA AnswersOne ==
    ASSUME TypeInv, ServesTaken, ServesApart, NEW s \in Server, NEW a,
           serving[s] # None, answer' = [answer EXCEPT ![serving[s]] = a],
           serving' = [serving EXCEPT ![s] = None], bcLog' = bcLog
    PROVE  ServesTaken' /\ ServesApart'
<1>1. Waits(s)  BY Waiting
<1>2. \A q \in Server : serving'[q] # None =>
            q # s /\ serving'[q] = serving[q] /\ serving[q] # serving[s]
  BY DEF TypeInv, TypeOK, StateObjTypes, ServesApart
<1>3. \A r : r # serving[s] => answer'[r] = answer[r]
  BY <1>1 DEF TypeInv, TypeOK, NetTypes
<1>4. ServesTaken'  BY <1>2, <1>3 DEF ServesTaken
<1>5. ServesApart'  BY <1>2 DEF ServesApart
<1> QED  BY <1>4, <1>5

LEMMA ServesStep ==
    ASSUME TypeInv, TypeInv', ServesTaken, ServesApart, [Next]_vars
    PROVE  ServesTaken' /\ ServesApart'
<1>1. CASE AnswersNothing
  <2>1. \A q \in Server : serving'[q] # None =>
            serving'[q] = serving[q] /\ bcLog'[q] = bcLog[q]
    BY <1>1 DEF AnswersNothing
  <2>2. answer' = answer  BY <1>1 DEF AnswersNothing
  <2>3. ServesTaken'  BY <2>1, <2>2 DEF ServesTaken
  <2>4. ServesApart'  BY <2>1 DEF ServesApart
  <2> QED  BY <2>3, <2>4
<1>2. ASSUME NEW s \in Server, LeaderGiveUp(s)
      PROVE  ServesTaken' /\ ServesApart'
  <2>1. /\ serving[s] # None /\ serving' = [serving EXCEPT ![s] = None]
        /\ answer' = [answer EXCEPT ![serving[s]] = "failed"] /\ bcLog' = bcLog
    BY <1>2 DEF LeaderGiveUp, chainVars
  <2> QED  BY <2>1, AnswersOne
<1>3. ASSUME NEW s \in Server, NEW f \in Server, LeaderCommit(s, f)
      PROVE  ServesTaken' /\ ServesApart'
  <2>1. /\ serving[s] # None /\ serving' = [serving EXCEPT ![s] = None]
        /\ answer' = [answer EXCEPT ![serving[s]] = "succeed"] /\ bcLog' = bcLog
    BY <1>3 DEF LeaderCommit
  <2> QED  BY <2>1, AnswersOne
<1>4. ASSUME NEW s \in Server, NEW r \in Request, LeaderTakeRequest(s, r)
      PROVE  ServesTaken' /\ ServesApart'
  <2>1. /\ answer[r] = "unsent" /\ serving' = [serving EXCEPT ![s] = r]
        /\ answer' = [answer EXCEPT ![r] = "taken"]
    BY <1>4 DEF LeaderTakeRequest
  <2>2. \A q \in Server : serving'[q] = IF q = s THEN r ELSE serving[q]
    BY <2>1 DEF TypeInv, TypeOK, StateObjTypes
  <2>3. \A q \in Request : answer'[q] = IF q = r THEN "taken" ELSE answer[q]
    BY <2>1 DEF TypeInv, TypeOK, NetTypes
  <2>4. \A q \in Server : serving[q] # None => Waits(q) /\ serving[q] # r
    BY <2>1, Waiting DEF Waits
  <2>5. /\ \A q \in Server \ {s} : bcLog'[q] = bcLog[q]
        /\ bcLog'[s][Len(bcLog'[s])].txn = r
    <3>1. /\ \A q \in Server :
                bcLog'[q] = IF q = s THEN GrownChain(s, r) ELSE bcLog[q]
          /\ Len(GrownChain(s, r)) = Len(bcLog[s]) + 1
          /\ GrownChain(s, r)[Len(bcLog[s]) + 1] = NewBlock(s, r)
      BY <1>4, TakeRequestShape
    <3>2. NewBlock(s, r).txn = r  BY DEF NewBlock
    <3> QED  BY <3>1, <3>2
  <2>6. ASSUME NEW q \in Server, serving'[q] # None
        PROVE  /\ answer'[serving'[q]] = "taken"
               /\ bcLog'[q][Len(bcLog'[q])].txn = serving'[q]
    <3>1. CASE q = s  BY <2>2, <2>3, <2>5, <3>1
    <3>2. CASE q # s
      <4>1. serving'[q] = serving[q] /\ bcLog'[q] = bcLog[q] /\ Waits(q)
        BY <2>2, <2>4, <2>5, <2>6, <3>2
      <4> QED  BY <2>3, <4>1 DEF Waits
    <3> QED  BY <3>1, <3>2
  <2>7. ServesTaken'  BY <2>6 DEF ServesTaken
  <2>8. ServesApart'  BY <2>2, <2>4 DEF ServesApart
  <2> QED  BY <2>7, <2>8
<1> QED  BY <1>1, <1>2, <1>3, <1>4, AnswerKinds

-----------------------------------------------------------------------------
(* How tables grow.                                                        *)

\* Tables have types and lengths of their own.
LEMMA TableTypes ==
    ASSUME TypeInv, NEW s \in Server
    PROVE  /\ balTab[s] \in Seq(Request) /\ Len(balTab[s]) \in Nat
           /\ committedIndex[s] \in Int /\ committedIndex[s] >= -1
           /\ DOMAIN balTab[s] = 1 .. Len(balTab[s])
BY DEF TypeInv, TypeOK, ChainTypes, Index

\* What is executed is added to the table.
LEMMA TableExtends ==
    ASSUME TypeInv, TypeInv', NEW s \in Server, NEW new \in Int,
           ExecutesUpTo(s, new)
    PROVE  /\ Len(balTab[s]) <= Len(balTab'[s])
           /\ \A k \in 1 .. Len(balTab[s]) : balTab'[s][k] = balTab[s][k]
           /\ \A q \in Server \ {s} : balTab'[q] = balTab[q]
<1> DEFINE old == balTab[s]
           more == Executed(bcLog[s], committedIndex[s], new)
<1>1. /\ balTab'[s] = old \o more
      /\ \A q \in Server \ {s} : balTab'[q] = balTab[q]
  BY DEF ExecutesUpTo, TypeInv, TypeOK, ChainTypes
<1>2. more \in Seq(Request)
  <2>1. bcLog[s] \in Seq(Block) /\ committedIndex[s] \in Index
    BY DEF TypeInv, TypeOK, ChainTypes
  <2>2. new \in Index /\ new <= LastIndex(bcLog[s])
    BY <2>1 DEF ExecutesUpTo, LastIndex, Index
  <2> QED  BY <2>1, <2>2, ExecutedType
<1>3. old \in Seq(Request) /\ Len(old) \in Nat  BY TableTypes
<1> HIDE DEF old, more
<1>4. /\ Len(old \o more) = Len(old) + Len(more) /\ Len(more) \in Nat
      /\ \A k \in 1 .. Len(old) : (old \o more)[k] = old[k]
  BY <1>2, <1>3
<1>5. Len(old) <= Len(balTab'[s])
      /\ \A k \in 1 .. Len(old) : balTab'[s][k] = old[k]
  BY <1>1, <1>3, <1>4
<1> QED  BY <1>1, <1>5 DEF old

LEMMA LongestStep ==
    ASSUME TypeInv, TypeInv', SomeLongest, [Next]_vars
    PROVE  SomeLongest'
<1>1. CASE CommitsNothing  BY <1>1 DEF CommitsNothing, SomeLongest, Longest
<1>2. ASSUME NEW s \in Server, NEW new \in Int, ExecutesUpTo(s, new)
      PROVE  SomeLongest'
  <2>1. PICK a \in Server : Longest(a)  BY DEF SomeLongest
  <2>2. /\ Len(balTab[s]) <= Len(balTab'[s])
        /\ \A q \in Server \ {s} : balTab'[q] = balTab[q]
    BY <1>2, TableExtends
  <2>3. \A q \in Server : Len(balTab[q]) \in Nat /\ Len(balTab'[q]) \in Nat
    BY DEF TypeInv, TypeOK, ChainTypes
  <2>4. \A q \in Server : Len(balTab[q]) <= Len(balTab[a])
    BY <2>1 DEF Longest
  <2>5. CASE Len(balTab[a]) <= Len(balTab'[s])
    <3>1. \A q \in Server : Len(balTab'[q]) <= Len(balTab'[s])
      BY <2>2, <2>3, <2>4, <2>5
    <3> QED  BY <3>1 DEF SomeLongest, Longest
  <2>6. CASE ~(Len(balTab[a]) <= Len(balTab'[s]))
    <3>1. a # s  BY <2>2, <2>6
    <3>2. \A q \in Server : Len(balTab'[q]) <= Len(balTab'[a])
      BY <2>2, <2>3, <2>4, <2>6, <3>1
    <3> QED  BY <3>2 DEF SomeLongest, Longest
  <2> QED  BY <2>5, <2>6
<1> QED  BY <1>1, <1>2, CommitShape

LEMMA CommitsExecutedStep ==
    ASSUME AllInv, AllInv', CommitsExecuted, [Next]_vars
    PROVE  CommitsExecuted'
<1> USE DEF AllInv
<1>1. TypeInv  BY DEF BaseInv
<1> SUFFICES ASSUME allStored', NEW c \in commits'
             PROVE  \E s \in Server : c[1] <= committedIndex'[s]
  BY DEF CommitsExecuted
<1>2. allStored  BY <1>1, CommitShape DEF CommitsNothing, ExecutesUpTo
<1>3. \A q \in Server : /\ committedIndex'[q] >= committedIndex[q]
                        /\ committedIndex[q] \in Int /\ committedIndex'[q] \in Int
  <2>1. CommitsAccepted /\ CommittedHeld /\ \A q \in Server : TableMatches(q)
    BY <1>2, TableParts DEF CommitInv
  <2> QED  BY <2>1, TableStep DEF BaseInv, TypeInv, TypeOK, ChainTypes, Index
<1>4. ASSUME c \in commits PROVE \E s \in Server : c[1] <= committedIndex'[s]
  <2>1. PICK s \in Server : c[1] <= committedIndex[s]
    BY <1>2, <1>4 DEF CommitsExecuted
  <2>2. c[1] \in Int  BY <1>1, <1>4 DEF TypeInv, TypeOK, HistoryTypes, Index
  <2> QED  BY <1>3, <2>1, <2>2
<1>5. CASE CommitsNothing  BY <1>4, <1>5 DEF CommitsNothing
<1>6. ASSUME NEW s \in Server, NEW new \in Int, ExecutesUpTo(s, new)
      PROVE  \E q \in Server : c[1] <= committedIndex'[q]
  <2>1. committedIndex'[s] = new
    BY <1>1, <1>6 DEF ExecutesUpTo, TypeInv, TypeOK, ChainTypes
  <2>2. c \in commits \/ c[1] = new
    <3>1. commits' = commits \/ commits' = commits \cup {<<new, bcLog[s][new + 1]>>}
      BY <1>6 DEF ExecutesUpTo
    <3> QED  BY <3>1
  <2> QED  BY <1>4, <2>1, <2>2
<1> QED  BY <1>1, <1>5, <1>6, CommitShape

LEMMA LedgerInit == Init => LedgerInv
<1> SUFFICES ASSUME Init PROVE LedgerInv
  OBVIOUS
<1>1. Links = {}
  <2>1. Offers(net) = {}  BY OffersIn DEF Init
  <2>2. \A s \in Server : ChainLinks(bcLog[s]) = {}  BY DEF Init, ChainLinks
  <2> QED  BY <2>1, <2>2, LinksIn
<1>2. TakenLinks /\ TxnOnce  BY <1>1 DEF TakenLinks, TxnOnce
<1>3. ServesTaken /\ ServesApart /\ CommitsExecuted
  BY DEF Init, ServesTaken, ServesApart, CommitsExecuted
<1>4. SomeLongest  BY LeaderAssumption DEF Init, SomeLongest, Longest
<1> QED  BY <1>2, <1>3, <1>4 DEF LedgerInv

\* What the leader's waiting loop and update_bal_tab_and_committed_index leave
\* in every reachable state: a request has one block with one place in chains
\* and appends, and the leader that waits on it alone has it last.
THEOREM LedgerInvariant == Spec => []LedgerInv
<1>1. AllInv /\ AllInv' /\ LedgerInv /\ [Next]_vars => LedgerInv'
  BY TakenStep, ServesStep, LongestStep, CommitsExecutedStep
  DEF AllInv, BaseInv, LedgerInv
<1> QED  BY <1>1, LedgerInit, AllHolds, PTL DEF Spec

-----------------------------------------------------------------------------
(* The refinement of OneLedger.                                            *)

LEMMA LongestOf ==
    ASSUME NEW t, \E s \in Server : \A q \in Server : Len(t[q]) <= Len(t[s])
    PROVE  \E a \in Server :
            /\ \A q \in Server : Len(t[q]) <= Len(t[a])
            /\ t[CHOOSE s \in Server :
                    \A q \in Server : Len(t[q]) <= Len(t[s])] = t[a]
OBVIOUS

LEMMA PrefixFrom ==
    ASSUME NEW S, NEW u \in Seq(S), NEW v \in Seq(S), Len(u) <= Len(v),
           \A k \in 1 .. Len(u) : u[k] = v[k]
    PROVE  Promised!IsPrefix(u, v)
<1>1. SubSeq(u, 1, Len(u)) = u  OBVIOUS
<1> DEFINE w == SubSeq(v, 1, Len(u))
<1>2. w \in Seq(S) /\ Len(w) = Len(u) /\ \A k \in 1 .. Len(u) : w[k] = v[k]
  OBVIOUS
<1> HIDE DEF w
<1>3. w = u  BY <1>2, SeqEqual
<1> QED  BY <1>1, <1>3 DEF Promised!IsPrefix, w

\* Tables only grow, at their ends.
LEMMA TablesExtend ==
    ASSUME TypeInv, TypeInv', [Next]_vars, NEW q \in Server
    PROVE  /\ Len(balTab[q]) <= Len(balTab'[q])
           /\ \A k \in 1 .. Len(balTab[q]) : balTab'[q][k] = balTab[q][k]
<1>1. CASE balTab'[q] = balTab[q]  BY <1>1, TableTypes
<1>2. ASSUME NEW s \in Server, NEW new \in Int, ExecutesUpTo(s, new)
      PROVE  /\ Len(balTab[q]) <= Len(balTab'[q])
             /\ \A k \in 1 .. Len(balTab[q]) : balTab'[q][k] = balTab[q][k]
  <2>1. CASE q = s  BY <1>2, <2>1, TableExtends
  <2>2. CASE q # s  BY <1>1, <1>2, <2>2, TableExtends
  <2> QED  BY <2>1, <2>2
<1> QED  BY <1>1, <1>2, CommitShape DEF CommitsNothing

\* Whatever a step does, the longest table goes on from the longest one, and
\* the tables follow it.
LEMMA LedgerGrows ==
    ASSUME TypeInv, TypeInv', SomeLongest, SomeLongest', TablesAgree', allStored',
           [Next]_vars
    PROVE  /\ \E a \in Server : Longest(a) /\ LongestTable = balTab[a]
           /\ \E a \in Server : Longest(a)' /\ LongestTable' = balTab'[a]
           /\ Promised!IsPrefix(LongestTable, LongestTable')
           /\ Promised!Follow
           /\ Len(LongestTable') <= Len(LongestTable)
                => LongestTable' = LongestTable
<1>1. PICK a \in Server : Longest(a) /\ LongestTable = balTab[a]
  BY LongestOf DEF SomeLongest, Longest, LongestTable
<1>2. PICK b \in Server : Longest(b)' /\ LongestTable' = balTab'[b]
  BY LongestOf DEF SomeLongest, Longest, LongestTable
<1>3. \A q \in Server :
        /\ balTab[q] \in Seq(Request) /\ balTab'[q] \in Seq(Request)
        /\ Len(balTab[q]) \in Nat /\ Len(balTab'[q]) \in Nat
        /\ Len(balTab'[q]) <= Len(balTab'[b])
  BY <1>2 DEF TypeInv, TypeOK, ChainTypes, Longest
<1>4. \A q \in Server :
        /\ Len(balTab[q]) <= Len(balTab'[q])
        /\ \A k \in 1 .. Len(balTab[q]) : balTab'[q][k] = balTab[q][k]
  BY TablesExtend
<1>5. \A q \in Server : \A k \in 1 .. Len(balTab'[q]) :
            balTab'[q][k] = balTab'[b][k]
  <2> SUFFICES ASSUME NEW q \in Server, NEW k \in 1 .. Len(balTab'[q])
               PROVE  balTab'[q][k] = balTab'[b][k]
    OBVIOUS
  <2>1. k <= Len(balTab'[b])  BY <1>3
  <2> QED  BY <2>1 DEF TablesAgree
<1>6. ASSUME NEW q \in Server
      PROVE  /\ Promised!IsPrefix(balTab[q], balTab'[q])
             /\ Promised!IsPrefix(balTab'[q], balTab'[b])
  <2>1. Promised!IsPrefix(balTab[q], balTab'[q])  BY <1>3, <1>4, PrefixFrom
  <2>2. Promised!IsPrefix(balTab'[q], balTab'[b])  BY <1>3, <1>5, PrefixFrom
  <2> QED  BY <2>1, <2>2
<1>7. /\ Len(balTab[a]) <= Len(balTab'[b])
      /\ \A k \in 1 .. Len(balTab[a]) : balTab[a][k] = balTab'[b][k]
  <2>1. Len(balTab[a]) <= Len(balTab'[a]) /\ Len(balTab'[a]) <= Len(balTab'[b])
    BY <1>3, <1>4
  <2>2. Len(balTab[a]) <= Len(balTab'[b])  BY <1>3, <2>1
  <2>3. ASSUME NEW k \in 1 .. Len(balTab[a])
        PROVE  balTab[a][k] = balTab'[b][k]
    <3>1. k \in 1 .. Len(balTab'[a])  BY <1>3, <2>1
    <3> QED  BY <1>4, <1>5, <3>1
  <2> QED  BY <2>2, <2>3
<1>8. Promised!IsPrefix(LongestTable, LongestTable')
  BY <1>1, <1>2, <1>3, <1>7, PrefixFrom
<1>9. Promised!Follow  BY <1>2, <1>6 DEF Promised!Follow
<1>10. ASSUME Len(LongestTable') <= Len(LongestTable)
       PROVE  LongestTable' = LongestTable
  <2>1. Len(balTab[a]) = Len(balTab'[b])  BY <1>1, <1>2, <1>3, <1>7, <1>10
  <2>2. balTab[a] = balTab'[b]  BY <1>3, <1>7, <2>1, SeqEqual
  <2> QED  BY <1>1, <1>2, <2>2
<1> QED  BY <1>1, <1>2, <1>8, <1>9, <1>10

\* A chain that is executed up to n gives requests of the chain, at one place
\* each.
LEMMA ExecutedOnce ==
    ASSUME TypeInv, TxnOnce, NEW s \in Server, NEW n \in Int, NEW t,
           n <= LastIndex(bcLog[s]), t = ExecutedChain(bcLog[s], n)
    PROVE  /\ DOMAIN t = 1 .. n + 1
           /\ \A k \in DOMAIN t :
                /\ k \in DOMAIN bcLog[s]
                /\ t[k] = bcLog[s][k].txn
                /\ \A j \in DOMAIN t : t[j] = t[k] => j = k
<1>1. bcLog[s] \in Seq(Block) /\ n <= Len(bcLog[s]) - 1
  BY DEF TypeInv, TypeOK, ChainTypes, LastIndex
<1>2. t = [k \in 1 .. n + 1 |-> bcLog[s][k].txn]  BY DEF ExecutedChain
<1>3. DOMAIN t = 1 .. n + 1 /\ \A k \in 1 .. n + 1 : t[k] = bcLog[s][k].txn
  BY ONLY <1>2
<1>4. \A k \in DOMAIN t : k \in DOMAIN bcLog[s]  BY <1>1, <1>3
<1>5. ASSUME NEW k \in DOMAIN t, NEW j \in DOMAIN t, t[j] = t[k]
      PROVE  j = k
  <2>1. PICK l1 \in Links : l1.at = j /\ l1.block = bcLog[s][j]
    BY <1>4, PlaceLinks
  <2>2. PICK l2 \in Links : l2.at = k /\ l2.block = bcLog[s][k]
    BY <1>4, PlaceLinks
  <2>3. l1.block.txn = l2.block.txn  BY <1>3, <1>5, <2>1, <2>2
  <2>4. l1 = l2  BY <2>3 DEF TxnOnce
  <2> QED  BY <2>1, <2>2, <2>4
<1> QED  BY <1>3, <1>4, <1>5

\* What the steps of the refinement start from and end in.
Told == AllInv /\ LedgerInv /\ TablesAgree

LEMMA ToldGrows ==
    ASSUME Told, Told', [Next]_vars, allStored'
    PROVE  /\ allStored
           /\ \A s \in Server : TableMatches(s) /\ TableMatches(s)'
           /\ \E a \in Server : Longest(a) /\ LongestTable = balTab[a]
           /\ \E a \in Server : Longest(a)' /\ LongestTable' = balTab'[a]
           /\ Promised!IsPrefix(LongestTable, LongestTable')
           /\ Promised!Follow
           /\ Len(LongestTable') <= Len(LongestTable)
                => LongestTable' = LongestTable
<1> USE DEF Told, AllInv, BaseInv, LedgerInv
<1>1. allStored  BY CommitShape DEF CommitsNothing, ExecutesUpTo
<1>2. CommitsAccepted /\ CommittedHeld /\ \A s \in Server : TableMatches(s)
  BY <1>1, TableParts DEF CommitInv
<1>3. \A s \in Server : TableMatches(s)'  BY <1>2, TableStep
<1> QED  BY <1>1, <1>2, <1>3, LedgerGrows

\* The tables stand still, and so does the ledger.
LEMMA LedgerSame ==
    ASSUME Told, Told', [Next]_vars, allStored', balTab' = balTab
    PROVE  LongestTable' = LongestTable
<1>1. PICK a \in Server : Longest(a) /\ LongestTable = balTab[a]
  BY ToldGrows
<1>2. PICK b \in Server : LongestTable' = balTab'[b]  BY ToldGrows
<1>3. Len(LongestTable') <= Len(LongestTable)  BY <1>1, <1>2 DEF Longest
<1> QED  BY <1>3, ToldGrows

\* A heartbeat lets a follower execute what some server has executed.
LEMMA HeartbeatCatchesUp ==
    ASSUME Told, Told', [Next]_vars, allStored', answer' = answer,
           commits' = commits
    PROVE  Promised!CatchUp
<1> USE DEF Told, AllInv, BaseInv, LedgerInv
<1>1. /\ allStored /\ Promised!Follow
      /\ \A s \in Server : TableMatches(s) /\ TableMatches(s)'
  BY ToldGrows
<1>2. PICK a \in Server : Longest(a) /\ LongestTable = balTab[a]
  BY ToldGrows
<1>3. PICK b \in Server : LongestTable' = balTab'[b]  BY ToldGrows
<1>4. \A q \in Server : Len(balTab[q]) = committedIndex[q] + 1
                        /\ Len(balTab[q]) \in Nat
  <2> SUFFICES ASSUME NEW q \in Server
               PROVE  Len(balTab[q]) = committedIndex[q] + 1
                      /\ Len(balTab[q]) \in Nat
    OBVIOUS
  <2>1. balTab[q] = [k \in 1 .. committedIndex[q] + 1 |-> bcLog[q][k].txn]
    BY <1>1 DEF TableMatches, ExecutedChain
  <2>2. DOMAIN balTab[q] = 1 .. committedIndex[q] + 1  BY ONLY <2>1
  <2> QED  BY <2>2, TableTypes
<1>5. Len(balTab'[b]) = committedIndex'[b] + 1 /\ Len(balTab'[b]) \in Nat
      /\ committedIndex'[b] \in Int
  <2>1. balTab'[b] = [k \in 1 .. committedIndex'[b] + 1 |-> bcLog'[b][k].txn]
    BY <1>1 DEF TableMatches, ExecutedChain
  <2>2. balTab'[b] \in Seq(Request) /\ committedIndex'[b] \in Int
        /\ committedIndex'[b] >= -1
    BY DEF TypeInv, TypeOK, ChainTypes, Index
  <2>3. DOMAIN balTab'[b] = 1 .. committedIndex'[b] + 1  BY ONLY <2>1
  <2> QED  BY <2>2, <2>3
<1>6. Len(balTab'[b]) <= Len(balTab[a])
  <2>1. CASE committedIndex'[b] = -1  BY <1>4, <1>5, <2>1
  <2>2. CASE committedIndex'[b] # -1
    <3>1. PICK c \in commits' : c[1] = committedIndex'[b]
      BY <2>2 DEF CommitInv, CommittedHeld
    <3>2. PICK q \in Server : c[1] <= committedIndex[q]
      BY <1>1, <3>1 DEF CommitsExecuted
    <3>3. Len(balTab[q]) <= Len(balTab[a])  BY <1>2 DEF Longest
    <3>4. committedIndex[q] \in Int  BY TableTypes
    <3> QED  BY <1>4, <1>5, <3>1, <3>2, <3>3, <3>4
  <2> QED  BY <2>1, <2>2
<1>7. LongestTable' = LongestTable  BY <1>2, <1>3, <1>6, ToldGrows
<1> QED  BY <1>1, <1>7 DEF Promised!CatchUp

\* A leader executes its whole chain, of requests taken before and once each,
\* the one it waits on last.
LEMMA LeaderCommits ==
    ASSUME Told, Told', [Next]_vars, allStored', NEW s \in Server,
           NEW f \in Server, LeaderCommit(s, f)
    PROVE  Promised!Commit(s, serving[s])
<1> USE DEF Told, AllInv, BaseInv, LedgerInv
<1>1. /\ serving[s] # None /\ bcLog' = bcLog
      /\ answer' = [answer EXCEPT ![serving[s]] = "succeed"]
      /\ CommitUpTo(s, LastIndex(bcLog[s]))
  BY DEF LeaderCommit
<1>2. Waits(s)  BY <1>1, Waiting
<1>3. /\ Promised!IsPrefix(LongestTable, LongestTable') /\ Promised!Follow
      /\ \A q \in Server : TableMatches(q)'
  BY ToldGrows
<1>4. \A q \in Server :
        /\ DOMAIN balTab'[q] = 1 .. committedIndex'[q] + 1
        /\ \A k \in DOMAIN balTab'[q] :
            /\ k \in DOMAIN bcLog[q] /\ balTab'[q][k] = bcLog[q][k].txn
            /\ \A j \in DOMAIN balTab'[q] : balTab'[q][j] = balTab'[q][k] => j = k
  <2> SUFFICES ASSUME NEW q \in Server
               PROVE  /\ DOMAIN balTab'[q] = 1 .. committedIndex'[q] + 1
                      /\ \A k \in DOMAIN balTab'[q] :
                            /\ k \in DOMAIN bcLog[q]
                            /\ balTab'[q][k] = bcLog[q][k].txn
                            /\ \A j \in DOMAIN balTab'[q] :
                                    balTab'[q][j] = balTab'[q][k] => j = k
    OBVIOUS
  <2>1. TableMatches(q)' /\ committedIndex'[q] \in Int
    BY <1>3 DEF TypeInv, TypeOK, ChainTypes, Index
  <2>2. committedIndex'[q] <= LastIndex(bcLog[q])
        /\ balTab'[q] = ExecutedChain(bcLog[q], committedIndex'[q])
    BY <1>1, <2>1 DEF TableMatches, LastIndex, ExecutedChain
  <2> QED  BY <2>1, <2>2, ExecutedOnce
<1>5. PICK b \in Server : LongestTable' = balTab'[b]  BY ToldGrows
<1>6. Promised!IsInjective(LongestTable')
  BY <1>4, <1>5 DEF Promised!IsInjective
<1>7. Promised!Range(LongestTable') \subseteq Promised!Taken
  <2> SUFFICES ASSUME NEW k \in DOMAIN balTab'[b]
               PROVE  balTab'[b][k] \in Promised!Taken
    BY <1>5 DEF Promised!Range
  <2>1. PICK l \in Links : l.block = bcLog[b][k]  BY <1>4, PlaceLinks
  <2>2. l.block.txn \in Request  BY LinkTxn DEF TypeInv
  <2> QED  BY <1>4, <2>1, <2>2 DEF TakenLinks, Promised!Taken
<1>8. Promised!Grow  BY <1>3, <1>6, <1>7 DEF Promised!Grow
<1>9. serving[s] \in Promised!Range(balTab'[s])
  <2>1. bcLog[s] \in Seq(Block) /\ bcLog[s] # <<>>
    BY <1>1 DEF TypeInv, TypeOK, ChainTypes, LeaderShape
  <2>2. LastIndex(bcLog[s]) \in 0 .. LastIndex(bcLog[s])
        /\ LastIndex(bcLog[s]) + 1 = Len(bcLog[s]) /\ Len(bcLog[s]) \in Nat \ {0}
    BY <2>1 DEF LastIndex
  <2>3. committedIndex'[s] = LastIndex(bcLog[s])
    BY <1>1, <2>2 DEF CommitUpTo, TypeInv, TypeOK, ChainTypes
  <2>4. Len(bcLog[s]) \in DOMAIN balTab'[s]  BY <1>4, <2>2, <2>3
  <2>5. balTab'[s][Len(bcLog[s])] = serving[s]  BY <1>2, <1>4, <2>4 DEF Waits
  <2> QED  BY <2>4, <2>5 DEF Promised!Range
<1> QED  BY <1>1, <1>2, <1>3, <1>8, <1>9 DEF Promised!Commit, Waits

LEMMA LedgerStep ==
    ASSUME Told, Told', [Next]_vars, allStored'
    PROVE  [Promised!Next]_(Promised!vars)
<1> USE DEF Told, AllInv, BaseInv, LedgerInv
<1>1. ASSUME CommitsNothing PROVE balTab' = balTab /\ LongestTable' = LongestTable
  <2>1. balTab' = balTab  BY <1>1 DEF CommitsNothing
  <2> QED  BY <2>1, LedgerSame
<1>2. ASSUME NEW s \in Server, LeaderGiveUp(s)
      PROVE  Promised!GiveUp(serving[s]) /\ serving[s] \in Request
  <2>1. /\ serving[s] # None /\ balTab' = balTab
        /\ answer' = [answer EXCEPT ![serving[s]] = "failed"]
    BY <1>2 DEF LeaderGiveUp, chainVars
  <2>2. Waits(s)  BY <2>1, Waiting
  <2>3. LongestTable' = LongestTable  BY <2>1, LedgerSame
  <2> QED  BY <2>1, <2>2, <2>3 DEF Promised!GiveUp, Waits
<1>3. ASSUME NEW s \in Server, NEW r \in Request, LeaderTakeRequest(s, r)
      PROVE  Promised!Take(r)
  <2>1. /\ answer[r] = "unsent" /\ answer' = [answer EXCEPT ![r] = "taken"]
        /\ balTab' = balTab
    BY <1>3 DEF LeaderTakeRequest
  <2>2. LongestTable' = LongestTable  BY <2>1, LedgerSame
  <2> QED  BY <2>1, <2>2 DEF Promised!Take
<1>4. ASSUME NEW s \in Server, NEW f \in Server, LeaderCommit(s, f)
      PROVE  Promised!Commit(s, serving[s]) /\ serving[s] \in Request
  <2>1. Promised!Commit(s, serving[s])  BY <1>4, LeaderCommits
  <2>2. serving[s] # None  BY <1>4 DEF LeaderCommit
  <2>3. Waits(s)  BY <2>2, Waiting
  <2> QED  BY <2>1, <2>3 DEF Waits
<1>5. ASSUME NEW s \in Server, NEW i \in Server, FollowerHeartbeat(s, i)
      PROVE  Promised!CatchUp
  <2>1. answer' = answer /\ commits' = commits
    BY <1>5 DEF FollowerHeartbeat, commitHist
  <2> QED  BY <2>1, HeartbeatCatchesUp
<1>6. CASE AnswersNothing /\ CommitsNothing
  BY <1>1, <1>6 DEF AnswersNothing, Promised!vars
<1>7. \/ AnswersNothing
      \/ \E s \in Server : LeaderGiveUp(s)
      \/ \E s \in Server, r \in Request : LeaderTakeRequest(s, r)
      \/ \E s, f \in Server : LeaderCommit(s, f)
  BY AnswerKinds
<1>8. \/ CommitsNothing
      \/ \E s, i \in Server : FollowerHeartbeat(s, i) \/ LeaderCommit(s, i)
  BY CommitKinds
<1> QED  BY <1>2, <1>3, <1>4, <1>5, <1>6, <1>7, <1>8 DEF Promised!Next

LEMMA LedgerStart == Init => Promised!Init
<1> SUFFICES ASSUME Init PROVE Promised!Init
  OBVIOUS
<1>1. SomeLongest  BY LedgerInit DEF LedgerInv
<1>2. PICK a \in Server : LongestTable = balTab[a]
  BY <1>1, LongestOf DEF SomeLongest, Longest, LongestTable
<1> QED  BY <1>2 DEF Init, Promised!Init

\* No step of the servers does to tables and answers what OneLedger does not
\* allow: a transaction is executed behind those that were, a client is told
\* of success for one that is executed, and one answered with failure may still
\* be executed, once (state.cpp 545-559), as long as every commit finds its
\* block accepted by a majority.
THEOREM LedgerSteps == Spec => OneLedgerSteps
<1>1. AllInv /\ LedgerInv /\ TablesAgree => Told  BY DEF Told
<1>2. Told /\ Told' /\ [Next]_vars => [allStored' => Promised!Next]_(Promised!vars)
  BY LedgerStep
<1>3. Spec => []Told
  BY <1>1, AllHolds, LedgerInvariant, TablesSame, PTL
<1> QED  BY <1>2, <1>3, PTL DEF Spec, OneLedgerSteps

\* The servers of state.cpp, elections, retries, late and repeated replies
\* included, implement the one ledger their clients are promised: their first
\* states are states it may begin in, and what they execute and tell clients
\* are its steps, as long as every commit finds its block accepted by a
\* majority.
THEOREM LedgerForAll == Spec => OneLedgerForAll
<1>1. Spec => Promised!Init  BY LedgerStart DEF Spec
<1> QED  BY <1>1, LedgerSteps DEF OneLedgerForAll
=============================================================================
