--------------------------- MODULE SessionProofs ----------------------------
(***************************************************************************)
(* Clients and servers of ClientSession, for any number of each, of        *)
(* commands, elections and restarts.  A request lies on one stream until a *)
(* leader takes it (ReqsOwn, ReqsOnce), is waited on by one leader at most *)
(* (ServesTaken, ServesApart), and has one answer at most, which is on a   *)
(* stream back, in response_queue or shown (AnswersTrue, AnswersOnce): so  *)
(* no two successes stand for one execution, and the servers keep what     *)
(* OneLedger promises.                                                     *)
(***************************************************************************)
EXTENDS ClientSession, FiniteSetTheorems, SequenceTheorems, TLAPS

-----------------------------------------------------------------------------
(* The inductive invariant.                                                *)

\* What lies on a stream was typed by its client and taken by no leader.
ReqsOwn ==
    \A c \in Client, s \in Server : \A k \in DOMAIN reqs[c][s] :
        /\ reqs[c][s][k].client = c
        /\ reqs[c][s][k].nr <= typed[c]
        /\ answer[reqs[c][s][k]] = "unsent"
ReqsOnce ==
    \A c \in Client : \A s, t \in Server :
        \A k \in DOMAIN reqs[c][s], l \in DOMAIN reqs[c][t] :
            reqs[c][s][k] = reqs[c][t][l] => s = t /\ k = l

\* What a leader took was typed.
TakenTyped ==
    \A r \in Request : answer[r] # "unsent" => r.nr <= typed[r.client]

ServesTaken ==
    \A s \in Server : serving[s] # None => answer[serving[s]] = "taken"
ServesApart ==
    \A s, t \in Server : serving[s] # None /\ serving[s] = serving[t] => s = t

Taken == {r \in Request : answer[r] # "unsent"}

\* Requests are executed once each, of the finitely many taken so far.
LedgerOnce == IsInjective(ledger) /\ IsFiniteSet(Taken)

\* m is the one thing that client c is ever told of its request m.req.
Told(c, m, answers, done) ==
    /\ m.req.client = c
    /\ answers[m.req] = IF m.succeed THEN "succeed" ELSE "failed"
    /\ m.succeed => m.req \in Range(done)

\* Where the answers to c are on the stream from s.
Replies(s, c) == {k \in DOMAIN rsps[s][c] : rsps[s][c][k].type = "RESPONSE"}

TrueFor(c) ==
    /\ \A s \in Server : \A k \in Replies(s, c) :
            Told(c, rsps[s][c][k], answer, ledger)
    /\ \A k \in DOMAIN responses[c] : Told(c, responses[c][k], answer, ledger)
    /\ \A k \in DOMAIN shown[c] : Told(c, shown[c][k].got, answer, ledger)
AnswersTrue == \A c \in Client : TrueFor(c)

\* The requests answered on a stream, in response_queue and on the screen.
OnStream(s, c) == {rsps[s][c][k].req : k \in Replies(s, c)}
Queued(c) == {responses[c][k].req : k \in DOMAIN responses[c]}
Seen(c) == {shown[c][k].got.req : k \in DOMAIN shown[c]}

StreamOnce(s, c) ==
    \A k, l \in Replies(s, c) : rsps[s][c][k].req = rsps[s][c][l].req => k = l
QueueOnce(c) ==
    \A k, l \in DOMAIN responses[c] :
        responses[c][k].req = responses[c][l].req => k = l
SeenOnce(c) ==
    \A k, l \in DOMAIN shown[c] :
        shown[c][k].got.req = shown[c][l].got.req => k = l

OnceFor(c) ==
    /\ \A s \in Server : StreamOnce(s, c)
    /\ QueueOnce(c) /\ SeenOnce(c)
    /\ \A s, t \in Server : s # t => OnStream(s, c) \cap OnStream(t, c) = {}
    /\ \A s \in Server : OnStream(s, c) \cap (Queued(c) \cup Seen(c)) = {}
    /\ Queued(c) \cap Seen(c) = {}
AnswersOnce == \A c \in Client : OnceFor(c)

RequestInv == /\ ReqsOwn /\ ReqsOnce /\ TakenTyped
              /\ ServesTaken /\ ServesApart /\ LedgerOnce

SessionInv == TypeOK /\ RequestInv /\ AnswersTrue /\ AnswersOnce

-----------------------------------------------------------------------------
(* Types.                                                                  *)

Message == Answer \cup LeaderChange

\* The frame of an action leaves the conjuncts of TypeOK about it alone.
ClientTypes ==
    /\ leaderId \in [Client -> Server]
    /\ waiting \in [Client -> Request \cup {None}]
    /\ typed \in [Client -> 0 .. MaxCommands]
    /\ responses \in [Client -> Seq(Answer)]
    /\ shown \in [Client -> Seq([asked: Request, got: Answer])]
WireTypes ==
    /\ link \in [Client -> [Server -> BOOLEAN]]
    /\ reqs \in [Client -> [Server -> Seq(Request)]]
    /\ rsps \in [Server -> [Client -> Seq(Message)]]
ServerTypes ==
    /\ role \in [Server -> {"Follower", "Leader"}]
    /\ led \in Seq(Server)
    /\ heard \in [Server -> 0 .. Len(led)]
    /\ serving \in [Server -> Request \cup {None}]
    /\ restarts \in 0 .. MaxRestarts
ClusterTypes ==
    /\ ledger \in Seq(Request)
    /\ answer \in [Request -> {"unsent", "taken", "succeed", "failed"}]

LEMMA TypeParts ==
    TypeOK <=> ClientTypes /\ WireTypes /\ ServerTypes /\ ClusterTypes
BY DEF TypeOK, ClientTypes, WireTypes, ServerTypes, ClusterTypes, Message

LEMMA TypePartsNext ==
    TypeOK' <=> ClientTypes' /\ WireTypes' /\ ServerTypes' /\ ClusterTypes'
BY DEF TypeOK, ClientTypes, WireTypes, ServerTypes, ClusterTypes, Message

LEMMA SameTypes ==
    /\ ClientTypes /\ UNCHANGED clientVars => ClientTypes'
    /\ WireTypes /\ UNCHANGED wireVars => WireTypes'
    /\ ServerTypes /\ UNCHANGED serverVars => ServerTypes'
    /\ ClusterTypes /\ UNCHANGED clusterVars => ClusterTypes'
BY DEF clientVars, wireVars, serverVars, clusterVars,
       ClientTypes, WireTypes, ServerTypes, ClusterTypes

LEMMA SeqTypes ==
    ASSUME NEW S, NEW q \in Seq(S)
    PROVE  /\ \A e \in S : Append(q, e) \in Seq(S)
           /\ q # <<>> => Head(q) \in S /\ Tail(q) \in Seq(S)
OBVIOUS

LEMMA SeqElements ==
    ASSUME NEW S, NEW q \in Seq(S)
    PROVE  \A k \in DOMAIN q : k \in Nat /\ q[k] \in S
OBVIOUS

\* What is written to a client.
LEMMA RespondType ==
    ASSUME WireTypes, NEW s \in Server, NEW c \in Client, NEW m \in Message,
           Respond(s, c, m)
    PROVE  rsps' \in [Server -> [Client -> Seq(Message)]]
<1>1. rsps[s][c] \in Seq(Message)  BY DEF WireTypes
<1>2. Append(rsps[s][c], m) \in Seq(Message)  BY <1>1, SeqTypes
<1>3. rsps \in [Server -> [Client -> Seq(Message)]]  BY DEF WireTypes
<1>4. rsps' = IF link[c][s]
              THEN [rsps EXCEPT ![s][c] = Append(rsps[s][c], m)] ELSE rsps
  BY DEF Respond
<1> HIDE DEF Message
<1> QED  BY ONLY <1>2, <1>3, <1>4

LEMMA TypeType ==
    ASSUME TypeOK, NEW c \in Client, Type(c)
    PROVE  TypeOK'
<1>1. ClientTypes /\ WireTypes /\ ServerTypes /\ ClusterTypes  BY TypeParts
<1>2. PICK kind \in Kinds : Type(c)!(kind)  BY DEF Type
<1> DEFINE r == [client |-> c, nr |-> typed[c] + 1, kind |-> kind]
<1>3. typed[c] \in 0 .. MaxCommands /\ typed[c] < MaxCommands
  BY <1>1, <1>2 DEF ClientTypes
<1>4. r \in Request /\ typed[c] + 1 \in 0 .. MaxCommands
  BY <1>3, BoundAssumption DEF Request
<1>5. /\ waiting' = [waiting EXCEPT ![c] = r]
      /\ typed' = [typed EXCEPT ![c] = typed[c] + 1]
      /\ UNCHANGED <<leaderId, responses, shown, link, rsps>>
      /\ UNCHANGED serverVars /\ UNCHANGED clusterVars
      /\ Send(c, r)
  BY <1>2
<1> HIDE DEF r
<1>6. ClientTypes'  BY <1>1, <1>4, <1>5 DEF ClientTypes
<1>7. WireTypes'
  <2>1. reqs[c][leaderId[c]] \in Seq(Request)  BY <1>1 DEF ClientTypes, WireTypes
  <2>2. Append(reqs[c][leaderId[c]], r) \in Seq(Request)
    BY <1>4, <2>1, SeqTypes
  <2>3. reqs' \in [Client -> [Server -> Seq(Request)]]
    BY <1>1, <1>5, <2>2 DEF Send, WireTypes
  <2> QED  BY <1>1, <1>5, <2>3 DEF WireTypes
<1> QED  BY <1>1, <1>5, <1>6, <1>7, SameTypes, TypePartsNext

LEMMA TypeClient ==
    ASSUME TypeOK, NEW c \in Client,
           TakeReply(c) \/ Timeout(c) \/ PrintResponses(c)
    PROVE  TypeOK'
<1>1. ClientTypes /\ WireTypes /\ ServerTypes /\ ClusterTypes  BY TypeParts
<1>2. UNCHANGED wireVars /\ UNCHANGED serverVars /\ UNCHANGED clusterVars
  BY DEF TakeReply, Timeout, PrintResponses
<1>3. <<>> \in Seq(Answer)  OBVIOUS
<1>4. ASSUME Timeout(c) PROVE ClientTypes'
  BY <1>1, <1>4 DEF Timeout, ClientTypes
<1>5. ASSUME PrintResponses(c) PROVE ClientTypes'
  BY <1>1, <1>3, <1>5 DEF PrintResponses, ClientTypes
<1>6. ASSUME TakeReply(c) PROVE ClientTypes'
  <2> DEFINE a == Head(responses[c])
             rest == Tail(responses[c])
             e == [asked |-> waiting[c], got |-> a]
  <2>1. /\ waiting[c] # None /\ responses[c] # <<>>
        /\ responses' = [responses EXCEPT ![c] = rest]
                \/ responses' = [responses EXCEPT ![c] = <<>>]
        /\ shown' = [shown EXCEPT ![c] = Append(shown[c], e)] \/ shown' = shown
        /\ waiting' = [waiting EXCEPT ![c] = None]
        /\ UNCHANGED <<leaderId, typed>>
    BY <1>6 DEF TakeReply, PopResponse
  <2>2. responses[c] \in Seq(Answer) /\ waiting[c] \in Request
    BY <1>1, <2>1 DEF ClientTypes
  <2>3. a \in Answer /\ rest \in Seq(Answer)  BY <2>1, <2>2, SeqTypes
  <2>4. e \in [asked: Request, got: Answer]  BY <2>2, <2>3
  <2>5. shown[c] \in Seq([asked: Request, got: Answer])  BY <1>1 DEF ClientTypes
  <2> HIDE DEF e, a, rest
  <2>6. Append(shown[c], e) \in Seq([asked: Request, got: Answer])
    BY <2>4, <2>5, SeqTypes
  <2>7. responses' \in [Client -> Seq(Answer)]
    BY <1>1, <1>3, <2>1, <2>3 DEF ClientTypes
  <2>8. shown' \in [Client -> Seq([asked: Request, got: Answer])]
    BY <1>1, <2>1, <2>6 DEF ClientTypes
  <2> QED  BY <1>1, <2>1, <2>7, <2>8 DEF ClientTypes
<1>7. ClientTypes'  BY <1>4, <1>5, <1>6
<1> QED  BY <1>1, <1>2, <1>7, SameTypes, TypePartsNext

LEMMA TypeReceive ==
    ASSUME TypeOK, NEW c \in Client, NEW s \in Server,
           ClientReceive(c, s) \/ ConnectTo(c, s)
    PROVE  TypeOK'
<1>1. ClientTypes /\ WireTypes /\ ServerTypes /\ ClusterTypes  BY TypeParts
<1>2. UNCHANGED serverVars /\ UNCHANGED clusterVars
  BY DEF ClientReceive, ConnectTo
<1>3. ASSUME ConnectTo(c, s) PROVE ClientTypes' /\ WireTypes'
  BY <1>1, <1>3, SameTypes DEF ConnectTo, WireTypes
<1>4. ASSUME ClientReceive(c, s) PROVE ClientTypes' /\ WireTypes'
  <2> DEFINE m == Head(rsps[s][c])
  <2>1. /\ rsps[s][c] # <<>>
        /\ IF m.type = "LEADER_CHANGE"
           THEN leaderId' = [leaderId EXCEPT ![c] = m.leader]
                /\ UNCHANGED responses
           ELSE responses' = [responses EXCEPT ![c] = Append(responses[c], m)]
                /\ UNCHANGED leaderId
        /\ rsps' = [rsps EXCEPT ![s][c] = Tail(rsps[s][c])]
        /\ UNCHANGED <<waiting, typed, shown, link, reqs>>
    BY <1>4 DEF ClientReceive
  <2>2. rsps[s][c] \in Seq(Message)  BY <1>1 DEF WireTypes
  <2>3. m \in Message /\ Tail(rsps[s][c]) \in Seq(Message)
    BY <2>1, <2>2, SeqTypes
  <2>4. WireTypes'  BY <1>1, <2>1, <2>3 DEF WireTypes
  <2>5. ClientTypes'
    <3>1. m \in LeaderChange \/ m \in Answer  BY <2>3 DEF Message
    <3>2. m \in LeaderChange => m.type = "LEADER_CHANGE" /\ m.leader \in Server
      BY DEF LeaderChange
    <3>3. m \in Answer => m.type # "LEADER_CHANGE"
                          /\ Append(responses[c], m) \in Seq(Answer)
      <4>1. m \in Answer => m.type # "LEADER_CHANGE"  BY DEF Answer
      <4>2. responses[c] \in Seq(Answer)  BY <1>1 DEF ClientTypes
      <4> HIDE DEF m
      <4> QED  BY <4>1, <4>2, SeqTypes
    <3> HIDE DEF m
    <3> QED  BY <1>1, <2>1, <3>1, <3>2, <3>3 DEF ClientTypes
  <2> QED  BY <2>4, <2>5
<1> QED  BY <1>1, <1>2, <1>3, <1>4, SameTypes, TypePartsNext

LEMMA TypeRequest ==
    ASSUME TypeOK, NEW c \in Client, NEW s \in Server,
           Redirect(s, c) \/ TakeRequest(s, c)
    PROVE  TypeOK'
<1>1. ClientTypes /\ WireTypes /\ ServerTypes /\ ClusterTypes  BY TypeParts
<1>2. UNCHANGED clientVars  BY DEF Redirect, TakeRequest
<1>3. ASSUME reqs[c][s] # <<>>, reqs' = PopRequest(c, s)
      PROVE  /\ Head(reqs[c][s]) \in Request
             /\ reqs' \in [Client -> [Server -> Seq(Request)]]
  <2>1. reqs[c][s] \in Seq(Request)  BY <1>1 DEF WireTypes
  <2>2. Head(reqs[c][s]) \in Request /\ Tail(reqs[c][s]) \in Seq(Request)
    BY <1>3, <2>1, SeqTypes
  <2> QED  BY <1>1, <1>3, <2>2 DEF WireTypes, PopRequest
<1>4. ASSUME Redirect(s, c)
      PROVE  WireTypes' /\ ServerTypes' /\ ClusterTypes'
  <2> DEFINE m == [type |-> "LEADER_CHANGE", leader |-> CurrLeader(s)]
  <2>1. CurrLeader(s) \in Server
    <3>1. led \in Seq(Server) /\ heard[s] \in 0 .. Len(led)
      BY <1>1 DEF ServerTypes
    <3>2. heard[s] # 0 => led[heard[s]] \in Server  BY <3>1
    <3> QED  BY <3>2, LeaderAssumption DEF CurrLeader
  <2>2. m \in Message  BY <2>1 DEF Message, LeaderChange
  <2>3. /\ reqs[c][s] # <<>> /\ reqs' = PopRequest(c, s) /\ Respond(s, c, m)
        /\ UNCHANGED link /\ UNCHANGED serverVars /\ UNCHANGED clusterVars
    BY <1>4 DEF Redirect
  <2> HIDE DEF m
  <2>4. WireTypes'
    <3>1. rsps' \in [Server -> [Client -> Seq(Message)]]
      BY <1>1, <2>2, <2>3, RespondType
    <3> QED  BY <1>1, <1>3, <2>3, <3>1 DEF WireTypes
  <2> QED  BY <1>1, <2>3, <2>4, SameTypes
<1>5. ASSUME TakeRequest(s, c)
      PROVE  WireTypes' /\ ServerTypes' /\ ClusterTypes'
  <2> DEFINE r == Head(reqs[c][s])
  <2>1. /\ reqs[c][s] # <<>> /\ reqs' = PopRequest(c, s)
        /\ serving' = [serving EXCEPT ![s] = r]
        /\ answer' = [answer EXCEPT ![r] = "taken"]
        /\ UNCHANGED <<link, rsps, role, led, heard, restarts, ledger>>
    BY <1>5 DEF TakeRequest
  <2>2. r \in Request /\ reqs' \in [Client -> [Server -> Seq(Request)]]
    BY <1>3, <2>1
  <2> HIDE DEF r
  <2>3. WireTypes'  BY <1>1, <2>1, <2>2 DEF WireTypes
  <2>4. ServerTypes'  BY <1>1, <2>1, <2>2 DEF ServerTypes
  <2>5. ClusterTypes'  BY <1>1, <2>1, <2>2 DEF ClusterTypes
  <2> QED  BY <2>3, <2>4, <2>5
<1> QED  BY <1>1, <1>2, <1>4, <1>5, SameTypes, TypePartsNext

\* What a leader executes: blocks of other requests that are not executed yet,
\* and the request it waits on.
LEMMA OrderOf ==
    ASSUME IsFiniteSet(Taken), NEW S \in SUBSET Pending, NEW q \in SetToSeqs(S)
    PROVE  q \in Seq(S) /\ IsInjective(q)
<1>1. IsFiniteSet(S)
  <2>1. S \subseteq Taken  BY DEF Pending, Taken
  <2> QED  BY <2>1, FS_Subset
<1>2. Cardinality(S) \in Nat  BY <1>1, FS_CardinalityType
<1>3. q \in [1 .. Cardinality(S) -> S]
      /\ \A i, j \in 1 .. Cardinality(S) : i # j => q[i] # q[j]
  BY DEF SetToSeqs
<1> QED  BY <1>2, <1>3 DEF IsInjective

\* What a commit does to the ledger.
LEMMA CommitShape ==
    ASSUME TypeOK, IsFiniteSet(Taken), NEW s \in Server, Commit(s)
    PROVE  /\ serving[s] \in Request /\ Finish(s, TRUE)
           /\ \/ serving[s] \in Range(ledger) /\ ledger' = ledger
              \/ /\ serving[s] \notin Range(ledger)
                 /\ \E before \in Seq(Pending \ {serving[s]}) :
                        /\ IsInjective(before)
                        /\ ledger' = ledger \o (before \o <<serving[s]>>)
<1>1. serving[s] \in Request /\ Finish(s, TRUE)
  BY DEF Commit, TypeOK
<1>2. CASE serving[s] \in Range(ledger)  BY <1>1, <1>2 DEF Commit
<1>3. CASE serving[s] \notin Range(ledger)
  <2>1. PICK S \in SUBSET (Pending \ {serving[s]}) : \E before \in SetToSeqs(S) :
            ledger' = ledger \o before \o <<serving[s]>>
    BY <1>3 DEF Commit
  <2>2. PICK before \in SetToSeqs(S) :
            ledger' = ledger \o before \o <<serving[s]>>
    BY <2>1
  <2>3. before \in Seq(S) /\ IsInjective(before)  BY OrderOf
  <2>4. before \in Seq(Pending \ {serving[s]})  BY <2>3
  <2>5. before \in Seq(Request) /\ <<serving[s]>> \in Seq(Request)
        /\ ledger \in Seq(Request)
    BY <1>1, <2>4 DEF Pending, TypeOK
  <2>6. ledger' = ledger \o (before \o <<serving[s]>>)
    BY <2>2, <2>5, ConcatAssociative
  <2> QED  BY <1>1, <1>3, <2>3, <2>4, <2>6
<1> QED  BY <1>2, <1>3

LEMMA TypeFinish ==
    ASSUME TypeOK, IsFiniteSet(Taken), NEW s \in Server, Commit(s) \/ GiveUp(s)
    PROVE  TypeOK'
<1>1. ClientTypes /\ WireTypes /\ ServerTypes /\ ClusterTypes  BY TypeParts
<1>2. ledger' \in Seq(Request)
  <2>1. CASE Commit(s)
    <3>1. ledger \in Seq(Request)  BY <1>1 DEF ClusterTypes
    <3>2. serving[s] \in Request  BY <2>1, CommitShape
    <3>3. ASSUME NEW before \in Seq(Pending \ {serving[s]}),
                 ledger' = ledger \o (before \o <<serving[s]>>)
          PROVE  ledger' \in Seq(Request)
      <4>1. before \in Seq(Request) /\ <<serving[s]>> \in Seq(Request)
        BY <3>2 DEF Pending
      <4>2. before \o <<serving[s]>> \in Seq(Request)
        BY <4>1, ConcatProperties
      <4> QED  BY <3>1, <3>3, <4>2, ConcatProperties
    <3> QED  BY <2>1, <3>1, <3>3, CommitShape
  <2>2. CASE GiveUp(s)  BY <1>1, <2>2 DEF GiveUp, ClusterTypes
  <2> QED  BY <2>1, <2>2
<1>3. PICK ok \in BOOLEAN : Finish(s, ok)
  <2>1. CASE Commit(s)  BY <2>1, Zenon DEF Commit
  <2>2. CASE GiveUp(s)  BY <2>2, Zenon DEF GiveUp
  <2> QED  BY <2>1, <2>2
<1> DEFINE r == serving[s]
           m == [type |-> "RESPONSE", req |-> r, succeed |-> ok]
<1>4. /\ Respond(s, r.client, m)
      /\ answer' = [answer EXCEPT ![r] = IF ok THEN "succeed" ELSE "failed"]
      /\ serving' = [serving EXCEPT ![s] = None]
      /\ UNCHANGED clientVars /\ UNCHANGED <<link, reqs, role, led, heard, restarts>>
  BY <1>3 DEF Finish
<1>5. r \in Request /\ r.client \in Client
  <2>1. r # None  BY DEF Commit, GiveUp
  <2>2. r \in Request  BY <1>1, <2>1 DEF ServerTypes
  <2> QED  BY <2>2 DEF Request
<1>6. m \in Message  BY <1>5 DEF Message, Answer
<1> HIDE DEF m, r
<1>7. WireTypes'
  <2>1. rsps' \in [Server -> [Client -> Seq(Message)]]
    BY <1>1, <1>4, <1>5, <1>6, RespondType
  <2> QED  BY <1>1, <1>4, <2>1 DEF WireTypes
<1>8. ServerTypes'  BY <1>1, <1>4 DEF ServerTypes
<1>9. ClusterTypes'  BY <1>1, <1>2, <1>4 DEF ClusterTypes
<1> QED  BY <1>1, <1>4, <1>7, <1>8, <1>9, SameTypes, TypePartsNext

LEMMA PrefixShape ==
    ASSUME NEW S, NEW q \in Seq(S), NEW p \in Seq(S), IsPrefix(p, q)
    PROVE  /\ Len(p) <= Len(q) /\ DOMAIN p \subseteq DOMAIN q
           /\ \A k \in DOMAIN p : p[k] = q[k]
<1>1. Len(p) <= Len(q) /\ SubSeq(p, 1, Len(p)) = SubSeq(q, 1, Len(p))
  BY DEF IsPrefix
<1>2. \A k \in 1 .. Len(p) : SubSeq(p, 1, Len(p))[k] = p[k]
                             /\ SubSeq(q, 1, Len(p))[k] = q[k]
  BY <1>1
<1> QED  BY <1>1, <1>2

\* What is left of the streams of a server that dies.
LEMMA RestartKeeps ==
    ASSUME TypeOK, NEW s \in Server, Restart(s)
    PROVE  \E kept \in [Client -> Seq(Message)] :
            /\ rsps' = [rsps EXCEPT ![s] = kept]
            /\ \A c \in Client : IsPrefix(kept[c], rsps[s][c])
<1>1. PICK kept \in [Client -> UNION {Prefixes(rsps[s][c]) : c \in Client}] :
        /\ \A c \in Client : IsPrefix(kept[c], rsps[s][c])
        /\ rsps' = [rsps EXCEPT ![s] = kept]
  BY DEF Restart
<1>2. ASSUME NEW c \in Client PROVE kept[c] \in Seq(Message)
  <2>1. PICK d \in Client : kept[c] \in Prefixes(rsps[s][d])  BY <1>1
  <2>2. PICK l \in 0 .. Len(rsps[s][d]) : kept[c] = SubSeq(rsps[s][d], 1, l)
    BY <2>1 DEF Prefixes
  <2>3. rsps[s][d] \in Seq(Message)  BY TypeParts DEF WireTypes
  <2> QED  BY <2>2, <2>3
<1>3. kept \in [Client -> Seq(Message)]  BY <1>2
<1> QED  BY <1>1, <1>3

LEMMA TypeServer ==
    ASSUME TypeOK, NEW s \in Server,
           StepDown(s) \/ BecomeLeader(s) \/ HearLeader(s) \/ Restart(s)
    PROVE  TypeOK'
<1>1. ClientTypes /\ WireTypes /\ ServerTypes /\ ClusterTypes  BY TypeParts
<1>2. UNCHANGED clientVars /\ UNCHANGED clusterVars
  BY DEF StepDown, BecomeLeader, HearLeader, Restart
<1>3. ASSUME StepDown(s) \/ HearLeader(s) PROVE WireTypes' /\ ServerTypes'
  <2>1. UNCHANGED wireVars  BY <1>3 DEF StepDown, HearLeader
  <2>2. CASE StepDown(s)
    <3>1. ServerTypes'  BY <1>1, <2>2 DEF StepDown, ServerTypes
    <3> QED  BY <1>1, <2>1, <3>1, SameTypes
  <2>3. CASE HearLeader(s)
    <3>1. PICK k \in heard[s] + 1 .. Len(led) : heard' = [heard EXCEPT ![s] = k]
      BY <2>3 DEF HearLeader
    <3>2. led \in Seq(Server) /\ heard[s] \in 0 .. Len(led)
      BY <1>1 DEF ServerTypes
    <3>3. k \in 0 .. Len(led)  BY <3>1, <3>2
    <3>4. UNCHANGED <<role, led, serving, restarts>>  BY <2>3 DEF HearLeader
    <3>5. ServerTypes'  BY <1>1, <3>1, <3>3, <3>4 DEF ServerTypes
    <3> QED  BY <1>1, <2>1, <3>5, SameTypes
  <2> QED  BY <1>3, <2>2, <2>3
<1>4. ASSUME BecomeLeader(s) PROVE WireTypes' /\ ServerTypes'
  <2> DEFINE m == [type |-> "LEADER_CHANGE", leader |-> s]
  <2>1. /\ role' = [role EXCEPT ![s] = "Leader"] /\ led' = Append(led, s)
        /\ heard' = [heard EXCEPT ![s] = Len(led) + 1]
        /\ rsps' = [rsps EXCEPT ![s] = [c \in Client |->
                        IF link[c][s] THEN Append(rsps[s][c], m)
                        ELSE rsps[s][c]]]
        /\ UNCHANGED <<link, reqs, serving, restarts>>
    BY <1>4 DEF BecomeLeader
  <2>2. m \in Message  BY DEF Message, LeaderChange
  <2> HIDE DEF m
  <2>3. \A c \in Client : rsps[s][c] \in Seq(Message)
                          /\ Append(rsps[s][c], m) \in Seq(Message)
    BY <1>1, <2>2, SeqTypes DEF WireTypes
  <2>4. WireTypes'  BY <1>1, <2>1, <2>3 DEF WireTypes
  <2>5. led \in Seq(Server) /\ led' \in Seq(Server) /\ Len(led') = Len(led) + 1
        /\ Len(led) \in Nat
    BY <1>1, <2>1 DEF ServerTypes
  <2>6. \A q \in Server : heard'[q] \in 0 .. Len(led')
    BY <1>1, <2>1, <2>5 DEF ServerTypes
  <2>7. ServerTypes'  BY <1>1, <2>1, <2>5, <2>6 DEF ServerTypes
  <2> QED  BY <2>4, <2>7
<1>5. ASSUME Restart(s) PROVE WireTypes' /\ ServerTypes'
  <2>1. /\ restarts < MaxRestarts /\ restarts' = restarts + 1
        /\ role' = [role EXCEPT ![s] = "Follower"]
        /\ heard' = [heard EXCEPT ![s] = 0]
        /\ serving' = [serving EXCEPT ![s] = None]
        /\ link' = [c \in Client |-> [link[c] EXCEPT ![s] = FALSE]]
        /\ reqs' = [c \in Client |-> [reqs[c] EXCEPT ![s] = <<>>]]
        /\ led' = led
    BY <1>5 DEF Restart
  <2>2. restarts' \in 0 .. MaxRestarts
    BY <1>1, <2>1, BoundAssumption DEF ServerTypes
  <2>3. 0 \in 0 .. Len(led)  BY <1>1 DEF ServerTypes
  <2>4. ServerTypes'  BY <1>1, <2>1, <2>2, <2>3 DEF ServerTypes
  <2>5. PICK kept \in [Client -> Seq(Message)] : rsps' = [rsps EXCEPT ![s] = kept]
    BY <1>5, RestartKeeps
  <2>6. WireTypes'
    <3>1. rsps' \in [Server -> [Client -> Seq(Message)]]
      BY <1>1, <2>5 DEF WireTypes
    <3>2. <<>> \in Seq(Request)  OBVIOUS
    <3> QED  BY <1>1, <2>1, <3>1, <3>2 DEF WireTypes
  <2> QED  BY <2>4, <2>6
<1> QED  BY <1>1, <1>2, <1>3, <1>4, <1>5, SameTypes, TypePartsNext

LEMMA TypeInit == Init => TypeOK
<1> SUFFICES ASSUME Init PROVE TypeOK
  OBVIOUS
<1>1. ClientTypes
  BY LeaderAssumption, BoundAssumption DEF Init, ClientTypes
<1>2. WireTypes  BY DEF Init, WireTypes
<1>3. ServerTypes  BY BoundAssumption DEF Init, ServerTypes
<1>4. ClusterTypes  BY DEF Init, ClusterTypes
<1> QED  BY <1>1, <1>2, <1>3, <1>4, TypeParts

LEMMA TypeStep == TypeOK /\ IsFiniteSet(Taken) /\ [Next]_vars => TypeOK'
<1> SUFFICES ASSUME TypeOK, IsFiniteSet(Taken), [Next]_vars PROVE TypeOK'
  OBVIOUS
<1>1. CASE UNCHANGED vars
  BY <1>1, TypeParts, TypePartsNext, SameTypes DEF vars
<1>2. CASE Next
  BY <1>2, TypeType, TypeClient, TypeReceive, TypeRequest, TypeFinish, TypeServer
  DEF Next
<1> QED  BY <1>1, <1>2

-----------------------------------------------------------------------------
(* Requests.                                                               *)

RequestsStay == UNCHANGED <<reqs, typed, answer, serving, ledger>>

LEMMA RequestsSame ==
    ASSUME RequestInv, RequestsStay
    PROVE  RequestInv'
<1> USE DEF RequestInv, RequestsStay
<1>1. ReqsOwn'  BY DEF ReqsOwn
<1>2. ReqsOnce'  BY DEF ReqsOnce
<1>3. ServesTaken' /\ ServesApart'  BY DEF ServesTaken, ServesApart
<1>4. LedgerOnce'  BY DEF LedgerOnce, IsInjective, Taken
<1>5. TakenTyped'  BY DEF TakenTyped
<1> QED  BY <1>1, <1>2, <1>3, <1>4, <1>5

\* A stream loses requests at its head, or all of them.
FewerReqs(c, s) ==
    \E d \in Nat : \A k \in DOMAIN reqs'[c][s] :
        k + d \in DOMAIN reqs[c][s] /\ reqs'[c][s][k] = reqs[c][s][k + d]

LEMMA ReqsTypes ==
    ASSUME TypeOK, NEW c \in Client, NEW s \in Server
    PROVE  /\ DOMAIN reqs[c][s] \subseteq Nat
           /\ \A k \in DOMAIN reqs[c][s] : /\ reqs[c][s][k] \in Request
                                           /\ reqs[c][s][k].nr \in Nat
                                           /\ reqs[c][s][k].client \in Client
<1>1. reqs[c][s] \in Seq(Request)  BY TypeParts DEF WireTypes
<1>2. \A k \in DOMAIN reqs[c][s] : reqs[c][s][k] \in Request  BY <1>1
<1>3. \A r \in Request : r.nr \in Nat /\ r.client \in Client
  BY BoundAssumption DEF Request
<1> QED  BY <1>1, <1>2, <1>3

LEMMA ReqsFewer ==
    ASSUME TypeOK, TypeOK', ReqsOwn, ReqsOnce, typed' = typed,
           \A c \in Client, s \in Server : FewerReqs(c, s)
    PROVE  /\ ReqsOnce'
           /\ (\A c \in Client, s \in Server : \A k \in DOMAIN reqs'[c][s] :
                    answer'[reqs'[c][s][k]] = answer[reqs'[c][s][k]])
                => ReqsOwn'
<1>1. \A c \in Client, s \in Server : DOMAIN reqs'[c][s] \subseteq Nat
  BY TypePartsNext DEF WireTypes
<1>2. ASSUME NEW c \in Client, NEW s \in Server, NEW t \in Server,
             NEW k \in DOMAIN reqs'[c][s], NEW l \in DOMAIN reqs'[c][t],
             reqs'[c][s][k] = reqs'[c][t][l]
      PROVE  s = t /\ k = l
  <2>1. PICK d \in Nat : \A i \in DOMAIN reqs'[c][s] :
            i + d \in DOMAIN reqs[c][s] /\ reqs'[c][s][i] = reqs[c][s][i + d]
    BY DEF FewerReqs
  <2>2. PICK e \in Nat : \A i \in DOMAIN reqs'[c][t] :
            i + e \in DOMAIN reqs[c][t] /\ reqs'[c][t][i] = reqs[c][t][i + e]
    BY DEF FewerReqs
  <2>3. s = t  BY <1>2, <2>1, <2>2 DEF ReqsOnce
  <2>4. l + d \in DOMAIN reqs[c][s] /\ reqs[c][s][k + d] = reqs[c][s][l + d]
    BY <1>2, <2>1, <2>3
  <2>5. k + d = l + d  BY <2>1, <2>4 DEF ReqsOnce
  <2>6. k \in Nat /\ l \in Nat  BY <1>1
  <2> QED  BY <2>3, <2>5, <2>6
<1>3. ReqsOnce'  BY <1>2 DEF ReqsOnce
<1>4. ASSUME \A c \in Client, s \in Server : \A k \in DOMAIN reqs'[c][s] :
                answer'[reqs'[c][s][k]] = answer[reqs'[c][s][k]]
      PROVE  ReqsOwn'
  BY <1>4 DEF ReqsOwn, FewerReqs
<1> QED  BY <1>3, <1>4

LEMMA PopFewer ==
    ASSUME TypeOK, NEW c \in Client, NEW s \in Server, reqs[c][s] # <<>>,
           reqs' = PopRequest(c, s)
    PROVE  /\ \A d \in Client, t \in Server : FewerReqs(d, t)
           /\ Head(reqs[c][s]) = reqs[c][s][1] /\ 1 \in DOMAIN reqs[c][s]
           /\ Head(reqs[c][s]) \in Request
           /\ \A k \in DOMAIN reqs'[c][s] :
                /\ k + 1 \in DOMAIN reqs[c][s] /\ k + 1 # 1
                /\ reqs'[c][s][k] = reqs[c][s][k + 1]
           /\ \A d \in Client, t \in Server :
                d # c \/ t # s => reqs'[d][t] = reqs[d][t]
<1>1. /\ reqs' = [reqs EXCEPT ![c][s] = Tail(reqs[c][s])]
      /\ reqs \in [Client -> [Server -> Seq(Request)]]
  BY TypeParts DEF PopRequest, WireTypes
<1>2. /\ reqs'[c][s] = Tail(reqs[c][s])
      /\ \A d \in Client, t \in Server :
                d # c \/ t # s => reqs'[d][t] = reqs[d][t]
  BY <1>1
<1>3. reqs[c][s] \in Seq(Request)  BY <1>1
<1>4. /\ Head(reqs[c][s]) = reqs[c][s][1] /\ 1 \in DOMAIN reqs[c][s]
      /\ Head(reqs[c][s]) \in Request
      /\ \A k \in DOMAIN Tail(reqs[c][s]) :
            /\ k + 1 \in DOMAIN reqs[c][s] /\ k + 1 # 1
            /\ Tail(reqs[c][s])[k] = reqs[c][s][k + 1]
  BY <1>3
<1>5. FewerReqs(c, s)  BY <1>2, <1>4 DEF FewerReqs
<1>6. ASSUME NEW d \in Client, NEW t \in Server, d # c \/ t # s
      PROVE  FewerReqs(d, t)
  <2>1. \A k \in DOMAIN reqs[d][t] : k + 0 = k  BY ReqsTypes
  <2> QED  BY <1>2, <1>6, <2>1 DEF FewerReqs
<1> QED  BY <1>2, <1>4, <1>5, <1>6

LEMMA RequestsType ==
    ASSUME TypeOK, TypeOK', RequestInv, NEW c \in Client, Type(c)
    PROVE  RequestInv'
<1> USE DEF RequestInv
<1>1. PICK kind \in Kinds : Type(c)!(kind)  BY DEF Type
<1> DEFINE r == [client |-> c, nr |-> typed[c] + 1, kind |-> kind]
           g == leaderId[c]
<1>2. /\ Send(c, r) /\ typed' = [typed EXCEPT ![c] = typed[c] + 1]
      /\ UNCHANGED <<serving, answer, ledger>>
  BY <1>1 DEF serverVars, clusterVars
<1>3. r.client = c /\ r.nr = typed[c] + 1 /\ g \in Server /\ typed[c] \in Nat
  BY TypeParts DEF ClientTypes
<1>4. typed' = [typed EXCEPT ![c] = typed[c] + 1]
      /\ \A d \in Client : typed[d] \in Nat /\ typed[d] <= typed'[d]
      /\ typed'[c] = typed[c] + 1
  BY <1>2, TypeParts DEF ClientTypes
<1>5. r \in Request /\ answer[r] = "unsent"
  <2>1. r \in Request
    <3>1. typed[c] \in 0 .. MaxCommands /\ typed[c] < MaxCommands
      BY <1>1, TypeParts DEF ClientTypes
    <3> QED  BY <3>1, BoundAssumption DEF Request
  <2> HIDE DEF r
  <2>2. ~(r.nr <= typed[r.client])  BY <1>3
  <2> QED  BY <2>1, <2>2 DEF TakenTyped
<1> HIDE DEF r, g
<1>6. TakenTyped'
  <2>1. \A q \in Request : q.nr \in Nat /\ q.client \in Client
    BY BoundAssumption DEF Request
  <2> QED  BY <1>2, <1>4, <2>1 DEF TakenTyped
<1>7. CASE reqs' = reqs
  <2>1. ReqsOwn'
    <3>1. \A d \in Client, s \in Server : \A k \in DOMAIN reqs[d][s] :
            reqs[d][s][k].nr \in Nat
      BY ReqsTypes
    <3> QED  BY <1>2, <1>4, <1>7, <3>1 DEF ReqsOwn
  <2>2. ReqsOnce'  BY <1>7 DEF ReqsOnce
  <2>3. LedgerOnce'  BY <1>2 DEF LedgerOnce, IsInjective, Taken
  <2>4. ServesTaken' /\ ServesApart'  BY <1>2 DEF ServesTaken, ServesApart
  <2> QED  BY <1>6, <2>1, <2>2, <2>3, <2>4
<1>8. CASE reqs' = [reqs EXCEPT ![c][g] = Append(reqs[c][g], r)]
  <2>1. reqs \in [Client -> [Server -> Seq(Request)]]
    BY TypeParts DEF WireTypes
  <2> DEFINE old == reqs[c][g]
             n == Len(old) + 1
  <2>2. /\ reqs'[c][g] = Append(old, r)
        /\ \A d \in Client, s \in Server :
                d # c \/ s # g => reqs'[d][s] = reqs[d][s]
    BY <1>3, <1>8, <2>1
  <2>3. old \in Seq(Request)  BY <1>3, <2>1
  <2>4. /\ DOMAIN Append(old, r) = DOMAIN old \cup {n} /\ n \notin DOMAIN old
        /\ Append(old, r)[n] = r
        /\ \A k \in DOMAIN old : Append(old, r)[k] = old[k]
    <3> HIDE DEF old
    <3> QED  BY <2>3
  <2>5. ASSUME NEW d \in Client, NEW s \in Server, NEW k \in DOMAIN reqs'[d][s]
        PROVE  \/ k \in DOMAIN reqs[d][s] /\ reqs'[d][s][k] = reqs[d][s][k]
               \/ d = c /\ s = g /\ k = n /\ reqs'[d][s][k] = r
    BY <2>2, <2>4
  <2>6. \A d \in Client, s \in Server : \A k \in DOMAIN reqs[d][s] :
            /\ reqs[d][s][k].nr \in Nat
            /\ reqs[d][s][k].client = d /\ reqs[d][s][k].nr <= typed[d]
            /\ answer[reqs[d][s][k]] = "unsent" /\ reqs[d][s][k] # r
    <3>1. \A d \in Client, s \in Server : \A k \in DOMAIN reqs[d][s] :
            reqs[d][s][k].nr \in Nat
      BY ReqsTypes
    <3>2. ASSUME NEW d \in Client, NEW s \in Server, NEW k \in DOMAIN reqs[d][s]
          PROVE  reqs[d][s][k] # r
      <4>1. reqs[d][s][k].client = d /\ reqs[d][s][k].nr <= typed[d]
        BY DEF ReqsOwn
      <4>2. r.client # d \/ r.nr # reqs[d][s][k].nr
        BY <1>3, <3>1, <4>1
      <4> QED  BY <4>1, <4>2
    <3> QED  BY <3>1, <3>2 DEF ReqsOwn
  <2> HIDE DEF n, old
  <2>8. ReqsOwn'  BY <1>2, <1>3, <1>4, <1>5, <2>5, <2>6 DEF ReqsOwn
  <2>9. ReqsOnce'  BY <2>5, <2>6 DEF ReqsOnce
  <2>10. LedgerOnce'  BY <1>2 DEF LedgerOnce, IsInjective, Taken
  <2>11. ServesTaken' /\ ServesApart'  BY <1>2 DEF ServesTaken, ServesApart
  <2> QED  BY <1>6, <2>8, <2>9, <2>10, <2>11
<1> QED  BY <1>2, <1>7, <1>8 DEF Send, g

LEMMA RequestsTake ==
    ASSUME TypeOK, TypeOK', RequestInv, NEW c \in Client, NEW s \in Server,
           TakeRequest(s, c)
    PROVE  /\ RequestInv' /\ serving'[s] \in Request
           /\ answer[serving'[s]] = "unsent"
           /\ answer' = [answer EXCEPT ![serving'[s]] = "taken"]
<1> USE DEF RequestInv
<1> DEFINE r == Head(reqs[c][s])
<1>1. /\ reqs[c][s] # <<>> /\ reqs' = PopRequest(c, s)
      /\ serving' = [serving EXCEPT ![s] = r]
      /\ answer' = [answer EXCEPT ![r] = "taken"]
      /\ UNCHANGED <<typed, ledger>>
  BY DEF TakeRequest, clientVars
<1>2. /\ \A d \in Client, t \in Server : FewerReqs(d, t)
      /\ r = reqs[c][s][1] /\ 1 \in DOMAIN reqs[c][s] /\ r \in Request
      /\ \A k \in DOMAIN reqs'[c][s] :
            /\ k + 1 \in DOMAIN reqs[c][s] /\ k + 1 # 1
            /\ reqs'[c][s][k] = reqs[c][s][k + 1]
      /\ \A d \in Client, t \in Server :
            d # c \/ t # s => reqs'[d][t] = reqs[d][t]
  BY <1>1, PopFewer
<1> HIDE DEF r
<1>3. /\ answer[r] = "unsent" /\ r.client = c /\ r.nr <= typed[c]
  BY <1>2 DEF ReqsOwn
<1>4. \A q \in Request : answer'[q] = IF q = r THEN "taken" ELSE answer[q]
  BY <1>1, TypeParts DEF ClusterTypes
<1>5. \A t \in Server : serving'[t] = IF t = s THEN r ELSE serving[t]
  BY <1>1, TypeParts DEF ServerTypes
<1>6. ASSUME NEW d \in Client, NEW t \in Server, NEW k \in DOMAIN reqs'[d][t]
      PROVE  answer'[reqs'[d][t][k]] = answer[reqs'[d][t][k]]
  <2>1. reqs'[d][t][k] # r
    <3>1. CASE d = c /\ t = s  BY <1>2, <3>1 DEF ReqsOnce
    <3>2. CASE d = c /\ t # s
      <4>1. k \in DOMAIN reqs[d][t] /\ reqs'[d][t][k] = reqs[d][t][k]
        BY <1>2, <3>2
      <4> QED  BY <1>2, <3>2, <4>1 DEF ReqsOnce
    <3>3. CASE d # c
      <4>1. k \in DOMAIN reqs[d][t] /\ reqs'[d][t][k] = reqs[d][t][k]
        BY <1>2, <3>3
      <4> QED  BY <1>3, <3>3, <4>1 DEF ReqsOwn
    <3> QED  BY <3>1, <3>2, <3>3
  <2>2. reqs'[d][t] \in Seq(Request)  BY TypePartsNext DEF WireTypes
  <2>3. reqs'[d][t][k] \in Request  BY <2>2
  <2> QED  BY <1>4, <2>1, <2>3
<1>7. ReqsOwn' /\ ReqsOnce'  BY <1>1, <1>2, <1>6, ReqsFewer
<1>8. TakenTyped'  BY <1>1, <1>3, <1>4 DEF TakenTyped
<1>9. \A t \in Server : serving[t] # None =>
            serving[t] \in Request /\ serving[t] # r
  BY <1>3, TypeParts DEF ServesTaken, ServerTypes
<1>10. ServesTaken'  BY <1>2, <1>4, <1>5, <1>9 DEF ServesTaken
<1>11. ServesApart'  BY <1>5, <1>9 DEF ServesApart
<1>12. LedgerOnce'
  <2>1. Taken' = Taken \cup {r}  BY <1>2, <1>4 DEF Taken
  <2>2. IsFiniteSet(Taken \cup {r})  BY FS_AddElement DEF LedgerOnce
  <2> QED  BY <1>1, <2>1, <2>2 DEF LedgerOnce, IsInjective
<1> QED  BY <1>1, <1>2, <1>3, <1>5, <1>7, <1>8, <1>10, <1>11, <1>12

\* Leaders that stop waiting without a word, and streams that are cut.
LEMMA RequestsDropped ==
    ASSUME TypeOK, TypeOK', RequestInv, UNCHANGED <<typed, answer, ledger>>,
           \A c \in Client, s \in Server : FewerReqs(c, s),
           \A s \in Server : serving'[s] \in {serving[s], None}
    PROVE  RequestInv'
<1> USE DEF RequestInv
<1>1. ReqsOwn' /\ ReqsOnce'  BY ReqsFewer
<1>2. TakenTyped'  BY DEF TakenTyped
<1>3. ServesTaken'  BY DEF ServesTaken
<1>4. ServesApart'  BY DEF ServesApart
<1>5. LedgerOnce'  BY DEF LedgerOnce, IsInjective, Taken
<1> QED  BY <1>1, <1>2, <1>3, <1>4, <1>5

LEMMA SameReqs ==
    ASSUME TypeOK, NEW c \in Client, NEW s \in Server,
           reqs'[c][s] = reqs[c][s] \/ reqs'[c][s] = <<>>
    PROVE  FewerReqs(c, s)
<1>1. \A k \in DOMAIN reqs[c][s] : k + 0 = k  BY ReqsTypes
<1>2. \A k \in DOMAIN reqs'[c][s] :
            k \in DOMAIN reqs[c][s] /\ reqs'[c][s][k] = reqs[c][s][k]
  OBVIOUS
<1>3. \A k \in DOMAIN reqs'[c][s] :
        k + 0 \in DOMAIN reqs[c][s] /\ reqs'[c][s][k] = reqs[c][s][k + 0]
  BY <1>1, <1>2
<1>4. 0 \in Nat  OBVIOUS
<1> QED  BY ONLY <1>3, <1>4 DEF FewerReqs

LEMMA RequestsServers ==
    ASSUME TypeOK, TypeOK', RequestInv, NEW s \in Server,
           StepDown(s) \/ Restart(s)
    PROVE  RequestInv'
<1>1. CASE StepDown(s)
  <2>1. /\ UNCHANGED <<typed, answer, ledger, reqs>>
        /\ serving' = [serving EXCEPT ![s] = None]
    BY <1>1 DEF StepDown, clientVars, wireVars, clusterVars
  <2>2. \A t \in Server : serving'[t] \in {serving[t], None}
    BY <2>1, TypeParts DEF ServerTypes
  <2> QED  BY <2>1, <2>2, SameReqs, RequestsDropped
<1>2. CASE Restart(s)
  <2>1. /\ UNCHANGED <<typed, answer, ledger>>
        /\ serving' = [serving EXCEPT ![s] = None]
        /\ reqs' = [d \in Client |-> [reqs[d] EXCEPT ![s] = <<>>]]
    BY <1>2 DEF Restart, clientVars, clusterVars
  <2>2. \A t \in Server : serving'[t] \in {serving[t], None}
    BY <2>1, TypeParts DEF ServerTypes
  <2>3. \A d \in Client, t \in Server :
            reqs'[d][t] = reqs[d][t] \/ reqs'[d][t] = <<>>
    BY <2>1, TypeParts DEF WireTypes
  <2> QED  BY <2>1, <2>2, <2>3, SameReqs, RequestsDropped
<1> QED  BY <1>1, <1>2

LEMMA RequestsRedirect ==
    ASSUME TypeOK, TypeOK', RequestInv, NEW s \in Server, NEW c \in Client,
           Redirect(s, c)
    PROVE  RequestInv'
<1>1. /\ UNCHANGED <<typed, answer, ledger, serving>>
      /\ reqs[c][s] # <<>> /\ reqs' = PopRequest(c, s)
  BY DEF Redirect, clientVars, serverVars, clusterVars
<1> QED  BY <1>1, PopFewer, RequestsDropped

\* What a commit adds to the ledger are requests that were taken and not yet
\* executed, once each.
LEMMA LedgerAfter ==
    ASSUME TypeOK, RequestInv, NEW s \in Server, Commit(s)
    PROVE  /\ serving[s] \in Request /\ answer[serving[s]] = "taken"
           /\ ledger \in Seq(Request) /\ ledger' \in Seq(Request)
           /\ IsInjective(ledger') /\ IsPrefix(ledger, ledger')
           /\ Range(ledger) \subseteq Range(ledger')
           /\ Range(ledger') \subseteq Range(ledger) \cup Taken
           /\ serving[s] \in Range(ledger')
<1> USE DEF RequestInv
<1> DEFINE r == serving[s]
<1>1. /\ r \in Request /\ answer[r] = "taken" /\ r \in Taken
  <2>1. r \in Request /\ r # None
    BY CommitShape, NoneAssumption DEF LedgerOnce
  <2> QED  BY <2>1 DEF ServesTaken, Taken
<1>2. ledger \in Seq(Request) /\ IsInjective(ledger)
  BY TypeParts DEF ClusterTypes, LedgerOnce
<1>3. CASE r \in Range(ledger) /\ ledger' = ledger
  <2>1. IsPrefix(ledger, ledger)  BY <1>2 DEF IsPrefix
  <2> QED  BY <1>1, <1>2, <1>3, <2>1
<1>4. ASSUME r \notin Range(ledger), NEW before \in Seq(Pending \ {r}),
             IsInjective(before), ledger' = ledger \o (before \o <<r>>)
      PROVE  /\ ledger' \in Seq(Request) /\ IsInjective(ledger')
             /\ IsPrefix(ledger, ledger') /\ Range(ledger) \subseteq Range(ledger')
             /\ Range(ledger') \subseteq Range(ledger) \cup Taken
             /\ r \in Range(ledger')
  <2> DEFINE n == Len(ledger)
             m == Len(before)
             all == ledger \o (before \o <<r>>)
  <2>1. \A k \in 1 .. m : /\ before[k] \in Request /\ before[k] \in Taken
                          /\ before[k] \notin Range(ledger) /\ before[k] # r
    <3>1. \A k \in 1 .. m : before[k] \in Pending \ {r}  BY <1>4
    <3> QED  BY <3>1 DEF Pending, Taken
  <2>2. before \in Seq(Request) /\ m \in Nat /\ n \in Nat /\ DOMAIN before = 1 .. m
        /\ DOMAIN ledger = 1 .. n
    BY <1>2, <1>4 DEF Pending
  <2>3. /\ before \o <<r>> \in Seq(Request) /\ Len(before \o <<r>>) = m + 1
        /\ \A k \in 1 .. m : (before \o <<r>>)[k] = before[k]
        /\ (before \o <<r>>)[m + 1] = r
    <3> HIDE DEF r
    <3> QED  BY <1>1, <2>2
  <2>4. /\ all \in Seq(Request) /\ DOMAIN all = 1 .. n + m + 1 /\ Len(all) = n + m + 1
        /\ \A k \in 1 .. n : all[k] = ledger[k]
        /\ \A k \in 1 .. m : all[n + k] = before[k]
        /\ all[n + m + 1] = r
    <3> DEFINE rest == before \o <<r>>
    <3>1. rest \in Seq(Request) /\ Len(rest) = m + 1
          /\ (\A k \in 1 .. m : rest[k] = before[k]) /\ rest[m + 1] = r
      BY <2>3
    <3> HIDE DEF rest, r, m
    <3>2. /\ ledger \o rest \in Seq(Request) /\ Len(ledger \o rest) = n + (m + 1)
          /\ \A k \in 1 .. n : (ledger \o rest)[k] = ledger[k]
          /\ \A k \in 1 .. m + 1 : (ledger \o rest)[n + k] = rest[k]
      BY ONLY <1>2, <2>2, <3>1
    <3>3. \A k \in 1 .. m : (ledger \o rest)[n + k] = before[k]
      BY <2>2, <3>1, <3>2
    <3>4. (ledger \o rest)[n + (m + 1)] = r  BY <2>2, <3>1, <3>2
    <3>5. n + (m + 1) = n + m + 1  BY <2>2
    <3> HIDE DEF n
    <3>6. DOMAIN (ledger \o rest) = 1 .. n + m + 1  BY <3>2, <3>5
    <3>7. all = ledger \o rest  BY DEF rest
    <3> HIDE DEF all
    <3> QED  BY <3>2, <3>3, <3>4, <3>5, <3>6, <3>7
  <2>5. \A k \in 1 .. n + m + 1 :
            \/ k \in 1 .. n /\ all[k] = ledger[k]
            \/ /\ k - n \in 1 .. m /\ all[k] = before[k - n]
            \/ k = n + m + 1 /\ all[k] = r
    <3> SUFFICES ASSUME NEW k \in 1 .. n + m + 1
                 PROVE  \/ k \in 1 .. n /\ all[k] = ledger[k]
                        \/ k - n \in 1 .. m /\ all[k] = before[k - n]
                        \/ k = n + m + 1 /\ all[k] = r
      OBVIOUS
    <3> HIDE DEF all, n, m, r
    <3>1. k \in 1 .. n \/ (k - n \in 1 .. m /\ n + (k - n) = k) \/ k = n + m + 1
      BY <2>2
    <3> QED  BY <2>4, <3>1
  <2> HIDE DEF all
  <2>6. Range(all) \subseteq Range(ledger) \cup Taken
    <3> SUFFICES ASSUME NEW k \in 1 .. n + m + 1
                 PROVE  all[k] \in Range(ledger) \cup Taken
      BY <2>4 DEF Range
    <3>1. k \in 1 .. n => ledger[k] \in Range(ledger)  BY <2>2 DEF Range
    <3> QED  BY <1>1, <2>1, <2>5, <3>1
  <2>7. IsInjective(all)
    <3> SUFFICES ASSUME NEW k \in 1 .. n + m + 1, NEW l \in 1 .. n + m + 1,
                        all[k] = all[l]
                 PROVE  k = l
      BY <2>4 DEF IsInjective
    <3>1. \A i \in 1 .. n : ledger[i] \in Range(ledger)  BY <2>2 DEF Range
    <3>2. CASE k \in 1 .. n /\ all[k] = ledger[k]
      <4>1. l \in 1 .. n /\ all[l] = ledger[l]
        BY <1>4, <2>1, <2>5, <3>1, <3>2
      <4> QED  BY <1>2, <2>2, <3>2, <4>1 DEF IsInjective
    <3>3. CASE k - n \in 1 .. m /\ all[k] = before[k - n]
      <4>1. l - n \in 1 .. m /\ all[l] = before[l - n]
        BY <2>1, <2>5, <3>1, <3>3
      <4>2. k - n = l - n  BY <1>4, <2>2, <3>3, <4>1 DEF IsInjective
      <4> HIDE DEF n, m
      <4> QED  BY <2>2, <4>2
    <3>4. CASE k = n + m + 1 /\ all[k] = r
      <4>1. l = n + m + 1  BY <1>4, <2>1, <2>5, <3>1, <3>4
      <4> QED  BY <3>4, <4>1
    <3> QED  BY <2>5, <3>2, <3>3, <3>4
  <2>8. Range(ledger) \subseteq Range(all) /\ r \in Range(all)
    <3>1. \A k \in 1 .. n : k \in DOMAIN all /\ all[k] = ledger[k]
      <4> HIDE DEF n, m
      <4> QED  BY <2>2, <2>4
    <3>2. n + m + 1 \in DOMAIN all
      <4> HIDE DEF n, m
      <4> QED  BY <2>2, <2>4
    <3> QED  BY <2>2, <2>4, <3>1, <3>2 DEF Range
  <2>9. IsPrefix(ledger, all)
    <3> DEFINE p == SubSeq(all, 1, n)
    <3>1. /\ p \in Seq(Request) /\ Len(p) = n /\ n <= Len(all)
          /\ \A k \in 1 .. n : p[k] = ledger[k]
      <4> HIDE DEF n, m
      <4> QED  BY <2>2, <2>4 DEF p
    <3>2. SubSeq(ledger, 1, n) = ledger  BY <1>2
    <3> HIDE DEF p
    <3>3. p = ledger  BY <1>2, <3>1, SeqEqual
    <3> QED  BY <3>1, <3>2, <3>3 DEF IsPrefix, p
  <2>10. ledger' = all  BY <1>4 DEF all
  <2> QED  BY <2>4, <2>6, <2>7, <2>8, <2>9, <2>10
<1>5. \/ r \in Range(ledger) /\ ledger' = ledger
      \/ /\ r \notin Range(ledger)
         /\ \E before \in Seq(Pending \ {r}) :
                IsInjective(before) /\ ledger' = ledger \o (before \o <<r>>)
  BY CommitShape DEF LedgerOnce
<1> QED  BY <1>1, <1>2, <1>3, <1>4, <1>5

\* A leader answers the request it waits on.
LEMMA FinishShape ==
    ASSUME TypeOK, RequestInv, NEW s \in Server, Commit(s) \/ GiveUp(s)
    PROVE  /\ serving[s] \in Request /\ answer[serving[s]] = "taken"
           /\ serving[s].client \in Client
           /\ \E ok \in BOOLEAN :
                /\ answer' = [answer EXCEPT ![serving[s]] =
                                IF ok THEN "succeed" ELSE "failed"]
                /\ Respond(s, serving[s].client,
                     [type |-> "RESPONSE", req |-> serving[s], succeed |-> ok])
                /\ ok => serving[s] \in Range(ledger')
           /\ serving' = [serving EXCEPT ![s] = None]
           /\ UNCHANGED clientVars /\ UNCHANGED <<link, reqs>>
           /\ IsInjective(ledger') /\ Range(ledger) \subseteq Range(ledger')
<1>1. serving[s] \in Request /\ answer[serving[s]] = "taken"
      /\ serving[s].client \in Client
  <2>1. serving[s] # None  BY DEF Commit, GiveUp
  <2>2. serving[s] \in Request  BY <2>1, TypeParts DEF ServerTypes
  <2> QED  BY <2>1, <2>2 DEF RequestInv, ServesTaken, Request
<1>2. ASSUME NEW ok \in BOOLEAN, Finish(s, ok)
      PROVE  /\ answer' = [answer EXCEPT ![serving[s]] =
                                IF ok THEN "succeed" ELSE "failed"]
             /\ Respond(s, serving[s].client,
                  [type |-> "RESPONSE", req |-> serving[s], succeed |-> ok])
             /\ serving' = [serving EXCEPT ![s] = None]
             /\ UNCHANGED clientVars /\ UNCHANGED <<link, reqs>>
  BY <1>2 DEF Finish
<1>3. CASE Commit(s)
  <2>1. Finish(s, TRUE)  BY <1>3, Zenon DEF Commit
  <2> QED  BY <1>1, <1>2, <1>3, <2>1, LedgerAfter
<1>4. CASE GiveUp(s)
  <2>1. Finish(s, FALSE) /\ ledger' = ledger  BY <1>4, Zenon DEF GiveUp
  <2> QED  BY <1>1, <1>2, <2>1 DEF RequestInv, LedgerOnce
<1> QED  BY <1>3, <1>4

LEMMA RequestsFinish ==
    ASSUME TypeOK, TypeOK', RequestInv, NEW s \in Server, Commit(s) \/ GiveUp(s)
    PROVE  RequestInv'
<1> USE DEF RequestInv
<1> DEFINE r == serving[s]
<1>1. /\ r \in Request /\ answer[r] = "taken" /\ UNCHANGED <<reqs, typed>>
      /\ serving' = [serving EXCEPT ![s] = None] /\ IsInjective(ledger')
      /\ \E a \in {"succeed", "failed"} : answer' = [answer EXCEPT ![r] = a]
  BY FinishShape DEF clientVars
<1> HIDE DEF r
<1>2. PICK a \in {"succeed", "failed"} : answer' = [answer EXCEPT ![r] = a]
  BY <1>1
<1>3. \A q \in Request : answer'[q] = IF q = r THEN a ELSE answer[q]
  BY <1>2, TypeParts DEF ClusterTypes
<1>4. ReqsOwn'
  <2>1. \A c \in Client, t \in Server : \A k \in DOMAIN reqs[c][t] :
            reqs[c][t][k] \in Request /\ reqs[c][t][k] # r
    BY <1>1, ReqsTypes DEF ReqsOwn
  <2> QED  BY <1>1, <1>3, <2>1 DEF ReqsOwn
<1>5. ReqsOnce'  BY <1>1 DEF ReqsOnce
<1>6. TakenTyped'  BY <1>1, <1>3 DEF TakenTyped
<1>7. \A t \in Server : serving'[t] = IF t = s THEN None ELSE serving[t]
  BY <1>1, TypeParts DEF ServerTypes
<1>8. ServesTaken'
  <2>1. \A t \in Server : t # s /\ serving[t] # None =>
            serving[t] \in Request /\ serving[t] # r
    <3>1. r # None  BY <1>1, NoneAssumption
    <3> QED  BY <3>1, TypeParts DEF ServesApart, ServerTypes, r
  <2> QED  BY <1>3, <1>7, <2>1 DEF ServesTaken
<1>9. ServesApart'  BY <1>7 DEF ServesApart
<1>10. LedgerOnce'
  <2>1. Taken' = Taken
    <3>1. \A q \in Request : answer'[q] # "unsent" <=> answer[q] # "unsent"
      BY <1>1, <1>3
    <3> QED  BY <3>1 DEF Taken
  <2> QED  BY <1>1, <2>1 DEF LedgerOnce
<1> QED  BY <1>4, <1>5, <1>6, <1>8, <1>9, <1>10

LEMMA RequestStep ==
    ASSUME TypeOK, TypeOK', RequestInv, [Next]_vars
    PROVE  RequestInv'
<1>1. CASE UNCHANGED vars
  <2>1. RequestsStay
    BY <1>1 DEF vars, RequestsStay, clientVars, wireVars, serverVars, clusterVars
  <2> QED  BY <2>1, RequestsSame
<1>2. ASSUME NEW c \in Client,
             TakeReply(c) \/ Timeout(c) \/ PrintResponses(c)
      PROVE  RequestsStay
  BY <1>2 DEF TakeReply, Timeout, PrintResponses, RequestsStay, wireVars,
              serverVars, clusterVars
<1>3. ASSUME NEW c \in Client, NEW s \in Server,
             ClientReceive(c, s) \/ ConnectTo(c, s)
      PROVE  RequestsStay
  BY <1>3 DEF ClientReceive, ConnectTo, RequestsStay, clientVars, serverVars,
              clusterVars
<1>4. ASSUME NEW s \in Server, BecomeLeader(s) \/ HearLeader(s)
      PROVE  RequestsStay
  BY <1>4 DEF BecomeLeader, HearLeader, RequestsStay, clientVars, wireVars,
              clusterVars
<1>5. ASSUME NEW c \in Client, Type(c) PROVE RequestInv'
  BY <1>5, RequestsType
<1>6. ASSUME NEW c \in Client, NEW s \in Server,
             Redirect(s, c) \/ TakeRequest(s, c)
      PROVE  RequestInv'
  BY <1>6, RequestsRedirect, RequestsTake
<1>7. ASSUME NEW s \in Server,
             Commit(s) \/ GiveUp(s) \/ StepDown(s) \/ Restart(s)
      PROVE  RequestInv'
  <2>1. CASE Commit(s) \/ GiveUp(s)  BY <2>1, RequestsFinish
  <2>2. CASE StepDown(s) \/ Restart(s)  BY <2>2, RequestsServers
  <2> QED  BY <1>7, <2>1, <2>2
<1>8. CASE RequestsStay  BY <1>8, RequestsSame
<1> QED  BY <1>1, <1>2, <1>3, <1>4, <1>5, <1>6, <1>7, <1>8 DEF Next

-----------------------------------------------------------------------------
(* Answers.                                                                *)

\* An answer, once it is given, stands.
AnswersKept ==
    /\ \A r \in Request :
            answer[r] \in {"succeed", "failed"} => answer'[r] = answer[r]
    /\ Range(ledger) \subseteq Range(ledger')

LEMMA AnswersStand ==
    ASSUME TypeOK, TypeOK', RequestInv, [Next]_vars
    PROVE  AnswersKept
<1>1. CASE UNCHANGED <<answer, ledger>>  BY <1>1 DEF AnswersKept
<1>2. ASSUME NEW c \in Client, NEW s \in Server, TakeRequest(s, c)
      PROVE  AnswersKept
  <2>1. /\ serving'[s] \in Request /\ answer[serving'[s]] = "unsent"
        /\ answer' = [answer EXCEPT ![serving'[s]] = "taken"]
        /\ ledger' = ledger
    BY <1>2, RequestsTake DEF TakeRequest
  <2> QED  BY <2>1, TypeParts DEF AnswersKept, ClusterTypes
<1>3. ASSUME NEW s \in Server, Commit(s) \/ GiveUp(s)
      PROVE  AnswersKept
  <2>1. /\ serving[s] \in Request /\ answer[serving[s]] = "taken"
        /\ \E a : answer' = [answer EXCEPT ![serving[s]] = a]
        /\ Range(ledger) \subseteq Range(ledger')
    BY <1>3, FinishShape
  <2> QED  BY <2>1, TypeParts DEF AnswersKept, ClusterTypes
<1>4. ASSUME NEW c \in Client,
             Type(c) \/ TakeReply(c) \/ Timeout(c) \/ PrintResponses(c)
      PROVE  UNCHANGED <<answer, ledger>>
  BY <1>4 DEF Type, TakeReply, Timeout, PrintResponses, clusterVars
<1>5. ASSUME NEW c \in Client, NEW s \in Server,
             ClientReceive(c, s) \/ ConnectTo(c, s) \/ Redirect(s, c)
      PROVE  UNCHANGED <<answer, ledger>>
  BY <1>5 DEF ClientReceive, ConnectTo, Redirect, clusterVars
<1>6. ASSUME NEW s \in Server,
             StepDown(s) \/ BecomeLeader(s) \/ HearLeader(s) \/ Restart(s)
      PROVE  UNCHANGED <<answer, ledger>>
  BY <1>6 DEF StepDown, BecomeLeader, HearLeader, Restart, clusterVars
<1>7. CASE UNCHANGED vars  BY <1>1, <1>7 DEF vars, clusterVars
<1> QED  BY <1>1, <1>2, <1>3, <1>4, <1>5, <1>6, <1>7 DEF Next

LEMMA ToldStays ==
    ASSUME AnswersKept, NEW c \in Client, NEW m \in Answer,
           Told(c, m, answer, ledger)
    PROVE  Told(c, m, answer', ledger')
<1>1. m.req \in Request  BY DEF Answer
<1>2. answer'[m.req] = answer[m.req]  BY <1>1 DEF AnswersKept, Told
<1> QED  BY <1>2 DEF AnswersKept, Told

LEMMA AnswerTypes ==
    ASSUME TypeOK, NEW c \in Client
    PROVE  /\ \A s \in Server : \A k \in Replies(s, c) :
                k \in Nat /\ rsps[s][c][k] \in Answer
           /\ \A k \in DOMAIN responses[c] : k \in Nat /\ responses[c][k] \in Answer
           /\ \A k \in DOMAIN shown[c] : k \in Nat /\ shown[c][k].got \in Answer
<1>1. ASSUME NEW s \in Server, NEW k \in Replies(s, c)
      PROVE  k \in Nat /\ rsps[s][c][k] \in Answer
  <2>1. rsps[s][c] \in Seq(Message)  BY TypeParts DEF WireTypes
  <2>2. k \in DOMAIN rsps[s][c] /\ rsps[s][c][k].type = "RESPONSE"
    BY DEF Replies
  <2>3. k \in Nat /\ rsps[s][c][k] \in Message  BY <2>1, <2>2
  <2> QED  BY <2>2, <2>3 DEF Message, LeaderChange
<1>2. \A k \in DOMAIN responses[c] : k \in Nat /\ responses[c][k] \in Answer
  <2>1. responses[c] \in Seq(Answer)  BY TypeParts DEF ClientTypes
  <2> QED  BY <2>1
<1>3. shown[c] \in Seq([asked: Request, got: Answer])
  BY TypeParts DEF ClientTypes
<1>4. ASSUME NEW k \in DOMAIN shown[c]
      PROVE  k \in Nat /\ shown[c][k].got \in Answer
  <2>1. k \in Nat /\ shown[c][k] \in [asked: Request, got: Answer]
    BY ONLY <1>3, SeqElements, k \in DOMAIN shown[c]
  <2> QED  BY <2>1
<1> QED  BY ONLY <1>1, <1>2, <1>4

\* Streams and queues that lose answers, and gain none.
FewerReplies(s, c) ==
    \E d \in Nat : \A k \in Replies(s, c)' :
        k + d \in Replies(s, c) /\ rsps'[s][c][k] = rsps[s][c][k + d]
FewerQueued(c) ==
    \E d \in Nat : \A k \in DOMAIN responses'[c] :
        k + d \in DOMAIN responses[c] /\ responses'[c][k] = responses[c][k + d]

LEMMA StreamFewer ==
    ASSUME TypeOK, TypeOK', NEW c \in Client, NEW s \in Server,
           TrueFor(c), OnceFor(c), AnswersKept, FewerReplies(s, c)
    PROVE  /\ StreamOnce(s, c)' /\ OnStream(s, c)' \subseteq OnStream(s, c)
           /\ \A k \in Replies(s, c)' :
                Told(c, rsps'[s][c][k], answer', ledger')
<1>1. PICK d \in Nat : \A k \in Replies(s, c)' :
        k + d \in Replies(s, c) /\ rsps'[s][c][k] = rsps[s][c][k + d]
  BY DEF FewerReplies
<1>2. \A k \in Replies(s, c)' : k \in Nat
  <2>1. rsps'[s][c] \in Seq(Message)  BY TypePartsNext DEF WireTypes
  <2> QED  BY <2>1 DEF Replies
<1>3. StreamOnce(s, c)'
  <2> SUFFICES ASSUME NEW k \in Replies(s, c)', NEW l \in Replies(s, c)',
                      rsps'[s][c][k].req = rsps'[s][c][l].req
               PROVE  k = l
    BY DEF StreamOnce
  <2>1. k + d = l + d  BY <1>1 DEF OnceFor, StreamOnce
  <2> QED  BY <1>2, <2>1
<1>4. OnStream(s, c)' \subseteq OnStream(s, c)  BY <1>1 DEF OnStream
<1>5. ASSUME NEW k \in Replies(s, c)'
      PROVE  Told(c, rsps'[s][c][k], answer', ledger')
  <2>1. /\ Told(c, rsps[s][c][k + d], answer, ledger)
        /\ rsps[s][c][k + d] \in Answer
    BY <1>1, AnswerTypes DEF TrueFor
  <2> QED  BY <1>1, <2>1, ToldStays DEF Told
<1> QED  BY <1>3, <1>4, <1>5

LEMMA QueueFewer ==
    ASSUME TypeOK, TypeOK', NEW c \in Client,
           TrueFor(c), OnceFor(c), AnswersKept, FewerQueued(c)
    PROVE  /\ QueueOnce(c)' /\ Queued(c)' \subseteq Queued(c)
           /\ \A k \in DOMAIN responses'[c] :
                Told(c, responses'[c][k], answer', ledger')
<1>1. PICK d \in Nat : \A k \in DOMAIN responses'[c] :
        k + d \in DOMAIN responses[c] /\ responses'[c][k] = responses[c][k + d]
  BY DEF FewerQueued
<1>2. \A k \in DOMAIN responses'[c] : k \in Nat
  <2>1. responses'[c] \in Seq(Answer)  BY TypePartsNext DEF ClientTypes
  <2> QED  BY <2>1
<1>3. QueueOnce(c)'
  <2> SUFFICES ASSUME NEW k \in DOMAIN responses'[c],
                      NEW l \in DOMAIN responses'[c],
                      responses'[c][k].req = responses'[c][l].req
               PROVE  k = l
    BY DEF QueueOnce
  <2>1. k + d = l + d  BY <1>1 DEF OnceFor, QueueOnce
  <2> QED  BY <1>2, <2>1
<1>4. Queued(c)' \subseteq Queued(c)  BY <1>1 DEF Queued
<1>5. ASSUME NEW k \in DOMAIN responses'[c]
      PROVE  Told(c, responses'[c][k], answer', ledger')
  <2>1. /\ Told(c, responses[c][k + d], answer, ledger)
        /\ responses[c][k + d] \in Answer
    BY <1>1, AnswerTypes DEF TrueFor
  <2> QED  BY <1>1, <2>1, ToldStays DEF Told
<1> QED  BY <1>3, <1>4, <1>5

LEMMA SeenSame ==
    ASSUME TypeOK, NEW c \in Client, TrueFor(c), OnceFor(c), AnswersKept,
           shown'[c] = shown[c]
    PROVE  /\ SeenOnce(c)' /\ Seen(c)' = Seen(c)
           /\ \A k \in DOMAIN shown'[c] :
                Told(c, shown'[c][k].got, answer', ledger')
<1>1. SeenOnce(c)' /\ Seen(c)' = Seen(c)  BY DEF OnceFor, SeenOnce, Seen
<1>2. ASSUME NEW k \in DOMAIN shown'[c]
      PROVE  Told(c, shown'[c][k].got, answer', ledger')
  <2>1. /\ Told(c, shown[c][k].got, answer, ledger)
        /\ shown[c][k].got \in Answer
    BY AnswerTypes DEF TrueFor
  <2> QED  BY <2>1, ToldStays DEF Told
<1> QED  BY <1>1, <1>2

LEMMA AnswersFewer ==
    ASSUME TypeOK, TypeOK', NEW c \in Client, TrueFor(c), OnceFor(c), AnswersKept,
           \A s \in Server : FewerReplies(s, c), FewerQueued(c),
           shown'[c] = shown[c]
    PROVE  TrueFor(c)' /\ OnceFor(c)'
<1>1. \A s \in Server :
        /\ StreamOnce(s, c)' /\ OnStream(s, c)' \subseteq OnStream(s, c)
        /\ \A k \in Replies(s, c)' :
            Told(c, rsps'[s][c][k], answer', ledger')
  BY StreamFewer
<1>2. /\ QueueOnce(c)' /\ Queued(c)' \subseteq Queued(c)
      /\ \A k \in DOMAIN responses'[c] :
            Told(c, responses'[c][k], answer', ledger')
  BY QueueFewer
<1>3. /\ SeenOnce(c)' /\ Seen(c)' = Seen(c)
      /\ \A k \in DOMAIN shown'[c] :
            Told(c, shown'[c][k].got, answer', ledger')
  BY SeenSame
<1>4. TrueFor(c)'  BY <1>1, <1>2, <1>3 DEF TrueFor
<1>5. OnceFor(c)'
  <2>1. \A s, t \in Server : s # t => OnStream(s, c)' \cap OnStream(t, c)' = {}
    BY <1>1 DEF OnceFor
  <2>2. \A s \in Server : OnStream(s, c)' \cap (Queued(c)' \cup Seen(c)') = {}
    BY <1>1, <1>2, <1>3 DEF OnceFor
  <2>3. Queued(c)' \cap Seen(c)' = {}  BY <1>2, <1>3 DEF OnceFor
  <2> QED  BY <1>1, <1>2, <1>3, <2>1, <2>2, <2>3 DEF OnceFor
<1> QED  BY <1>4, <1>5

-----------------------------------------------------------------------------
(* Steps that give a client no new answer.                                 *)

LEMMA AppendShape ==
    ASSUME NEW S, NEW q \in Seq(S), NEW e \in S
    PROVE  /\ Len(q) + 1 \in Nat /\ Len(q) + 1 \notin DOMAIN q
           /\ DOMAIN Append(q, e) = DOMAIN q \cup {Len(q) + 1}
           /\ Append(q, e)[Len(q) + 1] = e
           /\ \A k \in DOMAIN q : Append(q, e)[k] = q[k]
OBVIOUS

LEMMA TailShape ==
    ASSUME NEW S, NEW q \in Seq(S), q # <<>>
    PROVE  /\ Head(q) = q[1] /\ 1 \in DOMAIN q
           /\ \A k \in DOMAIN Tail(q) :
                k \in Nat \ {0} /\ k + 1 \in DOMAIN q /\ Tail(q)[k] = q[k + 1]
OBVIOUS

\* A stream that stays, is cut off, loses its head or gains a leader change.
LEMMA StreamShapes ==
    ASSUME TypeOK, TypeOK', NEW c \in Client, NEW s \in Server,
           \/ rsps'[s][c] = rsps[s][c]
           \/ IsPrefix(rsps'[s][c], rsps[s][c])
           \/ rsps[s][c] # <<>> /\ rsps'[s][c] = Tail(rsps[s][c])
           \/ \E m \in LeaderChange : rsps'[s][c] = Append(rsps[s][c], m)
    PROVE  FewerReplies(s, c)
<1>1. rsps[s][c] \in Seq(Message)  BY TypeParts DEF WireTypes
<1>2. rsps'[s][c] \in Seq(Message)  BY TypePartsNext DEF WireTypes
<1>3. ASSUME \A k \in Replies(s, c)' :
                k \in DOMAIN rsps[s][c] /\ rsps'[s][c][k] = rsps[s][c][k]
      PROVE  FewerReplies(s, c)
  <2>1. ASSUME NEW k \in Replies(s, c)'
        PROVE  k + 0 \in Replies(s, c) /\ rsps'[s][c][k] = rsps[s][c][k + 0]
    <3>1. k + 0 = k  BY <1>1, <1>3
    <3>2. k \in Replies(s, c)  BY <1>3 DEF Replies
    <3> QED  BY <1>3, <3>1, <3>2
  <2> QED  BY <2>1, 0 \in Nat DEF FewerReplies
<1>4. CASE rsps'[s][c] = rsps[s][c]  BY <1>3, <1>4 DEF Replies
<1>5. CASE IsPrefix(rsps'[s][c], rsps[s][c])
  <2>1. \A k \in DOMAIN rsps'[s][c] :
            k \in DOMAIN rsps[s][c] /\ rsps'[s][c][k] = rsps[s][c][k]
    BY <1>1, <1>2, <1>5, PrefixShape
  <2> QED  BY <1>3, <2>1 DEF Replies
<1>6. CASE rsps[s][c] # <<>> /\ rsps'[s][c] = Tail(rsps[s][c])
  <2>1. \A k \in DOMAIN rsps'[s][c] :
            k + 1 \in DOMAIN rsps[s][c] /\ rsps'[s][c][k] = rsps[s][c][k + 1]
    BY <1>1, <1>6, TailShape
  <2>2. \A k \in Replies(s, c)' :
            k + 1 \in Replies(s, c) /\ rsps'[s][c][k] = rsps[s][c][k + 1]
    BY <2>1 DEF Replies
  <2> QED  BY <2>2, 1 \in Nat DEF FewerReplies
<1>7. CASE \E m \in LeaderChange : rsps'[s][c] = Append(rsps[s][c], m)
  <2>1. PICK m \in LeaderChange : rsps'[s][c] = Append(rsps[s][c], m)  BY <1>7
  <2>2. m \in Message /\ m.type # "RESPONSE"  BY DEF Message, LeaderChange
  <2>3. /\ DOMAIN rsps'[s][c] = DOMAIN rsps[s][c] \cup {Len(rsps[s][c]) + 1}
        /\ rsps'[s][c][Len(rsps[s][c]) + 1] = m
        /\ \A k \in DOMAIN rsps[s][c] : rsps'[s][c][k] = rsps[s][c][k]
    BY <1>1, <2>1, <2>2, AppendShape
  <2> QED  BY <1>3, <2>2, <2>3 DEF Replies
<1> QED  BY <1>4, <1>5, <1>6, <1>7

\* A queue that stays, loses its head or is thrown away.
LEMMA QueueShapes ==
    ASSUME TypeOK, TypeOK', NEW c \in Client,
           \/ responses'[c] = responses[c]
           \/ responses'[c] = <<>>
           \/ responses[c] # <<>> /\ responses'[c] = Tail(responses[c])
    PROVE  FewerQueued(c)
<1>1. responses[c] \in Seq(Answer)  BY TypeParts DEF ClientTypes
<1>2. CASE responses'[c] = responses[c]
  <2>1. \A k \in DOMAIN responses'[c] :
            k + 0 \in DOMAIN responses[c] /\ responses'[c][k] = responses[c][k + 0]
    BY <1>1, <1>2
  <2> QED  BY <2>1, 0 \in Nat DEF FewerQueued
<1>3. CASE responses'[c] = <<>>
  <2>1. DOMAIN responses'[c] = {}  BY <1>3
  <2> QED  BY <2>1, 0 \in Nat DEF FewerQueued
<1>4. CASE responses[c] # <<>> /\ responses'[c] = Tail(responses[c])
  <2>1. \A k \in DOMAIN responses'[c] :
            k + 1 \in DOMAIN responses[c] /\ responses'[c][k] = responses[c][k + 1]
    BY <1>1, <1>4, TailShape
  <2> QED  BY <2>1, 1 \in Nat DEF FewerQueued
<1> QED  BY <1>2, <1>3, <1>4

\* Nothing new for c.
Quiet(c) ==
    /\ \A s \in Server :
        \/ rsps'[s][c] = rsps[s][c]
        \/ IsPrefix(rsps'[s][c], rsps[s][c])
        \/ rsps[s][c] # <<>> /\ rsps'[s][c] = Tail(rsps[s][c])
        \/ \E m \in LeaderChange : rsps'[s][c] = Append(rsps[s][c], m)
    /\ \/ responses'[c] = responses[c]
       \/ responses'[c] = <<>>
       \/ responses[c] # <<>> /\ responses'[c] = Tail(responses[c])
    /\ shown'[c] = shown[c]

LEMMA AnswersQuiet ==
    ASSUME TypeOK, TypeOK', NEW c \in Client, TrueFor(c), OnceFor(c),
           AnswersKept, Quiet(c)
    PROVE  TrueFor(c)' /\ OnceFor(c)'
<1>1. \A s \in Server : FewerReplies(s, c)  BY StreamShapes DEF Quiet
<1>2. FewerQueued(c)  BY QueueShapes DEF Quiet
<1> QED  BY <1>1, <1>2, AnswersFewer DEF Quiet

LEMMA QuietClient ==
    ASSUME TypeOK, NEW d \in Client,
           \/ Type(d) \/ Timeout(d) \/ PrintResponses(d)
           \/ TakeReply(d) /\ shown' = shown,
           NEW c \in Client
    PROVE  Quiet(c)
<1>1. responses \in [Client -> Seq(Answer)]  BY TypeParts DEF ClientTypes
<1>2. CASE Type(d) \/ Timeout(d)
  BY <1>2 DEF Type, Timeout, Quiet, wireVars
<1>3. CASE PrintResponses(d)  BY <1>1, <1>3 DEF PrintResponses, Quiet, wireVars
<1>4. CASE TakeReply(d) /\ shown' = shown
  <2>1. rsps' = rsps  BY <1>4 DEF TakeReply, wireVars
  <2>2. responses[d] # <<>> /\ \E q \in {Tail(responses[d]), <<>>} :
            responses' = [responses EXCEPT ![d] = q]
    BY <1>4 DEF TakeReply, PopResponse
  <2> QED  BY <1>1, <1>4, <2>1, <2>2 DEF Quiet
<1> QED  BY <1>2, <1>3, <1>4

LEMMA QuietServer ==
    ASSUME TypeOK, NEW s \in Server,
           \/ StepDown(s) \/ BecomeLeader(s) \/ HearLeader(s) \/ Restart(s)
           \/ \E d \in Client : \/ ConnectTo(d, s) \/ Redirect(s, d)
                               \/ TakeRequest(s, d),
           NEW c \in Client
    PROVE  Quiet(c)
<1>1. rsps \in [Server -> [Client -> Seq(Message)]]
  BY TypeParts DEF WireTypes
<1>2. UNCHANGED clientVars
  BY DEF StepDown, BecomeLeader, HearLeader, Restart, ConnectTo, Redirect,
         TakeRequest
<1>3. responses' = responses /\ shown' = shown  BY <1>2 DEF clientVars
<1>4. CASE UNCHANGED rsps  BY <1>3, <1>4 DEF Quiet
<1>5. CASE \/ StepDown(s) \/ HearLeader(s)
           \/ \E d \in Client : ConnectTo(d, s) \/ TakeRequest(s, d)
  BY <1>4, <1>5 DEF StepDown, HearLeader, ConnectTo, TakeRequest, wireVars
<1>6. CASE \E d \in Client : Redirect(s, d)
  <2>1. PICK d \in Client : Redirect(s, d)  BY <1>6
  <2> DEFINE m == [type |-> "LEADER_CHANGE", leader |-> CurrLeader(s)]
  <2>2. m \in LeaderChange
    <3>1. CurrLeader(s) \in Server
      BY TypeParts, LeaderAssumption DEF CurrLeader, ServerTypes
    <3> QED  BY <3>1 DEF LeaderChange
  <2>3. rsps' = rsps \/ rsps' = [rsps EXCEPT ![s][d] = Append(rsps[s][d], m)]
    BY <2>1 DEF Redirect, Respond
  <2> HIDE DEF m
  <2>4. \A t \in Server : \/ rsps'[t][c] = rsps[t][c]
                          \/ rsps'[t][c] = Append(rsps[t][c], m)
    BY ONLY <1>1, <2>3, s \in Server, c \in Client, d \in Client
  <2> QED  BY <1>3, <2>2, <2>4 DEF Quiet
<1>7. CASE BecomeLeader(s)
  <2> DEFINE m == [type |-> "LEADER_CHANGE", leader |-> s]
  <2>1. m \in LeaderChange  BY DEF LeaderChange
  <2>2. \A t \in Server : \/ rsps'[t][c] = rsps[t][c]
                          \/ rsps'[t][c] = Append(rsps[t][c], m)
    BY <1>1, <1>7 DEF BecomeLeader
  <2> HIDE DEF m
  <2> QED  BY <1>3, <2>1, <2>2 DEF Quiet
<1>8. CASE Restart(s)
  <2>1. PICK kept \in [Client -> Seq(Message)] :
            /\ rsps' = [rsps EXCEPT ![s] = kept]
            /\ \A d \in Client : IsPrefix(kept[d], rsps[s][d])
    BY <1>8, RestartKeeps
  <2>2. \A t \in Server : \/ rsps'[t][c] = rsps[t][c]
                          \/ IsPrefix(rsps'[t][c], rsps[t][c])
    BY <1>1, <2>1
  <2> QED  BY <1>3, <2>2 DEF Quiet
<1> QED  BY <1>5, <1>6, <1>7, <1>8

-----------------------------------------------------------------------------
(* Steps that move an answer on, and those that give one.                  *)

LEMMA QueueGains ==
    ASSUME TypeOK, NEW c \in Client, NEW m \in Answer,
           responses'[c] = Append(responses[c], m),
           TrueFor(c), OnceFor(c), AnswersKept,
           m.req \notin Queued(c), Told(c, m, answer', ledger')
    PROVE  /\ QueueOnce(c)' /\ Queued(c)' = Queued(c) \cup {m.req}
           /\ \A k \in DOMAIN responses'[c] :
                Told(c, responses'[c][k], answer', ledger')
<1> DEFINE n == Len(responses[c]) + 1
<1>1. /\ DOMAIN responses'[c] = DOMAIN responses[c] \cup {n}
      /\ n \notin DOMAIN responses[c] /\ responses'[c][n] = m
      /\ \A k \in DOMAIN responses[c] : responses'[c][k] = responses[c][k]
  <2>1. responses[c] \in Seq(Answer)  BY TypeParts DEF ClientTypes
  <2> QED  BY <2>1, AppendShape
<1> HIDE DEF n
<1>2. Queued(c)' = Queued(c) \cup {m.req}  BY <1>1 DEF Queued
<1>3. QueueOnce(c)'
  <2>1. \A k \in DOMAIN responses[c] : responses[c][k].req # m.req
    BY DEF Queued
  <2> QED  BY <1>1, <2>1 DEF OnceFor, QueueOnce
<1>4. ASSUME NEW k \in DOMAIN responses'[c]
      PROVE  Told(c, responses'[c][k], answer', ledger')
  <2>1. CASE k \in DOMAIN responses[c]
    <3>1. /\ Told(c, responses[c][k], answer, ledger)
          /\ responses[c][k] \in Answer
      BY <2>1, AnswerTypes DEF TrueFor
    <3> QED  BY <1>1, <2>1, <3>1, ToldStays
  <2> QED  BY <1>1, <2>1
<1> QED  BY <1>2, <1>3, <1>4

LEMMA SeenGains ==
    ASSUME TypeOK, NEW c \in Client, NEW m \in Answer, NEW r \in Request,
           shown'[c] = Append(shown[c], [asked |-> r, got |-> m]),
           TrueFor(c), OnceFor(c), AnswersKept,
           m.req \notin Seen(c), Told(c, m, answer', ledger')
    PROVE  /\ SeenOnce(c)' /\ Seen(c)' = Seen(c) \cup {m.req}
           /\ \A k \in DOMAIN shown'[c] :
                Told(c, shown'[c][k].got, answer', ledger')
<1> DEFINE n == Len(shown[c]) + 1
<1>1. /\ DOMAIN shown'[c] = DOMAIN shown[c] \cup {n}
      /\ n \notin DOMAIN shown[c] /\ shown'[c][n].got = m
      /\ \A k \in DOMAIN shown[c] : shown'[c][k] = shown[c][k]
  <2> DEFINE e == [asked |-> r, got |-> m]
             S == [asked: Request, got: Answer]
  <2>1. shown[c] \in Seq(S)  BY TypeParts DEF ClientTypes
  <2>2. e \in S /\ e.got = m  OBVIOUS
  <2>3. shown'[c] = Append(shown[c], e)  OBVIOUS
  <2> HIDE DEF e, S
  <2> QED  BY <2>1, <2>2, <2>3, AppendShape
<1> HIDE DEF n
<1>2. Seen(c)' = Seen(c) \cup {m.req}  BY <1>1 DEF Seen
<1>3. SeenOnce(c)'
  <2>1. \A k \in DOMAIN shown[c] : shown[c][k].got.req # m.req  BY DEF Seen
  <2> QED  BY <1>1, <2>1 DEF OnceFor, SeenOnce
<1>4. ASSUME NEW k \in DOMAIN shown'[c]
      PROVE  Told(c, shown'[c][k].got, answer', ledger')
  <2>1. CASE k \in DOMAIN shown[c]
    <3>1. /\ Told(c, shown[c][k].got, answer, ledger)
          /\ shown[c][k].got \in Answer
      BY <2>1, AnswerTypes DEF TrueFor
    <3> QED  BY <1>1, <2>1, <3>1, ToldStays
  <2> QED  BY <1>1, <2>1
<1> QED  BY <1>2, <1>3, <1>4

LEMMA StreamGains ==
    ASSUME TypeOK, NEW s \in Server, NEW c \in Client, NEW m \in Answer,
           rsps'[s][c] = Append(rsps[s][c], m),
           TrueFor(c), OnceFor(c), AnswersKept,
           m.req \notin OnStream(s, c), Told(c, m, answer', ledger')
    PROVE  /\ StreamOnce(s, c)'
           /\ OnStream(s, c)' = OnStream(s, c) \cup {m.req}
           /\ \A k \in Replies(s, c)' :
                Told(c, rsps'[s][c][k], answer', ledger')
<1> DEFINE n == Len(rsps[s][c]) + 1
<1>1. /\ DOMAIN rsps'[s][c] = DOMAIN rsps[s][c] \cup {n}
      /\ n \notin DOMAIN rsps[s][c] /\ rsps'[s][c][n] = m
      /\ \A k \in DOMAIN rsps[s][c] : rsps'[s][c][k] = rsps[s][c][k]
  <2>1. rsps[s][c] \in Seq(Message)  BY TypeParts DEF WireTypes
  <2>2. m \in Message  BY DEF Message
  <2> QED  BY <2>1, <2>2, AppendShape
<1> HIDE DEF n
<1>2. /\ Replies(s, c)' = Replies(s, c) \cup {n} /\ n \notin Replies(s, c)
      /\ \A k \in Replies(s, c) : rsps'[s][c][k] = rsps[s][c][k]
  <2>1. m.type = "RESPONSE"  BY DEF Answer
  <2> QED  BY <1>1, <2>1 DEF Replies
<1>3. OnStream(s, c)' = OnStream(s, c) \cup {m.req}
  <2>1. \A k \in Replies(s, c) : rsps'[s][c][k].req = rsps[s][c][k].req
    BY <1>2
  <2>2. rsps'[s][c][n].req = m.req  BY <1>1
  <2>3. OnStream(s, c)' = {rsps'[s][c][k].req : k \in Replies(s, c) \cup {n}}
    BY <1>2 DEF OnStream
  <2>4. OnStream(s, c) = {rsps'[s][c][k].req : k \in Replies(s, c)}
    BY <2>1 DEF OnStream
  <2> QED  BY ONLY <2>2, <2>3, <2>4
<1>4. StreamOnce(s, c)'
  <2>1. \A k \in Replies(s, c) : rsps[s][c][k].req # m.req  BY DEF OnStream
  <2>2. \A k, l \in Replies(s, c) :
            rsps[s][c][k].req = rsps[s][c][l].req => k = l
    BY DEF OnceFor, StreamOnce
  <2>3. \A k, l \in Replies(s, c) \cup {n} :
            rsps'[s][c][k].req = rsps'[s][c][l].req => k = l
    BY ONLY <1>1, <1>2, <2>1, <2>2
  <2> QED  BY <1>2, <2>3 DEF StreamOnce
<1>5. ASSUME NEW k \in Replies(s, c)'
      PROVE  Told(c, rsps'[s][c][k], answer', ledger')
  <2>1. CASE k \in Replies(s, c)
    <3>1. /\ Told(c, rsps[s][c][k], answer, ledger)
          /\ rsps[s][c][k] \in Answer
      BY <2>1, AnswerTypes DEF TrueFor
    <3> QED  BY <1>2, <2>1, <3>1, ToldStays
  <2> QED  BY <1>1, <1>2, <2>1
<1> QED  BY <1>3, <1>4, <1>5

\* recv_handler moves the head of a stream to the end of response_queue.
LEMMA AnswersReceive ==
    ASSUME TypeOK, TypeOK', NEW d \in Client, NEW s \in Server,
           ClientReceive(d, s), NEW c \in Client, TrueFor(c), OnceFor(c),
           AnswersKept
    PROVE  TrueFor(c)' /\ OnceFor(c)'
<1> DEFINE m == Head(rsps[s][d])
<1>1. /\ rsps[s][d] # <<>> /\ shown' = shown
      /\ rsps' = [rsps EXCEPT ![s][d] = Tail(rsps[s][d])]
      /\ IF m.type = "LEADER_CHANGE" THEN responses' = responses
         ELSE responses' = [responses EXCEPT ![d] = Append(responses[d], m)]
  BY DEF ClientReceive
<1>2. rsps \in [Server -> [Client -> Seq(Message)]]
  BY TypeParts DEF WireTypes
<1>3. responses \in [Client -> Seq(Answer)]  BY TypeParts DEF ClientTypes
<1>4. \A t \in Server, e \in Client :
        rsps'[t][e] = IF t = s /\ e = d THEN Tail(rsps[s][d]) ELSE rsps[t][e]
  BY <1>1, <1>2
<1> HIDE DEF m
<1>5. CASE c # d \/ m.type = "LEADER_CHANGE"
  <2>1. Quiet(c)  BY <1>1, <1>3, <1>4, <1>5 DEF Quiet
  <2> QED  BY <2>1, AnswersQuiet
<1>6. CASE c = d /\ m.type # "LEADER_CHANGE"
  <2>1. responses'[c] = Append(responses[c], m)  BY <1>1, <1>3, <1>6
  <2>2. /\ rsps[s][c] \in Seq(Message)
        /\ rsps[s][c] # <<>> /\ m = rsps[s][c][1] /\ 1 \in DOMAIN rsps[s][c]
        /\ \A k \in DOMAIN rsps'[s][c] :
                k \in Nat \ {0} /\ rsps'[s][c][k] = rsps[s][c][k + 1]
                /\ k + 1 \in DOMAIN rsps[s][c]
    <3>1. rsps[s][c] \in Seq(Message) /\ rsps[s][c] # <<>>  BY <1>1, <1>2, <1>6
    <3>2. rsps'[s][c] = Tail(rsps[s][c])  BY <1>4, <1>6
    <3> QED  BY <1>6, <3>1, <3>2, TailShape DEF m
  <2>3. m \in Answer /\ 1 \in Replies(s, c)
    <3>1. m \in Message  BY <2>2, SeqElements
    <3>2. m \in Answer /\ m.type = "RESPONSE"
      BY <1>6, <3>1 DEF Message, LeaderChange, Answer
    <3> QED  BY <2>2, <3>2 DEF Replies
  <2>4. m.req \in OnStream(s, c)  BY <2>2, <2>3 DEF OnStream
  <2>5. Told(c, m, answer', ledger')
    BY <2>2, <2>3, ToldStays DEF TrueFor
  <2>6. m.req \notin OnStream(s, c)'
    <3> SUFFICES ASSUME NEW k \in Replies(s, c)', rsps'[s][c][k].req = m.req
                 PROVE  FALSE
      BY DEF OnStream
    <3>1. k \in Nat \ {0} /\ k + 1 \in Replies(s, c)
          /\ rsps'[s][c][k] = rsps[s][c][k + 1]
      BY <2>2 DEF Replies
    <3>2. k + 1 = 1  BY <2>2, <2>3, <3>1 DEF OnceFor, StreamOnce
    <3> QED  BY <3>1, <3>2
  <2>7. \A t \in Server : FewerReplies(t, c)  BY <1>1, <1>4, <1>6, StreamShapes
  <2>8. \A t \in Server :
        /\ StreamOnce(t, c)' /\ OnStream(t, c)' \subseteq OnStream(t, c)
        /\ \A k \in Replies(t, c)' : Told(c, rsps'[t][c][k], answer', ledger')
    BY <2>7, StreamFewer
  <2>9. m.req \notin Queued(c) /\ m.req \notin Seen(c)
        /\ \A t \in Server : t # s => m.req \notin OnStream(t, c)
    BY <2>4 DEF OnceFor
  <2>10. /\ QueueOnce(c)' /\ Queued(c)' = Queued(c) \cup {m.req}
         /\ \A k \in DOMAIN responses'[c] :
                Told(c, responses'[c][k], answer', ledger')
    BY <2>1, <2>3, <2>5, <2>9, QueueGains
  <2>11. /\ SeenOnce(c)' /\ Seen(c)' = Seen(c)
         /\ \A k \in DOMAIN shown'[c] :
                Told(c, shown'[c][k].got, answer', ledger')
    BY <1>1, SeenSame
  <2>12. TrueFor(c)'  BY <2>8, <2>10, <2>11 DEF TrueFor
  <2>13. OnceFor(c)'
    <3>1. \A t, u \in Server : t # u => OnStream(t, c)' \cap OnStream(u, c)' = {}
      BY <2>8 DEF OnceFor
    <3>2. \A t \in Server : OnStream(t, c)' \cap (Queued(c)' \cup Seen(c)') = {}
      BY <2>6, <2>8, <2>9, <2>10, <2>11 DEF OnceFor
    <3>3. Queued(c)' \cap Seen(c)' = {}  BY <2>9, <2>10, <2>11 DEF OnceFor
    <3> QED  BY <2>8, <2>10, <2>11, <3>1, <3>2, <3>3 DEF OnceFor
  <2> QED  BY <2>12, <2>13
<1> QED  BY <1>5, <1>6

\* client_wait_reply moves the head of response_queue to the screen.
LEMMA AnswersTakeReply ==
    ASSUME TypeOK, TypeOK', NEW d \in Client, TakeReply(d),
           NEW c \in Client, TrueFor(c), OnceFor(c), AnswersKept
    PROVE  TrueFor(c)' /\ OnceFor(c)'
<1> DEFINE m == Head(responses[d])
           e == [asked |-> waiting[d], got |-> m]
<1>1. /\ waiting[d] # None /\ responses[d] # <<>> /\ rsps' = rsps
      /\ \/ shown' = shown
         \/ /\ shown' = [shown EXCEPT ![d] = Append(shown[d], e)]
            /\ responses' = [responses EXCEPT ![d] = Tail(responses[d])]
  BY DEF TakeReply, PopResponse, wireVars
<1>2. responses \in [Client -> Seq(Answer)]
      /\ shown \in [Client -> Seq([asked: Request, got: Answer])]
      /\ waiting[d] \in Request
  BY <1>1, TypeParts DEF ClientTypes
<1>3. CASE shown' = shown
  <2>1. Quiet(c)  BY <1>3, QuietClient
  <2> QED  BY <2>1, AnswersQuiet
<1>4. ASSUME shown' = [shown EXCEPT ![d] = Append(shown[d], e)],
             responses' = [responses EXCEPT ![d] = Tail(responses[d])]
      PROVE  TrueFor(c)' /\ OnceFor(c)'
  <2> HIDE DEF e
  <2>1. CASE c # d
    <3>1. responses'[c] = responses[c] /\ shown'[c] = shown[c]
      BY <1>2, <1>4, <2>1
    <3>2. Quiet(c)  BY <1>1, <3>1 DEF Quiet
    <3> QED  BY <3>2, AnswersQuiet
  <2>2. CASE c = d
    <3>1. responses'[c] = Tail(responses[c]) /\ responses[c] # <<>>
      BY <1>1, <1>2, <1>4, <2>2
    <3>2. shown'[c] = Append(shown[c], [asked |-> waiting[c], got |-> m])
      BY <1>2, <1>4, <2>2 DEF e
    <3>3. /\ m = responses[c][1] /\ 1 \in DOMAIN responses[c] /\ m \in Answer
          /\ \A k \in DOMAIN responses'[c] :
                k \in Nat \ {0} /\ k + 1 \in DOMAIN responses[c]
                /\ responses'[c][k] = responses[c][k + 1]
      <4>1. responses[c] \in Seq(Answer)  BY <1>2
      <4>2. m = Head(responses[c])  BY <2>2
      <4> HIDE DEF m
      <4> QED  BY <3>1, <4>1, <4>2, TailShape, SeqElements
    <3> HIDE DEF m
    <3>4. m.req \in Queued(c)  BY <3>3 DEF Queued
    <3>5. Told(c, m, answer', ledger')  BY <3>3, ToldStays DEF TrueFor
    <3>6. m.req \notin Queued(c)'
      <4> SUFFICES ASSUME NEW k \in DOMAIN responses'[c],
                          responses'[c][k].req = m.req
                   PROVE  FALSE
        BY DEF Queued
      <4>1. k + 1 = 1  BY <3>3 DEF OnceFor, QueueOnce
      <4> QED  BY <3>3, <4>1
    <3>7. \A t \in Server : FewerReplies(t, c)  BY <1>1, StreamShapes
    <3>8. \A t \in Server :
            /\ StreamOnce(t, c)' /\ OnStream(t, c)' \subseteq OnStream(t, c)
            /\ \A k \in Replies(t, c)' :
                    Told(c, rsps'[t][c][k], answer', ledger')
      BY <3>7, StreamFewer
    <3>9. /\ QueueOnce(c)' /\ Queued(c)' \subseteq Queued(c)
          /\ \A k \in DOMAIN responses'[c] :
                Told(c, responses'[c][k], answer', ledger')
      BY <3>1, QueueShapes, QueueFewer
    <3>10. m.req \notin Seen(c) /\ \A t \in Server : m.req \notin OnStream(t, c)
      BY <3>4 DEF OnceFor
    <3>11. /\ SeenOnce(c)' /\ Seen(c)' = Seen(c) \cup {m.req}
           /\ \A k \in DOMAIN shown'[c] :
                Told(c, shown'[c][k].got, answer', ledger')
      BY <1>2, <2>2, <3>2, <3>3, <3>5, <3>10, SeenGains
    <3>12. TrueFor(c)'  BY <3>8, <3>9, <3>11 DEF TrueFor
    <3>13. OnceFor(c)'
      <4>1. \A t, u \in Server :
                t # u => OnStream(t, c)' \cap OnStream(u, c)' = {}
        BY <3>8 DEF OnceFor
      <4>2. \A t \in Server : OnStream(t, c)' \cap (Queued(c)' \cup Seen(c)') = {}
        BY <3>8, <3>9, <3>10, <3>11 DEF OnceFor
      <4>3. Queued(c)' \cap Seen(c)' = {}  BY <3>6, <3>9, <3>11 DEF OnceFor
      <4> QED  BY <3>8, <3>9, <3>11, <4>1, <4>2, <4>3 DEF OnceFor
    <3> QED  BY <3>12, <3>13
  <2> QED  BY <2>1, <2>2
<1> QED  BY <1>1, <1>3, <1>4

\* What a leader waits on has no answer yet.
LEMMA Unanswered ==
    ASSUME TypeOK, NEW c \in Client, TrueFor(c),
           NEW r \in Request, answer[r] = "taken"
    PROVE  /\ \A s \in Server : r \notin OnStream(s, c)
           /\ r \notin Queued(c) /\ r \notin Seen(c)
<1>1. ASSUME NEW m, Told(c, m, answer, ledger) PROVE m.req # r
  BY <1>1 DEF Told
<1>2. \A s \in Server : \A k \in Replies(s, c) : rsps[s][c][k].req # r
  BY <1>1 DEF TrueFor
<1>3. \A k \in DOMAIN responses[c] : responses[c][k].req # r
  BY <1>1 DEF TrueFor
<1>4. \A k \in DOMAIN shown[c] : shown[c][k].got.req # r
  BY <1>1 DEF TrueFor
<1> QED  BY <1>2, <1>3, <1>4 DEF OnStream, Queued, Seen

LEMMA AnswersFinish ==
    ASSUME TypeOK, TypeOK', RequestInv, NEW s \in Server, Commit(s) \/ GiveUp(s),
           NEW c \in Client, TrueFor(c), OnceFor(c), AnswersKept
    PROVE  TrueFor(c)' /\ OnceFor(c)'
<1> DEFINE r == serving[s]
           d == r.client
<1>1. /\ r \in Request /\ answer[r] = "taken" /\ d \in Client
      /\ responses' = responses /\ shown' = shown
  BY FinishShape DEF clientVars
<1>2. PICK ok \in BOOLEAN :
        /\ answer' = [answer EXCEPT ![r] = IF ok THEN "succeed" ELSE "failed"]
        /\ Respond(s, d, [type |-> "RESPONSE", req |-> r, succeed |-> ok])
        /\ ok => r \in Range(ledger')
  BY FinishShape
<1> DEFINE m == [type |-> "RESPONSE", req |-> r, succeed |-> ok]
<1>3. m \in Answer /\ m.req = r /\ m.succeed = ok  BY <1>1 DEF Answer
<1>4. rsps' = rsps \/ rsps' = [rsps EXCEPT ![s][d] = Append(rsps[s][d], m)]
  BY <1>2 DEF Respond
<1>5. rsps \in [Server -> [Client -> Seq(Message)]]
  BY TypeParts DEF WireTypes
<1>6. Told(d, m, answer', ledger')
  <2>1. answer'[r] = IF ok THEN "succeed" ELSE "failed"
    BY <1>1, <1>2, TypeParts DEF ClusterTypes
  <2> QED  BY <1>2, <1>3, <2>1 DEF Told
<1> HIDE DEF m, r, d
<1>7. CASE rsps' = rsps \/ c # d
  <2>1. \A t \in Server : rsps'[t][c] = rsps[t][c]  BY <1>1, <1>4, <1>5, <1>7
  <2>2. Quiet(c)  BY <1>1, <2>1 DEF Quiet
  <2> QED  BY <2>2, AnswersQuiet
<1>8. CASE c = d /\ rsps' = [rsps EXCEPT ![s][d] = Append(rsps[s][d], m)]
  <2>1. \A t \in Server :
            rsps'[t][c] = IF t = s THEN Append(rsps[s][c], m) ELSE rsps[t][c]
    <3> DEFINE q == Append(rsps[s][c], m)
    <3>1. rsps' = [rsps EXCEPT ![s][c] = q]  BY <1>8
    <3> HIDE DEF q
    <3>2. \A t \in Server : rsps'[t][c] = IF t = s THEN q ELSE rsps[t][c]
      BY ONLY <1>5, <3>1, s \in Server, c \in Client
    <3> QED  BY <3>2 DEF q
  <2>2. /\ \A t \in Server : r \notin OnStream(t, c)
        /\ r \notin Queued(c) /\ r \notin Seen(c)
    BY <1>1, Unanswered
  <2>3. /\ StreamOnce(s, c)' /\ OnStream(s, c)' = OnStream(s, c) \cup {r}
        /\ \A k \in Replies(s, c)' :
                Told(c, rsps'[s][c][k], answer', ledger')
    <3>1. rsps'[s][c] = Append(rsps[s][c], m)  BY <2>1
    <3>2. Told(c, m, answer', ledger') /\ m \in Answer /\ m.req = r
      BY <1>3, <1>6, <1>8
    <3>3. m.req \notin OnStream(s, c)  BY <2>2, <3>2
    <3>4. /\ StreamOnce(s, c)' /\ OnStream(s, c)' = OnStream(s, c) \cup {m.req}
          /\ \A k \in Replies(s, c)' :
                Told(c, rsps'[s][c][k], answer', ledger')
      BY <3>1, <3>2, <3>3, StreamGains
    <3> QED  BY <3>2, <3>4
  <2>4. ASSUME NEW t \in Server, t # s
        PROVE  /\ StreamOnce(t, c)' /\ OnStream(t, c)' \subseteq OnStream(t, c)
               /\ \A k \in Replies(t, c)' :
                    Told(c, rsps'[t][c][k], answer', ledger')
    <3>1. FewerReplies(t, c)  BY <2>1, <2>4, StreamShapes
    <3> QED  BY <3>1, StreamFewer
  <2>5. /\ QueueOnce(c)' /\ Queued(c)' \subseteq Queued(c)
        /\ \A k \in DOMAIN responses'[c] :
                Told(c, responses'[c][k], answer', ledger')
    BY <1>1, QueueShapes, QueueFewer
  <2>6. /\ SeenOnce(c)' /\ Seen(c)' = Seen(c)
        /\ \A k \in DOMAIN shown'[c] :
                Told(c, shown'[c][k].got, answer', ledger')
    BY <1>1, SeenSame
  <2>7. TrueFor(c)'  BY <2>3, <2>4, <2>5, <2>6 DEF TrueFor
  <2>8. OnceFor(c)'
    <3>1. \A t \in Server : OnStream(t, c)' \subseteq
            OnStream(t, c) \cup (IF t = s THEN {r} ELSE {})
      BY <2>3, <2>4
    <3>2. \A t, u \in Server :
            t # u => OnStream(t, c)' \cap OnStream(u, c)' = {}
      BY <2>2, <3>1 DEF OnceFor
    <3>3. \A t \in Server : OnStream(t, c)' \cap (Queued(c)' \cup Seen(c)') = {}
      BY <2>2, <2>5, <2>6, <3>1 DEF OnceFor
    <3>4. Queued(c)' \cap Seen(c)' = {}  BY <2>5, <2>6 DEF OnceFor
    <3> QED  BY <2>3, <2>4, <2>5, <2>6, <3>2, <3>3, <3>4 DEF OnceFor
  <2> QED  BY <2>7, <2>8
<1> QED  BY <1>4, <1>7, <1>8

LEMMA AnswerStep ==
    ASSUME TypeOK, TypeOK', RequestInv, AnswersTrue, AnswersOnce, [Next]_vars
    PROVE  AnswersTrue' /\ AnswersOnce'
<1>1. AnswersKept  BY AnswersStand
<1> SUFFICES ASSUME NEW c \in Client PROVE TrueFor(c)' /\ OnceFor(c)'
  BY DEF AnswersTrue, AnswersOnce
<1>2. TrueFor(c) /\ OnceFor(c)  BY DEF AnswersTrue, AnswersOnce
<1>3. CASE UNCHANGED vars
  <2>1. Quiet(c)  BY <1>3 DEF vars, clientVars, wireVars, Quiet
  <2> QED  BY <1>1, <1>2, <2>1, AnswersQuiet
<1>4. ASSUME NEW d \in Client, Type(d) \/ Timeout(d) \/ PrintResponses(d)
      PROVE  TrueFor(c)' /\ OnceFor(c)'
  <2>1. Quiet(c)  BY <1>4, QuietClient
  <2> QED  BY <1>1, <1>2, <2>1, AnswersQuiet
<1>5. ASSUME NEW d \in Client, TakeReply(d) PROVE TrueFor(c)' /\ OnceFor(c)'
  BY <1>1, <1>2, <1>5, AnswersTakeReply
<1>6. ASSUME NEW d \in Client, NEW s \in Server, ClientReceive(d, s)
      PROVE  TrueFor(c)' /\ OnceFor(c)'
  BY <1>1, <1>2, <1>6, AnswersReceive
<1>7. ASSUME NEW s \in Server,
             \/ StepDown(s) \/ BecomeLeader(s) \/ HearLeader(s) \/ Restart(s)
             \/ \E d \in Client : \/ ConnectTo(d, s) \/ Redirect(s, d)
                                 \/ TakeRequest(s, d)
      PROVE  TrueFor(c)' /\ OnceFor(c)'
  <2>1. Quiet(c)  BY <1>7, QuietServer
  <2> QED  BY <1>1, <1>2, <2>1, AnswersQuiet
<1>8. ASSUME NEW s \in Server, Commit(s) \/ GiveUp(s)
      PROVE  TrueFor(c)' /\ OnceFor(c)'
  BY <1>1, <1>2, <1>8, AnswersFinish
<1> QED  BY <1>3, <1>4, <1>5, <1>6, <1>7, <1>8 DEF Next

-----------------------------------------------------------------------------
(* What the users may rely on.                                             *)

LEMMA RequestInit == Init => RequestInv
<1> SUFFICES ASSUME Init PROVE RequestInv
  OBVIOUS
<1>1. ReqsOwn /\ ReqsOnce  BY DEF Init, ReqsOwn, ReqsOnce
<1>2. Taken = {}  BY DEF Init, Taken
<1>3. TakenTyped  BY <1>2 DEF Taken, TakenTyped
<1>4. ServesTaken /\ ServesApart  BY DEF Init, ServesTaken, ServesApart
<1>5. LedgerOnce
  <2>1. IsInjective(ledger)  BY DEF Init, IsInjective
  <2> QED  BY <1>2, <2>1, FS_EmptySet DEF LedgerOnce
<1> QED  BY <1>1, <1>3, <1>4, <1>5 DEF RequestInv

LEMMA AnswerInit == Init => AnswersTrue /\ AnswersOnce
<1> SUFFICES ASSUME Init, NEW c \in Client PROVE TrueFor(c) /\ OnceFor(c)
  BY DEF AnswersTrue, AnswersOnce
<1>1. /\ \A s \in Server : Replies(s, c) = {}
      /\ DOMAIN responses[c] = {} /\ DOMAIN shown[c] = {}
  BY DEF Init, Replies
<1>2. TrueFor(c)  BY <1>1 DEF TrueFor
<1>3. (\A s \in Server : OnStream(s, c) = {}) /\ Queued(c) = {} /\ Seen(c) = {}
  BY <1>1 DEF OnStream, Queued, Seen
<1>4. (\A s \in Server : StreamOnce(s, c)) /\ QueueOnce(c) /\ SeenOnce(c)
  BY <1>1 DEF StreamOnce, QueueOnce, SeenOnce
<1> QED  BY <1>2, <1>3, <1>4 DEF OnceFor

\* Whatever clients and servers do, in whatever order, a request lies on one
\* stream until it is taken, is waited on by one leader at most, and has at
\* most one answer under way or shown, which says what became of it.
THEOREM SessionInvariant == Spec => []SessionInv
<1>1. Init => SessionInv
  BY TypeInit, RequestInit, AnswerInit DEF SessionInv
<1>2. SessionInv /\ [Next]_vars => SessionInv'
  <2> SUFFICES ASSUME SessionInv, [Next]_vars PROVE SessionInv'
    OBVIOUS
  <2>1. TypeOK'  BY TypeStep DEF SessionInv, RequestInv, LedgerOnce
  <2>2. RequestInv'  BY <2>1, RequestStep DEF SessionInv
  <2>3. AnswersTrue' /\ AnswersOnce'  BY <2>1, AnswerStep DEF SessionInv
  <2> QED  BY <2>1, <2>2, <2>3 DEF SessionInv
<1> QED  BY <1>1, <1>2, PTL DEF Spec

\* The maps and queues of client.cpp and network.cpp hold what they are meant
\* to hold.
THEOREM SessionTyped == Spec => []TypeOK
<1>1. SessionInv => TypeOK  BY DEF SessionInv
<1> QED  BY <1>1, SessionInvariant, PTL

LEMMA SuccessShown == SessionInv => SuccessesExecuted
<1> SUFFICES ASSUME SessionInv, NEW c \in Client
             PROVE  LET good == {k \in DOMAIN shown[c] : shown[c][k].got.succeed}
                    IN  /\ \A k \in good : /\ shown[c][k].got.req.client = c
                                           /\ shown[c][k].got.req \in Range(ledger)
                        /\ \A k, l \in good :
                             shown[c][k].got.req = shown[c][l].got.req => k = l
  BY DEF SuccessesExecuted
<1>1. \A k \in DOMAIN shown[c] : Told(c, shown[c][k].got, answer, ledger)
  BY DEF SessionInv, AnswersTrue, TrueFor
<1>2. SeenOnce(c)  BY DEF SessionInv, AnswersOnce, OnceFor
<1> QED  BY <1>1, <1>2 DEF Told, SeenOnce

\* A success on the screen of client.cpp, for whichever command it is taken,
\* stands for a request of that user that was executed, and no other success
\* stands for it.
THEOREM SuccessesStand == Spec => []SuccessesExecuted
BY SuccessShown, SessionInvariant, PTL

-----------------------------------------------------------------------------
(* What the cluster promises.                                              *)

LEMMA PromiseInit == Init => Promised!Init
BY DEF Init, Promised!Init

LEMMA PrefixOfSelf ==
    ASSUME NEW S, NEW q \in Seq(S)
    PROVE  Promised!IsPrefix(q, q)
BY DEF Promised!IsPrefix

LEMMA PromiseStep ==
    ASSUME SessionInv, SessionInv', [Next]_vars
    PROVE  [Promised!Next]_(Promised!vars)
<1>1. TypeOK /\ TypeOK' /\ RequestInv  BY DEF SessionInv
<1>2. CASE UNCHANGED <<ledger, answer>>  BY <1>2 DEF Promised!vars
<1>3. ASSUME NEW c \in Client, NEW s \in Server, TakeRequest(s, c)
      PROVE  Promised!Next
  <2>1. /\ serving'[s] \in Request /\ answer[serving'[s]] = "unsent"
        /\ answer' = [answer EXCEPT ![serving'[s]] = "taken"]
        /\ ledger' = ledger
    BY <1>1, <1>3, RequestsTake DEF TakeRequest
  <2>2. Promised!Take(serving'[s])  BY <2>1 DEF Promised!Take
  <2> QED  BY <2>1, <2>2 DEF Promised!Next
<1>4. ASSUME NEW s \in Server, GiveUp(s) PROVE Promised!Next
  <2>1. serving[s] \in Request /\ answer[serving[s]] = "taken"
    BY <1>1, <1>4, FinishShape
  <2>2. answer' = [answer EXCEPT ![serving[s]] = "failed"] /\ ledger' = ledger
    BY <1>4 DEF GiveUp, Finish
  <2>3. Promised!GiveUp(serving[s])  BY <2>1, <2>2 DEF Promised!GiveUp
  <2> QED  BY <2>1, <2>3 DEF Promised!Next
<1>5. ASSUME NEW s \in Server, Commit(s) PROVE Promised!Next
  <2>1. /\ serving[s] \in Request /\ answer[serving[s]] = "taken"
        /\ ledger' \in Seq(Request) /\ IsInjective(ledger')
        /\ IsPrefix(ledger, ledger')
        /\ Range(ledger') \subseteq Range(ledger) \cup Taken
        /\ serving[s] \in Range(ledger')
    BY <1>1, <1>5, LedgerAfter
  <2>2. answer' = [answer EXCEPT ![serving[s]] = "succeed"]
    BY <1>5 DEF Commit, Finish
  <2>3. Promised!Grow
    BY <2>1 DEF Promised!Grow, Promised!IsPrefix, IsPrefix, Promised!IsInjective,
                IsInjective, Promised!Range, Range, Promised!Taken, Taken
  <2>4. Promised!Follow
    <3>1. Promised!IsPrefix(ledger', ledger')  BY <2>1, PrefixOfSelf
    <3>2. Promised!IsPrefix(ledger, ledger')
      BY <2>1 DEF Promised!IsPrefix, IsPrefix
    <3> QED  BY <3>1, <3>2 DEF Promised!Follow
  <2>5. Promised!Commit(s, serving[s])
    BY <2>1, <2>2, <2>3, <2>4 DEF Promised!Commit, Promised!Range, Range
  <2> QED  BY <2>1, <2>5 DEF Promised!Next
<1>6. ASSUME NEW c \in Client,
             Type(c) \/ TakeReply(c) \/ Timeout(c) \/ PrintResponses(c)
      PROVE  UNCHANGED <<answer, ledger>>
  BY <1>6 DEF Type, TakeReply, Timeout, PrintResponses, clusterVars
<1>7. ASSUME NEW c \in Client, NEW s \in Server,
             ClientReceive(c, s) \/ ConnectTo(c, s) \/ Redirect(s, c)
      PROVE  UNCHANGED <<answer, ledger>>
  BY <1>7 DEF ClientReceive, ConnectTo, Redirect, clusterVars
<1>8. ASSUME NEW s \in Server,
             StepDown(s) \/ BecomeLeader(s) \/ HearLeader(s) \/ Restart(s)
      PROVE  UNCHANGED <<answer, ledger>>
  BY <1>8 DEF StepDown, BecomeLeader, HearLeader, Restart, clusterVars
<1>9. CASE UNCHANGED vars  BY <1>2, <1>9 DEF vars, clusterVars
<1> QED  BY <1>2, <1>3, <1>4, <1>5, <1>6, <1>7, <1>8, <1>9 DEF Next

\* The turns of state.cpp that touch client_req_queue keep what OneLedger
\* promises: a request is taken once, answered once at most and executed once
\* at most, however often clients time out, retry and are sent elsewhere.
THEOREM PromiseKept == Spec => KeepsPromise
<1>1. SessionInv /\ SessionInv' /\ [Next]_vars => [Promised!Next]_(Promised!vars)
  BY PromiseStep
<1> QED
  BY <1>1, PromiseInit, SessionInvariant, PTL DEF Spec, KeepsPromise, Promised!Spec
=============================================================================
