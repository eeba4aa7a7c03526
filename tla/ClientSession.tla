--------------------------- MODULE ClientSession ----------------------------
(***************************************************************************)
(* Clients at their terminals, and what the servers do with their          *)
(* requests: client.cpp, the client side of network.cpp, and the turns of  *)
(* state.cpp's loops that touch client_req_queue.  The cluster itself is   *)
(* reduced to a ledger (module OneLedger) and to servers that are elected, *)
(* hear of one another, step down and die.                                 *)
(*                                                                         *)
(* A request is one command as it was typed.  The code sends request id 0  *)
(* with each, so that nothing but its kind ties a response to a request:   *)
(* nr is history, and a command that is typed again, as the user is told   *)
(* to after a timeout, is another request to the servers.                  *)
(* reqs[c][s] is the stream from client c to server s and c's part of      *)
(* client_req_queue there (the queue merges the streams in any order);     *)
(* rsps[s][c] is the stream back.  Timers are not measured: a timeout may  *)
(* happen whenever its loop runs.                                          *)
(***************************************************************************)
EXTENDS Naturals, Sequences, SequencesExt, Functions

CONSTANTS
    Client, Server,
    DefaultLeader,  \* server 0, the first leader_id of clients and servers
    None,           \* no command waited on, no request served
    Kinds,          \* the commands in use: "TRANSACTION", "BALANCE"
    MaxCommands,    \* bound: commands typed at one client
    MaxElections,   \* bound: leaders elected
    MaxRestarts     \* bound: servers that die and start again

ASSUME LeaderAssumption == DefaultLeader \in Server
ASSUME KindAssumption == Kinds \subseteq {"TRANSACTION", "BALANCE"}
ASSUME BoundAssumption ==
    MaxCommands \in Nat /\ MaxElections \in Nat /\ MaxRestarts \in Nat

VARIABLES
    leaderId,       \* Client::leader_id
    waiting,        \* the command client_wait_reply waits for, or None
    typed,          \* commands typed so far
    responses,      \* response_queue
    link,           \* the connection of c and s is up
    reqs, rsps,
    role,           \* "Leader" or "Follower"; a candidate leaves its requests
                    \* alone, as does a follower that takes no turn
    led,            \* history: the leaders elected, in order
    heard,          \* the place in led of curr_leader, 0 for the default
    serving,        \* the request a leader waits on, or None
    restarts,
    ledger, answer, \* as in OneLedger
    shown           \* history: the answers shown to each user, in order

clientVars == <<leaderId, waiting, typed, responses, shown>>
wireVars == <<link, reqs, rsps>>
serverVars == <<role, led, heard, serving, restarts>>
clusterVars == <<ledger, answer>>
vars == <<clientVars, wireVars, serverVars, clusterVars>>

Request == [client: Client, nr: 1 .. MaxCommands, kind: Kinds]
ASSUME NoneAssumption == None \notin Request

\* Which request it answers is history too.
Answer == [type: {"RESPONSE"}, req: Request, succeed: BOOLEAN]
LeaderChange == [type: {"LEADER_CHANGE"}, leader: Server]

TypeOK ==
    /\ leaderId \in [Client -> Server]
    /\ waiting \in [Client -> Request \cup {None}]
    /\ typed \in [Client -> 0 .. MaxCommands]
    /\ responses \in [Client -> Seq(Answer)]
    /\ link \in [Client -> [Server -> BOOLEAN]]
    /\ reqs \in [Client -> [Server -> Seq(Request)]]
    /\ rsps \in [Server -> [Client -> Seq(Answer \cup LeaderChange)]]
    /\ role \in [Server -> {"Follower", "Leader"}]
    /\ led \in Seq(Server)
    /\ heard \in [Server -> 0 .. Len(led)]
    /\ serving \in [Server -> Request \cup {None}]
    /\ restarts \in 0 .. MaxRestarts
    /\ ledger \in Seq(Request)
    /\ answer \in [Request -> {"unsent", "taken", "succeed", "failed"}]
    /\ shown \in [Client -> Seq([asked: Request, got: Answer])]

-----------------------------------------------------------------------------
(* The client program.                                                     *)

\* send_transaction and send_balance: to the guessed leader, or to nobody.
Send(c, r) ==
    reqs' = IF link[c][leaderId[c]]
            THEN [reqs EXCEPT ![c][leaderId[c]] = Append(@, r)]
            ELSE reqs

\* The user types a command, be it a new one or one again.
Type(c) ==
    \E kind \in Kinds :
        LET r == [client |-> c, nr |-> typed[c] + 1, kind |-> kind] IN
        /\ waiting[c] = None
        /\ typed[c] < MaxCommands
        /\ Send(c, r)
        /\ waiting' = [waiting EXCEPT ![c] = r]
        /\ typed' = [typed EXCEPT ![c] = @ + 1]
        /\ UNCHANGED <<leaderId, responses, shown, link, rsps,
                       serverVars, clusterVars>>

\* client_wait_reply returns the first response there is, whatever it answers;
\* one of the other kind makes main throw the whole queue away.
PopNothing(q) == [response |-> Head(q), rest |-> q]
PopResponse(q) == [response |-> Head(q), rest |-> Tail(q)]

TakeReply(c) ==
    LET popped == PopResponse(responses[c])
        response == popped.response
        fits == response.req.kind = waiting[c].kind
    IN
    /\ waiting[c] # None
    /\ responses[c] # <<>>
    /\ responses' = [responses EXCEPT ![c] = IF fits THEN popped.rest
                                                ELSE <<>>]
    /\ shown' = IF fits
                THEN [shown EXCEPT ![c] =
                        Append(@, [asked |-> waiting[c], got |-> response])]
                ELSE shown
    /\ waiting' = [waiting EXCEPT ![c] = None]
    /\ UNCHANGED <<leaderId, typed, wireVars, serverVars, clusterVars>>

\* CLIENT_REQ_TIMEOUT_MS without a response: "please retry".
Timeout(c) ==
    /\ waiting[c] # None
    /\ responses[c] = <<>>
    /\ waiting' = [waiting EXCEPT ![c] = None]
    /\ UNCHANGED <<leaderId, typed, responses, shown, wireVars, serverVars,
                   clusterVars>>

\* The command p empties the queue.
PrintResponses(c) ==
    /\ waiting[c] = None
    /\ responses[c] # <<>>
    /\ responses' = [responses EXCEPT ![c] = <<>>]
    /\ UNCHANGED <<leaderId, waiting, typed, shown, wireVars,
                   serverVars, clusterVars>>

\* recv_handler: a leader change takes effect at once, a response is queued.
ClientReceive(c, s) ==
    /\ rsps[s][c] # <<>>
    /\ LET m == Head(rsps[s][c]) IN
        IF m.type = "LEADER_CHANGE"
        THEN /\ leaderId' = [leaderId EXCEPT ![c] = m.leader]
             /\ UNCHANGED responses
        ELSE /\ responses' = [responses EXCEPT ![c] = Append(@, m)]
             /\ UNCHANGED leaderId
    /\ rsps' = [rsps EXCEPT ![s][c] = Tail(@)]
    /\ UNCHANGED <<waiting, typed, shown, link, reqs, serverVars,
                   clusterVars>>

\* conn_handler and client_wait_handler, once the old connection is read out.
ConnectTo(c, s) ==
    /\ ~link[c][s]
    /\ rsps[s][c] = <<>>
    /\ link' = [link EXCEPT ![c][s] = TRUE]
    /\ UNCHANGED <<clientVars, reqs, rsps, serverVars, clusterVars>>

-----------------------------------------------------------------------------
(* The servers.                                                            *)

CurrLeaderOrNone(s) == IF heard[s] = 0 THEN None ELSE led[heard[s]]
CurrLeader(s) == IF heard[s] = 0 THEN DefaultLeader ELSE led[heard[s]]

\* client_send_message: dropped when the client is not connected.
Respond(s, c, m) ==
    rsps' = IF link[c][s] THEN [rsps EXCEPT ![s][c] = Append(@, m)] ELSE rsps

\* client_pop_request: the earliest request of c is off the queue.
PopRequestLeft(c, s) == reqs
PopRequest(c, s) == [reqs EXCEPT ![c][s] = Tail(@)]

\* A follower sends the client to the leader it has heard of last, or to the
\* default one, and forgets the request.
Redirect(s, c) ==
    /\ role[s] = "Follower"
    /\ reqs[c][s] # <<>>
    /\ reqs' = PopRequest(c, s)
    /\ Respond(s, c, [type |-> "LEADER_CHANGE", leader |-> CurrLeader(s)])
    /\ UNCHANGED <<clientVars, link, serverVars, clusterVars>>

\* A leader appends the request to its chain.
TakeRequest(s, c) ==
    /\ role[s] = "Leader"
    /\ serving[s] = None
    /\ reqs[c][s] # <<>>
    /\ LET r == Head(reqs[c][s]) IN
        /\ serving' = [serving EXCEPT ![s] = r]
        /\ answer' = [answer EXCEPT ![r] = "taken"]
    /\ reqs' = PopRequest(c, s)
    /\ UNCHANGED <<clientVars, link, rsps, role, led, heard, restarts, ledger>>

\* Requests that lie in some chain and are not executed yet.
Pending == {r \in Request : answer[r] # "unsent"} \ Range(ledger)

\* The leader answers what it served, with success or without.
Finish(s, ok) ==
    LET r == serving[s] IN
    /\ answer' = [answer EXCEPT ![r] = IF ok THEN "succeed" ELSE "failed"]
    /\ Respond(s, r.client, [type |-> "RESPONSE", req |-> r, succeed |-> ok])
    /\ serving' = [serving EXCEPT ![s] = None]
    /\ UNCHANGED <<clientVars, link, reqs, role, led, heard, restarts>>

\* The leader commits its whole chain: blocks of earlier requests, given up
\* or left by other leaders, are executed before the one it serves, which
\* another leader may have executed already.
Commit(s) ==
    /\ serving[s] # None
    /\ IF serving[s] \in Range(ledger)
       THEN UNCHANGED ledger
       ELSE \E S \in SUBSET (Pending \ {serving[s]}) :
                \E before \in SetToSeqs(S) :
                    ledger' = ledger \o before \o <<serving[s]>>
    /\ Finish(s, TRUE)

\* No reply for LEADER_HANDLE_TIME_MS.
GiveUp(s) ==
    /\ serving[s] # None
    /\ UNCHANGED ledger
    /\ Finish(s, FALSE)

\* A higher term is seen; a request being served goes unanswered.
StepDown(s) ==
    /\ role[s] = "Leader"
    /\ role' = [role EXCEPT ![s] = "Follower"]
    /\ serving' = [serving EXCEPT ![s] = None]
    /\ UNCHANGED <<clientVars, wireVars, led, heard, restarts, clusterVars>>

\* s is elected and tells every client that it is connected to.
BecomeLeader(s) ==
    /\ role[s] = "Follower"
    /\ Len(led) < MaxElections
    /\ role' = [role EXCEPT ![s] = "Leader"]
    /\ led' = Append(led, s)
    /\ heard' = [heard EXCEPT ![s] = Len(led) + 1]
    /\ rsps' = [rsps EXCEPT ![s] = [c \in Client |->
                  IF link[c][s]
                  THEN Append(rsps[s][c], [type |-> "LEADER_CHANGE", leader |-> s])
                  ELSE rsps[s][c]]]
    /\ UNCHANGED <<clientVars, link, reqs, serving, restarts, clusterVars>>

\* A heartbeat of a leader not older than the last one heard of.
HearLeader(s) ==
    /\ role[s] = "Follower"
    /\ heard[s] < Len(led)
    /\ \E k \in heard[s] + 1 .. Len(led) : heard' = [heard EXCEPT ![s] = k]
    /\ UNCHANGED <<clientVars, wireVars, role, led, serving, restarts,
                   clusterVars>>

\* s dies and starts again.  Its queue is gone, its chain is not; what it had
\* written to a client arrives up to some point.
Restart(s) ==
    /\ restarts < MaxRestarts
    /\ restarts' = restarts + 1
    /\ role' = [role EXCEPT ![s] = "Follower"]
    /\ heard' = [heard EXCEPT ![s] = 0]
    /\ serving' = [serving EXCEPT ![s] = None]
    /\ link' = [c \in Client |-> [link[c] EXCEPT ![s] = FALSE]]
    /\ reqs' = [c \in Client |-> [reqs[c] EXCEPT ![s] = <<>>]]
    /\ \E kept \in [Client -> UNION {Prefixes(rsps[s][c]) : c \in Client}] :
        /\ \A c \in Client : IsPrefix(kept[c], rsps[s][c])
        /\ rsps' = [rsps EXCEPT ![s] = kept]
    /\ UNCHANGED <<clientVars, led, clusterVars>>

-----------------------------------------------------------------------------
Init ==
    /\ leaderId = [c \in Client |-> DefaultLeader]
    /\ waiting = [c \in Client |-> None]
    /\ typed = [c \in Client |-> 0]
    /\ responses = [c \in Client |-> <<>>]
    /\ link = [c \in Client |-> [s \in Server |-> FALSE]]
    /\ reqs = [c \in Client |-> [s \in Server |-> <<>>]]
    /\ rsps = [s \in Server |-> [c \in Client |-> <<>>]]
    /\ role = [s \in Server |-> "Follower"]
    /\ led = <<>>
    /\ heard = [s \in Server |-> 0]
    /\ serving = [s \in Server |-> None]
    /\ restarts = 0
    /\ ledger = <<>>
    /\ answer = [r \in Request |-> "unsent"]
    /\ shown = [c \in Client |-> <<>>]

Next ==
    \/ \E c \in Client : \/ Type(c) \/ TakeReply(c) \/ Timeout(c)
                         \/ PrintResponses(c)
    \/ \E c \in Client, s \in Server : \/ ClientReceive(c, s) \/ ConnectTo(c, s)
                                       \/ Redirect(s, c) \/ TakeRequest(s, c)
    \/ \E s \in Server : \/ Commit(s) \/ GiveUp(s) \/ StepDown(s)
                         \/ BecomeLeader(s) \/ HearLeader(s) \/ Restart(s)

Spec == Init /\ [][Next]_vars

-----------------------------------------------------------------------------
(* What the users may rely on, and what they may not.                      *)

\* Every success that a user is shown stands for one of the user's own
\* requests that was executed, and for a different one each time, although it
\* may be shown for the wrong command.
SuccessesExecuted ==
    \A c \in Client :
        LET good == {k \in DOMAIN shown[c] : shown[c][k].got.succeed} IN
        /\ \A k \in good : /\ shown[c][k].got.req.client = c
                           /\ shown[c][k].got.req \in Range(ledger)
        /\ \A k, l \in good :
                shown[c][k].got.req = shown[c][l].got.req => k = l

\* The servers' turns keep what the cluster promises: a request is taken once,
\* answered at most once, and executed at most once.
Promised == INSTANCE OneLedger WITH table <- [s \in Server |-> ledger]
KeepsPromise == Promised!Spec
=============================================================================
