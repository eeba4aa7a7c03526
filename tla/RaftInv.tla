------------------------------ MODULE RaftInv -------------------------------
(***************************************************************************)
(* The inductive invariants behind the type invariant and the properties   *)
(* of RaftProps: elections, links of chains, how chains grow, what is      *)
(* chosen and what is executed.                                            *)
(***************************************************************************)
EXTENDS RaftProps

-----------------------------------------------------------------------------
(* What TypeOK needs to be inductive.                                      *)

\* Only a leader waits on a request, and its chain then ends with the block of
\* that request or a later one; a retry offers a block the chain has.
LeaderShape ==
    \A s \in Server :
        /\ serving[s] # None => role[s] = "Leader" /\ bcLog[s] # <<>>
        /\ \A j \in Server : nextIndex[s][j] <= Len(bcLog[s])
        /\ role[s] # "Leader" => \A j \in Server : nextIndex[s][j] = 0

TypeInv == TypeOK /\ LeaderShape

-----------------------------------------------------------------------------
(* Elections.                                                              *)

\* Where a channel holds a request for a vote, or a vote, of term t.
Asks(q, t) ==
    {k \in DOMAIN q : q[k].type = "REQ_VOTE_RPC" /\ q[k].term = t}
Grants(q, t) ==
    {k \in DOMAIN q : /\ q[k].type = "REQ_VOTE_RPL"
                      /\ q[k].term = t
                      /\ q[k].granted}

\* No server sends itself a message.
NoLoop == \A s \in Server : net[s][s] = <<>>

\* A candidate asks for votes of its own past and present terms only, and once
\* per term; f's vote is on its way only after the request was consumed.
AsksOnce ==
    \A c, f \in Server, t \in Term :
        /\ Asks(net[c][f], t) # {} => t <= currTerm[c]
        /\ \A k, l \in Asks(net[c][f], t) : k = l
        /\ \A k, l \in Grants(net[f][c], t) : k = l
        /\ Asks(net[c][f], t) # {} => Grants(net[f][c], t) = {}

\* A vote on its way was cast, for a term its candidate has reached.
GrantsCast ==
    \A c, f \in Server, t \in Term :
        Grants(net[f][c], t) # {} => <<t, f, c>> \in votes /\ t <= currTerm[c]

\* The voter remembers its vote as long as it stays in the term.
VotesRemembered ==
    \A t \in Term : \A f, c \in Server :
        <<t, f, c>> \in votes =>
            t <= currTerm[f] /\ (t = currTerm[f] => votedCandidate[f] = c)

OneVotePerTerm ==
    \A t \in Term : \A f, c, d \in Server :
        <<t, f, c>> \in votes /\ <<t, f, d>> \in votes => c = d

\* V voted for c in term t.
VotedBy(V, t, c) == \A f \in V : <<t, f, c>> \in votes

\* Nothing of the vote of f for c in term t is still under way.
Settled(c, f, t) == Asks(net[c][f], t) = {} /\ Grants(net[f][c], t) = {}

\* A candidate's count is the number of servers whose votes it has received.
CountedVotes ==
    \A c \in Server : role[c] = "Candidate" =>
        \E V \in SUBSET Server :
            /\ Cardinality(V) = voteCount[c]
            /\ VotedBy(V, currTerm[c], c)
            /\ \A f \in V : Settled(c, f, currTerm[c])

\* A leader was elected by a majority.
ElectedByMajority ==
    \A t \in Term : \A c \in Server : <<t, c>> \in elected =>
        \E V \in SUBSET Server :
            Cardinality(V) >= Majority /\ VotedBy(V, t, c)

ElectionInv ==
    /\ NoLoop /\ AsksOnce /\ GrantsCast
    /\ VotesRemembered /\ OneVotePerTerm
    /\ CountedVotes /\ ElectedByMajority

-----------------------------------------------------------------------------
(* Chains.                                                                 *)

\* One link of a chain: the place, the block, and the term of the block before
\* it.  A first block follows term 0, as LastTerm has it.
Link(k, block, before) == [at |-> k, block |-> block, after |-> before]

TermBefore(log, k) == IF k = 1 THEN 0 ELSE log[k - 1].term
ChainLinks(log) == {Link(k, log[k], TermBefore(log, k)) : k \in DOMAIN log}

\* The links that an append RPC gives a chain it fits.
OfferedBefore(m, e) ==
    IF e > 1 THEN m.entries[e - 1].term
    ELSE IF m.prevLogIndex = -1 THEN 0 ELSE m.prevLogTerm
OfferLinks(m) ==
    {Link(m.prevLogIndex + 1 + e, m.entries[e], OfferedBefore(m, e)) :
        e \in DOMAIN m.entries}

UnderWay(q) == {q[k] : k \in DOMAIN q}

Offers(n) ==
    {m \in UNION {UnderWay(n[p[1]][p[2]]) : p \in Server \X Server} :
        m.type = "APP_ENTR_RPC"}

Links ==
    (UNION {ChainLinks(bcLog[s]) : s \in Server})
        \cup (UNION {OfferLinks(m) : m \in Offers(net)})

\* A place and a term determine the block and the term before it, in chains
\* and in appends under way.
LinkUnique ==
    \A l1, l2 \in Links :
        l1.at = l2.at /\ l1.block.term = l2.block.term => l1 = l2

\* Blocks are of terms that had a leader, and while it leads it has them all.
LinksElected ==
    \A l \in Links : \E s \in Server : <<l.block.term, s>> \in elected
LeaderHasLinks ==
    \A s \in Server : role[s] = "Leader" =>
        \A l \in Links :
            l.block.term = currTerm[s] => l \in ChainLinks(bcLog[s])

LeaderElected ==
    \A s \in Server : role[s] = "Leader" => <<currTerm[s], s>> \in elected
ElectedPast ==
    \A s \in Server, t \in Term : <<t, s>> \in elected =>
        t <= currTerm[s] /\ (role[s] = "Candidate" => t < currTerm[s])

LogInv == /\ LinkUnique /\ LinksElected /\ LeaderHasLinks
          /\ LeaderElected /\ ElectedPast
-----------------------------------------------------------------------------
(* How chains grow.                                                        *)

\* Append RPCs that bring blocks, and where those end in a chain they fit.
IsAppend(m) == m.type = "APP_ENTR_RPC" /\ m.entries # <<>>
EndOf(m) == m.prevLogIndex + 1 + Len(m.entries)

\* Terms never fall along a chain, and its server has reached them all; the
\* same of what is offered and of where it is offered.
TermsClimb ==
    \A s \in Server : \A k \in DOMAIN bcLog[s] :
        /\ bcLog[s][k].term <= currTerm[s]
        /\ \A j \in 1 .. k : bcLog[s][j].term <= bcLog[s][k].term
OffersClimb ==
    \A m \in Offers(net) : \A e \in DOMAIN m.entries :
        /\ m.entries[e].term <= m.term
        /\ \A d \in 1 .. e : m.entries[d].term <= m.entries[e].term
        /\ m.prevLogIndex # -1 => m.prevLogTerm <= m.entries[e].term

\* A leader that waits has a block of its own term at the end, so that an
\* append RPC, repeated or not, brings one of its own term last.
ServesOwnBlock ==
    \A s \in Server : serving[s] # None => LastTerm(bcLog[s]) = currTerm[s]
OffersOwnBlock ==
    \A m \in Offers(net) :
        m.entries # <<>> => m.entries[Len(m.entries)].term = m.term

\* Only leaders offer blocks.
OffersElected ==
    \A i, j \in Server : \A k \in DOMAIN net[i][j] :
        net[i][j][k].type = "APP_ENTR_RPC" => <<net[i][j][k].term, i>> \in elected

\* Of one leader's appends to one follower the later ones reach further, and
\* none falls short of what the follower already has of that term.
OffersInOrder ==
    \A i, j \in Server : \A k \in DOMAIN net[i][j] : IsAppend(net[i][j][k]) =>
        \A l \in DOMAIN net[i][j] :
            l > k /\ IsAppend(net[i][j][l])
                /\ net[i][j][l].term = net[i][j][k].term =>
                    EndOf(net[i][j][k]) <= EndOf(net[i][j][l])
OffersReachOn ==
    \A i, j \in Server : \A k \in DOMAIN net[i][j] :
        IsAppend(net[i][j][k]) /\ currTerm[j] <= net[i][j][k].term =>
            \A p \in DOMAIN bcLog[j] :
                bcLog[j][p].term = net[i][j][k].term => p <= EndOf(net[i][j][k])

\* A chain with a block of a term has every block of that term below it, and
\* an append RPC brings them or follows one of them.
ChainsFull ==
    \A s \in Server : \A k \in DOMAIN bcLog[s] : \A l \in Links :
        l.block.term = bcLog[s][k].term /\ l.at <= k => l \in ChainLinks(bcLog[s])
OffersFull ==
    \A m \in Offers(net) : \A e \in DOMAIN m.entries : \A l \in Links :
        l.block.term = m.entries[e].term /\ l.at <= m.prevLogIndex + 1 + e =>
            IF l.at <= m.prevLogIndex + 1 THEN m.prevLogTerm = l.block.term
            ELSE l \in OfferLinks(m)

GrowthInv == /\ TermsClimb /\ OffersClimb
             /\ ServesOwnBlock /\ OffersOwnBlock /\ OffersElected
             /\ OffersInOrder /\ OffersReachOn
             /\ ChainsFull /\ OffersFull

-----------------------------------------------------------------------------
(* What is chosen stays.                                                   *)

\* A candidate asks with the chain it has, and votes are for terms reached.
AsksWithChain ==
    \A c, f \in Server : \A k \in DOMAIN net[c][f] :
        net[c][f][k].type = "REQ_VOTE_RPC" /\ role[c] = "Candidate"
            /\ net[c][f][k].term = currTerm[c] =>
                /\ net[c][f][k].lastLogTerm = LastTerm(bcLog[c])
                /\ net[c][f][k].lastLogIndex = LastIndex(bcLog[c])
VotesReached ==
    \A t \in Term : \A f, c \in Server : <<t, f, c>> \in votes => t <= currTerm[c]

Holds(log, index, block) ==
    index \in 0 .. LastIndex(log) /\ BlockAt(log, index) = block

\* A majority has left the block's term without accepting it: it can no longer
\* be accepted by a majority.
Dead(index, block) ==
    \E W \in SUBSET Server :
        /\ Cardinality(W) >= Majority
        /\ \A w \in W : currTerm[w] > block.term /\ w \notin AcceptedBy(index, block)

\* Whoever has accepted it still has it; so have all chains with a later block,
\* all later leaders, and candidates with a vote of one that accepted it; later
\* append RPCs bring it or go on from it.
KeptByAccepters(index, block) ==
    \A q \in AcceptedBy(index, block) : Holds(bcLog[q], index, block)
BelowLaterBlocks(index, block) ==
    \A s \in Server : \A k \in DOMAIN bcLog[s] :
        bcLog[s][k].term > block.term => Holds(bcLog[s], index, block)
HeldByLaterLeaders(index, block) ==
    \A s \in Server : role[s] = "Leader" /\ currTerm[s] > block.term
        => Holds(bcLog[s], index, block)
HeldByVotedFor(index, block) ==
    \A q \in AcceptedBy(index, block), c \in Server :
        role[c] = "Candidate" /\ currTerm[c] > block.term
            /\ <<currTerm[c], q, c>> \in votes => Holds(bcLog[c], index, block)
Covers(m, index, block) ==
    IF index <= m.prevLogIndex THEN block.term <= m.prevLogTerm
    ELSE /\ index < EndOf(m)
         /\ m.entries[index - m.prevLogIndex] = block
OfferedLater(index, block) ==
    \A m \in Offers(net) :
        m.entries # <<>> /\ m.term > block.term => Covers(m, index, block)

Safe(index, block) ==
    /\ KeptByAccepters(index, block) /\ BelowLaterBlocks(index, block)
    /\ HeldByLaterLeaders(index, block) /\ HeldByVotedFor(index, block)
    /\ OfferedLater(index, block)

\* Every link was accepted by somebody, and only in terms reached.
LinksAccepted ==
    \A l \in Links : \E q \in Server : <<q, l.at - 1, l.block>> \in accepted
AcceptedReached ==
    \A a \in accepted : a[3].term <= currTerm[a[1]]

ChosenInv ==
    /\ AsksWithChain /\ VotesReached /\ LinksAccepted /\ AcceptedReached
    /\ \A a \in accepted : Dead(a[2], a[3]) \/ Safe(a[2], a[3])

-----------------------------------------------------------------------------
(* What is executed.                                                       *)

CommitsAccepted ==
    \A c \in commits : Cardinality(AcceptedBy(c[1], c[2])) >= Majority

\* A server's committed index is that of a commit whose block it has, and a
\* heartbeat tells of one that the chain it describes has.
CommittedHeld ==
    \A s \in Server : committedIndex[s] # -1 =>
        \E c \in commits : c[1] = committedIndex[s] /\ Holds(bcLog[s], c[1], c[2])
HeartbeatsHeld ==
    \A m \in Offers(net) : m.commitIndex # -1 /\ m.entries = <<>> =>
        \E c \in commits : /\ c[1] = m.commitIndex
                           /\ c[1] <= m.prevLogIndex
                           /\ c[2].term <= m.prevLogTerm

CommitInv ==
    allStored => /\ CommitsAccepted /\ CommittedHeld /\ HeartbeatsHeld
                 /\ TableMatchesChain

-----------------------------------------------------------------------------
(* What clients are told.                                                  *)

\* A request enters a chain when a leader takes it, and then only once: the
\* block of a request has one place, wherever it is found.
TakenLinks == \A l \in Links : answer[l.block.txn] # "unsent"
TxnOnce == \A l1, l2 \in Links : l1.block.txn = l2.block.txn => l1 = l2

\* A leader waits on a request it took, whose block ends its chain, and on no
\* other leader's.
ServesTaken ==
    \A s \in Server : serving[s] # None =>
        /\ answer[serving[s]] = "taken"
        /\ bcLog[s][Len(bcLog[s])].txn = serving[s]
ServesApart ==
    \A s, q \in Server : serving[s] # None /\ serving[s] = serving[q] => s = q

\* What was committed was executed, by some server, as far.
CommitsExecuted ==
    allStored => \A c \in commits : \E s \in Server : c[1] <= committedIndex[s]

\* One of the tables is as long as any.
Longest(s) == \A q \in Server : Len(balTab[q]) <= Len(balTab[s])
SomeLongest == \E s \in Server : Longest(s)

LedgerInv == /\ TakenLinks /\ TxnOnce /\ ServesTaken /\ ServesApart
             /\ CommitsExecuted /\ SomeLongest
=============================================================================
