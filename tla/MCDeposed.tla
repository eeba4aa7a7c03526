----------------------------- MODULE MCDeposed ------------------------------
(***************************************************************************)
(* Three servers from the point on where the chains of two leaders differ: *)
(* Old, the leader of term 1, is cut off with a block nobody else holds,   *)
(* and New has committed another one in its place in term 2.               *)
(* From Init: Old is elected by the default leader, takes a request whose  *)
(* appends are lost, and gives up; New is elected by the default leader,   *)
(* whose append reply lets it commit; heartbeats are lost.                 *)
(***************************************************************************)
EXTENDS RaftLedger, TLC

CONSTANTS
    Old, New,       \* the leaders of terms 1 and 2
    Orphan, Kept    \* their requests

Voter == DefaultLeader
OrphanBlock == [term |-> 1, txn |-> Orphan]
KeptBlock == [term |-> 2, txn |-> Kept]

DeposedInit ==
    /\ role = [s \in Server |-> IF s = Voter THEN "Follower" ELSE "Leader"]
    /\ currTerm = [s \in Server |-> IF s = Old THEN 1 ELSE 2]
    /\ votedCandidate = [s \in Server |-> IF s = Old THEN Old ELSE New]
    /\ currLeader = [s \in Server |-> s]
    /\ bcLog = [s \in Server |->
                    IF s = Old THEN <<OrphanBlock>> ELSE <<KeptBlock>>]
    /\ committedIndex = [s \in Server |-> IF s = New THEN 0 ELSE -1]
    /\ balTab = [s \in Server |-> IF s = New THEN <<Kept>> ELSE <<>>]
    /\ voteCount = [s \in Server |-> 0]
    /\ nextIndex = [s \in Server |-> [j \in Server |->
                        IF s = New /\ j = Voter THEN 1 ELSE 0]]
    /\ serving = [s \in Server |-> None]
    /\ numAccept = [s \in Server |-> 0]
    /\ net = [i \in Server |-> [j \in Server |-> <<>>]]
    /\ answer = [r \in Request |-> CASE r = Orphan -> "failed"
                                     [] r = Kept -> "succeed"
                                     [] OTHER -> "unsent"]
    /\ votes = {<<1, Old, Old>>, <<1, Voter, Old>>,
                <<2, New, New>>, <<2, Voter, New>>}
    /\ elected = {<<1, Old>>, <<2, New>>}
    /\ accepted = {<<Old, 0, OrphanBlock>>, <<New, 0, KeptBlock>>,
                   <<Voter, 0, KeptBlock>>}
    /\ commits = {<<0, KeptBlock>>}
    /\ allStored = TRUE

DeposedSpec == DeposedInit /\ [][Next]_vars
=============================================================================
