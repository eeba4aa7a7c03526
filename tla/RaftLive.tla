------------------------------ MODULE RaftLive ------------------------------
(***************************************************************************)
(* What the servers of module Raft do in the end, when their threads keep  *)
(* running and the mesh loses few messages.                                *)
(*                                                                         *)
(* A run() loop pops one message after the other from the server's queue,  *)
(* looks at the clock on every turn, and the mesh delivers what it does    *)
(* not lose; so a message that can be handled is, a leader beats, and one  *)
(* that waits while no reply comes gives up.  Giving up at other times,    *)
(* election timers, requests and losses may happen and need not.           *)
(***************************************************************************)
EXTENDS Raft

CONSTANT MaxLosses      \* bound: messages the mesh loses

ASSUME LossAssumption == MaxLosses \in Nat

VARIABLE losses

liveVars == <<vars, losses>>

\* Bound: a heartbeat waits until the messages of the last are handled; its
\* period is HEARTBEAT_PERIOD_MS, twice the delays of a round trip.
Beat(s) ==
    /\ \A f \in Server : net[s][f] = <<>> /\ net[f][s] = <<>>
    /\ LeaderHeartbeat(s)

\* One turn of s's run() with a message from i.
Turn(s, i) ==
    \/ FollowerVote(s, i) \/ FollowerRejectStale(s, i)
    \/ FollowerHeartbeat(s, i) \/ FollowerAppend(s, i)
    \/ CandidateStepDown(s, i) \/ CandidateCountVote(s, i)
    \/ BecomeLeader(s, i)
    \/ LeaderStepDown(s, i) \/ LeaderNoteAccept(s, i)
    \/ LeaderCountAccept(s, i) \/ LeaderCommit(s, i) \/ LeaderRetry(s, i)
    \/ Ignore(s, i)

\* LEADER_HANDLE_TIME_MS pass with nothing on its way to s.
GiveUpInSilence(s) ==
    /\ \A i \in Server : net[i][s] = <<>>
    /\ LeaderGiveUp(s)

LiveInit == Init /\ losses = 0

LiveNext ==
    \/ /\ \/ \E s \in Server : BecomeCandidate(s) \/ Beat(s) \/ LeaderGiveUp(s)
          \/ \E s \in Server, r \in Request : LeaderTakeRequest(s, r)
          \/ \E s, i \in Server : Turn(s, i)
       /\ UNCHANGED losses
    \/ /\ losses < MaxLosses
       /\ losses' = losses + 1
       /\ \E i, j \in Server : Lose(i, j)

Fairness ==
    \A s \in Server :
        /\ WF_liveVars(Beat(s) /\ UNCHANGED losses)
        /\ WF_liveVars(GiveUpInSilence(s) /\ UNCHANGED losses)
        /\ \A i \in Server \ {s} : WF_liveVars(Turn(s, i) /\ UNCHANGED losses)

LiveSpec == LiveInit /\ [][LiveNext]_liveVars /\ Fairness

-----------------------------------------------------------------------------
(* Properties.                                                             *)

\* "keep running if without getting majority": the loop in which a leader
\* waits for its followers ends, although every reply of its term restarts the
\* clock and every failed one makes it send again.
WaitingEnds ==
    \A s \in Starters, r \in Request : serving[s] = r ~> serving[s] # r

\* What one server has executed every server executes in the end, unless a
\* message is lost: the heartbeat that tells of a commit comes after the blocks.
AllExecute ==
    \A f \in Server, k \in 1 .. Cardinality(Request) :
        (\E s \in Server : Len(balTab[s]) >= k)
            ~> Len(balTab[f]) >= k \/ losses > 0

\* A candidate is elected, or hears of the leader its term has, unless a message
\* is lost: two candidates do not both wait for votes the other one got.
CandidacyEnds ==
    \A s \in Starters :
        role[s] = "Candidate" ~> role[s] # "Candidate" \/ losses > 0
=============================================================================
