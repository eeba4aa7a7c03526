----------------------------- MODULE RaftCrash ------------------------------
(***************************************************************************)
(* Raft with servers that die and are started again.  The constructor of   *)
(* Server reads the chain, the committed index and the balance table back  *)
(* from their files, which every change to them has rewritten; everything  *)
(* else starts from its initial value.  Deaths here fall between two turns *)
(* of a run() loop; Ledger has those in the middle of one.                 *)
(***************************************************************************)
EXTENDS RaftInv

CONSTANT MaxRestarts    \* bound: restarts of all servers together

VARIABLE restarts

crashVars == <<vars, restarts>>

\* bal_tab.load_file: the table as it was last written.
ReloadedTable(s) == balTab[s]

\* Of what was under way to s any suffix may still reach it: what had got to
\* its queue or the mesh's is gone (Lose), what had not is delivered later.
Restart(s) ==
    /\ restarts < MaxRestarts
    /\ restarts' = restarts + 1
    /\ role' = [role EXCEPT ![s] = "Follower"]
    /\ currTerm' = [currTerm EXCEPT ![s] = 0]
    /\ votedCandidate' = [votedCandidate EXCEPT ![s] = None]
    /\ currLeader' = [currLeader EXCEPT ![s] = DefaultLeader]
    /\ balTab' = [balTab EXCEPT ![s] = ReloadedTable(s)]
    /\ DropStateObject(s)
    /\ UNCHANGED <<bcLog, committedIndex, net, answer, electionHist, commitHist>>

CrashInit == Init /\ restarts = 0

CrashNext ==
    \/ Next /\ UNCHANGED restarts
    \/ \E s \in Server : Restart(s)

CrashSpec == CrashInit /\ [][CrashNext]_crashVars
=============================================================================
