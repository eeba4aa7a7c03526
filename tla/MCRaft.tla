------------------------------- MODULE MCRaft -------------------------------
(* Small sets of servers and requests for TLC.  Apart from the default     *)
(* leader, the servers that may start elections are interchangeable, those *)
(* that may not are, and so are the requests.                              *)
EXTENDS RaftLedger, TLC

Symmetry ==
    Permutations(Starters \ {DefaultLeader})
    \cup Permutations(Server \ (Starters \cup {DefaultLeader}))
    \cup Permutations(Request)
=============================================================================
