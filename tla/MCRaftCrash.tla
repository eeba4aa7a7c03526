---------------------------- MODULE MCRaftCrash -----------------------------
(* Three servers that may restart, for TLC.                                *)
EXTENDS RaftCrash, TLC

Symmetry ==
    Permutations(Starters \ {DefaultLeader})
    \cup Permutations(Server \ (Starters \cup {DefaultLeader}))
    \cup Permutations(Request)
=============================================================================
