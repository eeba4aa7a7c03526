---------------------------- MODULE LossyChannel ----------------------------
(***************************************************************************)
(* What the replica network promises, and what net of module Raft takes    *)
(* for granted: from each server to each other one a first-in-first-out    *)
(* channel that may lose messages, and neither repeats nor reorders them.  *)
(* (Raft loses a message when it has come to the head of its channel; one  *)
(* lost earlier is never seen by anybody either.)                          *)
(***************************************************************************)
EXTENDS Sequences, Naturals

CONSTANTS Replica, Message

VARIABLE chan

\* q2 is q without some of its messages: f says where those that stay were.
Thinned(q2, q) ==
    \/ q2 = q
    \/ \E f \in [DOMAIN q2 -> DOMAIN q] :
        /\ \A k, l \in DOMAIN q2 : k < l => f[k] < f[l]
        /\ \A k \in DOMAIN q2 : q2[k] = q[f[k]]

Init == chan = [i \in Replica |-> [j \in Replica |-> <<>>]]

Send == \E i, j \in Replica, m \in Message :
    chan' = [chan EXCEPT ![i][j] = Append(@, m)]
Receive == \E i, j \in Replica :
    chan[i][j] # <<>> /\ chan' = [chan EXCEPT ![i][j] = Tail(@)]

\* Messages of any channels are lost.
Lose == \A i, j \in Replica : Thinned(chan'[i][j], chan[i][j])

Spec == Init /\ [][Lose \/ Receive \/ Send]_chan
=============================================================================
