----------------------------- MODULE OneLedger ------------------------------
(***************************************************************************)
(* What the cluster promises its clients, with no servers' chains, terms   *)
(* or messages: one ledger that only grows and holds a request at most     *)
(* once, tables that follow it, and answers that agree with it.  A request *)
(* that was told to have failed, or nothing at all, may still enter the    *)
(* ledger: the code promises no more (LeaderGiveUp of module Raft keeps    *)
(* the block).                                                             *)
(***************************************************************************)
EXTENDS Sequences, SequencesExt, Functions

CONSTANTS Server, Request

VARIABLES
    ledger,     \* the requests executed so far, in the order all agree on
    table,      \* for each server, what it has executed of them
    answer      \* "unsent", "taken" by a leader, "succeed" or "failed"

vars == <<ledger, table, answer>>

Init == /\ ledger = <<>>
        /\ table = [s \in Server |-> <<>>]
        /\ answer = [r \in Request |-> "unsent"]

Taken == {r \in Request : answer[r] # "unsent"}

\* New requests enter at the end, each one once and after it was taken.
Grow == /\ IsPrefix(ledger, ledger')
        /\ IsInjective(ledger')
        /\ Range(ledger') \subseteq Range(ledger) \cup Taken

\* The tables follow the ledger, each in its own time.
Follow == \A s \in Server : /\ IsPrefix(table[s], table'[s])
                            /\ IsPrefix(table'[s], ledger')

Take(r) == /\ answer[r] = "unsent"
           /\ answer' = [answer EXCEPT ![r] = "taken"]
           /\ UNCHANGED <<ledger, table>>

GiveUp(r) == /\ answer[r] = "taken"
             /\ answer' = [answer EXCEPT ![r] = "failed"]
             /\ UNCHANGED <<ledger, table>>

\* A leader executes its chain and confirms the request it served.
Commit(s, r) ==
    /\ answer[r] = "taken"
    /\ Grow
    /\ Follow
    /\ r \in Range(table'[s])
    /\ answer' = [answer EXCEPT ![r] = "succeed"]

\* Servers learn that some of the ledger is committed.
CatchUp == Follow /\ UNCHANGED <<ledger, answer>>

Next == \/ CatchUp
        \/ \E r \in Request : Take(r) \/ GiveUp(r)
        \/ \E s \in Server, r \in Request : Commit(s, r)

Spec == Init /\ [][Next]_vars
=============================================================================
