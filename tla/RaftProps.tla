----------------------------- MODULE RaftProps ------------------------------
(* What the servers of Raft guarantee one another and their clients.       *)
EXTENDS Raft

\* Two servers never enter LeaderState in the same term, not even one after
\* the other has left it.
ElectionSafety ==
    \A e1, e2 \in elected : e1[1] = e2[1] => e1 = e2

\* Two chains that hold blocks of one term at one index are equal up to it:
\* what the prev_log_term test of the append handler is for.
LogMatching ==
    \A a, b \in Server :
        \A k \in 1 .. Len(bcLog[a]) :
            k <= Len(bcLog[b]) /\ bcLog[a][k].term = bcLog[b][k].term
                => SubSeq(bcLog[a], 1, k) = SubSeq(bcLog[b], 1, k)

\* As long as every commit found its block accepted by a majority in the
\* block's own term, a committed block is in the chain of every leader of its
\* term or a later one: what the comparison of chains in the vote handler is
\* for.
LeaderCompleteness ==
    allStored =>
        \A s \in Server, c \in commits :
            role[s] = "Leader" /\ currTerm[s] >= c[2].term
                => c[1] <= LastIndex(bcLog[s]) /\ BlockAt(bcLog[s], c[1]) = c[2]

\* Under the same condition each balance table is the outcome of exactly the
\* committed part of the server's own chain, in order and once each.
TableMatchesChain ==
    allStored =>
        \A s \in Server :
            /\ committedIndex[s] <= LastIndex(bcLog[s])
            /\ balTab[s] = [k \in 1 .. committedIndex[s] + 1 |-> bcLog[s][k].txn]

\* Under the same condition no two servers execute different transactions at
\* the same place.
TablesAgree ==
    allStored =>
        \A a, b \in Server : \A k \in 1 .. Len(balTab[a]) :
            k <= Len(balTab[b]) => balTab[a][k] = balTab[b][k]

\* Under the same condition a server never gives up or replaces a block it has
\* committed, although clean_up_blocks cuts below the committed index.
KeepsCommitted ==
    allStored' => \A s \in Server :
        /\ committedIndex'[s] >= committedIndex[s]
        /\ SubSeq(bcLog'[s], 1, committedIndex[s] + 1)
              = SubSeq(bcLog[s], 1, committedIndex[s] + 1)
CommittedStays == [][KeepsCommitted]_vars
=============================================================================
