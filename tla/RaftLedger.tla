----------------------------- MODULE RaftLedger -----------------------------
(* Raft, as long as every commit finds its block accepted by a majority,   *)
(* implements the one ledger its clients are promised.                     *)
EXTENDS RaftInv

\* The tables are prefixes of one another: the longest is the ledger.
LongestTable == balTab[CHOOSE s \in Server : Longest(s)]

Promised == INSTANCE OneLedger WITH ledger <- LongestTable, table <- balTab

\* What servers execute and what clients are told is one growing ledger in
\* which each request occurs once, from wherever a run starts: elections,
\* retries, repeated and late replies of state.cpp included.  The condition is
\* that of RaftProps; the code does not always meet it.
OneLedgerSteps == [][allStored' => Promised!Next]_(Promised!vars)

\* The cluster implements OneLedger, up to a commit no majority has accepted.
OneLedgerForAll == Promised!Init /\ OneLedgerSteps
=============================================================================
