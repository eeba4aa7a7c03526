------------------------------- MODULE Ledger -------------------------------
(***************************************************************************)
(* What one server keeps on disk: bc_file (the committed index, then one   *)
(* block per line) and bal_tab_file, and how Blockchain, BalanceTable and  *)
(* Server::update_bal_tab_and_committed_index write them.  One action is   *)
(* one write that reaches the file system; the server may die between two  *)
(* of them and is then started again from the two files.                   *)
(*                                                                         *)
(* The calls are those the protocol of Raft makes on a server whose peers  *)
(* keep every committed block.  A balance table is the sequence of blocks  *)
(* executed on it.                                                         *)
(***************************************************************************)
EXTENDS Integers, Sequences, FiniteSets, SequencesExt

CONSTANTS
    Block,       \* the blocks, each with its transaction
    IndexLimit,  \* 9999: what NUM_DIGITS_COMMITTED_INDEX digits hold
    MaxLength,   \* bound: blocks in a chain
    MaxCrashes,  \* bound: crashes
    Unreadable,  \* a file that was opened for writing and not written yet
    Garbage      \* a table of values that nobody assigned

ASSUME LimitAssumption ==
    IndexLimit \in Nat /\ MaxLength \in Nat /\ MaxCrashes \in Nat
ASSUME MarkAssumption == {Unreadable, Garbage} \cap (Seq(Block) \cup Int) = {}

VARIABLES
    up,                              \* FALSE once the program has exited
    blocks, committedIndex, table,   \* the server's memory
    bcIndex, bcBlocks,               \* bc_file: its first line, its other lines
    balFile,                         \* bal_tab_file
    op,                              \* which write comes next, or "idle"
    bid, newIndex,                   \* update_bal_tab...: its loop and its goal
    crashes,
    agreed                           \* history: the longest chain committed

memory == <<blocks, committedIndex, table>>
files == <<bcIndex, bcBlocks, balFile>>
loop == <<bid, newIndex>>
vars == <<up, memory, files, op, loop, crashes, agreed>>

LastIndex(c) == Len(c) - 1
Chains == UNION {[1 .. n -> Block] : n \in 0 .. MaxLength}
Fits(index) == index <= IndexLimit

TypeOK ==
    /\ up \in BOOLEAN
    /\ blocks \in Seq(Block) /\ committedIndex \in Nat \cup {-1}
    /\ table \in Seq(Block) \cup {Garbage}
    /\ bcIndex \in Nat \cup {-1, Unreadable} /\ bcBlocks \in Seq(Block)
    /\ balFile \in Seq(Block) \cup {Garbage, Unreadable}
    /\ op \in {"idle", "header", "blocks", "execute", "balances"}
    /\ bid \in Nat /\ newIndex \in Nat \cup {-1}
    /\ crashes \in Nat /\ agreed \in Seq(Block)

-----------------------------------------------------------------------------
(* Blockchain::add_transaction, clean_up_blocks, write_bc_to_file.         *)

\* A leader, which has every committed block, appends one.
AddTransaction(b) ==
    /\ up /\ op = "idle"
    /\ Len(blocks) < MaxLength
    /\ IsPrefix(agreed, blocks)
    /\ b \notin {blocks[k] : k \in DOMAIN blocks}
    /\ blocks' = Append(blocks, b)
    /\ bcBlocks' = Append(bcBlocks, b)
    /\ UNCHANGED <<up, committedIndex, table, bcIndex, balFile, op, loop,
                   crashes, agreed>>

\* A follower replaces all from index on with the rest of the leader's chain,
\* which it shares up to there; the file is cut to nothing first.
CleanUpBlocksNoTrunc(index, leader) ==
    /\ up /\ op = "idle"
    /\ index < Len(leader) /\ index <= Len(blocks)
    /\ SubSeq(leader, 1, index) = SubSeq(blocks, 1, index)
    /\ IsPrefix(agreed, leader)
    /\ blocks' = leader
    /\ bcIndex' = Unreadable
    /\ op' = "header"
    /\ UNCHANGED <<up, committedIndex, table, bcBlocks, balFile, loop, crashes, agreed>>
CleanUpBlocks(index, leader) ==
    /\ up /\ op = "idle"
    /\ index < Len(leader) /\ index <= Len(blocks)
    /\ SubSeq(leader, 1, index) = SubSeq(blocks, 1, index)
    /\ IsPrefix(agreed, leader)
    /\ blocks' = leader
    /\ bcIndex' = Unreadable /\ bcBlocks' = <<>>
    /\ op' = "header"
    /\ UNCHANGED <<up, committedIndex, table, balFile, loop, crashes, agreed>>

\* An index of too many digits ends the program, after the file was cut.
WriteHeader ==
    /\ up /\ op = "header"
    /\ IF Fits(committedIndex)
       THEN bcIndex' = committedIndex /\ op' = "blocks" /\ UNCHANGED up
       ELSE up' = FALSE /\ UNCHANGED <<bcIndex, op>>
    /\ UNCHANGED <<memory, bcBlocks, balFile, loop, crashes, agreed>>

\* write_block_to_file for the next block.
WriteNextBlock ==
    LET k == Len(bcBlocks) + 1 IN
    /\ up /\ op = "blocks"
    /\ bcBlocks' = Append(bcBlocks, blocks[k])
    /\ op' = IF k = Len(blocks) THEN "idle" ELSE "blocks"
    /\ UNCHANGED <<up, memory, bcIndex, balFile, loop, crashes, agreed>>

-----------------------------------------------------------------------------
(* Server::update_bal_tab_and_committed_index.                             *)

\* The blocks up to new are committed, here as everywhere.
MayCommit(new) ==
    /\ up /\ op = "idle"
    /\ new \in committedIndex + 1 .. LastIndex(blocks)
    /\ LET c == SubSeq(blocks, 1, new + 1)
       IN IsPrefix(c, agreed) \/ IsPrefix(agreed, c)
    /\ newIndex' = new

StartCommitFromFirst(new) ==
    /\ MayCommit(new)
    /\ bid' = 0 /\ op' = "execute"
    /\ UNCHANGED <<up, memory, files, crashes, agreed>>
StartCommitIndexFirst(new) ==
    /\ MayCommit(new)
    /\ bid' = committedIndex + 1 /\ op' = "execute"
    /\ bcIndex' = new
    /\ UNCHANGED <<up, memory, bcBlocks, balFile, crashes, agreed>>
StartCommit(new) ==
    /\ MayCommit(new)
    /\ bid' = committedIndex + 1 /\ op' = "execute"
    /\ UNCHANGED <<up, memory, files, crashes, agreed>>

\* update_balance changes the table and cuts the file to nothing ...
ExecuteNext ==
    /\ up /\ op = "execute" /\ bid <= newIndex
    /\ table' = IF table = Garbage THEN Garbage
                ELSE Append(table, blocks[bid + 1])
    /\ balFile' = Unreadable
    /\ op' = "balances"
    /\ UNCHANGED <<up, blocks, committedIndex, bcIndex, bcBlocks, loop,
                   crashes, agreed>>

\* ... and then writes the balances.
WriteBalances ==
    /\ up /\ op = "balances"
    /\ balFile' = table
    /\ bid' = bid + 1 /\ op' = "execute"
    /\ UNCHANGED <<up, memory, bcIndex, bcBlocks, newIndex, crashes, agreed>>

\* set_committed_index: an index of too many digits stays in memory only.
SetCommittedIndexInMemory ==
    /\ up /\ op = "execute" /\ bid > newIndex
    /\ committedIndex' = newIndex
    /\ agreed' = IF newIndex >= Len(agreed) THEN SubSeq(blocks, 1, newIndex + 1)
                 ELSE agreed
    /\ op' = "idle"
    /\ UNCHANGED <<up, blocks, table, files, loop, crashes>>
SetCommittedIndex ==
    /\ up /\ op = "execute" /\ bid > newIndex
    /\ committedIndex' = newIndex
    /\ bcIndex' = IF Fits(newIndex) THEN newIndex ELSE bcIndex
    /\ agreed' = IF newIndex >= Len(agreed) THEN SubSeq(blocks, 1, newIndex + 1)
                 ELSE agreed
    /\ op' = "idle"
    /\ UNCHANGED <<up, blocks, table, bcBlocks, balFile, loop, crashes>>

-----------------------------------------------------------------------------
(* Server::Server, load_file and parse_file_to_bc.                         *)

\* The server dies and is started again.  Without a first line in bc_file the
\* program exits; an empty bal_tab_file leaves the table as it is found.
ReloadAnyway ==
    /\ crashes < MaxCrashes
    /\ crashes' = crashes + 1
    /\ up' = TRUE
    /\ blocks' = bcBlocks /\ committedIndex' = bcIndex
    /\ table' = IF balFile = Unreadable THEN Garbage ELSE balFile
    /\ op' = "idle" /\ bid' = 0 /\ newIndex' = -1
    /\ UNCHANGED <<files, agreed>>
CrashAndReload ==
    /\ crashes < MaxCrashes
    /\ crashes' = crashes + 1
    /\ IF bcIndex = Unreadable
       THEN up' = FALSE /\ UNCHANGED memory
       ELSE /\ up' = TRUE
            /\ blocks' = bcBlocks /\ committedIndex' = bcIndex
            /\ table' = IF balFile = Unreadable THEN Garbage ELSE balFile
    /\ op' = "idle" /\ bid' = 0 /\ newIndex' = -1
    /\ UNCHANGED <<files, agreed>>

\* Neither file exists: load_file makes them.
Init ==
    /\ up = TRUE
    /\ blocks = <<>> /\ committedIndex = -1 /\ table = <<>>
    /\ bcIndex = -1 /\ bcBlocks = <<>> /\ balFile = <<>>
    /\ op = "idle" /\ bid = 0 /\ newIndex = -1
    /\ crashes = 0 /\ agreed = <<>>

Next ==
    \/ \E b \in Block : AddTransaction(b)
    \/ \E index \in 0 .. MaxLength, leader \in Chains :
        IsInjective(leader) /\ CleanUpBlocks(index, leader)
    \/ WriteHeader \/ WriteNextBlock
    \/ \E new \in 0 .. MaxLength : StartCommit(new)
    \/ ExecuteNext \/ WriteBalances \/ SetCommittedIndex
    \/ CrashAndReload

Spec == Init /\ [][Next]_vars

-----------------------------------------------------------------------------
(* Properties.                                                             *)

\* At every moment a readable bc_file holds a prefix of the chain in memory, so
\* a crash shortens the chain and never changes it.
FilePrefix == up /\ bcIndex # Unreadable => IsPrefix(bcBlocks, blocks)

\* Between two calls the files hold what the memory does: what a restart relies
\* on.  Beyond the digits of the index they part.
SavedWhenIdle ==
    up /\ op = "idle" /\ Fits(committedIndex) =>
        /\ bcIndex = committedIndex /\ bcBlocks = blocks
        /\ balFile \in {table, Unreadable}

\* A block that bc_file calls committed is in a readable balance table: the
\* balances are written before the committed index, so a crash executes a
\* block again rather than never.
TableCoversIndex ==
    bcIndex # Unreadable /\ balFile \notin {Unreadable, Garbage} =>
        \A k \in 1 .. bcIndex + 1 :
            k <= Len(bcBlocks) => Contains(balFile, bcBlocks[k])

Times(b, t) == Cardinality({k \in DOMAIN t : t[k] = b})

\* Each crash makes the server execute a block at most once more.
RepeatsPerCrash ==
    table # Garbage => \A b \in Block : Times(b, table) <= 1 + crashes
=============================================================================
