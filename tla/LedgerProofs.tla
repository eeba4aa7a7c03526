---------------------------- MODULE LedgerProofs ----------------------------
(***************************************************************************)
(* What the two files of a server hold, for every set of blocks, any digits*)
(* of the index, and any number of crashes at any write.                   *)
(*                                                                         *)
(* FilePrefix, SavedWhenIdle and TableCoversIndex are not inductive: what  *)
(* a file holds depends on which write comes next (Writing), what a crash  *)
(* leaves on the file that the balances wait for (Balances), and that the  *)
(* replaced part of a chain is not the committed one on the longest chain  *)
(* committed anywhere (MemoryAgrees, FilesAgree).  RepeatsPerCrash counts: *)
(* between two crashes a block is executed at one place of the chain, once *)
(* (Counts).                                                               *)
(***************************************************************************)
EXTENDS Ledger, FiniteSetTheorems, TLAPS

USE LimitAssumption DEF memory, files, loop

-----------------------------------------------------------------------------
(* The inductive invariant.                                                *)

\* What bc_file holds before each write.
Writing == up =>
    /\ op \in {"idle", "execute", "balances"} =>
        /\ bcIndex # Unreadable /\ bcIndex <= committedIndex
        /\ bcBlocks = blocks
        /\ Fits(committedIndex) => bcIndex = committedIndex
    /\ op = "header" => bcIndex = Unreadable /\ bcBlocks = <<>> /\ blocks # <<>>
    /\ op = "blocks" =>
        /\ bcIndex = committedIndex /\ Len(bcBlocks) < Len(blocks)
        /\ \A k \in 1 .. Len(bcBlocks) : bcBlocks[k] = blocks[k]

\* bal_tab_file is behind the table only while it is written.
Balances == up /\ op # "balances" => balFile \in {table, Unreadable}

\* The loop of update_bal_tab_and_committed_index stays within the chain.
Loop == up /\ op \in {"execute", "balances"} =>
    /\ newIndex \in committedIndex + 1 .. LastIndex(blocks)
    /\ op = "balances" => bid <= newIndex

CoversUpTo(t, chain, n) == \A k \in 1 .. n : Contains(t, chain[k])
AgreeUpTo(c, d, n) == \A k \in 1 .. n : k <= Len(c) /\ k <= Len(d) => c[k] = d[k]

\* What the memory calls committed is committed everywhere, and executed.
MemoryAgrees == up =>
    /\ committedIndex + 1 <= Len(agreed)
    /\ AgreeUpTo(blocks, agreed, committedIndex + 1)
    /\ table # Garbage => CoversUpTo(table, agreed, committedIndex + 1)
    /\ op \in {"execute", "balances"} =>
        /\ AgreeUpTo(blocks, agreed, newIndex + 1)
        /\ table # Garbage =>
            CoversUpTo(table, blocks, IF op = "balances" THEN bid + 1 ELSE bid)

\* So is what a readable bc_file calls committed.
FilesAgree == bcIndex # Unreadable =>
    /\ bcIndex + 1 <= Len(agreed)
    /\ AgreeUpTo(bcBlocks, agreed, bcIndex + 1)
    /\ balFile \notin {Unreadable, Garbage} =>
        CoversUpTo(balFile, agreed, bcIndex + 1)

\* A block has one place in a chain.
OnePlace == IsInjective(blocks) /\ IsInjective(bcBlocks)

\* The places of the chain that were executed.
Place == IF op = "balances" THEN bid + 1 ELSE bid
Executed == {agreed[k] : k \in 1 .. committedIndex + 1}
            \cup IF op \in {"execute", "balances"}
                 THEN {blocks[k] : k \in 1 .. Place} ELSE {}
LoopPlace == up /\ op \in {"execute", "balances"} =>
    bid > committedIndex /\ Place <= newIndex + 1

\* A crash may let the server execute once more what it has executed.
Counts ==
    /\ table # Garbage => \A b \in Block :
        /\ Times(b, table) <= crashes + 1
        /\ up /\ b \notin Executed => Times(b, table) <= crashes
    /\ balFile \notin {Unreadable, Garbage} => \A b \in Block :
        Times(b, balFile) <= crashes + 1

CountInv == OnePlace /\ LoopPlace /\ Counts

LedgerInv ==
    /\ TypeOK /\ Writing /\ Balances /\ Loop /\ MemoryAgrees /\ FilesAgree

-----------------------------------------------------------------------------
(* Sequences.                                                              *)

LEMMA Marks ==
    /\ Unreadable \notin Int /\ Garbage \notin Int
    /\ Unreadable \notin Seq(Block) /\ Garbage \notin Seq(Block)
BY MarkAssumption

LEMMA PrefixPoints ==
    ASSUME NEW s \in Seq(Block), NEW t \in Seq(Block), IsPrefix(s, t)
    PROVE  Len(s) <= Len(t) /\ \A k \in 1 .. Len(s) : s[k] = t[k]
<1>1. Len(s) <= Len(t) /\ SubSeq(s, 1, Len(s)) = SubSeq(t, 1, Len(s))
  BY DEF IsPrefix
<1>2. SUFFICES ASSUME NEW k \in 1 .. Len(s) PROVE s[k] = t[k]
  BY <1>1
<1>3. SubSeq(s, 1, Len(s))[k] = s[k] /\ SubSeq(t, 1, Len(s))[k] = t[k]
  BY <1>1
<1> QED  BY <1>1, <1>3

LEMMA PointsPrefix ==
    ASSUME NEW s \in Seq(Block), NEW t \in Seq(Block),
           Len(s) <= Len(t), \A k \in 1 .. Len(s) : s[k] = t[k]
    PROVE  IsPrefix(s, t)
BY DEF IsPrefix

LEMMA SamePoints ==
    ASSUME NEW s \in Seq(Block), NEW t \in Seq(Block), Len(s) = Len(t),
           \A k \in 1 .. Len(s) : s[k] = t[k]
    PROVE  s = t
OBVIOUS

LEMMA AppendPoints ==
    ASSUME NEW s \in Seq(Block), NEW b \in Block
    PROVE  /\ Append(s, b) \in Seq(Block)
           /\ Len(Append(s, b)) = Len(s) + 1
           /\ \A k \in 1 .. Len(s) : Append(s, b)[k] = s[k]
           /\ Append(s, b)[Len(s) + 1] = b
OBVIOUS

\* A table that contains blocks still does with one more.
LEMMA CoverAppend ==
    ASSUME NEW t \in Seq(Block), NEW b \in Block, NEW c, NEW n \in Nat,
           CoversUpTo(t, c, n)
    PROVE  CoversUpTo(Append(t, b), c, n) /\ Contains(Append(t, b), b)
<1>1. Contains(Append(t, b), b)
  <2>1. Len(t) + 1 \in 1 .. Len(Append(t, b))  OBVIOUS
  <2> QED  BY <2>1, AppendPoints DEF Contains
<1>2. SUFFICES ASSUME NEW k \in 1 .. n PROVE Contains(Append(t, b), c[k])
  BY <1>1 DEF CoversUpTo
<1>3. PICK i \in 1 .. Len(t) : t[i] = c[k]  BY DEF CoversUpTo, Contains
<1>4. i \in 1 .. Len(Append(t, b)) /\ Append(t, b)[i] = c[k]
  BY <1>3, AppendPoints
<1> QED  BY <1>4 DEF Contains

\* A chain that agrees with one that is not longer still does with one more.
LEMMA AgreeAppend ==
    ASSUME NEW c \in Seq(Block), NEW d \in Seq(Block), NEW b \in Block, NEW n,
           Len(d) <= Len(c), AgreeUpTo(c, d, n)
    PROVE  AgreeUpTo(Append(c, b), d, n)
<1>1. SUFFICES ASSUME NEW k \in 1 .. n, k <= Len(d)
               PROVE  Append(c, b)[k] = d[k]
  BY DEF AgreeUpTo
<1>2. Len(c) \in Nat /\ Len(d) \in Nat  OBVIOUS
<1>3. k \in 1 .. Len(c)  BY <1>1, <1>2
<1>4. c[k] = d[k]  BY <1>1, <1>3 DEF AgreeUpTo
<1>5. Append(c, b)[k] = c[k]  BY <1>3, AppendPoints
<1> QED  BY <1>4, <1>5

-----------------------------------------------------------------------------
(* The steps.                                                              *)

LEMMA LedgerInit == Init => LedgerInv
<1> SUFFICES ASSUME Init PROVE LedgerInv
  OBVIOUS
<1>1. <<>> \in Seq(Block)  OBVIOUS
<1>2. TypeOK  BY <1>1 DEF Init, TypeOK
<1>3. Writing /\ Balances /\ Loop
  BY Marks DEF Init, Writing, Balances, Loop
<1>4. MemoryAgrees /\ FilesAgree
  BY DEF Init, MemoryAgrees, FilesAgree, AgreeUpTo, CoversUpTo
<1> QED  BY <1>2, <1>3, <1>4 DEF LedgerInv

LEMMA StepAddTransaction ==
    ASSUME LedgerInv, NEW b \in Block, AddTransaction(b)
    PROVE  LedgerInv'
<1> USE DEF LedgerInv, AddTransaction
<1>1. blocks \in Seq(Block) /\ bcBlocks \in Seq(Block) /\ agreed \in Seq(Block)
      /\ bcBlocks = blocks /\ committedIndex \in Nat \cup {-1}
  BY DEF TypeOK, Writing
<1>2. Len(agreed) <= Len(blocks)  BY <1>1, PrefixPoints
<1>3. TypeOK'  BY <1>1, AppendPoints DEF TypeOK
<1>4. Writing' /\ Balances' /\ Loop'
  BY <1>1 DEF Writing, Balances, Loop
<1>5. \A n : AgreeUpTo(blocks, agreed, n) => AgreeUpTo(blocks', agreed, n)
  <2>1. blocks' = Append(blocks, b)  OBVIOUS
  <2> QED  BY ONLY <1>1, <1>2, <2>1, AgreeAppend, b \in Block
<1>6. MemoryAgrees'  BY <1>5 DEF MemoryAgrees
<1>7. FilesAgree'  BY <1>1, <1>5 DEF FilesAgree
<1> QED  BY <1>3, <1>4, <1>6, <1>7

LEMMA StepCleanUp ==
    ASSUME LedgerInv, NEW index \in 0 .. MaxLength, NEW leader \in Chains,
           CleanUpBlocks(index, leader)
    PROVE  LedgerInv'
<1> USE DEF LedgerInv, CleanUpBlocks
<1>1. leader \in Seq(Block) /\ leader # <<>>  BY DEF Chains
<1>2. agreed \in Seq(Block) /\ committedIndex \in Nat \cup {-1}  BY DEF TypeOK
<1>3. \A n : AgreeUpTo(leader, agreed, n)
  BY <1>1, <1>2, PrefixPoints DEF AgreeUpTo
<1>4. TypeOK'  BY <1>1 DEF TypeOK
<1>5. Writing' /\ Balances' /\ Loop'
  BY <1>1 DEF Writing, Balances, Loop
<1>6. MemoryAgrees'  BY <1>3 DEF MemoryAgrees
<1>7. FilesAgree'  BY DEF FilesAgree
<1> QED  BY <1>4, <1>5, <1>6, <1>7

LEMMA StepWriteHeader ==
    ASSUME LedgerInv, WriteHeader
    PROVE  LedgerInv'
<1> USE DEF LedgerInv, WriteHeader
<1>1. CASE ~Fits(committedIndex)
  <2>1. TypeOK'  BY <1>1 DEF TypeOK
  <2>2. Writing' /\ Balances' /\ Loop' /\ MemoryAgrees'
    BY <1>1 DEF Writing, Balances, Loop, MemoryAgrees
  <2>3. FilesAgree'  BY <1>1 DEF FilesAgree
  <2> QED  BY <2>1, <2>2, <2>3
<1>2. CASE Fits(committedIndex)
  <2>1. committedIndex \in Nat \cup {-1} /\ blocks \in Seq(Block)
        /\ bcBlocks = <<>> /\ blocks # <<>>
    BY DEF TypeOK, Writing
  <2>2. TypeOK'  BY <1>2, <2>1 DEF TypeOK
  <2>3. Writing'  BY <1>2, <2>1 DEF Writing
  <2>4. Balances' /\ Loop' /\ MemoryAgrees'
    BY <1>2 DEF Balances, Loop, MemoryAgrees
  <2>5. AgreeUpTo(bcBlocks, agreed, committedIndex + 1)
    BY <2>1 DEF AgreeUpTo
  <2>6. balFile \notin {Unreadable, Garbage} => balFile = table
    BY DEF Balances
  <2>7. FilesAgree'  BY <1>2, <2>5, <2>6 DEF FilesAgree, MemoryAgrees
  <2> QED  BY <2>2, <2>3, <2>4, <2>7
<1> QED  BY <1>1, <1>2

LEMMA StepWriteNextBlock ==
    ASSUME LedgerInv, WriteNextBlock
    PROVE  LedgerInv'
<1> USE DEF LedgerInv, WriteNextBlock
<1> DEFINE k == Len(bcBlocks) + 1
<1>1. /\ blocks \in Seq(Block) /\ bcBlocks \in Seq(Block)
      /\ bcIndex = committedIndex /\ committedIndex \in Nat \cup {-1}
      /\ k \in 1 .. Len(blocks)
      /\ \A j \in 1 .. Len(bcBlocks) : bcBlocks[j] = blocks[j]
  BY DEF TypeOK, Writing
<1>2. blocks[k] \in Block  BY <1>1
<1>3. /\ bcBlocks' \in Seq(Block) /\ Len(bcBlocks') = k
      /\ \A j \in 1 .. k : bcBlocks'[j] = blocks[j]
  BY <1>1, <1>2, AppendPoints
<1>4. TypeOK'  BY <1>3 DEF TypeOK
<1>5. Writing'
  <2>1. CASE k = Len(blocks)
    <3>1. bcBlocks' = blocks  BY <1>1, <1>3, <2>1, SamePoints
    <3> QED  BY <1>1, <2>1, <3>1, Marks DEF Writing
  <2>2. CASE k # Len(blocks)
    BY <1>1, <1>3, <2>2 DEF Writing
  <2> QED  BY <2>1, <2>2
<1>6. Balances' /\ Loop' /\ MemoryAgrees'
  BY DEF Balances, Loop, MemoryAgrees
<1>7. AgreeUpTo(bcBlocks', agreed, bcIndex + 1)
  BY <1>1, <1>3 DEF AgreeUpTo, MemoryAgrees
<1>8. FilesAgree'  BY <1>7 DEF FilesAgree
<1> QED  BY <1>4, <1>5, <1>6, <1>8

LEMMA StepStartCommit ==
    ASSUME LedgerInv, NEW new \in 0 .. MaxLength, StartCommit(new)
    PROVE  LedgerInv'
<1> USE DEF LedgerInv, StartCommit, MayCommit
<1>1. /\ blocks \in Seq(Block) /\ agreed \in Seq(Block)
      /\ committedIndex \in Nat \cup {-1}
      /\ new \in committedIndex + 1 .. Len(blocks) - 1 /\ new \in Nat
  BY DEF TypeOK, LastIndex
<1>2. AgreeUpTo(blocks, agreed, new + 1)
  <2> DEFINE c == SubSeq(blocks, 1, new + 1)
  <2>1. /\ c \in Seq(Block) /\ Len(c) = new + 1
        /\ \A k \in 1 .. new + 1 : c[k] = blocks[k]
    BY <1>1
  <2>2. IsPrefix(c, agreed) \/ IsPrefix(agreed, c)  OBVIOUS
  <2> HIDE DEF c
  <2>3. \A k \in 1 .. new + 1 : k <= Len(agreed) => c[k] = agreed[k]
    <3>1. CASE IsPrefix(c, agreed)  BY <1>1, <2>1, <3>1, PrefixPoints
    <3>2. CASE IsPrefix(agreed, c)  BY <1>1, <2>1, <3>2, PrefixPoints
    <3> QED  BY <2>2, <3>1, <3>2
  <2> QED  BY <2>1, <2>3 DEF AgreeUpTo
<1>3. TypeOK'  BY <1>1 DEF TypeOK
<1>4. Writing' /\ Balances' /\ Loop'
  BY <1>1 DEF Writing, Balances, Loop
<1>5. table # Garbage => CoversUpTo(table, blocks, committedIndex + 1)
  <2> SUFFICES ASSUME table # Garbage, NEW k \in 1 .. committedIndex + 1
               PROVE  Contains(table, blocks[k])
    BY DEF CoversUpTo
  <2>1. k <= Len(agreed) /\ k <= Len(blocks) /\ Contains(table, agreed[k])
    BY <1>1 DEF MemoryAgrees, CoversUpTo
  <2>2. blocks[k] = agreed[k]  BY <1>1, <2>1 DEF MemoryAgrees, AgreeUpTo
  <2> QED  BY <2>1, <2>2
<1>6. MemoryAgrees'  BY <1>2, <1>5 DEF MemoryAgrees
<1>7. FilesAgree'  BY DEF FilesAgree
<1> QED  BY <1>3, <1>4, <1>6, <1>7

LEMMA StepExecuteNext ==
    ASSUME LedgerInv, ExecuteNext
    PROVE  LedgerInv'
<1> USE DEF LedgerInv, ExecuteNext
<1>1. /\ blocks \in Seq(Block) /\ bid \in Nat /\ bid <= newIndex
      /\ newIndex \in Int /\ committedIndex \in Nat \cup {-1}
      /\ newIndex <= Len(blocks) - 1
  BY DEF TypeOK, Loop, LastIndex
<1>2. blocks[bid + 1] \in Block  BY <1>1
<1>3. CASE table = Garbage
  <2>1. TypeOK'  BY <1>3 DEF TypeOK
  <2>2. Writing' /\ Balances' /\ Loop' /\ MemoryAgrees' /\ FilesAgree'
    BY <1>1, <1>3 DEF Writing, Balances, Loop, MemoryAgrees, FilesAgree
  <2> QED  BY <2>1, <2>2
<1>4. CASE table # Garbage
  <2>1. table \in Seq(Block)  BY <1>4 DEF TypeOK
  <2>2. TypeOK'  BY <1>2, <1>4, <2>1, AppendPoints DEF TypeOK
  <2>3. Writing' /\ Balances' /\ Loop'
    BY <1>1, <1>4 DEF Writing, Balances, Loop
  <2>4. CoversUpTo(table', agreed, committedIndex + 1)
    BY <1>1, <1>2, <1>4, <2>1, CoverAppend DEF MemoryAgrees
  <2>5. CoversUpTo(table', blocks, bid) /\ Contains(table', blocks[bid + 1])
    BY <1>1, <1>2, <1>4, <2>1, CoverAppend DEF MemoryAgrees
  <2>6. CoversUpTo(table', blocks, bid + 1)
    BY <1>1, <2>5 DEF CoversUpTo
  <2>7. MemoryAgrees'  BY <2>4, <2>6 DEF MemoryAgrees
  <2>8. FilesAgree'  BY DEF FilesAgree
  <2> QED  BY <2>2, <2>3, <2>7, <2>8
<1> QED  BY <1>3, <1>4

LEMMA StepWriteBalances ==
    ASSUME LedgerInv, WriteBalances
    PROVE  LedgerInv'
<1> USE DEF LedgerInv, WriteBalances
<1>1. bid \in Nat /\ table \in Seq(Block) \cup {Garbage}  BY DEF TypeOK
<1>2. TypeOK'  BY <1>1 DEF TypeOK
<1>3. Writing' /\ Balances' /\ Loop'
  BY <1>1 DEF Writing, Balances, Loop
<1>4. MemoryAgrees'  BY <1>1 DEF MemoryAgrees
<1>5. bcIndex \in Int /\ committedIndex \in Int /\ bcIndex <= committedIndex
  BY DEF TypeOK, Writing
<1>6. table # Garbage => CoversUpTo(table, agreed, bcIndex + 1)
  BY <1>5 DEF MemoryAgrees, CoversUpTo
<1>7. FilesAgree'  BY <1>6 DEF FilesAgree
<1> QED  BY <1>2, <1>3, <1>4, <1>7

LEMMA StepSetCommittedIndex ==
    ASSUME LedgerInv, SetCommittedIndex
    PROVE  LedgerInv'
<1> USE DEF LedgerInv, SetCommittedIndex
<1>1. /\ blocks \in Seq(Block) /\ agreed \in Seq(Block)
      /\ committedIndex \in Nat \cup {-1} /\ bcIndex \in Nat \cup {-1}
      /\ bcIndex <= committedIndex /\ bcBlocks = blocks
      /\ newIndex \in Nat /\ bid \in Nat /\ bid >= newIndex + 1
      /\ newIndex \in committedIndex + 1 .. Len(blocks) - 1
  BY DEF TypeOK, Writing, Loop, LastIndex
<1>2. /\ agreed' \in Seq(Block) /\ newIndex + 1 <= Len(agreed')
      /\ \A k \in 1 .. newIndex + 1 : agreed'[k] = blocks[k]
  <2>1. CASE newIndex >= Len(agreed)  BY <1>1, <2>1
  <2>2. CASE newIndex < Len(agreed)
    BY <1>1, <2>2 DEF MemoryAgrees, AgreeUpTo
  <2> QED  BY <1>1, <2>1, <2>2
<1>3. TypeOK'  BY <1>1, <1>2 DEF TypeOK
<1>4. Writing' /\ Balances' /\ Loop'
  BY <1>1, Marks DEF Writing, Balances, Loop
<1>5. \A n \in Int : n <= newIndex + 1 =>
        /\ AgreeUpTo(blocks, agreed', n)
        /\ table # Garbage => CoversUpTo(table, agreed', n)
  <2> SUFFICES ASSUME NEW n \in Int, n <= newIndex + 1, NEW k \in 1 .. n
               PROVE  /\ blocks[k] = agreed'[k]
                      /\ table # Garbage => Contains(table, agreed'[k])
    BY DEF AgreeUpTo, CoversUpTo
  <2>1. k \in 1 .. newIndex + 1 /\ k \in 1 .. bid  BY <1>1
  <2>2. blocks[k] = agreed'[k]  BY <1>2, <2>1
  <2>3. table # Garbage => Contains(table, blocks[k])
    BY <2>1 DEF MemoryAgrees, CoversUpTo
  <2> QED  BY <2>2, <2>3
<1>6. MemoryAgrees'  BY <1>1, <1>2, <1>5 DEF MemoryAgrees
<1>7. balFile \notin {Unreadable, Garbage} => balFile = table
  BY DEF Balances
<1>8. bcIndex' \in Int /\ bcIndex' + 1 <= newIndex + 1  BY <1>1
<1>9. FilesAgree'  BY <1>1, <1>2, <1>5, <1>7, <1>8 DEF FilesAgree
<1> QED  BY <1>3, <1>4, <1>6, <1>9

LEMMA StepCrash ==
    ASSUME LedgerInv, CrashAndReload
    PROVE  LedgerInv'
<1> USE DEF LedgerInv, CrashAndReload
<1>1. FilesAgree'  BY DEF FilesAgree
<1>2. CASE bcIndex = Unreadable
  <2>0. up' = FALSE /\ UNCHANGED <<memory, files, agreed>>  BY <1>2
  <2>1. TypeOK'
    <3>1. crashes' \in Nat  BY DEF TypeOK
    <3>2. op' \in {"idle", "header", "blocks", "execute", "balances"}
          /\ bid' \in Nat /\ newIndex' \in Nat \cup {-1}
      OBVIOUS
    <3>3. TypeOK  OBVIOUS
    <3> HIDE DEF LedgerInv, CrashAndReload
    <3> QED  BY <2>0, <3>1, <3>2, <3>3 DEF TypeOK
  <2>2. Writing' /\ Balances' /\ Loop' /\ MemoryAgrees'
    BY <1>2 DEF Writing, Balances, Loop, MemoryAgrees
  <2> QED  BY <1>1, <2>1, <2>2
<1>3. CASE bcIndex # Unreadable
  <2>1. TypeOK'  BY <1>3 DEF TypeOK
  <2>2. Writing' /\ Balances' /\ Loop'
    BY <1>3, <2>1 DEF TypeOK, Writing, Balances, Loop
  <2>3. MemoryAgrees'  BY <1>3 DEF MemoryAgrees, FilesAgree
  <2> QED  BY <1>1, <2>1, <2>2, <2>3
<1> QED  BY <1>2, <1>3

-----------------------------------------------------------------------------
(* How often a block is executed.                                          *)

LEMMA TimesNat ==
    ASSUME NEW t \in Seq(Block), NEW b
    PROVE  /\ IsFiniteSet({k \in DOMAIN t : t[k] = b})
           /\ Times(b, t) \in Nat
<1>1. IsFiniteSet(1 .. Len(t))  BY FS_Interval
<1>2. {k \in DOMAIN t : t[k] = b} \subseteq 1 .. Len(t)  OBVIOUS
<1> QED  BY <1>1, <1>2, FS_Subset, FS_CardinalityType DEF Times

LEMMA TimesAppend ==
    ASSUME NEW t \in Seq(Block), NEW x \in Block, NEW b
    PROVE  Times(b, Append(t, x)) = IF b = x THEN Times(b, t) + 1 ELSE Times(b, t)
<1> DEFINE S == {k \in DOMAIN t : t[k] = b}
           a == Append(t, x)
           n == Len(t) + 1
<1>1. /\ DOMAIN a = DOMAIN t \cup {n} /\ n \notin DOMAIN t /\ a[n] = x
      /\ \A k \in DOMAIN t : a[k] = t[k]
  OBVIOUS
<1>2. IsFiniteSet(S) /\ Times(b, t) = Cardinality(S)  BY TimesNat DEF Times
<1>3. Times(b, a) = Cardinality({k \in DOMAIN a : a[k] = b})  BY DEF Times
<1> HIDE DEF a, n
<1>4. {k \in DOMAIN a : a[k] = b} = IF b = x THEN S \cup {n} ELSE S
  BY <1>1
<1>5. n \notin S  BY <1>1
<1>6. Cardinality(S \cup {n}) = Cardinality(S) + 1
  BY <1>2, <1>5, FS_AddElement
<1>7. Times(b, a) = IF b = x THEN Times(b, t) + 1 ELSE Times(b, t)
  BY <1>2, <1>3, <1>4, <1>6
<1> QED  BY <1>7 DEF a

LEMMA CountInit == Init => CountInv
<1> SUFFICES ASSUME Init PROVE CountInv
  OBVIOUS
<1>1. OnePlace  BY DEF Init, OnePlace, IsInjective
<1>2. LoopPlace  BY DEF Init, LoopPlace
<1>3. Counts
  <2>1. \A b : Times(b, <<>>) = 0
    <3>1. \A b : {k \in DOMAIN <<>> : <<>>[k] = b} = {}  OBVIOUS
    <3> QED  BY <3>1, FS_EmptySet DEF Times
  <2>2. table = <<>> /\ balFile = <<>> /\ crashes = 0  BY DEF Init
  <2> QED  BY <2>1, <2>2 DEF Counts
<1> QED  BY <1>1, <1>2, <1>3 DEF CountInv

\* What counts is the table, and what is executed already.
LEMMA CountsStay ==
    ASSUME Counts, UNCHANGED <<table, crashes>>, up' => up,
           Executed \subseteq Executed',
           balFile' \in {balFile, table, Unreadable}
    PROVE  Counts'
BY DEF Counts

\* Writes outside the loop of update_bal_tab_and_committed_index.
LEMMA CountWrites ==
    ASSUME LedgerInv, CountInv,
           \/ \E b \in Block : AddTransaction(b)
           \/ \E index \in 0 .. MaxLength, leader \in Chains :
                IsInjective(leader) /\ CleanUpBlocks(index, leader)
           \/ WriteHeader \/ WriteNextBlock
    PROVE  CountInv'
<1> USE DEF CountInv
<1>1. TypeOK /\ Writing  BY DEF LedgerInv
<1>2. /\ UNCHANGED <<table, crashes, balFile, agreed, committedIndex>>
      /\ up' => up
      /\ {op, op'} \cap {"execute", "balances"} = {}
  BY DEF AddTransaction, CleanUpBlocks, WriteHeader, WriteNextBlock
<1>3. Executed' = Executed  BY <1>2 DEF Executed
<1>4. Counts'  BY <1>2, <1>3, CountsStay
<1>5. LoopPlace'  BY <1>2 DEF LoopPlace
<1>6. ASSUME NEW b \in Block, AddTransaction(b) PROVE OnePlace'
  <2>1. /\ blocks \in Seq(Block) /\ bcBlocks = blocks
        /\ blocks' = Append(blocks, b) /\ bcBlocks' = Append(bcBlocks, b)
        /\ \A k \in DOMAIN blocks : blocks[k] # b
    BY <1>1, <1>6 DEF AddTransaction, TypeOK, Writing
  <2>2. /\ DOMAIN blocks' = DOMAIN blocks \cup {Len(blocks) + 1}
        /\ blocks'[Len(blocks) + 1] = b
        /\ \A k \in DOMAIN blocks : blocks'[k] = blocks[k]
    BY <2>1
  <2>3. IsInjective(blocks')  BY <2>1, <2>2 DEF OnePlace, IsInjective
  <2> QED  BY <2>1, <2>3 DEF OnePlace
<1>7. ASSUME NEW index \in 0 .. MaxLength, NEW leader \in Chains,
             IsInjective(leader), CleanUpBlocks(index, leader)
      PROVE  OnePlace'
  <2>1. blocks' = leader /\ bcBlocks' = <<>>  BY <1>7 DEF CleanUpBlocks
  <2>2. DOMAIN bcBlocks' = {}  BY <2>1
  <2>3. IsInjective(bcBlocks')  BY <2>2 DEF IsInjective
  <2> QED  BY <1>7, <2>1, <2>3 DEF OnePlace
<1>8. ASSUME WriteHeader PROVE OnePlace'  BY <1>8 DEF WriteHeader, OnePlace
<1>9. ASSUME WriteNextBlock PROVE OnePlace'
  <2>1. /\ blocks \in Seq(Block) /\ bcBlocks \in Seq(Block)
        /\ Len(bcBlocks) < Len(blocks) /\ blocks' = blocks
        /\ bcBlocks' = Append(bcBlocks, blocks[Len(bcBlocks) + 1])
        /\ \A k \in 1 .. Len(bcBlocks) : bcBlocks[k] = blocks[k]
    BY <1>1, <1>9 DEF WriteNextBlock, TypeOK, Writing
  <2>2. \A k \in DOMAIN bcBlocks' :
            k \in DOMAIN blocks /\ bcBlocks'[k] = blocks[k]
    <3> DEFINE n == Len(bcBlocks) + 1
    <3>1. n \in DOMAIN blocks /\ blocks[n] \in Block  BY <2>1
    <3>2. /\ bcBlocks' \in Seq(Block) /\ Len(bcBlocks') = n
          /\ \A k \in 1 .. Len(bcBlocks) : bcBlocks'[k] = bcBlocks[k]
          /\ bcBlocks'[n] = blocks[n]
      BY <2>1, <3>1, AppendPoints
    <3> QED  BY <2>1, <3>1, <3>2
  <2> QED  BY <2>1, <2>2 DEF OnePlace, IsInjective
<1> QED  BY <1>4, <1>5, <1>6, <1>7, <1>8, <1>9

LEMMA CountStart ==
    ASSUME LedgerInv, CountInv, NEW new \in 0 .. MaxLength, StartCommit(new)
    PROVE  CountInv'
<1> USE DEF CountInv
<1>1. /\ UNCHANGED <<up, blocks, committedIndex, table, bcBlocks, balFile,
                     crashes, agreed>>
      /\ op = "idle" /\ op' = "execute" /\ bid' = committedIndex + 1
      /\ newIndex' = new /\ new \in committedIndex + 1 .. LastIndex(blocks)
  BY DEF StartCommit, MayCommit
<1>2. Executed \subseteq Executed'  BY <1>1 DEF Executed
<1>3. Counts'  BY <1>1, <1>2, CountsStay
<1>4. LoopPlace'
  <2>1. committedIndex \in Int  BY DEF LedgerInv, TypeOK
  <2> QED  BY <1>1, <2>1 DEF LoopPlace, Place
<1>5. OnePlace'  BY <1>1 DEF OnePlace
<1> QED  BY <1>3, <1>4, <1>5

\* The next block is none of those executed since the server was started.
LEMMA CountExecute ==
    ASSUME LedgerInv, CountInv, ExecuteNext
    PROVE  CountInv'
<1> USE DEF CountInv
<1>1. /\ up /\ up' /\ op = "execute" /\ op' = "balances" /\ bid <= newIndex
      /\ balFile' = Unreadable
      /\ table' = IF table = Garbage THEN Garbage
                  ELSE Append(table, blocks[bid + 1])
      /\ UNCHANGED <<blocks, bcBlocks, committedIndex, bid, newIndex, crashes,
                     agreed>>
  BY DEF ExecuteNext
<1>2. /\ blocks \in Seq(Block) /\ bid \in Nat /\ committedIndex \in Int
      /\ newIndex \in Int /\ newIndex <= Len(blocks) - 1
      /\ table \in Seq(Block) \cup {Garbage} /\ crashes \in Nat
      /\ bid > committedIndex
      /\ committedIndex + 1 <= Len(agreed)
      /\ AgreeUpTo(blocks, agreed, committedIndex + 1)
  BY <1>1 DEF LedgerInv, TypeOK, Loop, LastIndex, LoopPlace, MemoryAgrees
<1> DEFINE x == blocks[bid + 1]
<1>3. bid + 1 \in DOMAIN blocks /\ x \in Block  BY <1>1, <1>2
<1>4. \A k \in 1 .. bid : k \in DOMAIN blocks /\ blocks[k] # x
  <2>1. \A k \in 1 .. bid : k \in DOMAIN blocks /\ k # bid + 1
    BY <1>1, <1>2
  <2> QED  BY <1>3, <2>1 DEF OnePlace, IsInjective
<1>5. \A k \in 1 .. committedIndex + 1 : agreed[k] # x
  <2> SUFFICES ASSUME NEW k \in 1 .. committedIndex + 1 PROVE agreed[k] # x
    OBVIOUS
  <2>1. k \in 1 .. bid /\ k <= Len(blocks) /\ k <= Len(agreed)
    <3>1. agreed \in Seq(Block)  BY DEF LedgerInv, TypeOK
    <3> QED  BY <1>1, <1>2, <3>1
  <2>2. blocks[k] = agreed[k]  BY <1>2, <2>1 DEF AgreeUpTo
  <2> QED  BY <1>4, <2>1, <2>2
<1>6. x \notin Executed  BY <1>1, <1>4, <1>5 DEF Executed, Place
<1>7. x \in Executed' /\ Executed \subseteq Executed'
  <2>1. /\ Place = bid /\ Place' = bid + 1
        /\ Executed' = {agreed[k] : k \in 1 .. committedIndex + 1}
                       \cup {blocks[k] : k \in 1 .. bid + 1}
        /\ Executed = {agreed[k] : k \in 1 .. committedIndex + 1}
                      \cup {blocks[k] : k \in 1 .. bid}
    BY <1>1 DEF Place, Executed
  <2>2. bid + 1 \in 1 .. bid + 1 /\ 1 .. bid \subseteq 1 .. bid + 1  BY <1>2
  <2> QED  BY <2>1, <2>2
<1> HIDE DEF x
<1>8. Counts'
  <2>1. CASE table = Garbage  BY <1>1, <2>1 DEF Counts
  <2>2. CASE table # Garbage
    <3>1. table \in Seq(Block) /\ table' = Append(table, x)
      BY <1>1, <1>2, <2>2 DEF x
    <3>2. ASSUME NEW b \in Block
          PROVE  /\ Times(b, table') <= crashes' + 1
                 /\ b \notin Executed' => Times(b, table') <= crashes'
      <4>1. Times(b, table) \in Nat  BY <3>1, TimesNat
      <4>2. Times(b, table') = IF b = x THEN Times(b, table) + 1
                               ELSE Times(b, table)
        BY <1>3, <3>1, TimesAppend DEF x
      <4>3. Times(b, table) <= crashes + 1
            /\ (b \notin Executed => Times(b, table) <= crashes)
        BY <1>1, <2>2 DEF Counts
      <4> QED  BY <1>1, <1>2, <1>6, <1>7, <4>1, <4>2, <4>3
    <3> QED  BY <1>1, <3>2 DEF Counts
  <2> QED  BY <2>1, <2>2
<1>9. LoopPlace'  BY <1>1, <1>2 DEF LoopPlace, Place
<1>10. OnePlace'  BY <1>1 DEF OnePlace
<1> QED  BY <1>8, <1>9, <1>10

LEMMA CountBalances ==
    ASSUME LedgerInv, CountInv, WriteBalances
    PROVE  CountInv'
<1> USE DEF CountInv
<1>1. /\ up /\ up' /\ op = "balances" /\ op' = "execute" /\ bid' = bid + 1
      /\ balFile' = table
      /\ UNCHANGED <<blocks, bcBlocks, committedIndex, table, newIndex, crashes,
                     agreed>>
  BY DEF WriteBalances
<1>2. Place' = Place  BY <1>1 DEF Place
<1>3. Executed' = Executed  BY <1>1, <1>2 DEF Executed
<1>4. Counts'  BY <1>1, <1>3, CountsStay
<1>5. LoopPlace'
  <2>1. bid \in Nat /\ committedIndex \in Int  BY DEF LedgerInv, TypeOK
  <2> QED  BY <1>1, <1>2, <2>1 DEF LoopPlace
<1>6. OnePlace'  BY <1>1 DEF OnePlace
<1> QED  BY <1>4, <1>5, <1>6

LEMMA CountSetIndex ==
    ASSUME LedgerInv, CountInv, SetCommittedIndex
    PROVE  CountInv'
<1> USE DEF CountInv
<1>1. /\ up /\ up' /\ op = "execute" /\ op' = "idle" /\ bid > newIndex
      /\ committedIndex' = newIndex
      /\ agreed' = IF newIndex >= Len(agreed)
                   THEN SubSeq(blocks, 1, newIndex + 1) ELSE agreed
      /\ UNCHANGED <<blocks, bcBlocks, balFile, table, crashes>>
  BY DEF SetCommittedIndex
<1>2. /\ blocks \in Seq(Block) /\ agreed \in Seq(Block)
      /\ committedIndex \in Int /\ bid \in Nat /\ newIndex \in Int
      /\ newIndex \in committedIndex + 1 .. Len(blocks) - 1
      /\ AgreeUpTo(blocks, agreed, newIndex + 1)
      /\ committedIndex + 1 <= Len(agreed) /\ bid <= newIndex + 1
  BY <1>1 DEF LedgerInv, TypeOK, Loop, LastIndex, LoopPlace, Place, MemoryAgrees
<1>3. \A k \in 1 .. newIndex + 1 : agreed'[k] = blocks[k]
  <2>1. CASE newIndex >= Len(agreed)  BY <1>1, <1>2, <2>1
  <2>2. CASE newIndex < Len(agreed)  BY <1>1, <1>2, <2>2 DEF AgreeUpTo
  <2> QED  BY <1>2, <2>1, <2>2
<1>4. \A k \in 1 .. committedIndex + 1 :
        k \in 1 .. newIndex + 1 /\ agreed[k] = blocks[k]
  BY <1>2 DEF AgreeUpTo
<1>5. Executed \subseteq Executed'
  <2>1. Executed' = {blocks[k] : k \in 1 .. newIndex + 1}
    BY <1>1, <1>3 DEF Executed
  <2>2. 1 .. bid \subseteq 1 .. newIndex + 1  BY <1>2
  <2>3. Executed = {agreed[k] : k \in 1 .. committedIndex + 1}
                   \cup {blocks[k] : k \in 1 .. bid}
    BY <1>1 DEF Executed, Place
  <2> QED  BY <1>4, <2>1, <2>2, <2>3
<1>6. Counts'  BY <1>1, <1>5, CountsStay
<1>7. LoopPlace'  BY <1>1 DEF LoopPlace
<1>8. OnePlace'  BY <1>1 DEF OnePlace
<1> QED  BY <1>6, <1>7, <1>8

\* After a crash no block counts as executed, and one crash more is paid for.
LEMMA CountCrash ==
    ASSUME LedgerInv, CountInv, CrashAndReload
    PROVE  CountInv'
<1> USE DEF CountInv
<1>1. /\ crashes' = crashes + 1 /\ op' = "idle" /\ UNCHANGED files
      /\ \/ up' = FALSE /\ UNCHANGED memory
         \/ /\ blocks' = bcBlocks
            /\ table' = IF balFile = Unreadable THEN Garbage ELSE balFile
  BY DEF CrashAndReload
<1>2. crashes \in Nat /\ table \in Seq(Block) \cup {Garbage}
      /\ balFile \in Seq(Block) \cup {Garbage, Unreadable}
  BY DEF LedgerInv, TypeOK
<1>3. \A b : (table # Garbage => Times(b, table) \in Nat)
            /\ (balFile \notin {Garbage, Unreadable} => Times(b, balFile) \in Nat)
  BY <1>2, TimesNat
<1>4. Counts'
  <2>1. balFile' = balFile  BY <1>1
  <2>2. CASE up' = FALSE /\ table' = table
    BY <1>1, <1>2, <1>3, <2>1, <2>2 DEF Counts
  <2>3. CASE table' = IF balFile = Unreadable THEN Garbage ELSE balFile
    BY <1>1, <1>2, <1>3, <2>1, <2>3 DEF Counts
  <2> QED  BY <1>1, <2>2, <2>3
<1>5. LoopPlace'  BY <1>1 DEF LoopPlace
<1>6. OnePlace'  BY <1>1 DEF OnePlace
<1> QED  BY <1>4, <1>5, <1>6

-----------------------------------------------------------------------------
(* The theorems.                                                           *)

\* What the files hold goes with the memory at every write and after every
\* crash: Blockchain and BalanceTable as they are written and loaded.
THEOREM LedgerInvariant == Spec => []LedgerInv
<1>1. LedgerInv /\ [Next]_vars => LedgerInv'
  <2> SUFFICES ASSUME LedgerInv, [Next]_vars PROVE LedgerInv'
    OBVIOUS
  <2>1. ASSUME NEW b \in Block, AddTransaction(b) PROVE LedgerInv'
    BY <2>1, StepAddTransaction
  <2>2. ASSUME NEW index \in 0 .. MaxLength, NEW leader \in Chains,
               CleanUpBlocks(index, leader)
        PROVE  LedgerInv'
    BY <2>2, StepCleanUp
  <2>3. CASE WriteHeader  BY <2>3, StepWriteHeader
  <2>4. CASE WriteNextBlock  BY <2>4, StepWriteNextBlock
  <2>5. ASSUME NEW new \in 0 .. MaxLength, StartCommit(new) PROVE LedgerInv'
    BY <2>5, StepStartCommit
  <2>6. CASE ExecuteNext  BY <2>6, StepExecuteNext
  <2>7. CASE WriteBalances  BY <2>7, StepWriteBalances
  <2>8. CASE SetCommittedIndex  BY <2>8, StepSetCommittedIndex
  <2>9. CASE CrashAndReload  BY <2>9, StepCrash
  <2>10. CASE UNCHANGED vars
    BY <2>10 DEF vars, LedgerInv, TypeOK, Writing, Balances, Loop, MemoryAgrees,
                 FilesAgree
  <2> QED
    BY <2>1, <2>2, <2>3, <2>4, <2>5, <2>6, <2>7, <2>8, <2>9, <2>10 DEF Next
<1> QED  BY <1>1, LedgerInit, PTL DEF Spec

\* Every variable keeps its type.
THEOREM LedgerTyped == Spec => []TypeOK
<1>1. LedgerInv => TypeOK  BY DEF LedgerInv
<1> QED  BY <1>1, LedgerInvariant, PTL

\* A readable bc_file always holds a prefix of the chain in memory.
THEOREM FileIsPrefix == Spec => []FilePrefix
<1>1. LedgerInv => FilePrefix
  <2> SUFFICES ASSUME LedgerInv, up, bcIndex # Unreadable
               PROVE  IsPrefix(bcBlocks, blocks)
    BY DEF FilePrefix
  <2>1. blocks \in Seq(Block) /\ bcBlocks \in Seq(Block)
        /\ op \in {"idle", "header", "blocks", "execute", "balances"}
    BY DEF LedgerInv, TypeOK
  <2>2. Len(bcBlocks) <= Len(blocks)
        /\ \A k \in 1 .. Len(bcBlocks) : bcBlocks[k] = blocks[k]
    BY <2>1 DEF LedgerInv, Writing
  <2> QED  BY <2>1, <2>2, PointsPrefix
<1> QED  BY <1>1, LedgerInvariant, PTL

\* Between two calls the files hold what the memory does.
THEOREM IdleIsSaved == Spec => []SavedWhenIdle
<1>1. LedgerInv => SavedWhenIdle
  BY DEF LedgerInv, SavedWhenIdle, Writing, Balances
<1> QED  BY <1>1, LedgerInvariant, PTL

\* What bc_file calls committed a readable balance table has executed, however
\* many crashes there were, and at whichever writes.
THEOREM TableCovers == Spec => []TableCoversIndex
<1>1. LedgerInv => TableCoversIndex
  <2> SUFFICES ASSUME LedgerInv, bcIndex # Unreadable,
                      balFile \notin {Unreadable, Garbage},
                      NEW k \in 1 .. bcIndex + 1, k <= Len(bcBlocks)
               PROVE  Contains(balFile, bcBlocks[k])
    BY DEF TableCoversIndex
  <2>1. bcIndex \in Int /\ agreed \in Seq(Block)  BY DEF LedgerInv, TypeOK
  <2>2. k <= Len(agreed)  BY <2>1 DEF LedgerInv, FilesAgree
  <2>3. bcBlocks[k] = agreed[k] /\ Contains(balFile, agreed[k])
    BY <2>2 DEF LedgerInv, FilesAgree, AgreeUpTo, CoversUpTo
  <2> QED  BY <2>3
<1> QED  BY <1>1, LedgerInvariant, PTL

\* Between two crashes a block has one place in the chain and is executed there
\* once: update_bal_tab_and_committed_index with any crashes in between.
THEOREM CountInvariant == Spec => []CountInv
<1>1. LedgerInv /\ CountInv /\ [Next]_vars => CountInv'
  <2> SUFFICES ASSUME LedgerInv, CountInv, [Next]_vars PROVE CountInv'
    OBVIOUS
  <2>1. CASE UNCHANGED vars
    BY <2>1 DEF vars, CountInv, OnePlace, LoopPlace, Counts, Executed, Place
  <2>2. ASSUME NEW new \in 0 .. MaxLength, StartCommit(new) PROVE CountInv'
    BY <2>2, CountStart
  <2> QED
    BY <2>1, <2>2, CountWrites, CountExecute, CountBalances, CountSetIndex,
       CountCrash DEF Next
<1> QED  BY <1>1, CountInit, LedgerInvariant, PTL DEF Spec

\* Each crash makes the server execute a block at most once more.
THEOREM CrashesRepeatOnce == Spec => []RepeatsPerCrash
<1>1. LedgerInv /\ CountInv => RepeatsPerCrash
  BY DEF LedgerInv, TypeOK, CountInv, Counts, RepeatsPerCrash
<1> QED  BY <1>1, LedgerInvariant, CountInvariant, PTL
=============================================================================
