----------------------------- MODULE BlockFile ------------------------------
(***************************************************************************)
(* The bytes of bc_file: how class Blockchain writes its committed index   *)
(* and its blocks, writes over the first line in place, and reads all of   *)
(* it back by lines when the server starts.  Where module Ledger looks at  *)
(* the order of the writes, this one looks at what they write.             *)
(*                                                                         *)
(* A byte is its value, 10 the end of a line.  Of a block's fields those   *)
(* are kept whose bytes vary: the term, the index (varints of one byte     *)
(* here) and the upper half of the amount, a float (16672 is that of 10.0, *)
(* the lower half of small whole numbers is 0).  Hash and nonce are text   *)
(* without line ends, the two parties are numbers below 10.                *)
(***************************************************************************)
EXTENDS Integers, Sequences, SequencesExt

CONSTANTS
    Terms,      \* the terms in use
    Amounts,    \* the upper halves of the amounts in use
    Digits,     \* NUM_DIGITS_COMMITTED_INDEX
    MaxLength,  \* bound: blocks in the chain
    MaxEntries, \* bound: blocks that a leader sends at a time
    Indices     \* bound: indices, beside -1, that OverwriteIsSafe tries

Byte == 0 .. 255
Half == 0 .. 256 * 256 - 1

ASSUME ByteAssumption ==
    /\ Terms \subseteq 1 .. 127
    /\ Amounts \subseteq Half
    /\ Digits \in Nat \ {0} /\ MaxEntries \in Nat
    /\ MaxLength \in 0 .. 127
    /\ Indices \subseteq Nat

VARIABLES
    blocks, committedIndex, file,
    clean           \* history: no block ever written had a line end in it

vars == <<blocks, committedIndex, file, clean>>

Block == [term: Byte, amount: Half, index: Byte]

\* What a loop over the elements of s makes of start.  (FoldLeft, as a function
\* that can be reasoned about.)
Loop(step, start, s) ==
    LET f[n \in 0 .. Len(s)] == IF n = 0 THEN start ELSE step[<<f[n - 1], s[n]>>]
    IN f[Len(s)]

-----------------------------------------------------------------------------
(* Writing.                                                                *)

Newline == 10
Plus == 43
Minus == 45
Digit(d) == 48 + d

\* Ten to the n.
Power(n) == Loop([p \in Nat \X Nat |-> 10 * p[1]], 1, [k \in 1 .. n |-> k])

Fits(index) == index < Power(Digits)

\* The first line: a sign and the index with leading zeros.
DigitAt(index, k) ==
    LET value == IF index < 0 THEN -index ELSE index
    IN Digit((value \div Power(Digits - k)) % 10)
HeaderPositive(index) ==
    <<Plus>> \o [k \in 1 .. Digits |-> DigitAt(index, k)] \o <<Newline>>
HeaderUnpadded(index) ==
    <<IF index < 0 THEN Minus ELSE Plus>>
        \o SelectSeq([k \in 1 .. Digits |-> DigitAt(index, k)],
                     LAMBDA d : d # Digit(0))
        \o <<Newline>>
Header(index) ==
    <<IF index < 0 THEN Minus ELSE Plus>>
        \o [k \in 1 .. Digits |-> DigitAt(index, k)] \o <<Newline>>

\* The keys of block_msg_t.term, txn_msg_t.amount and block_msg_t.index.
TermKey == 8
AmountKey == 29
IndexKey == 40

Line(b) == <<TermKey, b.term, AmountKey, b.amount % 256, b.amount \div 256,
             IndexKey, b.index, Newline>>
Lines(bs) == Loop([p \in Seq(Byte) \X Block |-> p[1] \o Line(p[2])], <<>>, bs)

OneLine(b) == Newline \notin Range(Front(Line(b)))

-----------------------------------------------------------------------------
(* Reading.                                                                *)

\* getline, until the file ends.
Broken(lines, b) ==
    IF b = Newline THEN Append(lines, <<>>)
    ELSE [lines EXCEPT ![Len(lines)] = Append(@, b)]
LinesOf(bytes) ==
    Front(Loop([p \in Seq(Seq(Byte)) \X Byte |-> Broken(p[1], p[2])],
               << <<>> >>, bytes))

\* std::stoi
Value(digits) ==
    Loop([p \in Int \X Byte |-> 10 * p[1] + p[2] - Digit(0)], 0, digits)
Stoi(line) == IF Head(line) = Minus THEN -Value(Tail(line)) ELSE Value(Tail(line))

\* ParseFromString, whose result is not looked at: a field is kept when its
\* last byte is read.  What stands behind the first byte that does not fit is
\* never a field, and fields that are not found have their defaults.
Parsed == [block: Block, field: Seq(Byte)]
ParseByte(p, b) ==
    LET field == Append(p.field, b)
        Is(key, length) == Head(field) = key /\ Len(field) = length
        Kept(block) == [block |-> block, field |-> <<>>]
    IN CASE Is(TermKey, 2)   -> Kept([p.block EXCEPT !.term = b])
         [] Is(AmountKey, 3) -> Kept([p.block EXCEPT !.amount = field[2] + 256 * b])
         [] Is(IndexKey, 2)  -> Kept([p.block EXCEPT !.index = b])
         [] OTHER            -> [p EXCEPT !.field = field]
Parse(line) ==
    Loop([p \in Parsed \X Byte |-> ParseByte(p[1], p[2])],
         [block |-> [term |-> 0, amount |-> 0, index |-> 0], field |-> <<>>],
         line).block

ReadIndex(bytes) == Stoi(LinesOf(bytes)[1])
ReadBlocks(bytes) ==
    LET lines == Tail(LinesOf(bytes))
    IN [k \in DOMAIN lines |-> Parse(lines[k])]

-----------------------------------------------------------------------------
(* The operations of Blockchain.                                           *)

\* load_file finds no file and makes one.
Init == blocks = <<>> /\ committedIndex = -1 /\ file = Header(-1) /\ clean = TRUE

AddTransaction(t, a) ==
    /\ Len(blocks) < MaxLength
    /\ LET b == [term |-> t, amount |-> a, index |-> Len(blocks)]
       IN /\ blocks' = Append(blocks, b)
          /\ file' = file \o Line(b)
          /\ clean' = (clean /\ OneLine(b))
    /\ UNCHANGED committedIndex

\* The leader's entries, numbered by the leader, take the place of all blocks
\* from index on, and the file is written anew.
CleanUpTooFew(index) ==
    \E n \in 1 .. MaxEntries :
    \E fields \in [1 .. n -> Terms \X Amounts] :
        /\ index + n <= MaxLength
        /\ blocks' = SubSeq(blocks, 1, index + 1)
                     \o [k \in 1 .. n |-> [term |-> fields[k][1],
                                           amount |-> fields[k][2],
                                           index |-> index + k - 1]]
        /\ file' = Header(committedIndex) \o Lines(blocks')
        /\ clean' = (clean /\ \A k \in DOMAIN blocks' : OneLine(blocks'[k]))
        /\ UNCHANGED committedIndex
CleanUpBlocks(index) ==
    \E n \in 1 .. MaxEntries :
    \E fields \in [1 .. n -> Terms \X Amounts] :
        /\ index + n <= MaxLength
        /\ blocks' = SubSeq(blocks, 1, index)
                     \o [k \in 1 .. n |-> [term |-> fields[k][1],
                                           amount |-> fields[k][2],
                                           index |-> index + k - 1]]
        /\ file' = Header(committedIndex) \o Lines(blocks')
        /\ clean' = (clean /\ \A k \in DOMAIN blocks' : OneLine(blocks'[k]))
        /\ UNCHANGED committedIndex

\* The first bytes of the file are written over, the others stay.
WrittenOver(index) ==
    Header(index) \o SubSeq(file, Len(Header(index)) + 1, Len(file))
SetCommittedIndex(index) ==
    /\ Fits(index)    \* bound: a longer index is not written (module Ledger)
    /\ committedIndex' = index
    /\ file' = WrittenOver(index)
    /\ UNCHANGED <<blocks, clean>>

\* The server starts again and parse_file_to_bc reads the file.
Reboot ==
    /\ committedIndex' = ReadIndex(file)
    /\ blocks' = ReadBlocks(file)
    /\ UNCHANGED <<file, clean>>

Next ==
    \/ \E t \in Terms, a \in Amounts : AddTransaction(t, a)
    \/ \E index \in 0 .. Len(blocks) : CleanUpBlocks(index)
    \/ \E index \in committedIndex + 1 .. Len(blocks) - 1 : SetCommittedIndex(index)
    \/ Reboot

Spec == Init /\ [][Next]_vars

-----------------------------------------------------------------------------
(* Properties.                                                             *)

\* Whatever was appended, cut, replaced and written over in place: reading the
\* file gives the chain and the committed index that are in memory.  "That file
\* starts with the committed index on the first line, then a serialized block
\* on each line" is true only of blocks without the byte of a line end, which
\* the code does not escape: an index or a term of 10 is one.
ReadsBack ==
    /\ ReadIndex(file) = committedIndex
    /\ clean => ReadBlocks(file) = blocks

\* A block's index is its place in the chain, also after blocks of other
\* leaders and after a reboot: get_last_index and get_block_by_index of the
\* protocol mean the same block.
IndexIsPosition == clean => \A k \in DOMAIN blocks : blocks[k].index = k - 1

\* Any index that the digits hold may be written over the first line: it reads
\* back, and what is read behind it is not touched, torn lines included.
OverwriteIsSafe ==
    \A index \in {i \in Indices : Fits(i)} \cup {-1} :
        LET over == WrittenOver(index)
        IN ReadIndex(over) = index /\ ReadBlocks(over) = ReadBlocks(file)
=============================================================================
