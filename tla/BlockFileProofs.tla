--------------------------- MODULE BlockFileProofs ---------------------------
(***************************************************************************)
(* What the bytes of bc_file read back as, for all blocks, any number of   *)
(* digits and chains of any length.                                        *)
(*                                                                         *)
(* The proofs are by induction over numbers, strings and chains, which is  *)
(* a well-founded induction here: a set of them that is not empty would    *)
(* have a smallest member.  What a Loop makes of a sequence is the last of *)
(* its runs, and with it a string is read line by line (LinesRead), a line *)
(* field by field (ParseLine), and a number digit by digit (DigitsValue).  *)
(* ReadsBack and IndexIsPosition are not inductive: a block reads back     *)
(* because of the bytes that were written, not because it did so before.   *)
(* FileInv says which bytes these are, and the rest follows from it.       *)
(***************************************************************************)
EXTENDS BlockFile, SequenceTheorems, WellFoundedInduction, TLAPS

-----------------------------------------------------------------------------
(* Induction and loops.                                                    *)

\* Induction, for a set of numbers.
LEMMA SetInduction ==
    ASSUME NEW S, 0 \in S, \A n \in Nat : n \in S => n + 1 \in S
    PROVE  Nat \subseteq S
<1> DEFINE T == Nat \ S
           R == {p \in Nat \X Nat : p[1] < p[2]}
<1> SUFFICES ASSUME T # {} PROVE FALSE
  OBVIOUS
<1>1. PICK x \in T : \A y \in T : ~(<<y, x>> \in R)
  <2>1. IsWellFoundedOn(R, Nat)  BY NatLessThanWellFounded DEF OpToRel
  <2> HIDE DEF R
  <2> QED  BY <2>1, WFMin
<1>2. x \in Nat /\ x # 0 /\ x - 1 \in Nat /\ x - 1 + 1 = x  OBVIOUS
<1>3. x - 1 \in T  BY <1>2
<1>4. <<x - 1, x>> \in R  BY <1>2
<1> QED  BY <1>1, <1>3, <1>4

\* Induction over sequences, for a set of them.
LEMMA SeqInduction ==
    ASSUME NEW S, NEW I, <<>> \in I,
           \A s \in Seq(S), x \in S : s \in I => Append(s, x) \in I
    PROVE  Seq(S) \subseteq I
<1> DEFINE N == {n \in Nat : \A s \in Seq(S) : Len(s) = n => s \in I}
<1>1. 0 \in N
  <2>1. \A s \in Seq(S) : Len(s) = 0 => s = <<>>  OBVIOUS
  <2> QED  BY <2>1
<1>2. ASSUME NEW n \in Nat, n \in N PROVE n + 1 \in N
  <2> SUFFICES ASSUME NEW s \in Seq(S), Len(s) = n + 1 PROVE s \in I
    OBVIOUS
  <2> DEFINE p == SubSeq(s, 1, n)
             x == s[n + 1]
  <2>1. p \in Seq(S) /\ Len(p) = n /\ x \in S /\ s = Append(p, x)  OBVIOUS
  <2> HIDE DEF p, x
  <2>2. p \in I  BY ONLY <1>2, <2>1
  <2> QED  BY <2>1, <2>2
<1> HIDE DEF N
<1>3. Nat \subseteq N  BY ONLY <1>1, <1>2, SetInduction
<1>4. ASSUME NEW s \in Seq(S) PROVE s \in I
  <2>1. Len(s) \in Nat  OBVIOUS
  <2> QED  BY <1>3, <2>1 DEF N
<1> QED  BY <1>4

\* The steps of loops over elements of B that make elements of S.
Steps(S, B) == [S \X B -> S]

\* f holds what the loop makes of the first elements of s, for each number of
\* them.
Runs(f, step, start, s) ==
    /\ DOMAIN f = 0 .. Len(s)
    /\ f[0] = start
    /\ \A n \in 1 .. Len(s) : f[n] = step[<<f[n - 1], s[n]>>]

\* There is such an f.
LEMMA RunsExist ==
    ASSUME NEW S, NEW B, NEW step \in Steps(S, B), NEW start \in S,
           NEW s \in Seq(B)
    PROVE  \E f \in [0 .. Len(s) -> S] : Runs(f, step, start, s)
<1> DEFINE I == {t \in Seq(B) :
                    \E f \in [0 .. Len(t) -> S] : Runs(f, step, start, t)}
<1>1. <<>> \in I
  <2> DEFINE f == [n \in 0 .. 0 |-> start]
  <2>1. f \in [0 .. Len(<<>>) -> S] /\ Runs(f, step, start, <<>>)
    BY DEF Runs
  <2> HIDE DEF f
  <2> QED  BY <2>1
<1>2. ASSUME NEW t \in Seq(B), NEW x \in B, t \in I PROVE Append(t, x) \in I
  <2> DEFINE n == Len(t)
             u == Append(t, x)
  <2>1. PICK f \in [0 .. n -> S] : Runs(f, step, start, t)  BY <1>2
  <2>2. n \in Nat /\ u \in Seq(B) /\ Len(u) = n + 1 /\ u[n + 1] = x
        /\ \A k \in 1 .. n : u[k] = t[k]
    OBVIOUS
  <2>3. step[<<f[n], x>>] \in S
    <3>1. f[n] \in S  BY <2>1, <2>2
    <3> QED  BY <3>1 DEF Steps
  <2> DEFINE g == [k \in 0 .. n + 1 |-> IF k = n + 1 THEN step[<<f[n], x>>] ELSE f[k]]
  <2>4. g \in [0 .. n + 1 -> S]
    BY ONLY <2>1, <2>2, <2>3
  <2>5. /\ DOMAIN g = 0 .. n + 1 /\ g[n + 1] = step[<<f[n], x>>]
        /\ \A k \in 0 .. n : g[k] = f[k]
    BY ONLY <2>2
  <2> HIDE DEF g, n, u
  <2>6. g[0] = start
    BY ONLY <2>1, <2>2, <2>5 DEF Runs, n
  <2>7. ASSUME NEW k \in 1 .. n + 1 PROVE g[k] = step[<<g[k - 1], u[k]>>]
    <3>1. k - 1 \in 0 .. n /\ g[k - 1] = f[k - 1]  BY ONLY <2>2, <2>5, <2>7
    <3>2. CASE k = n + 1
      <4>1. k - 1 = n  BY ONLY <2>2, <3>2
      <4> QED  BY ONLY <2>2, <2>5, <3>1, <3>2, <4>1
    <3>3. CASE k # n + 1
      <4>1. k \in 1 .. n /\ k \in 0 .. n  BY ONLY <2>2, <2>7, <3>3
      <4>2. f[k] = step[<<f[k - 1], t[k]>>]  BY ONLY <2>1, <4>1 DEF Runs, n
      <4> QED  BY ONLY <2>2, <2>5, <3>1, <4>1, <4>2
    <3> QED  BY ONLY <3>2, <3>3
  <2>8. Runs(g, step, start, u)
    BY ONLY <2>2, <2>5, <2>6, <2>7 DEF Runs
  <2>9. \E h \in [0 .. Len(u) -> S] : Runs(h, step, start, u)
    BY ONLY <2>2, <2>4, <2>8
  <2> QED  BY <2>2, <2>9 DEF u
<1> HIDE DEF I
<1>3. s \in I  BY ONLY <1>1, <1>2, s \in Seq(B), SeqInduction
<1> QED  BY <1>3 DEF I

\* It is the same as far as the sequences are.
LEMMA RunsAgree ==
    ASSUME NEW step, NEW start, NEW f, NEW s, Runs(f, step, start, s),
           NEW g, NEW t, Runs(g, step, start, t),
           NEW m \in Nat, Len(s) \in Nat, Len(t) \in Nat,
           m <= Len(s), m <= Len(t), \A k \in 1 .. m : s[k] = t[k]
    PROVE  f[m] = g[m]
<1> DEFINE I == {k \in Nat : k <= m => f[k] = g[k]}
<1>1. 0 \in I  BY DEF Runs
<1>2. ASSUME NEW k \in Nat, k \in I PROVE k + 1 \in I
  <2> SUFFICES ASSUME k + 1 <= m PROVE f[k + 1] = g[k + 1]
    OBVIOUS
  <2> DEFINE j == k + 1
  <2>1. j \in 1 .. m /\ j \in 1 .. Len(s) /\ j \in 1 .. Len(t) /\ j - 1 = k
    OBVIOUS
  <2>2. f[k] = g[k]  BY <1>2
  <2> HIDE DEF j
  <2>3. f[j] = step[<<f[j - 1], s[j]>>] /\ g[j] = step[<<g[j - 1], t[j]>>]
    BY ONLY <2>1, Runs(f, step, start, s), Runs(g, step, start, t) DEF Runs
  <2>4. s[j] = t[j]  BY <2>1
  <2>5. f[j] = g[j]  BY ONLY <2>1, <2>2, <2>3, <2>4
  <2> QED  BY <2>5 DEF j
<1> HIDE DEF I
<1>3. Nat \subseteq I  BY ONLY <1>1, <1>2, SetInduction
<1> QED  BY <1>3 DEF I

\* Loop, which is defined by recursion, has the last of these results.
LEMMA LoopRuns ==
    ASSUME NEW S, NEW B, NEW step \in Steps(S, B), NEW start \in S,
           NEW s \in Seq(B)
    PROVE  \E f \in [0 .. Len(s) -> S] :
              Runs(f, step, start, s) /\ Loop(step, start, s) = f[Len(s)]
<1> DEFINE C(g) == g = [n \in 0 .. Len(s) |->
                            IF n = 0 THEN start ELSE step[<<g[n - 1], s[n]>>]]
           c == CHOOSE g : C(g)
<1>1. PICK f \in [0 .. Len(s) -> S] : Runs(f, step, start, s)  BY RunsExist
<1>2. Len(s) \in Nat  OBVIOUS
<1>3. C(f)  BY ONLY <1>1, <1>2 DEF Runs
<1>4. Loop(step, start, s) = c[Len(s)]  BY DEF Loop
<1> HIDE DEF C
<1>5. C(c)  BY <1>3
<1> HIDE DEF c
<1>6. Runs(c, step, start, s)  BY ONLY <1>2, <1>5 DEF C, Runs
<1>7. c[Len(s)] = f[Len(s)]  BY ONLY <1>1, <1>2, <1>6, RunsAgree
<1> QED  BY <1>1, <1>4, <1>7

\* A loop over no elements, and over one more.
LEMMA LoopFacts ==
    ASSUME NEW S, NEW B, NEW step \in Steps(S, B), NEW start \in S
    PROVE  /\ Loop(step, start, <<>>) = start
           /\ \A s \in Seq(B) : Loop(step, start, s) \in S
           /\ \A s \in Seq(B), x \in B :
                Loop(step, start, Append(s, x)) = step[<<Loop(step, start, s), x>>]
<1>1. Loop(step, start, <<>>) = start
  <2>1. PICK e \in Seq(B) : e = <<>> /\ Len(e) = 0
    <3>1. <<>> \in Seq(B) /\ Len(<<>>) = 0  OBVIOUS
    <3> QED  BY ONLY <3>1, Zenon
  <2>2. PICK f \in [0 .. Len(e) -> S] :
            Runs(f, step, start, e) /\ Loop(step, start, e) = f[Len(e)]
    BY ONLY e \in Seq(B), LoopRuns, step \in Steps(S, B), start \in S
  <2> QED  BY ONLY <2>1, <2>2 DEF Runs
<1>2. ASSUME NEW s \in Seq(B) PROVE Loop(step, start, s) \in S
  <2>1. PICK f \in [0 .. Len(s) -> S] : Loop(step, start, s) = f[Len(s)]
    BY LoopRuns
  <2>2. Len(s) \in 0 .. Len(s)  OBVIOUS
  <2> QED  BY ONLY <2>1, <2>2
<1>3. ASSUME NEW s \in Seq(B), NEW x \in B
      PROVE  Loop(step, start, Append(s, x)) = step[<<Loop(step, start, s), x>>]
  <2> DEFINE n == Len(s)
             t == Append(s, x)
  <2>1. PICK f \in [0 .. n -> S] :
            Runs(f, step, start, s) /\ Loop(step, start, s) = f[n]
    BY LoopRuns
  <2>2. t \in Seq(B) /\ Len(t) = n + 1 /\ t[n + 1] = x /\ n \in Nat
        /\ \A k \in 1 .. n : s[k] = t[k]
    OBVIOUS
  <2> HIDE DEF t
  <2>3. PICK g \in [0 .. Len(t) -> S] :
            Runs(g, step, start, t) /\ Loop(step, start, t) = g[Len(t)]
    BY <2>2, LoopRuns
  <2>4. f[n] = g[n]
    <3>1. n \in Nat /\ n <= Len(s) /\ n <= Len(t) /\ Len(t) \in Nat /\ Len(s) \in Nat
      BY ONLY <2>2
    <3>2. Runs(f, step, start, s) /\ Runs(g, step, start, t)
      BY ONLY <2>1, <2>3
    <3>3. \A k \in 1 .. n : s[k] = t[k]  BY ONLY <2>2
    <3> HIDE DEF n
    <3> QED  BY ONLY <3>1, <3>2, <3>3, RunsAgree
  <2>5. n + 1 \in 1 .. Len(t) /\ n + 1 - 1 = n  BY ONLY <2>2
  <2>6. g[n + 1] = step[<<g[n], x>>]
    BY ONLY <2>2, <2>3, <2>5 DEF Runs
  <2> QED  BY ONLY <2>1, <2>2, <2>3, <2>4, <2>6 DEF t
<1> QED  BY <1>1, <1>2, <1>3

\* A loop over two sequences, one after the other.
LEMMA LoopConcat ==
    ASSUME NEW S, NEW B, NEW step \in Steps(S, B), NEW start \in S,
           NEW s \in Seq(B), NEW t \in Seq(B)
    PROVE  Loop(step, start, s \o t) = Loop(step, Loop(step, start, s), t)
<1> DEFINE m == Loop(step, start, s)
           I == {u \in Seq(B) : Loop(step, start, s \o u) = Loop(step, m, u)}
<1>1. m \in S  BY LoopFacts
<1> HIDE DEF m
<1>2. <<>> \in I
  <2>1. s \o <<>> = s  OBVIOUS
  <2>2. Loop(step, m, <<>>) = m  BY ONLY <1>1, LoopFacts, step \in Steps(S, B)
  <2> QED  BY ONLY <2>1, <2>2 DEF m
<1>3. ASSUME NEW u \in Seq(B), NEW x \in B, u \in I PROVE Append(u, x) \in I
  <2>1. s \o u \in Seq(B) /\ s \o Append(u, x) = Append(s \o u, x)
        /\ Append(u, x) \in Seq(B)
    OBVIOUS
  <2> DEFINE r == s \o u
  <2> HIDE DEF r
  <2>2. Loop(step, start, Append(r, x)) = step[<<Loop(step, start, r), x>>]
    <3>1. r \in Seq(B)  BY <2>1 DEF r
    <3> QED
      BY ONLY <3>1, LoopFacts, step \in Steps(S, B), start \in S, x \in B
  <2>3. Loop(step, m, Append(u, x)) = step[<<Loop(step, m, u), x>>]
    BY ONLY <1>1, LoopFacts, step \in Steps(S, B), u \in Seq(B), x \in B
  <2> QED  BY <1>3, <2>1, <2>2, <2>3 DEF r
<1> HIDE DEF I
<1>4. t \in I  BY ONLY <1>2, <1>3, t \in Seq(B), SeqInduction
<1> QED  BY <1>4 DEF I, m

Text == Seq(Byte)
Word == Seq(Byte \ {Newline})

-----------------------------------------------------------------------------
(* Reading by lines.                                                       *)

ReadStep == [p \in Seq(Seq(Byte)) \X Byte |-> Broken(p[1], p[2])]

\* The lines when bytes have been read after lines.
ReadOn(lines, bytes) == Loop(ReadStep, lines, bytes)

\* What is read goes into the last of the lines, or after it.
LEMMA BrokenBehind ==
    ASSUME NEW before \in Seq(Text), NEW lines \in Seq(Text), lines # <<>>,
           NEW b \in Byte
    PROVE  /\ Broken(lines, b) \in Seq(Text) /\ Broken(lines, b) # <<>>
           /\ Broken(before \o lines, b) = before \o Broken(lines, b)
<1> DEFINE n == Len(lines)
           m == Len(before)
           e == <<>>
<1>1. e \in Text /\ \A t \in Text : Append(t, b) \in Text  BY DEF Text
<1> HIDE DEF e
<1>2. n \in Nat \ {0} /\ m \in Nat /\ n \in 1 .. n
      /\ before \o lines \in Seq(Text) /\ Len(before \o lines) = m + n
      /\ (before \o lines)[m + n] = lines[n] /\ lines[n] \in Text
  OBVIOUS
<1>3. CASE b = Newline
  <2>1. \A x \in Seq(Text) : Broken(x, b) = Append(x, e)
    BY <1>3 DEF Broken, e
  <2>2. Append(lines, e) \in Seq(Text) /\ Append(lines, e) # <<>>
        /\ Append(before \o lines, e) = before \o Append(lines, e)
    BY ONLY <1>1, before \in Seq(Text), lines \in Seq(Text)
  <2> QED  BY ONLY <1>2, <2>1, <2>2, lines \in Seq(Text)
<1>4. CASE b # Newline
  <2> DEFINE t == Append(lines[n], b)
             x == [lines EXCEPT ![n] = t]
             y == [before \o lines EXCEPT ![m + n] = t]
  <2>1. Broken(lines, b) = x /\ Broken(before \o lines, b) = y
    BY <1>2, <1>4 DEF Broken
  <2>2. t \in Text  BY <1>1, <1>2
  <2> HIDE DEF t, n, m
  <2>3. /\ x \in Seq(Text) /\ Len(x) = n /\ x[n] = t
        /\ \A k \in 1 .. n : k # n => x[k] = lines[k]
    BY ONLY <1>2, <2>2, lines \in Seq(Text) DEF n
  <2>4. /\ y \in Seq(Text) /\ Len(y) = m + n /\ y[m + n] = t
        /\ \A k \in 1 .. m + n : k # m + n => y[k] = (before \o lines)[k]
    <3> DEFINE z == before \o lines
    <3>1. z \in Seq(Text) /\ Len(z) = m + n /\ m + n \in 1 .. Len(z)
      BY ONLY <1>2
    <3> HIDE DEF z
    <3>2. \A l \in 1 .. Len(z) :
            /\ [z EXCEPT ![l] = t] \in Seq(Text) /\ Len([z EXCEPT ![l] = t]) = Len(z)
            /\ [z EXCEPT ![l] = t][l] = t
            /\ \A k \in 1 .. Len(z) : k # l => [z EXCEPT ![l] = t][k] = z[k]
      BY ONLY <2>2, <3>1
    <3> QED  BY ONLY <3>1, <3>2 DEF z
  <2> HIDE DEF x, y
  <2>5. before \o x \in Seq(Text) /\ Len(before \o x) = m + n
        /\ \A k \in 1 .. m + n :
             (before \o x)[k] = IF k <= m THEN before[k] ELSE x[k - m]
    BY ONLY <2>3, before \in Seq(Text), ConcatProperties DEF m
  <2>6. \A k \in 1 .. m + n :
          (before \o lines)[k] = IF k <= m THEN before[k] ELSE lines[k - m]
    BY ONLY before \in Seq(Text), lines \in Seq(Text), ConcatProperties DEF m, n
  <2>7. ASSUME NEW k \in 1 .. m + n PROVE y[k] = (before \o x)[k]
    <3>1. CASE k = m + n
      <4>1. ~(k <= m) /\ k - m = n  BY ONLY <1>2, <3>1
      <4> QED  BY ONLY <2>3, <2>4, <2>5, <2>7, <3>1, <4>1
    <3>2. CASE k # m + n /\ k <= m
      BY ONLY <2>4, <2>5, <2>6, <2>7, <3>2
    <3>3. CASE k # m + n /\ ~(k <= m)
      <4>1. k - m \in 1 .. n /\ k - m # n  BY ONLY <1>2, <2>7, <3>3
      <4> QED  BY ONLY <2>3, <2>4, <2>5, <2>6, <2>7, <3>3, <4>1
    <3> QED  BY ONLY <3>1, <3>2, <3>3
  <2>8. y = before \o x  BY ONLY <2>4, <2>5, <2>7, SeqEqual
  <2>9. x # <<>>  BY ONLY <1>2, <2>3
  <2> QED  BY ONLY <2>1, <2>3, <2>8, <2>9
<1> QED  BY ONLY <1>3, <1>4

LEMMA ReadSteps == ReadStep \in Steps(Seq(Text), Byte)
<1>1. ASSUME NEW lines \in Seq(Text), NEW b \in Byte
      PROVE  Broken(lines, b) \in Seq(Text)
  <2>1. CASE lines = <<>>
    <3>1. Append(lines, <<>>) \in Seq(Text)  BY DEF Text
    <3>2. [lines EXCEPT ![Len(lines)] = Append(@, b)] = lines  BY <2>1
    <3> QED  BY <3>1, <3>2 DEF Broken
  <2>2. CASE lines # <<>>
    <3>1. <<>> \in Seq(Text)  OBVIOUS
    <3> QED  BY <2>2, <3>1, BrokenBehind
  <2> QED  BY <2>1, <2>2
<1> QED  BY <1>1 DEF ReadStep, Steps, Text

LEMMA ReadFacts ==
    ASSUME NEW lines \in Seq(Text)
    PROVE  /\ ReadOn(lines, <<>>) = lines
           /\ \A s \in Text : ReadOn(lines, s) \in Seq(Text)
           /\ \A s \in Text, b \in Byte :
                ReadOn(lines, Append(s, b)) = Broken(ReadOn(lines, s), b)
           /\ \A s, t \in Text : ReadOn(lines, s \o t) = ReadOn(ReadOn(lines, s), t)
<1> DEFINE L == Seq(Text)
<1>1. lines \in L /\ ReadStep \in Steps(L, Byte)  BY ReadSteps
<1>2. \A x \in L, b \in Byte : ReadStep[<<x, b>>] = Broken(x, b)
  BY DEF ReadStep, Text
<1> HIDE DEF L
<1>3. /\ ReadOn(lines, <<>>) = lines
      /\ \A s \in Seq(Byte) : ReadOn(lines, s) \in L
      /\ \A s \in Seq(Byte), b \in Byte :
            ReadOn(lines, Append(s, b)) = ReadStep[<<ReadOn(lines, s), b>>]
  BY ONLY <1>1, LoopFacts DEF ReadOn
<1>4. \A s, t \in Seq(Byte) :
        ReadOn(lines, s \o t) = ReadOn(ReadOn(lines, s), t)
  BY ONLY <1>1, LoopConcat DEF ReadOn
<1> QED  BY ONLY <1>2, <1>3, <1>4 DEF Text, L

LEMMA ReadConcat ==
    ASSUME NEW lines \in Seq(Text), NEW s \in Text, NEW t \in Text
    PROVE  ReadOn(lines, s \o t) = ReadOn(ReadOn(lines, s), t)
<1>1. \A x, y \in Text : ReadOn(lines, x \o y) = ReadOn(ReadOn(lines, x), y)
  BY ONLY lines \in Seq(Text), ReadFacts
<1> QED  BY ONLY <1>1, s \in Text, t \in Text, Zenon

\* Lines that were read before stay as they are.
LEMMA ReadBehind ==
    ASSUME NEW before \in Seq(Text), NEW lines \in Seq(Text), lines # <<>>,
           NEW s \in Text
    PROVE  /\ ReadOn(lines, s) \in Seq(Text) /\ ReadOn(lines, s) # <<>>
           /\ ReadOn(before \o lines, s) = before \o ReadOn(lines, s)
<1> DEFINE all == before \o lines
           Good(t) == /\ ReadOn(lines, t) # <<>>
                      /\ ReadOn(all, t) = before \o ReadOn(lines, t)
           I == {t \in Seq(Byte) : Good(t)}
<1>1. all \in Seq(Text)  OBVIOUS
<1> HIDE DEF all
<1>2. <<>> \in I
  <2>1. ReadOn(lines, <<>>) = lines /\ ReadOn(all, <<>>) = all
    BY ONLY <1>1, lines \in Seq(Text), ReadFacts
  <2> QED  BY <2>1 DEF all
<1>3. ASSUME NEW t \in Seq(Byte), NEW b \in Byte, t \in I
      PROVE  Append(t, b) \in I
  <2>1. t \in Text /\ Append(t, b) \in Seq(Byte)  BY DEF Text
  <2>2. ReadOn(lines, t) \in Seq(Text)
        /\ ReadOn(lines, Append(t, b)) = Broken(ReadOn(lines, t), b)
    BY ONLY <2>1, lines \in Seq(Text), b \in Byte, ReadFacts
  <2>3. ReadOn(all, Append(t, b)) = Broken(ReadOn(all, t), b)
    BY ONLY <1>1, <2>1, b \in Byte, ReadFacts
  <2>4. Good(t)  BY ONLY <1>3
  <2> DEFINE r == ReadOn(lines, t)
  <2>6. r \in Seq(Text) /\ r # <<>>  BY ONLY <2>2, <2>4
  <2>7. ReadOn(all, t) = before \o r  BY ONLY <2>4
  <2> HIDE DEF r
  <2>8. /\ Broken(r, b) # <<>>
        /\ Broken(before \o r, b) = before \o Broken(r, b)
    BY ONLY <2>6, before \in Seq(Text), b \in Byte, BrokenBehind
  <2>9. ReadOn(lines, Append(t, b)) = Broken(r, b)
        /\ ReadOn(all, Append(t, b)) = Broken(before \o r, b)
    BY ONLY <2>2, <2>3, <2>7 DEF r
  <2>5. Good(Append(t, b))
    BY ONLY <2>8, <2>9
  <2> HIDE DEF Good
  <2> QED  BY ONLY <2>1, <2>5
<1> HIDE DEF I
<1>4. s \in I  BY ONLY <1>2, <1>3, s \in Text, SeqInduction DEF Text
<1> QED  BY <1>4, ReadFacts DEF I, all

\* Bytes that end no line make one.
LEMMA ReadWord ==
    ASSUME NEW w \in Word
    PROVE  w \in Text /\ ReadOn(<< <<>> >>, w) = <<w>>
<1> DEFINE e == << <<>> >>
           I == {t \in Word : t \in Text /\ ReadOn(e, t) = <<t>>}
<1>1. e \in Seq(Text)  BY DEF Text
<1>2. <<>> \in I
  <2>1. ReadOn(e, <<>>) = e  BY ONLY <1>1, ReadFacts
  <2> QED  BY <2>1 DEF Word, Text
<1> HIDE DEF e
<1>3. ASSUME NEW t \in Word, NEW b \in Byte \ {Newline}, t \in I
      PROVE  Append(t, b) \in I
  <2>1. Append(t, b) \in Word /\ t \in Text /\ Append(t, b) \in Text
        /\ b \in Byte /\ b # Newline
    BY DEF Word, Text
  <2>2. ReadOn(e, t) = <<t>>  BY <1>3
  <2>3. ReadOn(e, Append(t, b)) = Broken(ReadOn(e, t), b)
    BY ONLY <1>1, <2>1, ReadFacts
  <2>4. Broken(<<t>>, b) = <<Append(t, b)>>  BY ONLY <2>1 DEF Broken
  <2> QED  BY ONLY <2>1, <2>2, <2>3, <2>4
<1> HIDE DEF I
<1>4. w \in I
  BY ONLY <1>2, <1>3, w \in Word, SeqInduction DEF Word
<1> QED  BY <1>4 DEF I, e

\* A line end begins the next line.
LEMMA ReadLine ==
    ASSUME NEW w \in Word, NEW before \in Seq(Text)
    PROVE  /\ Append(w, Newline) \in Text
           /\ ReadOn(Append(before, <<>>), Append(w, Newline))
                = Append(Append(before, w), <<>>)
<1> DEFINE e == <<>>
           l == Append(w, Newline)
<1>1. w \in Text /\ ReadOn(<<e>>, w) = <<w>>  BY ReadWord
<1>2. Newline \in Byte  BY DEF Newline, Byte
<1>3. l \in Text  BY <1>1, <1>2 DEF Text
<1>4. e \in Text  BY DEF Text
<1> HIDE DEF e, l
<1>5. <<e>> \in Seq(Text) /\ <<e>> # <<>> /\ Append(before, e) = before \o <<e>>
  BY ONLY <1>4, before \in Seq(Text)
<1> DEFINE start == <<e>>
<1> HIDE DEF start
<1>10. ReadOn(start, w) = <<w>> /\ start \in Seq(Text) /\ start # <<>>
  BY ONLY <1>1, <1>5 DEF start
<1>6. ReadOn(start, l) = Broken(<<w>>, Newline)
  <2>1. w \in Text /\ start \in Seq(Text)  BY ONLY <1>1, <1>10
  <2> DEFINE n == Newline
  <2>2. n \in Byte  BY <1>2
  <2> HIDE DEF n
  <2>3. ReadOn(start, Append(w, n)) = Broken(ReadOn(start, w), n)
    BY ONLY <2>1, <2>2, ReadFacts
  <2> QED  BY ONLY <1>10, <2>3 DEF l, n
<1>7. Broken(<<w>>, Newline) = <<w, e>>
  <2>1. Broken(<<w>>, Newline) = Append(<<w>>, e)  BY DEF Broken, e
  <2>2. <<w>> \in Seq(Text)  BY ONLY <1>1
  <2> HIDE DEF Text
  <2> QED  BY ONLY <1>1, <1>4, <2>1, <2>2
<1>8. ReadOn(before \o start, l) = before \o <<w, e>>
  <2>1. ReadOn(before \o start, l) = before \o ReadOn(start, l)
    BY ONLY <1>3, <1>10, before \in Seq(Text), ReadBehind
  <2> QED  BY ONLY <1>6, <1>7, <2>1
<1>9. before \o <<w, e>> = Append(Append(before, w), e)
  BY ONLY <1>1, <1>4, before \in Seq(Text)
<1> QED  BY ONLY <1>3, <1>5, <1>8, <1>9 DEF e, l, start

\* The first line of a file, and the others.
LEMMA FirstLine ==
    ASSUME NEW w \in Word, NEW rest \in Text
    PROVE  /\ LinesOf(rest) \in Seq(Text)
           /\ LinesOf(Append(w, Newline) \o rest) = <<w>> \o LinesOf(rest)
<1> DEFINE e == <<>>
           l == Append(w, Newline)
           r == ReadOn(<<e>>, rest)
           none == <<>>
<1>0. none \in Seq(Text)  OBVIOUS
<1>1. l \in Text /\ w \in Text
  BY ONLY <1>0, ReadLine, ReadWord, w \in Word
<1>2. e \in Text  BY DEF Text
<1>3. ReadOn(Append(none, e), l) = Append(Append(none, w), e)
  BY ONLY <1>0, ReadLine, w \in Word
<1>4. Append(none, e) = <<e>> /\ Append(Append(none, w), e) = <<w>> \o <<e>>
  BY DEF e
<1>5. \A s \in Text : LinesOf(s) = Front(ReadOn(<<e>>, s))
  BY DEF LinesOf, ReadOn, ReadStep
<1> HIDE DEF e, l, none
<1>6. <<e>> \in Seq(Text) /\ <<e>> # <<>> /\ <<w>> \in Seq(Text)
  BY ONLY <1>1, <1>2
<1>7. ReadOn(<<e>>, l \o rest) = ReadOn(ReadOn(<<e>>, l), rest)
  BY ONLY <1>1, <1>6, rest \in Text, ReadConcat, Zenon
<1>8. ReadOn(<<w>> \o <<e>>, rest) = <<w>> \o r /\ r \in Seq(Text) /\ r # <<>>
  BY ONLY <1>6, rest \in Text, ReadBehind
<1>9. ReadOn(<<e>>, l \o rest) = <<w>> \o r
  BY ONLY <1>3, <1>4, <1>7, <1>8
<1> HIDE DEF r
<1>10. Front(<<w>> \o r) = <<w>> \o Front(r) /\ Front(r) \in Seq(Text)
  BY ONLY <1>6, <1>8 DEF Front
<1>11. l \o rest \in Text  BY <1>1 DEF Text
<1> QED  BY ONLY <1>5, <1>9, <1>10, <1>11, rest \in Text DEF r, l

-----------------------------------------------------------------------------
(* Blocks by lines.                                                        *)

\* A block's line without its end.
Fields(b) == <<TermKey, b.term, AmountKey, b.amount % 256, b.amount \div 256,
               IndexKey, b.index>>

\* The blocks whose line is one.
Clean == {b \in Block : OneLine(b)}

\* A number of two bytes.
LEMMA HalfSplit ==
    ASSUME NEW a \in Half
    PROVE  /\ a % 256 \in Byte /\ a \div 256 \in Byte
           /\ (a % 256) + 256 * (a \div 256) = a
<1>1. a \in Int /\ 0 <= a /\ a <= 256 * 256 - 1
  <2>1. \A n \in Int : a \in 0 .. n => a \in Int /\ 0 <= a /\ a <= n
    OBVIOUS
  <2>2. 256 * 256 - 1 \in Int  OBVIOUS
  <2> QED  BY ONLY a \in Half, <2>1, <2>2, Zenon DEF Half
<1>2. a % 256 \in 0 .. 255 /\ a \div 256 \in 0 .. 255
      /\ (a % 256) + 256 * (a \div 256) = a
  BY ONLY <1>1, SMT
<1> QED  BY ONLY <1>2 DEF Byte

LEMMA HalfJoin ==
    ASSUME NEW l \in Byte, NEW h \in Byte
    PROVE  l + 256 * h \in Half
<1>1. l \in Int /\ 0 <= l /\ l < 256 /\ h \in Int /\ 0 <= h /\ h < 256
  BY SMT DEF Byte
<1> DEFINE x == l + 256 * h
<1>2. x \in Int /\ 0 <= x /\ x <= 256 * 256 - 1
  BY ONLY <1>1, SMT
<1> HIDE DEF x
<1>3. x \in Half
  <2>1. \A n \in Int : x <= n => x \in 0 .. n  BY ONLY <1>2, SMT
  <2>2. 256 * 256 - 1 \in Int  OBVIOUS
  <2> QED  BY ONLY <1>2, <2>1, <2>2, Zenon DEF Half
<1> QED  BY ONLY <1>3 DEF x

\* All but the last.
LEMMA FrontAppend ==
    ASSUME NEW S, NEW s \in Seq(S), NEW x \in S
    PROVE  Front(Append(s, x)) = s
BY DEF Front

\* A sequence of what its elements are.
LEMMA SeqTyped ==
    ASSUME NEW S, NEW T, NEW s \in Seq(S), \A k \in 1 .. Len(s) : s[k] \in T
    PROVE  s \in Seq(T)
<1>1. Len(s) \in Nat /\ s = [k \in 1 .. Len(s) |-> s[k]]  OBVIOUS
<1>2. [k \in 1 .. Len(s) |-> s[k]] \in Seq(T)  BY ONLY <1>1, \A k \in 1 .. Len(s) : s[k] \in T
<1> QED  BY ONLY <1>1, <1>2

LEMMA LineFacts ==
    ASSUME NEW b \in Block
    PROVE  /\ Line(b) \in Text /\ Fields(b) \in Text
           /\ Line(b) = Append(Fields(b), Newline)
           /\ OneLine(b) => Fields(b) \in Word
<1> DEFINE f == Fields(b)
<1>1. /\ b.term \in Byte /\ b.index \in Byte
      /\ b.amount % 256 \in Byte /\ b.amount \div 256 \in Byte
  <2>1. b.term \in Byte /\ b.index \in Byte /\ b.amount \in Half
    BY DEF Block
  <2>2. b.amount % 256 \in Byte /\ b.amount \div 256 \in Byte
    BY ONLY <2>1, HalfSplit, Zenon
  <2> QED  BY ONLY <2>1, <2>2, Zenon
<1>2. TermKey \in Byte /\ AmountKey \in Byte /\ IndexKey \in Byte /\ Newline \in Byte
  BY DEF TermKey, AmountKey, IndexKey, Newline, Byte
<1>3. f \in Seq(Byte) /\ Len(f) = 7
  BY ONLY <1>1, <1>2 DEF Fields
<1>4. Line(b) = Append(f, Newline)  BY DEF Line, Fields
<1> HIDE DEF f
<1>5. Append(f, Newline) \in Seq(Byte)  BY ONLY <1>2, <1>3
<1>6. Front(Append(f, Newline)) = f
  BY ONLY <1>2, <1>3, FrontAppend
<1>7. OneLine(b) => f \in Seq(Byte \ {Newline})
  <2> SUFFICES ASSUME OneLine(b) PROVE f \in Seq(Byte \ {Newline})
    OBVIOUS
  <2>1. Newline \notin {f[k] : k \in DOMAIN f}
    BY ONLY <1>4, <1>6, OneLine(b) DEF OneLine, Range
  <2>2. ASSUME NEW k \in 1 .. Len(f) PROVE f[k] \in Byte \ {Newline}
    <3>1. f[k] \in Byte  BY ONLY <1>3, <2>2, ElementOfSeq
    <3>2. f[k] # Newline
      <4>1. DOMAIN f = 1 .. Len(f)  BY ONLY <1>3
      <4> QED  BY ONLY <2>1, <2>2, <4>1
    <3> QED  BY ONLY <3>1, <3>2
  <2> QED  BY ONLY <1>3, <2>2, SeqTyped
<1> QED  BY ONLY <1>3, <1>4, <1>5, <1>7 DEF Text, Word, f

WriteStep == [p \in Seq(Byte) \X Block |-> p[1] \o Line(p[2])]

LEMMA LinesFacts ==
    /\ Lines(<<>>) = <<>>
    /\ \A bs \in Seq(Block) : Lines(bs) \in Text
    /\ \A bs \in Seq(Block), b \in Block :
         Lines(Append(bs, b)) = Lines(bs) \o Line(b)
<1> DEFINE e == <<>>
<1>1. WriteStep \in Steps(Text, Block)
  <2>1. \A t \in Seq(Byte), b \in Block : t \o Line(b) \in Seq(Byte)
    BY LineFacts DEF Text
  <2> QED  BY ONLY <2>1 DEF WriteStep, Steps, Text
<1>2. e \in Text  BY DEF Text
<1>3. \A bs : Lines(bs) = Loop(WriteStep, e, bs)  BY DEF Lines, WriteStep
<1>4. \A t \in Text, b \in Block : WriteStep[<<t, b>>] = t \o Line(b)
  BY DEF WriteStep, Text
<1> HIDE DEF e
<1>5. /\ Loop(WriteStep, e, <<>>) = e
      /\ \A bs \in Seq(Block) : Loop(WriteStep, e, bs) \in Text
      /\ \A bs \in Seq(Block), b \in Block :
            Loop(WriteStep, e, Append(bs, b)) = WriteStep[<<Loop(WriteStep, e, bs), b>>]
  BY ONLY <1>1, <1>2, LoopFacts
<1> QED  BY ONLY <1>3, <1>4, <1>5 DEF e

\* The lines of clean blocks, and the beginning of the next.
LEMMA LinesRead ==
    ASSUME NEW bs \in Seq(Clean)
    PROVE  /\ Lines(bs) \in Text
           /\ LinesOf(Lines(bs)) = [k \in 1 .. Len(bs) |-> Fields(bs[k])]
<1> DEFINE e == <<>>
           W(s) == [k \in 1 .. Len(s) |-> Fields(s[k])]
           Good(s) == ReadOn(<<e>>, Lines(s)) = Append(W(s), e)
           I == {s \in Seq(Clean) : Good(s)}
<1>1. \A s \in Seq(Clean) : s \in Seq(Block)  BY DEF Clean
<1>2. \A b \in Clean : b \in Block /\ OneLine(b)  BY DEF Clean
<1>3. \A s \in Seq(Clean) : W(s) \in Seq(Text)
  <2> SUFFICES ASSUME NEW s \in Seq(Clean) PROVE W(s) \in Seq(Text)
    OBVIOUS
  <2>1. \A k \in 1 .. Len(s) : Fields(s[k]) \in Text
    BY ONLY <1>2, s \in Seq(Clean), LineFacts
  <2>2. Len(s) \in Nat  OBVIOUS
  <2> QED  BY ONLY <2>1, <2>2
<1>4. e \in Text /\ <<e>> \in Seq(Text)  BY DEF Text
<1>5. <<>> \in I
  <2>1. Lines(<<>>) = <<>>  BY LinesFacts
  <2>2. W(<<>>) = <<>>  OBVIOUS
  <2> HIDE DEF e
  <2>3. ReadOn(<<e>>, <<>>) = <<e>>  BY ONLY <1>4, ReadFacts
  <2>4. Append(<<>>, e) = <<e>>  OBVIOUS
  <2> QED  BY ONLY <2>1, <2>2, <2>3, <2>4
<1>6. ASSUME NEW s \in Seq(Clean), NEW b \in Clean, s \in I
      PROVE  Append(s, b) \in I
  <2> DEFINE w == Fields(b)
             t == Lines(s)
             l == Append(w, Newline)
  <2>1. w \in Word /\ l = Line(b)  BY ONLY <1>2, b \in Clean, LineFacts
  <2>2. t \in Text /\ Lines(Append(s, b)) = t \o l
    BY ONLY <1>1, <1>2, <2>1, s \in Seq(Clean), b \in Clean, LinesFacts
  <2>3. W(Append(s, b)) = Append(W(s), w)
    <3>1. Len(Append(s, b)) = Len(s) + 1 /\ Len(s) \in Nat
          /\ \A k \in 1 .. Len(s) + 1 :
               Append(s, b)[k] = IF k = Len(s) + 1 THEN b ELSE s[k]
      OBVIOUS
    <3>2. w \in Text /\ W(s) \in Seq(Text)
      BY ONLY <1>2, <1>3, s \in Seq(Clean), b \in Clean, LineFacts
    <3> DEFINE x == Append(W(s), w)
               n == Len(s)
    <3>3. Len(W(s)) = n /\ \A k \in 1 .. n : W(s)[k] = Fields(s[k])
      BY ONLY <3>1
    <3> HIDE DEF W, w
    <3>4. x \in Seq(Text) /\ Len(x) = n + 1
          /\ \A k \in 1 .. n + 1 : x[k] = IF k = n + 1 THEN w ELSE W(s)[k]
      BY ONLY <3>1, <3>2, <3>3
    <3> HIDE DEF x, n
    <3>5. \A k \in 1 .. n + 1 : x[k] = Fields(Append(s, b)[k])
      <4> SUFFICES ASSUME NEW k \in 1 .. n + 1
                   PROVE  x[k] = Fields(Append(s, b)[k])
        OBVIOUS
      <4>1. CASE k = n + 1
        BY ONLY <3>1, <3>4, <4>1 DEF w, n
      <4>2. CASE k # n + 1
        <5>1. k \in 1 .. n  BY ONLY <3>1, k \in 1 .. n + 1, <4>2 DEF n
        <5> QED  BY ONLY <3>1, <3>3, <3>4, <4>2, <5>1 DEF n
      <4> QED  BY ONLY <4>1, <4>2
    <3>6. x = [k \in 1 .. n + 1 |-> Fields(Append(s, b)[k])]
      <4>1. x = [k \in 1 .. n + 1 |-> x[k]]  BY ONLY <3>1, <3>4 DEF n
      <4> QED  BY ONLY <3>5, <4>1
    <3> QED  BY ONLY <3>1, <3>6 DEF W, n, x
  <2>4. W(s) \in Seq(Text)  BY <1>3
  <2> HIDE DEF e, W, w, t
  <2>5. l \in Text /\ ReadOn(Append(W(s), e), l) = Append(Append(W(s), w), e)
    BY ONLY <2>1, <2>4, ReadLine DEF e
  <2>6. ReadOn(<<e>>, t) = Append(W(s), e)  BY ONLY <1>6 DEF t
  <2> HIDE DEF l
  <2>7. ReadOn(<<e>>, t \o l) = ReadOn(ReadOn(<<e>>, t), l)
    BY ONLY <1>4, <2>2, <2>5, ReadConcat, Zenon
  <2>8. Good(Append(s, b))
    <3>1. ReadOn(<<e>>, t \o l) = Append(Append(W(s), w), e)
      BY ONLY <2>5, <2>6, <2>7
    <3> QED  BY ONLY <2>2, <2>3, <3>1
  <2>9. Append(s, b) \in Seq(Clean)  OBVIOUS
  <2> QED  BY ONLY <2>8, <2>9
<1> HIDE DEF I
<1>7. bs \in I  BY ONLY <1>5, <1>6, bs \in Seq(Clean), SeqInduction
<1>8. LinesOf(Lines(bs)) = Front(Append(W(bs), e))
  BY <1>7 DEF LinesOf, ReadOn, ReadStep, I
<1>9. W(bs) \in Seq(Text) /\ Lines(bs) \in Text  BY <1>1, <1>3, LinesFacts
<1> HIDE DEF e, W
<1>10. Front(Append(W(bs), e)) = W(bs)  BY ONLY <1>4, <1>9 DEF Front
<1> QED  BY ONLY <1>8, <1>9, <1>10 DEF W

-----------------------------------------------------------------------------
(* The fields of a line.                                                   *)

ParseStep == [p \in Parsed \X Byte |-> ParseByte(p[1], p[2])]

NoBlock == [term |-> 0, amount |-> 0, index |-> 0]

LEMMA ParseSteps == ParseStep \in Steps(Parsed, Byte)
<1> SUFFICES ASSUME NEW p \in Parsed, NEW b \in Byte
             PROVE  ParseByte(p, b) \in Parsed
  BY DEF ParseStep, Steps
<1> DEFINE field == Append(p.field, b)
<1>1. p.block \in Block /\ p.field \in Seq(Byte)  BY DEF Parsed
<1>2. field \in Seq(Byte) /\ <<>> \in Seq(Byte)  BY <1>1
<1> HIDE DEF field
<1>3. CASE Head(field) = TermKey /\ Len(field) = 2
  <2>1. [p.block EXCEPT !.term = b] \in Block  BY ONLY <1>1, b \in Byte DEF Block
  <2> QED  BY <1>2, <1>3, <2>1 DEF ParseByte, Parsed, field, TermKey, AmountKey, IndexKey
<1>4. CASE Head(field) = AmountKey /\ Len(field) = 3
  <2>1. field[2] + 256 * b \in Half
    <3>1. field[2] \in Byte
      <4>1. Len(field) = 3  BY ONLY <1>4
      <4>2. field \in Seq(Byte)  BY ONLY <1>2
      <4> QED  BY ONLY <4>1, <4>2
    <3> QED  BY ONLY <3>1, b \in Byte, HalfJoin, Zenon
  <2>2. [p.block EXCEPT !.amount = field[2] + 256 * b] \in Block
    BY ONLY <1>1, <2>1 DEF Block
  <2> QED  BY <1>2, <1>4, <2>2 DEF ParseByte, Parsed, field, TermKey, AmountKey, IndexKey
<1>5. CASE Head(field) = IndexKey /\ Len(field) = 2
  <2>1. [p.block EXCEPT !.index = b] \in Block  BY ONLY <1>1, b \in Byte DEF Block
  <2> QED  BY <1>2, <1>5, <2>1 DEF ParseByte, Parsed, field, TermKey, AmountKey, IndexKey
<1>6. CASE /\ ~(Head(field) = TermKey /\ Len(field) = 2)
           /\ ~(Head(field) = AmountKey /\ Len(field) = 3)
           /\ ~(Head(field) = IndexKey /\ Len(field) = 2)
  <2>1. ParseByte(p, b) = [p EXCEPT !.field = field]
    BY <1>6 DEF ParseByte, field
  <2> QED  BY ONLY <1>1, <1>2, <2>1, p \in Parsed DEF Parsed
<1> QED  BY ONLY <1>3, <1>4, <1>5, <1>6

LEMMA ParseFacts ==
    LET On(s) == Loop(ParseStep, [block |-> NoBlock, field |-> <<>>], s)
    IN /\ On(<<>>) = [block |-> NoBlock, field |-> <<>>]
       /\ \A s \in Text : On(s) \in Parsed /\ Parse(s) = On(s).block
       /\ \A s \in Text, b \in Byte : On(Append(s, b)) = ParseByte(On(s), b)
<1> DEFINE start == [block |-> NoBlock, field |-> <<>>]
<1>1. start \in Parsed
  <2>1. 0 \in Byte /\ 0 \in Half  BY SMT DEF Byte, Half
  <2>2. NoBlock \in Block  BY ONLY <2>1 DEF NoBlock, Block
  <2> QED  BY ONLY <2>2 DEF Parsed
<1>2. \A s : Parse(s) = Loop(ParseStep, start, s).block
  BY DEF Parse, ParseStep, NoBlock
<1>3. \A p \in Parsed, b \in Byte : ParseStep[<<p, b>>] = ParseByte(p, b)
  BY DEF ParseStep
<1> HIDE DEF start
<1>4. /\ Loop(ParseStep, start, <<>>) = start
      /\ \A s \in Seq(Byte) : Loop(ParseStep, start, s) \in Parsed
      /\ \A s \in Seq(Byte), b \in Byte :
            Loop(ParseStep, start, Append(s, b)) = ParseStep[<<Loop(ParseStep, start, s), b>>]
  BY ONLY <1>1, ParseSteps, LoopFacts
<1> QED  BY ONLY <1>2, <1>3, <1>4 DEF Text, start

\* What is read is a block.
LEMMA ParseType == \A s \in Text : Parse(s) \in Block
BY ParseFacts DEF Parsed

\* The states between the bytes of a line.
At(y, f) == [block |-> y, field |-> f]
One(k) == Append(<<>>, k)
Two(k, v) == Append(One(k), v)
Three(k, v, w) == Append(Two(k, v), w)

\* A byte that ends no field, and one that does.
Cases(y, g, b, f) ==
    /\ Head(f) = TermKey /\ Len(f) = 2
       => ParseByte(At(y, g), b) = At([y EXCEPT !.term = b], <<>>)
    /\ Head(f) = AmountKey /\ Len(f) = 3
       => ParseByte(At(y, g), b) = At([y EXCEPT !.amount = f[2] + 256 * b], <<>>)
    /\ Head(f) = IndexKey /\ Len(f) = 2
       => ParseByte(At(y, g), b) = At([y EXCEPT !.index = b], <<>>)
    /\ Len(f) = 1 \/ (Head(f) = AmountKey /\ Len(f) = 2)
       => ParseByte(At(y, g), b) = At(y, f)

LEMMA ParseCases ==
    ASSUME NEW y, NEW g, NEW b
    PROVE  Cases(y, g, b, Append(g, b))
<1> DEFINE p == At(y, g)
           f == Append(g, b)
<1>1. p.block = y /\ p.field = g  BY DEF At
<1>2. [p EXCEPT !.field = f] = At(y, f)  BY DEF At
<1>3. TermKey = 8 /\ AmountKey = 29 /\ IndexKey = 40
  BY DEF TermKey, AmountKey, IndexKey
<1> HIDE DEF p
<1>9. f = Append(g, b)  OBVIOUS
<1> HIDE DEF f
<1>4. ParseByte(p, b) =
        CASE Head(f) = TermKey /\ Len(f) = 2 -> At([y EXCEPT !.term = b], <<>>)
          [] Head(f) = AmountKey /\ Len(f) = 3 ->
                At([y EXCEPT !.amount = f[2] + 256 * b], <<>>)
          [] Head(f) = IndexKey /\ Len(f) = 2 -> At([y EXCEPT !.index = b], <<>>)
          [] OTHER -> At(y, f)
  BY ONLY <1>1, <1>2, <1>9 DEF ParseByte, At
<1>5. Head(f) = TermKey /\ Len(f) = 2
        => ParseByte(p, b) = At([y EXCEPT !.term = b], <<>>)
  BY ONLY <1>3, <1>4
<1>6. Head(f) = AmountKey /\ Len(f) = 3
        => ParseByte(p, b) = At([y EXCEPT !.amount = f[2] + 256 * b], <<>>)
  BY ONLY <1>3, <1>4
<1>7. Head(f) = IndexKey /\ Len(f) = 2
        => ParseByte(p, b) = At([y EXCEPT !.index = b], <<>>)
  BY ONLY <1>3, <1>4
<1>8. Len(f) = 1 \/ (Head(f) = AmountKey /\ Len(f) = 2)
        => ParseByte(p, b) = At(y, f)
  <2>1. ASSUME ~(Head(f) = TermKey /\ Len(f) = 2),
               ~(Head(f) = AmountKey /\ Len(f) = 3),
               ~(Head(f) = IndexKey /\ Len(f) = 2)
        PROVE  ParseByte(p, b) = At(y, f)
    BY ONLY <1>4, <2>1
  <2>2. Len(f) = 1 => Len(f) # 2 /\ Len(f) # 3  OBVIOUS
  <2>3. Len(f) = 2 => Len(f) # 3  OBVIOUS
  <2>4. AmountKey # TermKey /\ AmountKey # IndexKey  BY ONLY <1>3
  <2> QED  BY ONLY <2>1, <2>2, <2>3, <2>4
<1> QED  BY ONLY <1>5, <1>6, <1>7, <1>8 DEF Cases, f, p

\* One byte more.
Grows(s, x, u) ==
    /\ u \in Seq(Byte) /\ Len(u) = Len(s) + 1 /\ u[Len(s) + 1] = x
    /\ \A k \in 1 .. Len(s) : u[k] = s[k]

LEMMA Grown ==
    ASSUME NEW s \in Seq(Byte), NEW x \in Byte
    PROVE  Grows(s, x, Append(s, x))
BY AppendProperties DEF Grows

LEMMA FieldLength ==
    ASSUME NEW k \in Byte, NEW v \in Byte, NEW w \in Byte
    PROVE  /\ Len(One(k)) = 1 /\ Head(One(k)) = k
           /\ Len(Two(k, v)) = 2 /\ Head(Two(k, v)) = k
           /\ Len(Three(k, v, w)) = 3 /\ Head(Three(k, v, w)) = k
           /\ Three(k, v, w)[2] = v
<1> DEFINE e == <<>>
           f == One(k)
           g == Two(k, v)
           h == Three(k, v, w)
<1>1. e \in Seq(Byte) /\ Len(e) = 0  OBVIOUS
<1>2. f = Append(e, k) /\ g = Append(f, v) /\ h = Append(g, w)
  BY DEF One, Two, Three
<1> HIDE DEF e, f, g, h
<1>3. f \in Seq(Byte) /\ Len(f) = 1 /\ f[1] = k
  <2>1. Grows(e, k, f)  BY ONLY <1>1, <1>2, k \in Byte, Grown
  <2> QED  BY ONLY <1>1, <2>1 DEF Grows
<1>4. g \in Seq(Byte) /\ Len(g) = 2 /\ g[1] = k /\ g[2] = v
  <2>1. Grows(f, v, g)  BY ONLY <1>2, <1>3, v \in Byte, Grown
  <2> QED  BY ONLY <1>3, <2>1 DEF Grows
<1>5. h \in Seq(Byte) /\ Len(h) = 3 /\ h[1] = k /\ h[2] = v
  <2>1. Grows(g, w, h)  BY ONLY <1>2, <1>4, w \in Byte, Grown
  <2> QED  BY ONLY <1>4, <2>1 DEF Grows
<1>6. Head(f) = k /\ Head(g) = k /\ Head(h) = k
  BY ONLY <1>3, <1>4, <1>5
<1> QED  BY ONLY <1>3, <1>4, <1>5, <1>6 DEF f, g, h

LEMMA KeyBytes == TermKey \in Byte /\ AmountKey \in Byte /\ IndexKey \in Byte
BY DEF TermKey, AmountKey, IndexKey, Byte

LEMMA ParseKey ==
    ASSUME NEW x \in Block, NEW k \in Byte
    PROVE  ParseByte(At(x, <<>>), k) = At(x, One(k))
<1> DEFINE e == <<>>
           f == One(k)
<1>1. f = Append(e, k) /\ Len(f) = 1  BY FieldLength DEF One
<1> HIDE DEF e, f
<1>2. Cases(x, e, k, f)  BY ONLY <1>1, ParseCases
<1>3. ParseByte(At(x, e), k) = At(x, f)  BY ONLY <1>1, <1>2 DEF Cases
<1> QED  BY ONLY <1>3 DEF e, f

LEMMA ParseTerm ==
    ASSUME NEW x \in Block, NEW v \in Byte
    PROVE  ParseByte(At(x, One(TermKey)), v) = At([x EXCEPT !.term = v], <<>>)
<1> DEFINE f == Two(TermKey, v)
<1>1. f = Append(One(TermKey), v) /\ Head(f) = TermKey /\ Len(f) = 2
  BY KeyBytes, FieldLength DEF Two
<1> HIDE DEF f
<1>2. Cases(x, One(TermKey), v, f)  BY ONLY <1>1, ParseCases
<1> QED  BY ONLY <1>1, <1>2 DEF Cases, f

LEMMA ParseIndex ==
    ASSUME NEW x \in Block, NEW v \in Byte
    PROVE  ParseByte(At(x, One(IndexKey)), v) = At([x EXCEPT !.index = v], <<>>)
<1> DEFINE f == Two(IndexKey, v)
<1>1. f = Append(One(IndexKey), v) /\ Head(f) = IndexKey /\ Len(f) = 2
  BY KeyBytes, FieldLength DEF Two
<1> HIDE DEF f
<1>2. Cases(x, One(IndexKey), v, f)  BY ONLY <1>1, ParseCases
<1> QED  BY ONLY <1>1, <1>2 DEF Cases, f

LEMMA ParseLow ==
    ASSUME NEW x \in Block, NEW v \in Byte
    PROVE  ParseByte(At(x, One(AmountKey)), v) = At(x, Two(AmountKey, v))
<1> DEFINE f == Two(AmountKey, v)
<1>1. f = Append(One(AmountKey), v) /\ Head(f) = AmountKey /\ Len(f) = 2
  BY KeyBytes, FieldLength DEF Two
<1> HIDE DEF f
<1>2. Cases(x, One(AmountKey), v, f)  BY ONLY <1>1, ParseCases
<1> QED  BY ONLY <1>1, <1>2 DEF Cases, f

LEMMA ParseHigh ==
    ASSUME NEW x \in Block, NEW v \in Byte, NEW w \in Byte
    PROVE  ParseByte(At(x, Two(AmountKey, v)), w)
             = At([x EXCEPT !.amount = v + 256 * w], <<>>)
<1> DEFINE f == Three(AmountKey, v, w)
<1>1. /\ f = Append(Two(AmountKey, v), w) /\ Head(f) = AmountKey /\ Len(f) = 3
      /\ f[2] = v
  <2>1. AmountKey \in Byte  BY KeyBytes
  <2>2. Head(f) = AmountKey /\ Len(f) = 3 /\ f[2] = v  BY <2>1, FieldLength
  <2> QED  BY ONLY <2>2 DEF Three
<1> HIDE DEF f
<1>2. Cases(x, Two(AmountKey, v), w, f)  BY ONLY <1>1, ParseCases
<1>3. ParseByte(At(x, Two(AmountKey, v)), w)
        = At([x EXCEPT !.amount = f[2] + 256 * w], <<>>)
  BY ONLY <1>1, <1>2 DEF Cases
<1> QED  BY ONLY <1>1, <1>3

\* A block's line has its fields.
LEMMA ParseLine ==
    ASSUME NEW b \in Block
    PROVE  Parse(Fields(b)) = b
<1> DEFINE On(s) == Loop(ParseStep, [block |-> NoBlock, field |-> <<>>], s)
           e == <<>>
           t == b.term
           l == b.amount % 256
           h == b.amount \div 256
           i == b.index
<1>1. /\ t \in Byte /\ i \in Byte /\ l \in Byte /\ h \in Byte
      /\ b.amount \in Half /\ l + 256 * h = b.amount
  <2>1. t \in Byte /\ i \in Byte /\ b.amount \in Half  BY DEF Block
  <2>2. l \in Byte /\ h \in Byte /\ l + 256 * h = b.amount
    BY ONLY <2>1, HalfSplit, Zenon
  <2> QED  BY ONLY <2>1, <2>2
<1>2. b = [term |-> t, amount |-> b.amount, index |-> i]  BY DEF Block
<1>3. Fields(b) = <<TermKey, t, AmountKey, l, h, IndexKey, i>>  BY DEF Fields
<1> HIDE DEF t, l, h, i
<1>4. TermKey \in Byte /\ AmountKey \in Byte /\ IndexKey \in Byte
  BY KeyBytes
<1> DEFINE s1 == Append(e, TermKey)
           s2 == Append(s1, t)
           s3 == Append(s2, AmountKey)
           s4 == Append(s3, l)
           s5 == Append(s4, h)
           s6 == Append(s5, IndexKey)
           s7 == Append(s6, i)
<1> HIDE DEF s1, s2, s3, s4, s5, s6, s7
<1>5. /\ e \in Text /\ s1 \in Text /\ s2 \in Text /\ s3 \in Text /\ s4 \in Text
      /\ s5 \in Text /\ s6 \in Text
      /\ s7 = <<TermKey, t, AmountKey, l, h, IndexKey, i>>
  <2>1. e \in Seq(Byte) /\ Len(e) = 0  OBVIOUS
  <2> HIDE DEF e
  <2>2. s1 \in Seq(Byte) /\ Len(s1) = 1 /\ s1[1] = TermKey
    <3>1. Grows(e, TermKey, s1)  BY ONLY <1>4, <2>1, Grown DEF s1
    <3> QED  BY ONLY <2>1, <3>1 DEF Grows
  <2>3. s2 \in Seq(Byte) /\ Len(s2) = 2 /\ s2[1] = TermKey /\ s2[2] = t
    <3>1. Grows(s1, t, s2)  BY ONLY <1>1, <2>2, Grown DEF s2
    <3> QED  BY ONLY <2>2, <3>1 DEF Grows
  <2>4. /\ s3 \in Seq(Byte) /\ Len(s3) = 3 /\ s3[1] = TermKey /\ s3[2] = t
        /\ s3[3] = AmountKey
    <3>1. Grows(s2, AmountKey, s3)  BY ONLY <1>4, <2>3, Grown DEF s3
    <3> QED  BY ONLY <2>3, <3>1 DEF Grows
  <2>5. /\ s4 \in Seq(Byte) /\ Len(s4) = 4 /\ s4[1] = TermKey /\ s4[2] = t
        /\ s4[3] = AmountKey /\ s4[4] = l
    <3>1. Grows(s3, l, s4)  BY ONLY <1>1, <2>4, Grown DEF s4
    <3> QED  BY ONLY <2>4, <3>1 DEF Grows
  <2>6. /\ s5 \in Seq(Byte) /\ Len(s5) = 5 /\ s5[1] = TermKey /\ s5[2] = t
        /\ s5[3] = AmountKey /\ s5[4] = l /\ s5[5] = h
    <3>1. Grows(s4, h, s5)  BY ONLY <1>1, <2>5, Grown DEF s5
    <3> QED  BY ONLY <2>5, <3>1 DEF Grows
  <2>7. /\ s6 \in Seq(Byte) /\ Len(s6) = 6 /\ s6[1] = TermKey /\ s6[2] = t
        /\ s6[3] = AmountKey /\ s6[4] = l /\ s6[5] = h /\ s6[6] = IndexKey
    <3>1. Grows(s5, IndexKey, s6)  BY ONLY <1>4, <2>6, Grown DEF s6
    <3> QED  BY ONLY <2>6, <3>1 DEF Grows
  <2>8. /\ s7 \in Seq(Byte) /\ Len(s7) = 7 /\ s7[1] = TermKey /\ s7[2] = t
        /\ s7[3] = AmountKey /\ s7[4] = l /\ s7[5] = h /\ s7[6] = IndexKey
        /\ s7[7] = i
    <3>1. Grows(s6, i, s7)  BY ONLY <1>1, <2>7, Grown DEF s7
    <3> QED  BY ONLY <2>7, <3>1 DEF Grows
  <2> QED  BY ONLY <2>1, <2>2, <2>3, <2>4, <2>5, <2>6, <2>7, <2>8 DEF Text
<1> DEFINE x1 == NoBlock
           x2 == [x1 EXCEPT !.term = t]
           x3 == [x2 EXCEPT !.amount = l + 256 * h]
           x4 == [x3 EXCEPT !.index = i]
<1>6. x1 \in Block /\ x2 \in Block /\ x3 \in Block /\ x4 = b
  <2>1. x1 \in Block
    <3>1. 0 \in Byte /\ 0 \in Half  BY SMT DEF Byte, Half
    <3> QED  BY ONLY <3>1 DEF NoBlock, Block
  <2>2. x2 \in Block  BY ONLY <1>1, <2>1 DEF Block
  <2>3. x3 \in Block  BY ONLY <1>1, <2>2 DEF Block
  <2>4. x4 = [term |-> t, amount |-> b.amount, index |-> i]
    <3>1. x2 = [term |-> t, amount |-> 0, index |-> 0]  BY DEF NoBlock
    <3> HIDE DEF x2
    <3>2. x3 = [term |-> t, amount |-> b.amount, index |-> 0]  BY ONLY <1>1, <3>1
    <3> HIDE DEF x3
    <3> QED  BY ONLY <3>2
  <2> QED  BY ONLY <1>2, <2>1, <2>2, <2>3, <2>4
<1> HIDE DEF x1, x2, x3, x4
<1>7. /\ On(e) = At(x1, e)
      /\ \A s \in Text, x \in Byte : On(Append(s, x)) = ParseByte(On(s), x)
      /\ Parse(s7) = On(s7).block
  <2>1. s7 \in Text
    <3>1. s6 \in Seq(Byte)  BY ONLY <1>5 DEF Text
    <3> QED  BY ONLY <1>1, <3>1 DEF Text, s7
  <2> QED  BY ONLY <2>1, ParseFacts DEF x1, At
<1> HIDE DEF On
<1>8. On(s1) = At(x1, One(TermKey))
  <2>1. On(s1) = ParseByte(On(e), TermKey)  BY ONLY <1>4, <1>5, <1>7 DEF s1
  <2> QED  BY ONLY <1>4, <1>6, <1>7, <2>1, ParseKey
<1>9. On(s2) = At(x2, e)
  <2>1. On(s2) = ParseByte(On(s1), t)  BY ONLY <1>1, <1>5, <1>7 DEF s2
  <2> QED  BY ONLY <1>1, <1>6, <1>8, <2>1, ParseTerm DEF x2
<1>10. On(s3) = At(x2, One(AmountKey))
  <2>1. On(s3) = ParseByte(On(s2), AmountKey)  BY ONLY <1>4, <1>5, <1>7 DEF s3
  <2> QED  BY ONLY <1>4, <1>6, <1>9, <2>1, ParseKey
<1>11. On(s4) = At(x2, Two(AmountKey, l))
  <2>1. On(s4) = ParseByte(On(s3), l)  BY ONLY <1>1, <1>5, <1>7 DEF s4
  <2> QED  BY ONLY <1>1, <1>6, <1>10, <2>1, ParseLow
<1>12. On(s5) = At(x3, e)
  <2>1. On(s5) = ParseByte(On(s4), h)  BY ONLY <1>1, <1>5, <1>7 DEF s5
  <2> QED  BY ONLY <1>1, <1>6, <1>11, <2>1, ParseHigh DEF x3
<1>13. On(s6) = At(x3, One(IndexKey))
  <2>1. On(s6) = ParseByte(On(s5), IndexKey)  BY ONLY <1>4, <1>5, <1>7 DEF s6
  <2> QED  BY ONLY <1>4, <1>6, <1>12, <2>1, ParseKey
<1>14. On(s7) = At(x4, e)
  <2>1. On(s7) = ParseByte(On(s6), i)  BY ONLY <1>1, <1>5, <1>7 DEF s7
  <2> QED  BY ONLY <1>1, <1>6, <1>13, <2>1, ParseIndex DEF x4
<1>15. At(x4, e).block = x4  BY DEF At
<1> QED  BY ONLY <1>3, <1>5, <1>6, <1>7, <1>14, <1>15

\* Blocks as they are read, line by line.
BlocksOf(bytes) ==
    LET lines == LinesOf(bytes) IN [k \in DOMAIN lines |-> Parse(lines[k])]

LEMMA LinesOfType == \A s \in Text : LinesOf(s) \in Seq(Text)
<1> DEFINE start == << <<>> >>
<1>1. ASSUME NEW s \in Text PROVE LinesOf(s) \in Seq(Text)
  <2>1. start \in Seq(Text) /\ start # <<>>  BY DEF Text
  <2>2. LinesOf(s) = Front(ReadOn(start, s))  BY DEF LinesOf, ReadOn, ReadStep
  <2>3. <<>> \in Seq(Text)  OBVIOUS
  <2> HIDE DEF start
  <2>4. ReadOn(start, s) \in Seq(Text) /\ ReadOn(start, s) # <<>>
    BY ONLY <2>1, <2>3, s \in Text, ReadBehind
  <2> DEFINE r == ReadOn(start, s)
  <2> HIDE DEF r
  <2>5. Front(r) \in Seq(Text)
    <3>1. r \in Seq(Text) /\ r # <<>>  BY ONLY <2>4 DEF r
    <3> HIDE DEF Text
    <3> QED  BY ONLY <3>1 DEF Front
  <2> QED  BY ONLY <2>2, <2>5 DEF r
<1> QED  BY ONLY <1>1

LEMMA BlocksOfType == \A s \in Text : BlocksOf(s) \in Seq(Block)
<1>1. ASSUME NEW s \in Text PROVE BlocksOf(s) \in Seq(Block)
  <2> DEFINE lines == LinesOf(s)
  <2>1. lines \in Seq(Text)  BY LinesOfType
  <2>2. BlocksOf(s) = [k \in DOMAIN lines |-> Parse(lines[k])]  BY DEF BlocksOf
  <2> HIDE DEF lines
  <2>3. DOMAIN lines = 1 .. Len(lines) /\ Len(lines) \in Nat  BY ONLY <2>1
  <2>4. \A k \in 1 .. Len(lines) : Parse(lines[k]) \in Block
    BY ONLY <2>1, ParseType, ElementOfSeq
  <2>5. [k \in 1 .. Len(lines) |-> Parse(lines[k])] \in Seq(Block)
    BY ONLY <2>3, <2>4
  <2> QED  BY ONLY <2>2, <2>3, <2>5
<1> QED  BY ONLY <1>1

\* Clean blocks are read as they were written.
LEMMA BlocksRead ==
    ASSUME NEW bs \in Seq(Clean)
    PROVE  Lines(bs) \in Text /\ BlocksOf(Lines(bs)) = bs
<1> DEFINE n == Len(bs)
           lines == [k \in 1 .. n |-> Fields(bs[k])]
<1>1. Lines(bs) \in Text /\ LinesOf(Lines(bs)) = lines  BY LinesRead
<1>2. n \in Nat /\ bs = [k \in 1 .. n |-> bs[k]] /\ \A k \in 1 .. n : bs[k] \in Clean
  OBVIOUS
<1>3. DOMAIN lines = 1 .. n /\ \A k \in 1 .. n : lines[k] = Fields(bs[k])
  OBVIOUS
<1> HIDE DEF lines, n
<1>4. BlocksOf(Lines(bs)) = [k \in 1 .. n |-> Parse(lines[k])]
  BY ONLY <1>1, <1>3 DEF BlocksOf
<1>5. ASSUME NEW k \in 1 .. n PROVE Parse(lines[k]) = bs[k]
  <2>1. bs[k] \in Block  BY ONLY <1>2, <1>5 DEF Clean
  <2>2. Parse(Fields(bs[k])) = bs[k]  BY ONLY <2>1, ParseLine
  <2> QED  BY ONLY <1>3, <1>5, <2>2
<1> QED  BY ONLY <1>1, <1>2, <1>4, <1>5

-----------------------------------------------------------------------------
(* Numbers by digits.                                                      *)

LEMMA PowerFacts ==
    /\ Power(0) = 1
    /\ \A n \in Nat : /\ Power(n) \in Nat \ {0}
                      /\ Power(n + 1) = 10 * Power(n)
<1> DEFINE step == [p \in Nat \X Nat |-> 10 * p[1]]
           C(n) == [k \in 1 .. n |-> k]
<1>1. step \in Steps(Nat, Nat)  BY DEF Steps
<1>2. \A n \in Nat, k \in Nat : step[<<n, k>>] = 10 * n  OBVIOUS
<1>3. \A n : Power(n) = Loop(step, 1, C(n))  BY DEF Power
<1>4. \A n \in Nat : C(n) \in Seq(Nat)  OBVIOUS
<1>5. C(0) = <<>>  OBVIOUS
<1>6. \A n \in Nat : C(n + 1) = Append(C(n), n + 1)  OBVIOUS
<1> HIDE DEF step, C
<1>7. Power(0) = 1
  BY ONLY <1>1, <1>3, <1>5, LoopFacts
<1>8. \A n \in Nat : Power(n) \in Nat
  <2>1. \A s \in Seq(Nat) : Loop(step, 1, s) \in Nat
    BY ONLY <1>1, 1 \in Nat, LoopFacts
  <2> QED  BY ONLY <1>3, <1>4, <2>1
<1>9. ASSUME NEW n \in Nat PROVE Power(n + 1) = 10 * Power(n)
  <2> DEFINE c == C(n)
             m == n + 1
  <2>1. c \in Seq(Nat) /\ m \in Nat /\ C(m) = Append(c, m)
    <3>1. m \in Nat  BY ONLY <1>9
    <3> QED  BY ONLY <1>4, <1>6, <1>9, <3>1
  <2> HIDE DEF c, m
  <2> DEFINE one == 1
             N == Nat
  <2>5. one \in N /\ step \in Steps(N, N) /\ c \in Seq(N) /\ m \in N
    BY ONLY <1>1, <2>1
  <2> HIDE DEF one, N
  <2>6. Loop(step, one, Append(c, m)) = step[<<Loop(step, one, c), m>>]
    BY ONLY <2>5, LoopFacts
  <2>2. Loop(step, 1, Append(c, m)) = step[<<Loop(step, 1, c), m>>]
    BY ONLY <2>6 DEF one
  <2>3. Loop(step, 1, c) = Power(n)  BY ONLY <1>3 DEF c
  <2>4. Power(n + 1) = step[<<Power(n), m>>]
    <3>1. Power(m) = Loop(step, 1, C(m))  BY ONLY <1>3
    <3> QED  BY ONLY <2>1, <2>2, <2>3, <3>1 DEF m
  <2> QED  BY ONLY <1>2, <1>8, <1>9, <2>1, <2>4
<1> DEFINE N == {n \in Nat : Power(n) # 0}
<1>10. 0 \in N  BY ONLY <1>7
<1>11. ASSUME NEW n \in Nat, n \in N PROVE n + 1 \in N
  BY ONLY <1>8, <1>9, <1>11
<1> HIDE DEF N
<1>12. Nat \subseteq N  BY ONLY <1>10, <1>11, SetInduction
<1> QED  BY ONLY <1>7, <1>8, <1>9, <1>12 DEF N

\* A number and its last digit.
LEMMA LastDigit ==
    ASSUME NEW x \in Nat
    PROVE  \E r \in 0 .. 9, t \in Nat :
              x % 10 = r /\ x \div 10 = t /\ x = 10 * t + r
<1>1. x % 10 \in 0 .. 9  BY SMT
<1>2. x \div 10 \in Nat  BY SMT
<1>3. x = 10 * (x \div 10) + (x % 10)  BY SMT
<1> QED  BY ONLY <1>1, <1>2, <1>3, Zenon

\* std::stoi, digit by digit.
LEMMA ValueFacts ==
    /\ Value(<<>>) = 0
    /\ \A s \in Text, d \in Byte :
         Value(Append(s, d)) = 10 * Value(s) + d - Digit(0)
<1> DEFINE step == [p \in Int \X Byte |-> 10 * p[1] + p[2] - Digit(0)]
<1>1. Byte \subseteq Int /\ Digit(0) \in Int  BY DEF Byte, Digit
<1>2. step \in Steps(Int, Byte)
  <2>1. \A n \in Int, d \in Byte : 10 * n + d - Digit(0) \in Int  BY ONLY <1>1
  <2> QED  BY ONLY <2>1 DEF Steps
<1>3. \A n \in Int, d \in Byte : step[<<n, d>>] = 10 * n + d - Digit(0)
  OBVIOUS
<1>4. \A s : Value(s) = Loop(step, 0, s)  BY DEF Value
<1> HIDE DEF step
<1>5. /\ Loop(step, 0, <<>>) = 0
      /\ \A s \in Seq(Byte) : Loop(step, 0, s) \in Int
      /\ \A s \in Seq(Byte), d \in Byte :
            Loop(step, 0, Append(s, d)) = step[<<Loop(step, 0, s), d>>]
  <2> DEFINE S == Int
             start == 0
  <2>1. start \in S /\ step \in Steps(S, Byte)  BY ONLY <1>2
  <2> HIDE DEF S, start
  <2>2. /\ Loop(step, start, <<>>) = start
        /\ \A s \in Seq(Byte) : Loop(step, start, s) \in S
        /\ \A s \in Seq(Byte), d \in Byte :
              Loop(step, start, Append(s, d)) = step[<<Loop(step, start, s), d>>]
    BY ONLY <2>1, LoopFacts
  <2> QED  BY ONLY <2>2 DEF S, start
<1> QED  BY ONLY <1>3, <1>4, <1>5 DEF Text

\* The indices that the digits hold.
Index == {i \in Int : i >= -1 /\ Fits(i)}

Magnitude(index) == IF index < 0 THEN -index ELSE index

DigitsOf(index) == [k \in 1 .. Digits |-> DigitAt(index, k)]

LEMMA MagnitudeFacts ==
    /\ -1 \in Index
    /\ \A i \in Index : Magnitude(i) \in Nat /\ Magnitude(i) < Power(Digits)
<1>1. Digits \in Nat /\ Digits - 1 \in Nat /\ Digits - 1 + 1 = Digits
  BY ByteAssumption
<1> DEFINE m == Digits - 1
<1>2. Power(m) \in Nat \ {0} /\ Power(m + 1) = 10 * Power(m)
  BY ONLY <1>1, PowerFacts
<1>3. Power(Digits) \in Nat /\ Power(Digits) >= 10
  <2>1. Power(Digits) = 10 * Power(m)  BY ONLY <1>1, <1>2
  <2> QED  BY ONLY <1>2, <2>1
<1> QED  BY ONLY <1>3 DEF Index, Fits, Magnitude

\* The digits of an index, the first n of them too, are its value.
LEMMA DigitsValue ==
    ASSUME NEW i \in Index
    PROVE  DigitsOf(i) \in Word /\ Len(DigitsOf(i)) = Digits
           /\ Value(DigitsOf(i)) = Magnitude(i)
<1> DEFINE v == Magnitude(i)
           F(n) == [k \in 1 .. n |-> DigitAt(i, k)]
           N == {n \in Nat : n <= Digits
                             => Value(F(n)) = v \div Power(Digits - n)}
<1>1. v \in Nat /\ v < Power(Digits)  BY MagnitudeFacts
<1>2. Digits \in Nat  BY ByteAssumption
<1>3. \A n \in Nat : Power(n) \in Nat \ {0}  BY PowerFacts
<1>4. \A k \in 1 .. Digits : DigitAt(i, k) = 48 + ((v \div Power(Digits - k)) % 10)
  <2>1. \A k : DigitAt(i, k) = Digit((v \div Power(Digits - k)) % 10)
    BY Zenon DEF DigitAt, Magnitude
  <2> HIDE DEF v
  <2> QED  BY ONLY <2>1, Zenon DEF Digit
<1> HIDE DEF v
<1>5. ASSUME NEW k \in 1 .. Digits
      PROVE  DigitAt(i, k) \in 48 .. 57
  <2>1. Digits - k \in Nat  BY ONLY <1>2, <1>5
  <2> DEFINE q == Power(Digits - k)
             x == v \div q
  <2>2. q \in Nat \ {0}  BY ONLY <1>3, <2>1
  <2> HIDE DEF q
  <2>3. x \in Nat  BY ONLY <1>1, <2>2
  <2>4. DigitAt(i, k) = 48 + (x % 10)  BY ONLY <1>4, <1>5 DEF q
  <2> HIDE DEF x
  <2>5. PICK r \in 0 .. 9 : x % 10 = r  BY ONLY <2>3, LastDigit
  <2>6. DigitAt(i, k) = 48 + r  BY ONLY <2>4, <2>5, Zenon
  <2> QED  BY ONLY <2>6
<1>6. \A k \in 1 .. Digits : DigitAt(i, k) \in Byte /\ DigitAt(i, k) # Newline
  BY ONLY <1>5 DEF Byte, Newline
<1>7. \A n \in Nat : n <= Digits => F(n) \in Seq(Byte)
  <2> SUFFICES ASSUME NEW n \in Nat, n <= Digits PROVE F(n) \in Seq(Byte)
    OBVIOUS
  <2>1. \A k \in 1 .. n : DigitAt(i, k) \in Byte  BY ONLY <1>2, <1>6, n \in Nat, n <= Digits
  <2> QED  BY ONLY <2>1, n \in Nat
<1>8. 0 \in N
  <2>1. F(0) = <<>>  OBVIOUS
  <2>2. Value(F(0)) = 0  BY ONLY <2>1, ValueFacts
  <2>3. Digits - 0 = Digits /\ Power(Digits) \in Nat \ {0}  BY ONLY <1>2, <1>3
  <2>4. v \div Power(Digits) = 0  BY ONLY <1>1, <2>3
  <2> HIDE DEF F
  <2> QED  BY ONLY <2>2, <2>3, <2>4
<1>9. ASSUME NEW n \in Nat, n \in N PROVE n + 1 \in N
  <2> SUFFICES ASSUME n + 1 <= Digits
               PROVE  Value(F(n + 1)) = v \div Power(Digits - (n + 1))
    OBVIOUS
  <2> DEFINE m == Digits - (n + 1)
             q == Power(m)
             x == v \div q
             d == DigitAt(i, n + 1)
  <2>1. m \in Nat /\ m + 1 = Digits - n /\ n + 1 \in 1 .. Digits /\ n <= Digits
    BY ONLY <1>2, n \in Nat, n + 1 <= Digits
  <2>2. F(n + 1) = Append(F(n), d)  BY ONLY n \in Nat
  <2>3. Value(F(n)) = v \div Power(Digits - n)  BY ONLY <1>9, <2>1
  <2>4. q \in Nat \ {0} /\ Power(Digits - n) = 10 * q
    BY ONLY <2>1, PowerFacts
  <2>5. d = 48 + (x % 10) /\ d \in Byte  BY ONLY <1>4, <1>6, <2>1
  <2>6. F(n) \in Text  BY ONLY <1>7, <2>1, n \in Nat DEF Text
  <2> HIDE DEF m, q, d, F
  <2>7. v \div (10 * q) = (v \div q) \div 10  BY ONLY <1>1, <2>4
  <2>8. x \in Nat  BY ONLY <1>1, <2>4
  <2>9. Value(Append(F(n), d)) = 10 * Value(F(n)) + d - Digit(0)
    BY ONLY <2>5, <2>6, ValueFacts
  <2> DEFINE y == Value(F(n))
  <2>10. y = x \div 10  BY ONLY <2>3, <2>4, <2>7
  <2> HIDE DEF x, y
  <2>11. PICK r \in 0 .. 9, t \in Nat :
              x % 10 = r /\ x \div 10 = t /\ x = 10 * t + r
    BY ONLY <2>8, LastDigit
  <2>12. d = 48 + r /\ y = t  BY ONLY <2>5, <2>10, <2>11, Zenon
  <2>13. 10 * y + d - 48 = x  BY ONLY <2>11, <2>12
  <2>14. Value(F(n + 1)) = x
    <3>1. Digit(0) = 48  BY DEF Digit
    <3> QED  BY ONLY <2>2, <2>9, <2>13, <3>1 DEF y
  <2> QED  BY ONLY <2>14, Zenon DEF x, q, m
<1> HIDE DEF N
<1>10. Digits \in N  BY ONLY <1>2, <1>8, <1>9, SetInduction
<1>11. Value(F(Digits)) = v
  <2>1. Value(F(Digits)) = v \div Power(Digits - Digits)  BY ONLY <1>2, <1>10 DEF N
  <2>2. Digits - Digits = 0 /\ Power(0) = 1  BY ONLY <1>2, PowerFacts
  <2> HIDE DEF F
  <2> QED  BY ONLY <1>1, <2>1, <2>2
<1>12. F(Digits) \in Word /\ Len(F(Digits)) = Digits
  <2>1. \A k \in 1 .. Digits : DigitAt(i, k) \in Byte \ {Newline}  BY ONLY <1>6
  <2> QED  BY ONLY <1>2, <2>1 DEF Word
<1> QED  BY ONLY <1>11, <1>12 DEF DigitsOf, v

\* The first line without its end.
Sign(index) == IF index < 0 THEN Minus ELSE Plus
HeaderWord(index) == <<Sign(index)>> \o DigitsOf(index)

LEMMA HeaderFacts ==
    ASSUME NEW i \in Index
    PROVE  /\ HeaderWord(i) \in Word /\ Stoi(HeaderWord(i)) = i
           /\ Header(i) = Append(HeaderWord(i), Newline)
           /\ Header(i) \in Text /\ Len(Header(i)) = Digits + 2
<1> DEFINE d == DigitsOf(i)
           g == Sign(i)
           w == <<g>> \o d
           B == Byte \ {Newline}
<1>1. d \in Seq(B) /\ Len(d) = Digits /\ Value(d) = Magnitude(i)
  BY DigitsValue DEF Word
<1>2. g \in B  BY DEF Sign, Minus, Plus, Newline, Byte
<1>3. Newline \in Byte  BY DEF Newline, Byte
<1>4. HeaderWord(i) = w  BY DEF HeaderWord
<1>5. Header(i) = <<g>> \o d \o <<Newline>>  BY DEF Header, Sign, DigitsOf
<1>6. Digits \in Nat  BY ByteAssumption
<1> HIDE DEF d
<1>7. i < 0 => g = Minus /\ Magnitude(i) = -i  BY DEF Sign, Magnitude
<1>8. ~(i < 0) => g # Minus /\ Magnitude(i) = i
  BY DEF Sign, Magnitude, Minus, Plus
<1> HIDE DEF g, B
<1>9. w \in Seq(B) /\ Len(w) = Digits + 1 /\ Head(w) = g /\ Tail(w) = d
  <2>1. w \in Seq(B) /\ Len(w) = Digits + 1 /\ w[1] = g
    BY ONLY <1>1, <1>2, <1>6
  <2>2. Tail(w) = d  BY ONLY <1>1, <1>2
  <2>3. Head(w) = w[1]  BY ONLY <2>1
  <2> QED  BY ONLY <2>1, <2>2, <2>3
<1> HIDE DEF w
<1>10. Stoi(w) = i
  <2>1. i \in Int  BY DEF Index
  <2>2. CASE i < 0
    <3>1. Stoi(w) = -Value(d)  BY ONLY <1>7, <1>9, <2>2 DEF Stoi
    <3>2. Value(d) = -i  BY ONLY <1>1, <1>7, <2>2
    <3> QED  BY ONLY <2>1, <3>1, <3>2
  <2>3. CASE ~(i < 0)  BY ONLY <1>1, <1>8, <1>9, <2>3 DEF Stoi
  <2> QED  BY ONLY <2>2, <2>3
<1>11. w \in Seq(Byte)
  <2>1. B \subseteq Byte  BY DEF B
  <2> QED  BY ONLY <1>9, <2>1
<1>12. w \o <<Newline>> = Append(w, Newline) /\ Append(w, Newline) \in Seq(Byte)
       /\ Len(Append(w, Newline)) = Digits + 2
  BY ONLY <1>3, <1>6, <1>9, <1>11
<1> QED  BY ONLY <1>4, <1>5, <1>9, <1>10, <1>12 DEF Text, Word, B, w

\* Reading what stands behind a first line.
LEMMA FileRead ==
    ASSUME NEW i \in Index, NEW body \in Text
    PROVE  /\ ReadIndex(Header(i) \o body) = i
           /\ ReadBlocks(Header(i) \o body) = BlocksOf(body)
<1> DEFINE w == HeaderWord(i)
           rest == LinesOf(body)
           lines == LinesOf(Header(i) \o body)
<1>1. w \in Word /\ Stoi(w) = i /\ Header(i) = Append(w, Newline)  BY HeaderFacts
<1>2. rest \in Seq(Text) /\ lines = <<w>> \o rest
  BY ONLY <1>1, body \in Text, FirstLine
<1>3. w \in Text  BY ONLY <1>1, ReadWord
<1> HIDE DEF w, rest
<1>4. lines[1] = w /\ Tail(lines) = rest
  <2> HIDE DEF lines
  <2> HIDE DEF Text
  <2>1. (<<w>> \o rest)[1] = w  BY ONLY <1>2, <1>3
  <2>2. Tail(<<w>> \o rest) = rest  BY ONLY <1>2, <1>3
  <2> QED  BY ONLY <1>2, <2>1, <2>2
<1>5. ReadIndex(Header(i) \o body) = Stoi(lines[1])  BY DEF ReadIndex
<1>6. ReadBlocks(Header(i) \o body)
        = [k \in DOMAIN Tail(lines) |-> Parse(Tail(lines)[k])]
  BY DEF ReadBlocks
<1> HIDE DEF lines
<1>7. BlocksOf(body) = [k \in DOMAIN rest |-> Parse(rest[k])]
  BY DEF BlocksOf, rest
<1> QED  BY ONLY <1>1, <1>4, <1>5, <1>6, <1>7

\* Writing over the first line.
LEMMA Overwrite ==
    ASSUME NEW i \in Index, NEW j \in Index, NEW body \in Text,
           file = Header(i) \o body
    PROVE  WrittenOver(j) = Header(j) \o body
<1> DEFINE h == Header(i)
           n == Digits + 2
<1>1. h \in Seq(Byte) /\ Len(h) = n /\ Len(Header(j)) = n
  BY HeaderFacts DEF Text
<1>2. body \in Seq(Byte)  BY DEF Text
<1>3. file = h \o body  OBVIOUS
<1>4. n \in Nat  BY ByteAssumption
<1> HIDE DEF h, n
<1>5. SubSeq(h \o body, n + 1, Len(h \o body)) = body
  <2> DEFINE f == h \o body
             m == Len(body)
             t == SubSeq(f, n + 1, Len(f))
  <2>1. m \in Nat /\ f \in Seq(Byte) /\ Len(f) = n + m
        /\ \A k \in 1 .. n + m : f[k] = IF k <= n THEN h[k] ELSE body[k - n]
    <3>1. /\ f \in Seq(Byte) /\ Len(f) = Len(h) + Len(body)
          /\ \A k \in 1 .. Len(h) + Len(body) :
                f[k] = IF k <= Len(h) THEN h[k] ELSE body[k - Len(h)]
      BY ONLY <1>1, <1>2, ConcatProperties
    <3>2. Len(body) \in Nat  BY ONLY <1>2
    <3> QED  BY ONLY <1>1, <3>1, <3>2
  <2> HIDE DEF f
  <2>2. t \in Seq(Byte) /\ Len(t) = m /\ \A k \in 1 .. m : t[k] = f[n + k]
    <3>1. t = SubSeq(f, n + 1, n + m)  BY ONLY <2>1
    <3>2. n + 1 \in Int /\ n + m \in Int /\ n + m - (n + 1) + 1 = m
          /\ (n + 1 <= n + m <=> m # 0)
      BY ONLY <1>4, <2>1
    <3>3. \A k \in n + 1 .. n + m : f[k] \in Byte
      <4>1. \A k \in n + 1 .. n + m : k \in 1 .. Len(f)  BY ONLY <1>4, <2>1
      <4> QED  BY ONLY <2>1, <4>1, ElementOfSeq
    <3> DEFINE u == n + 1
               v == n + m
    <3> HIDE DEF u, v
    <3>4. /\ SubSeq(f, u, v) \in Seq(Byte)
          /\ Len(SubSeq(f, u, v)) = IF u <= v THEN v - u + 1 ELSE 0
          /\ \A k \in 1 .. v - u + 1 : SubSeq(f, u, v)[k] = f[u + k - 1]
      <4>1. u \in Int /\ v \in Int /\ \A k \in u .. v : f[k] \in Byte
        BY ONLY <3>2, <3>3 DEF u, v
      <4> QED  BY ONLY <4>1, SubSeqProperties
    <3>5. v - u + 1 = m /\ (u <= v <=> m # 0) /\ \A k \in 1 .. m : u + k - 1 = n + k
      BY ONLY <1>4, <2>1 DEF u, v
    <3>9. t = SubSeq(f, u, v)  BY ONLY <3>1 DEF u, v
    <3>6. \A k \in 1 .. m : t[k] = f[n + k]
      BY ONLY <3>4, <3>5, <3>9
    <3>7. t \in Seq(Byte)  BY ONLY <3>4, <3>9
    <3>8. Len(t) = m
      <4>1. CASE m = 0  BY ONLY <3>4, <3>5, <3>9, <4>1
      <4>2. CASE m # 0  BY ONLY <3>4, <3>5, <3>9, <4>2
      <4> QED  BY ONLY <4>1, <4>2
    <3> QED  BY ONLY <3>6, <3>7, <3>8
  <2> HIDE DEF t
  <2>3. ASSUME NEW k \in 1 .. m PROVE t[k] = body[k]
    <3>1. n + k \in 1 .. n + m /\ ~(n + k <= n) /\ n + k - n = k
      BY ONLY <1>4, <2>1, <2>3
    <3> DEFINE l == n + k
    <3>4. l \in 1 .. n + m /\ ~(l <= n) /\ l - n = k
      BY ONLY <1>4, <2>1, <2>3
    <3> HIDE DEF l
    <3>5. f[l] = body[l - n]  BY ONLY <2>1, <3>4
    <3>2. f[n + k] = body[k]  BY ONLY <3>4, <3>5 DEF l
    <3> QED  BY ONLY <2>2, <2>3, <3>2
  <2>4. Len(body) = m  OBVIOUS
  <2> HIDE DEF m
  <2>5. t = body  BY ONLY <1>2, <2>2, <2>3, <2>4, SeqEqual
  <2> QED  BY ONLY <2>5 DEF t, f
<1> QED  BY ONLY <1>1, <1>3, <1>5 DEF WrittenOver

-----------------------------------------------------------------------------
(* The invariant: behind the first line of the file, the bytes of the       *)
(* blocks that are in memory, if each of them is a line.                    *)

Body(body) ==
    /\ file = Header(committedIndex) \o body
    /\ clean => body = Lines(blocks)

Positions == \A k \in 1 .. Len(blocks) : blocks[k].index = k - 1

FileInv ==
    /\ blocks \in Seq(Block)
    /\ committedIndex \in Index
    /\ clean \in BOOLEAN
    /\ clean => blocks \in Seq(Clean) /\ Positions
    /\ \E body \in Text : Body(body)

LEMMA FileInit == Init => FileInv
<1> SUFFICES ASSUME Init PROVE FileInv
  OBVIOUS
<1> DEFINE none == <<>>
<1>1. none \in Text /\ none \in Seq(Block) /\ none \in Seq(Clean) /\ Len(none) = 0
  BY DEF Text
<1>2. -1 \in Index  BY MagnitudeFacts
<1>3. Lines(none) = none  BY LinesFacts
<1>4. Header(-1) \in Seq(Byte)  BY <1>2, HeaderFacts DEF Text
<1>5. Header(-1) \o none = Header(-1)  BY ONLY <1>4
<1>6. blocks = none /\ committedIndex = -1 /\ file = Header(-1) /\ clean = TRUE
  BY DEF Init
<1> HIDE DEF none
<1>7. Body(none)  BY ONLY <1>3, <1>5, <1>6 DEF Body
<1>8. Positions  BY ONLY <1>1, <1>6 DEF Positions
<1> QED  BY ONLY <1>1, <1>2, <1>6, <1>7, <1>8 DEF FileInv

LEMMA FileAdd ==
    ASSUME FileInv, NEW t \in Terms, NEW a \in Amounts, AddTransaction(t, a)
    PROVE  FileInv'
<1> DEFINE n == Len(blocks)
<1>1. PICK body \in Text : Body(body)  BY DEF FileInv
<1>2. blocks \in Seq(Block) /\ n \in Nat /\ n < MaxLength
      /\ committedIndex \in Index /\ clean \in BOOLEAN
  BY DEF FileInv, AddTransaction
<1>3. PICK b \in Block : b = [term |-> t, amount |-> a, index |-> n]
  <2>1. t \in Byte  BY ByteAssumption DEF Byte
  <2>2. a \in Half  BY ByteAssumption
  <2>3. n \in Byte
    <3>1. MaxLength \in 0 .. 127  BY ByteAssumption
    <3> DEFINE m == n
    <3>2. m \in Nat /\ m < MaxLength  BY ONLY <1>2
    <3> HIDE DEF m
    <3>3. m \in 0 .. 255  BY ONLY <3>1, <3>2
    <3> QED  BY ONLY <3>3 DEF m, Byte
  <2> HIDE DEF n
  <2>4. [term |-> t, amount |-> a, index |-> n] \in Block
    BY ONLY <2>1, <2>2, <2>3 DEF Block
  <2> QED  BY ONLY <2>4
<1>4. /\ blocks' = Append(blocks, b) /\ file' = file \o Line(b)
      /\ clean' = (clean /\ OneLine(b)) /\ committedIndex' = committedIndex
  BY <1>3 DEF AddTransaction
<1>5. b.index = n  BY ONLY <1>3
<1>6. blocks' \in Seq(Block)  BY ONLY <1>2, <1>3, <1>4
<1>7. clean' \in BOOLEAN  BY ONLY <1>4
<1>8. clean' => clean /\ OneLine(b)  BY ONLY <1>4
<1>9. ASSUME clean' PROVE blocks' \in Seq(Clean) /\ Positions'
  <2>1. blocks \in Seq(Clean) /\ Positions  BY <1>8, <1>9 DEF FileInv
  <2>2. b \in Clean  BY ONLY <1>3, <1>8, <1>9 DEF Clean
  <2>3. blocks' \in Seq(Clean)  BY ONLY <1>4, <2>1, <2>2
  <2>4. ASSUME NEW k \in 1 .. Len(blocks') PROVE blocks'[k].index = k - 1
    <3>1. Len(blocks') = n + 1 /\ blocks'[n + 1] = b
          /\ \A l \in 1 .. n : blocks'[l] = blocks[l]
      BY ONLY <1>2, <1>3, <1>4
    <3>2. CASE k = n + 1  BY ONLY <1>2, <1>5, <3>1, <3>2
    <3>3. CASE k # n + 1
      <4>1. k \in 1 .. n  BY ONLY <1>2, <2>4, <3>1, <3>3
      <4> QED  BY ONLY <2>1, <3>1, <4>1 DEF Positions
    <3> QED  BY ONLY <3>2, <3>3
  <2> QED  BY ONLY <2>3, <2>4 DEF Positions
<1>10. PICK more \in Text : more = body \o Line(b)
  <2>1. body \in Seq(Byte) /\ Line(b) \in Seq(Byte)
    BY <1>1, <1>3, LineFacts DEF Text
  <2> DEFINE l == Line(b)
  <2> HIDE DEF l
  <2>2. body \o l \in Seq(Byte)  BY ONLY <2>1 DEF l
  <2> QED  BY ONLY <2>2 DEF l, Text
<1>11. Body(more)'
  <2> DEFINE h == Header(committedIndex)
             l == Line(b)
  <2>1. body \in Seq(Byte) /\ l \in Seq(Byte) /\ h \in Seq(Byte)
    BY <1>1, <1>2, <1>3, LineFacts, HeaderFacts DEF Text
  <2>2. file = h \o body /\ file' = file \o l /\ Header(committedIndex') = h
        /\ more = body \o l
    BY ONLY <1>1, <1>4, <1>10 DEF Body
  <2> HIDE DEF h, l
  <2>3. (h \o body) \o l = h \o (body \o l)  BY ONLY <2>1
  <2>4. file' = Header(committedIndex') \o more  BY ONLY <2>2, <2>3
  <2>5. clean' => more = Lines(blocks')
    <3>1. Lines(blocks') = Lines(blocks) \o Line(b)
      BY ONLY <1>2, <1>3, <1>4, LinesFacts
    <3>2. clean => body = Lines(blocks)  BY ONLY <1>1 DEF Body
    <3> QED  BY ONLY <1>8, <1>10, <3>1, <3>2
  <2> QED  BY ONLY <2>4, <2>5 DEF Body
<1> QED  BY ONLY <1>2, <1>4, <1>6, <1>7, <1>9, <1>10, <1>11 DEF FileInv

LEMMA FileCleanUp ==
    ASSUME FileInv, NEW i \in 0 .. Len(blocks), CleanUpBlocks(i)
    PROVE  FileInv'
<1>0. PICK n \in 1 .. MaxEntries :
        \E fields \in [1 .. n -> Terms \X Amounts] :
          /\ i + n <= MaxLength
          /\ blocks' = SubSeq(blocks, 1, i)
                       \o [k \in 1 .. n |-> [term |-> fields[k][1],
                                             amount |-> fields[k][2],
                                             index |-> i + k - 1]]
          /\ file' = Header(committedIndex) \o Lines(blocks')
          /\ clean' = (clean /\ \A k \in DOMAIN blocks' : OneLine(blocks'[k]))
          /\ UNCHANGED committedIndex
  BY DEF CleanUpBlocks
<1>1. PICK fields \in [1 .. n -> Terms \X Amounts] :
        /\ i + n <= MaxLength
        /\ blocks' = SubSeq(blocks, 1, i)
                     \o [k \in 1 .. n |-> [term |-> fields[k][1],
                                           amount |-> fields[k][2],
                                           index |-> i + k - 1]]
        /\ file' = Header(committedIndex) \o Lines(blocks')
        /\ clean' = (clean /\ \A k \in DOMAIN blocks' : OneLine(blocks'[k]))
        /\ UNCHANGED committedIndex
  BY <1>0
<1> DEFINE old == SubSeq(blocks, 1, i)
           b(k) == [term |-> fields[k][1], amount |-> fields[k][2],
                    index |-> i + k - 1]
           new == [k \in 1 .. n |-> b(k)]
<1>2. blocks \in Seq(Block) /\ committedIndex \in Index /\ clean \in BOOLEAN
  BY DEF FileInv
<1>3. i \in Nat /\ i <= Len(blocks) /\ n \in Nat /\ MaxLength \in 0 .. 127
  BY <1>2, ByteAssumption
<1>4. ASSUME NEW k \in 1 .. n PROVE b(k) \in Block /\ b(k).index = i + k - 1
  <2> DEFINE t == fields[k][1]
             a == fields[k][2]
             x == i + k - 1
  <2>1. fields[k] \in Terms \X Amounts  BY <1>1, <1>4
  <2>2. t \in Terms /\ a \in Amounts  BY ONLY <2>1
  <2>3. t \in Byte /\ a \in Half
    <3> HIDE DEF t, a
    <3> QED  BY ONLY <2>2, ByteAssumption DEF Byte
  <2>4. x \in Byte  BY ONLY <1>1, <1>3, <1>4 DEF Byte
  <2> HIDE DEF t, a, x
  <2>5. [term |-> t, amount |-> a, index |-> x] \in Block
    BY ONLY <2>3, <2>4 DEF Block
  <2> QED  BY ONLY <2>5 DEF t, a, x
<1>5. old \in Seq(Block) /\ Len(old) = i /\ \A k \in 1 .. i : old[k] = blocks[k]
  BY ONLY <1>2, <1>3
<1>6. new \in Seq(Block) /\ Len(new) = n
      /\ \A k \in 1 .. n : new[k].index = i + k - 1
  <2> HIDE DEF b
  <2>1. new \in [1 .. n -> Block]  BY ONLY <1>4
  <2>2. new \in Seq(Block) /\ Len(new) = n  BY ONLY <1>3, <2>1
  <2>3. \A k \in 1 .. n : new[k] = b(k)  BY ONLY <1>3
  <2> HIDE DEF new
  <2> QED  BY ONLY <1>4, <2>2, <2>3
<1>7. /\ blocks' = old \o new
      /\ file' = Header(committedIndex) \o Lines(blocks')
      /\ clean' = (clean /\ \A k \in DOMAIN blocks' : OneLine(blocks'[k]))
      /\ committedIndex' = committedIndex
  BY <1>1
<1> HIDE DEF old, b, new
<1>8. blocks' \in Seq(Block) /\ Len(blocks') = i + n
      /\ \A k \in 1 .. i + n : blocks'[k] = IF k <= i THEN old[k] ELSE new[k - i]
  BY ONLY <1>3, <1>5, <1>6, <1>7, ConcatProperties
<1>9. clean' \in BOOLEAN  BY ONLY <1>7
<1>10. ASSUME clean' PROVE blocks' \in Seq(Clean) /\ Positions'
  <2>1. clean /\ Positions  BY <1>7, <1>10 DEF FileInv
  <2>2. DOMAIN blocks' = 1 .. Len(blocks')  BY ONLY <1>8
  <2>3. ASSUME NEW k \in 1 .. Len(blocks') PROVE blocks'[k] \in Clean
    <3>1. blocks'[k] \in Block  BY ONLY <1>8, <2>3, ElementOfSeq
    <3>2. OneLine(blocks'[k])  BY ONLY <1>7, <1>10, <2>2, <2>3
    <3> QED  BY ONLY <3>1, <3>2 DEF Clean
  <2>4. blocks' \in Seq(Clean)  BY ONLY <1>8, <2>3, SeqTyped
  <2>5. ASSUME NEW k \in 1 .. Len(blocks') PROVE blocks'[k].index = k - 1
    <3>1. CASE k <= i
      <4>1. k \in 1 .. i /\ k \in 1 .. Len(blocks) /\ k \in 1 .. i + n
        BY ONLY <1>3, <1>8, <2>5, <3>1, <1>2
      <4>2. blocks'[k] = blocks[k]  BY ONLY <1>5, <1>8, <3>1, <4>1
      <4> QED  BY ONLY <2>1, <4>1, <4>2 DEF Positions
    <3>2. CASE ~(k <= i)
      <4>1. k - i \in 1 .. n /\ k \in 1 .. i + n /\ i + (k - i) - 1 = k - 1
        BY ONLY <1>3, <1>8, <2>5, <3>2
      <4>2. blocks'[k] = new[k - i]  BY ONLY <1>8, <3>2, <4>1
      <4> QED  BY ONLY <1>6, <4>1, <4>2
    <3> QED  BY ONLY <3>1, <3>2
  <2> QED  BY ONLY <2>4, <2>5 DEF Positions
<1>11. Lines(blocks') \in Text  BY ONLY <1>8, LinesFacts
<1>12. \E body \in Text : Body(body)'
  <2>1. PICK body \in Text : body = Lines(blocks')  BY ONLY <1>11
  <2>2. Body(body)'  BY ONLY <1>7, <2>1 DEF Body
  <2> QED  BY ONLY <2>2, body \in Text
<1> QED  BY ONLY <1>2, <1>7, <1>8, <1>9, <1>10, <1>11, <1>12 DEF FileInv

LEMMA FileSet ==
    ASSUME FileInv, NEW i \in committedIndex + 1 .. Len(blocks) - 1,
           SetCommittedIndex(i)
    PROVE  FileInv'
<1>1. PICK body \in Text : Body(body)  BY DEF FileInv
<1>2. blocks \in Seq(Block) /\ committedIndex \in Index  BY DEF FileInv
<1>3. i \in Index
  <2>1. committedIndex \in Int /\ committedIndex >= -1  BY <1>2 DEF Index
  <2>2. i \in Int /\ i >= -1  BY <2>1
  <2>3. Fits(i)  BY DEF SetCommittedIndex
  <2> QED  BY ONLY <2>2, <2>3 DEF Index
<1>4. file = Header(committedIndex) \o body  BY ONLY <1>1 DEF Body
<1>5. WrittenOver(i) = Header(i) \o body
  BY ONLY <1>1, <1>2, <1>3, <1>4, Overwrite
<1>6. file' = Header(committedIndex') \o body /\ committedIndex' = i
      /\ blocks' = blocks /\ clean' = clean
  BY <1>5 DEF SetCommittedIndex
<1>7. Body(body)'  BY ONLY <1>1, <1>6 DEF Body
<1>8. Positions' <=> Positions  BY ONLY <1>6 DEF Positions
<1> QED  BY ONLY FileInv, <1>1, <1>3, <1>6, <1>7, <1>8 DEF FileInv

LEMMA FileReboot ==
    ASSUME FileInv, Reboot
    PROVE  FileInv'
<1>1. PICK body \in Text : Body(body)  BY DEF FileInv
<1>2. committedIndex \in Index /\ clean \in BOOLEAN  BY DEF FileInv
<1>3. file = Header(committedIndex) \o body  BY ONLY <1>1 DEF Body
<1>4. ReadIndex(file) = committedIndex /\ ReadBlocks(file) = BlocksOf(body)
  BY ONLY <1>1, <1>2, <1>3, FileRead
<1>5. /\ committedIndex' = committedIndex /\ blocks' = BlocksOf(body)
      /\ file' = file /\ clean' = clean
  BY <1>4 DEF Reboot
<1>6. blocks' \in Seq(Block)  BY ONLY <1>1, <1>5, BlocksOfType
<1>7. clean => blocks' = blocks
  <2> SUFFICES ASSUME clean PROVE BlocksOf(body) = blocks
    BY <1>5
  <2>1. body = Lines(blocks)  BY ONLY <1>1, clean DEF Body
  <2>2. blocks \in Seq(Clean)  BY DEF FileInv
  <2> QED  BY ONLY <2>1, <2>2, BlocksRead
<1>8. Body(body)'  BY ONLY <1>1, <1>5, <1>7 DEF Body
<1>9. clean' => blocks' \in Seq(Clean) /\ Positions'
  <2> SUFFICES ASSUME clean PROVE blocks' \in Seq(Clean) /\ Positions'
    BY <1>5
  <2>1. blocks \in Seq(Clean) /\ Positions  BY DEF FileInv
  <2>2. Positions' <=> Positions  BY ONLY <1>7, clean DEF Positions
  <2> QED  BY ONLY <1>7, clean, <2>1, <2>2
<1> QED  BY ONLY <1>1, <1>2, <1>5, <1>6, <1>8, <1>9 DEF FileInv

LEMMA FileNext == FileInv /\ [Next]_vars => FileInv'
<1> SUFFICES ASSUME FileInv, [Next]_vars PROVE FileInv'
  OBVIOUS
<1>1. CASE Next
  <2>1. ASSUME NEW t \in Terms, NEW a \in Amounts, AddTransaction(t, a)
        PROVE  FileInv'
    BY ONLY FileInv, <2>1, FileAdd
  <2>2. ASSUME NEW i \in 0 .. Len(blocks), CleanUpBlocks(i) PROVE FileInv'
    BY ONLY FileInv, <2>2, FileCleanUp
  <2>3. ASSUME NEW i \in committedIndex + 1 .. Len(blocks) - 1, SetCommittedIndex(i)
        PROVE  FileInv'
    BY ONLY FileInv, <2>3, FileSet
  <2>4. ASSUME Reboot PROVE FileInv'
    BY ONLY FileInv, <2>4, FileReboot
  <2> QED  BY ONLY <1>1, <2>1, <2>2, <2>3, <2>4 DEF Next
<1>2. CASE UNCHANGED vars
  BY <1>2 DEF FileInv, Body, Positions, vars
<1> QED  BY <1>1, <1>2

\* Every state of the file is of that shape: a first line of fixed length, and
\* behind it bytes that are those of the blocks as long as no block has the
\* byte of a line end in it.
THEOREM FileInvariant == Spec => []FileInv
BY FileInit, FileNext, PTL DEF Spec

LEMMA FileReadsBack == FileInv => ReadsBack
<1> SUFFICES ASSUME FileInv PROVE ReadsBack
  OBVIOUS
<1>1. PICK body \in Text : Body(body)  BY DEF FileInv
<1>2. committedIndex \in Index  BY DEF FileInv
<1>3. file = Header(committedIndex) \o body  BY ONLY <1>1 DEF Body
<1>4. ReadIndex(file) = committedIndex /\ ReadBlocks(file) = BlocksOf(body)
  BY ONLY <1>1, <1>2, <1>3, FileRead
<1>5. ASSUME clean PROVE BlocksOf(body) = blocks
  <2>1. body = Lines(blocks)  BY ONLY <1>1, <1>5 DEF Body
  <2>2. blocks \in Seq(Clean)  BY <1>5 DEF FileInv
  <2> QED  BY ONLY <2>1, <2>2, BlocksRead
<1> QED  BY ONLY <1>4, <1>5 DEF ReadsBack

\* Whatever was appended, replaced and written over in place: the file reads
\* back as the committed index and, as long as no block has the byte of a line
\* end in it, the blocks that are in memory (parse_file_to_bc).
THEOREM FileReadsBackAlways == Spec => []ReadsBack
BY FileInvariant, FileReadsBack, PTL

\* Each block's index is its place in the chain, also after blocks that a
\* leader numbered and after a reboot.
THEOREM IndicesArePositions == Spec => []IndexIsPosition
<1>1. FileInv => IndexIsPosition
  <2> SUFFICES ASSUME FileInv, clean PROVE \A k \in DOMAIN blocks : blocks[k].index = k - 1
    BY DEF IndexIsPosition
  <2>1. blocks \in Seq(Block) /\ Positions  BY DEF FileInv
  <2>2. DOMAIN blocks = 1 .. Len(blocks)  BY ONLY <2>1
  <2> QED  BY ONLY <2>1, <2>2 DEF Positions
<1> QED  BY <1>1, FileInvariant, PTL

\* Any index that the digits hold may be written over the first line: it reads
\* back, and no block behind it changes, torn lines included
\* (set_committed_index writes in place).
THEOREM OverwritesAreSafe == Spec => []OverwriteIsSafe
<1>1. FileInv => OverwriteIsSafe
  <2> SUFFICES ASSUME FileInv, NEW j \in {i \in Indices : Fits(i)} \cup {-1}
               PROVE  /\ ReadIndex(WrittenOver(j)) = j
                      /\ ReadBlocks(WrittenOver(j)) = ReadBlocks(file)
    BY DEF OverwriteIsSafe
  <2>1. PICK body \in Text : Body(body)  BY DEF FileInv
  <2>2. committedIndex \in Index  BY DEF FileInv
  <2>3. file = Header(committedIndex) \o body  BY ONLY <2>1 DEF Body
  <2>4. j \in Index
    <3>1. CASE j = -1  BY ONLY <3>1, MagnitudeFacts
    <3>2. CASE j \in Indices /\ Fits(j)
      <4>1. j \in Nat  BY <3>2, ByteAssumption
      <4> QED  BY ONLY <3>2, <4>1 DEF Index
    <3> QED  BY <3>1, <3>2
  <2>5. WrittenOver(j) = Header(j) \o body
    BY ONLY <2>1, <2>2, <2>3, <2>4, Overwrite
  <2>6. ReadIndex(Header(j) \o body) = j /\ ReadBlocks(Header(j) \o body) = BlocksOf(body)
    BY ONLY <2>1, <2>4, FileRead
  <2>7. ReadBlocks(file) = BlocksOf(body)  BY ONLY <2>1, <2>2, <2>3, FileRead
  <2> QED  BY ONLY <2>5, <2>6, <2>7
<1> QED  BY <1>1, FileInvariant, PTL
=============================================================================
