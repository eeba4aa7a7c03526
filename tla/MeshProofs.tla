----------------------------- MODULE MeshProofs -----------------------------
(***************************************************************************)
(* The sockets of the mesh, for any number of servers, descriptors,        *)
(* connections and messages.  SocketsApart rests on the receiving thread:  *)
(* it runs exactly while its server counts as connected (ConnectedReads),  *)
(* it alone closes its descriptor, which is open and its own server's      *)
(* (RecvOwns) and not the one just accepted (AcceptedApart).               *)
(*                                                                         *)
(* OneStrayPerLoss is a matter of counting: each stray message was in the  *)
(* hands of the sending thread of a server whose connection the mesh had   *)
(* ended, and each ended connection leaves at most one (StraysCounted).    *)
(*                                                                         *)
(* That the mesh is a lossy first-in-first-out channel rests on where a    *)
(* message can be (FifoInv): only on its sender's connections and for its  *)
(* receiver (MessagesPlaced), while a server's connections are accepted in *)
(* the order in which they were made and one is read to its end before the *)
(* next one is installed (ConnsOrdered).  What i sent to j so stands in    *)
(* five places one after the other (BetweenNow), and a step moves messages *)
(* from one place to the next, or loses some: what FlattenSeq makes of the *)
(* places is worked out by induction, for sets of numbers and of sequences *)
(* (SetInduction, SeqInduction).                                           *)
(***************************************************************************)
EXTENDS Mesh, FiniteSetTheorems, SequenceTheorems, WellFoundedInduction, TLAPS

-----------------------------------------------------------------------------
(* Sequences: induction, and what FlattenSeq computes.                     *)

\* Induction, for a set of numbers.
LEMMA SetInduction ==
    ASSUME NEW S, 0 \in S, \A n \in Nat : n \in S => n + 1 \in S
    PROVE  Nat \subseteq S
<1> DEFINE T == Nat \ S
           R == {p \in Nat \X Nat : p[1] < p[2]}
<1> SUFFICES ASSUME T # {} PROVE FALSE
  OBVIOUS
<1>1. PICK x \in T : \A y \in T : ~(<<y, x>> \in R)
  <2>1. IsWellFoundedOn(R, Nat)  BY NatLessThanWellFounded DEF OpToRel
  <2> HIDE DEF R
  <2> QED  BY <2>1, WFMin
<1>2. x \in Nat /\ x # 0 /\ x - 1 \in Nat /\ x - 1 + 1 = x  OBVIOUS
<1>3. x - 1 \in T  BY <1>2
<1>4. <<x - 1, x>> \in R  BY <1>2
<1> QED  BY <1>1, <1>3, <1>4

\* f holds the results of FlattenSeq for the first n sequences of s.
Running(f, s, n) ==
    /\ DOMAIN f = 1 .. n
    /\ \A i \in 1 .. n : i = 1 => f[i] = s[i]
    /\ \A i \in 1 .. n : i # 1 => f[i] = f[i - 1] \o s[i]

\* T holds what concatenation makes of its elements.
Joined(T) == \A a, b \in T : a \o b \in T

Agree(s, t, n) == \A i \in 1 .. n : s[i] = t[i]

\* Two runs over sequences that agree so far have the same results so far.
LEMMA RunningSame ==
    ASSUME NEW f, NEW s, NEW m \in Nat \ {0}, Running(f, s, m),
           NEW g, NEW t, NEW n \in Nat, Running(g, t, n),
           m <= n, Agree(s, t, m)
    PROVE  f[m] = g[m]
<1> DEFINE I == {k \in Nat : k + 1 <= m => f[k + 1] = g[k + 1]}
<1>1. 0 \in I
  <2>1. 1 \in 1 .. m /\ 1 \in 1 .. n /\ 0 + 1 = 1  OBVIOUS
  <2>2. f[1] = s[1] /\ g[1] = t[1]
    BY ONLY <2>1, Running(f, s, m), Running(g, t, n) DEF Running
  <2> QED  BY <2>1, <2>2 DEF Agree
<1>2. ASSUME NEW k \in Nat, k \in I PROVE k + 1 \in I
  <2> SUFFICES ASSUME k + 2 <= m PROVE f[k + 2] = g[k + 2]
    OBVIOUS
  <2>1. f[k + 1] = g[k + 1]  BY <1>2
  <2> DEFINE j == k + 2
  <2>2. j \in 1 .. m /\ j \in 1 .. n /\ j # 1 /\ j - 1 = k + 1
    OBVIOUS
  <2> HIDE DEF j
  <2>3. f[j] = f[j - 1] \o s[j] /\ g[j] = g[j - 1] \o t[j]
    BY ONLY <2>2, Running(f, s, m), Running(g, t, n) DEF Running
  <2>4. s[j] = t[j]  BY <2>2 DEF Agree
  <2>5. f[j] = g[j]  BY ONLY <2>1, <2>2, <2>3, <2>4
  <2> QED  BY <2>5 DEF j
<1>3. m - 1 \in Nat /\ m - 1 + 1 = m  OBVIOUS
<1> HIDE DEF I
<1>4. Nat \subseteq I  BY ONLY <1>1, <1>2, SetInduction
<1>5. m - 1 \in I  BY <1>3, <1>4
<1> QED  BY <1>3, <1>5 DEF I

\* There is such an f for every sequence, and its results are in T.
LEMMA RunningExists ==
    ASSUME NEW T, Joined(T),
           NEW m \in Nat, NEW s \in [1 .. m -> T], NEW n \in 0 .. m
    PROVE  \E f \in [1 .. n -> T] : Running(f, s, n)
<1> DEFINE I == {k \in Nat : k <= n => \E f \in [1 .. k -> T] : Running(f, s, k)}
<1>1. 0 \in I
  <2> DEFINE e == [i \in 1 .. 0 |-> s[i]]
  <2>1. e \in [1 .. 0 -> T] /\ Running(e, s, 0)  BY DEF Running
  <2> HIDE DEF e
  <2> QED  BY <2>1
<1>2. ASSUME NEW k \in Nat, k \in I PROVE k + 1 \in I
  <2> SUFFICES ASSUME k + 1 <= n
               PROVE  \E f \in [1 .. k + 1 -> T] : Running(f, s, k + 1)
    OBVIOUS
  <2>1. PICK f \in [1 .. k -> T] : Running(f, s, k)  BY <1>2
  <2>2. \E x \in T : x = IF k = 0 THEN s[1] ELSE f[k] \o s[k + 1]
    <3>1. s[k + 1] \in T  OBVIOUS
    <3>2. CASE k = 0  BY <3>1, <3>2
    <3>3. CASE k # 0
      <4>1. f[k] \in T  BY <3>3
      <4>2. f[k] \o s[k + 1] \in T  BY <3>1, <4>1 DEF Joined
      <4> QED  BY <3>3, <4>2
    <3> QED  BY <3>2, <3>3
  <2>3. PICK x \in T : x = IF k = 0 THEN s[1] ELSE f[k] \o s[k + 1]
    BY <2>2
  <2> DEFINE g == [i \in 1 .. k + 1 |-> IF i = k + 1 THEN x ELSE f[i]]
  <2>4. /\ g \in [1 .. k + 1 -> T] /\ DOMAIN g = 1 .. k + 1 /\ g[k + 1] = x
        /\ \A i \in 1 .. k : g[i] = f[i]
    OBVIOUS
  <2> HIDE DEF g
  <2>5. ASSUME NEW i \in 1 .. k + 1, i = 1 PROVE g[i] = s[i]
    <3>1. CASE k = 0  BY <2>3, <2>4, <2>5, <3>1
    <3>2. CASE k # 0
      <4>1. 1 \in 1 .. k  BY <3>2
      <4> QED  BY <2>1, <2>4, <2>5, <4>1 DEF Running
    <3> QED  BY <3>1, <3>2
  <2>6. ASSUME NEW i \in 1 .. k + 1, i # 1 PROVE g[i] = g[i - 1] \o s[i]
    <3>1. i - 1 \in 1 .. k /\ g[i - 1] = f[i - 1]  BY <2>4, <2>6
    <3>2. CASE i = k + 1
      <4>1. k # 0 /\ i - 1 = k  BY <2>6, <3>2
      <4> QED  BY ONLY <2>3, <2>4, <3>1, <3>2, <4>1
    <3>3. CASE i # k + 1
      <4>1. i \in 1 .. k  BY <3>3
      <4>2. f[i] = f[i - 1] \o s[i]  BY ONLY <2>1, <2>6, <4>1 DEF Running
      <4> QED  BY ONLY <2>4, <3>1, <4>1, <4>2
    <3> QED  BY <3>2, <3>3
  <2>7. Running(g, s, k + 1)  BY ONLY <2>4, <2>5, <2>6 DEF Running
  <2> QED  BY <2>4, <2>7
<1> HIDE DEF I
<1>3. Nat \subseteq I  BY ONLY <1>1, <1>2, SetInduction
<1>4. n \in I  BY <1>3
<1> QED  BY <1>4 DEF I

\* FlattenSeq, which is defined by recursion, has the last of these results.
LEMMA FlatIsRunning ==
    ASSUME NEW T, Joined(T),
           NEW n \in Nat \ {0}, NEW s \in [1 .. n -> T], Len(s) = n
    PROVE  \E f \in [1 .. n -> T] : Running(f, s, n) /\ FlattenSeq(s) = f[n]
<1> DEFINE C(g) == g = [i \in 1 .. n |-> IF i = 1 THEN s[i] ELSE g[i - 1] \o s[i]]
<1>1. PICK f \in [1 .. n -> T] : Running(f, s, n)
  <2>1. n \in Nat /\ n \in 0 .. n  OBVIOUS
  <2> QED  BY <2>1, RunningExists
<1>2. C(f)  BY <1>1 DEF Running
<1> DEFINE c == CHOOSE g : C(g)
<1>3. FlattenSeq(s) = c[n]  BY DEF FlattenSeq
<1> HIDE DEF C
<1>4. C(c)  BY <1>2
<1> HIDE DEF c
<1>5. Running(c, s, n)
  <2>1. c = [i \in 1 .. n |-> IF i = 1 THEN s[i] ELSE c[i - 1] \o s[i]]
    BY <1>4 DEF C
  <2>2. DOMAIN c = 1 .. n  BY <2>1
  <2>3. ASSUME NEW i \in 1 .. n
        PROVE  c[i] = IF i = 1 THEN s[i] ELSE c[i - 1] \o s[i]
    BY ONLY <2>1, <2>3
  <2> QED  BY ONLY <2>2, <2>3 DEF Running
<1>6. c[n] = f[n]
  <2>1. n \in Nat \ {0} /\ n \in Nat /\ n <= n /\ Agree(s, s, n)
    BY DEF Agree
  <2> QED  BY ONLY <1>1, <1>5, <2>1, RunningSame
<1> QED  BY <1>1, <1>3, <1>6

\* FlattenSeq of nothing, of sequences, and of one sequence more.
LEMMA FlatEmpty == FlattenSeq(<<>>) = <<>>
BY DEF FlattenSeq

\* How tlapm's provers see a sequence of sequences best.
LEMMA Nested ==
    ASSUME NEW S, NEW s \in Seq(Seq(S))
    PROVE  /\ Len(s) \in Nat /\ s \in [1 .. Len(s) -> Seq(S)]
           /\ Joined(Seq(S))
           /\ s = <<>> <=> Len(s) = 0
<1>1. Joined(Seq(S))  BY DEF Joined
<1> DEFINE T == Seq(S)
<1>2. s \in Seq(T)  OBVIOUS
<1> HIDE DEF T
<1>3. /\ Len(s) \in Nat /\ s \in [1 .. Len(s) -> T]
      /\ s = <<>> <=> Len(s) = 0
  BY ONLY <1>2
<1> QED  BY <1>1, <1>3 DEF T

LEMMA FlatType ==
    ASSUME NEW S, NEW s \in Seq(Seq(S))
    PROVE  FlattenSeq(s) \in Seq(S)
<1> DEFINE T == Seq(S)
<1>1. <<>> \in T  OBVIOUS
<1>2. /\ Len(s) \in Nat /\ s \in [1 .. Len(s) -> T]
      /\ Joined(T)
      /\ s = <<>> <=> Len(s) = 0
  BY Nested
<1> HIDE DEF T
<1>3. ASSUME s = <<>> PROVE FlattenSeq(s) \in T
  BY ONLY <1>1, <1>3, FlatEmpty
<1>4. ASSUME s # <<>> PROVE FlattenSeq(s) \in T
  <2>1. Len(s) \in Nat \ {0} /\ Len(s) \in 1 .. Len(s)  BY ONLY <1>2, <1>4
  <2>2. PICK f \in [1 .. Len(s) -> T] : FlattenSeq(s) = f[Len(s)]
    BY ONLY <1>2, <2>1, FlatIsRunning
  <2> QED  BY ONLY <2>1, <2>2
<1>5. FlattenSeq(s) \in T  BY ONLY <1>3, <1>4
<1> QED  BY <1>5 DEF T

LEMMA FlatLonger ==
    ASSUME NEW T, Joined(T),
           NEW n \in Nat \ {0}, NEW s \in [1 .. n -> T], Len(s) = n,
           NEW t \in [1 .. n + 1 -> T], Len(t) = n + 1, Agree(s, t, n)
    PROVE  FlattenSeq(t) = FlattenSeq(s) \o t[n + 1]
<1> DEFINE l == n + 1
<1>1. l \in Nat \ {0} /\ l \in 1 .. l /\ l # 1 /\ l - 1 = n /\ n <= l /\ l \in Nat
      /\ t \in [1 .. l -> T] /\ Len(t) = l
  OBVIOUS
<1> HIDE DEF l
<1>2. PICK f \in [1 .. n -> T] : Running(f, s, n) /\ FlattenSeq(s) = f[n]
  BY FlatIsRunning
<1>3. PICK g \in [1 .. l -> T] : Running(g, t, l) /\ FlattenSeq(t) = g[l]
  BY <1>1, FlatIsRunning
<1>4. f[n] = g[n]
  BY <1>1, <1>2, <1>3, RunningSame
<1>5. g[l] = g[n] \o t[l]
  <2>1. \A i \in 1 .. l : i # 1 => g[i] = g[i - 1] \o t[i]
    BY ONLY <1>3 DEF Running
  <2> QED  BY ONLY <1>1, <2>1
<1> QED  BY ONLY <1>2, <1>3, <1>4, <1>5 DEF l

LEMMA FlatAppend ==
    ASSUME NEW S, NEW s \in Seq(Seq(S)), NEW x \in Seq(S)
    PROVE  FlattenSeq(Append(s, x)) = FlattenSeq(s) \o x
<1> DEFINE T == Seq(S)
           t == Append(s, x)
           n == Len(s)
           l == n + 1
<1>1. s \in Seq(T) /\ x \in T /\ <<>> \in T  OBVIOUS
<1>2. /\ n \in Nat /\ s \in [1 .. n -> T]
      /\ Joined(T)
      /\ s = <<>> <=> n = 0
  BY Nested
<1>3. <<>> \o x = x  OBVIOUS
<1> HIDE DEF T
<1>4. /\ t \in Seq(T) /\ Len(t) = l /\ t[l] = x
      /\ \A i \in 1 .. n : t[i] = s[i]
  BY ONLY <1>1
<1> HIDE DEF t
<1>5. t \in [1 .. l -> T] /\ l \in Nat \ {0}
  <2>1. t \in [1 .. Len(t) -> T]  BY ONLY <1>4
  <2> QED  BY ONLY <1>2, <1>4, <2>1
<1>6. CASE s = <<>>
  <2>1. l = 1 /\ 1 \in 1 .. l /\ l = 1  BY ONLY <1>2, <1>6
  <2> HIDE DEF n, l
  <2>2. PICK g \in [1 .. l -> T] : Running(g, t, l) /\ FlattenSeq(t) = g[l]
    BY ONLY <1>2, <1>4, <1>5, FlatIsRunning
  <2>3. g[1] = t[1]  BY ONLY <2>1, <2>2 DEF Running
  <2>4. FlattenSeq(t) = x  BY ONLY <1>4, <2>1, <2>2, <2>3
  <2> QED  BY ONLY <1>3, <1>6, <2>4, FlatEmpty DEF t
<1>7. CASE s # <<>>
  <2>1. /\ Joined(T) /\ n \in Nat \ {0} /\ s \in [1 .. n -> T] /\ Len(s) = n
        /\ t \in [1 .. n + 1 -> T] /\ Len(t) = n + 1
    BY ONLY <1>2, <1>4, <1>5, <1>7
  <2>2. t[n + 1] = x  BY ONLY <1>4
  <2> HIDE DEF n
  <2>3. Agree(s, t, n)  BY ONLY <1>4 DEF Agree
  <2>4. FlattenSeq(t) = FlattenSeq(s) \o t[n + 1]
    BY ONLY <2>1, <2>3, FlatLonger
  <2> QED  BY ONLY <2>2, <2>4 DEF t
<1> QED  BY <1>6, <1>7

\* Induction over sequences, for a set of them.
LEMMA SeqInduction ==
    ASSUME NEW S, NEW I, <<>> \in I,
           \A s \in Seq(S), x \in S : s \in I => Append(s, x) \in I
    PROVE  Seq(S) \subseteq I
<1> DEFINE N == {n \in Nat : \A s \in Seq(S) : Len(s) = n => s \in I}
<1>1. 0 \in N
  <2>1. \A s \in Seq(S) : Len(s) = 0 => s = <<>>  OBVIOUS
  <2> QED  BY <2>1
<1>2. ASSUME NEW n \in Nat, n \in N PROVE n + 1 \in N
  <2> SUFFICES ASSUME NEW s \in Seq(S), Len(s) = n + 1 PROVE s \in I
    OBVIOUS
  <2> DEFINE p == SubSeq(s, 1, n)
             x == s[n + 1]
  <2>1. p \in Seq(S) /\ Len(p) = n /\ x \in S /\ s = Append(p, x)  OBVIOUS
  <2> HIDE DEF p, x
  <2>2. p \in I  BY ONLY <1>2, <2>1
  <2> QED  BY <2>1, <2>2
<1> HIDE DEF N
<1>3. Nat \subseteq N  BY ONLY <1>1, <1>2, SetInduction
<1>4. ASSUME NEW s \in Seq(S) PROVE s \in I
  <2>1. Len(s) \in Nat  OBVIOUS
  <2> QED  BY <1>3, <2>1 DEF N
<1> QED  BY <1>4

\* ConcatAssociative, where the provers find it.
Regrouped(a, b, c) == (a \o b) \o c = a \o (b \o c)

LEMMA Regroup ==
    ASSUME NEW S, NEW a \in Seq(S), NEW b \in Seq(S), NEW c \in Seq(S)
    PROVE  Regrouped(a, b, c)
BY ConcatAssociative DEF Regrouped

\* What FlattenSeq makes of two sequences one after the other.
LEMMA FlatConcat ==
    ASSUME NEW S, NEW s \in Seq(Seq(S)), NEW t \in Seq(Seq(S))
    PROVE  FlattenSeq(s \o t) = FlattenSeq(s) \o FlattenSeq(t)
<1> DEFINE T == Seq(S)
           I == {u \in Seq(T) : FlattenSeq(s \o u) = FlattenSeq(s) \o FlattenSeq(u)}
<1>1. s \in Seq(T) /\ t \in Seq(T)  OBVIOUS
<1>2. FlattenSeq(s) \in Seq(S)  BY FlatType
<1>3. <<>> \in I
  <2>1. FlattenSeq(s) \o <<>> = FlattenSeq(s)  BY ONLY <1>2
  <2> HIDE DEF T
  <2>2. s \o <<>> = s /\ <<>> \in Seq(T)  BY ONLY <1>1
  <2> QED  BY ONLY <2>1, <2>2, FlatEmpty DEF I
<1>4. ASSUME NEW u \in Seq(T), NEW x \in T, u \in I PROVE Append(u, x) \in I
  <2>1. FlattenSeq(Append(u, x)) = FlattenSeq(u) \o x  BY FlatAppend
  <2>2. s \o u \in Seq(Seq(S))
    <3> HIDE DEF T
    <3>1. s \o u \in Seq(T)  BY ONLY <1>1, u \in Seq(T)
    <3> QED  BY <3>1 DEF T
  <2>3. FlattenSeq(Append(s \o u, x)) = FlattenSeq(s \o u) \o x
    BY ONLY <2>2, x \in Seq(S), FlatAppend
  <2>4. FlattenSeq(u) \in Seq(S)  BY FlatType
  <2>5. Regrouped(FlattenSeq(s), FlattenSeq(u), x)
    BY ONLY <1>2, <2>4, x \in Seq(S), Regroup
  <2>6. FlattenSeq(s \o u) = FlattenSeq(s) \o FlattenSeq(u)  BY ONLY <1>4 DEF I
  <2> HIDE DEF T
  <2>7. Append(u, x) \in Seq(T) /\ s \o Append(u, x) = Append(s \o u, x)
    BY ONLY <1>1, u \in Seq(T), x \in T
  <2> QED  BY ONLY <2>1, <2>3, <2>5, <2>6, <2>7 DEF I, Regrouped
<1> HIDE DEF T, I
<1>5. t \in I  BY ONLY <1>1, <1>3, <1>4, SeqInduction
<1> QED  BY <1>5 DEF I

\* FlattenSeq of one sequence.
LEMMA FlatOne ==
    ASSUME NEW S, NEW x \in Seq(S)
    PROVE  FlattenSeq(<<x>>) = x
<1> DEFINE T == Seq(S)
<1>1. <<>> \in Seq(T) /\ x \in T /\ <<>> \o x = x  OBVIOUS
<1>2. FlattenSeq(Append(<<>>, x)) = FlattenSeq(<<>>) \o x  BY ONLY <1>1, FlatAppend DEF T
<1>3. Append(<<>>, x) = <<x>>  OBVIOUS
<1> QED  BY ONLY <1>1, <1>2, <1>3, FlatEmpty

\* One of the sequences, what comes before it and what comes after.
Earlier(s, c) == SubSeq(s, 1, c - 1)
Later(s, c) == SubSeq(s, c + 1, Len(s))

Replaced(s, c, x) == [s EXCEPT ![c] = x]

\* FlattenSeq of sequences of which one is replaced.
LEMMA FlatParts ==
    ASSUME NEW S, NEW s \in Seq(Seq(S)), NEW c \in 1 .. Len(s), NEW x \in Seq(S)
    PROVE  /\ Earlier(s, c) \in Seq(Seq(S)) /\ Later(s, c) \in Seq(Seq(S))
           /\ FlattenSeq(Replaced(s, c, x))
                 = FlattenSeq(Earlier(s, c)) \o (x \o FlattenSeq(Later(s, c)))
           /\ FlattenSeq(s)
                 = FlattenSeq(Earlier(s, c)) \o (s[c] \o FlattenSeq(Later(s, c)))
<1> DEFINE T == Seq(S)
           a == SubSeq(s, 1, c - 1)
           b == SubSeq(s, c + 1, Len(s))
           F(y) == [s EXCEPT ![c] = y]
<1>1. s \in Seq(T) /\ x \in T /\ c \in 1 .. Len(s)  OBVIOUS
<1>2. ASSUME NEW y \in T
      PROVE  F(y) = a \o (<<y>> \o b) /\ a \in Seq(T) /\ b \in Seq(T) /\ <<y>> \in Seq(T)
             /\ <<y>> \o b \in Seq(T)
  <2> HIDE DEF T
  <2>1. a \in Seq(T) /\ Len(a) = c - 1 /\ \A i \in 1 .. c - 1 : a[i] = s[i]
    BY ONLY <1>1
  <2>2. b \in Seq(T) /\ Len(b) = Len(s) - c
        /\ \A i \in 1 .. Len(s) - c : b[i] = s[c + i]
    BY ONLY <1>1
  <2>3. F(y) \in Seq(T) /\ Len(F(y)) = Len(s) /\ F(y)[c] = y
        /\ \A i \in 1 .. Len(s) : i # c => F(y)[i] = s[i]
    BY ONLY <1>1, <1>2
  <2> HIDE DEF a, b, F
  <2>4. <<y>> \o b \in Seq(T) /\ Len(<<y>> \o b) = Len(s) - c + 1 /\ (<<y>> \o b)[1] = y
        /\ \A i \in 2 .. Len(s) - c + 1 : (<<y>> \o b)[i] = b[i - 1]
    <3>1. <<y>> \in Seq(T) /\ Len(<<y>>) = 1 /\ <<y>>[1] = y  BY ONLY <1>2
    <3>2. Len(s) - c \in Nat  BY ONLY <1>1
    <3> DEFINE m == Len(s) - c
    <3> HIDE DEF m
    <3>3. m \in Nat /\ b \in Seq(T) /\ Len(b) = m  BY <2>2, <3>2 DEF m
    <3>4. /\ <<y>> \o b \in Seq(T) /\ Len(<<y>> \o b) = m + 1
          /\ \A i \in 1 .. m + 1 : (<<y>> \o b)[i] = IF i <= 1 THEN <<y>>[i] ELSE b[i - 1]
      <4>1. 1 + m = m + 1  BY ONLY <3>3
      <4> QED  BY ONLY <3>1, <3>3, <4>1, ConcatProperties
    <3>5. 1 \in 1 .. m + 1 /\ \A i \in 2 .. m + 1 : i \in 1 .. m + 1 /\ ~(i <= 1)
      BY ONLY <3>3
    <3>6. (<<y>> \o b)[1] = y  BY ONLY <3>1, <3>4, <3>5
    <3>7. \A i \in 2 .. m + 1 : (<<y>> \o b)[i] = b[i - 1]  BY ONLY <3>4, <3>5
    <3> QED  BY ONLY <3>4, <3>6, <3>7 DEF m
  <2> DEFINE d == <<y>> \o b
  <2> HIDE DEF d
  <2>5. d \in Seq(T) /\ Len(d) = Len(s) - c + 1 /\ d[1] = y
        /\ \A i \in 2 .. Len(s) - c + 1 : d[i] = s[c + i - 1]
    <3>1. \A i \in 2 .. Len(s) - c + 1 :
             i - 1 \in 1 .. Len(s) - c /\ c + (i - 1) = c + i - 1
      BY ONLY <1>1
    <3> QED  BY ONLY <2>2, <2>4, <3>1 DEF d
  <2>6. /\ a \o d \in Seq(T) /\ Len(a \o d) = Len(s)
        /\ \A l \in 1 .. Len(s) :
              (a \o d)[l] = IF l <= c - 1 THEN a[l] ELSE d[l - (c - 1)]
    <3>1. a \in Seq(T) /\ Len(a) = c - 1 /\ d \in Seq(T)  BY ONLY <2>1, <2>5
    <3>2. Len(a) + Len(d) = Len(s)  BY ONLY <1>1, <2>1, <2>5
    <3>3. /\ a \o d \in Seq(T) /\ Len(a \o d) = Len(a) + Len(d)
          /\ \A l \in 1 .. Len(a) + Len(d) :
                (a \o d)[l] = IF l <= Len(a) THEN a[l] ELSE d[l - Len(a)]
      <4> HIDE DEF T
      <4> QED  BY ONLY <3>1, ConcatProperties
    <3> QED  BY ONLY <3>1, <3>2, <3>3
  <2>7. ASSUME NEW i \in 1 .. Len(s) PROVE (a \o d)[i] = F(y)[i]
    <3>1. CASE i < c
      <4>1. i \in 1 .. c - 1 /\ i # c  BY ONLY <1>1, <2>7, <3>1
      <4>2. i <= c - 1  BY ONLY <1>1, <4>1
      <4> QED  BY ONLY <2>1, <2>3, <2>6, <2>7, <4>1, <4>2
    <3>2. CASE i = c
      <4>1. ~(i <= c - 1) /\ i - (c - 1) = 1  BY ONLY <1>1, <3>2
      <4> QED  BY ONLY <2>3, <2>5, <2>6, <2>7, <3>2, <4>1
    <3>3. CASE i > c
      <4> DEFINE k == i - (c - 1)
      <4>1. k \in 2 .. Len(s) - c + 1 /\ c + k - 1 = i /\ i # c
        BY ONLY <1>1, <2>7, <3>3
      <4>2. ~(i <= c - 1)  BY ONLY <1>1, <2>7, <3>3
      <4>3. (a \o d)[i] = d[k]  BY ONLY <2>6, <2>7, <4>2
      <4> QED  BY ONLY <2>3, <2>5, <2>7, <4>1, <4>3
    <3>4. i < c \/ i = c \/ i > c  BY ONLY <1>1, <2>7
    <3> QED  BY ONLY <3>1, <3>2, <3>3, <3>4
  <2>8. a \o d = F(y)
    BY ONLY <2>3, <2>6, <2>7, SeqEqual
  <2>9. <<y>> \in Seq(T)  BY <1>2
  <2> QED  BY ONLY <2>1, <2>2, <2>4, <2>8, <2>9 DEF d
<1>3. ASSUME NEW y \in T
      PROVE  FlattenSeq(F(y)) = FlattenSeq(a) \o (y \o FlattenSeq(b))
  <2> HIDE DEF a, b, F
  <2>1. FlattenSeq(F(y)) = FlattenSeq(a) \o FlattenSeq(<<y>> \o b)
    BY ONLY <1>2, <1>3, FlatConcat DEF T
  <2>2. FlattenSeq(<<y>> \o b) = FlattenSeq(<<y>>) \o FlattenSeq(b)
    BY ONLY <1>2, <1>3, FlatConcat DEF T
  <2>3. FlattenSeq(<<y>>) = y  BY ONLY <1>3, FlatOne DEF T
  <2> QED  BY ONLY <2>1, <2>2, <2>3
<1>4. s[c] \in T /\ F(s[c]) = s
  <2> HIDE DEF T
  <2> QED  BY <1>1
<1>5. FlattenSeq(s) = FlattenSeq(a) \o (s[c] \o FlattenSeq(b))
  <2> HIDE DEF T, F
  <2> QED  BY ONLY <1>3, <1>4
<1>6. a \in Seq(T) /\ b \in Seq(T)
  <2> HIDE DEF T
  <2> QED  BY ONLY <1>1
<1>7. FlattenSeq([s EXCEPT ![c] = x]) = FlattenSeq(a) \o (x \o FlattenSeq(b))
  <2> HIDE DEF a, b
  <2> QED  BY <1>1, <1>3
<1> QED  BY <1>5, <1>6, <1>7 DEF T, Earlier, Later, Replaced

-----------------------------------------------------------------------------
(* What one server sent another, among other messages.                     *)

Mail == Message \cup {None}

\* What Of keeps of one message.
One(m, i, j) == IF m # None /\ m.from = i /\ m.to = j THEN <<m>> ELSE <<>>

\* One keeps messages only.
LEMMA OneType ==
    ASSUME NEW m \in Mail, NEW i, NEW j
    PROVE  One(m, i, j) \in Seq(Message)
BY DEF Mail, One

\* Of, message by message.
LEMMA OfMap ==
    ASSUME NEW q \in Seq(Mail), NEW i, NEW j
    PROVE  /\ [k \in 1 .. Len(q) |-> One(q[k], i, j)] \in Seq(Seq(Message))
           /\ Of(q, i, j) = FlattenSeq([k \in 1 .. Len(q) |-> One(q[k], i, j)])
<1> DEFINE T == Seq(Message)
<1>1. \A k \in 1 .. Len(q) : One(q[k], i, j) \in T
  <2>1. \A k \in 1 .. Len(q) : q[k] \in Mail  OBVIOUS
  <2> QED  BY <2>1, OneType
<1>2. DOMAIN q = 1 .. Len(q) /\ Len(q) \in Nat  OBVIOUS
<1>3. Of(q, i, j) = FlattenSeq([k \in 1 .. Len(q) |-> One(q[k], i, j)])
  BY ONLY <1>2 DEF Of, One
<1> HIDE DEF T
<1>4. [k \in 1 .. Len(q) |-> One(q[k], i, j)] \in Seq(T)  BY ONLY <1>1, <1>2
<1> QED  BY <1>3, <1>4 DEF T

\* Of keeps messages only.
LEMMA OfType ==
    ASSUME NEW q \in Seq(Mail), NEW i, NEW j
    PROVE  Of(q, i, j) \in Seq(Message)
BY OfMap, FlatType

\* Of nothing, of two sequences and of one message.
LEMMA OfEmpty ==
    ASSUME NEW i, NEW j
    PROVE  Of(<<>>, i, j) = <<>>
<1> DEFINE m == [k \in 1 .. 0 |-> One(<<>>[k], i, j)]
<1>1. <<>> \in Seq(Mail) /\ Len(<<>>) = 0  OBVIOUS
<1>2. Of(<<>>, i, j) = FlattenSeq(m)  BY ONLY <1>1, OfMap
<1>3. m = <<>>  OBVIOUS
<1> QED  BY ONLY <1>2, <1>3, FlatEmpty

LEMMA OfConcat ==
    ASSUME NEW p \in Seq(Mail), NEW q \in Seq(Mail), NEW i, NEW j
    PROVE  Of(p \o q, i, j) = Of(p, i, j) \o Of(q, i, j)
<1> DEFINE T == Seq(Message)
           r == p \o q
           f == [k \in 1 .. Len(p) |-> One(p[k], i, j)]
           g == [k \in 1 .. Len(q) |-> One(q[k], i, j)]
           h == [k \in 1 .. Len(r) |-> One(r[k], i, j)]
<1>1. /\ r \in Seq(Mail) /\ Len(r) = Len(p) + Len(q)
      /\ Len(p) \in Nat /\ Len(q) \in Nat
      /\ \A k \in 1 .. Len(p) : r[k] = p[k]
      /\ \A k \in 1 .. Len(q) : r[Len(p) + k] = q[k]
  OBVIOUS
<1>2. /\ f \in Seq(T) /\ g \in Seq(T) /\ h \in Seq(T)
      /\ Of(p, i, j) = FlattenSeq(f) /\ Of(q, i, j) = FlattenSeq(g)
      /\ Of(r, i, j) = FlattenSeq(h)
  <2>1. f \in Seq(T) /\ Of(p, i, j) = FlattenSeq(f)  BY OfMap
  <2>2. g \in Seq(T) /\ Of(q, i, j) = FlattenSeq(g)  BY OfMap
  <2>3. r \in Seq(Mail)  BY <1>1
  <2> HIDE DEF r
  <2>4. h \in Seq(T) /\ Of(r, i, j) = FlattenSeq(h)  BY ONLY <2>3, OfMap
  <2> QED  BY ONLY <2>1, <2>2, <2>4
<1>3. /\ Len(f) = Len(p) /\ Len(g) = Len(q) /\ Len(h) = Len(r)
      /\ \A k \in 1 .. Len(p) : f[k] = One(p[k], i, j)
      /\ \A k \in 1 .. Len(q) : g[k] = One(q[k], i, j)
      /\ \A k \in 1 .. Len(r) : h[k] = One(r[k], i, j)
  BY ONLY <1>1
<1> HIDE DEF f, g, h, r
<1>4. h = f \o g
  <2> HIDE DEF T
  <2>1. f \o g \in Seq(T) /\ Len(f \o g) = Len(r)
    <3>1. f \in Seq(T) /\ g \in Seq(T)  BY ONLY <1>2
    <3>2. Len(r) = Len(f) + Len(g)  BY ONLY <1>1, <1>3
    <3> QED  BY ONLY <3>1, <3>2
  <2>2. ASSUME NEW k \in 1 .. Len(r) PROVE h[k] = (f \o g)[k]
    <3>1. CASE k \in 1 .. Len(p)
      <4>1. (f \o g)[k] = f[k]  BY ONLY <1>1, <1>2, <1>3, <3>1
      <4> QED  BY ONLY <1>1, <1>3, <2>2, <3>1, <4>1
    <3>2. CASE k \notin 1 .. Len(p)
      <4> DEFINE l == k - Len(p)
      <4>1. l \in 1 .. Len(q) /\ Len(p) + l = k  BY ONLY <1>1, <2>2, <3>2
      <4>2. (f \o g)[k] = g[l]  BY ONLY <1>1, <1>2, <1>3, <2>2, <3>2
      <4> HIDE DEF l
      <4>3. r[k] = q[l]
        <5>1. r[Len(p) + l] = q[l]  BY ONLY <1>1, <4>1
        <5> QED  BY ONLY <4>1, <5>1
      <4>4. h[k] = One(r[k], i, j) /\ g[l] = One(q[l], i, j)
        BY ONLY <1>3, <2>2, <4>1
      <4> QED  BY ONLY <4>2, <4>3, <4>4
    <3> QED  BY ONLY <3>1, <3>2
  <2> QED  BY ONLY <1>2, <1>3, <2>1, <2>2, SeqEqual
<1>5. FlattenSeq(f \o g) = FlattenSeq(f) \o FlattenSeq(g)
  BY ONLY <1>2, FlatConcat DEF T
<1> QED  BY ONLY <1>2, <1>4, <1>5 DEF r

LEMMA OfOne ==
    ASSUME NEW m \in Mail, NEW i, NEW j
    PROVE  Of(<<m>>, i, j) = One(m, i, j)
<1> DEFINE f == [k \in 1 .. 1 |-> One(<<m>>[k], i, j)]
<1>1. <<m>> \in Seq(Mail) /\ Len(<<m>>) = 1  OBVIOUS
<1>2. Of(<<m>>, i, j) = FlattenSeq(f)  BY ONLY <1>1, OfMap
<1>3. f = << One(m, i, j) >>  OBVIOUS
<1>4. One(m, i, j) \in Seq(Message)  BY OneType
<1> QED  BY ONLY <1>2, <1>3, <1>4, FlatOne

\* Nothing of nothing.
LEMMA OfNothing ==
    ASSUME NEW i, NEW j, NEW s \in Seq(Seq(Message)),
           \A k \in 1 .. Len(s) : Of(s[k], i, j) = <<>>
    PROVE  Of(FlattenSeq(s), i, j) = <<>>
<1> DEFINE T == Seq(Message)
           Q == {q \in T : Of(q, i, j) = <<>>}
           I == {u \in Seq(Q) : Of(FlattenSeq(u), i, j) = <<>>}
<1>1. <<>> \in I
  <2> HIDE DEF Q
  <2> QED  BY OfEmpty, FlatEmpty
<1>2. ASSUME NEW u \in Seq(Q), NEW x \in Q, u \in I PROVE Append(u, x) \in I
  <2>1. u \in Seq(T) /\ Append(u, x) \in Seq(Q)
    <3>1. Q \subseteq T  OBVIOUS
    <3> HIDE DEF Q, T
    <3> QED  BY ONLY <3>1, u \in Seq(Q), x \in Q
  <2>2. FlattenSeq(u) \in Seq(Message) /\ x \in Seq(Message)
        /\ Of(x, i, j) = <<>>
    BY <2>1, FlatType
  <2>3. FlattenSeq(Append(u, x)) = FlattenSeq(u) \o x
    BY ONLY <2>1, <2>2, FlatAppend DEF T
  <2>4. FlattenSeq(u) \in Seq(Mail) /\ x \in Seq(Mail)  BY ONLY <2>2 DEF Mail
  <2>5. Of(FlattenSeq(u) \o x, i, j) = Of(FlattenSeq(u), i, j) \o Of(x, i, j)
    BY ONLY <2>4, OfConcat
  <2>6. Of(FlattenSeq(u), i, j) = <<>>  BY ONLY <1>2
  <2>7. Of(FlattenSeq(Append(u, x)), i, j) = <<>>
    BY ONLY <2>2, <2>3, <2>5, <2>6
  <2> HIDE DEF Q
  <2> QED  BY ONLY <2>1, <2>7
<1>3. s \in Seq(Q)
  <2>1. s \in Seq(T)  OBVIOUS
  <2>2. \A k \in 1 .. Len(s) : s[k] \in Q
    <3>1. \A k \in 1 .. Len(s) : s[k] \in T
      <4> HIDE DEF T
      <4> QED  BY ONLY <2>1
    <3> QED  BY <3>1
  <2> HIDE DEF Q, T
  <2>3. Len(s) \in Nat /\ s = [k \in 1 .. Len(s) |-> s[k]]  BY ONLY <2>1
  <2> QED  BY ONLY <2>2, <2>3
<1> HIDE DEF Q, I
<1>4. s \in I  BY ONLY <1>1, <1>2, <1>3, SeqInduction
<1> QED  BY <1>4 DEF I

-----------------------------------------------------------------------------
(* Sequences that lose some of their elements.                             *)

Thin(q2, q) == Channels!Thinned(q2, q)

\* Where what is left was.
Kept(f, q2, q) ==
    /\ f \in [1 .. Len(q2) -> 1 .. Len(q)]
    /\ \A k, l \in 1 .. Len(q2) : k < l => f[k] < f[l]
    /\ \A k \in 1 .. Len(q2) : q2[k] = q[f[k]]

\* Thinned, by lengths.
LEMMA ThinKept ==
    ASSUME NEW S, NEW q \in Seq(S), NEW q2 \in Seq(S)
    PROVE  Thin(q2, q) <=> \E f : Kept(f, q2, q)
<1>1. DOMAIN q = 1 .. Len(q) /\ DOMAIN q2 = 1 .. Len(q2) /\ Len(q) \in Nat
  OBVIOUS
<1>2. ASSUME q2 = q PROVE \E f : Kept(f, q2, q)
  <2> DEFINE f == [k \in 1 .. Len(q) |-> k]
  <2>1. Kept(f, q2, q)  BY ONLY <1>1, <1>2 DEF Kept
  <2> QED  BY <2>1
<1> QED  BY ONLY <1>1, <1>2 DEF Thin, Channels!Thinned, Kept

\* Nothing need be lost, and everything may be.
LEMMA ThinSame ==
    ASSUME NEW q PROVE Thin(q, q)
BY DEF Thin, Channels!Thinned

LEMMA ThinNone ==
    ASSUME NEW S, NEW q \in Seq(S) PROVE Thin(<<>>, q)
<1> DEFINE f == [k \in 1 .. 0 |-> k]
<1>1. Kept(f, <<>>, q) /\ <<>> \in Seq(S)  BY DEF Kept
<1> HIDE DEF f
<1> QED  BY <1>1, ThinKept

\* Two sequences may lose some each, or one in the middle of others.
LEMMA ThinConcat ==
    ASSUME NEW S, NEW a \in Seq(S), NEW a2 \in Seq(S), NEW b \in Seq(S),
           NEW b2 \in Seq(S), Thin(a2, a), Thin(b2, b)
    PROVE  Thin(a2 \o b2, a \o b)
<1>1. PICK f : Kept(f, a2, a)  BY ThinKept
<1>2. PICK g : Kept(g, b2, b)  BY ThinKept
<1> DEFINE n == Len(a)
           n2 == Len(a2)
           m == Len(b)
           m2 == Len(b2)
           h == [k \in 1 .. n2 + m2 |-> IF k <= n2 THEN f[k] ELSE n + g[k - n2]]
<1>3. n \in Nat /\ n2 \in Nat /\ m \in Nat /\ m2 \in Nat  OBVIOUS
<1>4. /\ a \o b \in Seq(S) /\ Len(a \o b) = n + m
      /\ a2 \o b2 \in Seq(S) /\ Len(a2 \o b2) = n2 + m2
  OBVIOUS
<1>5. /\ \A k \in 1 .. n : (a \o b)[k] = a[k]
      /\ \A k \in 1 .. m : (a \o b)[n + k] = b[k]
      /\ \A k \in 1 .. n2 : (a2 \o b2)[k] = a2[k]
      /\ \A k \in 1 .. m2 : (a2 \o b2)[n2 + k] = b2[k]
  OBVIOUS
<1>6. /\ \A k \in 1 .. n2 : f[k] \in 1 .. n /\ a2[k] = a[f[k]]
      /\ \A k, l \in 1 .. n2 : k < l => f[k] < f[l]
      /\ \A k \in 1 .. m2 : g[k] \in 1 .. m /\ b2[k] = b[g[k]]
      /\ \A k, l \in 1 .. m2 : k < l => g[k] < g[l]
  BY <1>1, <1>2 DEF Kept
<1> HIDE DEF n, n2, m, m2
<1>7. ASSUME NEW k \in 1 .. n2 + m2
      PROVE  \/ k \in 1 .. n2 /\ h[k] = f[k]
             \/ k - n2 \in 1 .. m2 /\ h[k] = n + g[k - n2] /\ k > n2
  BY ONLY <1>3, <1>7
<1>8. h \in [1 .. n2 + m2 -> 1 .. n + m]
  <2> SUFFICES ASSUME NEW k \in 1 .. n2 + m2 PROVE h[k] \in 1 .. n + m
    OBVIOUS
  <2> HIDE DEF h
  <2>1. CASE k \in 1 .. n2 /\ h[k] = f[k]  BY ONLY <1>3, <1>6, <2>1
  <2>2. CASE k - n2 \in 1 .. m2 /\ h[k] = n + g[k - n2]
    BY ONLY <1>3, <1>6, <2>2
  <2> QED  BY ONLY <1>7, <2>1, <2>2
<1> HIDE DEF h
<1>9. ASSUME NEW k \in 1 .. n2 + m2, NEW l \in 1 .. n2 + m2, k < l
      PROVE  h[k] < h[l]
  <2>1. CASE l \in 1 .. n2 /\ h[l] = f[l]
    <3>1. k \in 1 .. n2 /\ h[k] = f[k]  BY ONLY <1>3, <1>7, <1>9, <2>1
    <3> QED  BY ONLY <1>6, <1>9, <2>1, <3>1
  <2>2. CASE l - n2 \in 1 .. m2 /\ h[l] = n + g[l - n2]
    <3>1. CASE k \in 1 .. n2 /\ h[k] = f[k]
      BY ONLY <1>3, <1>6, <2>2, <3>1
    <3>2. CASE k - n2 \in 1 .. m2 /\ h[k] = n + g[k - n2]
      <4>1. k - n2 < l - n2  BY ONLY <1>3, <1>9
      <4>2. g[k - n2] < g[l - n2]  BY ONLY <1>6, <2>2, <3>2, <4>1
      <4>3. g[k - n2] \in Nat /\ g[l - n2] \in Nat
        BY ONLY <1>3, <1>6, <2>2, <3>2
      <4> QED  BY ONLY <1>3, <2>2, <3>2, <4>2, <4>3
    <3> QED  BY ONLY <1>7, <3>1, <3>2
  <2> QED  BY ONLY <1>7, <2>1, <2>2
<1>10. ASSUME NEW k \in 1 .. n2 + m2 PROVE (a2 \o b2)[k] = (a \o b)[h[k]]
  <2>1. CASE k \in 1 .. n2 /\ h[k] = f[k]
    <3>1. (a2 \o b2)[k] = a2[k]  BY ONLY <1>5, <2>1
    <3>2. f[k] \in 1 .. n /\ a2[k] = a[f[k]]  BY ONLY <1>6, <2>1
    <3>3. (a \o b)[f[k]] = a[f[k]]  BY ONLY <1>5, <3>2
    <3> QED  BY ONLY <2>1, <3>1, <3>2, <3>3
  <2>2. CASE k - n2 \in 1 .. m2 /\ h[k] = n + g[k - n2]
    <3>1. (a2 \o b2)[n2 + (k - n2)] = b2[k - n2]  BY ONLY <1>5, <2>2
    <3>2. n2 + (k - n2) = k  BY ONLY <1>3
    <3>3. g[k - n2] \in 1 .. m /\ b2[k - n2] = b[g[k - n2]]
      BY ONLY <1>6, <2>2
    <3>4. (a \o b)[n + g[k - n2]] = b[g[k - n2]]  BY ONLY <1>5, <3>3
    <3> QED  BY ONLY <2>2, <3>1, <3>2, <3>3, <3>4
  <2> QED  BY ONLY <1>7, <2>1, <2>2
<1>11. Kept(h, a2 \o b2, a \o b)
  BY ONLY <1>4, <1>8, <1>9, <1>10 DEF Kept
<1> QED  BY ONLY <1>4, <1>11, ThinKept

LEMMA ThinMiddle ==
    ASSUME NEW S, NEW a \in Seq(S), NEW x \in Seq(S), NEW x2 \in Seq(S),
           NEW b \in Seq(S), Thin(x2, x)
    PROVE  Thin(a \o (x2 \o b), a \o (x \o b))
<1>1. Thin(x2 \o b, x \o b)  BY ThinConcat, ThinSame
<1>2. x2 \o b \in Seq(S) /\ x \o b \in Seq(S)  OBVIOUS
<1> QED  BY <1>1, <1>2, ThinConcat, ThinSame

\* Messages none of which i sent to j.
LEMMA OfAlien ==
    ASSUME NEW q \in Seq(Message), NEW i, NEW j,
           \A k \in 1 .. Len(q) : One(q[k], i, j) = <<>>
    PROVE  Of(q, i, j) = <<>>
<1> DEFINE Q == {m \in Message : One(m, i, j) = <<>>}
           I == {u \in Seq(Q) : Of(u, i, j) = <<>>}
<1>1. <<>> \in I
  <2> HIDE DEF Q
  <2> QED  BY OfEmpty
<1>2. ASSUME NEW u \in Seq(Q), NEW x \in Q, u \in I PROVE Append(u, x) \in I
  <2>1. x \in Mail /\ One(x, i, j) = <<>>  BY DEF Mail
  <2>2. Q \subseteq Mail  BY DEF Mail
  <2> HIDE DEF Q
  <2>3. u \in Seq(Mail) /\ <<x>> \in Seq(Mail) /\ Append(u, x) = u \o <<x>>
        /\ Append(u, x) \in Seq(Q)
    BY <2>1, <2>2
  <2>4. Of(u \o <<x>>, i, j) = Of(u, i, j) \o Of(<<x>>, i, j)
    <3> DEFINE y == <<x>>
    <3>1. y \in Seq(Mail) /\ u \in Seq(Mail)  BY ONLY <2>3
    <3> HIDE DEF y
    <3>2. Of(u \o y, i, j) = Of(u, i, j) \o Of(y, i, j)
      BY ONLY <3>1, OfConcat
    <3> QED  BY ONLY <3>2 DEF y
  <2>5. Of(<<x>>, i, j) = <<>>  BY ONLY <2>1, OfOne
  <2>6. Of(u, i, j) = <<>>  BY ONLY <1>2
  <2> QED  BY ONLY <2>3, <2>4, <2>5, <2>6
<1>3. q \in Seq(Q)
  <2>1. \A k \in 1 .. Len(q) : q[k] \in Q  OBVIOUS
  <2> HIDE DEF Q
  <2> QED  BY <2>1
<1> HIDE DEF Q, I
<1>4. q \in I  BY ONLY <1>1, <1>2, <1>3, SeqInduction
<1> QED  BY <1>4 DEF I

\* What i sent to j in u, and in u2 where x stands for what u has at c.
Divided(u, u2, c, x, i, j) ==
    \E a, b \in Seq(Message) :
       /\ Of(FlattenSeq(u), i, j) = a \o (Of(u[c], i, j) \o b)
       /\ Of(FlattenSeq(u2), i, j) = a \o (Of(x, i, j) \o b)
       /\ (\A k \in 1 .. Len(u) : k < c => Of(u[k], i, j) = <<>>) => a = <<>>
       /\ (\A k \in 1 .. Len(u) : c < k => Of(u[k], i, j) = <<>>) => b = <<>>

\* What is replaced on one connection comes between what is on earlier ones and
\* what is on later ones.
LEMMA UpFlow ==
    ASSUME NEW u \in Seq(Seq(Message)), NEW c \in 1 .. Len(u),
           NEW x \in Seq(Message), NEW i, NEW j
    PROVE  Divided(u, Replaced(u, c, x), c, x, i, j)
<1> DEFINE T == Seq(Message)
           v == Earlier(u, c)
           w == Later(u, c)
           f == FlattenSeq(v)
           g == FlattenSeq(w)
           a == Of(f, i, j)
           b == Of(g, i, j)
<1>1. /\ v \in Seq(T) /\ w \in Seq(T)
      /\ FlattenSeq(Replaced(u, c, x)) = f \o (x \o g)
      /\ FlattenSeq(u) = f \o (u[c] \o g)
  <2>1. c \in 1 .. Len(u) /\ u \in Seq(T) /\ x \in T  OBVIOUS
  <2>2. v \in Seq(T) /\ w \in Seq(T)  BY <2>1, FlatParts
  <2>3. ASSUME NEW y \in T
        PROVE  FlattenSeq(Replaced(u, c, y)) = f \o (y \o g)
    BY ONLY <2>1, FlatParts DEF T
  <2>4. FlattenSeq(u) = f \o (u[c] \o g)
    <3>1. u[c] \in T /\ Replaced(u, c, u[c]) = u
      <4> HIDE DEF T
      <4> QED  BY ONLY <2>1 DEF Replaced
    <3>2. FlattenSeq(Replaced(u, c, u[c])) = f \o (u[c] \o g)
      BY ONLY <2>3, <3>1, Zenon
    <3> QED  BY ONLY <3>1, <3>2
  <2> QED  BY ONLY <2>1, <2>2, <2>3, <2>4
<1>2. f \in T /\ g \in T  BY <1>1, FlatType
<1>3. u[c] \in T
  <2>1. u \in Seq(T) /\ c \in 1 .. Len(u)  OBVIOUS
  <2> HIDE DEF T
  <2> QED  BY ONLY <2>1
<1>4. ASSUME NEW y \in T
      PROVE  Of(f \o (y \o g), i, j) = a \o (Of(y, i, j) \o b)
  <2>1. f \in Seq(Mail) /\ g \in Seq(Mail) /\ y \in Seq(Mail)
    BY ONLY <1>2, <1>4 DEF Mail
  <2> HIDE DEF f, g, T
  <2>3. Of(y \o g, i, j) = Of(y, i, j) \o Of(g, i, j)
    <3>1. y \in Seq(Mail) /\ g \in Seq(Mail)  BY ONLY <2>1
    <3> QED  BY ONLY <3>1, OfConcat
  <2> DEFINE z == y \o g
  <2>2. z \in Seq(Mail)  BY ONLY <2>1
  <2> HIDE DEF z
  <2>4. Of(f \o z, i, j) = Of(f, i, j) \o Of(z, i, j)
    <3>1. f \in Seq(Mail) /\ z \in Seq(Mail)  BY ONLY <2>1, <2>2
    <3> QED  BY ONLY <3>1, OfConcat
  <2> QED  BY ONLY <2>3, <2>4 DEF z
<1>5. a \in T /\ b \in T
  <2>1. f \in Seq(Mail) /\ g \in Seq(Mail)  BY ONLY <1>2 DEF Mail
  <2> QED  BY ONLY <2>1, OfType
<1>6. ASSUME \A k \in 1 .. Len(u) : k < c => Of(u[k], i, j) = <<>>
      PROVE  a = <<>>
  <2>1. \A k \in 1 .. Len(v) : k \in 1 .. Len(u) /\ k < c /\ v[k] = u[k]
    <3> HIDE DEF T
    <3>1. u \in Seq(T)  BY DEF T
    <3> QED  BY ONLY <3>1, c \in 1 .. Len(u) DEF Earlier, Later
  <2>2. \A k \in 1 .. Len(v) : Of(v[k], i, j) = <<>>  BY ONLY <1>6, <2>1
  <2> HIDE DEF v
  <2> QED  BY ONLY <1>1, <2>2, OfNothing
<1>7. ASSUME \A k \in 1 .. Len(u) : c < k => Of(u[k], i, j) = <<>>
      PROVE  b = <<>>
  <2>1. \A k \in 1 .. Len(w) :
            c + k \in 1 .. Len(u) /\ c < c + k /\ w[k] = u[c + k]
    <3> HIDE DEF T
    <3>1. u \in Seq(T)  BY DEF T
    <3> QED  BY ONLY <3>1, c \in 1 .. Len(u) DEF Earlier, Later
  <2>2. \A k \in 1 .. Len(w) : Of(w[k], i, j) = <<>>
    <3> SUFFICES ASSUME NEW k \in 1 .. Len(w) PROVE Of(w[k], i, j) = <<>>
      OBVIOUS
    <3> DEFINE l == c + k
    <3>1. l \in 1 .. Len(u) /\ c < l /\ w[k] = u[l]  BY ONLY <2>1
    <3> HIDE DEF l, w
    <3> QED  BY ONLY <1>7, <3>1
  <2> HIDE DEF w
  <2> QED  BY ONLY <1>1, <2>2, OfNothing
<1> HIDE DEF f, g, a, b
<1>8. /\ Of(FlattenSeq(u), i, j) = a \o (Of(u[c], i, j) \o b)
      /\ Of(FlattenSeq(Replaced(u, c, x)), i, j) = a \o (Of(x, i, j) \o b)
  BY ONLY <1>1, <1>3, <1>4, x \in T
<1> QED  BY ONLY <1>5, <1>6, <1>7, <1>8 DEF Divided

-----------------------------------------------------------------------------
(* Sockets and strays.                                                     *)

USE MeshAssumption DEF Conn, server, tcp, info, tasks

ConnectedReads == \A r \in Replica : connected[r] <=> recvTask[r]

RecvOwns ==
    \A r \in Replica : recvTask[r] =>
        /\ sock[r] \in Fd /\ fdConn[sock[r]] # 0
        /\ owner[fdConn[sock[r]]] = r

AcceptedApart ==
    accepted # 0 => \A r \in Replica : recvTask[r] => sock[r] # accepted

SocketInv == TypeOK /\ ConnectedReads /\ RecvOwns /\ AcceptedApart

Waits(c) == \E k \in 1 .. Len(backlog) : backlog[k] = c
Open(c) == \E fd \in Fd : fdConn[fd] = c

\* A connection waits once, or has one descriptor, or neither.
ConnsApart ==
    /\ \A k, l \in 1 .. Len(backlog) : backlog[k] = backlog[l] => k = l
    /\ \A c \in Conn : Waits(c) => ~Open(c)
    /\ \A f, g \in Fd : fdConn[f] = fdConn[g] /\ fdConn[f] # 0 => f = g

\* Connections whose two ends are closed.
Ended == {c \in gone : ~Waits(c) /\ ~Open(c)}

\* Messages that their thread may still write astray.
Astray == {r \in Replica : ~connected[r] /\ sending[r] # None}

StraysCounted == strays + Cardinality(Astray) <= Cardinality(Ended)

MeshInv == SocketInv /\ ConnsApart /\ StraysCounted

-----------------------------------------------------------------------------
\* The kernel finds a lowest descriptor among the free ones.
LEMMA LowestFree ==
    ASSUME TypeOK, Free # {}
    PROVE  (CHOOSE x \in Free : \A y \in Free : x <= y) \in Free
<1>1. Free \subseteq Nat  BY DEF Free
<1>2. PICK x \in Free :
        \A y \in Free : ~(<<y, x>> \in {p \in Nat \X Nat : p[1] < p[2]})
  <2>1. IsWellFoundedOn({p \in Nat \X Nat : p[1] < p[2]}, Nat)
    BY NatLessThanWellFounded DEF OpToRel
  <2> QED  BY <1>1, <2>1, WFMin
<1>3. ASSUME NEW y \in Free PROVE x <= y
  <2>1. <<y, x>> \in Nat \X Nat /\ <<y, x>>[1] = y /\ <<y, x>>[2] = x  BY <1>1
  <2>2. ~(y < x)  BY <1>2, <2>1
  <2> QED  BY <1>1, <2>2
<1> QED  BY <1>3

\* One entry more in a table of the connections.
LEMMA Extended ==
    ASSUME NEW S, NEW n \in Nat, NEW f \in [1 .. n -> S], NEW x \in S
    PROVE  Append(f, x) \in [1 .. n + 1 -> S]
<1>1. f \in Seq(S) /\ Len(f) = n  OBVIOUS
<1>2. Append(f, x) \in Seq(S) /\ Len(Append(f, x)) = n + 1  BY <1>1
<1> QED  BY <1>2, SeqDef, LenProperties

-----------------------------------------------------------------------------
(* The sockets.                                                            *)

\* SocketInv holds when the mesh starts.
LEMMA SocketInit == Init => SocketInv
<1> SUFFICES ASSUME Init PROVE SocketInv
  OBVIOUS
<1>1. TypeOK  BY DEF Init, TypeOK
<1> QED
  BY <1>1 DEF Init, SocketInv, ConnectedReads, RecvOwns, AcceptedApart

\* A step that leaves the receiving threads and the descriptors alone, and the
\* owners of the connections there are.
LEMMA SocketFrame ==
    ASSUME SocketInv, TypeOK',
           \A c \in Conn : owner'[c] = owner[c],
           UNCHANGED <<fdConn, accepted, connected, sock, recvTask>>
    PROVE  SocketInv'
<1>1. RecvOwns'
  <2> SUFFICES ASSUME NEW r \in Replica, recvTask[r]
               PROVE  /\ sock[r] \in Fd /\ fdConn[sock[r]] # 0
                      /\ owner'[fdConn[sock[r]]] = r
    BY DEF RecvOwns
  <2>1. sock[r] \in Fd /\ fdConn[sock[r]] # 0 /\ owner[fdConn[sock[r]]] = r
    BY DEF SocketInv, RecvOwns
  <2>2. fdConn \in [Fd -> Conn \cup {0}]  BY DEF SocketInv, TypeOK
  <2>3. fdConn[sock[r]] \in Conn  BY <2>1, <2>2
  <2> QED  BY <2>1, <2>3
<1> QED  BY <1>1 DEF SocketInv, ConnectedReads, AcceptedApart

\* One lemma for each kind of step: sockets stay apart.
LEMMA SocketConnect ==
    ASSUME SocketInv, NEW r \in Replica, Connect(r)
    PROVE  SocketInv'
<1> USE DEF Connect
<1>1. TypeOK  BY DEF SocketInv
<1>2. /\ owner' \in Seq(Replica) /\ Len(owner') = Len(owner) + 1
      /\ \A n \in 1 .. Len(owner) : owner'[n] = owner[n]
  BY <1>1 DEF TypeOK
<1>3. Conn = 1 .. Len(owner) /\ Conn' = 1 .. Len(owner) + 1
  BY <1>1, <1>2 DEF TypeOK
<1>4. backlog' \in Seq(Conn')
  <2>1. backlog \in Seq(Conn')  BY <1>1, <1>3 DEF TypeOK
  <2> QED  BY <1>3, <2>1
<1>5. up' \in [Conn' -> Seq(Message)] /\ down' \in [Conn' -> Seq(Message)]
  <2>1. <<>> \in Seq(Message) /\ Len(owner) \in Nat  BY <1>1 DEF TypeOK
  <2> QED  BY <1>1, <1>3, <2>1, Extended DEF TypeOK
<1>6. TypeOK'
  <2>1. cur' \in [Replica -> Conn' \cup {0}]  BY <1>1, <1>3 DEF TypeOK
  <2>2. gone' \subseteq Conn' /\ fdConn' \in [Fd -> Conn' \cup {0}]
    BY <1>1, <1>3 DEF TypeOK
  <2> QED  BY <1>1, <1>2, <1>4, <1>5, <2>1, <2>2 DEF TypeOK
<1> QED  BY <1>2, <1>3, <1>6, SocketFrame

LEMMA SocketServer ==
    ASSUME SocketInv, NEW r \in Replica,
           ServerReceive(r) \/ ServerCrash(r) \/ \E to \in Replica : ServerSend(r, to)
    PROVE  SocketInv'
<1>1. TypeOK  BY DEF SocketInv
<1>2. CASE ServerReceive(r)
  <2>1. TypeOK'  BY <1>1, <1>2 DEF ServerReceive, TypeOK
  <2> QED  BY <1>2, <2>1, SocketFrame DEF ServerReceive
<1>3. CASE ServerCrash(r)
  <2>1. TypeOK'  BY <1>1, <1>3 DEF ServerCrash, TypeOK
  <2> QED  BY <1>3, <2>1, SocketFrame DEF ServerCrash
<1>4. ASSUME NEW to \in Replica, ServerSend(r, to) PROVE SocketInv'
  <2>1. sent[r][to] + 1 \in 1 .. MaxSent /\ sent' \in [Replica -> [Replica -> 0 .. MaxSent]]
    BY <1>1, <1>4 DEF ServerSend, TypeOK
  <2>2. [from |-> r, to |-> to, n |-> sent[r][to] + 1] \in Message
    BY <2>1 DEF Message
  <2>3. up' \in [Conn -> Seq(Message)]
    BY <1>1, <1>4, <2>2 DEF ServerSend, TypeOK
  <2>4. TypeOK'  BY <1>1, <1>4, <2>1, <2>3 DEF ServerSend, TypeOK
  <2> QED  BY <1>4, <2>4, SocketFrame DEF ServerSend
<1> QED  BY <1>2, <1>3, <1>4

LEMMA SocketAccept ==
    ASSUME SocketInv, Accept
    PROVE  SocketInv'
<1> DEFINE c == Head(backlog)
           fd == CHOOSE x \in Free : \A y \in Free : x <= y
<1>1. TypeOK  BY DEF SocketInv
<1>2. fd \in Free  BY <1>1, LowestFree DEF Accept
<1>3. c \in Conn /\ c # 0 /\ backlog' \in Seq(Conn)
  <2>1. backlog \in Seq(Conn) /\ backlog # <<>> /\ owner \in Seq(Replica)
    BY <1>1 DEF TypeOK, Accept
  <2>2. c \in Conn /\ backlog' \in Seq(Conn)  BY <2>1 DEF Accept
  <2> QED  BY <2>1, <2>2
<1> HIDE DEF c, fd
<1>4. /\ accepted = 0
      /\ IF connected[owner[c]]
         THEN /\ gone' = gone \cup {c} /\ up' = [up EXCEPT ![c] = <<>>]
              /\ UNCHANGED <<fdConn, accepted>>
         ELSE /\ fdConn' = [fdConn EXCEPT ![fd] = c] /\ accepted' = fd
              /\ UNCHANGED <<gone, up>>
      /\ UNCHANGED <<server, owner, down, info, tasks, toggles, strays>>
  BY DEF Accept, c, fd
<1>5. fd \in Fd /\ fdConn[fd] = 0 /\ fd # 0  BY <1>2 DEF Free
<1>6. CASE connected[owner[c]]
  <2>1. <<>> \in Seq(Message) /\ gone' \subseteq Conn
    BY <1>1, <1>3, <1>4, <1>6 DEF TypeOK
  <2>2. up' \in [Conn -> Seq(Message)]
    <3>1. up \in [Conn -> Seq(Message)]  BY <1>1 DEF TypeOK
    <3>2. up' = [up EXCEPT ![c] = <<>>]  BY <1>4, <1>6
    <3> QED  BY ONLY <2>1, <3>1, <3>2
  <2>3. /\ UNCHANGED <<fdConn, accepted>> /\ accepted = 0
        /\ UNCHANGED <<server, owner, down, info, tasks, toggles, strays>>
    BY <1>4, <1>6
  <2>4. Conn' = Conn  BY <2>3 DEF Conn
  <2>5. TypeOK'
    BY ONLY <1>1, <1>3, <2>1, <2>2, <2>3, <2>4 DEF TypeOK, server, info, tasks
  <2> QED  BY <1>4, <1>6, <2>5, SocketFrame
<1>7. CASE ~connected[owner[c]]
  <2>1. fdConn' \in [Fd -> Conn \cup {0}] /\ fdConn'[fd] = c
        /\ \A f \in Fd : f # fd => fdConn'[f] = fdConn[f]
    <3>1. fdConn \in [Fd -> Conn \cup {0}]  BY <1>1 DEF TypeOK
    <3>2. fdConn' = [fdConn EXCEPT ![fd] = c] /\ UNCHANGED owner
      BY <1>4, <1>7
    <3> QED  BY ONLY <1>3, <1>5, <3>1, <3>2 DEF Conn
  <2>2. \A r \in Replica : recvTask[r] =>
            sock[r] \in Fd /\ sock[r] # fd /\ fdConn'[sock[r]] = fdConn[sock[r]]
    BY <1>5, <2>1 DEF SocketInv, RecvOwns
  <2>3. TypeOK'
    <3>1. accepted' = fd /\ UNCHANGED <<gone, up>>
          /\ UNCHANGED <<server, owner, down, info, tasks, toggles, strays>>
      BY <1>4, <1>7
    <3>2. Conn' = Conn  BY <3>1 DEF Conn
    <3>3. accepted' \in Fd \cup {0} /\ fdConn'[accepted'] # 0
      BY <1>3, <1>5, <2>1, <3>1
    <3>4. \A r \in Replica : recvTask'[r] => fdConn'[sock'[r]] # 0
      BY <1>1, <2>2, <3>1 DEF TypeOK, info, tasks
    <3> QED
      BY <1>1, <1>3, <2>1, <3>1, <3>2, <3>3, <3>4
         DEF TypeOK, server, info, tasks
  <2>4. RecvOwns'  BY <1>4, <2>2 DEF SocketInv, RecvOwns
  <2>5. AcceptedApart'  BY <1>4, <1>7, <2>2 DEF AcceptedApart
  <2> QED  BY <1>4, <2>3, <2>4, <2>5 DEF SocketInv, ConnectedReads
<1> QED  BY <1>6, <1>7

LEMMA SocketInstall ==
    ASSUME SocketInv, Install
    PROVE  SocketInv'
<1> DEFINE r == owner[fdConn[accepted]]
<1>1. TypeOK  BY DEF SocketInv
<1>2. r \in Replica /\ accepted \in Fd /\ accepted # 0 /\ fdConn[accepted] # 0
  BY <1>1 DEF TypeOK, Install
<1>3. /\ ~recvTask[r] /\ ~sendTask[r]
      /\ queue' = [queue EXCEPT ![r] = <<>>]
      /\ connected' = [connected EXCEPT ![r] = TRUE]
      /\ partitioned' = [partitioned EXCEPT ![r] = FALSE]
      /\ sock' = [sock EXCEPT ![r] = accepted]
      /\ recvTask' = [recvTask EXCEPT ![r] = TRUE]
      /\ sendTask' = [sendTask EXCEPT ![r] = TRUE]
      /\ accepted' = 0
      /\ UNCHANGED <<server, tcp, fdConn, reading, sending, toggles, strays>>
  BY DEF Install
<1>4. owner[fdConn[accepted]] = r  OBVIOUS
<1> HIDE DEF r
<1>5. TypeOK'
  <2>1. /\ queue' \in [Replica -> Seq(Message)]
        /\ connected' \in [Replica -> BOOLEAN]
        /\ partitioned' \in [Replica -> BOOLEAN]
        /\ sock' \in [Replica -> Fd \cup {0}]
        /\ recvTask' \in [Replica -> BOOLEAN]
        /\ sendTask' \in [Replica -> BOOLEAN]
    <3>1. <<>> \in Seq(Message)  OBVIOUS
    <3> QED  BY <1>1, <1>2, <1>3, <3>1 DEF TypeOK
  <2>2. \A q \in Replica : recvTask'[q] => fdConn[sock'[q]] # 0
    BY <1>1, <1>2, <1>3 DEF TypeOK
  <2>3. \A q \in Replica : /\ reading[q] # None => recvTask'[q]
                           /\ sending[q] # None => sendTask'[q]
    BY <1>1, <1>2, <1>3 DEF TypeOK
  <2> QED  BY <1>1, <1>3, <2>1, <2>2, <2>3 DEF TypeOK
<1>6. ConnectedReads'  BY <1>1, <1>3 DEF SocketInv, ConnectedReads, TypeOK
<1>7. RecvOwns'
  BY <1>1, <1>2, <1>3, <1>4 DEF SocketInv, RecvOwns, TypeOK
<1>8. AcceptedApart'  BY <1>3 DEF AcceptedApart
<1> QED  BY <1>5, <1>6, <1>7, <1>8 DEF SocketInv

\* The descriptor that is closed is no other server's, and not the one just
\* accepted.
LEMMA SocketEndRecv ==
    ASSUME SocketInv, NEW r \in Replica, EndRecv(r)
    PROVE  SocketInv'
<1> USE DEF EndRecv
<1>1. TypeOK  BY DEF SocketInv
<1>2. sock[r] \in Fd /\ fdConn[sock[r]] # 0 /\ owner[fdConn[sock[r]]] = r
      /\ sock[r] # accepted
  BY DEF SocketInv, RecvOwns, AcceptedApart
<1>3. /\ fdConn' \in [Fd -> Conn \cup {0}]
      /\ \A fd \in Fd : fd # sock[r] => fdConn'[fd] = fdConn[fd]
  BY <1>1, <1>2 DEF TypeOK
<1>4. /\ recvTask' \in [Replica -> BOOLEAN] /\ connected' \in [Replica -> BOOLEAN]
      /\ \A q \in Replica : recvTask'[q] => q # r /\ recvTask[q]
  BY <1>1 DEF TypeOK
<1>5. ASSUME NEW q \in Replica, recvTask'[q]
      PROVE  /\ sock[q] \in Fd /\ fdConn'[sock[q]] # 0
             /\ owner[fdConn'[sock[q]]] = q
  <2>1. sock[q] \in Fd /\ fdConn[sock[q]] # 0 /\ owner[fdConn[sock[q]]] = q
    BY <1>4, <1>5 DEF SocketInv, RecvOwns
  <2>2. sock[q] # sock[r]  BY <1>2, <1>4, <1>5, <2>1
  <2> QED  BY <1>3, <2>1, <2>2
<1>6. TypeOK'
  <2>1. accepted # 0 => fdConn'[accepted] # 0  BY <1>1, <1>2, <1>3 DEF TypeOK
  <2>2. \A q \in Replica : reading[q] # None => recvTask'[q]
    BY <1>1 DEF TypeOK
  <2> QED  BY <1>1, <1>3, <1>4, <1>5, <2>1, <2>2 DEF TypeOK
<1>7. ConnectedReads'  BY <1>1 DEF SocketInv, ConnectedReads, TypeOK
<1>8. RecvOwns'  BY <1>5 DEF RecvOwns
<1>9. AcceptedApart'  BY <1>4 DEF SocketInv, AcceptedApart
<1> QED  BY <1>6, <1>7, <1>8, <1>9 DEF SocketInv

\* What the threads do with messages.
LEMMA SocketMessages ==
    ASSUME SocketInv, NEW r \in Replica,
           ReadMessage(r) \/ Enqueue(r) \/ TakeNext(r) \/ WriteMessage(r)
               \/ EndSend(r) \/ Toggle(r)
    PROVE  SocketInv'
<1>1. TypeOK  BY DEF SocketInv
<1>2. CASE ReadMessage(r)
  <2> DEFINE c == fdConn[sock[r]]
  <2>1. c \in Conn /\ up[c] \in Seq(Message) /\ up[c] # <<>>
    <3>1. sock[r] \in Fd /\ c # 0
      BY <1>2 DEF SocketInv, RecvOwns, ReadMessage
    <3>2. c \in Conn  BY <1>1, <3>1 DEF TypeOK
    <3> QED  BY <1>1, <1>2, <3>2 DEF ReadMessage, TypeOK
  <2>2. Head(up[c]) \in Message /\ Tail(up[c]) \in Seq(Message)  BY <2>1
  <2>3. /\ up' = [up EXCEPT ![c] = Tail(@)] /\ recvTask[r]
        /\ \E x \in {None, Head(up[c])} : reading' = [reading EXCEPT ![r] = x]
    BY <1>2 DEF ReadMessage
  <2> HIDE DEF c
  <2>4. up' \in [Conn -> Seq(Message)]
    BY <1>1, <2>1, <2>2, <2>3 DEF TypeOK
  <2>5. reading' \in [Replica -> Message \cup {None}]
        /\ \A q \in Replica : reading'[q] # None => recvTask[q]
    BY <1>1, <2>2, <2>3 DEF TypeOK
  <2>6. TypeOK'  BY <1>1, <1>2, <2>4, <2>5 DEF ReadMessage, TypeOK
  <2> QED  BY <1>2, <2>6, SocketFrame DEF ReadMessage
<1>3. CASE Enqueue(r)
  <2>1. reading[r] \in Message  BY <1>1, <1>3 DEF Enqueue, TypeOK
  <2>2. reading[r].to \in Replica  BY <2>1 DEF Message
  <2>3. Append(queue[reading[r].to], reading[r]) \in Seq(Message)
    BY <1>1, <2>1, <2>2 DEF TypeOK
  <2>4. queue' \in [Replica -> Seq(Message)]
    BY <1>1, <1>3, <2>2, <2>3 DEF Enqueue, TypeOK
  <2>5. TypeOK'  BY <1>1, <1>3, <2>4 DEF Enqueue, TypeOK
  <2> QED  BY <1>3, <2>5, SocketFrame DEF Enqueue
<1>4. CASE TakeNext(r)
  <2>1. queue[r] \in Seq(Message) /\ queue[r] # <<>>
    BY <1>1, <1>4 DEF TakeNext, TypeOK
  <2>2. Head(queue[r]) \in Message /\ Tail(queue[r]) \in Seq(Message)  BY <2>1
  <2>3. queue' \in [Replica -> Seq(Message)]
    BY <1>1, <1>4, <2>2 DEF TakeNext, TypeOK
  <2>4. sending' \in [Replica -> Message \cup {None}]
        /\ \A q \in Replica : sending'[q] # None => sendTask[q]
    BY <1>1, <1>4, <2>2 DEF TakeNext, TypeOK
  <2>5. TypeOK'  BY <1>1, <1>4, <2>3, <2>4 DEF TakeNext, TypeOK
  <2> QED  BY <1>4, <2>5, SocketFrame DEF TakeNext
<1>5. CASE WriteMessage(r)
  <2>1. sending[r] \in Message /\ strays' \in Nat
    BY <1>1, <1>5 DEF WriteMessage, TypeOK
  <2>2. sending' \in [Replica -> Message \cup {None}]
        /\ \A q \in Replica : sending'[q] # None => sendTask[q]
    BY <1>1, <1>5 DEF WriteMessage, TypeOK
  <2>3. down' \in [Conn -> Seq(Message)]
    <3> DEFINE c == IF sock[r] = 0 THEN 0 ELSE fdConn[sock[r]]
    <3>1. c \in Conn \cup {0}  BY <1>1 DEF TypeOK
    <3>2. \/ down' = down
          \/ /\ c # 0
             /\ down' = [down EXCEPT ![c] = Append(down[c], sending[r])]
      <4> DEFINE reaches == ~partitioned[r] /\ c # 0 /\ c \notin gone
      <4>1. down' = IF reaches
                    THEN [down EXCEPT ![c] = Append(down[c], sending[r])]
                    ELSE down
        BY <1>5, Zenon DEF WriteMessage
      <4> HIDE DEF c
      <4> QED  BY <4>1
    <3> HIDE DEF c
    <3>3. down \in [Conn -> Seq(Message)]  BY <1>1 DEF TypeOK
    <3>4. ASSUME c # 0 PROVE Append(down[c], sending[r]) \in Seq(Message)
      <4>1. down[c] \in Seq(Message)  BY <3>1, <3>3, <3>4
      <4> QED  BY <2>1, <4>1
    <3> QED  BY <3>1, <3>2, <3>3, <3>4
  <2>4. TypeOK'  BY <1>1, <1>5, <2>1, <2>2, <2>3 DEF WriteMessage, TypeOK
  <2> QED  BY <1>5, <2>4, SocketFrame DEF WriteMessage
<1>6. CASE EndSend(r)
  <2>1. TypeOK'  BY <1>1, <1>6 DEF EndSend, TypeOK
  <2> QED  BY <1>6, <2>1, SocketFrame DEF EndSend
<1>7. CASE Toggle(r)
  <2>1. TypeOK'  BY <1>1, <1>7 DEF Toggle, TypeOK
  <2> QED  BY <1>7, <2>1, SocketFrame DEF Toggle
<1> QED  BY <1>2, <1>3, <1>4, <1>5, <1>6, <1>7

\* Every step leaves sockets apart.
LEMMA SocketNext ==
    ASSUME SocketInv, [Next]_vars
    PROVE  SocketInv'
<1>1. CASE UNCHANGED vars
  <2>1. TypeOK'  BY <1>1 DEF vars, SocketInv, TypeOK
  <2> QED  BY <1>1, <2>1, SocketFrame DEF vars
<1> QED
  BY <1>1, SocketConnect, SocketServer, SocketAccept, SocketInstall,
     SocketEndRecv, SocketMessages
  DEF Next

-----------------------------------------------------------------------------
(* The count of strays.                                                    *)

\* What is counted is finite.
LEMMA FiniteCounts ==
    ASSUME NEW n \in Nat, NEW G \in SUBSET (1 .. n), NEW E \in SUBSET G,
           NEW A \in SUBSET Replica
    PROVE  /\ IsFiniteSet(G) /\ IsFiniteSet(E) /\ IsFiniteSet(A)
           /\ Cardinality(G) \in Nat /\ Cardinality(E) \in Nat
           /\ Cardinality(A) \in Nat
<1>1. IsFiniteSet(1 .. n)  BY FS_Interval
<1>2. IsFiniteSet(G)  BY <1>1, FS_Subset
<1>3. IsFiniteSet(E)  BY <1>2, FS_Subset
<1>4. IsFiniteSet(A)  BY FS_Subset
<1> QED  BY <1>2, <1>3, <1>4, FS_CardinalityType

LEMMA CountsAreFinite ==
    ASSUME TypeOK
    PROVE  /\ IsFiniteSet(gone) /\ IsFiniteSet(Ended) /\ IsFiniteSet(Astray)
           /\ Cardinality(gone) \in Nat /\ Cardinality(Ended) \in Nat
           /\ Cardinality(Astray) \in Nat /\ strays \in Nat
<1>1. Len(owner) \in Nat /\ gone \subseteq 1 .. Len(owner) /\ strays \in Nat
  BY SMTT(30) DEF TypeOK
<1>2. Ended \subseteq gone /\ Astray \subseteq Replica  BY DEF Ended, Astray
<1> QED  BY <1>1, <1>2, FiniteCounts

LEMMA CountsStayFinite ==
    ASSUME TypeOK'
    PROVE  /\ IsFiniteSet(Ended')
           /\ Cardinality(Ended') \in Nat /\ Cardinality(Astray') \in Nat
<1>1. Len(owner') \in Nat /\ gone' \subseteq 1 .. Len(owner')  BY SMTT(30) DEF TypeOK
<1>2. Ended' \subseteq gone' /\ Astray' \subseteq Replica  BY DEF Ended, Astray
<1> QED  BY <1>1, <1>2, FiniteCounts

\* No message more can go astray, and no ended connection is forgotten.
LEMMA CountKept ==
    ASSUME MeshInv, TypeOK', strays' = strays,
           Ended \subseteq Ended', Astray' \subseteq Astray
    PROVE  StraysCounted'
<1>1. TypeOK  BY DEF MeshInv, SocketInv
<1>2. Cardinality(Ended) <= Cardinality(Ended')
  BY CountsStayFinite, FS_Subset
<1>3. Cardinality(Astray') <= Cardinality(Astray)
  BY <1>1, CountsAreFinite, FS_Subset
<1> QED
  BY <1>1, <1>2, <1>3, CountsAreFinite, CountsStayFinite
  DEF MeshInv, StraysCounted

\* A step that leaves waiting connections and descriptors alone and sends
\* nothing astray.
LEMMA CountFrame ==
    ASSUME MeshInv, SocketInv',
           UNCHANGED <<owner, backlog, fdConn, strays>>, gone \subseteq gone',
           \A r \in Replica : connected[r] => connected'[r],
           \A r \in Replica :
               sending'[r] # None => sending[r] # None \/ connected'[r]
    PROVE  MeshInv'
<1>1. ConnsApart'  BY DEF MeshInv, ConnsApart, Waits, Open
<1>2. Ended \subseteq Ended'  BY DEF Ended, Waits, Open
<1>3. Astray' \subseteq Astray  BY DEF Astray
<1>4. StraysCounted'  BY <1>2, <1>3, CountKept DEF SocketInv
<1> QED  BY <1>1, <1>4 DEF MeshInv

\* One lemma for each kind of step: strays are counted.
LEMMA CountConnect ==
    ASSUME MeshInv, SocketInv', NEW r \in Replica, Connect(r)
    PROVE  MeshInv'
<1> USE DEF Connect
<1> DEFINE n == Len(owner) + 1
<1>1. TypeOK /\ TypeOK'  BY DEF MeshInv, SocketInv
<1>2. /\ Conn = 1 .. Len(owner) /\ n \notin Conn /\ Conn' = Conn \cup {n}
      /\ n # 0
  <2>1. owner \in Seq(Replica) /\ owner' \in Seq(Replica)
        /\ Len(owner') = Len(owner) + 1
    BY <1>1 DEF TypeOK
  <2>2. Len(owner) \in Nat /\ Conn = 1 .. Len(owner) /\ Conn' = 1 .. n
    BY <2>1
  <2> QED  BY <2>2
<1>3. /\ Len(backlog') = Len(backlog) + 1 /\ Len(backlog) \in Nat
      /\ backlog'[Len(backlog) + 1] = n
      /\ \A k \in 1 .. Len(backlog) :
            backlog'[k] = backlog[k] /\ backlog[k] \in Conn
  BY <1>1, SMTT(30) DEF TypeOK
<1>4. fdConn' = fdConn /\ \A fd \in Fd : fdConn[fd] # n
  BY <1>1, <1>2 DEF TypeOK
<1> HIDE DEF n
<1>5. \A c \in Conn : (Waits(c)' <=> Waits(c)) /\ (Open(c)' <=> Open(c))
  <2> SUFFICES ASSUME NEW c \in Conn PROVE Waits(c)' <=> Waits(c)
    BY <1>4 DEF Open
  <2>1. c # n  BY <1>2
  <2> QED  BY <1>3, <2>1 DEF Waits
<1>6. ConnsApart'
  <2>1. ASSUME NEW k \in 1 .. Len(backlog'), NEW l \in 1 .. Len(backlog'),
               backlog'[k] = backlog'[l]
        PROVE  k = l
    <3>1. \A i \in 1 .. Len(backlog) : backlog'[i] # n  BY <1>2, <1>3
    <3>2. CASE k = Len(backlog) + 1 \/ l = Len(backlog) + 1
      BY <1>3, <2>1, <3>1, <3>2
    <3>3. CASE k \in 1 .. Len(backlog) /\ l \in 1 .. Len(backlog)
      BY <1>3, <2>1, <3>3 DEF MeshInv, ConnsApart
    <3> QED  BY <1>3, <3>2, <3>3
  <2>2. \A c \in Conn' : Waits(c)' => ~Open(c)'
    <3> SUFFICES ASSUME NEW c \in Conn', Waits(c)' PROVE ~Open(c)'
      OBVIOUS
    <3>1. CASE c = n  BY <1>4, <3>1 DEF Open
    <3>2. CASE c \in Conn  BY <1>5, <3>2 DEF MeshInv, ConnsApart
    <3> QED  BY <1>2, <3>1, <3>2
  <2> QED  BY <1>4, <2>1, <2>2 DEF MeshInv, ConnsApart
<1>7. Ended \subseteq Ended'
  BY <1>1, <1>5 DEF Ended, TypeOK
<1>8. Astray' \subseteq Astray  BY DEF Astray
<1> QED  BY <1>1, <1>6, <1>7, <1>8, CountKept DEF MeshInv

LEMMA CountAccept ==
    ASSUME MeshInv, SocketInv', Accept
    PROVE  MeshInv'
<1> DEFINE c == Head(backlog)
           fd == CHOOSE x \in Free : \A y \in Free : x <= y
<1>1. TypeOK /\ TypeOK'  BY DEF MeshInv, SocketInv
<1>2. fd \in Fd /\ fdConn[fd] = 0  BY <1>1, LowestFree DEF Accept, Free
<1>3. /\ Len(backlog) \in Nat /\ Len(backlog) # 0 /\ c = backlog[1]
      /\ Len(backlog') = Len(backlog) - 1
      /\ \A k \in 1 .. Len(backlog') : backlog'[k] = backlog[k + 1]
      /\ \A k \in 1 .. Len(backlog) : backlog[k] \in Conn
      /\ \A k \in 1 .. Len(backlog) : backlog[k] # 0
  <2>1. backlog \in Seq(Conn) /\ backlog # <<>> /\ owner \in Seq(Replica)
    BY <1>1 DEF TypeOK, Accept
  <2> QED  BY <2>1 DEF Accept
<1> HIDE DEF c, fd
<1>4. /\ \/ gone' = gone \cup {c} /\ fdConn' = fdConn
         \/ gone' = gone /\ fdConn' = [fdConn EXCEPT ![fd] = c]
      /\ UNCHANGED <<server, owner, down, info, tasks, toggles, strays>>
  BY DEF Accept, c, fd
<1>5. \A d : Waits(d)' <=> Waits(d) /\ d # c
  <2> SUFFICES ASSUME NEW d PROVE Waits(d)' <=> Waits(d) /\ d # c
    OBVIOUS
  <2>1. ASSUME NEW k \in 1 .. Len(backlog'), backlog'[k] = d
        PROVE  Waits(d) /\ d # c
    <3>1. k + 1 \in 1 .. Len(backlog) /\ k + 1 # 1 /\ backlog[k + 1] = d
      BY <1>3, <2>1
    <3>2. 1 \in 1 .. Len(backlog) /\ backlog[k + 1] # backlog[1]
      BY <1>3, <3>1 DEF MeshInv, ConnsApart
    <3> QED  BY <1>3, <3>1, <3>2 DEF Waits
  <2>2. ASSUME NEW k \in 1 .. Len(backlog), backlog[k] = d, d # c
        PROVE  Waits(d)'
    <3>1. k - 1 \in 1 .. Len(backlog') /\ backlog'[k - 1] = d
      BY <1>3, <2>2
    <3> QED  BY <3>1 DEF Waits
  <2> QED  BY <2>1, <2>2 DEF Waits
<1>6. Waits(c) /\ c \in Conn /\ c # 0 /\ ~Open(c)
  <2>1. 1 \in 1 .. Len(backlog)  BY <1>3
  <2> QED  BY <1>3, <2>1 DEF Waits, MeshInv, ConnsApart
<1>7. \A d \in Conn : Open(d)' => Open(d) \/ d = c
  BY <1>1, <1>2, <1>4 DEF Open, TypeOK
<1>8. ConnsApart'
  <2>1. \A k, l \in 1 .. Len(backlog') : backlog'[k] = backlog'[l] => k = l
    <3> SUFFICES ASSUME NEW k \in 1 .. Len(backlog'),
                        NEW l \in 1 .. Len(backlog'), backlog'[k] = backlog'[l]
                 PROVE  k = l
      OBVIOUS
    <3>1. k + 1 \in 1 .. Len(backlog) /\ l + 1 \in 1 .. Len(backlog)
          /\ backlog[k + 1] = backlog[l + 1]
      BY <1>3
    <3>2. k + 1 = l + 1  BY <3>1 DEF MeshInv, ConnsApart
    <3> QED  BY <3>2
  <2>2. \A d \in Conn' : Waits(d)' => ~Open(d)'
    BY <1>4, <1>5, <1>7 DEF MeshInv, ConnsApart
  <2>3. \A f, g \in Fd : fdConn'[f] = fdConn'[g] /\ fdConn'[f] # 0 => f = g
    <3>1. CASE fdConn' = fdConn  BY <3>1 DEF MeshInv, ConnsApart
    <3>2. CASE fdConn' = [fdConn EXCEPT ![fd] = c]
      <4>1. fdConn'[fd] = c /\ \A f \in Fd \ {fd} : fdConn'[f] = fdConn[f]
        BY <1>1, <1>2, <3>2 DEF TypeOK
      <4>2. \A f \in Fd : fdConn[f] # c  BY <1>6 DEF Open
      <4> QED  BY <4>1, <4>2 DEF MeshInv, ConnsApart
    <3> QED  BY <1>4, <3>1, <3>2
  <2> QED  BY <2>1, <2>2, <2>3 DEF ConnsApart
<1>9. Ended \subseteq Ended'
  <2>1. \A d \in Ended : d \in Conn /\ d # c
    BY <1>1, <1>6 DEF Ended, TypeOK
  <2> QED  BY <1>4, <1>5, <1>7, <2>1 DEF Ended
<1>10. Astray' \subseteq Astray  BY <1>4 DEF Astray
<1> QED  BY <1>1, <1>4, <1>8, <1>9, <1>10, CountKept DEF MeshInv

LEMMA CountInstall ==
    ASSUME MeshInv, SocketInv', Install
    PROVE  MeshInv'
<1>1. TypeOK  BY DEF MeshInv, SocketInv
<1>2. \A r \in Replica : connected[r] => connected'[r]
  BY <1>1 DEF Install, TypeOK
<1> QED  BY <1>2, CountFrame DEF Install

\* One more connection is ended, one more message may go astray.
LEMMA CountEndRecv ==
    ASSUME MeshInv, SocketInv', NEW r \in Replica, EndRecv(r)
    PROVE  MeshInv'
<1> USE DEF EndRecv
<1> DEFINE c == fdConn[sock[r]]
<1>1. TypeOK /\ TypeOK'  BY DEF MeshInv, SocketInv
<1>2. sock[r] \in Fd /\ c # 0 /\ c \in gone
  BY DEF MeshInv, SocketInv, RecvOwns
<1>3. Open(c) /\ c \in Conn  BY <1>1, <1>2 DEF Open, TypeOK
<1>4. ~Waits(c)  BY <1>3 DEF MeshInv, ConnsApart
<1>5. \A fd \in Fd : fdConn'[fd] = IF fd = sock[r] THEN 0 ELSE fdConn[fd]
  BY <1>1 DEF TypeOK
<1>6. \A fd \in Fd : fdConn'[fd] # c
  BY <1>2, <1>5 DEF MeshInv, ConnsApart
<1> HIDE DEF c
<1>7. \A d : d # 0 /\ Open(d)' => Open(d)  BY <1>5 DEF Open
<1>8. ConnsApart'
  <2>1. \A f, g \in Fd : fdConn'[f] = fdConn'[g] /\ fdConn'[f] # 0 => f = g
    BY <1>5 DEF MeshInv, ConnsApart
  <2>2. \A d \in Conn : d # 0  BY <1>1 DEF TypeOK
  <2>3. \A d : Waits(d)' <=> Waits(d)  BY DEF Waits
  <2>4. \A d \in Conn' : Waits(d)' => ~Open(d)'
    BY <1>7, <2>2, <2>3 DEF MeshInv, ConnsApart
  <2> QED  BY <2>1, <2>4 DEF MeshInv, ConnsApart
<1>9. Ended \cup {c} \subseteq Ended' /\ c \notin Ended
  <2>1. \A d \in gone : d # 0  BY <1>1 DEF TypeOK
  <2> QED
    BY <1>2, <1>3, <1>4, <1>6, <1>7, <2>1 DEF Ended, Waits, Open
<1>10. Astray' \subseteq Astray \cup {r}
  BY <1>1 DEF Astray, TypeOK
<1>11. Cardinality(Ended) + 1 <= Cardinality(Ended')
  <2>1. Cardinality(Ended \cup {c}) = Cardinality(Ended) + 1
    BY <1>1, <1>9, CountsAreFinite, FS_AddElement
  <2> QED  BY <1>1, <1>9, <2>1, CountsStayFinite, FS_Subset
<1>12. Cardinality(Astray') <= Cardinality(Astray) + 1
  <2>1. IsFiniteSet(Astray \cup {r})
        /\ Cardinality(Astray \cup {r}) <= Cardinality(Astray) + 1
    <3>1. IsFiniteSet(Astray) /\ Cardinality(Astray) \in Nat
      BY <1>1, CountsAreFinite
    <3>2. /\ IsFiniteSet(Astray \cup {r})
          /\ Cardinality(Astray \cup {r}) =
                IF r \in Astray THEN Cardinality(Astray)
                ELSE Cardinality(Astray) + 1
      BY <3>1, FS_AddElement
    <3> QED  BY <3>1, <3>2
  <2>2. Cardinality(Astray') <= Cardinality(Astray \cup {r})
    BY <1>10, <2>1, FS_Subset
  <2>3. Cardinality(Astray \cup {r}) \in Nat  BY <2>1, FS_CardinalityType
  <2> QED  BY <1>1, <2>1, <2>2, <2>3, CountsAreFinite, CountsStayFinite
<1>13. StraysCounted'
  BY <1>1, <1>11, <1>12, CountsAreFinite, CountsStayFinite
  DEF MeshInv, StraysCounted
<1> QED  BY <1>8, <1>13 DEF MeshInv

\* A message goes astray only if its server does not count as connected.
LEMMA CountWrite ==
    ASSUME MeshInv, SocketInv', NEW r \in Replica, WriteMessage(r)
    PROVE  MeshInv'
<1>1. TypeOK /\ TypeOK'  BY DEF MeshInv, SocketInv
<1>2. /\ sending[r] # None /\ sending' = [sending EXCEPT ![r] = None]
      /\ UNCHANGED <<owner, gone, backlog, fdConn, connected>>
  BY DEF WriteMessage
<1>3. CASE strays' = strays
  BY <1>1, <1>2, <1>3, CountFrame DEF TypeOK
<1>4. CASE strays' # strays
  <2>1. strays' = strays + 1 /\ owner[fdConn[sock[r]]] # r
    BY <1>4 DEF WriteMessage
  <2>2. ~connected[r]
    BY <2>1 DEF MeshInv, SocketInv, ConnectedReads, RecvOwns
  <2>3. r \in Astray /\ Astray' = Astray \ {r}
    BY <1>1, <1>2, <2>2 DEF Astray, TypeOK
  <2>4. Cardinality(Astray') = Cardinality(Astray) - 1
    BY <1>1, <2>3, CountsAreFinite, FS_RemoveElement
  <2>5. Ended' = Ended  BY <1>2 DEF Ended, Waits, Open
  <2>6. StraysCounted'
    BY <1>1, <2>1, <2>4, <2>5, CountsAreFinite DEF MeshInv, StraysCounted
  <2>7. ConnsApart'  BY <1>2 DEF MeshInv, ConnsApart, Waits, Open
  <2> QED  BY <2>6, <2>7 DEF MeshInv
<1> QED  BY <1>3, <1>4

\* The invariant holds when the mesh starts.
LEMMA MeshStart == ASSUME Init PROVE MeshInv
<1>1. SocketInv  BY SocketInit
<1>2. backlog = <<>> /\ Len(backlog) = 0 /\ Conn = {}  BY DEF Init
<1>3. ConnsApart  BY <1>2 DEF Init, ConnsApart
<1>4. Ended = {} /\ Astray = {}  BY DEF Init, Ended, Astray
<1>5. StraysCounted  BY <1>4, FS_EmptySet DEF Init, StraysCounted
<1> QED  BY <1>1, <1>3, <1>5 DEF MeshInv

\* Every step of the mesh keeps the invariant.
LEMMA MeshNext == ASSUME MeshInv, [Next]_vars PROVE MeshInv'
<1>1. TypeOK /\ SocketInv'  BY SocketNext DEF MeshInv, SocketInv
<1>2. ASSUME NEW r \in Replica, Connect(r) PROVE MeshInv'
  BY <1>1, <1>2, CountConnect
<1>3. CASE Accept  BY <1>1, <1>3, CountAccept
<1>4. CASE Install  BY <1>1, <1>4, CountInstall
<1>5. ASSUME NEW r \in Replica, EndRecv(r) PROVE MeshInv'
  BY <1>1, <1>5, CountEndRecv
<1>6. ASSUME NEW r \in Replica, WriteMessage(r) PROVE MeshInv'
  BY <1>1, <1>6, CountWrite
<1>7. ASSUME NEW r \in Replica,
             ServerReceive(r) \/ ServerCrash(r)
                 \/ \E to \in Replica : ServerSend(r, to)
      PROVE  MeshInv'
  BY <1>1, <1>7, CountFrame DEF ServerReceive, ServerCrash, ServerSend
<1>8. ASSUME NEW r \in Replica,
             ReadMessage(r) \/ Enqueue(r) \/ EndSend(r) \/ Toggle(r)
      PROVE  MeshInv'
  BY <1>1, <1>8, CountFrame DEF ReadMessage, Enqueue, EndSend, Toggle
<1>9. ASSUME NEW r \in Replica, TakeNext(r) PROVE MeshInv'
  <2>1. \A q \in Replica :
          sending'[q] # None => sending[q] # None \/ connected'[q]
    BY <1>1, <1>9 DEF TakeNext, TypeOK
  <2> QED  BY <1>1, <1>9, <2>1, CountFrame DEF TakeNext
<1>10. CASE UNCHANGED vars  BY <1>1, <1>10, CountFrame DEF vars
<1> QED
  BY <1>2, <1>3, <1>4, <1>5, <1>6, <1>7, <1>8, <1>9, <1>10 DEF Next

-----------------------------------------------------------------------------
(* Where messages are, and in which order connections are read.            *)

\* A message comes up its sender's connection and is queued for its receiver.
UpFrom == \A c \in Conn : \A k \in 1 .. Len(up[c]) : up[c][k].from = owner[c]
ReadFrom == \A r \in Replica : reading[r] # None => reading[r].from = r
QueuedTo ==
    \A r \in Replica :
        /\ \A k \in 1 .. Len(queue[r]) : queue[r][k].to = r
        /\ sending[r] # None => sending[r].to = r

MessagesPlaced == UpFrom /\ ReadFrom /\ QueuedTo

\* A server's connection is its last one, and the mesh cannot write to another.
CurIsLast ==
    /\ \A r \in Replica : cur[r] # 0 =>
         owner[cur[r]] = r /\ \A c \in Conn : owner[c] = r => c <= cur[r]
    /\ \A c \in Conn : cur[owner[c]] # c => c \in gone

\* Connections are accepted in the order in which they are made.
AcceptedInOrder ==
    /\ \A k, l \in 1 .. Len(backlog) : k < l => backlog[k] < backlog[l]
    /\ \A k \in 1 .. Len(backlog), fd \in Fd : fdConn[fd] < backlog[k]
    /\ accepted # 0 => \A fd \in Fd : fdConn[fd] <= fdConn[accepted]

OpenIsUsed ==
    \A fd \in Fd : fdConn[fd] # 0 =>
        fd = accepted \/ \E r \in Replica : recvTask[r] /\ sock[r] = fd

\* What is left of a connection when its descriptor is closed.
EndedIsDry ==
    \A c \in Conn : ~Waits(c) /\ ~Open(c) => up[c] = <<>> /\ c \in gone

ConnsOrdered == CurIsLast /\ AcceptedInOrder /\ OpenIsUsed /\ EndedIsDry

FifoInv == MeshInv /\ MessagesPlaced /\ ConnsOrdered

\* What TypeOK says of the elements.
LEMMA Typed ==
    ASSUME TypeOK
    PROVE  /\ Len(owner) \in Nat /\ Conn = 1 .. Len(owner)
           /\ \A c \in Conn : owner[c] \in Replica /\ c # 0
           /\ \A c \in Conn : up[c] \in Seq(Message) /\ down[c] \in Seq(Message)
           /\ \A r \in Replica : queue[r] \in Seq(Message)
           /\ \A r \in Replica : cur[r] # 0 => cur[r] \in Conn
           /\ Len(backlog) \in Nat
           /\ \A k \in 1 .. Len(backlog) : backlog[k] \in Conn
<1>1. owner \in Seq(Replica) /\ backlog \in Seq(Conn)  BY DEF TypeOK
<1>2. /\ Len(owner) \in Nat /\ Conn = 1 .. Len(owner) /\ Len(backlog) \in Nat
      /\ \A k \in 1 .. Len(backlog) : backlog[k] \in Conn
      /\ \A c \in Conn : owner[c] \in Replica /\ c # 0
  BY ONLY <1>1
<1>3. /\ \A c \in Conn : up[c] \in Seq(Message) /\ down[c] \in Seq(Message)
      /\ \A r \in Replica : queue[r] \in Seq(Message)
      /\ \A r \in Replica : cur[r] # 0 => cur[r] \in Conn
  BY DEF TypeOK
<1> QED  BY ONLY <1>2, <1>3

\* One lemma for each kind of step: messages stay in their places.
LEMMA PlacedFrame ==
    ASSUME MessagesPlaced, TypeOK,
           UNCHANGED <<owner, up, reading, queue, sending>>
    PROVE  MessagesPlaced'
BY DEF MessagesPlaced, UpFrom, ReadFrom, QueuedTo

\* A table with an entry for each connection is a sequence, which a new one
\* makes longer.
LEMMA Tables ==
    ASSUME NEW n \in Nat, NEW S, NEW t \in [1 .. n -> Seq(S)]
    PROVE  /\ t \in Seq(Seq(S)) /\ Len(t) = n
           /\ \A k \in 1 .. n : Append(t, <<>>)[k] = t[k]
           /\ Append(t, <<>>)[n + 1] = <<>>
           /\ Append(t, <<>>) \in Seq(Seq(S))
<1> DEFINE T == Seq(S)
           e == <<>>
<1>1. e \in T /\ t \in [1 .. n -> T]  OBVIOUS
<1> HIDE DEF T, e
<1>2. t \in Seq(T) /\ Len(t) = n  BY <1>1
<1>3. /\ \A k \in 1 .. n : Append(t, e)[k] = t[k]
      /\ Append(t, e)[n + 1] = e
      /\ Append(t, e) \in Seq(T)
  BY ONLY <1>1, <1>2, n \in Nat
<1> QED  BY <1>2, <1>3 DEF T, e

LEMMA PlacedConnect ==
    ASSUME MessagesPlaced, TypeOK, NEW r \in Replica, Connect(r)
    PROVE  MessagesPlaced'
<1> DEFINE n == Len(owner)
<1>1. /\ owner' = Append(owner, r) /\ up' = Append(up, <<>>)
      /\ UNCHANGED <<reading, queue, sending>>
  BY DEF Connect
<1>2. n \in Nat /\ owner \in Seq(Replica) /\ up \in [1 .. n -> Seq(Message)]
      /\ Conn = 1 .. n /\ Conn' = 1 .. n + 1
  <2>1. owner \in Seq(Replica) /\ owner' \in Seq(Replica) /\ Len(owner') = n + 1
    BY <1>1 DEF TypeOK
  <2>2. up \in [Conn -> Seq(Message)]  BY DEF TypeOK
  <2>3. Conn = 1 .. n /\ Conn' = 1 .. n + 1 /\ n \in Nat  BY <2>1
  <2> QED  BY <2>1, <2>2, <2>3
<1>3. UpFrom'
  <2> SUFFICES ASSUME NEW c \in 1 .. n + 1, NEW k \in 1 .. Len(up'[c])
               PROVE  up'[c][k].from = owner'[c]
    BY <1>2 DEF UpFrom
  <2>1. CASE c \in 1 .. n
    <3>1. owner'[c] = owner[c]  BY <1>1, <1>2, <2>1
    <3>2. up'[c] = up[c]  BY <1>1, <1>2, <2>1, Tables
    <3> QED  BY <1>2, <2>1, <3>1, <3>2 DEF MessagesPlaced, UpFrom
  <2>2. CASE c = n + 1
    <3>1. up'[c] = <<>>  BY <1>1, <1>2, <2>2, Tables
    <3> QED  BY <3>1
  <2>3. c \in 1 .. n \/ c = n + 1  BY <1>2
  <2> QED  BY <2>1, <2>2, <2>3
<1> QED  BY <1>1, <1>3 DEF MessagesPlaced, ReadFrom, QueuedTo

LEMMA PlacedSend ==
    ASSUME MessagesPlaced, TypeOK, MeshInv, CurIsLast,
           NEW r \in Replica, NEW to \in Replica, ServerSend(r, to)
    PROVE  MessagesPlaced'
<1> DEFINE c == cur[r]
           m == [from |-> r, to |-> to, n |-> sent[r][to] + 1]
<1>1. c \in Conn /\ owner[c] = r  BY Typed DEF ServerSend, CurIsLast
<1>2. m \in Message
  <2>1. sent[r][to] + 1 \in 1 .. MaxSent  BY DEF ServerSend, TypeOK
  <2> QED  BY <2>1 DEF Message
<1>3. m.from = r  OBVIOUS
<1>4. up' = [up EXCEPT ![c] = Append(@, m)] /\ up \in [Conn -> Seq(Message)]
      /\ UNCHANGED <<owner, reading, queue, sending>>
  BY DEF ServerSend, TypeOK
<1> HIDE DEF m, c
<1>5. UpFrom'
  <2> SUFFICES ASSUME NEW d \in Conn, NEW k \in 1 .. Len(up'[d])
               PROVE  up'[d][k].from = owner[d]
    BY <1>4 DEF UpFrom
  <2>1. CASE d # c  BY <1>4, <2>1 DEF MessagesPlaced, UpFrom
  <2>2. CASE d = c
    <3>1. up'[d] = Append(up[c], m) /\ up[c] \in Seq(Message)
      BY <1>1, <1>4, <2>2
    <3>2. CASE k \in 1 .. Len(up[c])
      <4>1. up'[d][k] = up[c][k]  BY <1>2, <3>1, <3>2
      <4> QED  BY <1>1, <2>2, <3>2, <4>1 DEF MessagesPlaced, UpFrom
    <3>3. CASE k = Len(up[c]) + 1
      <4>1. up'[d][k] = m  BY <1>2, <3>1, <3>3
      <4> QED  BY <1>1, <1>3, <2>2, <4>1
    <3> QED  BY <1>2, <3>1, <3>2, <3>3
  <2> QED  BY <2>1, <2>2
<1> QED  BY <1>4, <1>5 DEF MessagesPlaced, ReadFrom, QueuedTo

LEMMA PlacedAccept ==
    ASSUME MessagesPlaced, TypeOK, Accept
    PROVE  MessagesPlaced'
<1> DEFINE c == Head(backlog)
<1>1. \/ up' = up
      \/ up' = [up EXCEPT ![c] = <<>>]
  BY DEF Accept
<1>2. UNCHANGED <<owner, reading, queue, sending>>  BY DEF Accept
<1> HIDE DEF c
<1>3. up \in [Conn -> Seq(Message)]  BY DEF TypeOK
<1>4. UpFrom'
  <2> SUFFICES ASSUME NEW d \in Conn, NEW k \in 1 .. Len(up'[d])
               PROVE  up'[d][k].from = owner[d]
    BY <1>2 DEF UpFrom
  <2>1. up'[d] = up[d] \/ up'[d] = <<>>  BY <1>1, <1>3
  <2> QED  BY <2>1 DEF MessagesPlaced, UpFrom
<1> QED  BY <1>2, <1>4 DEF MessagesPlaced, ReadFrom, QueuedTo

LEMMA PlacedRead ==
    ASSUME MessagesPlaced, SocketInv, NEW r \in Replica, ReadMessage(r)
    PROVE  MessagesPlaced'
<1> DEFINE c == fdConn[sock[r]]
<1>1. TypeOK  BY DEF SocketInv
<1>2. c \in Conn /\ owner[c] = r /\ up[c] \in Seq(Message) /\ up[c] # <<>>
  <2>1. sock[r] \in Fd /\ c # 0 /\ owner[c] = r
    BY DEF SocketInv, RecvOwns, ReadMessage
  <2>2. c \in Conn  BY <1>1, <2>1 DEF TypeOK
  <2> QED  BY <1>1, <2>1, <2>2 DEF ReadMessage, TypeOK
<1>3. /\ up' = [up EXCEPT ![c] = Tail(@)]
      /\ \E x \in {None, Head(up[c])} : reading' = [reading EXCEPT ![r] = x]
      /\ UNCHANGED <<owner, queue, sending>>
  BY DEF ReadMessage
<1> HIDE DEF c
<1>4. up \in [Conn -> Seq(Message)] /\ DOMAIN reading = Replica
  BY <1>1 DEF TypeOK
<1>5. UpFrom'
  <2> SUFFICES ASSUME NEW d \in Conn, NEW k \in 1 .. Len(up'[d])
               PROVE  up'[d][k].from = owner[d]
    BY <1>3 DEF UpFrom
  <2>1. CASE d # c  BY <1>3, <1>4, <2>1 DEF MessagesPlaced, UpFrom
  <2>2. CASE d = c
    <3>1. up'[d] = Tail(up[c])  BY <1>2, <1>3, <1>4, <2>2
    <3>2. up'[d][k] = up[c][k + 1] /\ k + 1 \in 1 .. Len(up[c])
      BY <1>2, <3>1
    <3> QED  BY <1>2, <2>2, <3>2 DEF MessagesPlaced, UpFrom
  <2> QED  BY <2>1, <2>2
<1>6. Head(up[c]).from = r
  <2>1. Head(up[c]) = up[c][1] /\ 1 \in 1 .. Len(up[c])  BY <1>2
  <2> QED  BY <1>2, <2>1 DEF MessagesPlaced, UpFrom
<1>7. ReadFrom'
  BY <1>3, <1>4, <1>6 DEF MessagesPlaced, ReadFrom
<1> QED  BY <1>3, <1>5, <1>7 DEF MessagesPlaced, QueuedTo

LEMMA PlacedEnqueue ==
    ASSUME MessagesPlaced, TypeOK, NEW r \in Replica, Enqueue(r)
    PROVE  MessagesPlaced'
<1> DEFINE m == reading[r]
           j == m.to
<1>1. m \in Message  BY DEF Enqueue, TypeOK
<1>2. j \in Replica  BY <1>1 DEF Message
<1>3. /\ queue' = [queue EXCEPT ![j] = Append(@, m)]
      /\ reading' = [reading EXCEPT ![r] = None]
      /\ UNCHANGED <<owner, up, sending>>
  BY DEF Enqueue
<1>4. m.to = j  OBVIOUS
<1> HIDE DEF m, j
<1>5. queue \in [Replica -> Seq(Message)] /\ DOMAIN reading = Replica
  BY DEF TypeOK
<1>6. ASSUME NEW q \in Replica, NEW k \in 1 .. Len(queue'[q])
      PROVE  queue'[q][k].to = q
  <2>1. CASE q # j  BY <1>3, <1>5, <1>6, <2>1 DEF MessagesPlaced, QueuedTo
  <2>2. CASE q = j
    <3>1. queue'[q] = Append(queue[q], m) /\ queue[q] \in Seq(Message)
      BY <1>2, <1>3, <1>5, <2>2
    <3>2. CASE k \in 1 .. Len(queue[q])
      <4>1. queue'[q][k] = queue[q][k]  BY <1>1, <3>1, <3>2
      <4> QED  BY <3>2, <4>1 DEF MessagesPlaced, QueuedTo
    <3>3. CASE k = Len(queue[q]) + 1
      <4>1. queue'[q][k] = m  BY <1>1, <3>1, <3>3
      <4> QED  BY <1>4, <2>2, <4>1
    <3> QED  BY <1>1, <1>6, <3>1, <3>2, <3>3
  <2> QED  BY <2>1, <2>2
<1>7. QueuedTo'  BY <1>3, <1>6 DEF MessagesPlaced, QueuedTo
<1>8. ReadFrom'  BY <1>3, <1>5 DEF MessagesPlaced, ReadFrom
<1> QED  BY <1>3, <1>7, <1>8 DEF MessagesPlaced, UpFrom

LEMMA PlacedQueue ==
    ASSUME MessagesPlaced, TypeOK, NEW r \in Replica,
           TakeNext(r) \/ WriteMessage(r) \/ Install
    PROVE  MessagesPlaced'
<1>1. /\ queue \in [Replica -> Seq(Message)]
      /\ sending \in [Replica -> Message \cup {None}]
      /\ UNCHANGED <<owner, up, reading>>
  BY DEF TypeOK, TakeNext, WriteMessage, Install
<1>2. QueuedTo'
  <2>1. CASE TakeNext(r)
    <3>1. queue[r] \in Seq(Message) /\ queue[r] # <<>>  BY <1>1, <2>1 DEF TakeNext
    <3>2. /\ Head(queue[r]) = queue[r][1] /\ 1 \in 1 .. Len(queue[r])
          /\ \A k \in 1 .. Len(Tail(queue[r])) :
                /\ Tail(queue[r])[k] = queue[r][k + 1]
                /\ k + 1 \in 1 .. Len(queue[r])
      BY <3>1
    <3>3. Head(queue[r]).to = r /\ \A k \in 1 .. Len(Tail(queue[r])) :
                                       Tail(queue[r])[k].to = r
      BY <3>2 DEF MessagesPlaced, QueuedTo
    <3>4. \A q \in Replica : /\ queue'[q] = IF q = r THEN Tail(queue[r]) ELSE queue[q]
                             /\ sending'[q] = IF q = r THEN Head(queue[r]) ELSE sending[q]
      BY <1>1, <2>1 DEF TakeNext
    <3> QED  BY <3>3, <3>4 DEF MessagesPlaced, QueuedTo
  <2>2. CASE WriteMessage(r)
    BY <1>1, <2>2 DEF WriteMessage, MessagesPlaced, QueuedTo
  <2>3. CASE Install
    <3>1. \A q \in Replica : queue'[q] = queue[q] \/ queue'[q] = <<>>
      BY <1>1, <2>3 DEF Install
    <3>2. sending' = sending  BY <2>3 DEF Install
    <3> QED  BY <3>1, <3>2 DEF MessagesPlaced, QueuedTo
  <2> QED  BY <2>1, <2>2, <2>3
<1> QED  BY <1>1, <1>2 DEF MessagesPlaced, UpFrom, ReadFrom

\* Every step leaves messages on their senders' connections and in their
\* receivers' queues.
LEMMA PlacedNext ==
    ASSUME FifoInv, [Next]_vars
    PROVE  MessagesPlaced'
<1>1. MessagesPlaced /\ TypeOK /\ SocketInv /\ MeshInv /\ CurIsLast
  BY DEF FifoInv, MeshInv, SocketInv, ConnsOrdered
<1>2. ASSUME NEW r \in Replica,
             ServerReceive(r) \/ ServerCrash(r) \/ EndRecv(r) \/ EndSend(r)
                 \/ Toggle(r)
      PROVE  MessagesPlaced'
  BY <1>1, <1>2, PlacedFrame
  DEF ServerReceive, ServerCrash, EndRecv, EndSend, Toggle
<1>3. ASSUME NEW r \in Replica, Connect(r) PROVE MessagesPlaced'
  BY <1>1, <1>3, PlacedConnect
<1>4. ASSUME NEW r \in Replica, NEW to \in Replica, ServerSend(r, to)
      PROVE  MessagesPlaced'
  BY <1>1, <1>4, PlacedSend
<1>5. CASE Accept  BY <1>1, <1>5, PlacedAccept
<1>6. ASSUME NEW r \in Replica, ReadMessage(r) PROVE MessagesPlaced'
  BY <1>1, <1>6, PlacedRead
<1>7. ASSUME NEW r \in Replica, Enqueue(r) PROVE MessagesPlaced'
  BY <1>1, <1>7, PlacedEnqueue
<1>8. ASSUME NEW r \in Replica, TakeNext(r) \/ WriteMessage(r)
      PROVE  MessagesPlaced'
  BY <1>1, <1>8, PlacedQueue
<1>9. CASE Install
  <2>1. \E r \in Replica : TRUE  BY <1>1, <1>9, Typed DEF Install, TypeOK
  <2> QED  BY <1>1, <1>9, <2>1, PlacedQueue
<1>10. CASE UNCHANGED vars  BY <1>1, <1>10, PlacedFrame DEF vars
<1> QED
  BY <1>2, <1>3, <1>4, <1>5, <1>6, <1>7, <1>8, <1>9, <1>10 DEF Next

\* A step that leaves the connections' places alone.
LEMMA OrderedFrame ==
    ASSUME ConnsOrdered, gone \subseteq gone',
           UNCHANGED <<owner, cur, backlog, fdConn, accepted, sock, recvTask>>,
           \A c \in Conn : up[c] = <<>> /\ c \in gone => up'[c] = <<>>
    PROVE  ConnsOrdered'
<1>1. EndedIsDry'  BY DEF ConnsOrdered, EndedIsDry, Waits, Open
<1>2. CurIsLast'  BY DEF ConnsOrdered, CurIsLast
<1> QED
  BY <1>1, <1>2 DEF ConnsOrdered, AcceptedInOrder, OpenIsUsed

\* One lemma for each kind of step: connections stay in order.
LEMMA OrderedMessages ==
    ASSUME ConnsOrdered, TypeOK, NEW r \in Replica,
           \/ ServerReceive(r) \/ ReadMessage(r) \/ Enqueue(r) \/ TakeNext(r)
           \/ WriteMessage(r) \/ EndSend(r) \/ Toggle(r)
           \/ \E to \in Replica : ServerSend(r, to)
    PROVE  ConnsOrdered'
<1>1. up \in [Conn -> Seq(Message)]  BY DEF TypeOK
<1>2. CASE ReadMessage(r)
  <2>1. \A c \in Conn : up[c] = <<>> => up'[c] = <<>>
    BY <1>1, <1>2 DEF ReadMessage
  <2> QED  BY <1>2, <2>1, OrderedFrame DEF ReadMessage
<1>3. ASSUME NEW to \in Replica, ServerSend(r, to) PROVE ConnsOrdered'
  <2>1. \A c \in Conn : c \in gone => up'[c] = up[c]
    BY <1>1, <1>3 DEF ServerSend
  <2> QED  BY <1>3, <2>1, OrderedFrame DEF ServerSend
<1>4. CASE ServerReceive(r) \/ Enqueue(r) \/ TakeNext(r) \/ WriteMessage(r)
           \/ EndSend(r) \/ Toggle(r)
  BY <1>4, OrderedFrame
  DEF ServerReceive, Enqueue, TakeNext, WriteMessage, EndSend, Toggle
<1> QED  BY <1>2, <1>3, <1>4

LEMMA OrderedCrash ==
    ASSUME ConnsOrdered, TypeOK, NEW r \in Replica, ServerCrash(r)
    PROVE  ConnsOrdered'
<1> USE DEF ServerCrash
<1>1. \A q \in Replica : cur'[q] = IF q = r THEN 0 ELSE cur[q]  BY DEF TypeOK
<1>2. CurIsLast'
  <2>1. \A q \in Replica : cur'[q] # 0 =>
            owner[cur'[q]] = q /\ \A c \in Conn : owner[c] = q => c <= cur'[q]
    BY <1>1 DEF ConnsOrdered, CurIsLast
  <2>2. ASSUME NEW c \in Conn, cur'[owner[c]] # c PROVE c \in gone'
    <3>1. owner[c] \in Replica  BY Typed
    <3> QED  BY <1>1, <2>2, <3>1 DEF ConnsOrdered, CurIsLast
  <2> QED  BY <2>1, <2>2 DEF CurIsLast
<1>3. EndedIsDry'  BY DEF ConnsOrdered, EndedIsDry, Waits, Open
<1> QED
  BY <1>2, <1>3 DEF ConnsOrdered, AcceptedInOrder, OpenIsUsed

LEMMA OrderedConnect ==
    ASSUME ConnsOrdered, TypeOK, NEW r \in Replica, Connect(r)
    PROVE  ConnsOrdered'
<1> DEFINE m == Len(owner)
           n == m + 1
<1>1. /\ cur[r] = 0 /\ cur' = [cur EXCEPT ![r] = n]
      /\ owner' = Append(owner, r) /\ up' = Append(up, <<>>)
      /\ backlog' = Append(backlog, n)
      /\ UNCHANGED <<gone, fdConn, accepted, sock, recvTask>>
  BY DEF Connect
<1>2. /\ m \in Nat /\ Conn = 1 .. m /\ up \in [1 .. m -> Seq(Message)]
      /\ owner \in Seq(Replica)
  <2>1. owner \in Seq(Replica)  BY DEF TypeOK
  <2>2. Conn = 1 .. m /\ m \in Nat  BY <2>1
  <2>3. up \in [Conn -> Seq(Message)]  BY DEF TypeOK
  <2> QED  BY <2>1, <2>2, <2>3
<1>3. /\ \A c \in 1 .. m : owner'[c] = owner[c]
      /\ owner'[n] = r /\ Conn' = 1 .. n
  <2>1. owner' \in Seq(Replica) /\ Len(owner') = n  BY <1>1, <1>2
  <2>2. \A c \in 1 .. m : owner'[c] = owner[c]  BY <1>1, <1>2
  <2>3. owner'[n] = r  BY <1>1, <1>2
  <2> QED  BY <2>1, <2>2, <2>3
<1>4. \A q \in Replica : cur'[q] = IF q = r THEN n ELSE cur[q]
  BY <1>1 DEF TypeOK
<1>5. /\ Len(backlog) \in Nat /\ Len(backlog') = Len(backlog) + 1
      /\ backlog'[Len(backlog) + 1] = n
      /\ \A k \in 1 .. Len(backlog) :
            backlog'[k] = backlog[k] /\ backlog[k] \in 1 .. m
  <2>1. backlog \in Seq(Conn)  BY DEF TypeOK
  <2> HIDE DEF Conn
  <2> QED  BY <1>1, <1>2, <2>1
<1>6. \A fd \in Fd : fdConn[fd] \in 0 .. m  BY <1>2 DEF TypeOK
<1> HIDE DEF m
<1>7. CurIsLast'
  <2>1. ASSUME NEW q \in Replica, cur'[q] # 0
        PROVE  /\ owner'[cur'[q]] = q
               /\ \A c \in 1 .. n : owner'[c] = q => c <= cur'[q]
    <3>1. CASE q = r
      <4>1. cur'[q] = n  BY <1>4, <3>1
      <4> QED  BY <1>2, <1>3, <3>1, <4>1
    <3>2. CASE q # r
      <4>1. cur'[q] = cur[q] /\ cur[q] # 0  BY <1>4, <2>1, <3>2
      <4>2. cur[q] \in 1 .. m  BY <1>2, <4>1 DEF TypeOK
      <4>3. owner[cur[q]] = q /\ \A c \in 1 .. m : owner[c] = q => c <= cur[q]
        BY <1>2, <4>1 DEF ConnsOrdered, CurIsLast
      <4>4. \A c \in 1 .. n : c \in 1 .. m \/ c = n  BY <1>2
      <4> QED  BY <1>3, <3>2, <4>1, <4>2, <4>3, <4>4
    <3> QED  BY <3>1, <3>2
  <2>2. ASSUME NEW c \in 1 .. n, cur'[owner'[c]] # c PROVE c \in gone
    <3>1. CASE c \in 1 .. m
      <4>1. owner[c] \in Replica /\ owner'[c] = owner[c] /\ c # 0
        BY <1>2, <1>3, <3>1
      <4>2. cur[owner[c]] # c  BY <1>1, <1>4, <2>2, <4>1
      <4> QED  BY <1>2, <3>1, <4>2 DEF ConnsOrdered, CurIsLast
    <3>2. CASE c = n  BY <1>3, <1>4, <2>2, <3>2
    <3> QED  BY <1>2, <3>1, <3>2
  <2> QED  BY <1>1, <1>3, <2>1, <2>2 DEF CurIsLast
<1>8. AcceptedInOrder'
  <2>1. ASSUME NEW k \in 1 .. Len(backlog'), NEW l \in 1 .. Len(backlog'), k < l
        PROVE  backlog'[k] < backlog'[l]
    <3>1. k \in 1 .. Len(backlog)  BY <1>5, <2>1
    <3>2. CASE l = Len(backlog) + 1
      <4>1. backlog'[k] \in 1 .. m /\ backlog'[l] = n  BY <1>5, <3>1, <3>2
      <4> QED  BY <1>2, <4>1
    <3>3. CASE l \in 1 .. Len(backlog)
      BY <1>5, <2>1, <3>1, <3>3 DEF ConnsOrdered, AcceptedInOrder
    <3> QED  BY <1>5, <3>2, <3>3
  <2>2. ASSUME NEW k \in 1 .. Len(backlog'), NEW fd \in Fd
        PROVE  fdConn[fd] < backlog'[k]
    <3>1. CASE k \in 1 .. Len(backlog)
      BY <1>5, <3>1 DEF ConnsOrdered, AcceptedInOrder
    <3>2. CASE k = Len(backlog) + 1
      BY <1>2, <1>5, <1>6, <3>2
    <3> QED  BY <1>5, <3>1, <3>2
  <2> QED  BY <1>1, <2>1, <2>2 DEF ConnsOrdered, AcceptedInOrder
<1>9. EndedIsDry'
  <2> SUFFICES ASSUME NEW c \in 1 .. n, ~Waits(c)', ~Open(c)'
               PROVE  up'[c] = <<>> /\ c \in gone
    BY <1>1, <1>3 DEF EndedIsDry
  <2>1. CASE c = n
    <3>1. Len(backlog) + 1 \in 1 .. Len(backlog')  BY <1>5
    <3> QED  BY <1>5, <2>1, <3>1 DEF Waits
  <2>2. CASE c \in 1 .. m
    <3>1. ~Waits(c) /\ ~Open(c)  BY <1>1, <1>5 DEF Waits, Open
    <3>2. up[c] = <<>> /\ c \in gone
      BY <1>2, <2>2, <3>1 DEF ConnsOrdered, EndedIsDry
    <3> QED  BY <1>1, <1>2, <2>2, <3>2, Tables
  <2> QED  BY <1>2, <2>1, <2>2
<1>10. OpenIsUsed'  BY <1>1 DEF ConnsOrdered, OpenIsUsed
<1> QED  BY <1>7, <1>8, <1>9, <1>10 DEF ConnsOrdered

LEMMA OrderedAccept ==
    ASSUME ConnsOrdered, MeshInv, Accept
    PROVE  ConnsOrdered'
<1> DEFINE c == Head(backlog)
           fd == CHOOSE x \in Free : \A y \in Free : x <= y
<1>1. TypeOK  BY DEF MeshInv, SocketInv
<1>2. fd \in Fd /\ fdConn[fd] = 0 /\ fd # 0  BY <1>1, LowestFree DEF Accept, Free
<1>3. /\ Len(backlog) \in Nat /\ Len(backlog) # 0 /\ c = backlog[1]
      /\ Len(backlog') = Len(backlog) - 1
      /\ \A k \in 1 .. Len(backlog') : backlog'[k] = backlog[k + 1]
      /\ \A k \in 1 .. Len(backlog) : backlog[k] \in Conn
  <2>1. backlog \in Seq(Conn) /\ backlog # <<>>
    BY <1>1 DEF TypeOK, Accept
  <2> HIDE DEF Conn
  <2> QED  BY <2>1 DEF Accept
<1> HIDE DEF c, fd
<1>4. /\ accepted = 0
      /\ \/ /\ gone' = gone \cup {c} /\ up' = [up EXCEPT ![c] = <<>>]
            /\ UNCHANGED <<fdConn, accepted>>
         \/ /\ fdConn' = [fdConn EXCEPT ![fd] = c] /\ accepted' = fd
            /\ UNCHANGED <<gone, up>>
      /\ UNCHANGED <<owner, cur, sock, recvTask>>
  BY DEF Accept, c, fd
<1>5. 1 \in 1 .. Len(backlog) /\ c \in Conn /\ c \in Nat \ {0}
      /\ Conn \subseteq Nat
  BY <1>1, <1>3, Typed
<1>6. \A k \in 1 .. Len(backlog') :
        k + 1 \in 1 .. Len(backlog) /\ k \in Nat /\ c < backlog[k + 1]
  <2> SUFFICES ASSUME NEW k \in 1 .. Len(backlog')
               PROVE  k + 1 \in 1 .. Len(backlog) /\ k \in Nat
                      /\ c < backlog[k + 1]
    OBVIOUS
  <2>1. k + 1 \in 1 .. Len(backlog) /\ k \in Nat /\ 1 < k + 1  BY <1>3
  <2> QED  BY <1>3, <1>5, <2>1 DEF ConnsOrdered, AcceptedInOrder
<1>7. fdConn \in [Fd -> Conn \cup {0}] /\ up \in [Conn -> Seq(Message)]
  BY <1>1 DEF TypeOK
<1>8. \A f \in Fd : fdConn[f] < c
  BY <1>3, <1>5 DEF ConnsOrdered, AcceptedInOrder
<1>9. AcceptedInOrder'
  <2>1. ASSUME NEW k \in 1 .. Len(backlog'), NEW l \in 1 .. Len(backlog'), k < l
        PROVE  backlog'[k] < backlog'[l]
    <3>1. k + 1 \in 1 .. Len(backlog) /\ l + 1 \in 1 .. Len(backlog)
          /\ k + 1 < l + 1
      BY <1>6, <2>1
    <3>2. backlog[k + 1] < backlog[l + 1]
      BY <3>1 DEF ConnsOrdered, AcceptedInOrder
    <3> QED  BY <1>3, <3>2
  <2>2. ASSUME NEW k \in 1 .. Len(backlog'), NEW f \in Fd
        PROVE  fdConn'[f] < backlog'[k]
    <3>1. backlog'[k] = backlog[k + 1] /\ k + 1 \in 1 .. Len(backlog)
          /\ c < backlog[k + 1]
      BY <1>3, <1>6
    <3>2. fdConn'[f] = fdConn[f] \/ fdConn'[f] = c  BY <1>2, <1>4, <1>7
    <3> QED  BY <3>1, <3>2 DEF ConnsOrdered, AcceptedInOrder
  <2>3. accepted' # 0 => \A f \in Fd : fdConn'[f] <= fdConn'[accepted']
    <3> SUFFICES ASSUME accepted' # 0, NEW f \in Fd
                 PROVE  fdConn'[f] <= fdConn'[accepted']
      OBVIOUS
    <3>1. accepted' = fd /\ fdConn' = [fdConn EXCEPT ![fd] = c]
      BY <1>4
    <3>2. fdConn'[fd] = c /\ (fdConn'[f] = c \/ fdConn'[f] = fdConn[f])
      BY <1>2, <1>7, <3>1
    <3>3. fdConn[f] \in Nat  BY <1>5, <1>7
    <3> QED  BY <1>5, <1>8, <3>1, <3>2, <3>3
  <2> QED  BY <2>1, <2>2, <2>3 DEF AcceptedInOrder
<1>10. OpenIsUsed'
  BY <1>2, <1>4, <1>7 DEF ConnsOrdered, OpenIsUsed
<1>11. CurIsLast'
  BY <1>4 DEF ConnsOrdered, CurIsLast
<1>12. EndedIsDry'
  <2> SUFFICES ASSUME NEW d \in Conn, ~Waits(d)', ~Open(d)'
               PROVE  up'[d] = <<>> /\ d \in gone'
    BY <1>4 DEF EndedIsDry
  <2>1. CASE d # c
    <3>1. ~Waits(d)
      <4> SUFFICES ASSUME NEW k \in 1 .. Len(backlog), backlog[k] = d
                   PROVE  FALSE
        BY DEF Waits
      <4>1. k # 1  BY <1>3, <2>1
      <4>2. k - 1 \in 1 .. Len(backlog') /\ (k - 1) + 1 = k  BY <1>3, <4>1
      <4>3. backlog'[k - 1] = d  BY <1>3, <4>2
      <4> QED  BY <4>2, <4>3 DEF Waits
    <3>2. ~Open(d)
      <4> SUFFICES ASSUME NEW f \in Fd, fdConn[f] = d PROVE FALSE
        BY DEF Open
      <4>1. d # 0  BY <1>1, Typed
      <4>2. f # fd  BY <1>2, <4>1
      <4>3. fdConn'[f] = d  BY <1>4, <1>7, <4>2
      <4> QED  BY <4>3 DEF Open
    <3> QED
      BY <1>4, <1>7, <2>1, <3>1, <3>2 DEF ConnsOrdered, EndedIsDry
  <2>2. CASE d = c
    <3>1. CASE gone' = gone \cup {c} /\ up' = [up EXCEPT ![c] = <<>>]
      BY <1>7, <2>2, <3>1
    <3>2. CASE fdConn' = [fdConn EXCEPT ![fd] = c]
      BY <1>2, <1>7, <2>2, <3>2 DEF Open
    <3> QED  BY <1>4, <3>1, <3>2
  <2> QED  BY <2>1, <2>2
<1> QED  BY <1>9, <1>10, <1>11, <1>12 DEF ConnsOrdered

LEMMA OrderedInstall ==
    ASSUME ConnsOrdered, TypeOK, Install
    PROVE  ConnsOrdered'
<1> DEFINE r == owner[fdConn[accepted]]
<1>1. /\ accepted # 0 /\ ~recvTask[r] /\ accepted' = 0
      /\ sock' = [sock EXCEPT ![r] = accepted]
      /\ recvTask' = [recvTask EXCEPT ![r] = TRUE]
      /\ UNCHANGED <<owner, cur, gone, up, backlog, fdConn>>
  BY DEF Install
<1>2. r \in Replica
  <2>1. fdConn[accepted] \in Conn  BY <1>1 DEF TypeOK
  <2> QED  BY <2>1, Typed
<1> HIDE DEF r
<1>3. sock \in [Replica -> Fd \cup {0}] /\ recvTask \in [Replica -> BOOLEAN]
  BY DEF TypeOK
<1>4. OpenIsUsed'
  <2> SUFFICES ASSUME NEW fd \in Fd, fdConn[fd] # 0
               PROVE  \E q \in Replica : recvTask'[q] /\ sock'[q] = fd
    BY <1>1 DEF OpenIsUsed
  <2>1. CASE fd = accepted  BY <1>1, <1>2, <1>3, <2>1
  <2>2. CASE fd # accepted
    <3>1. PICK q \in Replica : recvTask[q] /\ sock[q] = fd
      BY <2>2 DEF ConnsOrdered, OpenIsUsed
    <3>2. q # r  BY <1>1, <3>1
    <3> QED  BY <1>1, <1>3, <3>1, <3>2
  <2> QED  BY <2>1, <2>2
<1>5. AcceptedInOrder'  BY <1>1 DEF ConnsOrdered, AcceptedInOrder
<1>6. EndedIsDry'  BY <1>1 DEF ConnsOrdered, EndedIsDry, Waits, Open
<1>7. CurIsLast'  BY <1>1 DEF ConnsOrdered, CurIsLast
<1> QED  BY <1>4, <1>5, <1>6, <1>7 DEF ConnsOrdered

LEMMA OrderedEndRecv ==
    ASSUME ConnsOrdered, MeshInv, NEW r \in Replica, EndRecv(r)
    PROVE  ConnsOrdered'
<1> DEFINE s == sock[r]
           c == fdConn[s]
<1>1. /\ recvTask[r] /\ up[c] = <<>> /\ c \in gone
      /\ fdConn' = [fdConn EXCEPT ![s] = 0]
      /\ recvTask' = [recvTask EXCEPT ![r] = FALSE]
      /\ UNCHANGED <<owner, cur, gone, up, backlog, accepted, sock>>
  BY DEF EndRecv
<1>2. TypeOK /\ s \in Fd /\ s # accepted /\ c # 0
  BY <1>1 DEF MeshInv, SocketInv, RecvOwns, AcceptedApart
<1>3. \A f \in Fd : fdConn'[f] = IF f = s THEN 0 ELSE fdConn[f]
  BY <1>1, <1>2 DEF TypeOK
<1>4. \A f \in Fd : fdConn[f] \in Nat
  <2>1. Conn \subseteq Nat  BY <1>2, Typed
  <2>2. fdConn \in [Fd -> Conn \cup {0}]  BY <1>2 DEF TypeOK
  <2> QED  BY ONLY <2>1, <2>2
<1>5. AcceptedInOrder'
  <2>1. ASSUME NEW k \in 1 .. Len(backlog), NEW f \in Fd
        PROVE  fdConn'[f] < backlog[k]
    <3>1. fdConn[f] < backlog[k] /\ backlog[k] \in Nat
      BY <1>2, Typed DEF ConnsOrdered, AcceptedInOrder
    <3> QED  BY <1>3, <1>4, <3>1
  <2>2. ASSUME accepted # 0, NEW f \in Fd PROVE fdConn'[f] <= fdConn'[accepted]
    <3>1. accepted \in Fd  BY <1>2, <2>2 DEF TypeOK
    <3>2. fdConn[f] <= fdConn[accepted]
      BY <2>2 DEF ConnsOrdered, AcceptedInOrder
    <3> QED  BY <1>2, <1>3, <1>4, <3>1, <3>2
  <2> QED  BY <1>1, <2>1, <2>2 DEF ConnsOrdered, AcceptedInOrder
<1>6. OpenIsUsed'
  <2> SUFFICES ASSUME NEW f \in Fd, fdConn'[f] # 0, f # accepted
               PROVE  \E q \in Replica : recvTask'[q] /\ sock[q] = f
    BY <1>1 DEF OpenIsUsed
  <2>1. f # s /\ fdConn[f] # 0  BY <1>3
  <2>2. PICK q \in Replica : recvTask[q] /\ sock[q] = f
    BY <2>1 DEF ConnsOrdered, OpenIsUsed
  <2>3. q # r  BY <2>1, <2>2
  <2> QED  BY <1>1, <1>2, <2>2, <2>3 DEF TypeOK
<1>7. EndedIsDry'
  <2> SUFFICES ASSUME NEW d \in Conn, ~Waits(d)', ~Open(d)'
               PROVE  up[d] = <<>> /\ d \in gone
    BY <1>1 DEF EndedIsDry
  <2>1. CASE d = c  BY <1>1, <2>1
  <2>2. CASE d # c
    <3>1. ~Waits(d)  BY <1>1 DEF Waits
    <3>2. ~Open(d)  BY <1>3, <2>2 DEF Open
    <3> QED  BY <3>1, <3>2 DEF ConnsOrdered, EndedIsDry
  <2> QED  BY <2>1, <2>2
<1>8. CurIsLast'  BY <1>1 DEF ConnsOrdered, CurIsLast
<1> QED  BY <1>5, <1>6, <1>7, <1>8 DEF ConnsOrdered

\* Every step leaves the connections in order.
LEMMA OrderedNext ==
    ASSUME FifoInv, [Next]_vars
    PROVE  ConnsOrdered'
<1>1. ConnsOrdered /\ TypeOK /\ MeshInv
  BY DEF FifoInv, MeshInv, SocketInv
<1>2. CASE UNCHANGED vars  BY <1>1, <1>2, OrderedFrame DEF vars
<1> QED
  BY <1>1, <1>2, OrderedMessages, OrderedCrash, OrderedConnect, OrderedAccept,
     OrderedInstall, OrderedEndRecv
  DEF Next

\* The mesh starts with nothing on its way and no connection.
LEMMA FifoStart == ASSUME Init PROVE FifoInv
<1>1. MeshInv  BY MeshStart
<1>2. Conn = {} /\ Len(backlog) = 0 /\ accepted = 0
  BY DEF Init
<1>3. \A r \in Replica : reading[r] = None /\ sending[r] = None
                         /\ Len(queue[r]) = 0 /\ cur[r] = 0
  BY DEF Init
<1>4. \A fd \in Fd : fdConn[fd] = 0  BY DEF Init
<1>5. MessagesPlaced
  BY <1>2, <1>3 DEF MessagesPlaced, UpFrom, ReadFrom, QueuedTo
<1>6. ConnsOrdered
  BY <1>2, <1>3, <1>4
  DEF ConnsOrdered, CurIsLast, AcceptedInOrder, OpenIsUsed, EndedIsDry
<1> QED  BY <1>1, <1>5, <1>6 DEF FifoInv

-----------------------------------------------------------------------------
(* A channel, place by place.                                              *)

Inbound(j) == IF cur[j] = 0 THEN <<>> ELSE down[cur[j]]

\* What i sent to j, by where it is now.
Arriving(i, j) == Of(Inbound(j), i, j)
InHand(i, j) == One(sending[j], i, j)
InQueue(i, j) == Of(queue[j], i, j)
JustRead(i, j) == One(reading[i], i, j)
Leaving(i, j) == Of(FlattenSeq(up), i, j)

Placed(d, s, q, m, u, i, j) ==
    /\ Of(d \o <<s>> \o q \o <<m>> \o FlattenSeq(u), i, j)
          = Of(d, i, j) \o One(s, i, j) \o Of(q, i, j)
                \o One(m, i, j) \o Of(FlattenSeq(u), i, j)
    /\ Of(d \o <<s>> \o q \o <<m>> \o FlattenSeq(u), i, j) \in Seq(Message)
    /\ Of(d, i, j) \in Seq(Message) /\ One(s, i, j) \in Seq(Message)
    /\ Of(q, i, j) \in Seq(Message) /\ One(m, i, j) \in Seq(Message)
    /\ Of(FlattenSeq(u), i, j) \in Seq(Message)

\* Of, place by place.
LEMMA Way ==
    ASSUME NEW d \in Seq(Message), NEW s \in Mail, NEW q \in Seq(Message),
           NEW m \in Mail, NEW u \in Seq(Seq(Message)), NEW i, NEW j
    PROVE  Placed(d, s, q, m, u, i, j)
<1> DEFINE f == FlattenSeq(u)
           x == <<s>>
           y == <<m>>
           a == d \o x
           b == a \o q
           e == b \o y
<1>1. f \in Seq(Message)  BY FlatType
<1>2. f \in Seq(Mail) /\ d \in Seq(Mail) /\ q \in Seq(Mail)
  BY <1>1 DEF Mail
<1>3. x \in Seq(Mail) /\ y \in Seq(Mail)  OBVIOUS
<1>4. Of(x, i, j) = One(s, i, j) /\ Of(y, i, j) = One(m, i, j)  BY OfOne
<1> HIDE DEF f, x, y
<1>5. a \in Seq(Mail) /\ b \in Seq(Mail) /\ e \in Seq(Mail)  BY <1>2, <1>3
<1>6. Of(a, i, j) = Of(d, i, j) \o Of(x, i, j)
  <2>1. d \in Seq(Mail) /\ x \in Seq(Mail)  BY ONLY <1>2, <1>3
  <2> QED  BY ONLY <2>1, OfConcat
<1> HIDE DEF a
<1>7. Of(b, i, j) = Of(a, i, j) \o Of(q, i, j)
  <2>1. a \in Seq(Mail) /\ q \in Seq(Mail)  BY ONLY <1>2, <1>5
  <2> QED  BY ONLY <2>1, OfConcat
<1> HIDE DEF b
<1>8. Of(e, i, j) = Of(b, i, j) \o Of(y, i, j)
  <2>1. b \in Seq(Mail) /\ y \in Seq(Mail)  BY ONLY <1>3, <1>5
  <2> QED  BY ONLY <2>1, OfConcat
<1> HIDE DEF e
<1>9. Of(e \o f, i, j) = Of(e, i, j) \o Of(f, i, j)
  <2>1. e \in Seq(Mail) /\ f \in Seq(Mail)  BY ONLY <1>2, <1>5
  <2> QED  BY ONLY <2>1, OfConcat
<1>10. /\ Of(d, i, j) \in Seq(Message) /\ One(s, i, j) \in Seq(Message)
       /\ Of(q, i, j) \in Seq(Message) /\ One(m, i, j) \in Seq(Message)
       /\ Of(f, i, j) \in Seq(Message)
  BY ONLY <1>2, OneType, OfType, s \in Mail, m \in Mail
<1>11. Of(e \o f, i, j) \in Seq(Message)
  <2>1. e \o f \in Seq(Mail)  BY ONLY <1>2, <1>5
  <2> QED  BY ONLY <2>1, OfType
<1> QED
  BY ONLY <1>4, <1>6, <1>7, <1>8, <1>9, <1>10, <1>11 DEF Placed, a, b, e, f, x, y

\* Between, place by place, now and after a step.
LEMMA BetweenNow ==
    ASSUME TypeOK, NEW i \in Replica, NEW j \in Replica
    PROVE  /\ Between(i, j) = Arriving(i, j) \o InHand(i, j) \o InQueue(i, j)
                                  \o JustRead(i, j) \o Leaving(i, j)
           /\ Arriving(i, j) \in Seq(Message) /\ InHand(i, j) \in Seq(Message)
           /\ InQueue(i, j) \in Seq(Message) /\ JustRead(i, j) \in Seq(Message)
           /\ Leaving(i, j) \in Seq(Message)
           /\ up \in Seq(Seq(Message)) /\ Len(up) = Len(owner)
           /\ Inbound(j) \in Seq(Message) /\ queue[j] \in Seq(Message)
           /\ sending[j] \in Mail /\ reading[i] \in Mail
           /\ Between(i, j) \in Seq(Message)
<1>1. up \in Seq(Seq(Message)) /\ Len(up) = Len(owner)
  <2>1. Len(owner) \in Nat /\ Conn = 1 .. Len(owner)  BY Typed
  <2>2. up \in [1 .. Len(owner) -> Seq(Message)]  BY <2>1 DEF TypeOK
  <2> QED  BY <2>1, <2>2, Tables
<1>2. Inbound(j) \in Seq(Message)  BY Typed DEF Inbound
<1>3. queue[j] \in Seq(Message) /\ sending[j] \in Mail /\ reading[i] \in Mail
  BY DEF TypeOK, Mail
<1>4. Between(i, j) =
        Of(Inbound(j) \o <<sending[j]>> \o queue[j] \o <<reading[i]>>
               \o FlattenSeq(up), i, j)
  BY DEF Between, Inbound
<1>5. Placed(Inbound(j), sending[j], queue[j], reading[i], up, i, j)
  BY ONLY <1>1, <1>2, <1>3, Way
<1> QED
  BY ONLY <1>1, <1>2, <1>3, <1>4, <1>5
  DEF Placed, Arriving, InHand, InQueue, JustRead, Leaving

LEMMA BetweenNext ==
    ASSUME TypeOK', NEW i \in Replica, NEW j \in Replica
    PROVE  /\ Between(i, j)' =
                Arriving(i, j)' \o InHand(i, j)' \o InQueue(i, j)'
                    \o JustRead(i, j)' \o Leaving(i, j)'
           /\ Arriving(i, j)' \in Seq(Message) /\ InHand(i, j)' \in Seq(Message)
           /\ InQueue(i, j)' \in Seq(Message) /\ JustRead(i, j)' \in Seq(Message)
           /\ Leaving(i, j)' \in Seq(Message)
<1>1. up' \in Seq(Seq(Message))
  <2>1. owner' \in Seq(Replica)  BY DEF TypeOK
  <2>2. Len(owner') \in Nat /\ Conn' = 1 .. Len(owner')  BY <2>1
  <2>3. up' \in [1 .. Len(owner') -> Seq(Message)]  BY <2>2 DEF TypeOK
  <2> QED  BY <2>2, <2>3, Tables
<1>2. Inbound(j)' \in Seq(Message)
  <2>1. cur'[j] \in Conn' \cup {0} /\ down' \in [Conn' -> Seq(Message)]
    BY DEF TypeOK
  <2> QED  BY <2>1 DEF Inbound
<1>3. queue'[j] \in Seq(Message) /\ sending'[j] \in Mail /\ reading'[i] \in Mail
  BY DEF TypeOK, Mail
<1>4. Between(i, j)' =
        Of(Inbound(j)' \o <<sending'[j]>> \o queue'[j] \o <<reading'[i]>>
               \o FlattenSeq(up'), i, j)
  BY DEF Between, Inbound
<1>5. Placed(Inbound(j)', sending'[j], queue'[j], reading'[i], up', i, j)
  BY ONLY <1>1, <1>2, <1>3, Way
<1> QED
  BY ONLY <1>4, <1>5
  DEF Placed, Arriving, InHand, InQueue, JustRead, Leaving

\* Messages may move from one place to the next one, and may be lost.
LEMMA ThinParts ==
    ASSUME NEW S, NEW d \in Seq(S), NEW s \in Seq(S), NEW q \in Seq(S),
           NEW m \in Seq(S), NEW u \in Seq(S),
           NEW d2 \in Seq(S), NEW s2 \in Seq(S), NEW q2 \in Seq(S),
           NEW m2 \in Seq(S), NEW u2 \in Seq(S),
           \/ Thin(d2 \o s2, d \o s) /\ q2 = q /\ m2 = m /\ u2 = u
           \/ d2 = d /\ Thin(s2 \o q2, s \o q) /\ m2 = m /\ u2 = u
           \/ d2 = d /\ s2 = s /\ Thin(q2 \o m2, q \o m) /\ u2 = u
           \/ d2 = d /\ s2 = s /\ q2 = q /\ Thin(m2 \o u2, m \o u)
    PROVE  Thin(d2 \o s2 \o q2 \o m2 \o u2, d \o s \o q \o m \o u)
<1>1. CASE Thin(d2 \o s2, d \o s) /\ q2 = q /\ m2 = m /\ u2 = u
  <2> DEFINE a == d \o s
             a2 == d2 \o s2
  <2>1. a \in Seq(S) /\ a2 \in Seq(S)  OBVIOUS
  <2> HIDE DEF a, a2
  <2>2. Thin(a2 \o q, a \o q)
    <3>1. Thin(a2, a)  BY <1>1 DEF a, a2
    <3> QED  BY <2>1, <3>1, ThinSame, ThinConcat
  <2>3. a \o q \in Seq(S) /\ a2 \o q \in Seq(S)  BY <2>1
  <2>4. Thin((a2 \o q) \o m, (a \o q) \o m)
    BY <2>2, <2>3, ThinSame, ThinConcat
  <2>5. (a \o q) \o m \in Seq(S) /\ (a2 \o q) \o m \in Seq(S)  BY <2>3
  <2>6. Thin(((a2 \o q) \o m) \o u, ((a \o q) \o m) \o u)
    BY <2>4, <2>5, ThinSame, ThinConcat
  <2> QED  BY ONLY <1>1, <2>6 DEF a, a2
<1>2. CASE d2 = d /\ Thin(s2 \o q2, s \o q) /\ m2 = m /\ u2 = u
  <2> DEFINE a == s \o q
             a2 == s2 \o q2
  <2>1. a \in Seq(S) /\ a2 \in Seq(S)  OBVIOUS
  <2>2. (d \o s) \o q = d \o a
    <3>1. Regrouped(d, s, q)
      BY ONLY d \in Seq(S), s \in Seq(S), q \in Seq(S), Regroup
    <3> QED  BY ONLY <3>1 DEF Regrouped
  <2>3. (d2 \o s2) \o q2 = d2 \o a2
    <3>1. Regrouped(d2, s2, q2)
      BY ONLY d2 \in Seq(S), s2 \in Seq(S), q2 \in Seq(S), Regroup
    <3> QED  BY ONLY <3>1 DEF Regrouped
  <2> HIDE DEF a, a2
  <2>4. Thin(d \o a2, d \o a)
    <3>1. Thin(a2, a)  BY <1>2 DEF a, a2
    <3> QED  BY <2>1, <3>1, ThinSame, ThinConcat
  <2>5. d \o a \in Seq(S) /\ d \o a2 \in Seq(S)  BY <2>1
  <2>6. Thin((d \o a2) \o m, (d \o a) \o m)
    BY <2>4, <2>5, ThinSame, ThinConcat
  <2>7. (d \o a) \o m \in Seq(S) /\ (d \o a2) \o m \in Seq(S)  BY <2>5
  <2>8. Thin(((d \o a2) \o m) \o u, ((d \o a) \o m) \o u)
    BY <2>6, <2>7, ThinSame, ThinConcat
  <2> QED  BY ONLY <1>2, <2>2, <2>8, <2>3
<1>3. CASE d2 = d /\ s2 = s /\ Thin(q2 \o m2, q \o m) /\ u2 = u
  <2> DEFINE h == d \o s
             a == q \o m
             a2 == q2 \o m2
  <2>1. h \in Seq(S) /\ a \in Seq(S) /\ a2 \in Seq(S)  OBVIOUS
  <2>2. h \in Seq(S)  BY ONLY <2>1
  <2> HIDE DEF h
  <2>3. (h \o q) \o m = h \o a
    <3>1. Regrouped(h, q, m)
      BY ONLY <2>2, q \in Seq(S), m \in Seq(S), Regroup
    <3> QED  BY ONLY <3>1 DEF Regrouped
  <2>4. (h \o q2) \o m2 = h \o a2
    <3>1. Regrouped(h, q2, m2)
      BY ONLY <2>2, q2 \in Seq(S), m2 \in Seq(S), Regroup
    <3> QED  BY ONLY <3>1 DEF Regrouped
  <2> HIDE DEF a, a2
  <2>5. Thin(h \o a2, h \o a)
    <3>1. Thin(a2, a)  BY <1>3 DEF a, a2
    <3> QED  BY <2>1, <3>1, ThinSame, ThinConcat
  <2>6. h \o a \in Seq(S) /\ h \o a2 \in Seq(S)  BY <2>1
  <2>7. Thin((h \o a2) \o u, (h \o a) \o u)
    BY <2>5, <2>6, ThinSame, ThinConcat
  <2> QED  BY ONLY <1>3, <2>3, <2>7, <2>4 DEF h
<1>4. CASE d2 = d /\ s2 = s /\ q2 = q /\ Thin(m2 \o u2, m \o u)
  <2> DEFINE h == d \o s \o q
             a == m \o u
             a2 == m2 \o u2
  <2>1. h \in Seq(S) /\ a \in Seq(S) /\ a2 \in Seq(S)  OBVIOUS
  <2>2. h \in Seq(S)  BY ONLY <2>1
  <2> HIDE DEF h
  <2>3. (h \o m) \o u = h \o a
    <3>1. Regrouped(h, m, u)
      BY ONLY <2>2, m \in Seq(S), u \in Seq(S), Regroup
    <3> QED  BY ONLY <3>1 DEF Regrouped
  <2>4. (h \o m2) \o u2 = h \o a2
    <3>1. Regrouped(h, m2, u2)
      BY ONLY <2>2, m2 \in Seq(S), u2 \in Seq(S), Regroup
    <3> QED  BY ONLY <3>1 DEF Regrouped
  <2> HIDE DEF a, a2
  <2>5. Thin(h \o a2, h \o a)
    <3>1. Thin(a2, a)  BY <1>4 DEF a, a2
    <3> QED  BY <2>1, <3>1, ThinSame, ThinConcat
  <2> QED  BY ONLY <1>4, <2>3, <2>5, <2>4 DEF h
<1> QED  BY <1>1, <1>2, <1>3, <1>4

\* A step that moves messages to the next place, or loses some.
LEMMA WayThinned ==
    ASSUME TypeOK, TypeOK', NEW i \in Replica, NEW j \in Replica,
           \/ /\ Thin(Arriving(i, j)' \o InHand(i, j)', Arriving(i, j) \o InHand(i, j))
              /\ UNCHANGED <<InQueue(i, j), JustRead(i, j), Leaving(i, j)>>
           \/ /\ Thin(InHand(i, j)' \o InQueue(i, j)', InHand(i, j) \o InQueue(i, j))
              /\ UNCHANGED <<Arriving(i, j), JustRead(i, j), Leaving(i, j)>>
           \/ /\ Thin(InQueue(i, j)' \o JustRead(i, j)', InQueue(i, j) \o JustRead(i, j))
              /\ UNCHANGED <<Arriving(i, j), InHand(i, j), Leaving(i, j)>>
           \/ /\ Thin(JustRead(i, j)' \o Leaving(i, j)', JustRead(i, j) \o Leaving(i, j))
              /\ UNCHANGED <<Arriving(i, j), InHand(i, j), InQueue(i, j)>>
    PROVE  Thin(Between(i, j)', Between(i, j))
<1>1. Thin(Arriving(i, j)' \o InHand(i, j)' \o InQueue(i, j)'
               \o JustRead(i, j)' \o Leaving(i, j)',
           Arriving(i, j) \o InHand(i, j) \o InQueue(i, j)
               \o JustRead(i, j) \o Leaving(i, j))
  BY BetweenNow, BetweenNext, ThinParts
<1>2. Between(i, j) = Arriving(i, j) \o InHand(i, j) \o InQueue(i, j)
                          \o JustRead(i, j) \o Leaving(i, j)
  BY BetweenNow
<1>3. Between(i, j)' = Arriving(i, j)' \o InHand(i, j)' \o InQueue(i, j)'
                           \o JustRead(i, j)' \o Leaving(i, j)'
  BY BetweenNext
<1> QED  BY ONLY <1>1, <1>2, <1>3

-----------------------------------------------------------------------------
(* What a step does to the channels.                                       *)

\* Of one message more, and of one less.
LEMMA OfAppend ==
    ASSUME NEW q \in Seq(Message), NEW m \in Message, NEW i, NEW j
    PROVE  Of(Append(q, m), i, j) = Of(q, i, j) \o One(m, i, j)
<1> DEFINE x == <<m>>
<1>1. Append(q, m) = q \o x  OBVIOUS
<1>2. q \in Seq(Mail) /\ x \in Seq(Mail) /\ m \in Mail  BY DEF Mail
<1>3. Of(x, i, j) = One(m, i, j)  BY <1>2, OfOne
<1> HIDE DEF x
<1>4. q \in Seq(Mail) /\ x \in Seq(Mail)  BY ONLY <1>2
<1>5. Of(q \o x, i, j) = Of(q, i, j) \o Of(x, i, j)  BY ONLY <1>4, OfConcat
<1> QED  BY ONLY <1>1, <1>3, <1>5

LEMMA OfTail ==
    ASSUME NEW q \in Seq(Message), q # <<>>, NEW i, NEW j
    PROVE  /\ Of(q, i, j) = One(Head(q), i, j) \o Of(Tail(q), i, j)
           /\ One(Head(q), i, j) \in Seq(Message)
           /\ Of(Tail(q), i, j) \in Seq(Message)
           /\ Of(q, i, j) \in Seq(Message)
<1> DEFINE h == Head(q)
           t == Tail(q)
           x == <<h>>
<1>1. h \in Message /\ t \in Seq(Message) /\ q = x \o t  OBVIOUS
<1>2. x \in Seq(Mail) /\ h \in Mail /\ q \in Seq(Mail)  BY <1>1 DEF Mail
<1>3. Of(x, i, j) = One(h, i, j)  BY <1>2, OfOne
<1>4. t \in Seq(Mail)  BY <1>1 DEF Mail
<1> HIDE DEF x, t
<1>5. x \in Seq(Mail) /\ t \in Seq(Mail)  BY ONLY <1>2, <1>4
<1>6. Of(x \o t, i, j) = Of(x, i, j) \o Of(t, i, j)  BY ONLY <1>5, OfConcat
<1>7. Of(q, i, j) \in Seq(Message) /\ Of(t, i, j) \in Seq(Message)
      /\ One(h, i, j) \in Seq(Message)
  BY ONLY <1>2, <1>4, OfType, OneType
<1> QED  BY ONLY <1>1, <1>3, <1>6, <1>7 DEF t

\* What comes up a connection is its server's.
LEMMA UpAlien ==
    ASSUME TypeOK, UpFrom, NEW c \in Conn, NEW i \in Replica, NEW j,
           owner[c] # i
    PROVE  Of(up[c], i, j) = <<>>
<1>1. up[c] \in Seq(Message)  BY Typed
<1>2. \A k \in 1 .. Len(up[c]) : One(up[c][k], i, j) = <<>>
  BY DEF UpFrom, One
<1> QED  BY <1>1, <1>2, OfAlien

\* A step that loses or moves nothing.
LEMMA ThinSteady ==
    ASSUME TypeOK, TypeOK', NEW i \in Replica, NEW j \in Replica,
           UNCHANGED <<Arriving(i, j), InHand(i, j), InQueue(i, j),
                       JustRead(i, j), Leaving(i, j)>>
    PROVE  Thin(Between(i, j)', Between(i, j))
<1>1. Between(i, j)' = Between(i, j)
  BY ONLY BetweenNow, BetweenNext, TypeOK, TypeOK', i \in Replica, j \in Replica,
     UNCHANGED <<Arriving(i, j), InHand(i, j), InQueue(i, j),
                 JustRead(i, j), Leaving(i, j)>>
<1> QED  BY <1>1, ThinSame

\* One place loses messages.
LEMMA ThinLoss ==
    ASSUME TypeOK, TypeOK', NEW i \in Replica, NEW j \in Replica,
           \/ /\ Thin(Arriving(i, j)', Arriving(i, j))
              /\ UNCHANGED <<InHand(i, j), InQueue(i, j), JustRead(i, j), Leaving(i, j)>>
           \/ /\ Thin(InQueue(i, j)', InQueue(i, j))
              /\ UNCHANGED <<Arriving(i, j), InHand(i, j), JustRead(i, j), Leaving(i, j)>>
           \/ /\ Thin(Leaving(i, j)', Leaving(i, j))
              /\ UNCHANGED <<Arriving(i, j), InHand(i, j), InQueue(i, j), JustRead(i, j)>>
    PROVE  Thin(Between(i, j)', Between(i, j))
<1> DEFINE S == Seq(Message)
<1>1. /\ Arriving(i, j) \in S /\ InHand(i, j) \in S /\ InQueue(i, j) \in S
      /\ JustRead(i, j) \in S /\ Leaving(i, j) \in S
  BY BetweenNow
<1>2. /\ Arriving(i, j)' \in S /\ InHand(i, j)' \in S /\ InQueue(i, j)' \in S
      /\ JustRead(i, j)' \in S /\ Leaving(i, j)' \in S
  BY BetweenNext
<1>3. CASE /\ Thin(Arriving(i, j)', Arriving(i, j))
           /\ UNCHANGED <<InHand(i, j), InQueue(i, j), JustRead(i, j), Leaving(i, j)>>
  <2>1. Thin(InHand(i, j)', InHand(i, j))  BY <1>3, ThinSame
  <2>2. Thin(Arriving(i, j)' \o InHand(i, j)', Arriving(i, j) \o InHand(i, j))
    BY ONLY <1>1, <1>2, <1>3, <2>1, ThinConcat
  <2> QED  BY <1>3, <2>2, WayThinned
<1>4. CASE /\ Thin(InQueue(i, j)', InQueue(i, j))
           /\ UNCHANGED <<Arriving(i, j), InHand(i, j), JustRead(i, j), Leaving(i, j)>>
  <2>1. Thin(InHand(i, j)', InHand(i, j))  BY <1>4, ThinSame
  <2>2. Thin(InHand(i, j)' \o InQueue(i, j)', InHand(i, j) \o InQueue(i, j))
    BY ONLY <1>1, <1>2, <1>4, <2>1, ThinConcat
  <2> QED  BY <1>4, <2>2, WayThinned
<1>5. CASE /\ Thin(Leaving(i, j)', Leaving(i, j))
           /\ UNCHANGED <<Arriving(i, j), InHand(i, j), InQueue(i, j), JustRead(i, j)>>
  <2>1. Thin(JustRead(i, j)', JustRead(i, j))  BY <1>5, ThinSame
  <2>2. Thin(JustRead(i, j)' \o Leaving(i, j)', JustRead(i, j) \o Leaving(i, j))
    BY ONLY <1>1, <1>2, <1>5, <2>1, ThinConcat
  <2> QED  BY <1>5, <2>2, WayThinned
<1> QED  BY <1>3, <1>4, <1>5

-----------------------------------------------------------------------------
\* One lemma for each kind of step: no channel gets a message.
LEMMA LoseConnect ==
    ASSUME FifoInv, TypeOK', NEW r \in Replica, Connect(r),
           NEW i \in Replica, NEW j \in Replica
    PROVE  Thin(Between(i, j)', Between(i, j))
<1> DEFINE n == Len(owner)
<1>1. TypeOK  BY DEF FifoInv, MeshInv, SocketInv
<1>2. /\ cur[r] = 0 /\ cur' = [cur EXCEPT ![r] = n + 1]
      /\ up' = Append(up, <<>>) /\ down' = Append(down, <<>>)
      /\ UNCHANGED <<queue, reading, sending>>
  BY DEF Connect
<1>3. n \in Nat /\ Conn = 1 .. n  BY <1>1, Typed
<1>4. down \in [1 .. n -> Seq(Message)]  BY <1>1, <1>3 DEF TypeOK
<1>5. /\ \A k \in 1 .. n : down'[k] = down[k]
      /\ down'[n + 1] = <<>>
  BY <1>2, <1>3, <1>4, Tables
<1>6. Inbound(j)' = Inbound(j)
  <2>1. CASE j = r
    <3>1. cur'[j] = n + 1 /\ n + 1 # 0 /\ cur[j] = 0
      BY <1>1, <1>2, <1>3, <2>1 DEF TypeOK
    <3> QED  BY <1>5, <3>1 DEF Inbound
  <2>2. CASE j # r
    <3>1. cur'[j] = cur[j] /\ (cur[j] # 0 => cur[j] \in 1 .. n)
      BY <1>1, <1>2, <1>3, <2>2 DEF TypeOK
    <3> QED  BY <1>5, <3>1 DEF Inbound
  <2> QED  BY <2>1, <2>2
<1>7. Arriving(i, j)' = Arriving(i, j)  BY <1>6 DEF Arriving
<1>8. FlattenSeq(up') = FlattenSeq(up)
  <2>1. up \in Seq(Seq(Message)) /\ <<>> \in Seq(Message)
    BY <1>1, BetweenNow
  <2>2. FlattenSeq(up') = FlattenSeq(up) \o <<>>
    BY ONLY <1>2, <2>1, FlatAppend
  <2>3. FlattenSeq(up) \in Seq(Message)  BY ONLY <2>1, FlatType
  <2> QED  BY ONLY <2>2, <2>3, ConcatEmptySeq
<1>9. Leaving(i, j)' = Leaving(i, j)  BY <1>8 DEF Leaving
<1> QED
  BY <1>1, <1>2, <1>7, <1>9, ThinSteady DEF InHand, InQueue, JustRead

\* A server reads what comes down, or is gone with what has not come yet.
LEMMA LoseServer ==
    ASSUME FifoInv, TypeOK', NEW r \in Replica,
           ServerReceive(r) \/ ServerCrash(r),
           NEW i \in Replica, NEW j \in Replica
    PROVE  Thin(Between(i, j)', Between(i, j))
<1> DEFINE c == cur[r]
<1>1. TypeOK  BY DEF FifoInv, MeshInv, SocketInv
<1>2. c \in Conn /\ owner[c] = r /\ down[c] \in Seq(Message)
  BY <1>1, Typed
  DEF ServerReceive, ServerCrash, FifoInv, ConnsOrdered, CurIsLast
<1>3. down \in [Conn -> Seq(Message)] /\ cur \in [Replica -> Conn \cup {0}]
  BY <1>1 DEF TypeOK
<1>4. UNCHANGED <<InHand(i, j), InQueue(i, j), JustRead(i, j), Leaving(i, j)>>
  BY DEF ServerReceive, ServerCrash, InHand, InQueue, JustRead, Leaving
<1>5. Thin(Arriving(i, j)', Arriving(i, j))
  <2>1. CASE j # r
    <3>1. cur'[j] = cur[j]
      BY <1>3, <2>1 DEF ServerReceive, ServerCrash
    <3>2. cur[j] # 0 => cur[j] # c
      BY <1>2, <2>1 DEF FifoInv, ConnsOrdered, CurIsLast
    <3>3. cur[j] # 0 => down'[cur[j]] = down[cur[j]]
      BY <1>3, <3>2 DEF ServerReceive, ServerCrash
    <3>4. Inbound(j)' = Inbound(j)  BY <3>1, <3>3 DEF Inbound
    <3> QED  BY <3>4, ThinSame DEF Arriving
  <2>2. CASE j = r /\ ServerReceive(r)
    <3>1. /\ down[c] # <<>> /\ cur'[j] = c /\ down'[c] = Tail(down[c])
          /\ c # 0
      BY <1>2, <1>3, <2>2 DEF ServerReceive
    <3>2. Inbound(j) = down[c] /\ Inbound(j)' = Tail(down[c])
      BY <2>2, <3>1 DEF Inbound
    <3> DEFINE q == down[c]
               x == One(Head(q), i, j)
               y == Of(Tail(q), i, j)
    <3>3. Of(q, i, j) = x \o y /\ x \in Seq(Message) /\ y \in Seq(Message)
      BY <1>2, <3>1, OfTail
    <3>4. Arriving(i, j)' = y /\ Arriving(i, j) = x \o y
      BY <3>2, <3>3 DEF Arriving
    <3> HIDE DEF x, y
    <3>5. Thin(<<>> \o y, x \o y)
      <4>1. Thin(<<>>, x) /\ Thin(y, y) /\ <<>> \in Seq(Message)
        BY <3>3, ThinNone, ThinSame
      <4> QED  BY ONLY <3>3, <4>1, ThinConcat
    <3>6. <<>> \o y = y  BY ONLY <3>3, ConcatEmptySeq
    <3> QED  BY ONLY <3>4, <3>5, <3>6
  <2>3. CASE j = r /\ ServerCrash(r)
    <3>1. Inbound(j)' = <<>>  BY <1>3, <2>3 DEF ServerCrash, Inbound
    <3>2. Arriving(i, j)' = <<>>  BY <3>1, OfEmpty DEF Arriving
    <3>3. Arriving(i, j) \in Seq(Message)  BY <1>1, BetweenNow
    <3> QED  BY <3>2, <3>3, ThinNone
  <2> QED  BY <2>1, <2>2, <2>3
<1> QED  BY <1>1, <1>4, <1>5, ThinLoss

\* A connection that is turned away takes what it has sent with it.
LEMMA LoseAccept ==
    ASSUME FifoInv, TypeOK', Accept, NEW i \in Replica, NEW j \in Replica
    PROVE  Thin(Between(i, j)', Between(i, j))
<1> DEFINE c == Head(backlog)
<1>1. TypeOK  BY DEF FifoInv, MeshInv, SocketInv
<1>2. c \in Conn
  <2>1. backlog \in Seq(Conn) /\ backlog # <<>>  BY <1>1 DEF TypeOK, Accept
  <2> HIDE DEF Conn
  <2> QED  BY <2>1
<1>3. /\ up' = up \/ up' = [up EXCEPT ![c] = <<>>]
      /\ UNCHANGED <<cur, down, queue, reading, sending>>
  BY DEF Accept
<1> HIDE DEF c
<1>4. UNCHANGED <<Arriving(i, j), InHand(i, j), InQueue(i, j), JustRead(i, j)>>
  BY <1>3 DEF Arriving, Inbound, InHand, InQueue, JustRead
<1>5. Thin(Leaving(i, j)', Leaving(i, j))
  <2>1. CASE up' = up  BY <2>1, ThinSame DEF Leaving
  <2>2. CASE up' = [up EXCEPT ![c] = <<>>]
    <3> DEFINE e == <<>>
               y == Of(up[c], i, j)
    <3>1. up \in Seq(Seq(Message)) /\ c \in 1 .. Len(up) /\ e \in Seq(Message)
      <4>1. up \in Seq(Seq(Message)) /\ Len(up) = Len(owner)
        BY <1>1, BetweenNow
      <4>2. c \in 1 .. Len(owner)  BY <1>1, <1>2, Typed
      <4>3. e \in Seq(Message)  OBVIOUS
      <4> QED  BY ONLY <4>1, <4>2, <4>3
    <3>2. up' = Replaced(up, c, e)  BY ONLY <2>2 DEF Replaced
    <3>3. Of(e, i, j) = <<>>  BY OfEmpty
    <3> HIDE DEF e
    <3>4. Divided(up, up', c, e, i, j)  BY ONLY <3>1, <3>2, UpFlow
    <3>5. PICK a, b \in Seq(Message) :
            /\ Of(FlattenSeq(up), i, j) = a \o (y \o b)
            /\ Of(FlattenSeq(up'), i, j) = a \o (Of(e, i, j) \o b)
      BY ONLY <3>4 DEF Divided
    <3>6. Leaving(i, j) = a \o (y \o b) /\ Leaving(i, j)' = a \o (<<>> \o b)
      BY ONLY <3>5, <3>3 DEF Leaving
    <3>7. y \in Seq(Message)
      <4>1. up[c] \in Seq(Message)  BY <1>1, <1>2, Typed
      <4>2. up[c] \in Seq(Mail)  BY ONLY <4>1 DEF Mail
      <4> QED  BY ONLY <4>2, OfType
    <3> HIDE DEF y
    <3>8. Thin(a \o (<<>> \o b), a \o (y \o b))
      <4>1. Thin(<<>>, y) /\ <<>> \in Seq(Message)  BY <3>7, ThinNone
      <4> QED  BY ONLY <3>7, <4>1, ThinMiddle, a \in Seq(Message), b \in Seq(Message)
    <3> QED  BY ONLY <3>6, <3>8
  <2> QED  BY <1>3, <2>1, <2>2
<1> QED  BY <1>1, <1>4, <1>5, ThinLoss

\* Install flushes a queue.
LEMMA LoseInstall ==
    ASSUME FifoInv, TypeOK', Install, NEW i \in Replica, NEW j \in Replica
    PROVE  Thin(Between(i, j)', Between(i, j))
<1>1. TypeOK  BY DEF FifoInv, MeshInv, SocketInv
<1>2. UNCHANGED <<Arriving(i, j), InHand(i, j), JustRead(i, j), Leaving(i, j)>>
  BY DEF Install, Arriving, Inbound, InHand, JustRead, Leaving
<1>3. queue'[j] = queue[j] \/ queue'[j] = <<>>
  BY <1>1 DEF Install, TypeOK
<1>4. Thin(InQueue(i, j)', InQueue(i, j))
  <2>1. InQueue(i, j) \in Seq(Message)  BY <1>1, BetweenNow
  <2> QED  BY <1>3, <2>1, OfEmpty, ThinNone, ThinSame DEF InQueue
<1> QED  BY <1>1, <1>2, <1>4, ThinLoss

\* What i sent to j, when x stands for what was on its way up connection c.
LeavingDivided(c, x, i, j) ==
    \E a, b \in Seq(Message) :
        /\ Leaving(i, j) = a \o (Of(up[c], i, j) \o b)
        /\ Leaving(i, j)' = a \o (Of(x, i, j) \o b)
        /\ (\A k \in Conn : owner[k] = i /\ k < c => up[k] = <<>>) => a = <<>>
        /\ (\A k \in Conn : owner[k] = i => k <= c) => b = <<>>

\* What i sent to j stands in parts.
LEMMA LeavingParts ==
    ASSUME TypeOK, UpFrom, NEW c \in Conn, NEW x \in Seq(Message),
           up' = Replaced(up, c, x), NEW i \in Replica, NEW j
    PROVE  LeavingDivided(c, x, i, j)
<1>1. up \in Seq(Seq(Message)) /\ Len(up) = Len(owner)
      /\ Conn = 1 .. Len(owner) /\ Len(owner) \in Nat
  BY BetweenNow, Typed
<1>2. c \in 1 .. Len(up)  BY <1>1
<1>3. Divided(up, up', c, x, i, j)
  BY ONLY <1>1, <1>2, up' = Replaced(up, c, x), x \in Seq(Message), UpFlow
<1>4. PICK a, b \in Seq(Message) :
        /\ Of(FlattenSeq(up), i, j) = a \o (Of(up[c], i, j) \o b)
        /\ Of(FlattenSeq(up'), i, j) = a \o (Of(x, i, j) \o b)
        /\ (\A k \in 1 .. Len(up) : k < c => Of(up[k], i, j) = <<>>) => a = <<>>
        /\ (\A k \in 1 .. Len(up) : c < k => Of(up[k], i, j) = <<>>) => b = <<>>
  BY ONLY <1>3 DEF Divided
<1>5. ASSUME \A k \in Conn : owner[k] = i /\ k < c => up[k] = <<>>
      PROVE  a = <<>>
  <2>1. ASSUME NEW k \in 1 .. Len(up), k < c PROVE Of(up[k], i, j) = <<>>
    <3>1. k \in Conn  BY <1>1
    <3>2. CASE owner[k] = i
      <4>1. up[k] = <<>>  BY <1>5, <2>1, <3>1, <3>2
      <4> QED  BY ONLY <4>1, OfEmpty
    <3>3. CASE owner[k] # i  BY <3>1, <3>3, UpAlien
    <3> QED  BY <3>2, <3>3
  <2> QED  BY ONLY <1>4, <2>1
<1>6. ASSUME \A k \in Conn : owner[k] = i => k <= c
      PROVE  b = <<>>
  <2>1. ASSUME NEW k \in 1 .. Len(up), c < k PROVE Of(up[k], i, j) = <<>>
    <3>1. k \in Conn /\ ~(k <= c)  BY <1>1, <1>2, <2>1
    <3>2. owner[k] # i  BY <1>6, <3>1
    <3> QED  BY <3>1, <3>2, UpAlien
  <2> QED  BY ONLY <1>4, <2>1
<1> QED  BY ONLY <1>4, <1>5, <1>6 DEF LeavingDivided, Leaving

\* The receiving thread reads a server's connections in the order in which
\* they were made.
LEMMA OlderDry ==
    ASSUME FifoInv, NEW r \in Replica, recvTask[r],
           NEW k \in Conn, owner[k] = r, k < fdConn[sock[r]]
    PROVE  up[k] = <<>>
<1> DEFINE c == fdConn[sock[r]]
<1>1. TypeOK /\ sock[r] \in Fd /\ c # 0
  BY DEF FifoInv, MeshInv, SocketInv, RecvOwns
<1>2. c \in Nat /\ k \in Nat /\ k # 0
  <2>1. Conn \subseteq Nat /\ k # 0  BY <1>1, Typed
  <2>2. c \in Conn \cup {0}  BY <1>1 DEF TypeOK
  <2> QED  BY ONLY <2>1, <2>2, k \in Conn
<1>3. ~Waits(k)
  <2> SUFFICES ASSUME NEW l \in 1 .. Len(backlog), backlog[l] = k PROVE FALSE
    BY DEF Waits
  <2>1. c < k  BY <1>1 DEF FifoInv, ConnsOrdered, AcceptedInOrder
  <2> QED  BY <1>2, <2>1
<1>4. ~Open(k)
  <2> SUFFICES ASSUME NEW fd \in Fd, fdConn[fd] = k PROVE FALSE
    BY DEF Open
  <2>1. CASE fd = accepted
    <3>1. c <= k  BY <1>1, <2>1 DEF FifoInv, ConnsOrdered, AcceptedInOrder
    <3> QED  BY <1>2, <3>1
  <2>2. CASE fd # accepted
    <3>1. PICK q \in Replica : recvTask[q] /\ sock[q] = fd
      BY <1>2, <2>2 DEF FifoInv, ConnsOrdered, OpenIsUsed
    <3>2. owner[k] = q
      BY <3>1 DEF FifoInv, MeshInv, SocketInv, RecvOwns
    <3> QED  BY <1>2, <3>1, <3>2
  <2> QED  BY <2>1, <2>2
<1> QED  BY <1>3, <1>4 DEF FifoInv, ConnsOrdered, EndedIsDry

\* The step of recv_handler: what it reads it has in hand, or drops.
LEMMA LoseRead ==
    ASSUME FifoInv, TypeOK', NEW r \in Replica, ReadMessage(r),
           NEW i \in Replica, NEW j \in Replica
    PROVE  Thin(Between(i, j)', Between(i, j))
<1> DEFINE c == fdConn[sock[r]]
           h == Head(up[c])
           t == Tail(up[c])
           x == One(h, i, j)
           y == Of(t, i, j)
           S == Seq(Message)
<1>1. TypeOK /\ SocketInv /\ UpFrom
  BY DEF FifoInv, MeshInv, SocketInv, MessagesPlaced
<1>2. c \in Conn /\ owner[c] = r /\ up[c] \in S /\ up[c] # <<>>
  <2>1. sock[r] \in Fd /\ c # 0 /\ owner[c] = r
    BY <1>1 DEF SocketInv, RecvOwns, ReadMessage
  <2>2. c \in Conn  BY <1>1, <2>1 DEF TypeOK
  <2> QED  BY <1>1, <2>1, <2>2, Typed DEF ReadMessage
<1>3. h \in Message /\ t \in S /\ h.from = r
  <2>1. h = up[c][1] /\ 1 \in 1 .. Len(up[c]) /\ h \in Message /\ t \in S
    BY <1>2
  <2> QED  BY <1>1, <1>2, <2>1 DEF UpFrom
<1>4. /\ up' = [up EXCEPT ![c] = t] /\ recvTask[r] /\ reading[r] = None
      /\ \E z \in {None, h} : reading' = [reading EXCEPT ![r] = z]
      /\ UNCHANGED <<cur, down, queue, sending>>
  BY DEF ReadMessage
<1>5. Of(up[c], i, j) = x \o y /\ x \in S /\ y \in S
  BY <1>2, OfTail
<1>6. UNCHANGED <<Arriving(i, j), InHand(i, j), InQueue(i, j)>>
  BY <1>4 DEF Arriving, Inbound, InHand, InQueue
<1>7. PICK a, b \in S :
        /\ Leaving(i, j) = a \o (Of(up[c], i, j) \o b)
        /\ Leaving(i, j)' = a \o (Of(t, i, j) \o b)
        /\ (\A k \in Conn : owner[k] = i /\ k < c => up[k] = <<>>) => a = <<>>
  <2>1. up' = Replaced(up, c, t)  BY <1>4 DEF Replaced
  <2> HIDE DEF c, h, t, x, y
  <2>2. LeavingDivided(c, t, i, j)
    BY ONLY <1>1, <1>2, <1>3, <2>1, i \in Replica, LeavingParts
  <2> QED  BY ONLY <2>2 DEF LeavingDivided
<1>8. r = i => a = <<>>  BY <1>4, <1>7, OlderDry
<1>9. \/ i = r /\ JustRead(i, j) = <<>> /\ JustRead(i, j)' \in {<<>>, x}
      \/ i # r /\ x = <<>> /\ JustRead(i, j)' = JustRead(i, j)
  <2>1. CASE i = r
    <3>1. reading[i] = None /\ reading'[i] \in {None, h}
      BY <1>1, <1>4, <2>1 DEF TypeOK
    <3> HIDE DEF h
    <3> QED  BY <2>1, <3>1 DEF JustRead, One
  <2>2. CASE i # r
    <3>1. reading'[i] = reading[i]  BY <1>1, <1>4, <2>2 DEF TypeOK
    <3>2. x = <<>>  BY <1>3, <2>2 DEF One
    <3> QED  BY <2>2, <3>1, <3>2 DEF JustRead
  <2> QED  BY <2>1, <2>2
<1>10. JustRead(i, j) \in S /\ JustRead(i, j)' \in S
  BY <1>1, BetweenNow, BetweenNext
<1> HIDE DEF x, y, S
<1>11. /\ Leaving(i, j) = a \o ((x \o y) \o b)
       /\ Leaving(i, j)' = a \o (y \o b)
  BY ONLY <1>5, <1>7 DEF y
<1>12. <<>> \in S /\ y \o b \in S  BY <1>5 DEF S
<1>13. Thin(JustRead(i, j)' \o Leaving(i, j)', JustRead(i, j) \o Leaving(i, j))
  <2>1. Regrouped(x, y, b)  BY ONLY <1>5, Regroup, b \in S DEF S
  <2>2. CASE i = r
    <3> DEFINE z == y \o b
               v == JustRead(i, j)'
    <3>1. a = <<>> /\ JustRead(i, j) = <<>>  BY <1>8, <1>9, <2>2
    <3>2. Leaving(i, j) = x \o z /\ Leaving(i, j)' = z
      <4>1. (x \o y) \o b = x \o z  BY ONLY <2>1 DEF Regrouped
      <4>2. z \in S /\ x \o z \in S  BY <1>5, <1>12 DEF S
      <4>3. <<>> \o (x \o z) = x \o z /\ <<>> \o z = z
        BY ONLY <4>2, ConcatEmptySeq DEF S
      <4> QED  BY ONLY <1>11, <3>1, <4>1, <4>3
    <3>3. Thin(v, x) /\ v \in S
      BY <1>5, <1>9, <1>10, <2>2, ThinNone, ThinSame DEF S
    <3> HIDE DEF z, v
    <3>4. z \in S  BY ONLY <1>12 DEF z
    <3>5. Thin(z, z)  BY ThinSame
    <3>6. Thin(v \o z, x \o z)
      BY ONLY <1>5, <3>3, <3>4, <3>5, ThinConcat DEF S
    <3>7. <<>> \o (x \o z) = x \o z
      <4>1. x \o z \in S  BY ONLY <1>5, <3>4 DEF S
      <4> QED  BY ONLY <4>1, ConcatEmptySeq DEF S
    <3> QED  BY ONLY <3>1, <3>2, <3>6, <3>7 DEF v
  <2>3. CASE i # r
    <3>1. x \o y = y  BY <1>5, <1>9, <2>3, ConcatEmptySeq DEF S
    <3>2. Leaving(i, j)' = Leaving(i, j)  BY ONLY <1>11, <3>1
    <3>3. JustRead(i, j)' = JustRead(i, j)  BY <1>9, <2>3
    <3> QED  BY ONLY <3>2, <3>3, ThinSame
  <2> QED  BY <2>2, <2>3
<1> QED  BY <1>1, <1>6, <1>13, WayThinned

\* append_server_trans_queue puts the message at the end of its server's queue.
LEMMA LoseEnqueue ==
    ASSUME FifoInv, TypeOK', NEW r \in Replica, Enqueue(r),
           NEW i \in Replica, NEW j \in Replica
    PROVE  Thin(Between(i, j)', Between(i, j))
<1> DEFINE m == reading[r]
<1>1. TypeOK  BY DEF FifoInv, MeshInv, SocketInv
<1>2. m \in Message /\ m # None /\ m.from = r
  BY <1>1 DEF Enqueue, TypeOK, FifoInv, MessagesPlaced, ReadFrom
<1>3. m.to \in Replica  BY <1>2 DEF Message
<1>4. /\ queue' = [queue EXCEPT ![m.to] = Append(@, m)]
      /\ reading' = [reading EXCEPT ![r] = None]
      /\ UNCHANGED <<cur, down, sending, up>>
  BY DEF Enqueue
<1>5. queue \in [Replica -> Seq(Message)] /\ DOMAIN reading = Replica
  BY <1>1 DEF TypeOK
<1>6. UNCHANGED <<Arriving(i, j), InHand(i, j), Leaving(i, j)>>
  BY <1>4 DEF Arriving, Inbound, InHand, Leaving
<1>7. JustRead(i, j)' = IF i = r THEN <<>> ELSE JustRead(i, j)
  BY <1>4, <1>5 DEF JustRead, One
<1>8. InQueue(i, j)' = IF j = m.to THEN InQueue(i, j) \o One(m, i, j)
                       ELSE InQueue(i, j)
  <2>1. CASE j = m.to
    <3>1. queue'[j] = Append(queue[j], m)  BY <1>3, <1>4, <1>5, <2>1
    <3> HIDE DEF m
    <3>2. Of(Append(queue[j], m), i, j) = Of(queue[j], i, j) \o One(m, i, j)
      BY <1>2, <1>5, OfAppend
    <3> QED  BY <2>1, <3>1, <3>2 DEF InQueue
  <2>2. CASE j # m.to
    <3>1. queue'[j] = queue[j]  BY <1>4, <1>5, <2>2
    <3> QED  BY <2>2, <3>1 DEF InQueue
  <2> QED  BY <2>1, <2>2
<1>9. InQueue(i, j) \in Seq(Message) /\ JustRead(i, j) \in Seq(Message)
  BY <1>1, BetweenNow
<1>10. InQueue(i, j)' \o JustRead(i, j)' = InQueue(i, j) \o JustRead(i, j)
  <2>1. CASE i = r /\ j = m.to
    <3>1. JustRead(i, j) = One(m, i, j)  BY <2>1 DEF JustRead
    <3> HIDE DEF m
    <3> DEFINE z == InQueue(i, j) \o One(m, i, j)
    <3>2. z \in Seq(Message)  BY <1>9, <3>1
    <3>3. z \o <<>> = z  BY ONLY <3>2, ConcatEmptySeq
    <3> QED  BY ONLY <1>7, <1>8, <2>1, <3>1, <3>3
  <2>2. CASE i = r /\ j # m.to
    <3>1. JustRead(i, j) = <<>>  BY <2>2 DEF JustRead, One
    <3> QED  BY <1>7, <1>8, <2>2, <3>1
  <2>3. CASE i # r
    <3>1. One(m, i, j) = <<>>  BY <1>2, <2>3 DEF One
    <3>2. InQueue(i, j) \o <<>> = InQueue(i, j)
      BY ONLY <1>9, ConcatEmptySeq
    <3> QED  BY ONLY <1>7, <1>8, <2>3, <3>1, <3>2
  <2> QED  BY <2>1, <2>2, <2>3
<1>11. Thin(InQueue(i, j)' \o JustRead(i, j)', InQueue(i, j) \o JustRead(i, j))
  BY ONLY <1>10, ThinSame
<1> QED  BY <1>1, <1>6, <1>11, WayThinned

\* The steps of send_handler: a message is taken, and written or dropped.
LEMMA LoseTake ==
    ASSUME FifoInv, TypeOK', NEW r \in Replica, TakeNext(r),
           NEW i \in Replica, NEW j \in Replica
    PROVE  Thin(Between(i, j)', Between(i, j))
<1>1. TypeOK  BY DEF FifoInv, MeshInv, SocketInv
<1>2. UNCHANGED <<Arriving(i, j), JustRead(i, j), Leaving(i, j)>>
  BY DEF TakeNext, Arriving, Inbound, JustRead, Leaving
<1>3. InHand(i, j)' \o InQueue(i, j)' = InHand(i, j) \o InQueue(i, j)
  <2>1. CASE j = r
    <3> DEFINE q == queue[r]
    <3>1. /\ q \in Seq(Message) /\ q # <<>> /\ sending[j] = None
          /\ sending'[j] = Head(q) /\ queue'[j] = Tail(q)
      BY <1>1, <2>1 DEF TakeNext, TypeOK
    <3>2. InHand(i, j) = <<>> /\ InHand(i, j)' = One(Head(q), i, j)
      BY <3>1 DEF InHand, One
    <3>3. InQueue(i, j) = Of(q, i, j) /\ InQueue(i, j)' = Of(Tail(q), i, j)
      BY <2>1, <3>1 DEF InQueue
    <3>4. Of(q, i, j) = One(Head(q), i, j) \o Of(Tail(q), i, j)
          /\ Of(q, i, j) \in Seq(Message)
      BY ONLY <3>1, OfTail
    <3>5. <<>> \o Of(q, i, j) = Of(q, i, j)  BY ONLY <3>4, ConcatEmptySeq
    <3> QED  BY ONLY <3>2, <3>3, <3>4, <3>5
  <2>2. CASE j # r
    BY <1>1, <2>2 DEF TakeNext, TypeOK, InHand, InQueue
  <2> QED  BY <2>1, <2>2
<1>4. Thin(InHand(i, j)' \o InQueue(i, j)', InHand(i, j) \o InQueue(i, j))
  BY ONLY <1>3, ThinSame
<1> QED  BY <1>1, <1>2, <1>4, WayThinned

\* What send_handler writes goes down its server's connection, or is lost; it
\* may reach another server, which has no use for it.
LEMMA LoseWrite ==
    ASSUME FifoInv, TypeOK', NEW r \in Replica, WriteMessage(r),
           NEW i \in Replica, NEW j \in Replica
    PROVE  Thin(Between(i, j)', Between(i, j))
<1> DEFINE c == IF sock[r] = 0 THEN 0 ELSE fdConn[sock[r]]
           m == sending[r]
<1>1. TypeOK  BY DEF FifoInv, MeshInv, SocketInv
<1>2. m \in Message /\ m # None /\ m.to = r
  BY <1>1 DEF WriteMessage, TypeOK, FifoInv, MessagesPlaced, QueuedTo
<1>3. /\ sending' = [sending EXCEPT ![r] = None]
      /\ \/ down' = down
         \/ c # 0 /\ c \notin gone /\ down' = [down EXCEPT ![c] = Append(@, m)]
      /\ UNCHANGED <<cur, up, queue, reading>>
  BY DEF WriteMessage
<1>4. c \in Conn \cup {0}  BY <1>1 DEF TypeOK
<1> HIDE DEF c
<1>5. c # 0 /\ c \notin gone => cur[owner[c]] = c /\ owner[c] \in Replica
  BY <1>1, <1>4, Typed DEF FifoInv, ConnsOrdered, CurIsLast
<1>6. down \in [Conn -> Seq(Message)] /\ cur \in [Replica -> Conn \cup {0}]
      /\ DOMAIN sending = Replica
  BY <1>1 DEF TypeOK
<1>7. UNCHANGED <<InQueue(i, j), JustRead(i, j), Leaving(i, j)>>
  BY <1>3 DEF InQueue, JustRead, Leaving
<1>8. InHand(i, j) = (IF j = r THEN One(m, i, j) ELSE InHand(i, j))
      /\ InHand(i, j)' = IF j = r THEN <<>> ELSE InHand(i, j)
  BY <1>3, <1>6 DEF InHand, One
<1>9. \/ Arriving(i, j)' = Arriving(i, j)
      \/ /\ owner[c] = j
         /\ Arriving(i, j)' = Arriving(i, j) \o One(m, i, j)
  <2>1. CASE Inbound(j)' = Inbound(j)  BY <2>1 DEF Arriving
  <2>2. CASE Inbound(j)' # Inbound(j)
    <3>1. /\ c # 0 /\ c \notin gone /\ cur[j] = c
          /\ down' = [down EXCEPT ![c] = Append(@, m)]
      BY <1>3, <1>4, <1>6, <2>2 DEF Inbound
    <3>2. owner[c] = j
      BY <3>1 DEF FifoInv, ConnsOrdered, CurIsLast
    <3>3. down[c] \in Seq(Message)  BY <1>4, <1>6, <3>1
    <3>4. Inbound(j) = down[c] /\ Inbound(j)' = Append(down[c], m)
      BY <1>3, <1>4, <1>6, <3>1 DEF Inbound
    <3> HIDE DEF m
    <3>5. Of(Append(down[c], m), i, j) = Of(down[c], i, j) \o One(m, i, j)
      BY ONLY <1>2, <3>3, OfAppend
    <3> QED  BY ONLY <3>2, <3>4, <3>5 DEF Arriving
  <2> QED  BY <2>1, <2>2
<1>10. /\ Arriving(i, j) \in Seq(Message) /\ InHand(i, j) \in Seq(Message)
       /\ Arriving(i, j) \o <<>> = Arriving(i, j)
  BY <1>1, BetweenNow, ConcatEmptySeq
<1>11. Thin(Arriving(i, j)' \o InHand(i, j)', Arriving(i, j) \o InHand(i, j))
  <2> DEFINE A == Arriving(i, j)
             H == InHand(i, j)
  <2>1. CASE j = r
    <3>1. InHand(i, j)' = <<>> /\ H = One(m, i, j)  BY <1>8, <2>1
    <3>2. A \in Seq(Message) /\ H \in Seq(Message) /\ A \o H \in Seq(Message)
      BY <1>10
    <3>3. Arriving(i, j)' = A \/ Arriving(i, j)' = A \o H
      BY ONLY <1>9, <3>1
    <3> HIDE DEF A, H
    <3>4. CASE Arriving(i, j)' = A
      <4>1. Thin(<<>>, H) /\ Thin(A, A) /\ <<>> \in Seq(Message)
        BY <3>2, ThinNone, ThinSame
      <4>2. Thin(A \o <<>>, A \o H)  BY ONLY <3>2, <4>1, ThinConcat
      <4> QED  BY ONLY <3>1, <3>4, <4>2 DEF A, H
    <3>5. CASE Arriving(i, j)' = A \o H
      <4>1. (A \o H) \o <<>> = A \o H  BY ONLY <3>2, ConcatEmptySeq
      <4>2. Arriving(i, j)' \o InHand(i, j)' = A \o H
        BY ONLY <3>1, <3>5, <4>1
      <4> QED  BY ONLY <4>2, ThinSame DEF A, H
    <3> QED  BY <3>3, <3>4, <3>5
  <2>2. CASE j # r
    <3>1. One(m, i, j) = <<>>  BY <1>2, <2>2 DEF One
    <3>2. Arriving(i, j)' = A /\ InHand(i, j)' = H
      BY ONLY <1>8, <1>9, <1>10, <2>2, <3>1
    <3> QED  BY ONLY <3>2, ThinSame
  <2> QED  BY <2>1, <2>2
<1> QED  BY <1>1, <1>7, <1>11, WayThinned

-----------------------------------------------------------------------------
\* What a server sends is the last of its messages on their way.
LEMMA SendAppends ==
    ASSUME FifoInv, TypeOK', NEW r \in Replica, NEW to \in Replica,
           ServerSend(r, to), NEW i \in Replica, NEW j \in Replica
    PROVE  LET m == [from |-> r, to |-> to, n |-> sent[r][to] + 1]
           IN  m \in Message /\ Between(i, j)' = Between(i, j) \o One(m, i, j)
<1> DEFINE c == cur[r]
           m == [from |-> r, to |-> to, n |-> sent[r][to] + 1]
           x == Append(up[c], m)
           S == Seq(Message)
<1>1. TypeOK /\ UpFrom /\ CurIsLast
  BY DEF FifoInv, MeshInv, SocketInv, MessagesPlaced, ConnsOrdered
<1>2. c \in Conn /\ owner[c] = r /\ up[c] \in S
      /\ \A k \in Conn : owner[k] = r => k <= c
  BY <1>1, Typed DEF ServerSend, CurIsLast
<1>3. m \in Message
  <2>1. sent[r][to] \in 0 .. MaxSent /\ sent[r][to] < MaxSent
    BY <1>1 DEF ServerSend, TypeOK
  <2>2. sent[r][to] + 1 \in 1 .. MaxSent  BY ONLY <2>1, MeshAssumption
  <2> QED  BY <2>2 DEF Message
<1>4. m.from = r  OBVIOUS
<1>5. up' = [up EXCEPT ![c] = x] /\ UNCHANGED <<cur, down, queue, reading, sending>>
  BY DEF ServerSend
<1> HIDE DEF m, c
<1>6. UNCHANGED <<Arriving(i, j), InHand(i, j), InQueue(i, j), JustRead(i, j)>>
  BY <1>5 DEF Arriving, Inbound, InHand, InQueue, JustRead
<1>7. x \in S  BY <1>2, <1>3
<1> DEFINE y == Of(up[c], i, j)
           z == One(m, i, j)
<1>8. Of(x, i, j) = y \o z  BY ONLY <1>2, <1>3, OfAppend
<1>9. y \in S /\ z \in S
  <2>1. up[c] \in Seq(Mail) /\ m \in Mail  BY ONLY <1>2, <1>3 DEF Mail
  <2> QED  BY ONLY <2>1, OfType, OneType
<1> HIDE DEF x
<1>10. PICK a, b \in S :
         /\ Leaving(i, j) = a \o (Of(up[c], i, j) \o b)
         /\ Leaving(i, j)' = a \o (Of(x, i, j) \o b)
         /\ (\A k \in Conn : owner[k] = i => k <= c) => b = <<>>
  <2>1. up' = Replaced(up, c, x)  BY <1>5 DEF Replaced
  <2>2. LeavingDivided(c, x, i, j)
    BY ONLY <1>1, <1>2, <1>7, <2>1, i \in Replica, LeavingParts
  <2> QED  BY ONLY <2>2 DEF LeavingDivided
<1>11. z = <<>> \/ b = <<>>
  <2>1. CASE i = r  BY <1>2, <1>10, <2>1
  <2>2. CASE i # r  BY <1>4, <2>2 DEF One
  <2> QED  BY <2>1, <2>2
<1>12. Leaving(i, j) = a \o (y \o b) /\ Leaving(i, j)' = a \o ((y \o z) \o b)
  BY ONLY <1>8, <1>10
<1> HIDE DEF y, z, S
<1>13. Leaving(i, j)' = Leaving(i, j) \o z /\ Leaving(i, j) \in S
  <2>1. Leaving(i, j) \in S  BY <1>1, BetweenNow DEF S
  <2>2. CASE z = <<>>
    <3>1. y \o z = y /\ Leaving(i, j) \o z = Leaving(i, j)
      BY ONLY <1>9, <2>1, <2>2, ConcatEmptySeq DEF S
    <3> QED  BY ONLY <1>12, <2>1, <3>1
  <2>3. CASE b = <<>>
    <3>1. y \o z \in S  BY <1>9 DEF S
    <3>2. y \o b = y /\ (y \o z) \o b = y \o z
      BY ONLY <1>9, <2>3, <3>1, ConcatEmptySeq DEF S
    <3>3. Regrouped(a, y, z)  BY ONLY <1>9, Regroup, a \in S DEF S
    <3> QED  BY ONLY <1>12, <2>1, <3>2, <3>3 DEF Regrouped
  <2> QED  BY <1>11, <2>2, <2>3
<1>14. Between(i, j)' = Between(i, j) \o z
  <2> DEFINE h == Arriving(i, j) \o InHand(i, j) \o InQueue(i, j) \o JustRead(i, j)
             u == Leaving(i, j)
  <2>1. Between(i, j) = h \o u /\ h \in S /\ u \in S
    <3>1. /\ Between(i, j) = h \o u /\ u \in S
          /\ Arriving(i, j) \in S /\ InHand(i, j) \in S
          /\ InQueue(i, j) \in S /\ JustRead(i, j) \in S
      BY ONLY <1>1, BetweenNow, i \in Replica, j \in Replica DEF S
    <3>2. Arriving(i, j) \o InHand(i, j) \in S  BY ONLY <3>1 DEF S
    <3>3. Arriving(i, j) \o InHand(i, j) \o InQueue(i, j) \in S
      BY ONLY <3>1, <3>2 DEF S
    <3>4. h \in S  BY ONLY <3>1, <3>3 DEF S
    <3> QED  BY ONLY <3>1, <3>4
  <2>2. Between(i, j)' = h \o (u \o z)
    BY <1>6, <1>13, BetweenNext
  <2> HIDE DEF h, u
  <2>3. Regrouped(h, u, z)  BY ONLY <1>9, <2>1, Regroup DEF S
  <2> QED  BY ONLY <2>1, <2>2, <2>3 DEF Regrouped
<1> QED  BY <1>3, <1>14 DEF z, m

\* What a step may do to the channels: they lose messages, or one of them
\* gets one.
ChannelsLose == \A i, j \in Replica : Thin(Between(i, j)', Between(i, j))
ChannelGets(r, to, m) == \A i, j \in Replica :
    Between(i, j)' = IF i = r /\ j = to THEN Append(Between(i, j), m)
                     ELSE Between(i, j)

\* One step of the mesh is one of the channels, or none.
LEMMA ChannelStep ==
    ASSUME FifoInv, TypeOK', [Next]_vars
    PROVE  \/ ChannelsLose
           \/ \E r, to \in Replica, m \in Message : ChannelGets(r, to, m)
<1>1. TypeOK  BY DEF FifoInv, MeshInv, SocketInv
<1>2. ASSUME NEW r \in Replica,
             EndRecv(r) \/ EndSend(r) \/ Toggle(r) \/ UNCHANGED vars,
             NEW i \in Replica, NEW j \in Replica
      PROVE  Thin(Between(i, j)', Between(i, j))
  <2>1. UNCHANGED <<cur, down, up, queue, reading, sending>>
    BY <1>2 DEF EndRecv, EndSend, Toggle, vars
  <2>2. UNCHANGED <<Arriving(i, j), InHand(i, j), InQueue(i, j),
                    JustRead(i, j), Leaving(i, j)>>
    BY ONLY <2>1 DEF Arriving, Inbound, InHand, InQueue, JustRead, Leaving
  <2> QED  BY <1>1, <2>2, ThinSteady
<1>3. ASSUME NEW r \in Replica, NEW to \in Replica, ServerSend(r, to)
      PROVE  ChannelsLose \/ \E m \in Message : ChannelGets(r, to, m)
  <2> DEFINE m == [from |-> r, to |-> to, n |-> sent[r][to] + 1]
  <2>1. m.from = r /\ m.to = to  OBVIOUS
  <2>2. \A i, j \in Replica :
            m \in Message /\ Between(i, j)' = Between(i, j) \o One(m, i, j)
    BY <1>3, SendAppends
  <2>3. m \in Message  BY <1>3, <2>2
  <2> HIDE DEF m
  <2>4. ASSUME NEW i \in Replica, NEW j \in Replica
        PROVE  Between(i, j)' = IF m # None /\ i = r /\ j = to
                                THEN Append(Between(i, j), m)
                                ELSE Between(i, j)
    <3>1. Between(i, j) \in Seq(Message)  BY <1>1, BetweenNow
    <3>2. Between(i, j)' = Between(i, j) \o One(m, i, j)  BY <2>2
    <3>3. CASE m # None /\ i = r /\ j = to
      <4>1. One(m, i, j) = <<m>>  BY <2>1, <3>3 DEF One
      <4>2. Append(Between(i, j), m) = Between(i, j) \o <<m>>
        BY ONLY <2>3, <3>1
      <4> QED  BY ONLY <3>2, <3>3, <4>1, <4>2
    <3>4. CASE ~(m # None /\ i = r /\ j = to)
      <4>1. One(m, i, j) = <<>>  BY <2>1, <3>4 DEF One
      <4>2. Between(i, j) \o <<>> = Between(i, j)
        BY ONLY <3>1, ConcatEmptySeq
      <4> QED  BY ONLY <3>2, <3>4, <4>1, <4>2
    <3> QED  BY <3>3, <3>4
  <2>5. CASE m = None
    <3>1. \A i, j \in Replica : Between(i, j)' = Between(i, j)
      BY ONLY <2>4, <2>5
    <3> QED  BY <3>1, ThinSame DEF ChannelsLose
  <2>6. CASE m # None
    <3>1. ChannelGets(r, to, m)  BY ONLY <2>4, <2>6 DEF ChannelGets
    <3> QED  BY ONLY <2>3, <3>1
  <2> QED  BY <2>5, <2>6
<1>4. CASE \E r, to \in Replica : ServerSend(r, to)
  BY ONLY <1>3, <1>4
<1>5. CASE ~ \E r, to \in Replica : ServerSend(r, to)
  <2> SUFFICES ASSUME NEW i \in Replica, NEW j \in Replica
               PROVE  Thin(Between(i, j)', Between(i, j))
    BY DEF ChannelsLose
  <2>1. CASE UNCHANGED vars  BY <1>2, <2>1
  <2>2. CASE Accept  BY <2>2, LoseAccept
  <2>3. CASE Install  BY <2>3, LoseInstall
  <2>4. ASSUME NEW r \in Replica, Connect(r)
        PROVE  Thin(Between(i, j)', Between(i, j))
    BY <2>4, LoseConnect
  <2>5. ASSUME NEW r \in Replica, ServerReceive(r) \/ ServerCrash(r)
        PROVE  Thin(Between(i, j)', Between(i, j))
    BY <2>5, LoseServer
  <2>6. ASSUME NEW r \in Replica, ReadMessage(r)
        PROVE  Thin(Between(i, j)', Between(i, j))
    BY <2>6, LoseRead
  <2>7. ASSUME NEW r \in Replica, Enqueue(r)
        PROVE  Thin(Between(i, j)', Between(i, j))
    BY <2>7, LoseEnqueue
  <2>8. ASSUME NEW r \in Replica, TakeNext(r)
        PROVE  Thin(Between(i, j)', Between(i, j))
    BY <2>8, LoseTake
  <2>9. ASSUME NEW r \in Replica, WriteMessage(r)
        PROVE  Thin(Between(i, j)', Between(i, j))
    BY <2>9, LoseWrite
  <2> QED
    BY <1>2, <1>5, <2>1, <2>2, <2>3, <2>4, <2>5, <2>6, <2>7, <2>8, <2>9
    DEF Next
<1> QED  BY <1>4, <1>5

\* Nothing is in any channel when the mesh starts.
LEMMA ChannelsStart == ASSUME Init PROVE Channels!Init
<1>1. TypeOK  BY MeshStart DEF MeshInv, SocketInv
<1>2. ASSUME NEW i \in Replica, NEW j \in Replica PROVE Between(i, j) = <<>>
  <2>1. /\ Inbound(j) = <<>> /\ sending[j] = None /\ queue[j] = <<>>
        /\ reading[i] = None /\ up = <<>>
    BY DEF Init, Inbound
  <2>2. One(None, i, j) = <<>>  BY DEF One
  <2>3. /\ Arriving(i, j) = <<>> /\ InHand(i, j) = <<>>
        /\ InQueue(i, j) = <<>> /\ JustRead(i, j) = <<>>
        /\ Leaving(i, j) = <<>>
    BY ONLY <2>1, <2>2, OfEmpty, FlatEmpty
    DEF Arriving, InHand, InQueue, JustRead, Leaving
  <2>4. Between(i, j) = <<>> \o <<>> \o <<>> \o <<>> \o <<>>
    BY ONLY <1>1, <2>3, BetweenNow, i \in Replica, j \in Replica
  <2> QED  BY ONLY <2>4
<1> QED  BY <1>2 DEF Channels!Init

-----------------------------------------------------------------------------
(* The theorems.                                                           *)

\* The invariant above holds in every reachable state of the mesh.
THEOREM MeshInvariant == Spec => []MeshInv
<1>1. Init => MeshInv  BY MeshStart
<1>2. MeshInv /\ [Next]_vars => MeshInv'  BY MeshNext
<1> QED  BY <1>1, <1>2, PTL DEF Spec

\* Every variable of the mesh keeps its type.
THEOREM MeshTyped == Spec => []TypeOK
<1>1. MeshInv => TypeOK  BY DEF MeshInv, SocketInv
<1> QED  BY <1>1, MeshInvariant, PTL

\* Servers that count as connected have sockets of their own, each open and
\* for the server's own connection: server_info_t of mesh.cpp.
THEOREM SocketsStayApart == Spec => []SocketsApart
<1>1. MeshInv => SocketsApart
  BY DEF MeshInv, SocketInv, ConnectedReads, RecvOwns, SocketsApart
<1> QED  BY <1>1, MeshInvariant, PTL

\* No more messages are written to another server than theirs than connections
\* were lost: send_handler of mesh.cpp, which sleeps with a socket it may lose.
THEOREM StraysAreFew == Spec => []OneStrayPerLoss
<1>1. MeshInv => OneStrayPerLoss
  <2> SUFFICES ASSUME MeshInv PROVE OneStrayPerLoss
    OBVIOUS
  <2>1. TypeOK  BY DEF MeshInv, SocketInv
  <2>2. Cardinality(Ended) <= Cardinality(gone)
    BY <2>1, CountsAreFinite, FS_Subset DEF Ended
  <2> QED
    BY <2>1, <2>2, CountsAreFinite DEF MeshInv, StraysCounted, OneStrayPerLoss
<1> QED  BY <1>1, MeshInvariant, PTL

\* The invariant the channels need holds in every reachable state of the mesh.
THEOREM FifoInvariant == Spec => []FifoInv
<1>1. Init => FifoInv  BY FifoStart
<1>2. FifoInv /\ [Next]_vars => FifoInv'
  <2> SUFFICES ASSUME FifoInv, [Next]_vars PROVE FifoInv'
    OBVIOUS
  <2>1. MeshInv'  BY MeshNext DEF FifoInv
  <2> QED  BY <2>1, PlacedNext, OrderedNext DEF FifoInv
<1> QED  BY <1>1, <1>2, PTL DEF Spec

\* The mesh is a channel from each server to each other one that may lose
\* messages and keeps the rest in the order in which they were sent.
THEOREM MeshIsLossyFifo == Spec => LossyFifo
<1>1. Init => Channels!Init  BY ChannelsStart
<1>2. FifoInv /\ FifoInv' /\ [Next]_vars =>
        [Channels!Lose \/ Channels!Receive \/ Channels!Send]_
            [i \in Replica |-> [j \in Replica |-> Between(i, j)]]
  <2> SUFFICES ASSUME FifoInv, FifoInv', [Next]_vars
               PROVE  Channels!Lose \/ Channels!Send
    OBVIOUS
  <2>1. TypeOK'  BY DEF FifoInv, MeshInv, SocketInv
  <2>2. CASE ChannelsLose
    BY <2>2 DEF ChannelsLose, Thin, Channels!Lose
  <2>3. ASSUME NEW r \in Replica, NEW to \in Replica, NEW m \in Message,
               ChannelGets(r, to, m)
        PROVE  Channels!Send
    <3> DEFINE b == [i \in Replica |-> [j \in Replica |-> Between(i, j)]]
               b2 == [i \in Replica |-> [j \in Replica |-> Between(i, j)']]
    <3>1. b2 = [b EXCEPT ![r][to] = Append(@, m)]
      BY ONLY <2>3, r \in Replica, to \in Replica DEF ChannelGets
    <3>2. b2 = b'  OBVIOUS
    <3> HIDE DEF b, b2
    <3>3. \E i, j \in Replica, n \in Message :
            b' = [b EXCEPT ![i][j] = Append(@, n)]
      BY ONLY <3>1, <3>2, r \in Replica, to \in Replica, m \in Message
    <3> QED  BY ONLY <3>3 DEF Channels!Send, b
  <2> QED  BY <2>1, <2>2, <2>3, ChannelStep
<1> QED  BY <1>1, <1>2, FifoInvariant, PTL DEF Spec, LossyFifo, Channels!Spec
=============================================================================
