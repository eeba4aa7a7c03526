---------------------------- MODULE InboxProofs -----------------------------
(***************************************************************************)
(* The shared queue and the streams that fill it, for any number of        *)
(* readers, pushes and messages and any sizes of nodes, maps, headers and  *)
(* bodies.                                                                 *)
(*                                                                         *)
(* Element k has one place in memory for good, in node (k - 1) \div        *)
(* NodeSize + 1; what moves is the map (Stored).  While no push has moved  *)
(* the map during a crossing, start and finish point at the places of the  *)
(* first and the next element and the map leads from one to the other      *)
(* (Led, InOrder): so the queue is first in, first out, and its size       *)
(* right.                                                                  *)
(*                                                                         *)
(* As long as no read has split a message, the bytes of a stream, on the   *)
(* wire and arrived, lie in their order without a gap (Laid), and a        *)
(* reader's next read begins where a header or its body begins (InStep):   *)
(* so messages arrive whole and in order.                                  *)
(***************************************************************************)
EXTENDS Inbox, FiniteSetTheorems, SequenceTheorems, TLAPS

-----------------------------------------------------------------------------
(* The inductive invariant of the queue.                                   *)

\* The lock, and what the pusher that holds it does.
Locking ==
    /\ \A p \in Pusher : pc[p] # "idle" =>
        lock = p /\ Len(pushed) < MaxPushes
    /\ \A p \in Pusher : pc[p] = "written" => finish.offset < NodeSize - 1
    /\ \A p \in Pusher : pc[p] = "moving" =>
        finish.offset = NodeSize - 1 /\ finish.place + 1 = mapSize

\* The number of the element at an offset of a node.
Before(node) == (node - 1) * NodeSize
Number(node, offset) == Before(node) + offset + 1

\* Pushed elements lie at their places, whatever happened to the map.
Stored ==
    /\ mem # <<>> /\ finish.node = Len(mem) /\ finish.place < mapSize
    /\ Len(pushed) + 1 = Number(finish.node, finish.offset)
    /\ \A n \in DOMAIN mem, o \in 0 .. NodeSize - 1 :
        Number(n, o) <= Len(pushed) => mem[n][o] = Number(n, o)
    /\ \A p \in Pusher : pc[p] = "written" =>
        mem[finish.node][finish.offset] = Len(pushed) + 1

Bounds ==
    /\ Len(pushed) <= MaxPushes
    /\ start.place \in Nat /\ moving \in Nat /\ crossing \in Nat
    /\ mapSize > 0

\* The map leads from start to finish through all the nodes between them.
Led ==
    /\ start.node \in DOMAIN mem
    /\ finish.place - start.place = finish.node - start.node
    /\ \A k \in start.place .. finish.place :
        k \in DOMAIN map /\ map[k] = start.node + (k - start.place)

\* What is popped is what was pushed, in order.
InOrder ==
    /\ Len(popped) + 1 = Number(start.node, start.offset)
    /\ Len(popped) <= Len(pushed)
    /\ \A k \in DOMAIN popped : popped[k] = k

\* No other thread has moved what a thread has read.
Undisturbed ==
    /\ \A p \in Pusher : pc[p] = "moving" => moving = start.place
    /\ consumer = "crossing" =>
        crossing = start.place /\ start.offset = NodeSize - 1
    /\ consumer # "idle" =>
        front = Len(popped) + 1 /\ Len(popped) < Len(pushed)

Sound == ~torn => Led /\ InOrder /\ Undisturbed

QueueInv == TypeOK /\ Locking /\ Stored /\ Bounds /\ Sound

-----------------------------------------------------------------------------
(* Places and numbers.                                                     *)

LEMMA BeforeNext ==
    ASSUME NEW n \in Int
    PROVE  Before(n) \in Int /\ Before(n + 1) = Before(n) + NodeSize
<1>1. NodeSize \in Int  BY QueueAssumption
<1>2. ASSUME NEW z \in Int PROVE ((n + 1) - 1) * z = (n - 1) * z + z
  OBVIOUS
<1>3. ASSUME NEW z \in Int PROVE (n - 1) * z \in Int
  OBVIOUS
<1> QED  BY <1>1, <1>2, <1>3 DEF Before

LEMMA BeforeMono ==
    ASSUME NEW m \in Int, NEW n \in Int, m <= n
    PROVE  Before(m) <= Before(n)
<1>1. NodeSize \in Nat  BY QueueAssumption
<1>2. ASSUME NEW z \in Nat PROVE (m - 1) * z <= (n - 1) * z
  <2>1. (n - 1) * z - (m - 1) * z = (n - m) * z  OBVIOUS
  <2>2. (n - m) * z >= 0  OBVIOUS
  <2>3. (n - 1) * z \in Int /\ (m - 1) * z \in Int /\ (n - m) * z \in Int
    OBVIOUS
  <2> QED  BY <2>1, <2>2, <2>3
<1> QED  BY <1>1, <1>2 DEF Before

LEMMA BeforeApart ==
    ASSUME NEW m \in Int, NEW n \in Int
    PROVE  Before(n) - Before(m) = NodeSize * (n - m)
<1>1. NodeSize \in Int  BY QueueAssumption
<1>2. ASSUME NEW z \in Int PROVE (n - 1) * z - (m - 1) * z = z * (n - m)
  OBVIOUS
<1> QED  BY <1>1, <1>2 DEF Before

LEMMA BeforeFirst == Before(1) = 0
<1>1. NodeSize \in Int  BY QueueAssumption
<1>2. ASSUME NEW z \in Int PROVE (1 - 1) * z = 0
  OBVIOUS
<1> QED  BY <1>1, <1>2 DEF Before

Offset == 0 .. NodeSize - 1

\* Where an element lies tells it from those behind it.
LEMMA NumberOrder ==
    ASSUME NEW m \in Int, NEW n \in Int, m < n, NEW o \in Offset, NEW q \in Offset
    PROVE  /\ Number(m, o) \in Int /\ Number(n, q) \in Int
           /\ Number(m, o) <= Before(n) /\ Before(n) < Number(n, q)
<1>1. NodeSize \in Int  BY QueueAssumption
<1>2. o \in Int /\ o <= NodeSize - 1 /\ q \in Int /\ q >= 0
  BY <1>1 DEF Offset
<1>3. m + 1 \in Int /\ m + 1 <= n  OBVIOUS
<1>4. Before(m + 1) <= Before(n)  BY <1>3, BeforeMono
<1>5. /\ Before(m) \in Int /\ Before(n) \in Int /\ Before(m + 1) \in Int
      /\ Before(m + 1) = Before(m) + NodeSize
  BY <1>3, BeforeNext
<1> QED  BY <1>1, <1>2, <1>4, <1>5 DEF Number

LEMMA NumberOnce ==
    ASSUME NEW m \in Int, NEW n \in Int, NEW o \in Offset, NEW q \in Offset,
           Number(m, o) = Number(n, q)
    PROVE  m = n /\ o = q
<1>1. NodeSize \in Int  BY QueueAssumption
<1>2. o \in Int /\ q \in Int  BY <1>1 DEF Offset
<1>3. ~(m < n)
  <2> SUFFICES ASSUME m < n PROVE FALSE
    OBVIOUS
  <2>1. /\ Number(m, o) \in Int /\ Number(n, q) \in Int /\ Before(n) \in Int
        /\ Number(m, o) <= Before(n) /\ Before(n) < Number(n, q)
    BY NumberOrder, BeforeNext
  <2> QED  BY <2>1
<1>4. ~(n < m)
  <2> SUFFICES ASSUME n < m PROVE FALSE
    OBVIOUS
  <2>1. /\ Number(m, o) \in Int /\ Number(n, q) \in Int /\ Before(m) \in Int
        /\ Number(n, q) <= Before(m) /\ Before(m) < Number(m, o)
    BY NumberOrder, BeforeNext
  <2> QED  BY <2>1
<1>5. m = n  BY <1>3, <1>4
<1>6. Before(m) \in Int  BY BeforeNext
<1> QED  BY <1>2, <1>5, <1>6 DEF Number

LEMMA NumberNext ==
    ASSUME NEW n \in Int, NEW o \in Int
    PROVE  /\ Number(n, o) \in Int
           /\ Number(n, o + 1) = Number(n, o) + 1
           /\ o = NodeSize - 1 => Number(n + 1, 0) = Number(n, o) + 1
<1>1. NodeSize \in Int  BY QueueAssumption
<1>2. Before(n) \in Int /\ Before(n + 1) = Before(n) + NodeSize  BY BeforeNext
<1> QED  BY <1>1, <1>2 DEF Number

\* The two ends, field by field.
LEMMA Ends ==
    ASSUME TypeOK
    PROVE  /\ NodeSize \in Nat \ {0} /\ Len(mem) \in Nat
           /\ DOMAIN mem = 1 .. Len(mem)
           /\ \A n \in DOMAIN mem : mem[n] \in [Offset -> 0 .. MaxPushes]
           /\ start = [place |-> start.place, node |-> start.node,
                       offset |-> start.offset]
           /\ finish = [place |-> finish.place, node |-> finish.node,
                        offset |-> finish.offset]
           /\ start.place \in Int /\ start.node \in 0 .. Len(mem)
           /\ start.offset \in Offset /\ start.offset \in Int
           /\ finish.place \in Int /\ finish.node \in 0 .. Len(mem)
           /\ finish.offset \in Offset /\ finish.offset \in Int
<1>1. NodeSize \in Nat \ {0}  BY QueueAssumption
<1>2. mem \in Seq([Offset -> 0 .. MaxPushes])  BY DEF TypeOK, Offset
<1>3. start \in End /\ finish \in End  BY DEF TypeOK
<1>4. Len(mem) \in Nat /\ DOMAIN mem = 1 .. Len(mem)
      /\ \A n \in DOMAIN mem : mem[n] \in [Offset -> 0 .. MaxPushes]
  BY <1>2
<1>5. /\ start = [place |-> start.place, node |-> start.node,
                  offset |-> start.offset]
      /\ start.place \in Int /\ start.node \in 0 .. Len(mem)
      /\ start.offset \in Offset
  BY <1>3 DEF End, Offset
<1>6. /\ finish = [place |-> finish.place, node |-> finish.node,
                   offset |-> finish.offset]
      /\ finish.place \in Int /\ finish.node \in 0 .. Len(mem)
      /\ finish.offset \in Offset
  BY <1>3 DEF End, Offset
<1>7. \A o \in Offset : o \in Int  BY <1>1 DEF Offset
<1> QED  BY <1>1, <1>4, <1>5, <1>6, <1>7

\* The size that the code computes from the two ends.
LEMMA SizeOfEnds ==
    ASSUME TypeOK, Led
    PROVE  Size = Number(finish.node, finish.offset)
                  - Number(start.node, start.offset)
<1>1. /\ start.node \in Int /\ finish.node \in Int
      /\ start.offset \in Int /\ finish.offset \in Int
  BY Ends
<1>2. finish.place - start.place = finish.node - start.node  BY DEF Led
<1>3. Before(start.node) \in Int /\ Before(finish.node) \in Int
  BY <1>1, BeforeNext
<1>4. NodeSize * (finish.node - start.node)
        = Before(finish.node) - Before(start.node)
  BY <1>1, BeforeApart
<1> QED  BY <1>1, <1>2, <1>3, <1>4 DEF Size, Number

-----------------------------------------------------------------------------
(* The steps of a push.                                                    *)

LEMMA QueueStart == Init => QueueInv
<1> SUFFICES ASSUME Init PROVE QueueInv
  OBVIOUS
<1> DEFINE end == [place |-> (FirstMapSize - 1) \div 2, node |-> 1, offset |-> 0]
<1>1. /\ NodeSize \in Nat \ {0} /\ FirstMapSize \in Nat \ {0} /\ MaxPushes \in Nat
      /\ None \notin Pusher
  BY QueueAssumption
<1>2. end.place \in Nat /\ end.place < FirstMapSize  BY <1>1
<1>3. /\ mapSize = FirstMapSize /\ start = end /\ finish = end /\ mem = <<Empty>>
      /\ map = [k \in 0 .. FirstMapSize - 1 |-> IF k = end.place THEN 1 ELSE 0]
      /\ lock = None /\ pc = [p \in Pusher |-> "idle"] /\ moving = 0
      /\ consumer = "idle" /\ front = 0 /\ crossing = 0 /\ torn = FALSE
      /\ pushed = <<>> /\ popped = <<>>
  BY DEF Init
<1>4. end = [place |-> end.place, node |-> 1, offset |-> 0]
      /\ end.node = 1 /\ end.offset = 0
  OBVIOUS
<1> HIDE DEF end
<1>5. Empty \in [Offset -> 0 .. MaxPushes]  BY <1>1 DEF Empty, Offset
<1>6. mem \in Seq([Offset -> 0 .. MaxPushes]) /\ Len(mem) = 1
      /\ DOMAIN mem = {1} /\ mem # <<>>
  BY <1>3, <1>5
<1>7. TypeOK
  <2>1. end \in End  BY <1>1, <1>2, <1>4, <1>6 DEF End
  <2>2. map \in [0 .. mapSize - 1 -> 0 .. Len(mem)]  BY <1>1, <1>3, <1>6
  <2>3. mem \in Seq([0 .. NodeSize - 1 -> 0 .. MaxPushes])  BY <1>6 DEF Offset
  <2>4. start \in End /\ finish \in End  BY <1>3, <2>1
  <2>5. pushed \in Seq(1 .. MaxPushes) /\ popped \in Seq(0 .. MaxPushes)
    BY <1>3
  <2>6. pc \in [Pusher -> {"idle", "pushing", "written", "moving"}]  BY <1>3
  <2>7. mapSize \in Nat /\ moving \in Int /\ crossing \in Int
        /\ front \in 0 .. MaxPushes /\ consumer = "idle" /\ torn = FALSE
        /\ lock = None
    BY <1>1, <1>3
  <2> QED  BY <2>2, <2>3, <2>4, <2>5, <2>6, <2>7 DEF TypeOK
<1>8. Locking  BY <1>3 DEF Locking
<1>9. Number(1, 0) = 1  BY BeforeFirst DEF Number
<1>10. Stored
  <2>1. \A n \in DOMAIN mem, o \in Offset : Number(n, o) > 0
    <3> SUFFICES ASSUME NEW o \in Offset PROVE Number(1, o) > 0
      BY <1>6
    <3> QED  BY <1>1, BeforeFirst DEF Number, Offset
  <2>2. \A n \in DOMAIN mem, o \in Offset : Number(n, o) \in Int
    BY <1>1, <1>6, NumberNext DEF Offset
  <2>3. Len(pushed) = 0  BY <1>3
  <2>4. \A n \in DOMAIN mem, o \in Offset : ~(Number(n, o) <= Len(pushed))
    BY <2>1, <2>2, <2>3
  <2>5. /\ finish.node = Len(mem) /\ finish.place < mapSize
        /\ Len(pushed) + 1 = Number(finish.node, finish.offset)
    BY <1>2, <1>3, <1>4, <1>6, <1>9, <2>3
  <2>6. \A p \in Pusher : pc[p] # "written"  BY <1>3
  <2> QED  BY <1>6, <2>4, <2>5, <2>6 DEF Stored, Offset
<1>11. Bounds  BY <1>1, <1>2, <1>3, <1>4 DEF Bounds
<1>12. Led
  <2>1. \A k \in start.place .. finish.place :
            k = end.place /\ k \in DOMAIN map /\ map[k] = 1
    BY <1>1, <1>2, <1>3
  <2>2. start.node = 1 /\ finish.node = 1 /\ start.place = finish.place
        /\ start.place \in Int
    BY <1>2, <1>3, <1>4
  <2> QED  BY <1>3, <1>6, <2>1, <2>2 DEF Led
<1>13. InOrder
  <2>1. Len(popped) = 0 /\ Len(pushed) = 0 /\ DOMAIN popped = {}  BY <1>3
  <2> QED  BY <1>3, <1>4, <1>9, <2>1 DEF InOrder
<1>14. Undisturbed  BY <1>3 DEF Undisturbed
<1> QED  BY <1>7, <1>8, <1>10, <1>11, <1>12, <1>13, <1>14 DEF QueueInv, Sound

\* One pusher at a time.
LEMMA Holder ==
    ASSUME Locking, NEW p \in Pusher, pc[p] # "idle", NEW q \in Pusher, q # p
    PROVE  pc[q] = "idle"
BY DEF Locking

LEMMA StepLock ==
    ASSUME QueueInv, NEW p \in Pusher, Lock(p)
    PROVE  QueueInv'
<1> USE DEF QueueInv
<1>1. /\ lock = None /\ Len(pushed) < MaxPushes /\ lock' = p
      /\ pc' = [pc EXCEPT ![p] = "pushing"]
      /\ UNCHANGED <<deque, moving, popper, torn, pushed, popped>>
  BY DEF Lock
<1>2. UNCHANGED <<mapSize, map, mem, start, finish, consumer, front, crossing>>
  BY <1>1 DEF deque, popper
<1>3. \A q \in Pusher : pc[q] = "idle"
  BY <1>1, QueueAssumption DEF Locking
<1>4. \A q \in Pusher : pc'[q] = IF q = p THEN "pushing" ELSE "idle"
  BY <1>1, <1>3 DEF TypeOK
<1>5. TypeOK'  BY <1>1, <1>2 DEF TypeOK, End
<1>6. Locking'  BY <1>1, <1>2, <1>4 DEF Locking
<1>7. Stored'  BY <1>1, <1>2, <1>4 DEF Stored
<1>8. Bounds'  BY <1>1, <1>2 DEF Bounds
<1>9. Sound'
  BY <1>1, <1>2, <1>4 DEF Sound, Led, InOrder, Undisturbed
<1> QED  BY <1>5, <1>6, <1>7, <1>8, <1>9

\* The next element, written at its place.
NextWritten == [mem EXCEPT ![finish.node][finish.offset] = Len(pushed) + 1]

LEMMA WriteNext ==
    ASSUME TypeOK, Stored, Len(pushed) < MaxPushes
    PROVE  /\ NextWritten \in Seq([Offset -> 0 .. MaxPushes])
           /\ Len(NextWritten) = Len(mem) /\ NextWritten # <<>>
           /\ DOMAIN NextWritten = DOMAIN mem
           /\ NextWritten[finish.node][finish.offset] = Len(pushed) + 1
           /\ \A n \in DOMAIN mem, o \in Offset :
                Number(n, o) <= Len(pushed) + 1 => NextWritten[n][o] = Number(n, o)
<1> DEFINE f == Len(pushed)
           m == finish.node
           q == finish.offset
<1>1. /\ f \in Nat /\ f + 1 \in 0 .. MaxPushes
      /\ MaxPushes \in Nat
  BY QueueAssumption DEF TypeOK
<1>2. /\ DOMAIN mem = 1 .. Len(mem) /\ Len(mem) \in Nat /\ m \in DOMAIN mem
      /\ m = Len(mem) /\ q \in Offset /\ q \in Int
      /\ \A n \in DOMAIN mem : mem[n] \in [Offset -> 0 .. MaxPushes]
      /\ mem \in Seq([Offset -> 0 .. MaxPushes])
  <2>1. mem # <<>> /\ m = Len(mem)  BY DEF Stored
  <2>2. mem \in Seq([Offset -> 0 .. MaxPushes])  BY DEF TypeOK, Offset
  <2>3. Len(mem) \in Nat /\ Len(mem) # 0  BY <2>1, <2>2
  <2> QED  BY <2>1, <2>2, <2>3, Ends
<1>3. f + 1 = Number(m, q)
      /\ \A n \in DOMAIN mem, o \in Offset :
            Number(n, o) <= f => mem[n][o] = Number(n, o)
  BY DEF Stored, Offset
<1>4. NextWritten = [mem EXCEPT ![m] = [mem[m] EXCEPT ![q] = f + 1]]
  BY DEF NextWritten
<1> HIDE DEF f, m, q
<1>5. [mem[m] EXCEPT ![q] = f + 1] \in [Offset -> 0 .. MaxPushes]
  BY <1>1, <1>2
<1>6. /\ NextWritten \in Seq([Offset -> 0 .. MaxPushes])
      /\ Len(NextWritten) = Len(mem) /\ DOMAIN NextWritten = DOMAIN mem
  BY <1>2, <1>4, <1>5
<1>7. NextWritten # <<>>
  <2>1. Len(NextWritten) # 0  BY <1>2, <1>6
  <2> QED  BY <2>1
<1>8. \A n \in DOMAIN mem, o \in Offset :
        NextWritten[n][o] = IF n = m /\ o = q THEN f + 1 ELSE mem[n][o]
  BY <1>2, <1>4
<1>9. ASSUME NEW n \in DOMAIN mem, NEW o \in Offset, Number(n, o) <= f + 1
      PROVE  NextWritten[n][o] = Number(n, o)
  <2>1. n \in Int /\ o \in Int /\ Number(n, o) \in Int
    <3>1. NodeSize \in Int  BY QueueAssumption
    <3>2. n \in Int /\ o \in Int  BY <1>2, <3>1 DEF Offset
    <3> QED  BY <3>2, NumberNext
  <2>2. CASE n = m /\ o = q  BY <1>3, <1>8, <2>2
  <2>3. CASE ~(n = m /\ o = q)
    <3>1. Number(n, o) # f + 1
      <4>1. m \in Int  BY <1>2
      <4> QED  BY <1>2, <1>3, <2>1, <2>3, <4>1, NumberOnce
    <3>2. Number(n, o) <= f  BY <1>1, <1>9, <2>1, <3>1
    <3> QED  BY <1>3, <1>8, <2>3, <3>2
  <2> QED  BY <2>2, <2>3
<1> QED  BY <1>2, <1>6, <1>7, <1>8, <1>9 DEF f, m, q

LEMMA StepPushWrite ==
    ASSUME QueueInv, NEW p \in Pusher, PushWrite(p)
    PROVE  QueueInv'
<1> USE DEF QueueInv
<1>1. /\ pc[p] = "pushing" /\ finish.offset < NodeSize - 1
      /\ mem' = NextWritten /\ pc' = [pc EXCEPT ![p] = "written"]
      /\ UNCHANGED <<mapSize, map, start, finish, lock, moving, popper, torn,
                     pushed, popped>>
  BY DEF PushWrite, NextWritten
<1>2. UNCHANGED <<consumer, front, crossing>>  BY <1>1 DEF popper
<1>3. lock = p /\ Len(pushed) < MaxPushes  BY <1>1 DEF Locking
<1>4. \A q \in Pusher : pc'[q] = IF q = p THEN "written" ELSE "idle"
  BY <1>1, Holder DEF TypeOK
<1>5. /\ mem' \in Seq([Offset -> 0 .. MaxPushes]) /\ Len(mem') = Len(mem)
      /\ mem' # <<>> /\ DOMAIN mem' = DOMAIN mem
      /\ mem'[finish.node][finish.offset] = Len(pushed) + 1
      /\ \A n \in DOMAIN mem, o \in Offset :
            Number(n, o) <= Len(pushed) + 1 => mem'[n][o] = Number(n, o)
  BY <1>1, <1>3, WriteNext
<1>6. TypeOK'
  <2>1. End' = End  BY <1>5 DEF End
  <2> QED  BY <1>1, <1>2, <1>5, <2>1 DEF TypeOK, Offset
<1>7. Locking'  BY <1>1, <1>3, <1>4 DEF Locking
<1>8. Stored'
  <2>1. \A n \in DOMAIN mem, o \in Offset :
            Number(n, o) <= Len(pushed) => Number(n, o) <= Len(pushed) + 1
    <3>1. Len(pushed) \in Int /\ NodeSize \in Int  BY QueueAssumption DEF TypeOK
    <3>2. \A n \in DOMAIN mem, o \in Offset : Number(n, o) \in Int
      BY <3>1, Ends, NumberNext DEF Offset
    <3> QED  BY <3>1, <3>2
  <2> QED  BY <1>1, <1>5, <2>1 DEF Stored, Offset
<1>9. Bounds'  BY <1>1, <1>2 DEF Bounds
<1>10. Sound'
  BY <1>1, <1>2, <1>4, <1>5 DEF Sound, Led, InOrder, Undisturbed
<1> QED  BY <1>6, <1>7, <1>8, <1>9, <1>10

\* What Pushed(p) adds.
LEMMA PushedMore ==
    ASSUME QueueInv, NEW p \in Pusher, pc[p] # "idle", Pushed(p)
    PROVE  /\ pushed' \in Seq(1 .. MaxPushes) /\ Len(pushed) \in Nat
           /\ Len(pushed') = Len(pushed) + 1 /\ Len(pushed) < MaxPushes
           /\ lock' = None /\ pc' \in [Pusher -> {"idle", "pushing", "written", "moving"}]
           /\ \A q \in Pusher : pc'[q] = "idle"
<1> USE DEF QueueInv
<1>1. /\ pushed \in Seq(1 .. MaxPushes) /\ MaxPushes \in Nat
      /\ Len(pushed) < MaxPushes
  BY QueueAssumption DEF TypeOK, Locking
<1>2. pushed' = Append(pushed, Len(pushed) + 1)
      /\ pc' = [pc EXCEPT ![p] = "idle"] /\ lock' = None
  BY DEF Pushed
<1>3. \A q \in Pusher : pc'[q] = "idle"  BY <1>2, Holder DEF TypeOK
<1>4. pc' \in [Pusher -> {"idle", "pushing", "written", "moving"}]
  BY <1>2 DEF TypeOK
<1>5. Len(pushed) + 1 \in 1 .. MaxPushes  BY <1>1
<1> QED  BY <1>1, <1>2, <1>3, <1>4, <1>5

LEMMA StepPushAdvance ==
    ASSUME QueueInv, NEW p \in Pusher, PushAdvance(p)
    PROVE  QueueInv'
<1> USE DEF QueueInv
<1>1. /\ pc[p] = "written" /\ Pushed(p)
      /\ finish' = [finish EXCEPT !.offset = finish.offset + 1]
      /\ UNCHANGED <<mapSize, map, mem, start, moving, popper, torn, popped>>
  BY DEF PushAdvance
<1>2. UNCHANGED <<consumer, front, crossing>>  BY <1>1 DEF popper
<1>3. /\ pushed' \in Seq(1 .. MaxPushes) /\ Len(pushed) \in Nat
      /\ Len(pushed') = Len(pushed) + 1 /\ Len(pushed) < MaxPushes
      /\ lock' = None /\ pc' \in [Pusher -> {"idle", "pushing", "written", "moving"}]
      /\ \A q \in Pusher : pc'[q] = "idle"
  BY <1>1, PushedMore
<1>4. /\ finish' = [place |-> finish.place, node |-> finish.node,
                    offset |-> finish.offset + 1]
      /\ finish'.place = finish.place /\ finish'.node = finish.node
      /\ finish'.offset = finish.offset + 1
  BY <1>1, Ends
<1>5. finish.offset + 1 \in Offset
  BY <1>1, Ends DEF Locking, Offset
<1>6. /\ finish.place \in Int /\ finish.node \in 0 .. Len(mem)
      /\ finish.node \in Int /\ finish.offset \in Int /\ finish.offset \in Offset
      /\ DOMAIN mem = 1 .. Len(mem) /\ NodeSize \in Nat \ {0} /\ Len(mem) \in Nat
      /\ \A o \in Offset : o \in Int
  BY Ends DEF Offset
<1>7. TypeOK'
  <2>1. End' = End  BY <1>1 DEF End
  <2>2. finish' \in End  BY <1>4, <1>5, <1>6 DEF End, Offset
  <2>3. lock' \in Pusher \cup {None}  BY <1>3
  <2> QED  BY <1>1, <1>2, <1>3, <2>1, <2>2, <2>3 DEF TypeOK
<1>8. Locking'  BY <1>3 DEF Locking
<1>9. Stored'
  <2>1. Len(pushed) + 1 = Number(finish.node, finish.offset)  BY DEF Stored
  <2>2. Len(pushed') + 1 = Number(finish'.node, finish'.offset)
    <3>1. Number(finish.node, finish.offset + 1)
            = Number(finish.node, finish.offset) + 1
      BY <1>6, NumberNext
    <3> QED  BY <1>3, <1>4, <2>1, <3>1
  <2>3. ASSUME NEW n \in DOMAIN mem, NEW o \in Offset,
               Number(n, o) <= Len(pushed) + 1
        PROVE  mem[n][o] = Number(n, o)
    <3>1. n \in Int /\ o \in Int /\ Number(n, o) \in Int
      BY <1>6, NumberNext
    <3>2. CASE Number(n, o) = Len(pushed) + 1
      <4>1. n = finish.node /\ o = finish.offset
        BY <1>6, <2>1, <3>1, <3>2, NumberOnce
      <4> QED  BY <1>1, <3>2, <4>1 DEF Stored
    <3>3. CASE Number(n, o) <= Len(pushed)  BY <3>3 DEF Stored, Offset
    <3> QED  BY <1>3, <2>3, <3>1, <3>2, <3>3
  <2> QED  BY <1>1, <1>3, <1>4, <2>2, <2>3 DEF Stored, Offset
<1>10. Bounds'  BY <1>1, <1>2, <1>3, QueueAssumption DEF Bounds
<1>11. Sound'
  <2> SUFFICES ASSUME ~torn PROVE Led' /\ InOrder' /\ Undisturbed'
    BY <1>1 DEF Sound
  <2>1. Led'  BY <1>1, <1>4 DEF Sound, Led
  <2>2. popped \in Seq(0 .. MaxPushes)  BY DEF TypeOK
  <2>3. InOrder'  BY <1>1, <1>3, <2>2 DEF Sound, InOrder
  <2>4. Undisturbed'  BY <1>1, <1>2, <1>3, <2>2 DEF Sound, Undisturbed
  <2> QED  BY <2>1, <2>3, <2>4
<1> QED  BY <1>7, <1>8, <1>9, <1>10, <1>11

LEMMA StepPushNewNode ==
    ASSUME QueueInv, NEW p \in Pusher, PushNewNode(p)
    PROVE  QueueInv'
<1> USE DEF QueueInv
<1> DEFINE n == Len(mem) + 1
<1>1. /\ pc[p] = "pushing" /\ finish.offset = NodeSize - 1
      /\ finish.place + 1 < mapSize /\ mem' = Append(NextWritten, Empty)
      /\ map' = [map EXCEPT ![finish.place + 1] = n]
      /\ finish' = [place |-> finish.place + 1, node |-> n, offset |-> 0]
      /\ Pushed(p)
      /\ UNCHANGED <<mapSize, start, moving, popper, torn, popped>>
  BY DEF PushNewNode, NextWritten
<1>2. UNCHANGED <<consumer, front, crossing>>  BY <1>1 DEF popper
<1>3. /\ pushed' \in Seq(1 .. MaxPushes) /\ Len(pushed) \in Nat
      /\ Len(pushed') = Len(pushed) + 1 /\ Len(pushed) < MaxPushes
      /\ lock' = None /\ pc' \in [Pusher -> {"idle", "pushing", "written", "moving"}]
      /\ \A q \in Pusher : pc'[q] = "idle"
  BY <1>1, PushedMore
<1>4. /\ finish.place \in Int /\ finish.node \in Int /\ finish.offset \in Int
      /\ finish.offset \in Offset /\ 0 \in Offset
      /\ DOMAIN mem = 1 .. Len(mem) /\ NodeSize \in Nat \ {0} /\ Len(mem) \in Nat
      /\ start.place \in Int /\ start.node \in 0 .. Len(mem)
      /\ \A o \in Offset : o \in Int
      /\ mapSize \in Nat /\ MaxPushes \in Nat
  BY Ends, QueueAssumption DEF Offset, TypeOK
<1>5. /\ NextWritten \in Seq([Offset -> 0 .. MaxPushes])
      /\ Len(NextWritten) = Len(mem) /\ DOMAIN NextWritten = DOMAIN mem
      /\ \A m \in DOMAIN mem, o \in Offset :
            Number(m, o) <= Len(pushed) + 1 => NextWritten[m][o] = Number(m, o)
  BY <1>3, WriteNext
<1>6. Empty \in [Offset -> 0 .. MaxPushes]  BY <1>4 DEF Empty, Offset
<1>7. /\ mem' \in Seq([Offset -> 0 .. MaxPushes]) /\ Len(mem') = n
      /\ DOMAIN mem' = DOMAIN mem \cup {n} /\ mem' # <<>>
      /\ \A m \in DOMAIN mem : mem'[m] = NextWritten[m]
  <2> DEFINE w == NextWritten
             e == Empty
             S == [Offset -> 0 .. MaxPushes]
  <2>1. w \in Seq(S) /\ e \in S /\ Len(w) = Len(mem) /\ DOMAIN w = DOMAIN mem
    BY <1>5, <1>6
  <2>2. mem' = Append(w, e)  BY <1>1
  <2> HIDE DEF w, e, S
  <2>3. /\ mem' \in Seq(S) /\ Len(mem') = n
        /\ DOMAIN mem' = DOMAIN mem \cup {n} /\ mem' # <<>>
        /\ \A m \in DOMAIN mem : mem'[m] = w[m]
    BY <1>4, <2>1, <2>2
  <2> QED  BY <2>3 DEF w, S
<1>8. finish'.place = finish.place + 1 /\ finish'.node = n /\ finish'.offset = 0
  BY <1>1
<1>9. n \in Nat /\ n \in Int /\ finish.node = Len(mem) /\ Len(mem) \in Int
  BY <1>4 DEF Stored
<1>10. TypeOK'
  <2>1. finish' \in End'  BY <1>1, <1>4, <1>7, <1>9 DEF End, Offset
  <2>2. start' \in End'
    <3>1. start \in End /\ start' = start  BY <1>1 DEF TypeOK
    <3> QED  BY <1>4, <1>7, <1>9, <3>1 DEF End
  <2>3. map' \in [0 .. mapSize' - 1 -> 0 .. Len(mem')]
    <3>1. map \in [0 .. mapSize - 1 -> 0 .. Len(mem)]  BY DEF TypeOK
    <3>2. 0 .. Len(mem) \subseteq 0 .. n /\ n \in 0 .. n  BY <1>4, <1>9
    <3>3. mapSize' = mapSize /\ Len(mem') = n  BY <1>1, <1>7
    <3> HIDE DEF n
    <3> QED  BY <1>1, <3>1, <3>2, <3>3
  <2>4. mem' \in Seq([0 .. NodeSize - 1 -> 0 .. MaxPushes])
    BY <1>7 DEF Offset
  <2>5. lock' \in Pusher \cup {None}  BY <1>3
  <2> QED  BY <1>1, <1>2, <1>3, <2>1, <2>2, <2>3, <2>4, <2>5 DEF TypeOK
<1>11. Locking'  BY <1>3 DEF Locking
<1>12. Stored'
  <2>1. Len(pushed) + 1 = Number(finish.node, finish.offset)  BY DEF Stored
  <2>2. Len(pushed') + 1 = Number(finish'.node, finish'.offset)
    <3>1. Number(finish.node + 1, 0) = Number(finish.node, finish.offset) + 1
      BY <1>1, <1>4, NumberNext
    <3> QED  BY <1>3, <1>8, <1>9, <2>1, <3>1
  <2>3. ASSUME NEW m \in DOMAIN mem', NEW o \in Offset,
               Number(m, o) <= Len(pushed) + 1
        PROVE  mem'[m][o] = Number(m, o)
    <3>1. CASE m \in DOMAIN mem  BY <1>5, <1>7, <2>3, <3>1
    <3>2. CASE m = n
      <4>1. finish.node < n  BY <1>9
      <4>2. /\ Number(finish.node, finish.offset) <= Before(n)
            /\ Before(n) < Number(n, o)
            /\ Number(finish.node, finish.offset) \in Int /\ Number(n, o) \in Int
            /\ Before(n) \in Int
        BY <1>4, <1>9, <4>1, NumberOrder, BeforeNext
      <4> HIDE DEF n
      <4> QED  BY <2>1, <2>3, <3>2, <4>2
    <3> QED  BY <1>7, <3>1, <3>2
  <2> QED  BY <1>1, <1>3, <1>7, <1>8, <2>2, <2>3 DEF Stored, Offset
<1>13. Bounds'  BY <1>1, <1>2, <1>3, <1>4 DEF Bounds
<1>14. Sound'
  <2> SUFFICES ASSUME ~torn PROVE Led' /\ InOrder' /\ Undisturbed'
    BY <1>1 DEF Sound
  <2>1. Led'
    <3>1. /\ start.node \in DOMAIN mem /\ start.place \in Nat
          /\ finish.place - start.place = Len(mem) - start.node
          /\ \A k \in start.place .. finish.place :
                k \in DOMAIN map /\ map[k] = start.node + (k - start.place)
      BY <1>9 DEF Sound, Led, Bounds
    <3>2. map \in [0 .. mapSize - 1 -> 0 .. Len(mem)]  BY DEF TypeOK
    <3>3. finish.place + 1 \in DOMAIN map
      <4>1. start.node \in Int /\ start.node <= Len(mem)  BY <1>4
      <4>2. finish.place >= start.place  BY <1>4, <3>1, <4>1
      <4>3. start.place \in Nat  BY <3>1
      <4>4. finish.place + 1 < mapSize  BY <1>1
      <4>5. finish.place \in Int /\ mapSize \in Nat  BY <1>4
      <4>6. finish.place + 1 \in 0 .. mapSize - 1
        BY ONLY <4>2, <4>3, <4>4, <4>5
      <4> QED  BY ONLY <3>2, <4>6
    <3>4. /\ DOMAIN map' = DOMAIN map /\ map'[finish.place + 1] = n
          /\ \A k \in DOMAIN map : k # finish.place + 1 => map'[k] = map[k]
      BY <1>1, <3>2, <3>3
    <3>5. ASSUME NEW k \in start.place .. finish.place + 1
          PROVE  k \in DOMAIN map' /\ map'[k] = start.node + (k - start.place)
      <4>1. CASE k = finish.place + 1
        <5> DEFINE i == finish.place
                   j == start.place
                   l == Len(mem)
                   m == start.node
        <5>1. /\ i \in Int /\ j \in Int /\ l \in Int /\ m \in Int
              /\ i - j = l - m
          BY <1>4, <3>1
        <5>2. k = i + 1 /\ n = l + 1 /\ map'[i + 1] = n /\ i + 1 \in DOMAIN map'
          BY <3>3, <3>4, <4>1
        <5> HIDE DEF i, j, l, m, n
        <5>3. l + 1 = m + (i + 1 - j)  BY ONLY <5>1
        <5>4. k \in Int /\ k = i + 1 /\ n = l + 1  BY <5>1, <5>2
        <5>5. n = m + (k - j)  BY ONLY <5>1, <5>3, <5>4
        <5>6. k \in DOMAIN map' /\ map'[k] = n  BY <5>2
        <5> QED  BY ONLY <5>5, <5>6 DEF m, j
      <4>2. CASE k # finish.place + 1
        <5>1. k \in start.place .. finish.place  BY <1>4, <4>2
        <5> QED  BY <3>1, <3>4, <4>2, <5>1
      <4> QED  BY <4>1, <4>2
    <3>6. finish'.place - start.place = finish'.node - start.node
      BY <1>4, <1>8, <3>1
    <3> QED  BY <1>1, <1>7, <1>8, <3>1, <3>5, <3>6 DEF Led
  <2>2. popped \in Seq(0 .. MaxPushes)  BY DEF TypeOK
  <2>3. InOrder'  BY <1>1, <1>3, <2>2 DEF Sound, InOrder
  <2>4. Undisturbed'  BY <1>1, <1>2, <1>3, <2>2 DEF Sound, Undisturbed
  <2> QED  BY <2>1, <2>3, <2>4
<1> QED  BY <1>10, <1>11, <1>12, <1>13, <1>14

LEMMA StepMoveRead ==
    ASSUME QueueInv, NEW p \in Pusher, MoveRead(p)
    PROVE  QueueInv'
<1> USE DEF QueueInv
<1>1. /\ pc[p] = "pushing" /\ finish.offset = NodeSize - 1
      /\ finish.place + 1 = mapSize /\ moving' = start.place
      /\ pc' = [pc EXCEPT ![p] = "moving"]
      /\ UNCHANGED <<deque, lock, popper, torn, pushed, popped>>
  BY DEF MoveRead
<1>2. UNCHANGED <<mapSize, map, mem, start, finish, consumer, front, crossing>>
  BY <1>1 DEF deque, popper
<1>3. \A q \in Pusher : pc'[q] = IF q = p THEN "moving" ELSE "idle"
  BY <1>1, Holder DEF TypeOK
<1>4. TypeOK'
  <2>1. start.place \in Int  BY Ends
  <2>2. pc' \in [Pusher -> {"idle", "pushing", "written", "moving"}]
    BY <1>1 DEF TypeOK
  <2>3. End' = End  BY <1>2 DEF End
  <2> QED  BY <1>1, <1>2, <2>1, <2>2, <2>3 DEF TypeOK
<1>5. Locking'  BY <1>1, <1>2, <1>3 DEF Locking
<1>6. Stored'  BY <1>1, <1>2, <1>3 DEF Stored
<1>7. Bounds'  BY <1>1, <1>2 DEF Bounds
<1>8. Sound'
  BY <1>1, <1>2, <1>3 DEF Sound, Led, InOrder, Undisturbed
<1> QED  BY <1>4, <1>5, <1>6, <1>7, <1>8

\* Both ends go by the same distance, and what lies between them goes along.
LEMMA StepMoveWrite ==
    ASSUME QueueInv, NEW p \in Pusher, MoveWrite(p)
    PROVE  QueueInv'
<1> USE DEF QueueInv
<1> DEFINE used == finish.place - moving + 1
           size == IF mapSize > 2 * (used + 1) THEN mapSize ELSE 2 * mapSize + 2
           first == (size - used - 1) \div 2
           Moved(k) == k \in first .. first + used - 1
           new == [k \in 0 .. size - 1 |->
                    CASE Moved(k) -> map[moving + k - first]
                      [] ~Moved(k) /\ size = mapSize -> map[k]
                      [] OTHER -> 0]
<1>1. /\ pc[p] = "moving" /\ mapSize' = size /\ map' = new
      /\ start' = [start EXCEPT !.place = first]
      /\ finish' = [finish EXCEPT !.place = first + used - 1]
      /\ pc' = [pc EXCEPT ![p] = "pushing"]
      /\ torn' = (torn \/ consumer = "crossing")
      /\ UNCHANGED <<mem, lock, moving, popper, pushed, popped>>
  BY DEF MoveWrite
<1>2. UNCHANGED <<consumer, front, crossing>>  BY <1>1 DEF popper
<1>3. /\ mapSize \in Nat /\ moving \in Nat /\ finish.place \in Int
      /\ finish.place + 1 = mapSize /\ mapSize > 0
      /\ map \in [0 .. mapSize - 1 -> 0 .. Len(mem)] /\ Len(mem) \in Nat
      /\ lock = p
  BY <1>1, Ends DEF TypeOK, Bounds, Locking
<1>4. used = mapSize - moving /\ used \in Int /\ used <= mapSize  BY <1>3
<1>5. /\ size \in Nat /\ size >= mapSize /\ size > 0
      /\ size - used - 1 >= 0 /\ used <= size /\ size - used - 1 \in Nat
  <2> HIDE DEF used
  <2>1. CASE mapSize > 2 * (used + 1)
    <3>1. size = mapSize  BY <2>1
    <3> HIDE DEF size
    <3> QED  BY <1>3, <1>4, <2>1, <3>1
  <2>2. CASE ~(mapSize > 2 * (used + 1))
    <3>1. size = 2 * mapSize + 2  BY <2>2
    <3> HIDE DEF size
    <3> QED  BY <1>3, <1>4, <2>2, <3>1
  <2> QED  BY <2>1, <2>2
<1>6. /\ first \in Nat /\ 2 * first <= size - used - 1
      /\ first + used - 1 \in Int /\ first + used - 1 < size
  <2> HIDE DEF size, used
  <2> QED  BY <1>4, <1>5
<1>7. \A k : Moved(k) => /\ k \in 0 .. size - 1
                         /\ moving + k - first \in 0 .. mapSize - 1
  <2> HIDE DEF size, first
  <2>1. used = mapSize - moving  BY <1>4
  <2> HIDE DEF used
  <2> QED  BY <1>3, <1>4, <1>5, <1>6, <2>1
<1>8. \A k \in 0 .. size - 1 :
        /\ new[k] \in 0 .. Len(mem)
        /\ Moved(k) => new[k] = map[moving + k - first]
  <2> SUFFICES ASSUME NEW k \in 0 .. size - 1
               PROVE  /\ new[k] \in 0 .. Len(mem)
                      /\ Moved(k) => new[k] = map[moving + k - first]
    OBVIOUS
  <2>1. CASE Moved(k)
    <3>1. new[k] = map[moving + k - first]  BY <2>1
    <3> HIDE DEF new, size, first, used
    <3> QED  BY <1>3, <1>7, <2>1, <3>1
  <2>2. CASE ~Moved(k) /\ size = mapSize
    <3>1. new[k] = map[k]  BY <2>2
    <3>2. map[k] \in 0 .. Len(mem)
      <4>1. k \in 0 .. mapSize - 1  BY <2>2
      <4> QED  BY <1>3, <4>1
    <3> QED  BY <2>2, <3>1, <3>2
  <2>3. CASE ~Moved(k) /\ size # mapSize
    <3>1. new[k] = 0  BY <2>3
    <3> HIDE DEF new, size, first, used
    <3> QED  BY <1>3, <2>3, <3>1
  <2> QED  BY <2>1, <2>2, <2>3
<1>9. new \in [0 .. size - 1 -> 0 .. Len(mem)]  BY <1>8
<1>10. /\ DOMAIN map' = 0 .. size - 1
       /\ \A k : Moved(k) => k \in DOMAIN map' /\ map'[k] = map[moving + k - first]
  BY <1>1, <1>7, <1>8
<1> HIDE DEF new, size
<1>11. /\ start' = [place |-> first, node |-> start.node, offset |-> start.offset]
       /\ start'.place = first /\ start'.node = start.node
       /\ start'.offset = start.offset
  BY <1>1, Ends
<1>12. /\ finish' = [place |-> first + used - 1, node |-> finish.node,
                     offset |-> finish.offset]
       /\ finish'.place = first + used - 1 /\ finish'.node = finish.node
       /\ finish'.offset = finish.offset
  BY <1>1, Ends
<1>13. \A q \in Pusher : pc'[q] = IF q = p THEN "pushing" ELSE "idle"
  BY <1>1, Holder DEF TypeOK
<1> HIDE DEF first, used
<1>14. TypeOK'
  <2>1. start' \in End' /\ finish' \in End'
    <3>1. /\ start.node \in 0 .. Len(mem) /\ start.offset \in 0 .. NodeSize - 1
          /\ finish.node \in 0 .. Len(mem) /\ finish.offset \in 0 .. NodeSize - 1
      BY Ends DEF Offset
    <3>2. first \in Int /\ first + used - 1 \in Int /\ mem' = mem  BY <1>1, <1>6
    <3>3. start' \in End  BY ONLY <1>11, <3>1, <3>2 DEF End
    <3>4. finish' \in End  BY ONLY <1>12, <3>1, <3>2 DEF End
    <3> QED  BY ONLY <3>2, <3>3, <3>4 DEF End
  <2>2. mapSize' \in Nat /\ map' \in [0 .. mapSize' - 1 -> 0 .. Len(mem')]
    BY <1>1, <1>5, <1>9
  <2>3. pc' \in [Pusher -> {"idle", "pushing", "written", "moving"}]
    BY <1>1 DEF TypeOK
  <2>4. torn' \in BOOLEAN /\ (~torn' => ~torn)  BY <1>1 DEF TypeOK
  <2> QED  BY <1>1, <1>2, <2>1, <2>2, <2>3, <2>4 DEF TypeOK
<1>15. Locking'
  <2>1. Len(pushed) < MaxPushes  BY <1>1 DEF Locking
  <2> QED  BY <1>1, <1>3, <1>13, <2>1 DEF Locking
<1>16. Stored'  BY <1>1, <1>6, <1>12, <1>13 DEF Stored
<1>17. Bounds'  BY <1>1, <1>2, <1>5, <1>6, <1>11 DEF Bounds
<1>18. Sound'
  <2> SUFFICES ASSUME ~torn, consumer # "crossing"
               PROVE  Led' /\ InOrder' /\ Undisturbed'
    BY <1>1 DEF Sound
  <2>1. /\ moving = start.place /\ used = finish.place - start.place + 1
        /\ start.place \in Int /\ finish.place \in Int /\ first \in Int
    <3>1. moving = start.place  BY <1>1 DEF Sound, Undisturbed
    <3> QED  BY <1>6, <3>1, Ends DEF used
  <2>2. /\ start.node \in DOMAIN mem /\ start.node \in Int
        /\ finish.place - start.place = finish.node - start.node
        /\ \A k \in start.place .. finish.place :
                k \in DOMAIN map /\ map[k] = start.node + (k - start.place)
    BY Ends DEF Sound, Led
  <2>3. finish'.place - start'.place = finish'.node - start'.node
    <3>1. (first + used - 1) - first = finish.place - start.place
      BY ONLY <2>1
    <3> QED  BY <1>11, <1>12, <2>2, <3>1
  <2>4. ASSUME NEW k \in first .. first + used - 1
        PROVE  k \in DOMAIN map' /\ map'[k] = start.node + (k - first)
    <3>1. k \in DOMAIN map' /\ map'[k] = map[moving + k - first]  BY <1>10
    <3>2. moving + k - first \in start.place .. finish.place
          /\ (moving + k - first) - start.place = k - first
      BY ONLY <2>1, k \in first .. first + used - 1
    <3> QED  BY <2>2, <3>1, <3>2
  <2>5. Led'  BY <1>1, <1>11, <1>12, <2>2, <2>3, <2>4 DEF Led
  <2>6. InOrder'  BY <1>1, <1>11 DEF Sound, InOrder
  <2>7. Undisturbed'  BY <1>1, <1>2, <1>11, <1>13 DEF Sound, Undisturbed
  <2> QED  BY <2>5, <2>6, <2>7
<1> QED  BY <1>14, <1>15, <1>16, <1>17, <1>18

-----------------------------------------------------------------------------
(* The steps of a pop.                                                     *)

\* Where the next element to pop lies, and where finish points.
LEMMA NextToPop ==
    ASSUME QueueInv, ~torn
    PROVE  /\ Len(popped) \in Nat /\ Len(pushed) \in Nat
           /\ Size = Len(pushed) - Len(popped)
           /\ Len(popped) < Len(pushed) => Element(start) = Len(popped) + 1
<1> USE DEF QueueInv
<1>1. pushed \in Seq(1 .. MaxPushes) /\ popped \in Seq(0 .. MaxPushes)
  BY DEF TypeOK
<1>2. Len(popped) \in Nat /\ Len(pushed) \in Nat  BY <1>1
<1>3. Led /\ InOrder  BY DEF Sound
<1>4. /\ Len(popped) + 1 = Number(start.node, start.offset)
      /\ Len(pushed) + 1 = Number(finish.node, finish.offset)
  BY <1>3 DEF InOrder, Stored
<1>5. Size = Len(pushed) - Len(popped)
  <2>1. Size = (Len(pushed) + 1) - (Len(popped) + 1)
    BY <1>3, <1>4, SizeOfEnds
  <2> QED  BY <1>2, <2>1
<1>6. ASSUME Len(popped) < Len(pushed)
      PROVE  Element(start) = Len(popped) + 1
  <2>1. start.node \in DOMAIN mem /\ start.node # 0 /\ start.offset \in Offset
    BY <1>3, Ends DEF Led
  <2>2. Number(start.node, start.offset) <= Len(pushed)
    BY <1>2, <1>4, <1>6
  <2>3. mem[start.node][start.offset] = Number(start.node, start.offset)
    BY <2>1, <2>2 DEF Stored, Offset
  <2> QED  BY <1>4, <2>1, <2>3 DEF Element
<1> QED  BY <1>2, <1>5, <1>6

LEMMA StepPopRead ==
    ASSUME QueueInv, PopRead
    PROVE  QueueInv'
<1> USE DEF QueueInv
<1>1. /\ consumer = "idle" /\ Size # 0 /\ front' = Element(start)
      /\ consumer' = "popping"
      /\ UNCHANGED <<deque, pushers, crossing, torn, pushed, popped>>
  BY DEF PopRead
<1>2. UNCHANGED <<mapSize, map, mem, start, finish, lock, pc, moving>>
  BY <1>1 DEF deque, pushers
<1>3. ~torn => front' = Len(popped) + 1 /\ Len(popped) < Len(pushed)
              /\ front' # 0
  <2> SUFFICES ASSUME ~torn
               PROVE  front' = Len(popped) + 1 /\ Len(popped) < Len(pushed)
                      /\ front' # 0
    OBVIOUS
  <2>1. Len(popped) \in Nat /\ Len(pushed) \in Nat /\ Len(popped) <= Len(pushed)
    BY NextToPop DEF Sound, InOrder
  <2>2. Len(popped) < Len(pushed)  BY <1>1, <2>1, NextToPop
  <2> QED  BY <1>1, <2>1, <2>2, NextToPop
<1>4. front' \in 0 .. MaxPushes
  <2>1. CASE start.node = 0  BY <1>1, <2>1, QueueAssumption DEF Element
  <2>2. CASE start.node # 0
    <3>1. start.node \in DOMAIN mem /\ start.offset \in Offset  BY <2>2, Ends
    <3>2. mem[start.node] \in [Offset -> 0 .. MaxPushes]  BY <3>1, Ends
    <3> QED  BY <1>1, <2>2, <3>1, <3>2 DEF Element
  <2> QED  BY <2>1, <2>2
<1>5. TypeOK'
  <2>1. End' = End  BY <1>2 DEF End
  <2> QED  BY <1>1, <1>2, <1>3, <1>4, <2>1 DEF TypeOK
<1>6. Locking'  BY <1>1, <1>2 DEF Locking
<1>7. Stored'  BY <1>1, <1>2 DEF Stored
<1>8. Bounds'  BY <1>1, <1>2 DEF Bounds
<1>9. Sound'
  BY <1>1, <1>2, <1>3 DEF Sound, Led, InOrder, Undisturbed
<1> QED  BY <1>5, <1>6, <1>7, <1>8, <1>9

\* The element that is popped is the next of those pushed.
LEMMA PoppedMore ==
    ASSUME QueueInv, popped' = Append(popped, front)
    PROVE  /\ popped' \in Seq(0 .. MaxPushes) /\ Len(popped) \in Nat
           /\ Len(popped') = Len(popped) + 1
           /\ ~torn /\ consumer # "idle" =>
                /\ Len(popped') <= Len(pushed)
                /\ \A k \in DOMAIN popped' : popped'[k] = k
<1> USE DEF QueueInv
<1>1. /\ popped \in Seq(0 .. MaxPushes) /\ front \in 0 .. MaxPushes
      /\ pushed \in Seq(1 .. MaxPushes)
  BY DEF TypeOK
<1>2. /\ popped' \in Seq(0 .. MaxPushes) /\ Len(popped) \in Nat
      /\ Len(popped') = Len(popped) + 1
      /\ Len(pushed) \in Nat
  BY <1>1
<1>3. ASSUME ~torn, consumer # "idle"
      PROVE  /\ Len(popped') <= Len(pushed)
             /\ \A k \in DOMAIN popped' : popped'[k] = k
  <2>1. front = Len(popped) + 1 /\ Len(popped) < Len(pushed)
    BY <1>3 DEF Sound, Undisturbed
  <2>2. \A k \in DOMAIN popped : popped[k] = k  BY <1>3 DEF Sound, InOrder
  <2>3. \A k \in DOMAIN popped' : popped'[k] = k  BY <1>1, <2>1, <2>2
  <2> QED  BY <1>2, <2>1, <2>3
<1> QED  BY <1>2, <1>3

LEMMA StepPopAdvance ==
    ASSUME QueueInv, PopAdvance
    PROVE  QueueInv'
<1> USE DEF QueueInv
<1>1. /\ consumer = "popping" /\ start.offset < NodeSize - 1
      /\ start' = [start EXCEPT !.offset = start.offset + 1]
      /\ popped' = Append(popped, front) /\ front' = 0 /\ consumer' = "idle"
      /\ UNCHANGED <<mapSize, map, mem, finish, pushers, crossing, torn, pushed>>
  BY DEF PopAdvance
<1>2. UNCHANGED <<lock, pc, moving>>  BY <1>1 DEF pushers
<1>3. /\ popped' \in Seq(0 .. MaxPushes) /\ Len(popped) \in Nat
      /\ Len(popped') = Len(popped) + 1
      /\ ~torn => /\ Len(popped') <= Len(pushed)
                  /\ \A k \in DOMAIN popped' : popped'[k] = k
  BY <1>1, PoppedMore
<1>4. /\ start' = [place |-> start.place, node |-> start.node,
                   offset |-> start.offset + 1]
      /\ start'.place = start.place /\ start'.node = start.node
      /\ start'.offset = start.offset + 1
  BY <1>1, Ends
<1>5. /\ start.place \in Int /\ start.node \in 0 .. Len(mem)
      /\ start.node \in Int /\ start.offset \in Int
      /\ start.offset + 1 \in Offset
  BY <1>1, Ends DEF Offset
<1>6. TypeOK'
  <2>1. End' = End  BY <1>1 DEF End
  <2>2. start' \in End  BY <1>4, <1>5 DEF End, Offset
  <2>3. 0 \in 0 .. MaxPushes  BY QueueAssumption
  <2> QED  BY <1>1, <1>2, <1>3, <2>1, <2>2, <2>3 DEF TypeOK
<1>7. Locking'  BY <1>1, <1>2 DEF Locking
<1>8. Stored'  BY <1>1, <1>2 DEF Stored
<1>9. Bounds'  BY <1>1, <1>2, <1>4 DEF Bounds
<1>10. Sound'
  <2> SUFFICES ASSUME ~torn PROVE Led' /\ InOrder' /\ Undisturbed'
    BY <1>1 DEF Sound
  <2>1. Led'  BY <1>1, <1>4 DEF Sound, Led
  <2>2. InOrder'
    <3>1. Len(popped) + 1 = Number(start.node, start.offset)
      BY DEF Sound, InOrder
    <3>2. Number(start.node, start.offset + 1)
            = Number(start.node, start.offset) + 1
      BY <1>5, NumberNext
    <3>3. Len(popped') + 1 = Number(start'.node, start'.offset)
      BY <1>3, <1>4, <3>1, <3>2
    <3> QED  BY <1>1, <1>3, <3>3 DEF InOrder
  <2>3. Undisturbed'  BY <1>1, <1>2, <1>4 DEF Sound, Undisturbed
  <2> QED  BY <2>1, <2>2, <2>3
<1> QED  BY <1>6, <1>7, <1>8, <1>9, <1>10

LEMMA StepCrossRead ==
    ASSUME QueueInv, CrossRead
    PROVE  QueueInv'
<1> USE DEF QueueInv
<1>1. /\ consumer = "popping" /\ start.offset = NodeSize - 1
      /\ crossing' = start.place /\ consumer' = "crossing"
      /\ UNCHANGED <<deque, pushers, front, torn, pushed, popped>>
  BY DEF CrossRead
<1>2. UNCHANGED <<mapSize, map, mem, start, finish, lock, pc, moving>>
  BY <1>1 DEF deque, pushers
<1>3. TypeOK'
  <2>1. End' = End  BY <1>2 DEF End
  <2>2. start.place \in Int  BY Ends
  <2> QED  BY <1>1, <1>2, <2>1, <2>2 DEF TypeOK
<1>4. Locking'  BY <1>1, <1>2 DEF Locking
<1>5. Stored'  BY <1>1, <1>2 DEF Stored
<1>6. Bounds'  BY <1>1, <1>2 DEF Bounds
<1>7. Sound'
  BY <1>1, <1>2 DEF Sound, Led, InOrder, Undisturbed
<1> QED  BY <1>3, <1>4, <1>5, <1>6, <1>7

\* A crossing that nothing disturbs ends at the next node: there is one.
LEMMA StepCrossWrite ==
    ASSUME QueueInv, CrossWrite
    PROVE  QueueInv'
<1> USE DEF QueueInv
<1> DEFINE next == IF crossing + 1 \in DOMAIN map THEN map[crossing + 1] ELSE 0
<1>1. /\ consumer = "crossing"
      /\ start' = [place |-> crossing + 1, offset |-> 0, node |-> next]
      /\ popped' = Append(popped, front) /\ front' = 0 /\ consumer' = "idle"
      /\ torn' = (torn \/ \E p \in Pusher : pc[p] = "moving")
      /\ UNCHANGED <<mapSize, map, mem, finish, pushers, crossing, pushed>>
  BY DEF CrossWrite
<1>2. UNCHANGED <<lock, pc, moving>>  BY <1>1 DEF pushers
<1>3. /\ popped' \in Seq(0 .. MaxPushes) /\ Len(popped) \in Nat
      /\ Len(popped') = Len(popped) + 1
      /\ ~torn => /\ Len(popped') <= Len(pushed)
                  /\ \A k \in DOMAIN popped' : popped'[k] = k
  BY <1>1, PoppedMore
<1>4. /\ start'.place = crossing + 1 /\ start'.node = next
      /\ start'.offset = 0
  BY <1>1
<1>5. next \in 0 .. Len(mem)
  <2>1. map \in [0 .. mapSize - 1 -> 0 .. Len(mem)] /\ 0 \in 0 .. Len(mem)
    BY Ends DEF TypeOK
  <2> QED  BY <2>1
<1>6. 0 \in Offset /\ crossing \in Nat  BY QueueAssumption DEF Offset, Bounds
<1> HIDE DEF next
<1>7. TypeOK'
  <2>1. End' = End  BY <1>1 DEF End
  <2>2. start' \in End  BY <1>1, <1>5, <1>6 DEF End, Offset
  <2>3. 0 \in 0 .. MaxPushes /\ torn' \in BOOLEAN
    BY <1>1, QueueAssumption DEF TypeOK
  <2> QED  BY <1>1, <1>2, <1>3, <2>1, <2>2, <2>3 DEF TypeOK
<1>8. Locking'  BY <1>1, <1>2 DEF Locking
<1>9. Stored'  BY <1>1, <1>2 DEF Stored
<1>10. Bounds'  BY <1>1, <1>2, <1>4, <1>6 DEF Bounds
<1>11. Sound'
  <2> SUFFICES ASSUME ~torn, \A p \in Pusher : pc[p] # "moving"
               PROVE  Led' /\ InOrder' /\ Undisturbed'
    BY <1>1 DEF Sound
  <2>1. /\ crossing = start.place /\ start.offset = NodeSize - 1
        /\ Len(popped) < Len(pushed)
    BY <1>1 DEF Sound, Undisturbed
  <2>2. /\ start.node \in DOMAIN mem
        /\ finish.place - start.place = finish.node - start.node
        /\ \A k \in start.place .. finish.place :
                k \in DOMAIN map /\ map[k] = start.node + (k - start.place)
        /\ Len(popped) + 1 = Number(start.node, start.offset)
    BY DEF Sound, Led, InOrder
  <2>3. /\ start.place \in Int /\ start.node \in Int /\ start.offset \in Int
        /\ start.offset \in Offset /\ finish.offset \in Offset
        /\ finish.place \in Int /\ finish.node \in Int
        /\ finish.node = Len(mem) /\ Len(mem) \in Nat
        /\ DOMAIN mem = 1 .. Len(mem)
    BY Ends DEF Stored
  <2>4. start.node < finish.node
    <3> SUFFICES ASSUME start.node = finish.node PROVE FALSE
      BY <2>2, <2>3
    <3>1. Len(pushed) + 1 = Number(finish.node, finish.offset)  BY DEF Stored
    <3>2. finish.offset \in Int /\ finish.offset <= NodeSize - 1
          /\ NodeSize \in Int
      BY Ends DEF Offset
    <3>3. Before(finish.node) \in Int  BY <2>3, BeforeNext
    <3>4. Len(pushed) \in Int  BY DEF TypeOK
    <3> QED  BY <1>3, <2>1, <2>2, <2>3, <3>1, <3>2, <3>3, <3>4 DEF Number
  <2>5. start.place + 1 \in start.place .. finish.place
    BY ONLY <2>2, <2>3, <2>4
  <2>6. next = start.node + 1
    <3> DEFINE a == start.place
               n == start.node
               b == finish.place
    <3>1. /\ a \in Int /\ n \in Int /\ a + 1 \in a .. b
          /\ \A k \in a .. b : k \in DOMAIN map /\ map[k] = n + (k - a)
      BY <2>2, <2>3, <2>5
    <3>2. crossing + 1 = a + 1  BY <2>1
    <3> HIDE DEF a, n, b
    <3>3. a + 1 \in DOMAIN map /\ map[a + 1] = n + (a + 1 - a)  BY ONLY <3>1
    <3>4. next = n + (a + 1 - a)  BY ONLY <3>2, <3>3 DEF next
    <3>5. next = n + 1  BY ONLY <3>1, <3>4
    <3> QED  BY ONLY <3>5 DEF n
  <2>7. Led'
    <3>1. next \in DOMAIN mem  BY <2>2, <2>3, <2>4, <2>6
    <3>2. finish.place - (start.place + 1) = finish.node - (start.node + 1)
      <4> DEFINE a == start.place
                 n == start.node
                 b == finish.place
                 m == finish.node
      <4>1. a \in Int /\ n \in Int /\ b \in Int /\ m \in Int /\ b - a = m - n
        BY <2>2, <2>3
      <4> HIDE DEF a, n, b, m
      <4>2. b - (a + 1) = m - (n + 1)  BY ONLY <4>1
      <4> QED  BY <4>2 DEF a, n, b, m
    <3>3. ASSUME NEW k \in start.place + 1 .. finish.place
          PROVE  k \in DOMAIN map /\ map[k] = start.node + 1 + (k - (start.place + 1))
      <4>1. k \in start.place .. finish.place /\ k \in Int  BY <2>3
      <4>2. k \in DOMAIN map /\ map[k] = start.node + (k - start.place)
        BY <2>2, <4>1
      <4> DEFINE a == start.place
                 n == start.node
      <4>3. a \in Int /\ n \in Int /\ k \in Int  BY <2>3, <4>1
      <4> HIDE DEF a, n
      <4>4. n + (k - a) = n + 1 + (k - (a + 1))  BY ONLY <4>3
      <4> QED  BY <4>2, <4>4 DEF a, n
    <3> QED  BY <1>1, <1>4, <2>1, <2>6, <3>1, <3>2, <3>3 DEF Led
  <2>8. InOrder'
    <3>1. Number(start.node + 1, 0) = Number(start.node, start.offset) + 1
      BY <2>1, <2>3, NumberNext
    <3>2. Len(popped') + 1 = Number(start'.node, start'.offset)
      BY <1>3, <1>4, <2>2, <2>6, <3>1
    <3> QED  BY <1>1, <1>3, <3>2 DEF InOrder
  <2>9. Undisturbed'  BY <1>1, <1>2 DEF Undisturbed
  <2> QED  BY <2>7, <2>8, <2>9
<1> QED  BY <1>7, <1>8, <1>9, <1>10, <1>11

\* One step of the queue.
LEMMA QueueStep ==
    ASSUME QueueInv, [Next]_vars
    PROVE  QueueInv'
<1>1. CASE UNCHANGED vars
  <2>1. /\ UNCHANGED <<mapSize, map, mem, start, finish, lock, pc, moving>>
        /\ UNCHANGED <<consumer, front, crossing, torn, pushed, popped>>
    BY <1>1 DEF vars, deque, pushers, popper
  <2>2. End' = End  BY <2>1 DEF End
  <2> QED  BY <2>1, <2>2 DEF QueueInv, TypeOK, Locking, Stored, Bounds, Sound,
                             Led, InOrder, Undisturbed
<1>2. ASSUME NEW p \in Pusher,
             Lock(p) \/ PushWrite(p) \/ PushAdvance(p) \/ PushNewNode(p)
             \/ MoveRead(p) \/ MoveWrite(p)
      PROVE  QueueInv'
  BY <1>2, StepLock, StepPushWrite, StepPushAdvance, StepPushNewNode,
     StepMoveRead, StepMoveWrite
<1>3. CASE PopRead \/ PopAdvance \/ CrossRead \/ CrossWrite
  BY <1>3, StepPopRead, StepPopAdvance, StepCrossRead, StepCrossWrite
<1> QED  BY <1>1, <1>2, <1>3 DEF Next

-----------------------------------------------------------------------------
(* The inductive invariant of the streams.                                 *)

\* The place of byte k of message m on the stream.
Frame == Header + Body
Place(m, k) == (m - 1) * Frame + k
PlaceOf(byte) == Place(byte[1], byte[2])

\* How many of the first k requests that were pushed are p's.
FromAmong(p, k) == Cardinality({j \in 1 .. k : carried[j].from = p})

\* How many messages p's reader has taken, and with them how many bytes; and
\* how many bytes p has written.
Taken(p) == FromAmong(p, Len(carried)) + IF inHand[p] = <<>> THEN 0 ELSE 1
Read(p) == Place(Taken(p) + 1, IF need[p] = 0 THEN 0 ELSE Header)
Written(p) == Place(sent[p], IF writing[p] THEN Header ELSE Frame)

\* Bytes w follow one another behind the first a of the stream.
Follows(w, a) == \A k \in DOMAIN w : PlaceOf(w[k]) = a + k

\* The pieces W of a stream are what lies between its first a bytes and the
\* first b.
From(w) == PlaceOf(w[1]) - 1
Laid(W, a, b) ==
    /\ \A i \in DOMAIN W : W[i] # <<>> /\ Follows(W[i], From(W[i]))
    /\ \A i \in DOMAIN W :
        From(W[i]) = IF i = 1 THEN a ELSE From(W[i - 1]) + Len(W[i - 1])
    /\ b = IF W = <<>> THEN a ELSE From(W[Len(W)]) + Len(W[Len(W)])

\* A reader that was never given fewer bytes than it asked for is in step.
InStep(p) ==
    /\ need[p] \in {0, Body}
    /\ inHand[p] # <<>> => need[p] = 0 /\ inHand[p] = Whole(Taken(p))
    /\ \A j \in DOMAIN carried :
        carried[j].from = p => carried[j].bytes = Whole(FromAmong(p, j))
    /\ Taken(p) <= sent[p]
    /\ Follows(arrived[p], Read(p))
    /\ Laid(wire[p], Read(p) + Len(arrived[p]), Written(p))

\* Bytes of the messages up to m.
UpTo(w, m) == \A k \in DOMAIN w : w[k][1] <= m
Begun(p) ==
    /\ writing[p] => sent[p] > 0
    /\ UpTo(arrived[p], sent[p])
    /\ \A i \in DOMAIN wire[p] : UpTo(wire[p][i], sent[p])

StreamInv ==
    /\ InboxTypeOK
    /\ \A p \in Pusher : Begun(p)
    /\ \A p \in Pusher : ~split[p] => InStep(p)

InboxInv == QueueInv /\ StreamInv

-----------------------------------------------------------------------------
(* Parts of sequences.                                                     *)

LEMMA EmptyOrNot ==
    ASSUME NEW S, NEW s \in Seq(S)
    PROVE  /\ Len(s) \in Nat /\ DOMAIN s = 1 .. Len(s)
           /\ s = <<>> <=> Len(s) = 0
           /\ s # <<>> => Len(s) > 0 /\ 1 \in DOMAIN s
BY EmptySeq, LenProperties

\* Elements i to j.
LEMMA Part ==
    ASSUME NEW S, NEW s \in Seq(S), NEW i \in Int, NEW j \in Int,
           0 < i, i <= j + 1, j <= Len(s)
    PROVE  /\ SubSeq(s, i, j) \in Seq(S) /\ Len(SubSeq(s, i, j)) = j - i + 1
           /\ DOMAIN SubSeq(s, i, j) = 1 .. j - i + 1
           /\ \A k \in 1 .. j - i + 1 :
                i - 1 + k \in DOMAIN s /\ SubSeq(s, i, j)[k] = s[i - 1 + k]
<1>1. Len(s) \in Nat /\ DOMAIN s = 1 .. Len(s)
      /\ \A k \in 1 .. Len(s) : s[k] \in S
  BY LenProperties
<1>2. \A k \in i .. j : s[k] \in S  BY <1>1
<1>3. /\ SubSeq(s, i, j) \in Seq(S)
      /\ Len(SubSeq(s, i, j)) = IF i <= j THEN j - i + 1 ELSE 0
      /\ \A k \in 1 .. j - i + 1 : SubSeq(s, i, j)[k] = s[i + k - 1]
  BY <1>2, SubSeqProperties
<1>4. Len(SubSeq(s, i, j)) = j - i + 1  BY <1>3
<1>5. ASSUME NEW k \in 1 .. j - i + 1
      PROVE  i - 1 + k \in DOMAIN s /\ SubSeq(s, i, j)[k] = s[i - 1 + k]
  <2>1. k \in Int /\ i - 1 + k = i + k - 1 /\ i - 1 + k \in 1 .. Len(s)
    BY <1>1
  <2> QED  BY <1>1, <1>3, <2>1
<1>6. DOMAIN SubSeq(s, i, j) = 1 .. j - i + 1  BY <1>3, <1>4, LenProperties
<1> QED  BY <1>3, <1>4, <1>5, <1>6

\* The first n elements, and the others.
LEMMA FirstPart ==
    ASSUME NEW S, NEW s \in Seq(S), NEW n \in Nat, n <= Len(s)
    PROVE  /\ SubSeq(s, 1, n) \in Seq(S) /\ Len(SubSeq(s, 1, n)) = n
           /\ DOMAIN SubSeq(s, 1, n) = 1 .. n
           /\ \A k \in 1 .. n : k \in DOMAIN s /\ SubSeq(s, 1, n)[k] = s[k]
<1>1. 1 \in Int /\ n \in Int /\ 0 < 1 /\ 1 <= n + 1  OBVIOUS
<1>2. n - 1 + 1 = n /\ \A k \in 1 .. n : 1 - 1 + k = k  OBVIOUS
<1>3. /\ SubSeq(s, 1, n) \in Seq(S) /\ Len(SubSeq(s, 1, n)) = n - 1 + 1
      /\ DOMAIN SubSeq(s, 1, n) = 1 .. n - 1 + 1
      /\ \A k \in 1 .. n - 1 + 1 :
            1 - 1 + k \in DOMAIN s /\ SubSeq(s, 1, n)[k] = s[1 - 1 + k]
  BY <1>1, Part
<1> QED  BY <1>2, <1>3

LEMMA LastPart ==
    ASSUME NEW S, NEW s \in Seq(S), NEW n \in Nat, n <= Len(s)
    PROVE  LET rest == SubSeq(s, n + 1, Len(s)) IN
           /\ rest \in Seq(S) /\ Len(rest) = Len(s) - n
           /\ DOMAIN rest = 1 .. Len(s) - n
           /\ \A k \in 1 .. Len(s) - n :
                n + k \in DOMAIN s /\ rest[k] = s[n + k]
<1> DEFINE i == n + 1
           j == Len(s)
           rest == SubSeq(s, i, j)
<1>1. j \in Nat  BY LenProperties
<1>2. /\ i \in Int /\ j \in Int /\ 0 < i /\ i <= j + 1 /\ j <= Len(s)
      /\ j - i + 1 = j - n /\ \A k \in 1 .. j - n : i - 1 + k = n + k
  BY <1>1
<1> HIDE DEF i, j
<1>3. /\ rest \in Seq(S) /\ Len(rest) = j - i + 1
      /\ DOMAIN rest = 1 .. j - i + 1
      /\ \A k \in 1 .. j - i + 1 :
                i - 1 + k \in DOMAIN s /\ rest[k] = s[i - 1 + k]
  BY <1>2, Part
<1> HIDE DEF rest
<1>4. /\ rest \in Seq(S) /\ Len(rest) = j - n /\ DOMAIN rest = 1 .. j - n
      /\ \A k \in 1 .. j - n : n + k \in DOMAIN s /\ rest[k] = s[n + k]
  BY ONLY <1>2, <1>3
<1> QED  BY <1>4 DEF rest, i, j

LEMMA Appended ==
    ASSUME NEW S, NEW s \in Seq(S), NEW e \in S
    PROVE  /\ Append(s, e) \in Seq(S) /\ Len(Append(s, e)) = Len(s) + 1
           /\ DOMAIN Append(s, e) = 1 .. Len(s) + 1 /\ Append(s, e) # <<>>
           /\ Append(s, e)[Len(s) + 1] = e
           /\ \A i \in DOMAIN s : Append(s, e)[i] = s[i]
<1>1. /\ Append(s, e) \in Seq(S) /\ Len(Append(s, e)) = Len(s) + 1
      /\ Append(s, e)[Len(s) + 1] = e
      /\ \A i \in DOMAIN s : Append(s, e)[i] = s[i]
      /\ Len(s) \in Nat
  OBVIOUS
<1> QED  BY <1>1, EmptyOrNot

LEMMA Tailed ==
    ASSUME NEW S, NEW s \in Seq(S), s # <<>>
    PROVE  /\ Tail(s) \in Seq(S) /\ Len(Tail(s)) = Len(s) - 1
           /\ DOMAIN Tail(s) = 1 .. Len(s) - 1
           /\ Tail(s) = <<>> <=> Len(s) = 1
           /\ \A i \in DOMAIN Tail(s) : i + 1 \in DOMAIN s /\ Tail(s)[i] = s[i + 1]
<1>1. Len(s) \in Nat /\ Len(s) > 0 /\ DOMAIN s = 1 .. Len(s)  BY EmptyOrNot
<1>2. /\ Tail(s) \in Seq(S) /\ Len(Tail(s)) = Len(s) - 1
      /\ \A i \in 1 .. Len(Tail(s)) : Tail(s)[i] = s[i + 1]
  BY HeadTailProperties
<1>3. DOMAIN Tail(s) = 1 .. Len(s) - 1 /\ (Tail(s) = <<>> <=> Len(Tail(s)) = 0)
  BY <1>2, EmptyOrNot
<1>4. \A i \in 1 .. Len(s) - 1 : i + 1 \in DOMAIN s  BY <1>1
<1>5. Tail(s) = <<>> <=> Len(s) = 1  BY <1>1, <1>2, <1>3
<1> QED  BY <1>1, <1>2, <1>3, <1>4, <1>5

-----------------------------------------------------------------------------
(* Bytes and their places.                                                 *)

LEMMA Lengths ==
    /\ Header \in Int /\ Body \in Int /\ Frame \in Int /\ Frame = Header + Body
    /\ 0 < Header /\ Header < Body
BY FramingAssumption DEF Frame

LEMMA PlaceNext ==
    ASSUME NEW m \in Int, NEW k \in Int, NEW j \in Int
    PROVE  /\ Place(m, k) \in Int /\ Place(m, k + j) = Place(m, k) + j
           /\ Place(m, k) = Place(m, 0) + k
           /\ Place(m + 1, 0) = Place(m, Frame)
<1>1. ASSUME NEW z \in Int
      PROVE  (m - 1) * z \in Int /\ ((m + 1) - 1) * z = (m - 1) * z + z
  OBVIOUS
<1>2. (m - 1) * Frame \in Int /\ ((m + 1) - 1) * Frame = (m - 1) * Frame + Frame
      /\ Frame \in Int
  BY <1>1, Lengths
<1> HIDE DEF Frame
<1> QED  BY <1>2 DEF Place

LEMMA PlaceOrder ==
    ASSUME NEW m \in Int, NEW n \in Int, m < n, NEW k \in Int, NEW j \in Int,
           k <= Frame, 0 < j
    PROVE  Place(m, k) < Place(n, j)
<1>1. Frame \in Nat  BY Lengths
<1>2. ASSUME NEW z \in Nat PROVE (m - 1) * z + z <= (n - 1) * z
  <2>1. (n - 1) * z - ((m - 1) * z + z) = (n - m - 1) * z  OBVIOUS
  <2>2. (n - m - 1) * z >= 0  OBVIOUS
  <2>3. (n - 1) * z \in Int /\ (m - 1) * z \in Int /\ (n - m - 1) * z \in Int
    OBVIOUS
  <2> QED  BY <2>1, <2>2, <2>3
<1>3. ASSUME NEW z \in Int PROVE (n - 1) * z \in Int /\ (m - 1) * z \in Int
  OBVIOUS
<1>4. /\ (m - 1) * Frame + Frame <= (n - 1) * Frame
      /\ (n - 1) * Frame \in Int /\ (m - 1) * Frame \in Int
  BY <1>1, <1>2, <1>3
<1> HIDE DEF Frame
<1> QED  BY <1>1, <1>4 DEF Place

\* A place is that of one byte.
LEMMA SameByte ==
    ASSUME NEW b \in Byte, NEW m \in Int, NEW k \in 1 .. Frame,
           PlaceOf(b) = Place(m, k)
    PROVE  b = <<m, k>>
<1>1. /\ b = <<b[1], b[2]>> /\ b[1] \in Int /\ b[2] \in Int
      /\ 0 < b[2] /\ b[2] <= Frame
  BY FramingAssumption DEF Byte, Frame
<1>2. k \in Int /\ 0 < k /\ k <= Frame  BY Lengths
<1>3. Place(b[1], b[2]) = Place(m, k)  BY DEF PlaceOf
<1>4. Place(m, k) \in Int /\ Place(b[1], b[2]) \in Int
  BY <1>1, <1>2, PlaceNext
<1>5. ~(b[1] < m)
  <2> SUFFICES ASSUME b[1] < m PROVE FALSE
    OBVIOUS
  <2>1. Place(b[1], b[2]) < Place(m, k)  BY <1>1, <1>2, PlaceOrder
  <2> QED  BY <1>3, <1>4, <2>1
<1>6. ~(m < b[1])
  <2> SUFFICES ASSUME m < b[1] PROVE FALSE
    OBVIOUS
  <2>1. Place(m, k) < Place(b[1], b[2])  BY <1>1, <1>2, PlaceOrder
  <2> QED  BY <1>3, <1>4, <2>1
<1>7. b[1] = m  BY <1>1, <1>5, <1>6
<1>8. b[2] = k
  <2>1. Place(m, k) = Place(m, 0) + k /\ Place(m, b[2]) = Place(m, 0) + b[2]
        /\ Place(m, 0) \in Int
    <3>1. 0 \in Int  OBVIOUS
    <3> QED  BY <1>1, <1>2, <3>1, PlaceNext
  <2> QED  BY <1>1, <1>2, <1>3, <1>7, <2>1
<1> QED  BY <1>1, <1>7, <1>8

LEMMA BytePlace ==
    ASSUME NEW b \in Byte
    PROVE  PlaceOf(b) \in Int
<1>1. b[1] \in Int /\ b[2] \in Int  BY FramingAssumption DEF Byte
<1> QED  BY <1>1, PlaceNext DEF PlaceOf

\* A header and a body on the stream.
LEMMA Frames ==
    ASSUME NEW m \in 1 .. MaxMessages
    PROVE  LET header == [k \in 1 .. Header |-> <<m, k>>] IN
           /\ header \in Seq(Byte) /\ header # <<>> /\ Len(header) = Header
           /\ From(header) = Place(m - 1, Frame) /\ Follows(header, From(header))
           /\ Whole(m) \in Seq(Byte) /\ Whole(m) # <<>> /\ Len(Whole(m)) = Body
           /\ From(Whole(m)) = Place(m, Header) /\ Follows(Whole(m), From(Whole(m)))
<1> DEFINE header == [k \in 1 .. Header |-> <<m, k>>]
<1>1. /\ m \in Int /\ m - 1 \in Int /\ (m - 1) + 1 = m
      /\ Header \in Nat /\ Body \in Nat /\ 0 < Header /\ 0 < Body
      /\ Frame = Header + Body
  BY FramingAssumption DEF Frame
<1>2. /\ \A k \in 1 .. Header : <<m, k>> \in Byte
      /\ \A k \in 1 .. Body : <<m, Header + k>> \in Byte
  BY <1>1 DEF Byte
<1>3. /\ header \in Seq(Byte) /\ Len(header) = Header /\ DOMAIN header = 1 .. Header
      /\ \A k \in 1 .. Header : header[k] = <<m, k>>
  BY <1>1, <1>2
<1>4. /\ Whole(m) \in Seq(Byte) /\ Len(Whole(m)) = Body
      /\ DOMAIN Whole(m) = 1 .. Body
      /\ \A k \in 1 .. Body : Whole(m)[k] = <<m, Header + k>>
  BY <1>1, <1>2 DEF Whole
<1> HIDE DEF header
<1>5. header # <<>> /\ Whole(m) # <<>>
  <2>1. Len(header) # 0 /\ Len(Whole(m)) # 0  BY <1>1, <1>3, <1>4
  <2> QED  BY <1>3, <1>4, <2>1, EmptyOrNot
<1>6. /\ \A k \in 1 .. Header : PlaceOf(header[k]) = Place(m, 0) + k
      /\ Place(m, 0) = Place(m - 1, Frame) /\ Place(m, 0) \in Int
  <2>1. ASSUME NEW k \in 1 .. Header PROVE PlaceOf(header[k]) = Place(m, 0) + k
    <3>1. k \in Int /\ 0 + k = k /\ 0 \in Int  OBVIOUS
    <3>2. PlaceOf(header[k]) = Place(m, k)  BY <1>3 DEF PlaceOf
    <3> QED  BY <1>1, <3>1, <3>2, PlaceNext
  <2>2. Place(m, 0) = Place(m - 1, Frame)
    <3>1. Place((m - 1) + 1, 0) = Place(m - 1, Frame)
      BY ONLY <1>1, PlaceNext, 0 \in Int
    <3> QED  BY <1>1, <3>1
  <2>3. Place(m, 0) \in Int  BY <1>1, PlaceNext
  <2> QED  BY <2>1, <2>2, <2>3
<1>7. /\ \A k \in 1 .. Body : PlaceOf(Whole(m)[k]) = Place(m, Header) + k
      /\ Place(m, Header) \in Int
  <2>1. ASSUME NEW k \in 1 .. Body
        PROVE  PlaceOf(Whole(m)[k]) = Place(m, Header) + k
    <3>1. k \in Int /\ Header \in Int  BY <1>1
    <3>2. PlaceOf(Whole(m)[k]) = Place(m, Header + k)  BY <1>4 DEF PlaceOf
    <3> QED  BY <1>1, <3>1, <3>2, PlaceNext
  <2> QED  BY <1>1, <2>1, PlaceNext
<1>8. /\ From(header) = Place(m - 1, Frame)
      /\ Follows(header, From(header))
  <2>1. PlaceOf(header[1]) = Place(m, 0) + 1  BY <1>1, <1>6
  <2>2. From(header) = Place(m, 0)  BY <1>6, <2>1 DEF From
  <2> QED  BY <1>3, <1>6, <2>2 DEF Follows
<1>9. /\ From(Whole(m)) = Place(m, Header)
      /\ Follows(Whole(m), From(Whole(m)))
  <2>1. PlaceOf(Whole(m)[1]) = Place(m, Header) + 1  BY <1>1, <1>7
  <2>2. From(Whole(m)) = Place(m, Header)  BY <1>7, <2>1 DEF From
  <2> QED  BY <1>4, <1>7, <2>2 DEF Follows
<1> QED  BY <1>3, <1>4, <1>5, <1>8, <1>9 DEF header

-----------------------------------------------------------------------------
(* The pieces of a stream.                                                 *)

LEMMA FromType ==
    ASSUME NEW w \in Seq(Byte), w # <<>>
    PROVE  From(w) \in Int /\ Len(w) \in Nat /\ Len(w) > 0 /\ 1 \in DOMAIN w
<1>1. Len(w) \in Nat /\ Len(w) > 0 /\ DOMAIN w = 1 .. Len(w)  OBVIOUS
<1>2. 1 \in DOMAIN w /\ w[1] \in Byte  BY <1>1
<1> QED  BY <1>1, <1>2, BytePlace DEF From

\* A write() puts a piece behind the others.
LEMMA LaidAppend ==
    ASSUME NEW W \in Seq(Seq(Byte)), NEW w \in Seq(Byte), w # <<>>,
           NEW a, NEW b, Laid(W, a, b), From(w) = b, Follows(w, From(w))
    PROVE  Laid(Append(W, w), a, b + Len(w))
<1> DEFINE V == Append(W, w)
<1>1. /\ V \in Seq(Seq(Byte)) /\ Len(W) \in Nat /\ Len(V) = Len(W) + 1
      /\ DOMAIN W = 1 .. Len(W) /\ DOMAIN V = 1 .. Len(W) + 1
      /\ V[Len(W) + 1] = w /\ \A i \in DOMAIN W : V[i] = W[i]
      /\ V # <<>>
  <2> DEFINE S == Seq(Byte)
  <2>1. W \in Seq(S) /\ w \in S  OBVIOUS
  <2> HIDE DEF S
  <2>2. /\ V \in Seq(S) /\ Len(V) = Len(W) + 1 /\ DOMAIN V = 1 .. Len(W) + 1
        /\ V[Len(W) + 1] = w /\ \A i \in DOMAIN W : V[i] = W[i]
        /\ V # <<>>
    BY ONLY <2>1, Appended
  <2>3. Len(W) \in Nat /\ DOMAIN W = 1 .. Len(W)  BY ONLY <2>1, EmptyOrNot
  <2> QED  BY <2>2, <2>3 DEF S
<1>2. W = <<>> <=> Len(W) = 0
  <2> DEFINE S == Seq(Byte)
  <2>1. W \in Seq(S)  OBVIOUS
  <2> HIDE DEF S
  <2> QED  BY ONLY <2>1, EmptyOrNot
<1> HIDE DEF V
<1>3. \A i \in DOMAIN V : i \in DOMAIN W \/ i = Len(W) + 1  BY <1>1
<1>4. \A i \in DOMAIN V : V[i] # <<>> /\ Follows(V[i], From(V[i]))
  BY <1>1, <1>3 DEF Laid
<1>5. ASSUME NEW i \in DOMAIN V
      PROVE  From(V[i]) = IF i = 1 THEN a ELSE From(V[i - 1]) + Len(V[i - 1])
  <2>1. CASE i \in DOMAIN W
    <3>1. i # 1 => i - 1 \in DOMAIN W  BY <1>1, <2>1
    <3> QED  BY <1>1, <2>1, <3>1 DEF Laid
  <2>2. CASE i = Len(W) + 1
    <3>1. CASE W = <<>>
      <4>1. i = 1  BY <1>2, <2>2, <3>1
      <4> QED  BY <1>1, <2>2, <3>1, <4>1 DEF Laid
    <3>2. CASE W # <<>>
      <4>1. i # 1 /\ i - 1 = Len(W) /\ Len(W) \in DOMAIN W
        BY <1>1, <1>2, <2>2, <3>2
      <4> QED  BY <1>1, <2>2, <3>2, <4>1 DEF Laid
    <3> QED  BY <3>1, <3>2
  <2> QED  BY <1>3, <2>1, <2>2
<1> QED  BY <1>1, <1>4, <1>5 DEF Laid, V

\* All that lay in the first piece has arrived.
LEMMA LaidTail ==
    ASSUME NEW W \in Seq(Seq(Byte)), W # <<>>, NEW a, NEW b, Laid(W, a, b)
    PROVE  Laid(Tail(W), a + Len(W[1]), b)
<1> DEFINE V == Tail(W)
<1>1. /\ V \in Seq(Seq(Byte)) /\ Len(W) \in Nat /\ Len(V) = Len(W) - 1
      /\ Len(W) > 0 /\ DOMAIN W = 1 .. Len(W) /\ DOMAIN V = 1 .. Len(W) - 1
      /\ \A i \in DOMAIN V : V[i] = W[i + 1]
      /\ V = <<>> <=> Len(W) = 1
  <2> DEFINE S == Seq(Byte)
  <2>1. W \in Seq(S) /\ W # <<>>  OBVIOUS
  <2> HIDE DEF S
  <2>2. Len(W) \in Nat /\ Len(W) > 0 /\ DOMAIN W = 1 .. Len(W)
    BY ONLY <2>1, EmptyOrNot
  <2>3. /\ V \in Seq(S) /\ Len(V) = Len(W) - 1 /\ DOMAIN V = 1 .. Len(W) - 1
        /\ V = <<>> <=> Len(W) = 1
        /\ \A i \in DOMAIN V : V[i] = W[i + 1]
    BY ONLY <2>1, Tailed
  <2> QED  BY <2>2, <2>3 DEF S
<1>2. 1 \in DOMAIN W  BY <1>1
<1> HIDE DEF V
<1>3. From(W[1]) = a  BY ONLY <1>2, Laid(W, a, b) DEF Laid
<1>4. \A i \in DOMAIN V : /\ i \in Int /\ i + 1 \in DOMAIN W
                          /\ i # 1 => i - 1 \in DOMAIN V
  <2> DEFINE l == Len(W)
  <2>1. l \in Int /\ DOMAIN W = 1 .. l /\ DOMAIN V = 1 .. l - 1  BY ONLY <1>1
  <2> HIDE DEF l
  <2>2. \A i \in 1 .. l - 1 : i \in Int /\ i + 1 \in 1 .. l
                               /\ (i # 1 => i - 1 \in 1 .. l - 1)
    BY ONLY <2>1
  <2> QED  BY ONLY <2>1, <2>2
<1>5. \A i \in DOMAIN V : V[i] # <<>> /\ Follows(V[i], From(V[i]))
  BY <1>1, <1>4 DEF Laid
<1>6. ASSUME NEW i \in DOMAIN V
      PROVE  From(V[i]) = IF i = 1 THEN a + Len(W[1])
                          ELSE From(V[i - 1]) + Len(V[i - 1])
  <2>1. /\ i + 1 \in DOMAIN W /\ i + 1 # 1 /\ i + 1 - 1 = i
        /\ V[i] = W[i + 1] /\ i \in Int
    BY <1>1, <1>4
  <2>2. From(W[i + 1]) = From(W[i]) + Len(W[i])  BY <2>1 DEF Laid
  <2>3. i # 1 => V[i - 1] = W[i]
    <3>0. SUFFICES ASSUME i # 1 PROVE V[i - 1] = W[i]
      OBVIOUS
    <3>1. i - 1 \in DOMAIN V /\ i \in Int  BY ONLY <1>4, <1>6, <3>0
    <3>2. i - 1 + 1 = i  BY ONLY <3>1
    <3> QED  BY ONLY <1>1, <3>1, <3>2
  <2> QED  BY <1>3, <2>1, <2>2, <2>3
<1>7. b = IF V = <<>> THEN a + Len(W[1])
          ELSE From(V[Len(V)]) + Len(V[Len(V)])
  <2>1. b = From(W[Len(W)]) + Len(W[Len(W)])  BY DEF Laid
  <2>2. CASE V = <<>>  BY <1>1, <1>3, <2>1, <2>2
  <2>3. CASE V # <<>>
    <3>1. Len(V) \in DOMAIN V /\ Len(V) + 1 = Len(W)  BY <1>1, <2>3
    <3> QED  BY <1>1, <2>1, <2>3, <3>1
  <2> QED  BY <2>2, <2>3
<1> QED  BY <1>5, <1>6, <1>7 DEF Laid, V

\* A part of it has.
LEMMA LaidCut ==
    ASSUME NEW W \in Seq(Seq(Byte)), W # <<>>, NEW a \in Int, NEW b,
           Laid(W, a, b), NEW n \in Nat, n < Len(W[1])
    PROVE  LET rest == SubSeq(W[1], n + 1, Len(W[1]))
           IN Laid([W EXCEPT ![1] = rest], a + n, b)
<1> DEFINE w == W[1]
           rest == SubSeq(w, n + 1, Len(w))
           V == [W EXCEPT ![1] = rest]
<1>1. /\ Len(W) \in Nat /\ Len(W) > 0 /\ DOMAIN W = 1 .. Len(W)
      /\ 1 \in DOMAIN W /\ w \in Seq(Byte)
  OBVIOUS
<1>2. /\ From(w) = a /\ w # <<>> /\ Follows(w, a)  BY <1>1 DEF Laid
<1>3. Len(w) \in Nat /\ DOMAIN w = 1 .. Len(w) /\ n < Len(w)
  BY <1>1
<1>4. /\ rest \in Seq(Byte) /\ Len(rest) = Len(w) - n
      /\ DOMAIN rest = 1 .. Len(w) - n
      /\ \A k \in 1 .. Len(w) - n : n + k \in DOMAIN w /\ rest[k] = w[n + k]
  <2> DEFINE l == Len(w)
  <2>1. n < l /\ n \in Nat /\ l \in Nat  BY <1>3
  <2> HIDE DEF l
  <2>2. n <= l  BY ONLY <2>1
  <2> HIDE DEF w
  <2> QED  BY <1>1, <2>2, LastPart DEF l
<1>5. /\ V \in Seq(Seq(Byte)) /\ Len(V) = Len(W) /\ DOMAIN V = DOMAIN W
      /\ V # <<>> /\ V[1] = rest
      /\ \A i \in DOMAIN W : i # 1 => V[i] = W[i]
  <2> HIDE DEF rest, w
  <2>1. /\ V \in Seq(Seq(Byte)) /\ Len(V) = Len(W) /\ DOMAIN V = DOMAIN W
        /\ V[1] = rest /\ \A i \in DOMAIN W : i # 1 => V[i] = W[i]
    BY <1>1, <1>4
  <2> QED  BY <1>1, <2>1
<1> HIDE DEF w, rest, V
<1>6. ASSUME NEW k \in DOMAIN rest PROVE PlaceOf(rest[k]) = a + n + k
  <2>1. k \in Int /\ n + k \in DOMAIN w /\ rest[k] = w[n + k]
    BY ONLY <1>4, <1>6
  <2>2. PlaceOf(w[n + k]) = a + (n + k)  BY ONLY <1>2, <2>1 DEF Follows
  <2>3. a + (n + k) = a + n + k  BY ONLY <2>1, a \in Int, n \in Nat
  <2> QED  BY ONLY <2>1, <2>2, <2>3
<1>7. /\ rest # <<>> /\ From(rest) = a + n /\ Follows(rest, From(rest))
      /\ From(rest) + Len(rest) = From(w) + Len(w)
  <2>1. Len(rest) # 0 /\ 1 \in DOMAIN rest
    <3> DEFINE l == Len(w)
    <3>1. l \in Nat /\ n \in Nat /\ n < l  BY <1>3
    <3>2. Len(rest) = l - n /\ DOMAIN rest = 1 .. l - n  BY <1>4
    <3> HIDE DEF l
    <3>3. l - n # 0 /\ 1 \in 1 .. l - n  BY ONLY <3>1
    <3> QED  BY ONLY <3>2, <3>3
  <2>2. rest # <<>>  BY <1>4, <2>1, EmptyOrNot
  <2>3. PlaceOf(rest[1]) = a + n + 1  BY <1>6, <2>1
  <2>4. From(rest) = a + n  BY <2>3 DEF From
  <2>5. Follows(rest, a + n)  BY <1>6 DEF Follows
  <2>6. a + n + (Len(w) - n) = a + Len(w)  BY <1>3
  <2> QED  BY <1>2, <1>4, <2>2, <2>4, <2>5, <2>6
<1>8. \A i \in DOMAIN V : V[i] # <<>> /\ Follows(V[i], From(V[i]))
  BY <1>5, <1>7 DEF Laid
<1>9. \A i \in DOMAIN W : From(V[i]) + Len(V[i]) = From(W[i]) + Len(W[i])
  BY <1>5, <1>7 DEF w
<1>10. ASSUME NEW i \in DOMAIN V
       PROVE  From(V[i]) = IF i = 1 THEN a + n
                           ELSE From(V[i - 1]) + Len(V[i - 1])
  <2>1. CASE i = 1  BY <1>5, <1>7, <2>1
  <2>2. CASE i # 1
    <3>1. i - 1 \in DOMAIN W  BY <1>1, <1>5, <2>2
    <3>2. From(W[i]) = From(W[i - 1]) + Len(W[i - 1])  BY <1>5, <2>2 DEF Laid
    <3> QED  BY <1>5, <1>9, <2>2, <3>1, <3>2
  <2> QED  BY <2>1, <2>2
<1>11. b = From(V[Len(V)]) + Len(V[Len(V)])
  <2>1. Len(W) \in DOMAIN W  BY <1>1
  <2> QED  BY <1>5, <1>9, <2>1 DEF Laid
<1> QED  BY <1>5, <1>8, <1>10, <1>11 DEF Laid, V, rest, w

-----------------------------------------------------------------------------
(* The steps of a stream.                                                  *)

LEMMA StreamTypes ==
    ASSUME InboxTypeOK
    PROVE  /\ sent \in [Pusher -> Nat] /\ writing \in [Pusher -> BOOLEAN]
           /\ wire \in [Pusher -> Seq(Seq(Byte))]
           /\ arrived \in [Pusher -> Seq(Byte)] /\ need \in [Pusher -> Int]
           /\ inHand \in [Pusher -> Seq(Byte)]
           /\ Len(carried) \in Nat /\ DOMAIN carried = 1 .. Len(carried)
<1>1. sent \in [Pusher -> Nat] /\ need \in [Pusher -> Int]
  BY FramingAssumption DEF InboxTypeOK
<1>2. Len(carried) \in Nat /\ DOMAIN carried = 1 .. Len(carried)
  BY LenProperties DEF InboxTypeOK
<1> QED  BY <1>1, <1>2 DEF InboxTypeOK

LEMMA FromAmongType ==
    ASSUME NEW p, NEW k \in Nat
    PROVE  /\ FromAmong(p, k) \in Nat
           /\ IsFiniteSet({j \in 1 .. k : carried[j].from = p})
<1>1. IsFiniteSet(1 .. k)  BY FS_Interval
<1>2. {j \in 1 .. k : carried[j].from = p} \subseteq 1 .. k  OBVIOUS
<1> HIDE DEF FromAmong
<1>3. IsFiniteSet({j \in 1 .. k : carried[j].from = p})
  BY <1>1, <1>2, FS_Subset
<1> QED  BY <1>3, FS_CardinalityType DEF FromAmong

LEMMA TakenType ==
    ASSUME InboxTypeOK, NEW p
    PROVE  Taken(p) \in Nat /\ Read(p) \in Int
<1>1. FromAmong(p, Len(carried)) \in Nat  BY StreamTypes, FromAmongType
<1>2. Taken(p) \in Nat  BY <1>1 DEF Taken
<1> DEFINE k == IF need[p] = 0 THEN 0 ELSE Header
<1>3. Taken(p) + 1 \in Int /\ k \in Int  BY <1>2, Lengths
<1> HIDE DEF k
<1>4. Place(Taken(p) + 1, k) \in Int  BY ONLY <1>3, PlaceNext, 0 \in Int
<1> QED  BY <1>2, <1>4 DEF Read, k

\* A stream that a step does not touch stays in step.
LEMMA Untouched ==
    ASSUME NEW q \in Pusher, InStep(q), sent'[q] = sent[q],
           writing'[q] = writing[q], wire'[q] = wire[q],
           arrived'[q] = arrived[q], need'[q] = need[q],
           inHand'[q] = inHand[q], UNCHANGED carried
    PROVE  InStep(q)'
<1>1. Taken(q)' = Taken(q)  BY DEF Taken, FromAmong
<1>2. Read(q)' = Read(q)  BY <1>1 DEF Read
<1>3. Written(q)' = Written(q)  BY DEF Written
<1> QED  BY <1>1, <1>2, <1>3 DEF InStep, FromAmong

LEMMA StepWriteHeader ==
    ASSUME StreamInv, NEW p \in Pusher, WriteHeader(p), TypeOK'
    PROVE  StreamInv'
<1> SUFFICES ASSUME InboxTypeOK, \A q \in Pusher : Begun(q),
                    \A q \in Pusher : ~split[q] => InStep(q)
             PROVE  /\ InboxTypeOK' /\ \A q \in Pusher : Begun(q)'
                    /\ \A q \in Pusher : ~split'[q] => InStep(q)'
  BY DEF StreamInv
<1> DEFINE m == sent[p] + 1
           header == [k \in 1 .. Header |-> <<m, k>>]
<1>1. /\ ~writing[p] /\ sent[p] < MaxMessages
      /\ sent' = [sent EXCEPT ![p] = m]
      /\ wire' = [wire EXCEPT ![p] = Append(wire[p], header)]
      /\ writing' = [writing EXCEPT ![p] = TRUE]
      /\ UNCHANGED <<vars, arrived, need, open, split, inHand, carried>>
  BY DEF WriteHeader
<1>2. /\ sent[p] \in Int /\ m \in 1 .. MaxMessages /\ m \in Int
      /\ wire[p] \in Seq(Seq(Byte)) /\ Header \in Int
      /\ m - 1 = sent[p] /\ sent[p] <= m
  <2>1. sent[p] \in Nat /\ wire[p] \in Seq(Seq(Byte))  BY StreamTypes
  <2>2. MaxMessages \in Nat /\ Header \in Int  BY FramingAssumption
  <2> DEFINE c == sent[p]
  <2>3. c \in Nat /\ c < MaxMessages  BY <1>1, <2>1
  <2> HIDE DEF c, header
  <2>4. /\ c + 1 \in 1 .. MaxMessages /\ c + 1 \in Int /\ c \in Int
        /\ c + 1 - 1 = c /\ c <= c + 1
    BY ONLY <2>2, <2>3
  <2> QED  BY <2>1, <2>2, <2>4 DEF c
<1>3. /\ header \in Seq(Byte) /\ header # <<>> /\ Len(header) = Header
      /\ From(header) = Place(sent[p], Frame) /\ Follows(header, From(header))
      /\ UpTo(header, m)
  <2>1. UpTo(header, m)  BY <1>2 DEF UpTo
  <2> QED  BY <1>2, <2>1, Frames
<1> HIDE DEF m, header
<1>4. Append(wire[p], header) \in Seq(Seq(Byte))
      /\ \A i \in DOMAIN Append(wire[p], header) :
            \/ i \in DOMAIN wire[p] /\ Append(wire[p], header)[i] = wire[p][i]
            \/ Append(wire[p], header)[i] = header
  <2> DEFINE S == Seq(Byte)
             W == wire[p]
  <2>1. W \in Seq(S) /\ header \in S  BY <1>2, <1>3
  <2> HIDE DEF S, W
  <2>2. Append(W, header) \in Seq(S)
        /\ \A i \in DOMAIN Append(W, header) :
            \/ i \in DOMAIN W /\ Append(W, header)[i] = W[i]
            \/ Append(W, header)[i] = header
    BY ONLY <2>1, Appended, EmptyOrNot
  <2> QED  BY <2>2 DEF S, W
<1>5. /\ sent'[p] = m /\ writing'[p] /\ wire'[p] = Append(wire[p], header)
      /\ \A q \in Pusher : q # p => /\ sent'[q] = sent[q] /\ wire'[q] = wire[q]
                                    /\ writing'[q] = writing[q]
  BY <1>1 DEF InboxTypeOK
<1>6. InboxTypeOK'
  <2>1. sent' \in [Pusher -> 0 .. MaxMessages]  BY <1>1, <1>2 DEF InboxTypeOK
  <2>2. wire' \in [Pusher -> Seq(Seq(Byte))]  BY <1>1, <1>4 DEF InboxTypeOK
  <2>3. writing' \in [Pusher -> BOOLEAN]  BY <1>1 DEF InboxTypeOK
  <2>4. UNCHANGED <<pc, pushed>>  BY <1>1 DEF vars, pushers
  <2> QED  BY <1>1, <2>1, <2>2, <2>3, <2>4 DEF InboxTypeOK
<1>7. ASSUME NEW q \in Pusher PROVE Begun(q)'
  <2>1. CASE q = p
    <3>1. sent'[p] > 0  BY <1>2, <1>5
    <3>2. UpTo(arrived[p], m) /\ \A i \in DOMAIN wire[p] : UpTo(wire[p][i], m)
      <4>1. ASSUME NEW w \in Seq(Byte), UpTo(w, sent[p]) PROVE UpTo(w, m)
        <5>1. \A k \in DOMAIN w : w[k][1] \in Int
          BY LenProperties, FramingAssumption DEF Byte
        <5> QED  BY <1>2, <4>1, <5>1 DEF UpTo
      <4>2. arrived[p] \in Seq(Byte) /\ \A i \in DOMAIN wire[p] : wire[p][i] \in Seq(Byte)
        BY <1>2, StreamTypes
      <4> QED  BY <4>1, <4>2 DEF Begun
    <3> QED  BY <1>1, <1>3, <1>4, <1>5, <2>1, <3>1, <3>2 DEF Begun
  <2>2. CASE q # p  BY <1>1, <1>5, <2>2 DEF Begun
  <2> QED  BY <2>1, <2>2
<1>8. ASSUME NEW q \in Pusher, ~split'[q] PROVE InStep(q)'
  <2>1. InStep(q)  BY <1>1, <1>8
  <2>2. CASE q # p  BY <1>1, <1>5, <2>1, <2>2, Untouched
  <2>3. CASE q = p
    <3>1. Taken(p)' = Taken(p) /\ Read(p)' = Read(p)
      BY <1>1 DEF Taken, Read, FromAmong
    <3>2. Written(p) = Place(sent[p], Frame)  BY <1>1 DEF Written
    <3>3. Written(p)' = Written(p) + Header
      <4>1. Written(p)' = Place(m, Header)  BY <1>5 DEF Written
      <4>2. Place(m, Header) = Place(m, 0) + Header  BY <1>2, PlaceNext
      <4>3. Place(sent[p] + 1, 0) = Place(sent[p], Frame)
        BY ONLY <1>2, PlaceNext, 0 \in Int
      <4> QED  BY <3>2, <4>1, <4>2, <4>3 DEF m
    <3>4. Laid(wire'[p], Read(p) + Len(arrived[p]), Written(p) + Header)
      BY <1>2, <1>3, <1>5, <2>1, <2>3, <3>2, LaidAppend DEF InStep
    <3>5. Taken(p) <= m
      <4>1. Taken(p) \in Int  BY TakenType
      <4> QED  BY <1>2, <2>1, <2>3, <4>1 DEF InStep
    <3> QED  BY <1>1, <1>5, <2>1, <2>3, <3>1, <3>3, <3>4, <3>5
             DEF InStep, FromAmong
  <2> QED  BY <2>2, <2>3
<1> QED  BY <1>6, <1>7, <1>8

LEMMA StepWriteBody ==
    ASSUME StreamInv, NEW p \in Pusher, WriteBody(p), TypeOK'
    PROVE  StreamInv'
<1> SUFFICES ASSUME InboxTypeOK, \A q \in Pusher : Begun(q),
                    \A q \in Pusher : ~split[q] => InStep(q)
             PROVE  /\ InboxTypeOK' /\ \A q \in Pusher : Begun(q)'
                    /\ \A q \in Pusher : ~split'[q] => InStep(q)'
  BY DEF StreamInv
<1> DEFINE m == sent[p]
<1>1. /\ writing[p] /\ wire' = [wire EXCEPT ![p] = Append(wire[p], Whole(m))]
      /\ writing' = [writing EXCEPT ![p] = FALSE]
      /\ UNCHANGED <<vars, sent, arrived, need, open, split, inHand, carried>>
  BY DEF WriteBody
<1>2. /\ m \in 1 .. MaxMessages /\ m \in Int /\ wire[p] \in Seq(Seq(Byte))
      /\ Header \in Int /\ Body \in Int
  <2>1. m > 0 /\ m \in 0 .. MaxMessages  BY <1>1 DEF Begun, InboxTypeOK
  <2> QED  BY <2>1, StreamTypes, FramingAssumption
<1> HIDE DEF m
<1>3. /\ Whole(m) \in Seq(Byte) /\ Whole(m) # <<>> /\ Len(Whole(m)) = Body
      /\ From(Whole(m)) = Place(m, Header) /\ Follows(Whole(m), From(Whole(m)))
      /\ UpTo(Whole(m), m)
  <2>1. UpTo(Whole(m), m)  BY <1>2 DEF UpTo, Whole
  <2> QED  BY <1>2, <2>1, Frames
<1>4. Append(wire[p], Whole(m)) \in Seq(Seq(Byte))
      /\ \A i \in DOMAIN Append(wire[p], Whole(m)) :
            \/ i \in DOMAIN wire[p] /\ Append(wire[p], Whole(m))[i] = wire[p][i]
            \/ Append(wire[p], Whole(m))[i] = Whole(m)
  <2> DEFINE S == Seq(Byte)
             W == wire[p]
             body == Whole(m)
  <2>1. W \in Seq(S) /\ body \in S  BY <1>2, <1>3
  <2> HIDE DEF S, W, body
  <2>2. Append(W, body) \in Seq(S)
        /\ \A i \in DOMAIN Append(W, body) :
            \/ i \in DOMAIN W /\ Append(W, body)[i] = W[i]
            \/ Append(W, body)[i] = body
    BY ONLY <2>1, Appended, EmptyOrNot
  <2> QED  BY <2>2 DEF S, W, body
<1>5. /\ ~writing'[p] /\ wire'[p] = Append(wire[p], Whole(m))
      /\ \A q \in Pusher : q # p => /\ wire'[q] = wire[q]
                                    /\ writing'[q] = writing[q]
  BY <1>1 DEF InboxTypeOK
<1>6. InboxTypeOK'
  <2>1. wire' \in [Pusher -> Seq(Seq(Byte))]  BY <1>1, <1>4 DEF InboxTypeOK
  <2>2. writing' \in [Pusher -> BOOLEAN]  BY <1>1 DEF InboxTypeOK
  <2>3. UNCHANGED <<pc, pushed>>  BY <1>1 DEF vars, pushers
  <2> QED  BY <1>1, <2>1, <2>2, <2>3 DEF InboxTypeOK
<1>7. ASSUME NEW q \in Pusher PROVE Begun(q)'
  <2>1. CASE q = p
    BY <1>1, <1>3, <1>4, <1>5, <2>1 DEF Begun, m
  <2>2. CASE q # p  BY <1>1, <1>5, <2>2 DEF Begun
  <2> QED  BY <2>1, <2>2
<1>8. ASSUME NEW q \in Pusher, ~split'[q] PROVE InStep(q)'
  <2>1. InStep(q)  BY <1>1, <1>8
  <2>2. CASE q # p  BY <1>1, <1>5, <2>1, <2>2, Untouched
  <2>3. CASE q = p
    <3>1. Taken(p)' = Taken(p) /\ Read(p)' = Read(p)
      BY <1>1 DEF Taken, Read, FromAmong
    <3>2. Written(p) = Place(m, Header)  BY <1>1 DEF Written, m
    <3>3. Written(p)' = Written(p) + Body
      <4>1. Written(p)' = Place(m, Frame)  BY <1>1, <1>5 DEF Written, m
      <4>2. Place(m, Header + Body) = Place(m, Header) + Body
        BY <1>2, PlaceNext
      <4> QED  BY <3>2, <4>1, <4>2 DEF Frame
    <3>4. Laid(wire'[p], Read(p) + Len(arrived[p]), Written(p) + Body)
      BY <1>2, <1>3, <1>5, <2>1, <2>3, <3>2, LaidAppend DEF InStep
    <3> QED  BY <1>1, <1>5, <2>1, <2>3, <3>1, <3>3, <3>4
             DEF InStep, FromAmong
  <2> QED  BY <2>2, <2>3
<1> QED  BY <1>6, <1>7, <1>8

LEMMA StepArrive ==
    ASSUME StreamInv, NEW p \in Pusher, NEW n \in 1 .. Body, Arrive(p, n), TypeOK'
    PROVE  StreamInv'
<1> SUFFICES ASSUME InboxTypeOK, \A q \in Pusher : Begun(q),
                    \A q \in Pusher : ~split[q] => InStep(q)
             PROVE  /\ InboxTypeOK' /\ \A q \in Pusher : Begun(q)'
                    /\ \A q \in Pusher : ~split'[q] => InStep(q)'
  BY DEF StreamInv
<1> DEFINE W == wire[p]
           w == W[1]
           got == SubSeq(w, 1, n)
           rest == SubSeq(w, n + 1, Len(w))
           V == IF n = Len(w) THEN Tail(W) ELSE [W EXCEPT ![1] = rest]
<1>1. /\ W # <<>> /\ n <= Len(w)
      /\ arrived' = [arrived EXCEPT ![p] = arrived[p] \o got]
      /\ wire' = [wire EXCEPT ![p] = V]
      /\ UNCHANGED <<vars, sent, writing, need, open, split, inHand, carried>>
  BY DEF Arrive
<1>2. /\ W \in Seq(Seq(Byte)) /\ arrived[p] \in Seq(Byte)
      /\ n \in Nat /\ n > 0
  BY StreamTypes
<1>3. 1 \in DOMAIN W /\ w \in Seq(Byte) /\ Len(w) \in Nat /\ DOMAIN w = 1 .. Len(w)
      /\ \A i \in DOMAIN W : W[i] \in Seq(Byte)
  <2> DEFINE S == Seq(Byte)
  <2>1. W \in Seq(S) /\ W # <<>>  BY <1>1, <1>2
  <2> HIDE DEF S
  <2>2. 1 \in DOMAIN W /\ \A i \in DOMAIN W : W[i] \in S
    BY ONLY <2>1, EmptyOrNot, LenProperties
  <2>3. w \in S  BY <2>2
  <2> QED  BY <2>2, <2>3, LenProperties DEF S
<1> HIDE DEF W, w
<1>4. /\ got \in Seq(Byte) /\ Len(got) = n /\ DOMAIN got = 1 .. n
      /\ \A k \in 1 .. n : k \in DOMAIN w /\ got[k] = w[k]
  BY <1>1, <1>2, <1>3, FirstPart
<1>5. ASSUME n # Len(w)
      PROVE  /\ n < Len(w) /\ rest \in Seq(Byte)
             /\ \A k \in DOMAIN rest : n + k \in DOMAIN w /\ rest[k] = w[n + k]
  <2> DEFINE l == Len(w)
  <2>1. n <= l /\ n # l /\ n \in Nat /\ l \in Nat /\ w \in Seq(Byte)
    BY <1>1, <1>2, <1>3, <1>5
  <2>2. n <= Len(w)  BY <2>1
  <2> HIDE DEF l
  <2>3. n < l  BY ONLY <2>1
  <2>4. /\ rest \in Seq(Byte) /\ DOMAIN rest = 1 .. Len(w) - n
        /\ \A k \in 1 .. Len(w) - n : n + k \in DOMAIN w /\ rest[k] = w[n + k]
    BY ONLY <2>1, <2>2, LastPart
  <2> QED  BY <2>3, <2>4 DEF l
<1>6. V \in Seq(Seq(Byte)) /\ \A i \in DOMAIN V :
        (\E j \in DOMAIN W : V[i] = W[j]) \/ (n # Len(w) /\ V[i] = rest)
  <2> DEFINE S == Seq(Byte)
  <2>1. W \in Seq(S) /\ W # <<>> /\ (n # Len(w) => rest \in S)
    BY <1>1, <1>2, <1>5
  <2> HIDE DEF S, rest
  <2>2. CASE n = Len(w)
    <3>1. V = Tail(W)  BY <2>2
    <3> QED  BY ONLY <2>1, <3>1, Tailed DEF S
  <2>3. CASE n # Len(w)
    <3>1. V = [W EXCEPT ![1] = rest]  BY <2>3
    <3>2. rest \in S  BY <2>1, <2>3
    <3> HIDE DEF V
    <3>3. 1 \in DOMAIN W  BY <1>3
    <3>4. V \in Seq(S) /\ DOMAIN V = DOMAIN W /\ V[1] = rest
          /\ \A i \in DOMAIN W : i # 1 => V[i] = W[i]
      BY ONLY <2>1, <3>1, <3>2, <3>3
    <3> QED  BY <2>3, <3>4 DEF S
  <2> QED  BY <2>2, <2>3
<1> HIDE DEF got, rest
<1>7. arrived[p] \o got \in Seq(Byte)
      /\ Len(arrived[p] \o got) = Len(arrived[p]) + n
      /\ \A k \in DOMAIN (arrived[p] \o got) :
            \/ /\ k \in DOMAIN arrived[p]
               /\ (arrived[p] \o got)[k] = arrived[p][k]
            \/ /\ k - Len(arrived[p]) \in 1 .. n
               /\ (arrived[p] \o got)[k] = w[k - Len(arrived[p])]
  <2> DEFINE s == arrived[p]
             t == s \o got
  <2>1. s \in Seq(Byte) /\ got \in Seq(Byte)  BY <1>2, <1>4
  <2> HIDE DEF s
  <2>2. /\ t \in Seq(Byte) /\ Len(t) = Len(s) + Len(got)
        /\ \A k \in 1 .. Len(s) + Len(got) :
                t[k] = IF k <= Len(s) THEN s[k] ELSE got[k - Len(s)]
    BY <2>1, ConcatProperties
  <2> HIDE DEF t
  <2>3. Len(s) \in Nat /\ DOMAIN s = 1 .. Len(s) /\ DOMAIN t = 1 .. Len(t)
    BY <2>1, <2>2, LenProperties
  <2>4. ASSUME NEW k \in DOMAIN t
        PROVE  \/ k \in DOMAIN s /\ t[k] = s[k]
               \/ k - Len(s) \in 1 .. n /\ t[k] = w[k - Len(s)]
    <3>1. CASE k <= Len(s)  BY <2>2, <2>3, <3>1
    <3>2. CASE ~(k <= Len(s))
      <4>1. k - Len(s) \in 1 .. n  BY <1>2, <1>4, <2>2, <2>3, <3>2
      <4>2. t[k] = got[k - Len(s)]  BY <2>2, <2>3, <3>2
      <4> QED  BY <1>4, <4>1, <4>2
    <3> QED  BY <3>1, <3>2
  <2> QED  BY <1>4, <2>2, <2>4 DEF s, t
<1> HIDE DEF V
<1>8. /\ wire'[p] = V /\ arrived'[p] = arrived[p] \o got
      /\ \A q \in Pusher : q # p => /\ wire'[q] = wire[q]
                                    /\ arrived'[q] = arrived[q]
  BY <1>1 DEF InboxTypeOK
<1>9. InboxTypeOK'
  <2>1. wire' \in [Pusher -> Seq(Seq(Byte))]  BY <1>1, <1>6 DEF InboxTypeOK
  <2>2. arrived' \in [Pusher -> Seq(Byte)]  BY <1>1, <1>7 DEF InboxTypeOK
  <2>3. UNCHANGED <<pc, pushed>>  BY <1>1 DEF vars, pushers
  <2> QED  BY <1>1, <2>1, <2>2, <2>3 DEF InboxTypeOK
<1>10. ASSUME NEW q \in Pusher PROVE Begun(q)'
  <2>1. CASE q = p
    <3>1. UpTo(arrived[p], sent[p]) /\ \A i \in DOMAIN W : UpTo(W[i], sent[p])
      BY DEF Begun, W
    <3>2. UpTo(w, sent[p])  BY <1>3, <3>1 DEF w
    <3>3. UpTo(arrived'[p], sent[p])
      <4>1. \A k \in 1 .. n : w[k][1] <= sent[p]  BY <1>4, <3>2 DEF UpTo
      <4> SUFFICES ASSUME NEW k \in DOMAIN arrived'[p]
                   PROVE  arrived'[p][k][1] <= sent[p]
        BY DEF UpTo
      <4>2. CASE k \in DOMAIN arrived[p] /\ arrived'[p][k] = arrived[p][k]
        BY <3>1, <4>2 DEF UpTo
      <4>3. CASE k - Len(arrived[p]) \in 1 .. n
                 /\ arrived'[p][k] = w[k - Len(arrived[p])]
        BY <4>1, <4>3
      <4> QED  BY <1>7, <1>8, <4>2, <4>3
    <3>4. n # Len(w) => UpTo(rest, sent[p])  BY <1>5, <3>2 DEF UpTo
    <3>5. \A i \in DOMAIN V : UpTo(V[i], sent[p])  BY <1>6, <3>1, <3>4
    <3> QED  BY <1>1, <1>8, <2>1, <3>3, <3>5 DEF Begun
  <2>2. CASE q # p  BY <1>1, <1>8, <2>2 DEF Begun
  <2> QED  BY <2>1, <2>2
<1>11. ASSUME NEW q \in Pusher, ~split'[q] PROVE InStep(q)'
  <2>1. InStep(q)  BY <1>1, <1>11
  <2>2. CASE q # p  BY <1>1, <1>8, <2>1, <2>2, Untouched
  <2>3. CASE q = p
    <3> DEFINE r == Read(p)
               l == Len(arrived[p])
               b == Written(p)
    <3>1. Taken(p)' = Taken(p) /\ Read(p)' = r /\ Written(p)' = b
      BY <1>1 DEF Taken, Read, Written, FromAmong
    <3>2. r \in Int /\ l \in Nat /\ Len(arrived'[p]) = l + n
      <4>1. r \in Int  BY TakenType
      <4>2. l \in Nat  BY <1>2, LenProperties
      <4> QED  BY <1>7, <1>8, <4>1, <4>2
    <3>3. Laid(W, r + l, b) /\ Follows(arrived[p], r)
      BY <2>1, <2>3 DEF InStep, W
    <3> HIDE DEF r, l, b
    <3>4. From(w) = r + l /\ Follows(w, r + l)
      BY <1>3, <3>3 DEF Laid, w
    <3>5. Laid(V, r + l + n, b)
      <4>1. CASE n = Len(w)
        <5>1. V = Tail(W)  BY <4>1 DEF V
        <5>2. Laid(Tail(W), r + l + Len(W[1]), b)
          BY <1>1, <1>2, <3>3, LaidTail
        <5> QED  BY <4>1, <5>1, <5>2 DEF w
      <4>2. CASE n # Len(w)
        <5>1. V = [W EXCEPT ![1] = SubSeq(W[1], n + 1, Len(W[1]))]
          BY <4>2 DEF V, rest, w
        <5>2. n < Len(W[1])  BY <1>5, <4>2 DEF w
        <5>3. r + l \in Int  BY <3>2
        <5> QED  BY <1>1, <1>2, <3>3, <5>1, <5>2, <5>3, LaidCut
      <4> QED  BY <4>1, <4>2
    <3>6. Follows(arrived'[p], r)
      <4> SUFFICES ASSUME NEW k \in DOMAIN arrived'[p]
                   PROVE  PlaceOf(arrived'[p][k]) = r + k
        BY DEF Follows
      <4>1. k \in Int  BY <1>7, <1>8, LenProperties
      <4>2. CASE k \in DOMAIN arrived[p] /\ arrived'[p][k] = arrived[p][k]
        BY <3>3, <4>2 DEF Follows
      <4>3. CASE k - l \in 1 .. n /\ arrived'[p][k] = w[k - l]
        <5>1. PlaceOf(w[k - l]) = r + l + (k - l)
          BY <1>4, <3>4, <4>3 DEF Follows
        <5>2. r + l + (k - l) = r + k  BY ONLY <3>2, <4>1
        <5> QED  BY <4>3, <5>1, <5>2
      <4> QED  BY <1>7, <1>8, <4>2, <4>3 DEF l
    <3>7. r + (l + n) = r + l + n  BY ONLY <1>2, <3>2
    <3> QED  BY <1>1, <1>8, <2>1, <2>3, <3>1, <3>2, <3>5, <3>6, <3>7
             DEF InStep, FromAmong, r, b
  <2> QED  BY <2>2, <2>3
<1> QED  BY <1>9, <1>10, <1>11

\* What read() takes off a stream, and what it leaves.
LEMMA TakenOff ==
    ASSUME InboxTypeOK, NEW p \in Pusher, NEW n \in Nat,
           TakeOff(p, ReadUpTo(arrived[p], n), n)
    PROVE  LET bytes == ReadUpTo(arrived[p], n) IN
           /\ bytes \in Seq(Byte) /\ Len(bytes) \in Nat
           /\ DOMAIN bytes = 1 .. Len(bytes)
           /\ \A k \in DOMAIN bytes :
                k \in DOMAIN arrived[p] /\ bytes[k] = arrived[p][k]
           /\ arrived' \in [Pusher -> Seq(Byte)] /\ split' \in [Pusher -> BOOLEAN]
           /\ \A q \in Pusher :
                q # p => arrived'[q] = arrived[q] /\ split'[q] = split[q]
           /\ ~split'[p] => ~split[p] /\ Len(bytes) = n
           /\ \A k \in DOMAIN arrived'[p] :
                /\ k \in Int /\ Len(bytes) + k \in DOMAIN arrived[p]
                /\ arrived'[p][k] = arrived[p][Len(bytes) + k]
           /\ \A m : UpTo(arrived[p], m) => UpTo(arrived'[p], m)
           /\ \A r \in Int : Follows(arrived[p], r) =>
                /\ Follows(arrived'[p], r + Len(bytes))
                /\ r + Len(bytes) + Len(arrived'[p]) = r + Len(arrived[p])
<1> DEFINE s == arrived[p]
           l == Len(s)
           c == IF n < l THEN n ELSE l
           bytes == ReadUpTo(s, n)
           rest == SubSeq(s, c + 1, l)
<1>1. s \in Seq(Byte) /\ l \in Nat  BY StreamTypes, LenProperties
<1>2. c \in Nat /\ c <= l /\ c <= n
  <2> HIDE DEF l
  <2> QED  BY <1>1
<1>3. bytes = SubSeq(s, 1, c)  BY DEF ReadUpTo
<1> HIDE DEF c
<1>4. /\ bytes \in Seq(Byte) /\ Len(bytes) = c /\ DOMAIN bytes = 1 .. c
      /\ \A k \in 1 .. c : k \in DOMAIN s /\ bytes[k] = s[k]
  <2> HIDE DEF s, bytes
  <2> QED  BY <1>1, <1>2, <1>3, FirstPart
<1>5. /\ rest \in Seq(Byte) /\ Len(rest) = l - c /\ DOMAIN rest = 1 .. l - c
      /\ \A k \in 1 .. l - c : c + k \in DOMAIN s /\ rest[k] = s[c + k]
  <2> HIDE DEF s, bytes
  <2> QED  BY <1>1, <1>2, LastPart
<1>6. /\ arrived' = [arrived EXCEPT ![p] = SubSeq(s, Len(bytes) + 1, l)]
      /\ split' = [split EXCEPT ![p] = split[p] \/ Len(bytes) < n]
  BY DEF TakeOff
<1> HIDE DEF bytes, rest, l
<1>7. arrived' = [arrived EXCEPT ![p] = rest]  BY <1>4, <1>6 DEF rest
<1>8. /\ arrived'[p] = rest /\ arrived' \in [Pusher -> Seq(Byte)]
      /\ \A q \in Pusher : q # p => arrived'[q] = arrived[q]
  BY <1>5, <1>7, StreamTypes
<1>9. split \in [Pusher -> BOOLEAN]  BY DEF InboxTypeOK
<1>10. /\ split' \in [Pusher -> BOOLEAN]
       /\ split'[p] = (split[p] \/ Len(bytes) < n)
       /\ \A q \in Pusher : q # p => split'[q] = split[q]
  BY <1>6, <1>9
<1>11. ~split'[p] => ~split[p] /\ Len(bytes) = n
  <2>1. ~(c < n) => c = n  BY <1>2
  <2> QED  BY <1>4, <1>10, <2>1
<1>12. \A k \in DOMAIN rest : k \in Int /\ c + k \in DOMAIN s /\ rest[k] = s[c + k]
  BY <1>5
<1>13. ASSUME NEW m, UpTo(s, m) PROVE UpTo(rest, m)
  BY <1>12, <1>13 DEF UpTo
<1>14. ASSUME NEW r \in Int, Follows(s, r)
       PROVE  Follows(rest, r + c) /\ r + c + Len(rest) = r + l
  <2>1. r + c + Len(rest) = r + l  BY <1>1, <1>2, <1>5
  <2>2. ASSUME NEW k \in DOMAIN rest PROVE PlaceOf(rest[k]) = r + c + k
    <3>1. k \in Int /\ PlaceOf(rest[k]) = r + (c + k)
      BY <1>12, <1>14 DEF Follows
    <3> QED  BY <1>2, <3>1
  <2> QED  BY <2>1, <2>2 DEF Follows
<1> QED  BY <1>2, <1>4, <1>8, <1>10, <1>11, <1>12, <1>13, <1>14
         DEF s, bytes, l

LEMMA StepReadHeader ==
    ASSUME StreamInv, NEW p \in Pusher, ReadHeader(p), TypeOK'
    PROVE  StreamInv'
<1> SUFFICES ASSUME InboxTypeOK, \A q \in Pusher : Begun(q),
                    \A q \in Pusher : ~split[q] => InStep(q)
             PROVE  /\ InboxTypeOK' /\ \A q \in Pusher : Begun(q)'
                    /\ \A q \in Pusher : ~split'[q] => InStep(q)'
  BY DEF StreamInv
<1> DEFINE bytes == ReadUpTo(arrived[p], Header)
<1>1. /\ need[p] = 0 /\ TakeOff(p, bytes, Header) /\ inHand[p] = <<>>
      /\ UNCHANGED <<vars, sent, writing, wire, inHand, carried>>
      /\ IF Len(bytes) < Header THEN UNCHANGED <<need, open>>
         ELSE \E n \in LengthIn(bytes) :
                /\ need' = [need EXCEPT ![p] = n]
                /\ open' = [open EXCEPT ![p] = n # 0]
  BY DEF ReadHeader, Reading
<1>2. Header \in Nat /\ Body \in Nat /\ 0 < Header /\ Header < Body
  BY FramingAssumption
<1>3. /\ bytes \in Seq(Byte) /\ Len(bytes) \in Nat
      /\ DOMAIN bytes = 1 .. Len(bytes)
      /\ \A k \in DOMAIN bytes :
            k \in DOMAIN arrived[p] /\ bytes[k] = arrived[p][k]
      /\ arrived' \in [Pusher -> Seq(Byte)] /\ split' \in [Pusher -> BOOLEAN]
      /\ \A q \in Pusher :
            q # p => arrived'[q] = arrived[q] /\ split'[q] = split[q]
      /\ ~split'[p] => ~split[p] /\ Len(bytes) = Header
      /\ \A m : UpTo(arrived[p], m) => UpTo(arrived'[p], m)
      /\ \A r \in Int : Follows(arrived[p], r) =>
            /\ Follows(arrived'[p], r + Len(bytes))
            /\ r + Len(bytes) + Len(arrived'[p]) = r + Len(arrived[p])
  BY <1>1, <1>2, TakenOff
<1> HIDE DEF bytes
<1>4. /\ need' \in [Pusher -> 0 .. Body] /\ open' \in [Pusher -> BOOLEAN]
      /\ \A q \in Pusher : q # p => need'[q] = need[q]
      /\ Len(bytes) = Header => need'[p] \in LengthIn(bytes)
  <2>1. need \in [Pusher -> 0 .. Body] /\ open \in [Pusher -> BOOLEAN]
    BY DEF InboxTypeOK
  <2>2. CASE Len(bytes) < Header  BY <1>1, <1>2, <1>3, <2>1, <2>2
  <2>3. CASE ~(Len(bytes) < Header)
    <3>1. PICK n \in LengthIn(bytes) : /\ need' = [need EXCEPT ![p] = n]
                                       /\ open' = [open EXCEPT ![p] = n # 0]
      BY <1>1, <2>3
    <3>2. n \in 0 .. Body  BY <1>2 DEF LengthIn
    <3> QED  BY <2>1, <3>1, <3>2
  <2> QED  BY <2>2, <2>3
<1>5. InboxTypeOK'
  <2>1. UNCHANGED <<pc, pushed>>  BY <1>1 DEF vars, pushers
  <2> QED  BY <1>1, <1>3, <1>4, <2>1 DEF InboxTypeOK
<1>6. ASSUME NEW q \in Pusher PROVE Begun(q)'
  <2>1. CASE q = p  BY <1>1, <1>3, <2>1 DEF Begun
  <2>2. CASE q # p  BY <1>1, <1>3, <2>2 DEF Begun
  <2> QED  BY <2>1, <2>2
<1>7. ASSUME NEW q \in Pusher, ~split'[q] PROVE InStep(q)'
  <2>1. CASE q # p
    <3>1. InStep(q)  BY <1>3, <1>7, <2>1
    <3> QED  BY <1>1, <1>3, <1>4, <2>1, <3>1, Untouched
  <2>2. CASE q = p
    <3> DEFINE c == Taken(p)
               a == arrived[p]
    <3>1. InStep(p) /\ Len(bytes) = Header  BY <1>3, <1>7, <2>2
    <3>2. c \in Nat /\ c + 1 \in Int /\ Read(p) = Place(c + 1, 0)
          /\ Read(p) \in Int
      BY <1>1, TakenType DEF Read
    <3>3. Follows(a, Read(p))  BY <3>1 DEF InStep
    <3>4. bytes[1] = <<c + 1, 1>>
      <4>1. 1 \in DOMAIN bytes /\ 1 \in DOMAIN a /\ bytes[1] = a[1]
        BY <1>2, <1>3, <3>1
      <4>2. PlaceOf(bytes[1]) = Place(c + 1, 0) + 1
        BY <3>2, <3>3, <4>1 DEF Follows
      <4> HIDE DEF c
      <4>3. Place(c + 1, 1) = Place(c + 1, 0) + 1
        BY <3>2, PlaceNext, 0 \in Int, 1 \in Int
      <4>4. bytes[1] \in Byte  BY <1>3, <4>1, LenProperties
      <4>5. 1 \in 1 .. Frame  BY Lengths
      <4> QED  BY <3>2, <4>2, <4>3, <4>4, <4>5, SameByte
    <3>5. need'[p] = Body
      <4>1. Head(bytes) = bytes[1]  BY <1>2, <1>3, <3>1
      <4> QED  BY <1>4, <3>1, <3>4, <4>1 DEF LengthIn
    <3>6. Taken(p)' = c /\ Written(p)' = Written(p)
      BY <1>1 DEF Taken, Written, FromAmong
    <3>7. Read(p)' = Read(p) + Header
      <4>1. Read(p)' = Place(c + 1, Header)  BY <1>2, <3>5, <3>6 DEF Read
      <4> HIDE DEF c
      <4> QED  BY <1>2, <3>2, <4>1, PlaceNext
    <3>8. /\ Follows(arrived'[p], Read(p) + Header)
          /\ Read(p) + Header + Len(arrived'[p]) = Read(p) + Len(arrived[p])
      BY <1>3, <3>1, <3>2, <3>3
    <3> QED  BY <1>1, <2>2, <3>1, <3>5, <3>6, <3>7, <3>8 DEF InStep, FromAmong
  <2> QED  BY <2>1, <2>2
<1> QED  BY <1>5, <1>6, <1>7

LEMMA StepReadBody ==
    ASSUME StreamInv, NEW p \in Pusher, ReadBody(p), TypeOK'
    PROVE  StreamInv'
<1> SUFFICES ASSUME InboxTypeOK, \A q \in Pusher : Begun(q),
                    \A q \in Pusher : ~split[q] => InStep(q)
             PROVE  /\ InboxTypeOK' /\ \A q \in Pusher : Begun(q)'
                    /\ \A q \in Pusher : ~split'[q] => InStep(q)'
  BY DEF StreamInv
<1> DEFINE n == need[p]
           bytes == ReadUpTo(arrived[p], n)
<1>1. /\ n # 0 /\ TakeOff(p, bytes, n) /\ inHand[p] = <<>>
      /\ need' = [need EXCEPT ![p] = 0]
      /\ inHand' = IF Len(bytes) < Header THEN inHand
                   ELSE [inHand EXCEPT ![p] = bytes]
      /\ UNCHANGED <<vars, sent, writing, wire, open, carried>>
  BY DEF ReadBody, Reading
<1>2. /\ Header \in Nat /\ Body \in Nat /\ 0 < Header /\ Header < Body
      /\ Frame = Header + Body
  BY FramingAssumption DEF Frame
<1>3. n \in Nat  BY <1>2 DEF InboxTypeOK
<1>4. /\ bytes \in Seq(Byte) /\ Len(bytes) \in Nat
      /\ DOMAIN bytes = 1 .. Len(bytes)
      /\ \A k \in DOMAIN bytes :
            k \in DOMAIN arrived[p] /\ bytes[k] = arrived[p][k]
      /\ arrived' \in [Pusher -> Seq(Byte)] /\ split' \in [Pusher -> BOOLEAN]
      /\ \A q \in Pusher :
            q # p => arrived'[q] = arrived[q] /\ split'[q] = split[q]
      /\ ~split'[p] => ~split[p] /\ Len(bytes) = n
      /\ \A m : UpTo(arrived[p], m) => UpTo(arrived'[p], m)
      /\ \A r \in Int : Follows(arrived[p], r) =>
            /\ Follows(arrived'[p], r + Len(bytes))
            /\ r + Len(bytes) + Len(arrived'[p]) = r + Len(arrived[p])
  BY <1>1, <1>3, TakenOff
<1> HIDE DEF bytes, n
<1>5. /\ need' \in [Pusher -> 0 .. Body] /\ need'[p] = 0
      /\ \A q \in Pusher : q # p => need'[q] = need[q]
  BY <1>1, <1>2 DEF InboxTypeOK
<1>6. /\ inHand' \in [Pusher -> Seq(Byte)]
      /\ \A q \in Pusher : q # p => inHand'[q] = inHand[q]
      /\ inHand'[p] = IF Len(bytes) < Header THEN <<>> ELSE bytes
  BY <1>1, <1>4 DEF InboxTypeOK
<1>7. InboxTypeOK'
  <2>1. UNCHANGED <<pc, pushed>>  BY <1>1 DEF vars, pushers
  <2>2. \A q \in Pusher : pc[q] # "idle" => inHand'[q] # <<>>
    BY <1>1, <1>6 DEF InboxTypeOK
  <2> QED  BY <1>1, <1>4, <1>5, <1>6, <2>1, <2>2 DEF InboxTypeOK
<1>8. ASSUME NEW q \in Pusher PROVE Begun(q)'
  <2>1. CASE q = p  BY <1>1, <1>4, <2>1 DEF Begun
  <2>2. CASE q # p  BY <1>1, <1>4, <2>2 DEF Begun
  <2> QED  BY <2>1, <2>2
<1>9. ASSUME NEW q \in Pusher, ~split'[q] PROVE InStep(q)'
  <2>1. CASE q # p
    <3>1. InStep(q)  BY <1>4, <1>9, <2>1
    <3> QED  BY <1>1, <1>4, <1>5, <1>6, <2>1, <3>1, Untouched
  <2>2. CASE q = p
    <3> DEFINE c == Taken(p)
               a == arrived[p]
    <3>1. InStep(p) /\ Len(bytes) = n  BY <1>4, <1>9, <2>2
    <3>2. n = Body /\ Len(bytes) = Body  BY <1>1, <3>1 DEF InStep, n
    <3>3. c \in Nat /\ c + 1 \in Int /\ Read(p) = Place(c + 1, Header)
          /\ Read(p) \in Int
      BY <1>1, TakenType DEF Read, n
    <3>4. Follows(a, Read(p))  BY <3>1 DEF InStep
    <3>5. ASSUME NEW k \in 1 .. Body PROVE bytes[k] = <<c + 1, Header + k>>
      <4>1. k \in DOMAIN bytes /\ k \in DOMAIN a /\ bytes[k] = a[k]
        BY <1>4, <3>2
      <4>2. PlaceOf(bytes[k]) = Place(c + 1, Header) + k
        BY <3>3, <3>4, <4>1 DEF Follows
      <4> HIDE DEF c
      <4>3. Header + k \in 1 .. Frame /\ Header \in Int /\ k \in Int  BY <1>2
      <4>4. Place(c + 1, Header + k) = Place(c + 1, Header) + k
        BY <3>3, <4>3, PlaceNext
      <4>5. bytes[k] \in Byte  BY <1>4, <4>1, LenProperties
      <4> QED  BY <3>3, <4>2, <4>3, <4>4, <4>5, SameByte
    <3>6. bytes = Whole(c + 1)
      <4> DEFINE m == c + 1
      <4>1. bytes = [k \in 1 .. Body |-> bytes[k]]
        BY <1>4, <3>2, LenProperties
      <4>2. \A k \in 1 .. Body : bytes[k] = <<m, Header + k>>  BY <3>5
      <4> HIDE DEF m
      <4>3. bytes = Whole(m)  BY <4>1, <4>2 DEF Whole
      <4> QED  BY <4>3 DEF m
    <3>7. inHand'[p] = bytes /\ bytes # <<>>
      <4>1. bytes # <<>>  BY <1>2, <1>4, <3>2, EmptyOrNot
      <4>2. ~(Len(bytes) < Header)  BY <1>2, <3>2
      <4> QED  BY <1>6, <4>1, <4>2
    <3>8. Taken(p)' = c + 1 /\ Written(p)' = Written(p)
      <4>1. FromAmong(p, Len(carried))' = FromAmong(p, Len(carried))
        BY <1>1 DEF FromAmong
      <4>2. c = FromAmong(p, Len(carried))
        <5>1. FromAmong(p, Len(carried)) \in Nat  BY StreamTypes, FromAmongType
        <5> QED  BY <1>1, <5>1 DEF Taken
      <4>3. Taken(p)' = c + 1  BY <3>7, <4>1, <4>2 DEF Taken
      <4>4. Written(p)' = Written(p)  BY <1>1 DEF Written
      <4> QED  BY <4>3, <4>4
    <3>9. c + 1 <= sent[p]
      <4>1. 1 \in 1 .. Body /\ 1 \in DOMAIN bytes  BY <1>2, <1>4, <3>2
      <4>2. bytes[1][1] = c + 1 /\ 1 \in DOMAIN a /\ bytes[1] = a[1]
        BY <1>4, <3>5, <4>1
      <4>3. a[1][1] <= sent[p]  BY <4>2 DEF Begun, UpTo
      <4> QED  BY <4>2, <4>3
    <3>10. Read(p)' = Read(p) + Body
      <4> HIDE DEF c
      <4>1. Read(p)' = Place(c + 1 + 1, 0)  BY <1>5, <3>8 DEF Read
      <4>2. Place(c + 1 + 1, 0) = Place(c + 1, Frame)
        BY <3>3, PlaceNext, 0 \in Int
      <4>3. Place(c + 1, Header + Body) = Place(c + 1, Header) + Body
        BY <1>2, <3>3, PlaceNext
      <4> QED  BY <1>2, <3>3, <4>1, <4>2, <4>3
    <3>11. /\ Follows(arrived'[p], Read(p) + Body)
           /\ Read(p) + Body + Len(arrived'[p]) = Read(p) + Len(arrived[p])
      BY <1>4, <3>2, <3>3, <3>4
    <3> HIDE DEF c, a
    <3> QED  BY <1>1, <1>5, <2>2, <3>1, <3>6, <3>7, <3>8, <3>9, <3>10, <3>11
             DEF InStep, FromAmong
  <2> QED  BY <2>1, <2>2
<1> QED  BY <1>7, <1>8, <1>9

\* A push of the queue, or a step on the way to one.
LEMMA PushSteps ==
    ASSUME TypeOK, NEW p \in Pusher,
           \/ Lock(p) \/ PushWrite(p) \/ MoveRead(p) \/ MoveWrite(p)
           \/ PushAdvance(p) \/ PushNewNode(p)
    PROVE  /\ pushed' # pushed => pc'[p] = "idle" /\ Len(pushed') = Len(pushed) + 1
           /\ \A q \in Pusher : q # p => pc'[q] = pc[q]
<1>1. /\ pushed \in Seq(1 .. MaxPushes)
      /\ pc \in [Pusher -> {"idle", "pushing", "written", "moving"}]
  BY DEF TypeOK
<1>2. CASE Lock(p) \/ PushWrite(p) \/ MoveRead(p) \/ MoveWrite(p)
  BY <1>1, <1>2 DEF Lock, PushWrite, MoveRead, MoveWrite
<1>3. CASE PushAdvance(p) \/ PushNewNode(p)
  <2>1. pushed' = Append(pushed, Len(pushed) + 1)
        /\ pc' = [pc EXCEPT ![p] = "idle"]
    BY <1>3 DEF PushAdvance, PushNewNode, Pushed
  <2> QED  BY <1>1, <2>1
<1> QED  BY <1>2, <1>3

\* What a push adds to the count of a client's requests.
LEMMA FromAmongMore ==
    ASSUME InboxTypeOK, NEW p \in Pusher, NEW q \in Pusher, NEW b,
           NEW l, l = Len(carried),
           carried' = Append(carried, [from |-> p, bytes |-> b])
    PROVE  /\ \A k \in 0 .. l : FromAmong(q, k)' = FromAmong(q, k)
           /\ FromAmong(q, l + 1)' = FromAmong(q, l) + IF q = p THEN 1 ELSE 0
           /\ carried'[l + 1] = [from |-> p, bytes |-> b]
           /\ \A k \in 1 .. l : carried'[k] = carried[k]
<1> DEFINE G(k) == {j \in 1 .. k : carried[j].from = q}
           H(k) == {j \in 1 .. k : carried'[j].from = q}
<1>1. /\ l \in Nat
      /\ \A j \in 1 .. l : carried'[j] = carried[j]
      /\ carried'[l + 1] = [from |-> p, bytes |-> b]
  <2> DEFINE S == [from: Pusher, bytes: Seq(Byte)]
             e == [from |-> p, bytes |-> b]
  <2>1. carried \in Seq(S) /\ carried' = Append(carried, e)
    BY DEF InboxTypeOK
  <2> HIDE DEF S, e
  <2>2. /\ l \in Nat /\ \A j \in 1 .. l : carried'[j] = carried[j]
        /\ carried'[l + 1] = e
    BY <2>1
  <2> QED  BY <2>2 DEF e
<1>2. carried'[l + 1].from = p  BY <1>1
<1>3. ASSUME NEW k \in 0 .. l PROVE H(k) = G(k)
  <2>1. \A j \in 1 .. k : j \in 1 .. l  BY <1>1
  <2> QED  BY <1>1, <2>1
<1>4. /\ q = p => H(l + 1) = G(l) \cup {l + 1}
      /\ q # p => H(l + 1) = G(l)
  <2>1. 1 .. l + 1 = (1 .. l) \cup {l + 1}  BY <1>1
  <2> QED  BY <1>1, <1>2, <2>1
<1>5. IsFiniteSet(G(l)) /\ l + 1 \notin G(l) /\ Cardinality(G(l)) \in Nat
  <2>1. IsFiniteSet(G(l))  BY <1>1, FromAmongType
  <2>2. l + 1 \notin G(l)  BY <1>1
  <2> QED  BY <2>1, <2>2, FS_CardinalityType
<1>6. \A k : FromAmong(q, k) = Cardinality(G(k))
             /\ FromAmong(q, k)' = Cardinality(H(k))
  BY DEF FromAmong
<1>7. Cardinality(H(l + 1)) = Cardinality(G(l)) + IF q = p THEN 1 ELSE 0
  <2> DEFINE g == G(l)
             h == H(l + 1)
  <2>1. /\ IsFiniteSet(g) /\ l + 1 \notin g /\ Cardinality(g) \in Nat
        /\ q = p => h = g \cup {l + 1}
        /\ q # p => h = g
    BY <1>4, <1>5
  <2> HIDE DEF g, h
  <2>2. Cardinality(g \cup {l + 1}) = Cardinality(g) + 1
    BY ONLY <2>1, FS_AddElement
  <2>3. Cardinality(h) = Cardinality(g) + IF q = p THEN 1 ELSE 0
    <3>1. CASE q = p  BY <2>1, <2>2, <3>1
    <3>2. CASE q # p
      <4> DEFINE c == Cardinality(g)
      <4>1. c \in Nat /\ Cardinality(h) = c  BY <2>1, <3>2
      <4> HIDE DEF c
      <4>2. Cardinality(h) = c + 0  BY <4>1
      <4> QED  BY <3>2, <4>2 DEF c
    <3> QED  BY <3>1, <3>2
  <2> QED  BY <2>3 DEF g, h
<1> HIDE DEF G, H
<1> QED  BY <1>1, <1>3, <1>6, <1>7

LEMMA StepPush ==
    ASSUME StreamInv, NEW p \in Pusher, Push(p), TypeOK'
    PROVE  StreamInv'
<1> SUFFICES ASSUME InboxTypeOK, \A q \in Pusher : Begun(q),
                    \A q \in Pusher : ~split[q] => InStep(q)
             PROVE  /\ InboxTypeOK' /\ \A q \in Pusher : Begun(q)'
                    /\ \A q \in Pusher : ~split'[q] => InStep(q)'
  BY DEF StreamInv
<1>1. /\ inHand[p] # <<>> /\ UNCHANGED <<sent, writing, wire, arrived, need>>
      /\ UNCHANGED <<open, split>>
      /\ IF pushed' = pushed
         THEN UNCHANGED <<inHand, carried>>
         ELSE /\ carried' = Append(carried, [from |-> p, bytes |-> inHand[p]])
              /\ inHand' = [inHand EXCEPT ![p] = <<>>]
  BY DEF Push, stream
<1>2. /\ pushed' # pushed => pc'[p] = "idle" /\ Len(pushed') = Len(pushed) + 1
      /\ \A q \in Pusher : q # p => pc'[q] = pc[q]
  <2>1. TypeOK  BY DEF InboxTypeOK
  <2> QED  BY <2>1, PushSteps DEF Push
<1>3. \A q \in Pusher : Begun(q)'  BY <1>1 DEF Begun
<1>4. CASE pushed' = pushed
  <2>1. UNCHANGED <<inHand, carried>>  BY <1>1, <1>4
  <2>2. \A q \in Pusher : pc'[q] # "idle" => inHand'[q] # <<>>
    BY <1>1, <1>2, <2>1 DEF InboxTypeOK
  <2>3. InboxTypeOK'  BY <1>1, <1>4, <2>1, <2>2 DEF InboxTypeOK
  <2>4. \A q \in Pusher : ~split'[q] => InStep(q)'
    BY <1>1, <2>1, Untouched
  <2> QED  BY <1>3, <2>3, <2>4
<1>5. CASE pushed' # pushed
  <2>1. /\ carried' = Append(carried, [from |-> p, bytes |-> inHand[p]])
        /\ inHand' = [inHand EXCEPT ![p] = <<>>]
    BY <1>1, <1>5
  <2>2. /\ inHand \in [Pusher -> Seq(Byte)]
        /\ carried \in Seq([from: Pusher, bytes: Seq(Byte)])
        /\ Len(carried) = Len(pushed)
    BY DEF InboxTypeOK
  <2>3. /\ inHand' \in [Pusher -> Seq(Byte)] /\ inHand'[p] = <<>>
        /\ \A q \in Pusher : q # p => inHand'[q] = inHand[q]
    BY <2>1, <2>2
  <2>4. /\ carried' \in Seq([from: Pusher, bytes: Seq(Byte)])
        /\ Len(carried') = Len(carried) + 1 /\ Len(carried) \in Nat
        /\ DOMAIN carried' = 1 .. Len(carried) + 1
    <3> DEFINE S == [from: Pusher, bytes: Seq(Byte)]
               e == [from |-> p, bytes |-> inHand[p]]
    <3>1. carried \in Seq(S) /\ e \in S /\ carried' = Append(carried, e)
      BY <2>1, <2>2
    <3> HIDE DEF S, e
    <3>2. carried' \in Seq(S) /\ Len(carried') = Len(carried) + 1
          /\ Len(carried) \in Nat /\ DOMAIN carried' = 1 .. Len(carried) + 1
      BY ONLY <3>1, Appended, LenProperties
    <3> QED  BY <3>2 DEF S
  <2>5. InboxTypeOK'
    <3>1. \A q \in Pusher : pc'[q] # "idle" => inHand'[q] # <<>>
      BY <1>2, <1>5, <2>3 DEF InboxTypeOK
    <3>2. Len(carried') = Len(pushed')  BY <1>2, <1>5, <2>2, <2>4
    <3> QED  BY <1>1, <2>3, <2>4, <3>1, <3>2 DEF InboxTypeOK
  <2>6. ASSUME NEW q \in Pusher, ~split'[q] PROVE InStep(q)'
    <3>1. InStep(q)  BY <1>1, <2>6
    <3>2. PICK l : l = Len(carried)  OBVIOUS
    <3>3. /\ \A k \in 0 .. l : FromAmong(q, k)' = FromAmong(q, k)
          /\ FromAmong(q, l + 1)' = FromAmong(q, l) + IF q = p THEN 1 ELSE 0
          /\ carried'[l + 1] = [from |-> p, bytes |-> inHand[p]]
          /\ \A k \in 1 .. l : carried'[k] = carried[k]
      BY <2>1, <3>2, FromAmongMore
    <3>4. /\ l \in Nat /\ Len(carried') = l + 1 /\ DOMAIN carried' = 1 .. l + 1
          /\ DOMAIN carried = 1 .. l /\ FromAmong(q, l) \in Nat
      BY <2>4, <3>2, StreamTypes, FromAmongType
    <3>5. Taken(q)' = Taken(q) /\ FromAmong(q, Len(carried))' = FromAmong(q, l + 1)'
      <4>1. FromAmong(q, Len(carried))' = FromAmong(q, l + 1)'
        BY <3>4 DEF FromAmong
      <4> QED  BY <1>1, <2>3, <3>2, <3>3, <3>4, <4>1 DEF Taken
    <3>6. Read(q)' = Read(q) /\ Written(q)' = Written(q)
      BY <1>1, <3>5 DEF Read, Written
    <3>7. ASSUME NEW j \in DOMAIN carried', carried'[j].from = q
          PROVE  carried'[j].bytes = Whole(FromAmong(q, j)')
      <4>1. CASE j \in 1 .. l
        <5>1. j \in 0 .. l /\ j \in DOMAIN carried  BY <3>4, <4>1
        <5> QED  BY <3>1, <3>3, <3>7, <4>1, <5>1 DEF InStep
      <4>2. CASE j = l + 1
        <5>1. q = p /\ carried'[j].bytes = inHand[p]
          BY <3>3, <3>7, <4>2
        <5>2. inHand[p] = Whole(Taken(p))  BY <1>1, <3>1, <5>1 DEF InStep
        <5>3. Taken(p) = FromAmong(p, l) + 1  BY <1>1, <3>2 DEF Taken
        <5> QED  BY <3>3, <4>2, <5>1, <5>2, <5>3
      <4> QED  BY <3>4, <4>1, <4>2
    <3>8. inHand'[q] # <<>> => need[q] = 0 /\ inHand'[q] = Whole(Taken(q))
      BY <2>3, <3>1 DEF InStep
    <3> QED  BY <1>1, <3>1, <3>5, <3>6, <3>7, <3>8 DEF InStep
  <2> QED  BY <1>3, <2>5, <2>6
<1> QED  BY <1>4, <1>5

-----------------------------------------------------------------------------
(* The theorems.                                                           *)

LEMMA InboxStart == InboxInit => InboxInv
<1> SUFFICES ASSUME InboxInit PROVE InboxInv
  OBVIOUS
<1>1. /\ Init
      /\ sent = [p \in Pusher |-> 0] /\ writing = [p \in Pusher |-> FALSE]
      /\ wire = [p \in Pusher |-> <<>>] /\ arrived = [p \in Pusher |-> <<>>]
      /\ need = [p \in Pusher |-> 0] /\ inHand = [p \in Pusher |-> <<>>]
      /\ open = [p \in Pusher |-> TRUE] /\ split = [p \in Pusher |-> FALSE]
      /\ carried = <<>>
  BY DEF InboxInit
<1>2. QueueInv  BY <1>1, QueueStart
<1>3. pushed = <<>> /\ pc = [p \in Pusher |-> "idle"]  BY <1>1 DEF Init
<1>4. MaxMessages \in Nat /\ Body \in Nat /\ <<>> \in Seq(Byte)
      /\ <<>> \in Seq(Seq(Byte))
      /\ <<>> \in Seq([from: Pusher, bytes: Seq(Byte)])
  BY FramingAssumption, EmptySeq
<1>5. InboxTypeOK  BY <1>1, <1>2, <1>3, <1>4 DEF InboxTypeOK, QueueInv
<1>6. \A p \in Pusher : Begun(p)  BY <1>1 DEF Begun, UpTo
<1>7. ASSUME NEW p \in Pusher PROVE InStep(p)
  <2>1. Taken(p) = 0
    <3>1. Len(carried) = 0  BY <1>1
    <3>2. {j \in 1 .. 0 : carried[j].from = p} = {}  OBVIOUS
    <3>3. FromAmong(p, 0) = 0  BY <3>2, FS_EmptySet DEF FromAmong
    <3> QED  BY <1>1, <3>1, <3>3 DEF Taken
  <2>2. Read(p) = Place(1, 0) /\ Written(p) = Place(0, Frame)
    BY <1>1, <2>1 DEF Read, Written
  <2>3. Place(1, 0) = Place(0, Frame) /\ Place(1, 0) \in Int
    BY PlaceNext, 0 \in Int, 1 \in Int, 0 + 1 = 1
  <2>4. Laid(wire[p], Read(p) + Len(arrived[p]), Written(p))
    BY <1>1, <2>2, <2>3 DEF Laid
  <2> QED  BY <1>1, <2>1, <2>4 DEF InStep, Follows
<1> QED  BY <1>2, <1>5, <1>6, <1>7 DEF InboxInv, StreamInv

\* The streams fill the queue, or leave it alone.
LEMMA InboxQueue ==
    ASSUME [InboxNext]_inboxVars
    PROVE  [Next]_vars
<1>1. CASE UNCHANGED inboxVars  BY <1>1 DEF inboxVars
<1>2. ASSUME NEW p \in Pusher, NEW n,
             WriteHeader(p) \/ WriteBody(p) \/ ReadHeader(p) \/ ReadBody(p)
             \/ Arrive(p, n)
      PROVE  UNCHANGED vars
  BY <1>2 DEF WriteHeader, WriteBody, ReadHeader, ReadBody, Arrive
<1>3. ASSUME NEW p \in Pusher, Push(p) PROVE Next
  BY <1>3 DEF Push, Next
<1>4. CASE PopRequest  BY <1>4 DEF PopRequest, Next
<1> QED  BY <1>1, <1>2, <1>3, <1>4 DEF InboxNext

LEMMA InboxStep ==
    ASSUME InboxInv, [InboxNext]_inboxVars
    PROVE  InboxInv'
<1>1. QueueInv'  BY InboxQueue, QueueStep DEF InboxInv
<1>2. TypeOK' /\ StreamInv  BY <1>1 DEF QueueInv, InboxInv
<1>3. CASE UNCHANGED <<pc, pushed, stream, inHand, carried>>
  <2>1. UNCHANGED <<sent, writing, wire, arrived, need, open, split>>
    BY <1>3 DEF stream
  <2>2. InboxTypeOK'  BY <1>2, <1>3, <2>1 DEF StreamInv, InboxTypeOK
  <2>3. \A p \in Pusher : Begun(p)'
    BY <1>2, <2>1 DEF StreamInv, Begun
  <2>4. \A p \in Pusher : ~split'[p] => InStep(p)'
    BY <1>2, <1>3, <2>1, Untouched DEF StreamInv
  <2>5. StreamInv'  BY <2>2, <2>3, <2>4 DEF StreamInv
  <2> QED  BY <1>1, <2>5 DEF InboxInv
<1>4. CASE UNCHANGED inboxVars
  BY <1>3, <1>4 DEF inboxVars, vars, pushers
<1>5. ASSUME NEW p \in Pusher,
             \/ WriteHeader(p) \/ WriteBody(p) \/ ReadHeader(p) \/ ReadBody(p)
             \/ Push(p)
             \/ \E n \in 1 .. Body : Arrive(p, n)
      PROVE  StreamInv'
  BY <1>2, <1>5, StepWriteHeader, StepWriteBody, StepReadHeader, StepReadBody,
     StepPush, StepArrive
<1>6. CASE PopRequest
  <2>1. UNCHANGED <<pc, pushed, stream, inHand, carried>>
    BY <1>6 DEF PopRequest, PopRead, PopAdvance, CrossRead, CrossWrite, pushers
  <2> QED  BY <1>3, <2>1
<1> QED  BY <1>1, <1>4, <1>5, <1>6 DEF InboxNext, InboxInv

\* The inductive invariant: the places of the elements in the deque of
\* client_req_queue, and of the bytes on the streams that fill it.
THEOREM InboxInvariant == InboxSpec => []InboxInv
<1>1. InboxInit => InboxInv  BY InboxStart
<1>2. InboxInv /\ [InboxNext]_inboxVars => InboxInv'  BY InboxStep
<1> QED  BY <1>1, <1>2, PTL DEF InboxSpec

\* The variables of the queue and of the streams have their types, and a reader
\* that is in client_push_request has a message in hand.
THEOREM InboxTyped == InboxSpec => []InboxTypeOK
<1>1. InboxInv => InboxTypeOK  BY DEF InboxInv, StreamInv
<1> QED  BY <1>1, InboxInvariant, PTL

\* However many readers push, size() between the calls of client_push_request
\* and client_pop_request is what has been pushed and not popped, unless a push
\* moved the nodes while a pop, which takes no lock, crossed between two.
THEOREM SizeStaysRight == InboxSpec => []SizeIsRight
<1>1. InboxInv => SizeIsRight
  <2> SUFFICES ASSUME QueueInv, ~torn PROVE Size = Len(pushed) - Len(popped)
    BY DEF InboxInv, SizeIsRight
  <2> QED  BY NextToPop
<1> QED  BY <1>1, InboxInvariant, PTL

\* What client_pop_request gives the state machine of a client are the messages
\* this client sent, in order, whatever the streams of the others do; unless a
\* read() of client_recv_handler was given a part of a message of this client.
THEOREM ArriveInOrder == InboxSpec => []RequestsArrive
<1>1. InboxInv => RequestsArrive
  <2> SUFFICES ASSUME InboxInv, ~torn, NEW k \in DOMAIN popped,
                      NEW p, p = carried[popped[k]].from, ~split[p]
               PROVE  LET m == Cardinality({j \in 1 .. k :
                                                carried[popped[j]].from = p})
                      IN m <= sent[p] /\ carried[popped[k]].bytes = Whole(m)
    BY DEF RequestsArrive
  <2>1. InboxTypeOK /\ TypeOK /\ InOrder  BY DEF InboxInv, StreamInv, QueueInv, Sound
  <2>2. /\ \A j \in DOMAIN popped : popped[j] = j
        /\ DOMAIN popped = 1 .. Len(popped) /\ Len(popped) \in Nat
        /\ Len(popped) <= Len(carried) /\ Len(carried) \in Nat
    <3>1. popped \in Seq(0 .. MaxPushes)  BY <2>1 DEF TypeOK
    <3>2. Len(carried) = Len(pushed)  BY <2>1 DEF InboxTypeOK
    <3> QED  BY <2>1, <3>1, <3>2, LenProperties, StreamTypes DEF InOrder
  <2>3. k \in Nat /\ k \in 1 .. Len(carried) /\ k \in DOMAIN carried
        /\ popped[k] = k /\ \A j \in 1 .. k : popped[j] = j
    <3> DEFINE lp == Len(popped)
               lc == Len(carried)
    <3>1. lp \in Nat /\ lc \in Nat /\ lp <= lc /\ k \in 1 .. lp  BY <2>2
    <3> HIDE DEF lp, lc
    <3>2. k \in Nat /\ k \in 1 .. lc /\ \A j \in 1 .. k : j \in 1 .. lp
      BY ONLY <3>1
    <3>3. DOMAIN carried = 1 .. lc  BY <2>1, StreamTypes DEF lc
    <3> QED  BY <2>2, <3>2, <3>3 DEF lp, lc
  <2>4. p \in Pusher
    <3>1. carried \in Seq([from: Pusher, bytes: Seq(Byte)])
      BY <2>1 DEF InboxTypeOK
    <3>2. carried[k] \in [from: Pusher, bytes: Seq(Byte)]
      BY <2>3, <3>1, LenProperties
    <3> QED  BY <2>3, <3>2
  <2>5. InStep(p)  BY <2>4 DEF InboxInv, StreamInv
  <2>6. {j \in 1 .. k : carried[popped[j]].from = p}
            = {j \in 1 .. k : carried[j].from = p}
    BY <2>3
  <2>7. FromAmong(p, k) <= sent[p]
    <3> DEFINE l == Len(carried)
               G(i) == {j \in 1 .. i : carried[j].from = p}
    <3>1. G(k) \in SUBSET G(l)  BY <2>2, <2>3
    <3>2. IsFiniteSet(G(l)) /\ FromAmong(p, l) \in Nat /\ FromAmong(p, k) \in Nat
      <4>1. l \in Nat /\ k \in Nat  BY <2>2, <2>3
      <4> HIDE DEF l
      <4> QED  BY ONLY <4>1, FromAmongType
    <3>3. FromAmong(p, k) <= FromAmong(p, l)
      BY <3>1, <3>2, FS_Subset DEF FromAmong
    <3>4. FromAmong(p, l) <= Taken(p) /\ Taken(p) \in Nat
      BY <2>1, <3>2, TakenType DEF Taken
    <3>5. Taken(p) <= sent[p] /\ sent[p] \in Nat
      BY <2>1, <2>4, <2>5, StreamTypes DEF InStep
    <3> HIDE DEF l, G
    <3> QED  BY <3>2, <3>3, <3>4, <3>5
  <2>8. carried[k].bytes = Whole(FromAmong(p, k))
    BY <2>3, <2>5 DEF InStep
  <2> QED  BY <2>3, <2>6, <2>7, <2>8 DEF FromAmong
<1> QED  BY <1>1, InboxInvariant, PTL
=============================================================================
