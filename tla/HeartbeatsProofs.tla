-------------------------- MODULE HeartbeatsProofs --------------------------
(***************************************************************************)
(* With at most two followers, for any timing in which a heartbeat period  *)
(* and a message's way, or a message's way and back, are shorter than the  *)
(* shortest election timeout.                                              *)
(*                                                                         *)
(* A follower's silence ends with the next message that arrives.  What the *)
(* leader sends it is never further apart than Gap (Recent, Spaced): as    *)
(* long as the leader does not wait, its heartbeats see to that; while it  *)
(* waits, something is under way between it and each follower in reach     *)
(* (Pending), whose answer makes it send again or ends the wait.           *)
(***************************************************************************)
EXTENDS Heartbeats, FiniteSetTheorems, SequenceTheorems, TLAPS

-----------------------------------------------------------------------------
(* The inductive invariant.                                                *)

Gap == IF HeartbeatPeriod > MaxDelay THEN HeartbeatPeriod ELSE MaxDelay

\* Ticks since something was last sent on q, or at most those of the silence
\* s if all of it has arrived.
Ago(q, s) == IF q = <<>> THEN s ELSE q[Len(q)].age

\* Messages to a follower, its replies, its silence, the leader's sinceBeat.
Spaced(q) == \A k \in DOMAIN q : k + 1 \in DOMAIN q => q[k].age <= q[k + 1].age + Gap
Recent(q, s, b) ==
    Ago(q, s) <= Gap /\ (b < HeartbeatPeriod => Ago(q, s) <= b)
OnTime(q, r, s, b) ==
    /\ \A k \in DOMAIN r : s <= r[k].age
    /\ q # <<>> => s <= q[1].age + Gap
    /\ Spaced(q)
    /\ Recent(q, s, b)

\* While the leader waits, the follower owes it an answer; when the leader has
\* nothing older to send, an answer that ends the wait.
Pending(q, r, n) ==
    /\ q # <<>> \/ r # <<>>
    /\ n <= 0 => \/ \E k \in DOMAIN q : q[k].kind = "append" /\ q[k].from = 0
                 \/ \E k \in DOMAIN r : r[k].kind = "accept"

\* Nothing is offered that the leader does not have.
Offered ==
    \A f \in Follower :
        /\ nextIndex[f] <= length
        /\ \A k \in DOMAIN toFollower[f] : toFollower[f][k].upto <= length

InReach(f) ==
    /\ ~cut[f]
    /\ OnTime(toFollower[f], toLeader[f], silence[f], sinceBeat)
    /\ waiting => Pending(toFollower[f], toLeader[f], nextIndex[f])

TypeInv == TypeOK /\ Offered
TimeInv == TypeInv /\ \A f \in Follower : ~everCut[f] => InReach(f)

-----------------------------------------------------------------------------
(* Sequences.                                                              *)

LEMMA Appended ==
    ASSUME NEW S, NEW q \in Seq(S), NEW m \in S
    PROVE  /\ Append(q, m) \in Seq(S) /\ Append(q, m) # <<>>
           /\ Len(q) \in Nat /\ Len(Append(q, m)) = Len(q) + 1
           /\ DOMAIN q = 1 .. Len(q) /\ DOMAIN Append(q, m) = 1 .. Len(q) + 1
           /\ \A k \in 1 .. Len(q) : Append(q, m)[k] = q[k]
           /\ Append(q, m)[Len(q) + 1] = m
OBVIOUS

LEMMA Lengths ==
    ASSUME NEW S, NEW q \in Seq(S)
    PROVE  /\ Len(q) \in Nat /\ DOMAIN q = 1 .. Len(q)
           /\ q = <<>> <=> Len(q) = 0
           /\ \A k \in DOMAIN q : q[k] \in S
OBVIOUS

LEMMA Tailed ==
    ASSUME NEW S, NEW q \in Seq(S), q # <<>>
    PROVE  /\ Tail(q) \in Seq(S) /\ Head(q) = q[1] /\ Head(q) \in S
           /\ Len(q) \in Nat /\ Len(q) > 0 /\ Len(Tail(q)) = Len(q) - 1
           /\ DOMAIN q = 1 .. Len(q) /\ DOMAIN Tail(q) = 1 .. Len(q) - 1
           /\ \A k \in 1 .. Len(q) - 1 : Tail(q)[k] = q[k + 1]
           /\ Tail(q) = <<>> <=> Len(q) = 1
<1>1. Len(q) \in Nat /\ Len(q) > 0 /\ DOMAIN q = 1 .. Len(q) /\ q[1] \in S
  BY Lengths
<1>2. /\ Tail(q) \in Seq(S) /\ Len(Tail(q)) = Len(q) - 1 /\ Head(q) = q[1]
      /\ \A k \in 1 .. Len(Tail(q)) : Tail(q)[k] = q[k + 1]
  BY HeadTailProperties
<1>3. DOMAIN Tail(q) = 1 .. Len(q) - 1 /\ (Tail(q) = <<>> <=> Len(Tail(q)) = 0)
  BY <1>2, Lengths
<1> QED  BY <1>1, <1>2, <1>3

\* A message of whatever kind has an age.
LEMMA Ages ==
    ASSUME NEW q, q \in Seq(Rpc) \/ q \in Seq(Reply)
    PROVE  /\ Len(q) \in Nat /\ DOMAIN q = 1 .. Len(q)
           /\ q = <<>> <=> Len(q) = 0
           /\ \A k \in DOMAIN q : q[k].age \in Nat /\ q[k].age <= MaxDelay
<1>1. MaxDelay \in Nat  BY TimeAssumption
<1>2. \A m \in Rpc : m.age \in Nat /\ m.age <= MaxDelay  BY <1>1 DEF Rpc
<1>3. \A m \in Reply : m.age \in Nat /\ m.age <= MaxDelay  BY <1>1 DEF Reply
<1>4. CASE q \in Seq(Rpc)  BY <1>2, <1>4, Lengths
<1>5. CASE q \in Seq(Reply)  BY <1>3, <1>5, Lengths
<1> QED  BY <1>4, <1>5

LEMMA OlderReplies ==
    ASSUME NEW q \in Seq(Reply), \A k \in DOMAIN q : q[k].age < MaxDelay
    PROVE  /\ Older(q) \in Seq(Reply) /\ Len(Older(q)) = Len(q)
           /\ \A k \in DOMAIN q : /\ Older(q)[k].age = q[k].age + 1
                                  /\ Older(q)[k].kind = q[k].kind
<1>1. Len(q) \in Nat /\ DOMAIN q = 1 .. Len(q)
      /\ \A k \in DOMAIN q : q[k] \in Reply /\ q[k].age \in Nat
  BY Ages, Lengths
<1>2. ASSUME NEW k \in DOMAIN q
      PROVE  LET m == [q[k] EXCEPT !.age = q[k].age + 1]
             IN m \in Reply /\ m.age = q[k].age + 1 /\ m.kind = q[k].kind
  <2>1. q[k] \in Reply /\ q[k].age + 1 \in 0 .. MaxDelay
    BY <1>1, TimeAssumption
  <2> QED  BY ONLY <2>1 DEF Reply
<1>3. /\ DOMAIN Older(q) = 1 .. Len(q)
      /\ \A k \in 1 .. Len(q) : Older(q)[k] = [q[k] EXCEPT !.age = q[k].age + 1]
  BY <1>1 DEF Older
<1>4. Older(q) \in Seq(Reply) /\ Len(Older(q)) = Len(q)
  <2>1. Older(q) \in [1 .. Len(q) -> Reply]  BY <1>1, <1>2 DEF Older
  <2> QED  BY ONLY <1>1, <1>3, <2>1
<1> QED  BY <1>1, <1>2, <1>3, <1>4

LEMMA OlderRpcs ==
    ASSUME NEW q \in Seq(Rpc), \A k \in DOMAIN q : q[k].age < MaxDelay
    PROVE  /\ Older(q) \in Seq(Rpc) /\ Len(Older(q)) = Len(q)
           /\ \A k \in DOMAIN q : /\ Older(q)[k].age = q[k].age + 1
                                  /\ Older(q)[k].kind = q[k].kind
                                  /\ Older(q)[k].from = q[k].from
                                  /\ Older(q)[k].upto = q[k].upto
<1>1. Len(q) \in Nat /\ DOMAIN q = 1 .. Len(q)
      /\ \A k \in DOMAIN q : q[k] \in Rpc /\ q[k].age \in Nat
  BY Ages, Lengths
<1>2. ASSUME NEW k \in DOMAIN q
      PROVE  LET m == [q[k] EXCEPT !.age = q[k].age + 1]
             IN /\ m \in Rpc /\ m.age = q[k].age + 1 /\ m.kind = q[k].kind
                /\ m.from = q[k].from /\ m.upto = q[k].upto
  <2>1. q[k] \in Rpc /\ q[k].age + 1 \in 0 .. MaxDelay
    BY <1>1, TimeAssumption
  <2> QED  BY ONLY <2>1 DEF Rpc
<1>3. /\ DOMAIN Older(q) = 1 .. Len(q)
      /\ \A k \in 1 .. Len(q) : Older(q)[k] = [q[k] EXCEPT !.age = q[k].age + 1]
  BY <1>1 DEF Older
<1>4. Older(q) \in Seq(Rpc) /\ Len(Older(q)) = Len(q)
  <2>1. Older(q) \in [1 .. Len(q) -> Rpc]  BY <1>1, <1>2 DEF Older
  <2> QED  BY ONLY <1>1, <1>3, <2>1
<1> QED  BY <1>1, <1>2, <1>3, <1>4

-----------------------------------------------------------------------------
(* Sending, receiving and waiting.                                         *)

LEMMA GapBounds ==
    /\ Gap \in Nat /\ HeartbeatPeriod <= Gap /\ MaxDelay <= Gap
    /\ MaxDelay \in Nat /\ HeartbeatPeriod \in Nat
BY TimeAssumption DEF Gap

\* Something new is sent.
LEMMA OnTimeSent ==
    ASSUME NEW q \in Seq(Rpc), NEW r, NEW s \in Nat, NEW b, OnTime(q, r, s, b),
           NEW m \in Rpc, m.age = 0, NEW c \in Nat
    PROVE  OnTime(Append(q, m), r, s, c)
<1> DEFINE v == Append(q, m)
           l == Len(q)
<1>1. /\ v # <<>> /\ l \in Nat /\ Len(v) = l + 1
      /\ DOMAIN q = 1 .. l /\ DOMAIN v = 1 .. l + 1
      /\ (\A k \in 1 .. l : v[k] = q[k]) /\ v[l + 1] = m
  BY Appended
<1>2. (q = <<>> <=> l = 0) /\ \A k \in 1 .. l : q[k].age \in Nat
  BY <1>1, Ages
<1>3. Gap \in Nat  BY GapBounds
<1>4. l # 0 => q[l].age <= Gap  BY <1>2 DEF OnTime, Recent, Ago
<1>5. l = 0 => s <= Gap  BY <1>2 DEF OnTime, Recent, Ago
<1>6. \A k \in DOMAIN r : s <= r[k].age  BY DEF OnTime
<1>7. l # 0 => s <= q[1].age + Gap  BY <1>2 DEF OnTime
<1>8. \A k \in 1 .. l : k + 1 \in 1 .. l => q[k].age <= q[k + 1].age + Gap
  BY <1>1 DEF OnTime, Spaced
<1> HIDE DEF v, l
<1>9. s <= v[1].age + Gap
  <2>1. CASE l = 0  BY ONLY <1>1, <1>3, <1>5, <2>1, m.age = 0, s \in Nat
  <2>2. CASE l # 0
    <3>1. v[1] = q[1]  BY ONLY <1>1, <2>2
    <3> QED  BY ONLY <1>7, <2>2, <3>1
  <2> QED  BY <2>1, <2>2
<1>10. Spaced(v)
  <2> SUFFICES ASSUME NEW k \in DOMAIN v, k + 1 \in DOMAIN v
               PROVE  v[k].age <= v[k + 1].age + Gap
    BY DEF Spaced
  <2>1. k \in 1 .. l /\ v[k] = q[k]  BY <1>1
  <2>2. CASE k = l
    <3>1. v[k + 1].age = 0  BY ONLY <1>1, <2>2, m.age = 0
    <3>2. q[k].age <= Gap /\ q[k].age \in Nat
      BY ONLY <1>2, <1>4, <1>1, <2>1, <2>2
    <3> QED  BY ONLY <1>3, <2>1, <3>1, <3>2
  <2>3. CASE k # l
    <3>1. k + 1 \in 1 .. l /\ v[k + 1] = q[k + 1]
      BY ONLY <1>1, <2>1, <2>3
    <3> QED  BY ONLY <1>8, <2>1, <3>1
  <2> QED  BY <2>2, <2>3
<1>11. Recent(v, s, c)
  <2>1. Ago(v, s) = 0  BY <1>1 DEF Ago
  <2> QED  BY <1>3, <2>1 DEF Recent
<1> QED  BY <1>6, <1>9, <1>10, <1>11 DEF OnTime, v

\* The first message arrives and is answered.
LEMMA OnTimeReceived ==
    ASSUME NEW q \in Seq(Rpc), q # <<>>, NEW r \in Seq(Reply), NEW s, NEW b \in Nat,
           OnTime(q, r, s, b), NEW m \in Reply
    PROVE  OnTime(Tail(q), Append(r, m), 0, b)
<1> DEFINE v == Tail(q)
           l == Len(q)
           a == Append(r, m)
<1>1. /\ l \in Nat /\ l > 0 /\ Len(v) = l - 1
      /\ DOMAIN q = 1 .. l /\ DOMAIN v = 1 .. l - 1
      /\ (\A k \in 1 .. l - 1 : v[k] = q[k + 1]) /\ (v = <<>> <=> l = 1)
      /\ v \in Seq(Rpc)
  BY Tailed
<1>2. \A k \in 1 .. l - 1 : v[k].age \in Nat  BY <1>1, Ages
<1>3. Gap \in Nat /\ HeartbeatPeriod \in Nat  BY GapBounds
<1>4. \A k \in DOMAIN a : 0 <= a[k].age
  <2>1. a \in Seq(Reply)  BY Appended
  <2>2. \A k \in DOMAIN a : a[k].age \in Nat  BY <2>1, Ages
  <2> QED  BY ONLY <2>2
<1>5. \A k \in 1 .. l : k + 1 \in 1 .. l => q[k].age <= q[k + 1].age + Gap
  BY <1>1 DEF OnTime, Spaced
<1>6. q[l].age <= Gap /\ (b < HeartbeatPeriod => q[l].age <= b)
  BY DEF OnTime, Recent, Ago
<1> HIDE DEF v, l, a
<1>7. v # <<>> => 0 <= v[1].age + Gap
  <2> SUFFICES ASSUME v # <<>> PROVE 0 <= v[1].age + Gap
    OBVIOUS
  <2>1. 1 \in 1 .. l - 1  BY ONLY <1>1, v # <<>>
  <2>2. v[1].age \in Nat  BY ONLY <1>2, <2>1
  <2> QED  BY ONLY <1>3, <2>2
<1>8. Spaced(v)
  <2> SUFFICES ASSUME NEW k \in DOMAIN v, k + 1 \in DOMAIN v
               PROVE  v[k].age <= v[k + 1].age + Gap
    BY DEF Spaced
  <2>1. /\ k + 1 \in 1 .. l /\ k + 1 + 1 \in 1 .. l
        /\ v[k] = q[k + 1] /\ v[k + 1] = q[k + 1 + 1]
    BY ONLY <1>1, k \in DOMAIN v, k + 1 \in DOMAIN v
  <2> QED  BY ONLY <1>5, <2>1
<1>9. Recent(v, 0, b)
  <2>1. CASE v = <<>>
    <3>1. Ago(v, 0) = 0  BY <2>1 DEF Ago
    <3> QED  BY <1>3, <3>1 DEF Recent
  <2>2. CASE v # <<>>
    <3>1. Len(v) \in 1 .. l - 1 /\ Len(v) + 1 = l  BY ONLY <1>1, <2>2
    <3>2. v[Len(v)] = q[l]  BY ONLY <1>1, <3>1
    <3>3. Ago(v, 0) = q[l].age  BY <2>2, <3>2 DEF Ago
    <3> QED  BY <1>6, <3>3 DEF Recent
  <2> QED  BY <2>1, <2>2
<1> QED  BY <1>4, <1>7, <1>8, <1>9 DEF OnTime, v, a

\* The leader takes a reply.
LEMMA OnTimeTaken ==
    ASSUME NEW q, NEW r \in Seq(Reply), r # <<>>, NEW s, NEW b, OnTime(q, r, s, b)
    PROVE  OnTime(q, Tail(r), s, b)
<1>1. \A k \in DOMAIN Tail(r) : k + 1 \in DOMAIN r /\ Tail(r)[k] = r[k + 1]
  BY Tailed
<1>2. \A k \in DOMAIN Tail(r) : s <= Tail(r)[k].age  BY <1>1 DEF OnTime
<1> QED  BY <1>2 DEF OnTime

\* Half a second passes.
LEMMA OnTimeLater ==
    ASSUME NEW q \in Seq(Rpc), NEW r \in Seq(Reply), NEW s \in Nat, NEW b \in Nat,
           OnTime(q, r, s, b), q # <<>> \/ r # <<>> \/ b < HeartbeatPeriod,
           \A k \in DOMAIN q : q[k].age < MaxDelay,
           \A k \in DOMAIN r : r[k].age < MaxDelay
    PROVE  OnTime(Older(q), Older(r), s + 1,
                  IF b < HeartbeatPeriod THEN b + 1 ELSE b)
<1> DEFINE v == Older(q)
           w == Older(r)
           l == Len(q)
           t == s + 1
           c == IF b < HeartbeatPeriod THEN b + 1 ELSE b
<1>1. /\ l \in Nat /\ DOMAIN q = 1 .. l /\ (q = <<>> <=> l = 0)
      /\ Len(v) = l /\ DOMAIN v = 1 .. l /\ (v = <<>> <=> l = 0)
      /\ \A k \in 1 .. l : q[k].age \in Nat /\ v[k].age = q[k].age + 1
  BY Ages, Lengths, OlderRpcs
<1>2. /\ DOMAIN w = DOMAIN r
      /\ \A k \in DOMAIN r : r[k].age \in Nat /\ w[k].age = r[k].age + 1
  BY Ages, Lengths, OlderReplies
<1>3. \A k \in DOMAIN r : s <= r[k].age  BY DEF OnTime
<1>4. l # 0 => s <= q[1].age + Gap  BY <1>1 DEF OnTime
<1>5. \A k \in 1 .. l : k + 1 \in 1 .. l => q[k].age <= q[k + 1].age + Gap
  BY <1>1 DEF OnTime, Spaced
<1>6. Recent(q, s, b)  BY DEF OnTime
<1>7. r # <<>> => s < MaxDelay
  <2> SUFFICES ASSUME r # <<>> PROVE s < MaxDelay
    OBVIOUS
  <2>1. 1 \in DOMAIN r  BY Lengths
  <2> QED  BY <1>2, <1>3, <2>1, GapBounds
<1>8. \A k \in 1 .. l : q[k].age < MaxDelay  BY <1>1
<1>9. Ago(q, s) \in Nat /\ (q # <<>> => Ago(q, s) < MaxDelay)
      /\ (q = <<>> => Ago(q, s) = s)
  BY <1>1, <1>8 DEF Ago
<1>10. Ago(v, t) = Ago(q, s) + 1
  <2> HIDE DEF v, w, c
  <2>1. CASE q = <<>>  BY <1>1, <2>1 DEF Ago
  <2>2. CASE q # <<>>
    <3>1. l \in 1 .. l /\ v # <<>>  BY <1>1, <2>2
    <3> QED  BY <1>1, <2>2, <3>1 DEF Ago
  <2> QED  BY <2>1, <2>2
<1>11. c \in Nat /\ (c < HeartbeatPeriod => b < HeartbeatPeriod /\ c = b + 1)
  BY GapBounds
<1> HIDE DEF v, w, l, t, c
<1>12. Recent(v, t, c)
  <2>1. Ago(q, s) + 1 <= Gap
    <3>1. CASE b < HeartbeatPeriod
      BY <1>6, <1>9, <3>1, GapBounds DEF Recent
    <3>2. CASE ~(b < HeartbeatPeriod)
      <4>1. Ago(q, s) < MaxDelay  BY <1>7, <1>9, <3>2
      <4> QED  BY ONLY <1>9, <4>1, GapBounds
    <3> QED  BY <3>1, <3>2
  <2>2. c < HeartbeatPeriod => Ago(q, s) + 1 <= c
    <3> SUFFICES ASSUME c < HeartbeatPeriod PROVE Ago(q, s) + 1 <= c
      OBVIOUS
    <3>1. Ago(q, s) <= b /\ c = b + 1  BY <1>6, <1>11 DEF Recent
    <3> QED  BY ONLY <1>9, <3>1, b \in Nat
  <2> QED  BY <1>10, <2>1, <2>2 DEF Recent
<1>13. Spaced(v)
  <2> SUFFICES ASSUME NEW k \in DOMAIN v, k + 1 \in DOMAIN v
               PROVE  v[k].age <= v[k + 1].age + Gap
    BY DEF Spaced
  <2>1. /\ k \in 1 .. l /\ k + 1 \in 1 .. l
        /\ q[k].age \in Nat /\ q[k + 1].age \in Nat
        /\ v[k].age = q[k].age + 1 /\ v[k + 1].age = q[k + 1].age + 1
    BY <1>1
  <2>2. q[k].age <= q[k + 1].age + Gap  BY <1>5, <2>1
  <2>3. Gap \in Nat  BY GapBounds
  <2>4. q[k].age + 1 <= q[k + 1].age + 1 + Gap
    BY ONLY <2>1, <2>2, <2>3
  <2> QED  BY ONLY <2>1, <2>4
<1>14. v # <<>> => t <= v[1].age + Gap
  <2> SUFFICES ASSUME v # <<>> PROVE t <= v[1].age + Gap
    OBVIOUS
  <2>1. 1 \in 1 .. l /\ l # 0  BY <1>1
  <2>2. q[1].age \in Nat /\ v[1].age = q[1].age + 1  BY <1>1, <2>1
  <2> QED  BY <1>4, <2>1, <2>2, GapBounds DEF t
<1>15. \A k \in DOMAIN w : t <= w[k].age  BY <1>2, <1>3 DEF t
<1>16. OnTime(v, w, t, c)  BY <1>12, <1>13, <1>14, <1>15 DEF OnTime
<1> QED  BY <1>16 DEF v, w, t, c

LEMMA PendingLater ==
    ASSUME NEW q \in Seq(Rpc), NEW r \in Seq(Reply), NEW n, Pending(q, r, n),
           \A k \in DOMAIN q : q[k].age < MaxDelay,
           \A k \in DOMAIN r : r[k].age < MaxDelay
    PROVE  Pending(Older(q), Older(r), n)
<1>1. /\ Older(q) \in Seq(Rpc) /\ Len(Older(q)) = Len(q)
      /\ DOMAIN Older(q) = DOMAIN q /\ (Older(q) = <<>> <=> q = <<>>)
  BY OlderRpcs, Lengths
<1>2. /\ Older(r) \in Seq(Reply) /\ Len(Older(r)) = Len(r)
      /\ DOMAIN Older(r) = DOMAIN r /\ (Older(r) = <<>> <=> r = <<>>)
  BY OlderReplies, Lengths
<1>3. \A k \in DOMAIN q : /\ Older(q)[k].kind = q[k].kind
                          /\ Older(q)[k].from = q[k].from
  BY OlderRpcs
<1>4. \A k \in DOMAIN r : Older(r)[k].kind = r[k].kind  BY OlderReplies
<1> QED  BY <1>1, <1>2, <1>3, <1>4 DEF Pending

\* A new append, or a heartbeat.
LEMMA PendingSent ==
    ASSUME NEW q \in Seq(Rpc), NEW r, NEW n, NEW m \in Rpc, NEW o \in Int,
           \/ Pending(q, r, n) /\ o = n
           \/ o > 0
           \/ m.kind = "append" /\ m.from = 0
    PROVE  Pending(Append(q, m), r, o)
<1>1. /\ Append(q, m) # <<>> /\ DOMAIN q \subseteq DOMAIN Append(q, m)
      /\ \A k \in DOMAIN q : Append(q, m)[k] = q[k]
  BY Appended
<1>2. \E k \in DOMAIN Append(q, m) : Append(q, m)[k] = m
  <2>1. Len(q) + 1 \in DOMAIN Append(q, m)  BY Appended
  <2> QED  BY <2>1, Appended
<1>3. CASE Pending(q, r, n) /\ o = n  BY <1>1, <1>3 DEF Pending
<1>4. CASE o > 0  BY <1>1, <1>4 DEF Pending
<1>5. CASE m.kind = "append" /\ m.from = 0  BY <1>1, <1>2, <1>5 DEF Pending
<1> QED  BY <1>3, <1>4, <1>5

\* A follower answers an append from its first block by taking it.
LEMMA PendingReceived ==
    ASSUME NEW q \in Seq(Rpc), q # <<>>, NEW r \in Seq(Reply), NEW n, Pending(q, r, n),
           NEW m \in Reply,
           Head(q).kind = "append" /\ Head(q).from = 0 => m.kind = "accept"
    PROVE  Pending(Tail(q), Append(r, m), n)
<1>1. /\ Append(r, m) # <<>> /\ DOMAIN r \subseteq DOMAIN Append(r, m)
      /\ \A k \in DOMAIN r : Append(r, m)[k] = r[k]
  BY Appended
<1>2. \E k \in DOMAIN Append(r, m) : Append(r, m)[k] = m
  <2>1. Len(r) + 1 \in DOMAIN Append(r, m)  BY Appended
  <2> QED  BY <2>1, Appended
<1>3. ASSUME NEW k \in DOMAIN q, k # 1
      PROVE  k - 1 \in DOMAIN Tail(q) /\ Tail(q)[k - 1] = q[k]
  <2>1. k - 1 \in 1 .. Len(q) - 1 /\ k - 1 + 1 = k  BY <1>3, Tailed
  <2> QED  BY <2>1, Tailed
<1>4. Head(q) = q[1]  BY Tailed
<1>5. n <= 0 => \/ \E k \in DOMAIN Tail(q) : Tail(q)[k].kind = "append" /\ Tail(q)[k].from = 0
                \/ \E k \in DOMAIN Append(r, m) : Append(r, m)[k].kind = "accept"
  <2>1. CASE \E k \in DOMAIN r : r[k].kind = "accept"  BY <1>1, <2>1
  <2>2. ASSUME NEW k \in DOMAIN q, q[k].kind = "append", q[k].from = 0
        PROVE  \/ \E j \in DOMAIN Tail(q) : Tail(q)[j].kind = "append" /\ Tail(q)[j].from = 0
               \/ \E j \in DOMAIN Append(r, m) : Append(r, m)[j].kind = "accept"
    <3>1. CASE k = 1  BY <1>2, <1>4, <2>2, <3>1
    <3>2. CASE k # 1  BY <1>3, <2>2, <3>2
    <3> QED  BY <3>1, <3>2
  <2> QED  BY <2>1, <2>2 DEF Pending
<1> QED  BY <1>1, <1>5 DEF Pending

\* A reply that does not end the wait is none that was to end it.
LEMMA PendingTaken ==
    ASSUME NEW q, NEW r \in Seq(Reply), r # <<>>, NEW n, Pending(q, r, n), n <= 0,
           Head(r).kind # "accept"
    PROVE  Pending(q, Tail(r), n)
<1>1. ASSUME NEW k \in DOMAIN r, r[k].kind = "accept"
      PROVE  k - 1 \in DOMAIN Tail(r) /\ Tail(r)[k - 1].kind = "accept"
  <2>1. k # 1  BY <1>1, Tailed
  <2>2. k - 1 \in 1 .. Len(r) - 1 /\ k - 1 + 1 = k  BY <2>1, Tailed
  <2> QED  BY <1>1, <2>2, Tailed
<1>2. CASE \E k \in DOMAIN r : r[k].kind = "accept"
  <2>1. PICK k \in DOMAIN r : r[k].kind = "accept"  BY <1>2
  <2>2. k - 1 \in DOMAIN Tail(r) /\ Tail(r)[k - 1].kind = "accept"  BY <1>1, <2>1
  <2>3. Tail(r) # <<>>  BY <2>2, Tailed
  <2> QED  BY <2>2, <2>3 DEF Pending
<1>3. CASE \E k \in DOMAIN q : q[k].kind = "append" /\ q[k].from = 0
  <2>1. q # <<>>  BY <1>3
  <2> QED  BY <1>3, <2>1 DEF Pending
<1> QED  BY <1>2, <1>3 DEF Pending

-----------------------------------------------------------------------------
(* Types.                                                                  *)

LEMMA Sizes ==
    /\ Cardinality(Follower) \in Nat
    /\ HeartbeatPeriod \in Nat /\ HandleTime \in Nat /\ ElectionTimeout \in Nat
    /\ MaxDelay \in Nat /\ FirstLength \in 0 .. MaxLength /\ MaxLength \in Nat
    /\ MaxCuts \in Nat
    /\ Majority \in Nat
    /\ \A f \in Follower : Majority <= Cardinality(Follower) + 1
<1>1. Cardinality(Follower) \in Nat
  BY TimeAssumption, FS_CardinalityType
<1>2. ASSUME NEW f \in Follower PROVE Cardinality(Follower) >= 1
  <2>1. Follower # {}  OBVIOUS
  <2> QED  BY <1>1, <2>1, TimeAssumption, FS_EmptySet
<1> DEFINE k == Cardinality(Follower)
<1>3. k \in Nat  BY <1>1
<1> HIDE DEF k
<1>4. (k + 1) \div 2 + 1 \in Nat /\ (k >= 1 => (k + 1) \div 2 + 1 <= k + 1)
  BY ONLY <1>3
<1> QED  BY <1>1, <1>2, <1>4, TimeAssumption DEF Majority, k

LEMMA RpcTypes ==
    /\ Heartbeat \in Rpc /\ Heartbeat.age = 0 /\ Heartbeat.upto = 0
    /\ \A x, y \in 0 .. MaxLength :
        /\ AppendRpc(x, y) \in Rpc /\ AppendRpc(x, y).age = 0
        /\ AppendRpc(x, y).kind = "append" /\ AppendRpc(x, y).from = x
        /\ AppendRpc(x, y).upto = y
BY TimeAssumption DEF Heartbeat, AppendRpc, Rpc

LEMMA TypeParts ==
    ASSUME TypeOK
    PROVE  /\ sinceBeat \in Nat /\ sinceReply \in 0 .. HandleTime + 1
           /\ length \in 0 .. MaxLength /\ length \in Int /\ length >= 0
           /\ waiting \in BOOLEAN /\ (waiting <=> accepts > 0)
           /\ accepts \in 0 .. Cardinality(Follower) + 1 /\ accepts \in Int
           /\ nextIndex \in [Follower -> Int]
           /\ has \in [Follower -> 0 .. length]
           /\ toFollower \in [Follower -> Seq(Rpc)]
           /\ toLeader \in [Follower -> Seq(Reply)]
           /\ silence \in [Follower -> Nat]
           /\ cut \in [Follower -> BOOLEAN] /\ everCut \in [Follower -> BOOLEAN]
           /\ \A f \in Follower : /\ toFollower[f] \in Seq(Rpc)
                                  /\ toLeader[f] \in Seq(Reply)
                                  /\ nextIndex[f] \in Int /\ silence[f] \in Nat
BY DEF TypeOK

LEMMA TypeInit == Init => TypeInv
<1> SUFFICES ASSUME Init PROVE TypeInv
  OBVIOUS
<1>1. \A f \in Follower : toFollower[f] = <<Heartbeat>>  BY DEF Init
<1>2. <<Heartbeat>> \in Seq(Rpc) /\ <<>> \in Seq(Reply)  BY RpcTypes
<1>3. TypeOK
  <2>1. /\ toFollower \in [Follower -> Seq(Rpc)]
        /\ toLeader \in [Follower -> Seq(Reply)]
    BY <1>2 DEF Init
  <2>2. /\ sinceBeat \in Nat
        /\ sinceReply \in 0 .. HandleTime + 1
        /\ accepts \in 0 .. Cardinality(Follower) + 1 /\ ~(accepts > 0)
        /\ length \in 0 .. MaxLength /\ cuts \in 0 .. MaxCuts
    BY Sizes DEF Init
  <2>4. waiting \in BOOLEAN /\ (waiting <=> accepts > 0)  BY <2>2, Zenon DEF Init
  <2>3. /\ nextIndex \in [Follower -> Int] /\ has \in [Follower -> 0 .. length]
        /\ silence \in [Follower -> Nat]
        /\ cut \in [Follower -> BOOLEAN] /\ everCut \in [Follower -> BOOLEAN]
    BY DEF Init
  <2> QED  BY <2>1, <2>2, <2>3, <2>4 DEF TypeOK
<1>4. \A k \in DOMAIN <<Heartbeat>> : <<Heartbeat>>[k].upto = 0  BY RpcTypes
<1>5. Offered  BY <1>1, <1>4, Sizes DEF Init, Offered
<1> QED  BY <1>3, <1>5 DEF TypeInv

\* What is sent keeps to the leader's chain.
LEMMA OfferedMore ==
    ASSUME NEW q \in Seq(Rpc), NEW m \in Rpc, NEW n \in Int, NEW l \in Int, n <= l,
           \A k \in DOMAIN q : q[k].upto <= n, m.upto <= l
    PROVE  \A k \in DOMAIN Append(q, m) : Append(q, m)[k].upto <= l
<1>1. \A k \in DOMAIN q : q[k].upto \in Int
  <2>1. \A x \in Rpc : x.upto \in Int  BY Sizes DEF Rpc
  <2> QED  BY <2>1, Lengths
<1> QED  BY <1>1, Appended

LEMMA TypeBeat ==
    ASSUME TypeInv, Beat
    PROVE  TypeInv'
<1> USE DEF TypeInv
<1>1. toFollower' \in [Follower -> Seq(Rpc)]
  BY TypeParts, RpcTypes, Appended DEF Beat
<1>2. TypeOK'  BY <1>1, Sizes DEF TypeOK, Beat, links
<1>3. Offered'
  <2> SUFFICES ASSUME NEW f \in Follower
               PROVE  /\ nextIndex'[f] <= length'
                      /\ \A k \in DOMAIN toFollower'[f] : toFollower'[f][k].upto <= length'
    BY DEF Offered
  <2>1. /\ nextIndex' = nextIndex /\ length' = length
        /\ toFollower'[f] = Append(toFollower[f], Heartbeat)
    BY DEF Beat
  <2>2. nextIndex[f] <= length /\ \A k \in DOMAIN toFollower[f] : toFollower[f][k].upto <= length
    BY DEF Offered
  <2>3. Heartbeat.upto <= length /\ length \in Int  BY RpcTypes, TypeParts
  <2> QED  BY <2>1, <2>2, <2>3, RpcTypes, TypeParts, OfferedMore
<1> QED  BY <1>2, <1>3

LEMMA TypeTakeRequest ==
    ASSUME TypeInv, TakeRequest
    PROVE  TypeInv'
<1> USE DEF TypeInv
<1>1. /\ length \in Nat /\ length + 1 \in 0 .. MaxLength
      /\ length \in 0 .. MaxLength
  BY TypeParts, Sizes DEF TakeRequest
<1> DEFINE m == AppendRpc(length, length + 1)
<1>2. m \in Rpc /\ m.upto = length + 1  BY <1>1, RpcTypes
<1> HIDE DEF m
<1>3. /\ waiting' = TRUE /\ sinceReply' = 0 /\ accepts' = 1
      /\ length' = length + 1 /\ nextIndex' = [f \in Follower |-> length]
      /\ toFollower' = [f \in Follower |-> Append(toFollower[f], m)]
      /\ UNCHANGED <<sinceBeat, has, toLeader, silence, links>>
  BY DEF TakeRequest, m
<1>4. TypeOK'
  <2>1. toFollower' \in [Follower -> Seq(Rpc)]
    BY <1>2, <1>3, TypeParts, Appended
  <2>2. has' \in [Follower -> 0 .. length']  BY <1>1, <1>3, TypeParts
  <2>3. nextIndex' \in [Follower -> Int]  BY <1>1, <1>3
  <2>4. /\ accepts' \in 0 .. Cardinality(Follower) + 1
        /\ sinceReply' \in 0 .. HandleTime + 1 /\ length' \in 0 .. MaxLength
        /\ waiting' \in BOOLEAN /\ (waiting' <=> accepts' > 0)
    BY <1>1, <1>3, Sizes
  <2> QED  BY ONLY <1>3, <2>1, <2>2, <2>3, <2>4, TypeOK DEF TypeOK, links
<1>5. Offered'
  <2> SUFFICES ASSUME NEW f \in Follower
               PROVE  /\ nextIndex'[f] <= length'
                      /\ \A k \in DOMAIN toFollower'[f] : toFollower'[f][k].upto <= length'
    BY DEF Offered
  <2>1. \A k \in DOMAIN toFollower[f] : toFollower[f][k].upto <= length
    BY DEF Offered
  <2>2. toFollower'[f] = Append(toFollower[f], m) /\ nextIndex'[f] = length
    BY <1>3
  <2>3. nextIndex'[f] <= length'  BY <1>1, <1>3, <2>2
  <2>4. toFollower[f] \in Seq(Rpc) /\ length \in Int /\ length + 1 \in Int
        /\ length <= length + 1 /\ m.upto <= length + 1
    BY <1>1, <1>2, TypeParts
  <2>5. \A k \in DOMAIN Append(toFollower[f], m) :
            Append(toFollower[f], m)[k].upto <= length + 1
    BY <1>2, <2>1, <2>4, OfferedMore
  <2> QED  BY <1>3, <2>2, <2>3, <2>5
<1> QED  BY <1>4, <1>5

\* What HandleReply makes of the leader's variables.
LEMMA Reacts ==
    ASSUME TypeOK, NEW f \in Follower, HandleReply(f)
    PROVE  /\ toLeader[f] # <<>> /\ Head(toLeader[f]) \in Reply
           /\ toLeader' = [toLeader EXCEPT ![f] = Tail(toLeader[f])]
           /\ UNCHANGED <<sinceBeat, length, has, silence, links>>
           /\ \/ ~waiting /\ UNCHANGED <<leader, toFollower>>
              \/ /\ waiting /\ Head(toLeader[f]).kind = "accept"
                 /\ IF accepts + 1 >= Majority
                    THEN waiting' = FALSE /\ sinceReply' = 0 /\ accepts' = 0
                    ELSE waiting' = TRUE /\ sinceReply' = 0 /\ accepts' = accepts + 1
                 /\ nextIndex' = [nextIndex EXCEPT ![f] = length]
                 /\ toFollower' = toFollower
              \/ /\ waiting /\ Head(toLeader[f]).kind # "accept"
                 /\ waiting' = waiting /\ sinceReply' = 0 /\ accepts' = accepts
                 /\ nextIndex' = [nextIndex EXCEPT ![f] = nextIndex[f] - 1]
                 /\ \/ nextIndex[f] - 1 < 0 /\ toFollower' = toFollower
                    \/ /\ nextIndex[f] - 1 >= 0
                       /\ toFollower' = [toFollower EXCEPT ![f] =
                            Append(toFollower[f], AppendRpc(nextIndex[f] - 1, length))]
<1>1. toLeader[f] # <<>> /\ toLeader[f] \in Seq(Reply) /\ nextIndex[f] \in Int
  BY TypeParts DEF HandleReply
<1>2. Head(toLeader[f]) \in Reply  BY <1>1, Tailed
<1> HIDE DEF links
<1> QED  BY <1>1, <1>2 DEF HandleReply, StopWaiting, leader

LEMMA TypeHandleReply ==
    ASSUME TypeInv, NEW f \in Follower, HandleReply(f)
    PROVE  TypeInv'
<1> USE DEF TypeInv
<1>1. /\ toLeader[f] # <<>>
      /\ toLeader' = [toLeader EXCEPT ![f] = Tail(toLeader[f])]
      /\ UNCHANGED <<sinceBeat, length, has, silence, links>>
  BY Reacts
<1>2. toLeader' \in [Follower -> Seq(Reply)]
  <2>1. Tail(toLeader[f]) \in Seq(Reply)  BY <1>1, TypeParts, Tailed
  <2> QED  BY <1>1, <2>1, TypeParts
<1>3. ASSUME /\ sinceReply' \in 0 .. HandleTime + 1
             /\ accepts' \in 0 .. Cardinality(Follower) + 1
             /\ waiting' \in BOOLEAN /\ (waiting' <=> accepts' > 0),
             NEW i \in Int, i <= length,
             nextIndex' = nextIndex \/ nextIndex' = [nextIndex EXCEPT ![f] = i],
             NEW m \in Rpc, m.upto <= length,
             \/ toFollower' = toFollower
             \/ toFollower' = [toFollower EXCEPT ![f] = Append(toFollower[f], m)]
      PROVE  TypeInv'
  <2>1. toFollower' \in [Follower -> Seq(Rpc)]
    <3>1. Append(toFollower[f], m) \in Seq(Rpc)  BY <1>3, TypeParts, Appended
    <3>2. toFollower \in [Follower -> Seq(Rpc)]  BY TypeParts
    <3> QED  BY ONLY <1>3, <3>1, <3>2
  <2>2. nextIndex' \in [Follower -> Int]  BY <1>3, TypeParts
  <2>3. TypeOK'
    BY ONLY <1>1, <1>2, <1>3, <2>1, <2>2, TypeOK DEF TypeOK, links
  <2>4. ASSUME NEW g \in Follower
        PROVE  /\ nextIndex'[g] <= length
               /\ \A k \in DOMAIN toFollower'[g] : toFollower'[g][k].upto <= length
    <3>1. /\ nextIndex[g] <= length
          /\ \A k \in DOMAIN toFollower[g] : toFollower[g][k].upto <= length
      BY DEF Offered
    <3>2. nextIndex'[g] <= length  BY ONLY <1>3, <3>1, TypeParts, TypeOK
    <3>3. toFollower'[g] = toFollower[g] \/ toFollower'[g] = Append(toFollower[g], m)
      BY <1>3, TypeParts
    <3>4. \A k \in DOMAIN Append(toFollower[g], m) : Append(toFollower[g], m)[k].upto <= length
      <4>1. toFollower[g] \in Seq(Rpc) /\ length \in Int /\ length <= length
        BY TypeParts
      <4> QED  BY ONLY <1>3, <3>1, <4>1, OfferedMore
    <3> QED  BY <3>1, <3>2, <3>3, <3>4
  <2>5. Offered'  BY <1>1, <2>4 DEF Offered
  <2> QED  BY <2>3, <2>5
<1>4. /\ length \in Int /\ length \in 0 .. MaxLength /\ Heartbeat \in Rpc
      /\ Heartbeat.upto <= length
      /\ nextIndex[f] \in Int /\ nextIndex[f] <= length
  BY TypeParts, RpcTypes DEF Offered
<1>5. CASE ~waiting /\ UNCHANGED <<leader, toFollower>>
  BY <1>3, <1>4, <1>5, TypeParts DEF leader
<1>6. CASE /\ waiting /\ Head(toLeader[f]).kind = "accept"
           /\ IF accepts + 1 >= Majority
              THEN waiting' = FALSE /\ sinceReply' = 0 /\ accepts' = 0
              ELSE waiting' = TRUE /\ sinceReply' = 0 /\ accepts' = accepts + 1
           /\ nextIndex' = [nextIndex EXCEPT ![f] = length]
           /\ toFollower' = toFollower
  <2>1. 0 \in 0 .. HandleTime + 1 /\ 0 \in 0 .. Cardinality(Follower) + 1
        /\ ~(0 > 0)
    BY Sizes
  <2>2. accepts + 1 < Majority =>
            accepts + 1 \in 0 .. Cardinality(Follower) + 1 /\ accepts + 1 > 0
    BY Sizes, TypeParts
  <2>3. \/ waiting' = FALSE /\ sinceReply' = 0 /\ accepts' = 0
        \/ waiting' = TRUE /\ sinceReply' = 0 /\ accepts' = accepts + 1
           /\ accepts + 1 < Majority
    BY <1>6, Sizes, TypeParts
  <2>4. /\ sinceReply' \in 0 .. HandleTime + 1
        /\ accepts' \in 0 .. Cardinality(Follower) + 1
        /\ waiting' \in BOOLEAN /\ (waiting' <=> accepts' > 0)
    BY <2>1, <2>2, <2>3, Zenon
  <2>5. length <= length  BY <1>4
  <2> QED  BY <1>3, <1>4, <1>6, <2>4, <2>5
<1>7. CASE /\ waiting /\ Head(toLeader[f]).kind # "accept"
           /\ waiting' = waiting /\ sinceReply' = 0 /\ accepts' = accepts
           /\ nextIndex' = [nextIndex EXCEPT ![f] = nextIndex[f] - 1]
           /\ \/ nextIndex[f] - 1 < 0 /\ toFollower' = toFollower
              \/ /\ nextIndex[f] - 1 >= 0
                 /\ toFollower' = [toFollower EXCEPT ![f] =
                      Append(toFollower[f], AppendRpc(nextIndex[f] - 1, length))]
  <2> DEFINE i == nextIndex[f] - 1
  <2>1. i \in Int /\ i <= length  BY <1>4
  <2>2. /\ sinceReply' \in 0 .. HandleTime + 1
        /\ accepts' \in 0 .. Cardinality(Follower) + 1
        /\ waiting' \in BOOLEAN /\ (waiting' <=> accepts' > 0)
    BY <1>7, Sizes, TypeParts
  <2>3. CASE toFollower' = toFollower  BY <1>3, <1>4, <1>7, <2>1, <2>2, <2>3
  <2>4. CASE /\ i >= 0
             /\ toFollower' = [toFollower EXCEPT ![f] =
                                   Append(toFollower[f], AppendRpc(i, length))]
    <3>1. i \in 0 .. MaxLength  BY <1>4, <2>1, <2>4, Sizes
    <3>2. AppendRpc(i, length) \in Rpc /\ AppendRpc(i, length).upto <= length
      BY <1>4, <3>1, RpcTypes
    <3> QED  BY <1>3, <1>7, <2>1, <2>2, <2>4, <3>2
  <2> QED  BY <1>7, <2>3, <2>4
<1> QED  BY <1>5, <1>6, <1>7, Reacts

LEMMA TypeHandleRpc ==
    ASSUME TypeInv, NEW f \in Follower, HandleRpc(f)
    PROVE  TypeInv'
<1> USE DEF TypeInv
<1> DEFINE m == Head(toFollower[f])
           q == Tail(toFollower[f])
<1>1. /\ toFollower[f] # <<>> /\ toFollower[f] \in Seq(Rpc)
      /\ toFollower' = [toFollower EXCEPT ![f] = q]
      /\ UNCHANGED <<leader, links>>
  BY TypeParts DEF HandleRpc
<1>2. q \in Seq(Rpc) /\ m \in Rpc /\ m = toFollower[f][1]
      /\ 1 \in DOMAIN toFollower[f]
      /\ \A k \in DOMAIN q : k + 1 \in DOMAIN toFollower[f] /\ q[k] = toFollower[f][k + 1]
  BY <1>1, Tailed
<1>3. toFollower' \in [Follower -> Seq(Rpc)]  BY <1>1, <1>2, TypeParts
<1>4. PICK x \in Reply, n \in 0 .. length :
        \/ UNCHANGED <<has, toLeader, silence>>
        \/ /\ silence' = [silence EXCEPT ![f] = 0]
           /\ has' = has \/ has' = [has EXCEPT ![f] = n]
           /\ toLeader' = [toLeader EXCEPT ![f] = Append(toLeader[f], x)]
  <2> DEFINE taken == m.kind = "append" /\ m.from <= has[f]
             kind == IF taken THEN "accept"
                     ELSE IF m.kind = "beat" THEN "beat" ELSE "refuse"
             x == [kind |-> kind, age |-> 0]
  <2>1. x \in Reply  BY TimeAssumption DEF Reply
  <2>2. m.upto \in 0 .. length
    <3>1. m.upto <= length  BY <1>2 DEF Offered
    <3>2. m.upto \in Nat  BY <1>2, Sizes DEF Rpc
    <3> QED  BY <3>1, <3>2, TypeParts
  <2>3. IF cut[f]
        THEN UNCHANGED <<has, toLeader, silence>>
        ELSE /\ silence' = [silence EXCEPT ![f] = 0]
             /\ has' = IF taken THEN [has EXCEPT ![f] = m.upto] ELSE has
             /\ toLeader' = [toLeader EXCEPT ![f] = Append(toLeader[f], x)]
    BY TypeParts DEF HandleRpc
  <2> HIDE DEF m, x, taken
  <2> QED  BY <2>1, <2>2, <2>3
<1> HIDE DEF m, q
<1>5. TypeOK'
  <2>1. has' \in [Follower -> 0 .. length]  BY <1>4, TypeParts
  <2>2. silence' \in [Follower -> Nat]  BY <1>4, TypeParts
  <2>3. toLeader' \in [Follower -> Seq(Reply)]
    <3>1. Append(toLeader[f], x) \in Seq(Reply)  BY TypeParts, Appended
    <3> QED  BY <1>4, <3>1, TypeParts
  <2> QED
    BY ONLY <1>1, <1>3, <2>1, <2>2, <2>3, TypeOK DEF TypeOK, leader, links
<1>6. Offered'
  <2> SUFFICES ASSUME NEW g \in Follower
               PROVE  /\ nextIndex'[g] <= length'
                      /\ \A k \in DOMAIN toFollower'[g] : toFollower'[g][k].upto <= length'
    BY DEF Offered
  <2>1. /\ nextIndex[g] <= length
        /\ \A k \in DOMAIN toFollower[g] : toFollower[g][k].upto <= length
    BY DEF Offered
  <2>2. toFollower'[g] = IF g = f THEN q ELSE toFollower[g]
    BY <1>1, TypeParts
  <2>3. CASE g = f  BY <1>1, <1>2, <2>1, <2>2, <2>3 DEF leader
  <2>4. CASE g # f  BY <1>1, <2>1, <2>2, <2>4 DEF leader
  <2> QED  BY <2>3, <2>4
<1> QED  BY <1>5, <1>6

LEMMA TypeTick ==
    ASSUME TypeInv, Tick
    PROVE  TypeInv'
<1> USE DEF TypeInv
<1>1. /\ toFollower' = [f \in Follower |-> Older(toFollower[f])]
      /\ toLeader' = [f \in Follower |-> Older(toLeader[f])]
      /\ silence' = [f \in Follower |-> IF everCut[f] THEN 0 ELSE silence[f] + 1]
      /\ UNCHANGED <<waiting, accepts, nextIndex, length, has, links>>
      /\ \A f \in Follower :
            /\ \A k \in DOMAIN toFollower[f] : toFollower[f][k].age < MaxDelay
            /\ \A k \in DOMAIN toLeader[f] : toLeader[f][k].age < MaxDelay
  BY DEF Tick
<1>2. /\ sinceBeat' \in Nat /\ sinceReply' \in 0 .. HandleTime + 1
  BY TypeParts, Sizes DEF Tick
<1>3. TypeOK'
  <2>1. toFollower' \in [Follower -> Seq(Rpc)]
    BY <1>1, TypeParts, OlderRpcs
  <2>2. toLeader' \in [Follower -> Seq(Reply)]
    BY <1>1, TypeParts, OlderReplies
  <2>3. silence' \in [Follower -> Nat]  BY <1>1, TypeParts
  <2> QED
    BY ONLY <1>1, <1>2, <2>1, <2>2, <2>3, TypeOK DEF TypeOK, links
<1>4. Offered'
  <2> SUFFICES ASSUME NEW g \in Follower
               PROVE  /\ nextIndex'[g] <= length'
                      /\ \A k \in DOMAIN toFollower'[g] : toFollower'[g][k].upto <= length'
    BY DEF Offered
  <2>1. /\ nextIndex[g] <= length
        /\ \A k \in DOMAIN toFollower[g] : toFollower[g][k].upto <= length
    BY DEF Offered
  <2>2. toFollower'[g] = Older(toFollower[g]) /\ toFollower[g] \in Seq(Rpc)
    BY <1>1, TypeParts
  <2>3. DOMAIN Older(toFollower[g]) = DOMAIN toFollower[g]
        /\ \A k \in DOMAIN toFollower[g] :
              Older(toFollower[g])[k].upto = toFollower[g][k].upto
    BY <1>1, <2>2, OlderRpcs, Lengths
  <2> QED  BY <1>1, <2>1, <2>2, <2>3
<1> QED  BY <1>3, <1>4

LEMMA TypeStep == TypeInv /\ [Next]_vars => TypeInv'
<1> SUFFICES ASSUME TypeInv, [Next]_vars PROVE TypeInv'
  OBVIOUS
<1> USE DEF TypeInv
<1>1. CASE Beat  BY <1>1, TypeBeat
<1>2. CASE TakeRequest  BY <1>2, TypeTakeRequest
<1>3. CASE GiveUp
  <2>1. /\ waiting' = FALSE /\ sinceReply' = 0 /\ accepts' = 0
        /\ UNCHANGED <<sinceBeat, nextIndex, length, has, toFollower, toLeader,
                       silence, links>>
    BY <1>3 DEF GiveUp, StopWaiting
  <2>2. 0 \in 0 .. HandleTime + 1 /\ 0 \in 0 .. Cardinality(Follower) + 1
        /\ ~(0 > 0)
    BY Sizes
  <2>3. /\ sinceReply' \in 0 .. HandleTime + 1
        /\ accepts' \in 0 .. Cardinality(Follower) + 1
        /\ waiting' \in BOOLEAN /\ (waiting' <=> accepts' > 0)
    BY <2>1, <2>2, Zenon
  <2>4. TypeOK'  BY ONLY <2>1, <2>3, TypeOK DEF TypeOK, links
  <2>5. Offered'  BY <2>1 DEF Offered
  <2> QED  BY <2>4, <2>5
<1>4. CASE Tick  BY <1>4, TypeTick
<1>5. ASSUME NEW f \in Follower, HandleReply(f) PROVE TypeInv'
  BY <1>5, TypeHandleReply
<1>6. ASSUME NEW f \in Follower, HandleRpc(f) PROVE TypeInv'
  BY <1>6, TypeHandleRpc
<1>7. ASSUME NEW f \in Follower, Toggle(f) PROVE TypeInv'
  <2>1. /\ cut' \in [Follower -> BOOLEAN] /\ everCut' \in [Follower -> BOOLEAN]
        /\ UNCHANGED <<leader, has, toFollower, toLeader, silence>>
    BY <1>7, TypeParts DEF Toggle
  <2>2. cuts' \in 0 .. MaxCuts  BY <1>7, Sizes DEF Toggle, TypeOK
  <2>3. TypeOK'  BY ONLY <2>1, <2>2, TypeOK DEF TypeOK, leader
  <2>4. Offered'  BY <2>1 DEF Offered, leader
  <2> QED  BY <2>3, <2>4
<1>8. CASE UNCHANGED vars
  BY <1>8 DEF vars, leader, links, TypeOK, Offered
<1> QED  BY <1>1, <1>2, <1>3, <1>4, <1>5, <1>6, <1>7, <1>8 DEF Next

-----------------------------------------------------------------------------
(* Time.                                                                   *)

LEMMA TimeInit == Init => TimeInv
<1> SUFFICES ASSUME Init PROVE TimeInv
  OBVIOUS
<1>1. TypeInv  BY TypeInit
<1>2. ASSUME NEW f \in Follower PROVE InReach(f)
  <2> DEFINE q == <<Heartbeat>>
  <2>1. /\ toFollower[f] = q /\ toLeader[f] = <<>> /\ silence[f] = 0
        /\ sinceBeat = 0 /\ cut[f] = FALSE /\ waiting = FALSE
    BY DEF Init
  <2>2. /\ Len(q) = 1 /\ q # <<>> /\ q[1].age = 0 /\ DOMAIN q = {1}
        /\ DOMAIN <<>> = {}
    BY RpcTypes
  <2> HIDE DEF q
  <2>3. Ago(q, 0) = 0  BY <2>2 DEF Ago
  <2>4. OnTime(q, <<>>, 0, 0)
    BY <2>2, <2>3, GapBounds DEF OnTime, Recent, Spaced
  <2> QED  BY <2>1, <2>4 DEF InReach
<1> QED  BY <1>1, <1>2 DEF TimeInv

LEMMA ReachParts ==
    ASSUME TypeInv, NEW f \in Follower, InReach(f)
    PROVE  /\ ~cut[f]
           /\ OnTime(toFollower[f], toLeader[f], silence[f], sinceBeat)
           /\ waiting => Pending(toFollower[f], toLeader[f], nextIndex[f])
           /\ toFollower[f] \in Seq(Rpc) /\ toLeader[f] \in Seq(Reply)
           /\ silence[f] \in Nat /\ sinceBeat \in Nat /\ nextIndex[f] \in Int
BY TypeParts DEF InReach, TypeInv

LEMMA ReachBeat ==
    ASSUME TypeInv, NEW f \in Follower, InReach(f), Beat
    PROVE  InReach(f)'
<1>1. /\ toFollower'[f] = Append(toFollower[f], Heartbeat)
      /\ sinceBeat' = 0 /\ ~waiting
      /\ UNCHANGED <<waiting, toLeader, silence, links>>
  BY DEF Beat
<1>2. OnTime(Append(toFollower[f], Heartbeat), toLeader[f], silence[f], 0)
  BY ReachParts, RpcTypes, OnTimeSent
<1> QED  BY <1>1, <1>2, ReachParts DEF InReach, links

LEMMA ReachTakeRequest ==
    ASSUME TypeInv, NEW f \in Follower, InReach(f), TakeRequest
    PROVE  InReach(f)'
<1> DEFINE m == AppendRpc(length, length + 1)
<1>1. /\ length \in Nat /\ length + 1 \in 0 .. MaxLength /\ length \in 0 .. MaxLength
  BY TypeParts, Sizes DEF TypeInv, TakeRequest
<1>2. m \in Rpc /\ m.age = 0 /\ m.kind = "append" /\ m.from = length
  BY <1>1, RpcTypes
<1> HIDE DEF m
<1>3. /\ toFollower'[f] = Append(toFollower[f], m) /\ nextIndex'[f] = length
      /\ UNCHANGED <<sinceBeat, toLeader, silence, links>>
  BY DEF TakeRequest, m
<1>4. OnTime(Append(toFollower[f], m), toLeader[f], silence[f], sinceBeat)
  BY <1>2, ReachParts, OnTimeSent
<1>5. Pending(Append(toFollower[f], m), toLeader[f], length)
  <2>1. length \in Int /\ (length > 0 \/ (m.kind = "append" /\ m.from = 0))
    BY <1>1, <1>2
  <2> QED  BY <1>2, <2>1, ReachParts, PendingSent
<1> QED  BY <1>3, <1>4, <1>5, ReachParts DEF InReach, links

\* The reply of another follower ends the wait or changes nothing for f; a
\* reply of f ends the wait or makes the leader send again, until it has been
\* offered the leader's first block.
LEMMA ReachHandleReply ==
    ASSUME TypeInv, NEW f \in Follower, InReach(f), Cardinality(Follower) <= 2,
           NEW g \in Follower, HandleReply(g)
    PROVE  InReach(f)'
<1> USE DEF TypeInv
<1>1. /\ toLeader[g] # <<>>
      /\ toLeader' = [toLeader EXCEPT ![g] = Tail(toLeader[g])]
      /\ UNCHANGED <<sinceBeat, length, has, silence, links>>
  BY Reacts
<1> DEFINE r == IF g = f THEN Tail(toLeader[f]) ELSE toLeader[f]
<1>2. toLeader'[f] = r  BY <1>1, TypeParts
<1>3. r \in Seq(Reply) /\ OnTime(toFollower[f], r, silence[f], sinceBeat)
  <2>1. CASE g = f  BY <1>1, <2>1, ReachParts, Tailed, OnTimeTaken
  <2>2. CASE g # f  BY <2>2, ReachParts
  <2> QED  BY <2>1, <2>2
<1> HIDE DEF r
<1>4. CASE ~waiting' /\ toFollower' = toFollower
  BY <1>1, <1>2, <1>3, <1>4, ReachParts DEF InReach, links
<1>5. CASE ~waiting /\ UNCHANGED <<leader, toFollower>>
  BY <1>4, <1>5 DEF leader
<1>6. CASE /\ waiting /\ Head(toLeader[g]).kind = "accept"
           /\ IF accepts + 1 >= Majority
              THEN waiting' = FALSE /\ sinceReply' = 0 /\ accepts' = 0
              ELSE waiting' = TRUE /\ sinceReply' = 0 /\ accepts' = accepts + 1
           /\ nextIndex' = [nextIndex EXCEPT ![g] = length]
           /\ toFollower' = toFollower
  <2>1. accepts >= 1 /\ accepts \in Int  BY <1>6, TypeParts
  <2>2. Majority <= 2
    <3> DEFINE k == Cardinality(Follower)
    <3>1. k \in Nat /\ k <= 2  BY Sizes
    <3> HIDE DEF k
    <3>2. (k + 1) \div 2 + 1 <= 2  BY ONLY <3>1
    <3> QED  BY <3>2 DEF Majority, k
  <2>3. accepts + 1 >= Majority  BY <2>1, <2>2, Sizes
  <2> QED  BY <1>4, <1>6, <2>3
<1>7. CASE /\ waiting /\ Head(toLeader[g]).kind # "accept"
           /\ waiting' = waiting /\ sinceReply' = 0 /\ accepts' = accepts
           /\ nextIndex' = [nextIndex EXCEPT ![g] = nextIndex[g] - 1]
           /\ \/ nextIndex[g] - 1 < 0 /\ toFollower' = toFollower
              \/ /\ nextIndex[g] - 1 >= 0
                 /\ toFollower' = [toFollower EXCEPT ![g] =
                      Append(toFollower[g], AppendRpc(nextIndex[g] - 1, length))]
  <2>1. Pending(toFollower[f], toLeader[f], nextIndex[f])  BY <1>7, ReachParts
  <2>2. CASE g # f
    <3>1. toFollower'[f] = toFollower[f] /\ nextIndex'[f] = nextIndex[f]
          /\ r = toLeader[f]
      BY <1>7, <2>2, TypeParts DEF r
    <3> QED
      BY <1>1, <1>2, <1>3, <2>1, <3>1, ReachParts DEF InReach, links
  <2>3. CASE g = f /\ nextIndex[f] - 1 < 0
    <3>1. toFollower'[f] = toFollower[f] /\ nextIndex'[f] = nextIndex[f] - 1
      BY <1>7, <2>3, TypeParts
    <3>2. r = Tail(toLeader[f])  BY <2>3 DEF r
    <3>3. nextIndex[f] <= 0 /\ nextIndex[f] - 1 <= 0
      BY <2>3, ReachParts
    <3>4. Pending(toFollower[f], r, nextIndex[f])
      BY <1>1, <1>7, <2>1, <2>3, <3>2, <3>3, ReachParts, PendingTaken
    <3>5. Pending(toFollower[f], r, nextIndex[f] - 1)
      BY <3>3, <3>4 DEF Pending
    <3> QED
      BY <1>1, <1>2, <1>3, <3>1, <3>5, ReachParts DEF InReach, links
  <2>4. CASE g = f /\ nextIndex[f] - 1 >= 0
    <3> DEFINE i == nextIndex[f] - 1
               m == AppendRpc(i, length)
    <3>1. i \in 0 .. MaxLength /\ length \in 0 .. MaxLength /\ i \in Int
      <4>1. nextIndex[f] <= length  BY DEF Offered
      <4> QED  BY <2>4, <4>1, TypeParts, Sizes
    <3>2. toFollower'[f] = Append(toFollower[f], m) /\ nextIndex'[f] = i
      BY <1>7, <2>4, TypeParts
    <3>3. m \in Rpc /\ m.age = 0 /\ m.kind = "append" /\ m.from = i
      BY <3>1, RpcTypes
    <3> HIDE DEF m, i
    <3>4. OnTime(Append(toFollower[f], m), r, silence[f], sinceBeat)
      BY <1>3, <3>3, ReachParts, OnTimeSent
    <3>5. Pending(Append(toFollower[f], m), r, i)
      <4>1. i > 0 \/ (m.kind = "append" /\ m.from = 0)  BY <3>1, <3>3
      <4> QED  BY <3>1, <3>3, <4>1, ReachParts, PendingSent
    <3> QED
      BY <1>1, <1>2, <3>2, <3>4, <3>5, ReachParts DEF InReach, links
  <2>5. nextIndex[f] - 1 < 0 \/ nextIndex[f] - 1 >= 0  BY ReachParts
  <2> QED  BY <2>2, <2>3, <2>4, <2>5
<1> QED  BY <1>5, <1>6, <1>7, Reacts

LEMMA ReachHandleRpc ==
    ASSUME TypeInv, NEW f \in Follower, InReach(f), NEW g \in Follower, HandleRpc(g)
    PROVE  InReach(f)'
<1> USE DEF TypeInv
<1>1. CASE g # f
  <2>1. /\ toFollower'[f] = toFollower[f] /\ toLeader'[f] = toLeader[f]
        /\ silence'[f] = silence[f]
    BY <1>1, TypeParts DEF HandleRpc
  <2>2. UNCHANGED <<leader, links>>  BY DEF HandleRpc
  <2> QED  BY <2>1, <2>2, ReachParts DEF InReach, leader, links
<1>2. CASE g = f
  <2> DEFINE m == Head(toFollower[f])
             taken == m.kind = "append" /\ m.from <= has[f]
             x == [kind |-> IF taken THEN "accept"
                            ELSE IF m.kind = "beat" THEN "beat" ELSE "refuse",
                   age |-> 0]
  <2>1. x \in Reply  BY TimeAssumption DEF Reply
  <2>2. m.kind = "append" /\ m.from = 0 => x.kind = "accept"
    <3>1. has[f] >= 0  BY TypeParts
    <3> QED  BY <3>1
  <2>3. /\ toFollower[f] # <<>> /\ UNCHANGED <<leader, links>>
        /\ toFollower'[f] = Tail(toFollower[f]) /\ silence'[f] = 0
        /\ toLeader'[f] = Append(toLeader[f], x)
    BY <1>2, ReachParts, TypeParts DEF HandleRpc
  <2> HIDE DEF x
  <2>4. OnTime(Tail(toFollower[f]), Append(toLeader[f], x), 0, sinceBeat)
    BY <2>1, <2>3, ReachParts, OnTimeReceived
  <2>5. waiting => Pending(Tail(toFollower[f]), Append(toLeader[f], x), nextIndex[f])
    BY <2>1, <2>2, <2>3, ReachParts, PendingReceived
  <2> QED  BY <2>3, <2>4, <2>5, ReachParts DEF InReach, leader, links
<1> QED  BY <1>1, <1>2

LEMMA ReachTick ==
    ASSUME TypeInv, NEW f \in Follower, InReach(f), ~everCut[f], Tick
    PROVE  InReach(f)'
<1> DEFINE q == toFollower[f]
           r == toLeader[f]
           c == IF sinceBeat < HeartbeatPeriod THEN sinceBeat + 1 ELSE sinceBeat
<1>1. /\ toFollower'[f] = Older(q) /\ toLeader'[f] = Older(r)
      /\ silence'[f] = silence[f] + 1 /\ sinceBeat' = c
      /\ UNCHANGED <<waiting, nextIndex, links>>
      /\ waiting \/ sinceBeat < HeartbeatPeriod
      /\ \A k \in DOMAIN q : q[k].age < MaxDelay
      /\ \A k \in DOMAIN r : r[k].age < MaxDelay
  BY DEF Tick
<1>2. waiting => q # <<>> \/ r # <<>>  BY ReachParts DEF Pending
<1>3. OnTime(Older(q), Older(r), silence[f] + 1, c)
  BY <1>1, <1>2, ReachParts, OnTimeLater
<1>4. waiting => Pending(Older(q), Older(r), nextIndex[f])
  BY <1>1, ReachParts, PendingLater
<1> QED  BY <1>1, <1>3, <1>4, ReachParts DEF InReach, links

LEMMA TimeStep ==
    ASSUME Cardinality(Follower) <= 2
    PROVE  TimeInv /\ [Next]_vars => TimeInv'
<1> SUFFICES ASSUME TimeInv, [Next]_vars PROVE TimeInv'
  OBVIOUS
<1>1. TypeInv /\ TypeInv'  BY TypeStep DEF TimeInv
<1> SUFFICES ASSUME NEW f \in Follower, ~everCut'[f] PROVE InReach(f)'
  BY <1>1 DEF TimeInv
<1>2. ~everCut[f] /\ \A g \in Follower : Toggle(g) => g # f
  <2>1. \A g \in Follower : Toggle(g) => everCut' = [everCut EXCEPT ![g] = TRUE]
    BY DEF Toggle
  <2>2. everCut \in [Follower -> BOOLEAN]  BY <1>1, TypeParts DEF TypeInv
  <2>3. \/ everCut' = everCut
        \/ \E g \in Follower : everCut' = [everCut EXCEPT ![g] = TRUE]
    BY <2>1 DEF Next, vars, Beat, TakeRequest, GiveUp, Tick, HandleReply,
                HandleRpc, links
  <2> QED  BY <2>1, <2>2, <2>3
<1>3. InReach(f)  BY <1>2 DEF TimeInv
<1>4. CASE Beat  BY <1>1, <1>3, <1>4, ReachBeat
<1>5. CASE TakeRequest  BY <1>1, <1>3, <1>5, ReachTakeRequest
<1>6. CASE GiveUp
  BY <1>1, <1>3, <1>6, ReachParts DEF GiveUp, StopWaiting, InReach, links
<1>7. CASE Tick  BY <1>1, <1>2, <1>3, <1>7, ReachTick
<1>8. ASSUME NEW g \in Follower, HandleReply(g) PROVE InReach(f)'
  BY <1>1, <1>3, <1>8, ReachHandleReply
<1>9. ASSUME NEW g \in Follower, HandleRpc(g) PROVE InReach(f)'
  BY <1>1, <1>3, <1>9, ReachHandleRpc
<1>10. ASSUME NEW g \in Follower, Toggle(g) PROVE InReach(f)'
  <2>1. cut'[f] = cut[f] /\ UNCHANGED <<leader, has, toFollower, toLeader, silence>>
    BY <1>1, <1>2, <1>10, TypeParts DEF Toggle, TypeInv
  <2> QED  BY <1>1, <1>3, <2>1, ReachParts DEF InReach, leader
<1>11. CASE UNCHANGED vars
  BY <1>1, <1>3, <1>11, ReachParts DEF vars, leader, links, InReach
<1> QED  BY <1>4, <1>5, <1>6, <1>7, <1>8, <1>9, <1>10, <1>11 DEF Next

-----------------------------------------------------------------------------
(* Theorems.                                                               *)

THEOREM TypeInvariant == Spec => []TypeInv
<1>1. Init => TypeInv  BY TypeInit
<1>2. TypeInv /\ [Next]_vars => TypeInv'  BY TypeStep
<1> QED  BY <1>1, <1>2, PTL DEF Spec

\* The leader's clocks, the ages of messages and what followers hold keep
\* their types, for any number of followers.
THEOREM HeartbeatsTyped == Spec => []TypeOK
<1>1. TypeInv => TypeOK  BY DEF TypeInv
<1> QED  BY <1>1, TypeInvariant, PTL

\* What parameter.h has, in ticks of 0.5 s, for messages of up to 1 s: three
\* servers, a heartbeat each 2 s, timeouts from 5 s.  LEADER_HANDLE_TIME_MS does
\* not matter: each reply restarts that clock.
InTime ==
    /\ Cardinality(Follower) <= 2
    /\ HeartbeatPeriod + MaxDelay < ShortestTimeout
    /\ 2 * MaxDelay < ShortestTimeout

THEOREM TimeInvariant ==
    ASSUME InTime
    PROVE  Spec => []TimeInv
<1>1. Init => TimeInv  BY TimeInit
<1>2. TimeInv /\ [Next]_vars => TimeInv'  BY TimeStep, InTime DEF InTime
<1> QED  BY <1>1, <1>2, PTL DEF Spec

\* With three servers, a follower that has always been in reach hears from its
\* leader before its election timer can run out, although a leader that waits
\* for a majority sends no heartbeats (state.cpp 453-526): for any length of
\* chains, any blocks that followers lack, any number of requests and
\* partitions, and any timing InTime.
THEOREM HeardAlways ==
    ASSUME InTime
    PROVE  Spec => []HeardInTime
<1>1. TimeInv => HeardInTime
  <2> SUFFICES ASSUME TimeInv, NEW f \in Follower, ~everCut[f]
               PROVE  silence[f] < ShortestTimeout
    BY DEF HeardInTime
  <2> DEFINE q == toFollower[f]
             s == silence[f]
  <2>1. TypeInv /\ InReach(f)  BY DEF TimeInv
  <2>2. OnTime(q, toLeader[f], s, sinceBeat) /\ q \in Seq(Rpc) /\ s \in Nat
    BY <2>1, ReachParts
  <2>3. Gap \in Nat /\ MaxDelay \in Nat /\ Gap + MaxDelay < ShortestTimeout
    <3>1. ShortestTimeout \in Int  BY Sizes DEF ShortestTimeout
    <3> QED  BY <3>1, Sizes, InTime DEF InTime, Gap
  <2> HIDE DEF q, s
  <2>4. CASE q = <<>>
    <3>1. s <= Gap  BY <2>2, <2>4 DEF OnTime, Recent, Ago
    <3>2. ShortestTimeout \in Int  BY Sizes DEF ShortestTimeout
    <3>3. s < ShortestTimeout  BY ONLY <2>2, <2>3, <3>1, <3>2
    <3> QED  BY <3>3 DEF s
  <2>5. CASE q # <<>>
    <3>1. s <= q[1].age + Gap  BY <2>2, <2>5 DEF OnTime
    <3>2. q[1].age \in Nat /\ q[1].age <= MaxDelay
      <4>1. 1 \in DOMAIN q  BY <2>2, <2>5, Lengths
      <4> QED  BY <2>2, <4>1, Ages
    <3>3. ShortestTimeout \in Int  BY Sizes DEF ShortestTimeout
    <3>4. s < ShortestTimeout  BY ONLY <2>2, <2>3, <3>1, <3>2, <3>3
    <3> QED  BY <3>4 DEF s
  <2> QED  BY <2>4, <2>5
<1> QED  BY <1>1, TimeInvariant, PTL
=============================================================================
