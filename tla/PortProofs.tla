----------------------------- MODULE PortProofs -----------------------------
(***************************************************************************)
(* Which connection each descriptor stands for while a server's threads    *)
(* accept, read, close and answer, for any number of clients, descriptors  *)
(* and connections.  AnswersGoHome and ReadersApart rest on three facts: a *)
(* reader's descriptor is open and its own client's (ReaderOwns), the one  *)
(* just accepted is no reader's yet (AcceptedApart), and a client that     *)
(* counts as connected has a reader of the same socket, unless it is being *)
(* installed (InstalledReads).                                             *)
(***************************************************************************)
EXTENDS ClientPort, WellFoundedInduction, TLAPS

USE PortAssumption DEF Conn, tcp, info, readers

ReaderOwns ==
    \A c \in Client : reader[c] # "none" =>
        /\ readFd[c] \in Fd /\ fdConn[readFd[c]] # 0
        /\ owner[fdConn[readFd[c]]] = c

AcceptedApart ==
    accepted # 0 => \A c \in Client : reader[c] # "none" => readFd[c] # accepted

InstalledReads ==
    \A c \in Client : connected[c] =>
        IF Installing(c) THEN reader[c] = "none"
        ELSE reader[c] = "reading" /\ sock[c] = readFd[c]

PortInv == TypeOK /\ ReaderOwns /\ AcceptedApart /\ InstalledReads

-----------------------------------------------------------------------------
\* The kernel finds a lowest descriptor among the free ones.
LEMMA LowestFree ==
    ASSUME TypeOK, Free # {}
    PROVE  (CHOOSE x \in Free : \A y \in Free : x <= y) \in Free
<1>1. Free \subseteq Nat  BY DEF Free
<1>2. PICK x \in Free :
        \A y \in Free : ~(<<y, x>> \in {p \in Nat \X Nat : p[1] < p[2]})
  <2>1. IsWellFoundedOn({p \in Nat \X Nat : p[1] < p[2]}, Nat)
    BY NatLessThanWellFounded DEF OpToRel
  <2> QED  BY <1>1, <2>1, WFMin
<1>3. ASSUME NEW y \in Free PROVE x <= y
  <2>1. <<y, x>> \in Nat \X Nat /\ <<y, x>>[1] = y /\ <<y, x>>[2] = x  BY <1>1
  <2>2. ~(y < x)  BY <1>2, <2>1
  <2> QED  BY <1>1, <2>2
<1> QED  BY <1>3

LEMMA PortInit == Init => PortInv
<1> SUFFICES ASSUME Init PROVE PortInv
  OBVIOUS
<1>1. TypeOK  BY DEF Init, TypeOK
<1> QED
  BY <1>1 DEF Init, PortInv, ReaderOwns, AcceptedApart, InstalledReads

\* The three facts are about the server's threads only: a step that leaves
\* those alone, and the owners of connections there are, keeps them.
LEMMA PortFrame ==
    ASSUME PortInv, TypeOK',
           \A n \in Conn : n \in Conn' /\ owner'[n] = owner[n],
           UNCHANGED <<fdConn, accepted, info, readers>>
    PROVE  PortInv'
<1>1. \A fd \in Fd : fdConn[fd] # 0 => owner'[fdConn[fd]] = owner[fdConn[fd]]
  BY DEF PortInv, TypeOK
<1>2. \A c \in Client : Installing(c)' <=> Installing(c)
  BY <1>1 DEF PortInv, TypeOK, Installing
<1>3. ReaderOwns'  BY <1>1 DEF PortInv, ReaderOwns
<1>4. AcceptedApart' BY DEF PortInv, AcceptedApart
<1>5. InstalledReads'  BY <1>2 DEF PortInv, InstalledReads
<1> QED  BY <1>3, <1>4, <1>5 DEF PortInv

LEMMA StepClientConnect ==
    ASSUME PortInv, NEW c \in Client, ClientConnect(c)
    PROVE  PortInv'
<1> USE DEF ClientConnect
<1>1. TypeOK  BY DEF PortInv
<1>2. /\ owner' \in Seq(Client) /\ Len(owner') = Len(owner) + 1
      /\ \A n \in 1 .. Len(owner) : owner'[n] = owner[n]
  BY <1>1 DEF TypeOK
<1>3. Conn' = Conn \cup {Len(owner) + 1}  BY <1>1, <1>2 DEF TypeOK
<1>4. backlog' \in Seq(Conn')
  <2>1. backlog \in Seq(Conn')  BY <1>1, <1>3 DEF TypeOK
  <2> QED  BY <1>3, <2>1
<1>5. TypeOK'
  BY <1>1, <1>2, <1>3, <1>4 DEF TypeOK
<1>6. \A n \in Conn : n \in Conn' /\ owner'[n] = owner[n]
  BY <1>1, <1>2, <1>3 DEF TypeOK
<1> QED  BY <1>5, <1>6, PortFrame

LEMMA StepClientEnds ==
    ASSUME PortInv, NEW c \in Client, ClientHangUp(c) \/ ClientDie(c)
    PROVE  PortInv'
<1> USE DEF ClientHangUp, ClientDie
<1>1. TypeOK  BY DEF PortInv
<1>2. cur' \in [Client -> Conn \cup {0}] /\ gone' \subseteq Conn
  <2>1. cur[c] \in Conn /\ gone' = gone \cup {cur[c]}
        /\ cur' = [cur EXCEPT ![c] = 0]
    BY <1>1 DEF TypeOK
  <2> QED  BY <1>1, <2>1 DEF TypeOK
<1>3. UNCHANGED <<owner, closed, backlog, fdConn, accepted, info, readers,
                  writing, answers, running>>
  OBVIOUS
<1>4. TypeOK'  BY <1>1, <1>2, <1>3 DEF TypeOK
<1> QED  BY <1>3, <1>4, PortFrame

LEMMA StepAccept ==
    ASSUME PortInv, Accept
    PROVE  PortInv'
<1> DEFINE n == Head(backlog)
           fd == CHOOSE x \in Free : \A y \in Free : x <= y
<1>1. TypeOK  BY DEF PortInv
<1>2. fd \in Free  BY <1>1, LowestFree DEF Accept
<1>3. n \in Conn /\ n # 0 /\ backlog' \in Seq(Conn)
  BY <1>1 DEF TypeOK, Accept
<1> HIDE DEF n, fd
<1>4. /\ accepted = 0 /\ fdConn' = [fdConn EXCEPT ![fd] = n]
      /\ accepted' = IF connected[owner[n]] THEN 0 ELSE fd
      /\ UNCHANGED <<cur, owner, gone, closed, info, readers, writing, answers,
                     running>>
  BY DEF Accept, n, fd
<1>5. fd \in Fd /\ fdConn[fd] = 0 /\ fd # 0  BY <1>2 DEF Free
<1>6. TypeOK'
  BY <1>1, <1>3, <1>4, <1>5 DEF TypeOK
<1>7. \A c \in Client : reader[c] # "none" =>
            readFd[c] # fd /\ fdConn'[readFd[c]] = fdConn[readFd[c]]
  BY <1>1, <1>4, <1>5 DEF PortInv, ReaderOwns, TypeOK
<1>8. ReaderOwns'  BY <1>4, <1>7 DEF PortInv, ReaderOwns
<1>9. AcceptedApart'  BY <1>4, <1>7 DEF AcceptedApart
<1>10. InstalledReads'
  <2> SUFFICES ASSUME NEW c \in Client, connected[c]
               PROVE  ~Installing(c)' /\ reader[c] = "reading"
                      /\ sock[c] = readFd[c]
    BY <1>4 DEF InstalledReads
  <2>1. ~Installing(c)  BY <1>4 DEF Installing
  <2>2. reader[c] = "reading" /\ sock[c] = readFd[c]
    BY <2>1 DEF PortInv, InstalledReads
  <2>3. fdConn'[fd] = n  BY <1>1, <1>4, <1>5 DEF TypeOK
  <2>4. ~Installing(c)'  BY <1>4, <2>3 DEF Installing
  <2> QED  BY <2>2, <2>4
<1> QED  BY <1>6, <1>8, <1>9, <1>10 DEF PortInv

LEMMA StepMarkConnected ==
    ASSUME PortInv, MarkConnected
    PROVE  PortInv'
<1> USE DEF MarkConnected
<1>1. TypeOK  BY DEF PortInv
<1>2. TypeOK'  BY <1>1 DEF TypeOK
<1>3. ReaderOwns' /\ AcceptedApart'
  BY DEF PortInv, ReaderOwns, AcceptedApart
<1>4. \A c \in Client : Installing(c)' <=> Installing(c)  BY DEF Installing
<1>5. \A c \in Client : ~Installing(c) => connected'[c] = connected[c]
  BY <1>1 DEF Installing, TypeOK
<1>6. \A c \in Client : Installing(c) => reader[c] = "none"
  BY DEF Installing
<1>7. InstalledReads'
  BY <1>4, <1>5, <1>6 DEF PortInv, InstalledReads
<1> QED  BY <1>2, <1>3, <1>7 DEF PortInv

LEMMA StepStartReader ==
    ASSUME PortInv, StartReader
    PROVE  PortInv'
<1> DEFINE c == owner[fdConn[accepted]]
<1>1. TypeOK  BY DEF PortInv
<1>2. c \in Client /\ accepted \in Fd /\ accepted # 0 /\ fdConn[accepted] # 0
  BY <1>1 DEF TypeOK, StartReader
<1>3. /\ connected[c] /\ sock' = [sock EXCEPT ![c] = accepted]
      /\ reader' = [reader EXCEPT ![c] = "reading"]
      /\ readFd' = [readFd EXCEPT ![c] = accepted]
      /\ accepted' = 0
      /\ UNCHANGED <<cur, tcp, fdConn, connected, writing, answers, running>>
  BY DEF StartReader
<1>4. owner[fdConn[accepted]] = c  OBVIOUS
<1> HIDE DEF c
<1>5. TypeOK'  BY <1>1, <1>2, <1>3 DEF TypeOK
<1>6. ReaderOwns'
  BY <1>1, <1>2, <1>3, <1>4 DEF PortInv, ReaderOwns, TypeOK
<1>7. AcceptedApart'  BY <1>3 DEF AcceptedApart
<1>8. InstalledReads'
  <2> SUFFICES ASSUME NEW d \in Client, connected[d]
               PROVE  reader'[d] = "reading" /\ sock'[d] = readFd'[d]
    BY <1>3 DEF InstalledReads, Installing
  <2>1. CASE d = c  BY <1>1, <1>2, <1>3, <2>1 DEF TypeOK
  <2>2. CASE d # c
    <3>1. ~Installing(d)  BY <1>4, <2>2 DEF Installing
    <3> QED  BY <1>1, <1>3, <2>2, <3>1 DEF PortInv, InstalledReads, TypeOK
  <2> QED  BY <2>1, <2>2
<1> QED  BY <1>5, <1>6, <1>7, <1>8 DEF PortInv

LEMMA StepEndReading ==
    ASSUME PortInv, NEW c \in Client, EndReading(c)
    PROVE  PortInv'
<1> USE DEF EndReading
<1>1. TypeOK  BY DEF PortInv
<1>2. TypeOK'  BY <1>1 DEF TypeOK
<1>3. \A d \in Client : reader'[d] # "none" => reader[d] # "none"
  BY <1>1 DEF TypeOK
<1>4. ReaderOwns' /\ AcceptedApart'
  BY <1>3 DEF PortInv, ReaderOwns, AcceptedApart
<1>5. InstalledReads'
  <2> SUFFICES ASSUME NEW d \in Client, connected'[d]
               PROVE  IF Installing(d)' THEN reader'[d] = "none"
                      ELSE reader'[d] = "reading" /\ sock'[d] = readFd'[d]
    BY DEF InstalledReads
  <2>1. d # c /\ connected[d] /\ reader'[d] = reader[d]  BY <1>1 DEF TypeOK
  <2>2. Installing(d)' <=> Installing(d)  BY DEF Installing
  <2> QED  BY <2>1, <2>2 DEF PortInv, InstalledReads
<1> QED  BY <1>2, <1>4, <1>5 DEF PortInv

\* The descriptor that is closed is one reader's only, and not the one just
\* accepted.
LEMMA StepCloseSocket ==
    ASSUME PortInv, NEW c \in Client, CloseSocket(c)
    PROVE  PortInv'
<1> USE DEF CloseSocket
<1>1. TypeOK  BY DEF PortInv
<1>2. readFd[c] \in Fd /\ fdConn[readFd[c]] # 0 /\ owner[fdConn[readFd[c]]] = c
      /\ readFd[c] # accepted
  BY DEF PortInv, ReaderOwns, AcceptedApart
<1>3. \A fd \in Fd : fd # readFd[c] => fdConn'[fd] = fdConn[fd]
  BY <1>1 DEF TypeOK
<1>4. TypeOK'
  <2>0. fdConn \in [Fd -> Conn \cup {0}] /\ closed \subseteq Conn
    BY <1>1 DEF TypeOK
  <2>1. fdConn' \in [Fd -> Conn \cup {0}] /\ closed' \subseteq Conn
    <3>1. fdConn' = [fdConn EXCEPT ![readFd[c]] = 0]  OBVIOUS
    <3>2. closed' = closed \cup {fdConn[readFd[c]]}  OBVIOUS
    <3>3. fdConn[readFd[c]] \in Conn  BY <1>2, <2>0
    <3>4. UNCHANGED owner  OBVIOUS
    <3> QED  BY ONLY <2>0, <3>1, <3>2, <3>3, <3>4 DEF Conn
  <2>2. accepted' # 0 => fdConn'[accepted'] # 0
    BY <1>1, <1>2, <1>3 DEF TypeOK
  <2>3. /\ reader' \in [Client -> {"none", "reading", "closing"}]
        /\ readFd' \in [Client -> Fd \cup {0}]
        /\ \A d \in Client : reader'[d] = "none" <=> readFd'[d] = 0
    BY <1>1 DEF TypeOK
  <2> QED  BY <1>1, <2>1, <2>2, <2>3 DEF TypeOK
<1>5. \A d \in Client : reader'[d] # "none" =>
            d # c /\ reader[d] # "none" /\ readFd'[d] = readFd[d]
  BY <1>1 DEF TypeOK
<1>6. ReaderOwns'
  <2> SUFFICES ASSUME NEW d \in Client, reader'[d] # "none"
               PROVE  /\ readFd'[d] \in Fd /\ fdConn'[readFd'[d]] # 0
                      /\ owner[fdConn'[readFd'[d]]] = d
    BY DEF ReaderOwns
  <2>1. readFd[d] \in Fd /\ fdConn[readFd[d]] # 0 /\ owner[fdConn[readFd[d]]] = d
    BY <1>5 DEF PortInv, ReaderOwns
  <2>2. readFd[d] # readFd[c]  BY <1>2, <1>5, <2>1
  <2> QED  BY <1>3, <1>5, <2>1, <2>2
<1>7. AcceptedApart'  BY <1>5 DEF PortInv, AcceptedApart
<1>8. \A d \in Client : Installing(d)' <=> Installing(d)
  BY <1>1, <1>2, <1>3 DEF Installing, TypeOK
<1>9. InstalledReads'
  BY <1>1, <1>8 DEF PortInv, InstalledReads, TypeOK
<1> QED  BY <1>4, <1>6, <1>7, <1>9 DEF PortInv

LEMMA StepAnswer ==
    ASSUME PortInv, (\E c \in Client : BeginAnswer(c)) \/ WriteHalf
    PROVE  PortInv'
<1>1. TypeOK  BY DEF PortInv
<1>2. CASE \E c \in Client : BeginAnswer(c)
  <2>1. TypeOK'  BY <1>1, <1>2 DEF TypeOK, BeginAnswer
  <2> QED  BY <1>2, <2>1, PortFrame DEF BeginAnswer
<1>3. CASE WriteHalf
  <2>1. TypeOK'  BY <1>1, <1>3 DEF TypeOK, WriteHalf
  <2> QED  BY <1>3, <2>1, PortFrame DEF WriteHalf
<1> QED  BY <1>2, <1>3

-----------------------------------------------------------------------------
(* The theorems.                                                           *)

\* The facts above hold in every reachable state of the server's client side.
THEOREM PortInvariant == Spec => []PortInv
<1>1. PortInv /\ [Next]_vars => PortInv'
  <2> SUFFICES ASSUME PortInv, [Next]_vars PROVE PortInv'
    OBVIOUS
  <2>1. ASSUME NEW c \in Client, ClientConnect(c) PROVE PortInv'
    BY <2>1, StepClientConnect
  <2>2. ASSUME NEW c \in Client, ClientHangUp(c) \/ ClientDie(c) PROVE PortInv'
    BY <2>2, StepClientEnds
  <2>3. CASE Accept  BY <2>3, StepAccept
  <2>4. CASE MarkConnected  BY <2>4, StepMarkConnected
  <2>5. CASE StartReader  BY <2>5, StepStartReader
  <2>6. ASSUME NEW c \in Client, EndReading(c) PROVE PortInv'
    BY <2>6, StepEndReading
  <2>7. ASSUME NEW c \in Client, CloseSocket(c) PROVE PortInv'
    BY <2>7, StepCloseSocket
  <2>8. CASE (\E c \in Client : BeginAnswer(c)) \/ WriteHalf
    BY <2>8, StepAnswer
  <2>9. CASE UNCHANGED vars
    <3>1. TypeOK'  BY <2>9 DEF vars, PortInv, TypeOK
    <3> QED  BY <2>9, <3>1, PortFrame DEF vars
  <2> QED
    BY <2>1, <2>2, <2>3, <2>4, <2>5, <2>6, <2>7, <2>8, <2>9 DEF Next
<1> QED  BY <1>1, PortInit, PTL DEF Spec

\* Descriptors, client_info_t and the readers of network.cpp keep their types.
THEOREM PortTyped == Spec => []TypeOK
<1>1. PortInv => TypeOK  BY DEF PortInv
<1> QED  BY <1>1, PortInvariant, PTL

\* Answers go to a connection of the client they are for, unless that is being
\* installed: client_info_t of network.cpp, shared without a lock.
THEOREM AnswersReachTheirClient == Spec => []AnswersGoHome
<1>1. PortInv => AnswersGoHome
  BY DEF PortInv, TypeOK, ReaderOwns, InstalledReads, AnswersGoHome
<1> QED  BY <1>1, PortInvariant, PTL

\* No two readers share a descriptor, and none is closed under a reader.
THEOREM ReadersStayApart == Spec => []ReadersApart
<1>1. PortInv => ReadersApart
  BY DEF PortInv, ReaderOwns, ReadersApart
<1> QED  BY <1>1, PortInvariant, PTL
=============================================================================
