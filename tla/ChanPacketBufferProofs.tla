----------------------- MODULE ChanPacketBufferProofs -----------------------
(***************************************************************************)
(* Facts about the operations of the ring of packets, for every size of    *)
(* the ring.  The proofs about its users, the queues of PCPStream and the  *)
(* clients of StreamDelivery, rest on them.                                *)
(***************************************************************************)
EXTENDS ChanPacketBuffer, FiniteSetTheorems, TLAPS

-----------------------------------------------------------------------------
(* What the operations of the ring return.                                 *)

(* A slot index is in range.                                               *)
LEMMA SlotInRange ==
  ASSUME NEW i \in Nat
  PROVE  i % MaxPackets \in 0..(MaxPackets - 1)
  BY MaxPacketsAssumption, SMT

(* Two packets less than MaxPackets apart never share a slot.              *)
LEMMA SlotsDiffer ==
  ASSUME NEW i \in Nat, NEW j \in Nat, i < j, j < i + MaxPackets
  PROVE  i % MaxPackets # j % MaxPackets
<1> DEFINE M == MaxPackets
<1>0. M \in Nat \ {0}
  BY MaxPacketsAssumption
<1> DEFINE q == i \div M
           r == i % M
           p == j \div M
           s == j % M
<1>1. q \in Int /\ r \in 0..(M - 1) /\ i = M * q + r
  BY <1>0, SMT
<1>2. p \in Int /\ s \in 0..(M - 1) /\ j = M * p + s
  BY <1>0, SMT
<1> HIDE DEF q, r, p, s, M
<1>3. SUFFICES ASSUME r = s PROVE FALSE
  BY DEF r, s, M
<1>4. j - i = M * (p - q)
  BY <1>0, <1>1, <1>2, <1>3, SMT
<1>5. p - q \in Int
  BY <1>1, <1>2
<1>6. CASE p - q <= 0
  BY <1>0, <1>4, <1>5, <1>6, SMT
<1>7. CASE p - q >= 1
  <2>1. M * (p - q) >= M
    BY <1>0, <1>5, <1>7, SMT
  <2> QED BY <1>0, <1>4, <2>1 DEF M
<1> QED BY <1>5, <1>6, <1>7

(* Writing a packet gives a buffer again.                                  *)
LEMMA WriteLockedType ==
  ASSUME NEW D, NEW b \in Buffer(D), NEW pack \in Packet(D),
         NEW u \in BOOLEAN
  PROVE  WriteLocked(b, pack, u) \in Buffer(D)
<1>1. b.writePos % MaxPackets \in 0..(MaxPackets - 1)
  BY SlotInRange DEF Buffer
<1>2. [pack EXCEPT !.sync = b.writePos] \in Packet(D)
  BY DEF Packet, Buffer
<1>3. b.writePos \in Nat /\ b.readPos \in Nat
  BY DEF Buffer
<1>4. [b.packets EXCEPT ![b.writePos % MaxPackets] =
         [pack EXCEPT !.sync = b.writePos]]
        \in [0..(MaxPackets - 1) -> Packet(D)]
  BY <1>1, <1>2 DEF Buffer
<1> QED
  BY <1>3, <1>4, MaxPacketsAssumption, NumSafePacketsAssumption, SMTT(60)
     DEF WriteLocked, Buffer

(* A slot of a buffer holds a packet.                                      *)
LEMMA PacketAtType ==
  ASSUME NEW D, NEW b \in Buffer(D), NEW i \in Nat
  PROVE  PacketAt(b, i) \in Packet(D)
<1>1. i % MaxPackets \in 0..(MaxPackets - 1)
  BY SlotInRange
<1> QED BY <1>1 DEF PacketAt, Buffer

(* Reading a packet gives a buffer again.                                  *)
LEMMA ReadLockedType ==
  ASSUME NEW D, NEW b \in Buffer(D)
  PROVE  ReadLocked(b) \in Buffer(D)
  BY DEF ReadLocked, Buffer

-----------------------------------------------------------------------------
(* What findPacket and getLatestNonContinuationPos return.                 *)

(* A set of naturals that is not empty has a least element.  The finite    *)
(* sets 0..n are ordered by inclusion as the numbers n are, and that order *)
(* is well-founded.                                                        *)
LEMMA LeastNatural ==
  ASSUME NEW S \in SUBSET Nat, S # {}
  PROVE  \E m \in S : \A k \in S : m <= k
<1> DEFINE R == StrictSubsetOrdering(Nat)
           T == {0..n : n \in S}
<1>1. IsWellFoundedOn(R, FiniteSubsetsOf(Nat))
  BY FS_StrictSubsetOrderingWellFounded
<1>2. T \subseteq FiniteSubsetsOf(Nat)
  <2>1. \A n \in S : IsFiniteSet(0..n) /\ 0..n \subseteq Nat
    BY FS_Interval
  <2> QED BY <2>1 DEF FiniteSubsetsOf
<1>3. T # {}
  OBVIOUS
<1>4. PICK x \in T : \A y \in T : ~(<<y, x>> \in R)
  <2> HIDE DEF R, T
  <2> QED BY <1>1, <1>2, <1>3, WFMin
<1>5. PICK m \in S : x = 0..m
  OBVIOUS
<1>6. ASSUME NEW k \in S, k < m PROVE FALSE
  <2>1. 0..k \subseteq 0..m /\ 0..k # 0..m
    <3>1. m \in 0..m /\ m \notin 0..k
      BY <1>6
    <3> QED BY <1>6, <3>1
  <2>2. 0..k \in SUBSET Nat /\ 0..m \in SUBSET Nat
    OBVIOUS
  <2>3. <<0..k, 0..m>> \in R
    BY <2>1, <2>2 DEF StrictSubsetOrdering
  <2> QED BY <2>3, <1>4, <1>5
<1> QED BY <1>6

(* The packet indices a lookup scans are naturals.                         *)
LEMMA WindowType ==
  ASSUME NEW D, NEW b \in Buffer(D)
  PROVE  Window(b) \subseteq Nat
<1>1. b.firstPos \in Nat /\ b.lastPos \in Nat
  BY DEF Buffer
<1> QED BY <1>1 DEF Window

(* findPacket returns a packet of the window at or after the position it   *)
(* is asked for, and the window holds none in between.                     *)
LEMMA FindPacketLeast ==
  ASSUME NEW D, NEW b \in Buffer(D), NEW spos \in Nat, Found(b, spos)
  PROVE  \E i \in Window(b) :
           /\ FindPacket(b, spos) = PacketAt(b, i)
           /\ PacketAt(b, i).pos >= spos
           /\ \A j \in Window(b) :
                PacketAt(b, j).pos >= spos
                  => PacketAt(b, i).pos <= PacketAt(b, j).pos
<1> DEFINE C == Candidates(b, spos)
           P(i) == PacketAt(b, i).pos
<1>1. C \subseteq Window(b) /\ C \subseteq Nat /\ C # {}
  BY WindowType DEF Candidates, Found
<1>2. \A i \in Nat : P(i) \in Nat
  BY PacketAtType, PosModAssumption DEF Packet
<1>3. \A i \in C : P(i) >= spos
  BY DEF Candidates
<1>4. \A j \in Window(b) : P(j) >= spos => j \in C
  BY DEF Candidates
<1>5. FindPacket(b, spos) =
        PacketAt(b, CHOOSE i \in C :
          \A j \in C : P(i) < P(j) \/ (P(i) = P(j) /\ i <= j))
  BY DEF FindPacket
<1> HIDE DEF C, P
<1>6. PICK p \in {P(i) : i \in C} : \A q \in {P(i) : i \in C} : p <= q
  <2>1. {P(i) : i \in C} \in SUBSET Nat /\ {P(i) : i \in C} # {}
    BY <1>1, <1>2
  <2> QED BY <2>1, LeastNatural
<1>7. PICK m \in {i \in C : P(i) = p} : \A k \in {i \in C : P(i) = p} : m <= k
  <2>1. {i \in C : P(i) = p} \in SUBSET Nat /\ {i \in C : P(i) = p} # {}
    BY <1>1, <1>6
  <2> QED BY <2>1, LeastNatural
<1>8. \A j \in C : P(m) < P(j) \/ (P(m) = P(j) /\ m <= j)
  <2> SUFFICES ASSUME NEW j \in C
               PROVE  P(m) < P(j) \/ (P(m) = P(j) /\ m <= j)
    OBVIOUS
  <2>1. P(m) = p /\ p <= P(j) /\ P(j) \in Nat /\ p \in Nat
    BY <1>1, <1>2, <1>6, <1>7
  <2>2. P(j) = p => m <= j
    BY <1>7
  <2> QED BY <2>1, <2>2
<1> DEFINE i == CHOOSE x \in C :
                  \A j \in C : P(x) < P(j) \/ (P(x) = P(j) /\ x <= j)
<1>9. i \in C /\ \A j \in C : P(i) < P(j) \/ (P(i) = P(j) /\ i <= j)
  <2>1. m \in C
    BY <1>7
  <2>2. \E x \in C : \A j \in C : P(x) < P(j) \/ (P(x) = P(j) /\ x <= j)
    BY <1>8, <2>1
  <2> QED BY <2>2
<1> HIDE DEF i
<1>10. \A j \in C : P(i) <= P(j)
  BY <1>1, <1>2, <1>9
<1>11. FindPacket(b, spos) = PacketAt(b, i)
  BY <1>5 DEF i
<1>12. i \in Window(b) /\ P(i) >= spos
  BY <1>1, <1>3, <1>9
<1> QED BY <1>4, <1>10, <1>11, <1>12 DEF P

(* getLatestNonContinuationPos returns a stream position.                  *)
LEMMA ScanType ==
  ASSUME NEW D, NEW b \in Buffer(D)
  PROVE  ScanNonContinuation(b) \in 0..(PosMod - 1)
<1> DEFINE N == {i \in b.firstPos..b.lastPos : ~PacketAt(b, i).cont}
<1>0. b.firstPos \in Nat /\ b.lastPos \in Nat
  BY DEF Buffer
<1>1. CASE N = {}
  BY <1>1, PosModAssumption DEF ScanNonContinuation
<1>2. CASE N # {}
  <2>1. N \subseteq 0..b.lastPos
    BY <1>0
  <2>2. ScanNonContinuation(b)
          = PacketAt(b, CHOOSE i \in N : \A j \in N : j <= i).pos
    BY <1>2 DEF ScanNonContinuation
  <2> DEFINE L == b.lastPos
             S == {L - i : i \in N}
  <2> HIDE DEF N, L
  <2>3. S \in SUBSET Nat /\ S # {}
    <3>1. L \in Nat /\ N \subseteq 0..L
      BY <1>0, <2>1 DEF L
    <3>2. \A x \in N : L - x \in Nat
      BY <3>1
    <3> QED BY <1>2, <3>2
  <2>4. PICK d \in S : \A k \in S : d <= k
    BY <2>3, LeastNatural
  <2>5. PICK m \in N : d = L - m
    BY <2>4
  <2>6. \A j \in N : j <= m
    <3> SUFFICES ASSUME NEW j \in N PROVE j <= m
      OBVIOUS
    <3>1. L - m <= L - j
      BY <2>4, <2>5
    <3> QED BY <1>0, <2>1, <3>1 DEF L
  <2> DEFINE i == CHOOSE x \in N : \A j \in N : j <= x
  <2>7. i \in N
    BY <2>6
  <2> HIDE DEF i
  <2>8. PacketAt(b, i) \in Packet(D)
    BY <1>0, <2>1, <2>7, PacketAtType
  <2> QED BY <2>2, <2>8 DEF Packet, i
<1> QED BY <1>1, <1>2

-----------------------------------------------------------------------------
(* A ring that is written with updateReadPos, as rawData is.               *)

(* A packet as it is stored: sync is the index it was written at.          *)
Stored(b, pack) == [pack EXCEPT !.sync = b.writePos]

RingShape(b) ==
  /\ b.readPos = b.writePos
  /\ b.firstPos = IF b.writePos >= MaxPackets THEN b.writePos - MaxPackets ELSE 0
  /\ b.writePos > 0 => b.lastPos = b.writePos - 1

(* Such a ring never refuses a packet.  Writing one replaces a single slot *)
(* and puts the packet last in the window; the rest of the new window was  *)
(* in the old one.                                                         *)
LEMMA WriteWindow ==
  ASSUME NEW D, NEW b \in Buffer(D), NEW pack \in Packet(D), RingShape(b)
  PROVE  LET c == WriteLocked(b, pack, TRUE)
         IN /\ ~WillSkip(b)
            /\ RingShape(c)
            /\ c.writePos = b.writePos + 1
            /\ \A s \in 0..(MaxPackets - 1) :
                 c.packets[s] = b.packets[s] \/ c.packets[s] = Stored(b, pack)
            /\ \A i \in Window(c) :
                 \/ PacketAt(c, i) = Stored(b, pack)
                 \/ i \in Window(b) /\ PacketAt(c, i) = PacketAt(b, i)
<1> DEFINE c == WriteLocked(b, pack, TRUE)
           new == Stored(b, pack)
<1> DEFINE W == b.writePos
           M == MaxPackets
<1>0. W \in Nat /\ b.readPos \in Nat /\ M \in Nat \ {0} /\ b.firstPos \in Nat
  BY MaxPacketsAssumption DEF Buffer
<1>1. /\ c.writePos = W + 1 /\ c.readPos = W + 1 /\ c.lastPos = W
      /\ c.firstPos = IF W + 1 >= M THEN W + 1 - M ELSE 0
      /\ c.packets = [b.packets EXCEPT ![W % M] = new]
  <2>1. c.writePos = W + 1 /\ c.lastPos = W
    BY DEF WriteLocked
  <2>2. c.readPos = W + 1
    BY DEF WriteLocked
  <2>3. c.firstPos = IF W + 1 >= M THEN W + 1 - M ELSE 0
    BY <1>0 DEF WriteLocked
  <2>4. c.packets = [b.packets EXCEPT ![W % M] = new]
    BY DEF WriteLocked, Stored
  <2> QED BY <2>1, <2>2, <2>3, <2>4
<1> HIDE DEF c, new
<1>2. /\ b.readPos = W
      /\ b.firstPos = IF W >= M THEN W - M ELSE 0
      /\ W > 0 => b.lastPos = W - 1
  BY DEF RingShape
<1>3. b.packets \in [0..(M - 1) -> Packet(D)]
  BY DEF Buffer
<1>4. Window(c) = c.firstPos..W
  <2>1. c.writePos # 0
    BY <1>0, <1>1
  <2> QED BY <1>1, <2>1 DEF Window
<1>5. Window(b) = IF W = 0 THEN {} ELSE b.firstPos..(W - 1)
  BY <1>0, <1>2 DEF Window
<1>6. W % M \in 0..(M - 1)
  BY <1>0, SlotInRange
<1>7. ~WillSkip(b)
  BY <1>0, <1>2 DEF WillSkip, NumPending
<1> HIDE DEF W, M
<1>8. RingShape(c)
  BY <1>0, <1>1 DEF RingShape, M
<1>9. \A s \in 0..(M - 1) : c.packets[s] = b.packets[s] \/ c.packets[s] = new
  BY <1>1, <1>3, <1>6
<1>10. ASSUME NEW i \in Window(c)
       PROVE  \/ PacketAt(c, i) = new
              \/ i \in Window(b) /\ PacketAt(c, i) = PacketAt(b, i)
  <2>1. i \in Nat /\ i >= c.firstPos /\ i <= W
    BY <1>0, <1>1, <1>4
  <2>2. i % M \in 0..(M - 1)
    BY <2>1, SlotInRange DEF M
  <2>3. CASE i = W
    BY <1>1, <1>3, <1>6, <2>3 DEF PacketAt, M
  <2>4. CASE i < W
    <3>1. W < i + M
      BY <1>0, <1>1, <2>1
    <3>2. i % M # W % M
      BY <1>0, <2>1, <2>4, <3>1, SlotsDiffer DEF M
    <3>3. c.packets[i % M] = b.packets[i % M]
      BY <1>1, <1>3, <1>6, <2>2, <3>2
    <3>4. i \in Window(b)
      BY <1>0, <1>1, <1>2, <1>5, <2>1, <2>4
    <3> QED BY <3>3, <3>4 DEF PacketAt, M
  <2> QED BY <1>0, <2>1, <2>3, <2>4
<1> QED BY <1>1, <1>7, <1>8, <1>9, <1>10 DEF W, M, c, new
=============================================================================
