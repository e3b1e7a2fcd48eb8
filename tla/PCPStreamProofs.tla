--------------------------- MODULE PCPStreamProofs --------------------------
(***************************************************************************)
(* Proofs about PCPStream, for every size of the ring, every set of        *)
(* writers and with or without the servent's lock.                         *)
(***************************************************************************)
EXTENDS PCPStream, ChanPacketBufferProofs, FiniteSetTheorems, TLAPS

-----------------------------------------------------------------------------
(* Type correctness.  A writer past the check holds a packet to store.     *)

WriterOK == \A w \in Writers : wpc[w] = "checked" => wpack[w].data \in Data

TypeInv == TypeOK /\ WriterOK

(* The queues start empty and typed. *)
LEMMA TypeInit == Init => TypeInv
<1> SUFFICES ASSUME Init PROVE TypeInv
  OBVIOUS
<1>1. InitPacket(NoData) \in Packet(Data \cup {NoData})
  BY PosModAssumption DEF InitPacket, Packet, PacketType
<1>2. NewBuffer(NoData) \in Buffer(Data \cup {NoData})
  BY <1>1, MaxPacketsAssumption DEF NewBuffer, Buffer
<1>3. wpc \in [Writers -> {"idle", "checked"}]
      /\ wpack \in [Writers -> Packet(Data \cup {NoData})]
  BY <1>1 DEF Init
<1>4. accepted \in Seq(Data) /\ taken \in Seq(Data \cup {NoData})
      /\ received \in Seq(Data) /\ processed \in Seq(Data \cup {NoData})
  BY DEF Init
<1>5. TypeOK
  BY <1>2, <1>3, <1>4 DEF Init, TypeOK, ReaderStep
<1> QED BY <1>5 DEF Init, WriterOK, TypeInv

(* Every step of a writer, of the reader or of kill keeps the types. *)
LEMMA TypeNext == TypeInv /\ [Next]_vars => TypeInv'
<1> SUFFICES ASSUME TypeInv, [Next]_vars PROVE TypeInv'
  OBVIOUS
<1> DEFINE D == Data \cup {NoData}
<1>0. TypeOK /\ WriterOK
  BY DEF TypeInv
<1>T. TakeOut => outData' \in Buffer(D) /\ taken' \in Seq(D)
  <2> SUFFICES ASSUME TakeOut PROVE outData' \in Buffer(D) /\ taken' \in Seq(D)
    OBVIOUS
  <2>1. outData' \in Buffer(D)
    BY <1>0, ReadLockedType DEF TakeOut, TypeOK
  <2>2. outData.readPos \in Nat
    BY <1>0 DEF TypeOK, Buffer
  <2>3. PacketAt(outData, outData.readPos) \in Packet(D)
    BY <1>0, <2>2, PacketAtType DEF TypeOK
  <2>4. PacketAt(outData, outData.readPos).data \in D
    BY <2>3 DEF Packet
  <2> QED BY <1>0, <2>1, <2>4 DEF TakeOut, TypeOK
<1>P. ASSUME NEW d \in Data
      PROVE  PCPPacket(d) \in Packet(D) /\ PCPPacket(d).data = d
  BY PosModAssumption DEF PCPPacket, Packet, PacketType
<1>1. ASSUME NEW w \in Writers, SendPacketCheck(w) PROVE TypeInv'
  <2>1. PICK d \in Data : wpack' = [wpack EXCEPT ![w] = PCPPacket(d)]
    BY <1>1 DEF SendPacketCheck
  <2>2. wpack' \in [Writers -> Packet(D)]
    BY <1>0, <1>P, <2>1 DEF TypeOK
  <2>3. TypeOK'
    BY <1>0, <1>1, <2>2 DEF TypeOK, SendPacketCheck, inVars
  <2>4. WriterOK'
    BY <1>0, <1>1, <1>P, <2>1 DEF TypeOK, WriterOK, SendPacketCheck
  <2> QED BY <2>3, <2>4 DEF TypeInv
<1>2. ASSUME NEW w \in Writers, SendPacketWrite(w) PROVE TypeInv'
  <2>1. outData' \in Buffer(D)
    BY <1>0, <1>2, WriteLockedType DEF TypeOK, SendPacketWrite
  <2>2. accepted' \in Seq(Data)
    BY <1>0, <1>2 DEF TypeOK, WriterOK, SendPacketWrite
  <2>3. TypeOK'
    BY <1>0, <1>2, <2>1, <2>2 DEF TypeOK, SendPacketWrite, inVars
  <2>4. WriterOK'
    BY <1>0, <1>2 DEF TypeOK, WriterOK, SendPacketWrite
  <2> QED BY <2>3, <2>4 DEF TypeInv
<1>3. CASE ReadPacketSend
  <2>1. outData' \in Buffer(D) /\ taken' \in Seq(D)
    BY <1>0, <1>3, <1>T DEF ReadPacketSend, TypeOK
  <2>2. rpc' \in ReaderStep
    BY <1>3 DEF ReadPacketSend, ReaderStep
  <2> QED BY <1>0, <1>3, <2>1, <2>2
          DEF TypeInv, TypeOK, WriterOK, ReadPacketSend, writerVars, inVars
<1>4. CASE ReadPacketSkip
  BY <1>0, <1>4 DEF TypeInv, TypeOK, WriterOK, ReadPacketSkip, ReaderStep,
                    writerVars, inVars
<1>5. CASE ReadPacketPoll
  <2>1. CASE \E d \in Data :
               /\ received' = Append(received, d)
               /\ inData' = IF WillSkip(inData) THEN inData
                            ELSE WriteLocked(inData, PCPPacket(d), FALSE)
               /\ rpc' = "proc"
    <3>1. PICK d \in Data :
            /\ received' = Append(received, d)
            /\ inData' = IF WillSkip(inData) THEN inData
                         ELSE WriteLocked(inData, PCPPacket(d), FALSE)
            /\ rpc' = "proc"
      BY <2>1
    <3>2. WriteLocked(inData, PCPPacket(d), FALSE) \in Buffer(D)
      BY <1>0, <1>P, WriteLockedType DEF TypeOK
    <3>3. inData' \in Buffer(D)
      BY <1>0, <3>1, <3>2 DEF TypeOK
    <3>4. received' \in Seq(Data)
      BY <1>0, <3>1 DEF TypeOK
    <3> QED BY <1>0, <1>5, <3>1, <3>3, <3>4
            DEF TypeInv, TypeOK, WriterOK, ReadPacketPoll, ReaderStep, writerVars
  <2>2. CASE rpc' \in {"proc", "flush"} /\ UNCHANGED <<inData, received>>
    BY <1>0, <1>5, <2>2
       DEF TypeInv, TypeOK, WriterOK, ReadPacketPoll, ReaderStep, writerVars
  <2> QED BY <1>5, <2>1, <2>2 DEF ReadPacketPoll
<1>6. CASE ReadPacketProc
  <2>1. inData.readPos \in Nat
    BY <1>0 DEF TypeOK, Buffer
  <2>2. PacketAt(inData, inData.readPos).data \in D
    <3>1. PacketAt(inData, inData.readPos) \in Packet(D)
      BY <1>0, <2>1, PacketAtType DEF TypeOK
    <3> QED BY <3>1 DEF Packet
  <2>3. ReadLocked(inData) \in Buffer(D)
    BY <1>0, ReadLockedType DEF TypeOK
  <2>4. inData \in Buffer(D) /\ processed \in Seq(D)
    BY <1>0 DEF TypeOK
  <2>5. inData' \in Buffer(D)
    BY <1>6, <2>3, <2>4 DEF ReadPacketProc
  <2>6. processed' \in Seq(D)
    BY <1>6, <2>2, <2>4 DEF ReadPacketProc
  <2> QED BY <1>0, <1>6, <2>5, <2>6
          DEF TypeInv, TypeOK, WriterOK, ReadPacketProc, ReaderStep, writerVars
<1>7. CASE FlushPacket
  BY <1>0, <1>7, <1>T
     DEF TypeInv, TypeOK, WriterOK, FlushPacket, writerVars, inVars
<1>8. CASE Close
  BY <1>0, <1>8 DEF TypeInv, TypeOK, WriterOK, Close, ReaderStep, writerVars,
                    inVars
<1>9. CASE UNCHANGED vars
  BY <1>0, <1>9 DEF TypeInv, TypeOK, WriterOK, vars
<1> QED
  BY <1>1, <1>2, <1>3, <1>4, <1>5, <1>6, <1>7, <1>8, <1>9 DEF Next, Reader

(* The variables of PCPStream keep their types.                            *)
THEOREM TypeCorrect == Spec => []TypeOK
<1>1. TypeInv => TypeOK
  BY DEF TypeInv
<1> QED BY <1>1, TypeInit, TypeNext, PTL DEF Spec

-----------------------------------------------------------------------------
(* The order of what is sent.  The indices count the packets that went in  *)
(* and out; the slots from firstPos on still hold what was put there.      *)

RingOK(b, put) ==
  /\ b.writePos = Len(put)
  /\ b.readPos <= b.writePos
  /\ b.firstPos = IF b.writePos >= MaxPackets THEN b.writePos - MaxPackets ELSE 0
  /\ \A i \in 0..(b.writePos - 1) :
       i >= b.firstPos => PacketAt(b, i).data = put[i + 1]

(* Writing puts the packet last and leaves the slots that remain readable. *)
LEMMA WriteLockedRing ==
  ASSUME NEW D, NEW b \in Buffer(D), NEW pack \in Packet(D), NEW S,
         NEW put \in Seq(S), RingOK(b, put), pack.data \in S
  PROVE  RingOK(WriteLocked(b, pack, FALSE), Append(put, pack.data))
<1> DEFINE c == WriteLocked(b, pack, FALSE)
           q == Append(put, pack.data)
           W == b.writePos
<1>0. W \in Nat /\ b.readPos \in Nat /\ MaxPackets \in Nat \ {0}
  BY MaxPacketsAssumption DEF Buffer
<1>1. /\ c.writePos = W + 1 /\ c.readPos = b.readPos
      /\ c.firstPos = IF W + 1 >= MaxPackets THEN W + 1 - MaxPackets ELSE 0
      /\ c.packets = [b.packets EXCEPT ![W % MaxPackets] =
                                          [pack EXCEPT !.sync = W]]
  <2>1. c.writePos = W + 1
    BY DEF WriteLocked
  <2>2. c.readPos = b.readPos
    BY DEF WriteLocked
  <2>3. c.firstPos = IF W + 1 >= MaxPackets THEN W + 1 - MaxPackets ELSE 0
    BY <1>0 DEF WriteLocked
  <2>4. c.packets = [b.packets EXCEPT ![W % MaxPackets] =
                                         [pack EXCEPT !.sync = W]]
    BY DEF WriteLocked
  <2> QED BY <2>1, <2>2, <2>3, <2>4
<1>b. /\ W = Len(put) /\ b.readPos <= W
      /\ b.firstPos = IF W >= MaxPackets THEN W - MaxPackets ELSE 0
      /\ \A i \in 0..(W - 1) :
           i >= b.firstPos => PacketAt(b, i).data = put[i + 1]
  BY DEF RingOK
<1> HIDE DEF c, W
<1>2. Len(put) = W /\ Len(q) = W + 1 /\ q[W + 1] = pack.data
      /\ \A k \in 1..W : q[k] = put[k]
  BY <1>0, <1>b
<1> HIDE DEF q
<1>3. ASSUME NEW i \in 0..W, i >= c.firstPos
      PROVE  PacketAt(c, i).data = q[i + 1]
  <2>0. b.packets \in [0..(MaxPackets - 1) -> Packet(D)]
    BY DEF Buffer
  <2>1. W % MaxPackets \in 0..(MaxPackets - 1)
        /\ i % MaxPackets \in 0..(MaxPackets - 1)
    <3>1. i \in Nat
      BY <1>0
    <3> QED BY <1>0, <3>1, SlotInRange
  <2>2. CASE i = W
    <3>1. c.packets[i % MaxPackets] = [pack EXCEPT !.sync = W]
      BY <1>1, <2>0, <2>1, <2>2
    <3>2. [pack EXCEPT !.sync = W].data = pack.data
      BY DEF Packet
    <3> QED BY <1>2, <2>2, <3>1, <3>2 DEF PacketAt
  <2>3. CASE i < W
    <3>1. i \in Nat /\ W < i + MaxPackets
      BY <1>0, <1>1, <1>3, <2>3
    <3>2. i % MaxPackets # W % MaxPackets
      BY <1>0, <2>3, <3>1, SlotsDiffer
    <3>3. c.packets[i % MaxPackets] = b.packets[i % MaxPackets]
      BY <1>1, <2>0, <2>1, <3>2
    <3>4. i >= b.firstPos /\ i \in 0..(W - 1)
      BY <1>0, <1>1, <1>b, <1>3, <2>3
    <3>5. PacketAt(b, i).data = put[i + 1]
      BY <3>4, <1>b
    <3>6. q[i + 1] = put[i + 1]
      BY <1>0, <1>2, <2>3
    <3> QED BY <3>3, <3>5, <3>6 DEF PacketAt
  <2> QED BY <1>0, <2>2, <2>3
<1>4. c.readPos <= c.writePos
  BY <1>0, <1>1, <1>b
<1>5. \A i \in 0..(c.writePos - 1) :
        i >= c.firstPos => PacketAt(c, i).data = q[i + 1]
  <2>1. c.writePos - 1 = W
    BY <1>0, <1>1
  <2> QED BY <2>1, <1>3
<1>6. RingOK(c, q)
  BY <1>0, <1>1, <1>2, <1>4, <1>5 DEF RingOK
<1> QED BY <1>6 DEF c, q

(* Reading one of the pending packets leaves the ring as it was.           *)
LEMMA ReadLockedRing ==
  ASSUME NEW D, NEW b \in Buffer(D), NEW S, NEW put \in Seq(S),
         RingOK(b, put), NumPending(b) > 0
  PROVE  RingOK(ReadLocked(b), put)
<1>0. b.writePos \in Nat /\ b.readPos \in Nat
  BY DEF Buffer
<1>1. /\ ReadLocked(b).writePos = b.writePos
      /\ ReadLocked(b).firstPos = b.firstPos
      /\ ReadLocked(b).packets = b.packets
      /\ ReadLocked(b).readPos = b.readPos + 1
  BY DEF ReadLocked, Buffer
<1>2. b.readPos + 1 <= b.writePos
  BY <1>0 DEF NumPending
<1> QED BY <1>1, <1>2 DEF RingOK, PacketAt

(* What is read is the packet put in at that place.                        *)
LEMMA ReadInOrder ==
  ASSUME NEW D, NEW b \in Buffer(D), NEW S, NEW put \in Seq(S),
         RingOK(b, put), NumPending(b) > 0, ~TooFarBehind(b)
  PROVE  /\ b.readPos + 1 \in 1..Len(put)
         /\ PacketAt(b, b.readPos).data = put[b.readPos + 1]
<1>0. b.writePos \in Nat /\ b.readPos \in Nat /\ b.firstPos \in Nat
  BY DEF Buffer
<1>1. b.readPos \in 0..(b.writePos - 1) /\ b.readPos >= b.firstPos
  BY <1>0 DEF NumPending, TooFarBehind
<1> QED BY <1>0, <1>1 DEF RingOK

(* got is a prefix of put, as far as b has been read.                      *)
Prefix(b, put, got) ==
  /\ Len(got) = b.readPos
  /\ \A k \in 1..Len(got) : got[k] = put[k]

OutOK == RingOK(outData, accepted) /\ Prefix(outData, accepted, taken)

(* Taking a packet from a ring appends the right one to what was taken.    *)
LEMMA ReadPrefix ==
  ASSUME NEW D, NEW b \in Buffer(D), NEW S, NEW put \in Seq(S),
         NEW got \in Seq(D),
         RingOK(b, put), Prefix(b, put, got),
         NumPending(b) > 0, ~TooFarBehind(b)
  PROVE  /\ RingOK(ReadLocked(b), put)
         /\ Prefix(ReadLocked(b), put, Append(got, PacketAt(b, b.readPos).data))
<1> DEFINE x == PacketAt(b, b.readPos).data
<1>0. b.readPos \in Nat
  BY DEF Buffer
<1>1. RingOK(ReadLocked(b), put)
  BY ReadLockedRing
<1>2. x = put[b.readPos + 1]
  BY ReadInOrder
<1>3. ReadLocked(b).readPos = b.readPos + 1
  BY DEF ReadLocked, Buffer
<1>4. x \in D
  <2>1. PacketAt(b, b.readPos) \in Packet(D)
    BY <1>0, PacketAtType
  <2> QED BY <2>1 DEF Packet
<1> HIDE DEF x
<1>5. Prefix(ReadLocked(b), put, Append(got, x))
  BY <1>0, <1>2, <1>3, <1>4 DEF Prefix
<1> QED BY <1>1, <1>5 DEF x

(* Storing one leaves what was taken a prefix.                             *)
LEMMA WritePrefix ==
  ASSUME NEW D, NEW b \in Buffer(D), NEW pack \in Packet(D), NEW S,
         NEW put \in Seq(S), NEW got \in Seq(D), pack.data \in S,
         RingOK(b, put), Prefix(b, put, got)
  PROVE  LET c == WriteLocked(b, pack, FALSE)
             q == Append(put, pack.data)
         IN RingOK(c, q) /\ Prefix(c, q, got)
<1> DEFINE c == WriteLocked(b, pack, FALSE)
           q == Append(put, pack.data)
<1>0. b.readPos \in Nat /\ b.writePos \in Nat
  BY DEF Buffer
<1>1. RingOK(c, q)
  BY WriteLockedRing
<1>2. c.readPos = b.readPos
  BY DEF WriteLocked
<1>3. Len(got) <= Len(put)
  BY DEF RingOK, Prefix
<1> HIDE DEF c
<1>4. Prefix(c, q, got)
  BY <1>0, <1>2, <1>3 DEF Prefix
<1> QED BY <1>1, <1>4 DEF c

(* Nothing is queued for sending at the start. *)
LEMMA OutInit == Init => OutOK
  BY MaxPacketsAssumption DEF Init, OutOK, RingOK, Prefix, NewBuffer

(* What is sent and what waits in outData stay what was accepted, in order. *)
LEMMA OutNext == TypeInv /\ OutOK /\ [Next]_vars => OutOK'
<1> SUFFICES ASSUME TypeInv, OutOK, [Next]_vars PROVE OutOK'
  OBVIOUS
<1> DEFINE D == Data \cup {NoData}
<1>0. /\ outData \in Buffer(D) /\ accepted \in Seq(Data) /\ taken \in Seq(D)
      /\ \A w \in Writers : wpack[w] \in Packet(D)
      /\ RingOK(outData, accepted) /\ Prefix(outData, accepted, taken)
  BY DEF TypeInv, TypeOK, OutOK
<1>T. ASSUME TakeOut, UNCHANGED accepted PROVE OutOK'
  BY <1>0, <1>T, ReadPrefix DEF TakeOut, OutOK
<1>U. ASSUME UNCHANGED <<outData, accepted, taken>> PROVE OutOK'
  BY <1>0, <1>U DEF OutOK
<1>1. ASSUME NEW w \in Writers, SendPacketCheck(w) PROVE OutOK'
  BY <1>1, <1>U DEF SendPacketCheck
<1>2. ASSUME NEW w \in Writers, SendPacketWrite(w) PROVE OutOK'
  <2>1. wpack[w].data \in Data
    BY <1>2 DEF SendPacketWrite, TypeInv, WriterOK
  <2> QED BY <1>0, <1>2, <2>1, WritePrefix DEF SendPacketWrite, OutOK
<1>3. CASE ReadPacketSend
  BY <1>3, <1>T, <1>U DEF ReadPacketSend, writerVars
<1>4. CASE ReadPacketSkip
  BY <1>4, <1>U DEF ReadPacketSkip, writerVars
<1>5. CASE ReadPacketPoll
  BY <1>5, <1>U DEF ReadPacketPoll, writerVars
<1>6. CASE ReadPacketProc
  BY <1>6, <1>U DEF ReadPacketProc, writerVars
<1>7. CASE FlushPacket
  BY <1>7, <1>T DEF FlushPacket, writerVars
<1>8. CASE Close
  BY <1>8, <1>U DEF Close, writerVars
<1>9. CASE UNCHANGED vars
  BY <1>9, <1>U DEF vars
<1> QED
  BY <1>1, <1>2, <1>3, <1>4, <1>5, <1>6, <1>7, <1>8, <1>9 DEF Next, Reader

(* Whatever the writers do, with or without the servent's lock, what a     *)
(* connection sends is a prefix of what sendPacket accepted.               *)
THEOREM SendingIsInOrder == Spec => []SentInOrder
<1>1. TypeInv /\ OutOK => SentInOrder
  BY DEF TypeInv, TypeOK, OutOK, RingOK, Prefix, SentInOrder, Buffer
<1> QED BY <1>1, TypeInit, TypeNext, OutInit, OutNext, PTL DEF Spec

-----------------------------------------------------------------------------
(* The order of what is processed.  The loop processes what it queued      *)
(* before it queues more, so inData never holds more than one packet.      *)

InOK ==
  /\ RingOK(inData, received) /\ Prefix(inData, received, processed)
  /\ NumPending(inData) \in {0, 1}
  /\ rpc # "proc" => NumPending(inData) = 0

(* Nothing is received at the start. *)
LEMMA InInit == Init => InOK
  BY MaxPacketsAssumption
     DEF Init, InOK, RingOK, Prefix, NewBuffer, NumPending

(* What is processed and what waits in inData stay what was received, in order. *)
LEMMA InNext == TypeInv /\ InOK /\ [Next]_vars => InOK'
<1> SUFFICES ASSUME TypeInv, InOK, [Next]_vars PROVE InOK'
  OBVIOUS
<1> DEFINE D == Data \cup {NoData}
<1>0. /\ inData \in Buffer(D) /\ received \in Seq(Data) /\ processed \in Seq(D)
      /\ RingOK(inData, received) /\ Prefix(inData, received, processed)
      /\ NumPending(inData) \in {0, 1}
      /\ rpc # "proc" => NumPending(inData) = 0
  BY DEF TypeInv, TypeOK, InOK
<1>p. inData.writePos \in Nat /\ inData.readPos \in Nat /\ MaxPackets \in Nat \ {0}
  BY <1>0, MaxPacketsAssumption DEF Buffer
<1>U. ASSUME UNCHANGED inVars, rpc # "proc" \/ UNCHANGED rpc PROVE InOK'
  BY <1>0, <1>U DEF InOK, inVars
<1>1. ASSUME NEW w \in Writers, SendPacketCheck(w) PROVE InOK'
  BY <1>1, <1>U DEF SendPacketCheck
<1>2. ASSUME NEW w \in Writers, SendPacketWrite(w) PROVE InOK'
  BY <1>2, <1>U DEF SendPacketWrite
<1>3. CASE ReadPacketSend
  BY <1>3, <1>U DEF ReadPacketSend
<1>4. CASE ReadPacketSkip
  BY <1>4, <1>U DEF ReadPacketSkip
<1>5. CASE ReadPacketPoll
  <2>0. rpc = "poll" /\ NumPending(inData) = 0 /\ UNCHANGED processed
    BY <1>0, <1>5 DEF ReadPacketPoll
  <2>1. CASE UNCHANGED <<inData, received>>
    BY <1>U, <2>0, <2>1 DEF inVars
  <2>2. ASSUME NEW d \in Data,
               received' = Append(received, d),
               inData' = IF WillSkip(inData) THEN inData
                         ELSE WriteLocked(inData, PCPPacket(d), FALSE),
               rpc' = "proc"
        PROVE  InOK'
    <3>1. ~WillSkip(inData)
      BY <1>p, <2>0 DEF WillSkip
    <3>2. PCPPacket(d) \in Packet(D) /\ PCPPacket(d).data = d
      BY PosModAssumption DEF PCPPacket, Packet, PacketType
    <3>3. RingOK(inData', received') /\ Prefix(inData', received', processed)
      BY <1>0, <2>2, <3>1, <3>2, WritePrefix
    <3>4. inData'.writePos = inData.writePos + 1
          /\ inData'.readPos = inData.readPos
      BY <2>2, <3>1 DEF WriteLocked
    <3>5. NumPending(inData') = 1
      BY <1>p, <2>0, <3>4 DEF NumPending
    <3> QED BY <2>0, <2>2, <3>3, <3>5 DEF InOK
  <2> QED BY <1>5, <2>1, <2>2 DEF ReadPacketPoll
<1>6. CASE ReadPacketProc
  <2>1. CASE NumPending(inData) = 0 /\ UNCHANGED <<inData, processed>>
    BY <1>0, <1>6, <2>1 DEF ReadPacketProc, InOK
  <2>2. CASE /\ NumPending(inData) > 0 /\ ~TooFarBehind(inData)
             /\ processed' = Append(processed,
                                    PacketAt(inData, inData.readPos).data)
             /\ inData' = ReadLocked(inData)
    <3>1. RingOK(inData', received) /\ Prefix(inData', received, processed')
      BY <1>0, <2>2, ReadPrefix
    <3>2. inData'.writePos = inData.writePos
          /\ inData'.readPos = inData.readPos + 1
      BY <1>0, <2>2 DEF ReadLocked, Buffer
    <3>3. NumPending(inData') = 0
      BY <1>0, <1>p, <2>2, <3>2 DEF NumPending
    <3> QED BY <1>6, <3>1, <3>3 DEF ReadPacketProc, InOK
  <2> QED BY <1>6, <2>1, <2>2 DEF ReadPacketProc
<1>7. CASE FlushPacket
  BY <1>7, <1>U DEF FlushPacket
<1>8. CASE Close
  BY <1>8, <1>U DEF Close
<1>9. CASE UNCHANGED vars
  BY <1>9, <1>U DEF vars, inVars
<1> QED
  BY <1>1, <1>2, <1>3, <1>4, <1>5, <1>6, <1>7, <1>8, <1>9 DEF Next, Reader

(* No received atom is dropped or processed out of order.                  *)
THEOREM ProcessingIsInOrder == Spec => []ProcessedInOrder
<1>1. TypeInv /\ InOK => ProcessedInOrder
  BY SMTT(60) DEF TypeInv, TypeOK, InOK, RingOK, Prefix, NumPending,
         ProcessedInOrder, Buffer
<1> QED BY <1>1, TypeInit, TypeNext, InInit, InNext, PTL DEF Spec

-----------------------------------------------------------------------------
(* The size of the queue.  A writer inside sendPacket saw room for one     *)
(* packet; it may find the room taken by the others that were inside too.  *)

WritersInside == IF locked THEN 1 ELSE Cardinality(Writers)

CapacityOK ==
  /\ Cardinality(Inside) <= WritersInside
  /\ NumPending(outData) + Cardinality(Inside) <= MaxPackets - 1 + WritersInside

(* Under the servent's lock a deleted stream has nobody inside.            *)
DeletedOK == locked /\ rpc = "closed" => Inside = {}

(* Whose stream it is never changes. *)
LEMMA LockedIsFixed == [Next]_vars => locked' = locked
<1> SUFFICES ASSUME [Next]_vars PROVE locked' = locked
  OBVIOUS
<1>1. ASSUME NEW w \in Writers, SendPacketCheck(w) \/ SendPacketWrite(w)
      PROVE  locked' = locked
  BY <1>1 DEF SendPacketCheck, SendPacketWrite
<1>2. CASE Reader
  BY <1>2 DEF Reader, ReadPacketSend, ReadPacketSkip, ReadPacketPoll,
              ReadPacketProc, FlushPacket, Close, writerVars
<1>3. CASE UNCHANGED vars
  BY <1>3 DEF vars
<1> QED BY <1>1, <1>2, <1>3 DEF Next

(* The writers inside are a finite set.                                    *)
LEMMA InsideFinite ==
  /\ IsFiniteSet(Inside) /\ Cardinality(Inside) \in Nat
  /\ Cardinality(Inside) <= Cardinality(Writers)
  /\ Cardinality(Writers) \in Nat \ {0}
<1>1. Inside \subseteq Writers /\ IsFiniteSet(Writers) /\ Writers # {}
  BY WritersAssumption DEF Inside
<1>2. IsFiniteSet(Inside) /\ Cardinality(Inside) <= Cardinality(Writers)
  BY <1>1, FS_Subset
<1>3. Cardinality(Inside) \in Nat /\ Cardinality(Writers) \in Nat
  BY <1>1, <1>2, FS_CardinalityType
<1>4. Cardinality(Writers) # 0
  BY <1>1, FS_EmptySet
<1> QED BY <1>2, <1>3, <1>4

CapInv == CapacityOK /\ DeletedOK

(* The queue starts with room for every writer. *)
LEMMA CapInit == Init => CapInv
<1> SUFFICES ASSUME Init PROVE CapInv
  OBVIOUS
<1>1. Inside = {}
  BY DEF Init, Inside
<1>2. Cardinality(Inside) = 0
  BY <1>1, FS_EmptySet
<1>3. NumPending(outData) = 0
  BY DEF Init, NewBuffer, NumPending
<1>4. WritersInside \in Nat \ {0}
  BY InsideFinite DEF WritersInside
<1> QED BY <1>1, <1>2, <1>3, <1>4, MaxPacketsAssumption
        DEF CapInv, CapacityOK, DeletedOK

(* No step takes the queue further than one packet per writer past its size. *)
LEMMA CapNext == TypeInv /\ OutOK /\ CapInv /\ [Next]_vars => CapInv'
<1> SUFFICES ASSUME TypeInv, OutOK, CapInv, [Next]_vars PROVE CapInv'
  OBVIOUS
<1>0. /\ outData.writePos \in Nat /\ outData.readPos \in Nat
      /\ MaxPackets \in Nat \ {0}
      /\ wpc \in [Writers -> {"idle", "checked"}]
  BY MaxPacketsAssumption DEF TypeInv, TypeOK, Buffer
<1>f. /\ IsFiniteSet(Inside) /\ Cardinality(Inside) \in Nat
      /\ WritersInside \in Nat \ {0}
      /\ Cardinality(Inside)' \in Nat
      /\ Cardinality(Inside)' <= Cardinality(Writers)
  <2>1. /\ IsFiniteSet(Inside)' /\ Cardinality(Inside)' \in Nat
        /\ Cardinality(Inside)' <= Cardinality(Writers)
    <3>1. Inside' \subseteq Writers /\ IsFiniteSet(Writers)
      BY WritersAssumption DEF Inside
    <3>2. IsFiniteSet(Inside') /\ Cardinality(Inside') <= Cardinality(Writers)
      BY <3>1, FS_Subset
    <3> QED BY <3>2, FS_CardinalityType
  <2> QED BY <2>1, InsideFinite DEF WritersInside
<1>c. /\ Cardinality(Inside) <= WritersInside
      /\ NumPending(outData) + Cardinality(Inside)
           <= MaxPackets - 1 + WritersInside
      /\ NumPending(outData) \in Int
      /\ locked /\ rpc = "closed" => Inside = {}
  BY <1>0 DEF CapInv, CapacityOK, DeletedOK, NumPending
<1>w. locked' = locked /\ WritersInside' = WritersInside
  BY LockedIsFixed DEF WritersInside
<1>I. ASSUME UNCHANGED wpc PROVE Inside' = Inside
  BY <1>I DEF Inside
<1>U. ASSUME UNCHANGED <<outData, wpc>>,
             rpc' # "closed" \/ UNCHANGED rpc \/ MayEnter
      PROVE  CapInv'
  BY <1>c, <1>w, <1>I, <1>U DEF CapInv, CapacityOK, DeletedOK, MayEnter
<1>T. ASSUME TakeOut, UNCHANGED wpc, rpc' # "closed" PROVE CapInv'
  <2>1. outData'.writePos = outData.writePos
        /\ outData'.readPos = outData.readPos + 1
    BY <1>T DEF TakeOut, ReadLocked, TypeInv, TypeOK, Buffer
  <2>2. NumPending(outData)' = NumPending(outData) - 1
    BY <1>0, <2>1 DEF NumPending
  <2>3. Cardinality(Inside)' = Cardinality(Inside)
    BY <1>I, <1>T
  <2>4. CapacityOK'
    BY <1>0, <1>c, <1>f, <1>w, <2>2, <2>3 DEF CapacityOK
  <2> QED BY <1>T, <2>4 DEF CapInv, DeletedOK
<1>1. ASSUME NEW w \in Writers, SendPacketCheck(w) PROVE CapInv'
  <2>1. Inside' = Inside \cup {w} /\ w \notin Inside
    BY <1>0, <1>1 DEF SendPacketCheck, Inside
  <2>2. Cardinality(Inside)' = Cardinality(Inside) + 1
    BY <1>f, <2>1, FS_AddElement
  <2>3. NumPending(outData) < MaxPackets /\ UNCHANGED outData
    BY <1>0, <1>c, <1>1 DEF SendPacketCheck, WillSkip
  <2>4. Cardinality(Inside)' <= WritersInside
    <3>1. CASE locked
      <4>1. Cardinality(Inside) = 0
        BY <1>1, <3>1, FS_EmptySet DEF SendPacketCheck, MayEnter
      <4> QED BY <2>2, <3>1, <4>1 DEF WritersInside
    <3>2. CASE ~locked
      BY <1>f, <3>2 DEF WritersInside
    <3> QED BY <3>1, <3>2
  <2>5. CapacityOK'
    BY <1>0, <1>c, <1>f, <1>w, <2>3, <2>4 DEF CapacityOK, NumPending
  <2> QED BY <1>1, <2>5 DEF SendPacketCheck, CapInv, DeletedOK
<1>2. ASSUME NEW w \in Writers, SendPacketWrite(w) PROVE CapInv'
  <2>1. Inside' = Inside \ {w} /\ w \in Inside
    BY <1>0, <1>2 DEF SendPacketWrite, Inside
  <2>2. Cardinality(Inside)' = Cardinality(Inside) - 1
    BY <1>f, <2>1, FS_RemoveElement
  <2>3. outData'.writePos = outData.writePos + 1
        /\ outData'.readPos = outData.readPos
    BY <1>2 DEF SendPacketWrite, WriteLocked
  <2>4. NumPending(outData)' = NumPending(outData) + 1
    BY <1>0, <2>3 DEF NumPending
  <2>5. CapacityOK'
    BY <1>c, <1>f, <1>w, <2>2, <2>4 DEF CapacityOK
  <2> QED BY <1>c, <1>2, <2>1, <2>5 DEF SendPacketWrite, CapInv, DeletedOK
<1>3. CASE ReadPacketSend
  BY <1>3, <1>T, <1>U DEF ReadPacketSend, writerVars
<1>4. CASE ReadPacketSkip
  BY <1>4, <1>U DEF ReadPacketSkip, writerVars
<1>5. CASE ReadPacketPoll
  BY <1>5, <1>U DEF ReadPacketPoll, writerVars
<1>6. CASE ReadPacketProc
  BY <1>6, <1>U DEF ReadPacketProc, writerVars
<1>7. CASE FlushPacket
  BY <1>7, <1>T DEF FlushPacket, writerVars
<1>8. CASE Close
  BY <1>8, <1>U DEF Close, writerVars
<1>9. CASE UNCHANGED vars
  BY <1>9, <1>U DEF vars
<1> QED
  BY <1>1, <1>2, <1>3, <1>4, <1>5, <1>6, <1>7, <1>8, <1>9 DEF Next, Reader

(* The queue is overrun by at most one packet for every writer but one,    *)
(* and not at all under the servent's lock.                                *)
THEOREM OverrunIsBounded == Spec => []OverrunBounded
<1>1. TypeInv /\ CapInv => OverrunBounded
  <2> SUFFICES ASSUME TypeInv, CapInv PROVE OverrunBounded
    OBVIOUS
  <2>1. NumPending(outData) \in Int /\ MaxPackets \in Nat
    BY MaxPacketsAssumption, SMTT(60) DEF TypeInv, TypeOK, Buffer, NumPending
  <2>2. NumPending(outData) + Cardinality(Inside) <= MaxPackets - 1 + WritersInside
    BY DEF CapInv, CapacityOK
  <2> QED BY <2>1, <2>2, InsideFinite
          DEF OverrunBounded, PossibleExcess, WritersInside
<1> QED BY <1>1, TypeInit, TypeNext, OutInit, OutNext, CapInit, CapNext, PTL
        DEF Spec

(* Servent::kill never deletes a stream that a thread is writing to.       *)
THEOREM NothingWritesAfterDelete == Spec => []NoWriteAfterDelete
<1>1. CapInv => NoWriteAfterDelete
  BY DEF CapInv, DeletedOK, NoWriteAfterDelete
<1> QED BY <1>1, TypeInit, TypeNext, OutInit, OutNext, CapInit, CapNext, PTL
        DEF Spec

-----------------------------------------------------------------------------
(* Under the servent's lock the ring implements the bounded FIFO.  The     *)
(* packets pending are then the part of accepted that was not taken yet.   *)

PendingOK ==
  /\ NumPending(outData) \in 0..MaxPackets
  /\ Len(accepted) = outData.readPos + NumPending(outData)
  /\ PendingData = [k \in 1..NumPending(outData) |->
                      accepted[outData.readPos + k]]

(* What waits in outData is the part of the accepted packets not yet sent. *)
LEMMA PendingIsAccepted ==
  locked /\ TypeInv /\ OutOK /\ CapInv => PendingOK
<1> SUFFICES ASSUME locked, TypeInv, OutOK, CapInv PROVE PendingOK
  OBVIOUS
<1>0. /\ outData.writePos \in Nat /\ outData.readPos \in Nat
      /\ outData.firstPos \in Nat /\ MaxPackets \in Nat \ {0}
  BY MaxPacketsAssumption DEF TypeInv, TypeOK, Buffer
<1>1. /\ NumPending(outData) \in 0..MaxPackets
      /\ Len(accepted) = outData.readPos + NumPending(outData)
      /\ outData.readPos >= outData.firstPos
  BY <1>0, InsideFinite, SMTT(60)
     DEF NumPending, OutOK, RingOK, CapInv, CapacityOK, WritersInside
<1>2. ASSUME NEW k \in 1..NumPending(outData)
      PROVE  PacketAt(outData, outData.readPos + k - 1).data
               = accepted[outData.readPos + k]
  <2>1. /\ outData.readPos + k - 1 \in 0..(outData.writePos - 1)
        /\ outData.readPos + k - 1 >= outData.firstPos
    BY <1>0, <1>1, SMTT(60) DEF NumPending
  <2>2. PacketAt(outData, outData.readPos + k - 1).data
          = accepted[(outData.readPos + k - 1) + 1]
    BY <2>1 DEF OutOK, RingOK
  <2>3. (outData.readPos + k - 1) + 1 = outData.readPos + k
    BY <1>0
  <2> QED BY <2>2, <2>3
<1> QED BY <1>1, <1>2 DEF PendingOK, PendingData

(* The sequence s from place r on.                                         *)
From(s, r, n) == [k \in 1..n |-> s[r + k]]

(* A sequence is the function of its indices. *)
LEMMA SeqIsFunction ==
  ASSUME NEW S, NEW t \in Seq(S), NEW m \in Nat, Len(t) = m
  PROVE  t = [k \in 1..m |-> t[k]]
  OBVIOUS

(* What appending an element and taking one do to such a sequence.         *)
LEMMA FromAppend ==
  ASSUME NEW S, NEW s \in Seq(S), NEW x \in S, NEW r \in Nat, NEW n \in Nat,
         Len(s) = r + n
  PROVE  /\ From(s, r, n) \in Seq(S) /\ Len(From(s, r, n)) = n
         /\ From(Append(s, x), r, n + 1) = Append(From(s, r, n), x)
<1>1. From(s, r, n) \in Seq(S) /\ Len(From(s, r, n)) = n
  <2>1. \A k \in 1..n : s[r + k] \in S
    BY DEF From
  <2> QED BY <2>1 DEF From
<1>2. Append(From(s, r, n), x) \in Seq(S)
      /\ Len(Append(From(s, r, n), x)) = n + 1
  BY <1>1
<1>3. ASSUME NEW k \in 1..(n + 1)
      PROVE  Append(s, x)[r + k] = Append(From(s, r, n), x)[k]
  <2>1. CASE k = n + 1
    <3>1. r + k = Len(s) + 1
      BY <2>1
    <3> QED BY <1>1, <2>1, <3>1
  <2>2. CASE k \in 1..n
    <3>1. r + k \in 1..Len(s)
      BY <2>2
    <3>2. Append(s, x)[r + k] = s[r + k]
      BY <3>1
    <3>3. Append(From(s, r, n), x)[k] = From(s, r, n)[k]
      BY <1>1, <2>2
    <3> QED BY <2>2, <3>2, <3>3 DEF From
  <2>3. k = n + 1 \/ k \in 1..n
    OBVIOUS
  <2> QED BY <2>1, <2>2, <2>3, Zenon
<1>4. From(Append(s, x), r, n + 1) = [k \in 1..(n + 1) |-> Append(s, x)[r + k]]
  BY DEF From
<1>5. Append(From(s, r, n), x)
        = [k \in 1..(n + 1) |-> Append(From(s, r, n), x)[k]]
  <2>1. n + 1 \in Nat
    OBVIOUS
  <2> QED BY <1>2, <2>1, SeqIsFunction
<1>6. [k \in 1..(n + 1) |-> Append(s, x)[r + k]]
        = [k \in 1..(n + 1) |-> Append(From(s, r, n), x)[k]]
  BY <1>3
<1> QED BY <1>1, <1>4, <1>5, <1>6, Zenon

(* Dropping the first element drops the first place of the suffix. *)
LEMMA FromTail ==
  ASSUME NEW S, NEW s \in Seq(S), NEW r \in Nat, NEW n \in Nat \ {0},
         Len(s) = r + n
  PROVE  /\ From(s, r, n) # <<>> /\ Head(From(s, r, n)) = s[r + 1]
         /\ From(s, r + 1, n - 1) = Tail(From(s, r, n))
<1>1. From(s, r, n) \in Seq(S) /\ Len(From(s, r, n)) = n
  <2>1. \A k \in 1..n : s[r + k] \in S
    OBVIOUS
  <2> QED BY <2>1 DEF From
<1>2. From(s, r, n) # <<>>
  BY <1>1
<1>3. Head(From(s, r, n)) = s[r + 1]
  <2>1. Head(From(s, r, n)) = From(s, r, n)[1]
    BY <1>1, <1>2
  <2> QED BY <2>1 DEF From
<1>4. Tail(From(s, r, n)) \in Seq(S) /\ Len(Tail(From(s, r, n))) = n - 1
  BY <1>1, <1>2
<1>5. ASSUME NEW k \in 1..(n - 1)
      PROVE  s[(r + 1) + k] = Tail(From(s, r, n))[k]
  <2>1. Tail(From(s, r, n))[k] = From(s, r, n)[k + 1]
    BY <1>1, <1>2
  <2>2. From(s, r, n)[k + 1] = s[r + (k + 1)]
    BY DEF From
  <2>3. r + (k + 1) = (r + 1) + k
    OBVIOUS
  <2> QED BY <2>1, <2>2, <2>3
<1>6. From(s, r + 1, n - 1) = [k \in 1..(n - 1) |-> s[(r + 1) + k]]
  BY DEF From
<1>7. Tail(From(s, r, n)) = [k \in 1..(n - 1) |-> Tail(From(s, r, n))[k]]
  <2>1. n - 1 \in Nat
    OBVIOUS
  <2> QED BY <1>4, <2>1, SeqIsFunction, Zenon
<1>8. From(s, r + 1, n - 1) = Tail(From(s, r, n))
  BY <1>5, <1>6, <1>7
<1> QED BY <1>2, <1>3, <1>8

(* An empty ring is an empty FIFO. *)
LEMMA FifoInit == Init => Fifo!Init
<1> SUFFICES ASSUME Init PROVE PendingData = <<>> /\ taken = <<>>
  BY DEF Fifo!Init, FifoQueue, FifoDelivered
<1>1. NumPending(outData) = 0
  BY DEF Init, NewBuffer, NumPending
<1> QED BY <1>1 DEF Init, PendingData

FifoStep == [Fifo!Next]_<<FifoQueue, FifoDelivered>>

(* The stream of a source is mapped to a FIFO that stays as it is. *)
LEMMA FifoUnused == ~locked /\ [Next]_vars => FifoStep
BY LockedIsFixed DEF FifoStep, FifoQueue, FifoDelivered

(* Every step on the ring is a step of the FIFO or leaves it alone. *)
LEMMA FifoNext ==
  ASSUME locked, TypeInv, OutOK, [Next]_vars, PendingOK, PendingOK'
  PROVE  FifoStep
<1> DEFINE r == outData.readPos
           n == NumPending(outData)
           D == Data \cup {NoData}
<1>0. /\ outData.writePos \in Nat /\ r \in Nat /\ n \in 0..MaxPackets
      /\ MaxPackets \in Nat \ {0}
      /\ accepted \in Seq(Data) /\ Len(accepted) = r + n
      /\ PendingData = From(accepted, r, n)
  BY MaxPacketsAssumption DEF PendingOK, TypeInv, TypeOK, Buffer, From
<1>1. PendingData' = From(accepted', outData'.readPos, NumPending(outData)')
  <2>1. PendingData' = [k \in 1..NumPending(outData)' |->
                          accepted'[outData'.readPos + k]]
    BY DEF PendingOK
  <2> QED BY <2>1 DEF From
<1>m. /\ FifoQueue = PendingData /\ FifoQueue' = PendingData'
      /\ FifoDelivered = taken /\ FifoDelivered' = taken'
  BY LockedIsFixed DEF FifoQueue, FifoDelivered
<1>U. ASSUME UNCHANGED <<outData, taken>> PROVE FifoStep
  BY <1>U, <1>m DEF FifoStep, PendingData
<1>T. ASSUME TakeOut, UNCHANGED accepted PROVE FifoStep
  <2>1. n \in Nat \ {0} /\ ~TooFarBehind(outData)
    BY <1>0, <1>T DEF TakeOut
  <2>2. outData'.writePos = outData.writePos /\ outData'.readPos = r + 1
    BY <1>T DEF TakeOut, ReadLocked, TypeInv, TypeOK, Buffer
  <2>3. NumPending(outData)' = n - 1
    BY <1>0, <2>2 DEF NumPending
  <2>4. taken' = Append(taken, accepted[r + 1])
    <3>1. outData \in Buffer(D) /\ RingOK(outData, accepted)
      BY DEF TypeInv, TypeOK, OutOK
    <3>2. PacketAt(outData, r).data = accepted[r + 1]
      BY <1>0, <1>T, <3>1, ReadInOrder DEF TakeOut
    <3> QED BY <1>T, <3>2 DEF TakeOut
  <2>5. /\ PendingData # <<>> /\ Head(PendingData) = accepted[r + 1]
        /\ From(accepted, r + 1, n - 1) = Tail(PendingData)
    BY <1>0, <2>1, FromTail
  <2>6. PendingData' = Tail(PendingData)
    BY <1>1, <1>T, <2>2, <2>3, <2>5
  <2>7. Fifo!Get
    BY <1>m, <2>4, <2>5, <2>6 DEF Fifo!Get
  <2> QED BY <2>7 DEF FifoStep, Fifo!Next
<1>2. ASSUME NEW w \in Writers, SendPacketWrite(w) PROVE FifoStep
  <2> DEFINE x == wpack[w].data
  <2>1. x \in Data /\ accepted' = Append(accepted, x) /\ UNCHANGED taken
    BY <1>2 DEF SendPacketWrite, TypeInv, WriterOK
  <2>2. outData'.writePos = outData.writePos + 1 /\ outData'.readPos = r
    BY <1>2 DEF SendPacketWrite, WriteLocked
  <2>3. NumPending(outData)' = n + 1
    BY <1>0, <2>2 DEF NumPending
  <2>4. n + 1 \in 0..MaxPackets
    BY <2>3 DEF PendingOK
  <2>5. /\ PendingData \in Seq(Data) /\ Len(PendingData) = n
        /\ From(Append(accepted, x), r, n + 1) = Append(PendingData, x)
    <3>0. n \in Nat
      BY <1>0
    <3>a. accepted \in Seq(Data) /\ x \in Data /\ r \in Nat /\ Len(accepted) = r + n
      BY <1>0, <2>1
    <3> HIDE DEF n, r, x
    <3>1. \A s \in Seq(Data), y \in Data, a \in Nat, m \in Nat :
            Len(s) = a + m =>
              /\ From(s, a, m) \in Seq(Data) /\ Len(From(s, a, m)) = m
              /\ From(Append(s, y), a, m + 1) = Append(From(s, a, m), y)
      BY FromAppend
    <3>2. From(accepted, r, n) \in Seq(Data) /\ Len(From(accepted, r, n)) = n
          /\ From(Append(accepted, x), r, n + 1)
               = Append(From(accepted, r, n), x)
      BY <3>0, <3>a, <3>1, Zenon
    <3> QED BY <1>0, <3>2
  <2>6. PendingData' = Append(PendingData, x)
    BY <1>1, <2>1, <2>2, <2>3, <2>5
  <2>7. Len(PendingData) < MaxPackets
    BY <1>0, <2>4, <2>5
  <2>8. Fifo!Put(x)
    BY <1>m, <2>1, <2>6, <2>7 DEF Fifo!Put
  <2> QED BY <2>1, <2>8 DEF FifoStep, Fifo!Next
<1>3. ASSUME NEW w \in Writers, SendPacketCheck(w) PROVE FifoStep
  BY <1>3, <1>U DEF SendPacketCheck
<1>4. CASE ReadPacketSend
  BY <1>4, <1>T, <1>U DEF ReadPacketSend, writerVars
<1>5. CASE FlushPacket
  BY <1>5, <1>T DEF FlushPacket, writerVars
<1>6. CASE ReadPacketSkip \/ ReadPacketPoll \/ ReadPacketProc \/ Close
  BY <1>6, <1>U DEF ReadPacketSkip, ReadPacketPoll, ReadPacketProc, Close
<1>7. CASE UNCHANGED vars
  BY <1>7, <1>U DEF vars
<1> QED BY <1>2, <1>3, <1>4, <1>5, <1>6, <1>7 DEF Next, Reader

(* A queue whose writers hold the servent's lock is a FIFO of MAX_PACKETS  *)
(* places: no packet is lost, repeated or reordered inside it.             *)
THEOREM RingImplementsFifo == Spec => ImplementsFifo
<1>1. TypeInv /\ OutOK /\ CapInv /\ TypeInv' /\ OutOK' /\ CapInv' /\ [Next]_vars
      => [Fifo!Next]_<<FifoQueue, FifoDelivered>>
  <2> SUFFICES ASSUME TypeInv, OutOK, CapInv, TypeInv', OutOK', CapInv',
                      [Next]_vars
               PROVE  FifoStep
    BY DEF FifoStep
  <2>1. CASE ~locked
    BY <2>1, FifoUnused
  <2>2. CASE locked
    <3>1. PendingOK
      BY <2>2, PendingIsAccepted
    <3>2. PendingOK'
      <4>1. locked'
        BY <2>2, LockedIsFixed
      <4>2. locked' /\ TypeInv' /\ OutOK' /\ CapInv' => PendingOK'
        BY PendingIsAccepted, PTL
      <4> QED BY <4>1, <4>2
    <3> QED BY <2>2, <3>1, <3>2, FifoNext
  <2> QED BY <2>1, <2>2
<1> QED BY <1>1, FifoInit, TypeInit, TypeNext, OutInit, OutNext,
           CapInit, CapNext, PTL
        DEF Spec, ImplementsFifo, Fifo!Spec
=============================================================================
