------------------------ MODULE StreamDeliveryProofs ------------------------
(***************************************************************************)
(* Proofs about StreamDelivery, for every size of the ring, every length   *)
(* and number of streams, both orders of a restart and every kind of       *)
(* client.                                                                 *)
(***************************************************************************)
EXTENDS StreamDelivery, ChanPacketBufferProofs, SequenceTheorems, TLAPS

-----------------------------------------------------------------------------
(* Type correctness.                                                       *)

ChannelState ==
  [streamIndex : Nat, headPack : Packet(Data), rawData : Buffer(Data)]
SourceState ==
  [pc : {"run", "init", "index", "head", "write"},
   gen : 0..MaxGen, at : 0..MaxAt]
ClientState ==
  [pc : {"wait", "header", "position", "keyframe", "scan", "index",
         "meta", "check", "reset", "find", "done"},
   kind : Kinds, streamIndex : Nat, streamPos : 0..(PosMod - 1),
   skip : BOOLEAN, buf : Seq(Packet(Data))]

(* TypeOK by its parts.                                                    *)
LEMMA TypeParts ==
  TypeOK <=> /\ ch \in ChannelState /\ src \in SourceState
             /\ rd \in ClientState /\ out \in Seq(Packet(Data))
  BY DEF TypeOK, ChannelState, SourceState, ClientState

(* A restart happens only to streams that have a length.                   *)
RestartOK == src.pc # "run" => MaxAt > 0

TypeInv == TypeOK /\ RestartOK

(* What a source makes is a packet.                                        *)
LEMMA StreamPacketType ==
  ASSUME NEW type \in PacketType, NEW gen \in 0..MaxGen, NEW at \in 0..MaxAt,
         NEW cont \in BOOLEAN
  PROVE  StreamPacket(type, gen, at, cont) \in Packet(Data)
<1>1. at % PosMod \in 0..(PosMod - 1)
  BY PosModAssumption, MaxAtAssumption
<1> QED BY <1>1 DEF StreamPacket, Packet, Data

(* So is a header.                                                         *)
LEMMA HeadType ==
  ASSUME NEW gen \in 0..MaxGen
  PROVE  HeadOf(gen) \in Packet(Data)
<1>1. "HEAD" \in PacketType /\ 0 \in 0..MaxAt /\ FALSE \in BOOLEAN
  BY MaxAtAssumption DEF PacketType
<1> QED BY <1>1, StreamPacketType DEF HeadOf

(* The end of a packet is a stream position.                               *)
LEMMA EndPosType ==
  ASSUME NEW pack \in Packet(Data)
  PROVE  EndPos(pack) \in 0..(PosMod - 1)
<1>1. pack.pos \in Nat /\ pack.len \in Nat
  BY PosModAssumption DEF Packet
<1> QED BY <1>1, PosModAssumption DEF EndPos

(* The channel and the client start with nothing. *)
LEMMA TypeInit == Init => TypeInv
<1> SUFFICES ASSUME Init PROVE TypeInv
  OBVIOUS
<1>1. NoData \in Data
  BY MaxGenAssumption, MaxAtAssumption DEF NoData, Data
<1>2. InitPacket(NoData) \in Packet(Data)
  BY <1>1, PosModAssumption DEF InitPacket, Packet, PacketType
<1>3. NewBuffer(NoData) \in Buffer(Data)
  BY <1>2, MaxPacketsAssumption DEF NewBuffer, Buffer
<1>4. 0 \in 0..(PosMod - 1) /\ 0 \in 0..MaxGen /\ 0 \in 0..MaxAt
  BY PosModAssumption, MaxGenAssumption, MaxAtAssumption
<1>5. ch \in ChannelState
  BY <1>2, <1>3 DEF Init, ChannelState
<1>6. src \in SourceState
  BY <1>4 DEF Init, SourceState
<1>7. rd \in ClientState
  <2>1. rd = [pc |-> "wait", kind |-> rd.kind, streamIndex |-> 0,
              streamPos |-> 0, skip |-> FALSE, buf |-> <<>>]
        /\ rd.kind \in Kinds
    BY DEF Init
  <2>2. <<>> \in Seq(Packet(Data)) /\ FALSE \in BOOLEAN
    OBVIOUS
  <2>3. ASSUME NEW s \in BOOLEAN, NEW b \in Seq(Packet(Data)), NEW k \in Kinds
        PROVE  [pc |-> "wait", kind |-> k, streamIndex |-> 0,
                streamPos |-> 0, skip |-> s, buf |-> b] \in ClientState
    BY <1>4 DEF ClientState
  <2>4. [pc |-> "wait", kind |-> rd.kind, streamIndex |-> 0,
         streamPos |-> 0, skip |-> FALSE, buf |-> <<>>] \in ClientState
    BY <2>1, <2>2, <2>3
  <2> QED BY <2>1, <2>4
<1>8. out \in Seq(Packet(Data))
  BY DEF Init
<1>9. RestartOK
  BY DEF Init, RestartOK
<1> QED BY <1>5, <1>6, <1>7, <1>8, <1>9, TypeParts DEF TypeInv

(* Every step of the source keeps the types. *)
LEMMA TypeSource == TypeInv /\ Source => TypeInv'
<1> SUFFICES ASSUME TypeInv, Source PROVE TypeInv'
  OBVIOUS
<1>0. TypeOK /\ RestartOK
  BY DEF TypeInv
<1>c. /\ ch \in ChannelState
      /\ src \in SourceState
  BY <1>0, TypeParts
<1> USE DEF ChannelState, SourceState
<1>N. MaxGen \in Nat /\ MaxAt \in Nat
  BY MaxGenAssumption, MaxAtAssumption
<1>w. ASSUME NEW pack \in Packet(Data)
      PROVE  Written(pack) \in Buffer(Data)
  <2>1. WriteLocked(ch.rawData, pack, TRUE) \in Buffer(Data)
    BY <1>c, WriteLockedType
  <2> QED BY <1>c, <2>1 DEF Written
<1>s. ASSUME UNCHANGED <<rd, out>>,
             ch' \in ChannelState,
             src' \in SourceState,
             RestartOK'
      PROVE  TypeInv'
  <2>1. TypeOK'
    BY <1>0, <1>s DEF TypeOK, ChannelState, SourceState
  <2> QED BY <1>s, <2>1 DEF TypeInv
<1>1. CASE SourceData
  <2>1. PICK gap \in 0..MaxGap, cont \in BOOLEAN :
       /\ src.at + gap < MaxAt
       /\ ch' = [ch EXCEPT !.rawData =
                   Written(StreamPacket("DATA", src.gen, src.at + gap, cont))]
       /\ src' = [src EXCEPT !.at = src.at + gap + 1]
    BY <1>1 DEF SourceData
  <2>2. src.at + gap \in 0..MaxAt /\ src.at + gap + 1 \in 0..MaxAt
    BY <1>c, <1>N, <2>1, MaxGapAssumption
  <2>3. "DATA" \in PacketType /\ src.gen \in 0..MaxGen
    BY <1>c DEF PacketType
  <2>4. Written(StreamPacket("DATA", src.gen, src.at + gap, cont)) \in Buffer(Data)
    BY <1>w, <2>2, <2>3, StreamPacketType
  <2>5. ch' \in ChannelState
    BY <1>c, <2>1, <2>4
  <2>6. src' \in SourceState
    BY <1>c, <2>1, <2>2
  <2>7. RestartOK'
    BY <1>c, <1>1, <2>1 DEF RestartOK, SourceData
  <2> QED BY <1>1, <1>s, <2>5, <2>6, <2>7 DEF SourceData
<1>2. CASE SourceRestart
  <2>1. src.gen + 1 \in 0..MaxGen /\ 0 \in 0..MaxAt
    BY <1>c, <1>N, <1>2 DEF SourceRestart
  <2>2. HeadOf(src.gen + 1).data \in Data
    BY <2>1, HeadType DEF Packet
  <2>3. ch' \in ChannelState
    <3>1. [ch.headPack EXCEPT !.data = HeadOf(src.gen + 1).data] \in Packet(Data)
      BY <1>c, <2>2 DEF Packet
    <3>2. [ch EXCEPT !.headPack.data = HeadOf(src.gen + 1).data]
            = [ch EXCEPT !.headPack =
                 [ch.headPack EXCEPT !.data = HeadOf(src.gen + 1).data]]
      BY <1>c
    <3> QED BY <1>c, <1>2, <3>1, <3>2 DEF SourceRestart
  <2>4. src' \in SourceState
    BY <1>2, <2>1 DEF SourceRestart
  <2>5. RestartOK'
    BY <1>2 DEF SourceRestart, RestartOK
  <2> QED BY <1>2, <1>s, <2>3, <2>4, <2>5 DEF SourceRestart
<1>3. CASE SourceInit
  <2>1. InitBuffer(ch.rawData) \in Buffer(Data)
    BY <1>c DEF InitBuffer, Buffer
  <2>2. ch' \in ChannelState
    BY <1>c, <1>3, <2>1 DEF SourceInit
  <2>3. src' \in SourceState
    BY <1>c, <1>3 DEF SourceInit, Goto
  <2>4. RestartOK'
    BY <1>0, <1>3 DEF SourceInit, RestartOK
  <2> QED BY <1>3, <1>s, <2>2, <2>3, <2>4 DEF SourceInit
<1>4. CASE SourceIndex
  <2>1. ch.streamIndex + 1 \in Nat
    BY <1>c
  <2>2. ch' \in ChannelState
    BY <1>c, <1>4, <2>1 DEF SourceIndex
  <2>3. src' \in SourceState
    BY <1>c, <1>4 DEF SourceIndex, Goto
  <2>4. RestartOK'
    BY <1>0, <1>4 DEF SourceIndex, RestartOK
  <2> QED BY <1>4, <1>s, <2>2, <2>3, <2>4 DEF SourceIndex
<1>5. CASE SourceHead
  <2>1. HeadOf(src.gen) \in Packet(Data)
    BY <1>c, HeadType
  <2>2. ch' \in ChannelState
    BY <1>c, <1>5, <2>1 DEF SourceHead
  <2>3. src' \in SourceState
    BY <1>c, <1>5 DEF SourceHead, Goto
  <2>4. RestartOK'
    BY <1>0, <1>5 DEF SourceHead, RestartOK
  <2> QED BY <1>5, <1>s, <2>2, <2>3, <2>4 DEF SourceHead
<1>6. CASE SourceWriteHead
  <2>1. Written(ch.headPack) \in Buffer(Data)
    BY <1>c, <1>w
  <2>2. ch' \in ChannelState
    BY <1>c, <1>6, <2>1 DEF SourceWriteHead
  <2>3. 1 \in 0..MaxAt
    BY <1>0, <1>6, <1>N DEF SourceWriteHead, RestartOK
  <2>4. src' \in SourceState
    BY <1>c, <1>6, <2>3 DEF SourceWriteHead
  <2>5. RestartOK'
    BY <1>c, <1>6 DEF SourceWriteHead, RestartOK
  <2> QED BY <1>6, <1>s, <2>2, <2>4, <2>5 DEF SourceWriteHead
<1> QED BY <1>1, <1>2, <1>3, <1>4, <1>5, <1>6 DEF Source

(* What findPacket returns is a packet.                                    *)
LEMMA FindPacketType ==
  ASSUME NEW b \in Buffer(Data), NEW spos \in Nat, Found(b, spos)
  PROVE  FindPacket(b, spos) \in Packet(Data)
<1>1. PICK i \in Window(b) : FindPacket(b, spos) = PacketAt(b, i)
  BY FindPacketLeast
<1>2. i \in Nat
  BY WindowType
<1> QED BY <1>1, <1>2, PacketAtType

(* Every step of the client's thread keeps the types. *)
LEMMA TypeReader == TypeInv /\ (Reader \/ ReaderStop) => TypeInv'
<1> SUFFICES ASSUME TypeInv, Reader \/ ReaderStop PROVE TypeInv'
  OBVIOUS
<1>0. TypeOK /\ RestartOK
  BY DEF TypeInv
<1>c. /\ ch.headPack \in Packet(Data) /\ ch.rawData \in Buffer(Data)
      /\ ch.streamIndex \in Nat
      /\ rd \in ClientState /\ out \in Seq(Packet(Data))
  BY <1>0, TypeParts DEF ChannelState
<1>d. rd.streamPos \in 0..(PosMod - 1) /\ rd.streamPos \in Nat
      /\ rd.buf \in Seq(Packet(Data)) /\ rd.skip \in BOOLEAN
  <2>1. rd.streamPos \in 0..(PosMod - 1) /\ rd.buf \in Seq(Packet(Data))
        /\ rd.skip \in BOOLEAN
    BY <1>c DEF ClientState
  <2> QED BY <2>1, PosModAssumption
<1>s. ASSUME UNCHANGED <<ch, src>>, rd' \in ClientState,
             out' \in Seq(Packet(Data))
      PROVE  TypeInv'
  <2>1. TypeOK'
    BY <1>0, <1>s DEF TypeOK, ClientState
  <2>2. RestartOK'
    BY <1>0, <1>s DEF RestartOK
  <2> QED BY <2>1, <2>2 DEF TypeInv
<1>t. ASSUME UNCHANGED <<ch, src, out>>, rd' \in ClientState
      PROVE  TypeInv'
  <2>1. out' \in Seq(Packet(Data))
    BY <1>c, <1>t
  <2> QED BY <1>s, <1>t, <2>1
<1> USE DEF ClientState
<1>1. CASE ReaderWait
  BY <1>1, <1>c, <1>t DEF ReaderWait
<1>2. CASE ReaderSendHeader
  <2>1. rd' \in ClientState
    BY <1>2, <1>c DEF ReaderSendHeader
  <2>2. out' \in Seq(Packet(Data))
    BY <1>2, <1>c DEF ReaderSendHeader
  <2> QED BY <1>2, <1>s, <2>1, <2>2 DEF ReaderSendHeader
<1>3. CASE ReaderPosition
  <2>1. EndPos(ch.headPack) \in 0..(PosMod - 1)
    BY <1>c, EndPosType
  <2> QED BY <1>3, <1>c, <1>t, <2>1 DEF ReaderPosition
<1>4. CASE ReaderKeyFrame
  BY <1>4, <1>c, <1>t DEF ReaderKeyFrame
<1>5. CASE ReaderScan
  <2> DEFINE ncpos == ScanNonContinuation(ch.rawData)
             np == IF ncpos > rd.streamPos THEN ncpos ELSE rd.streamPos
  <2>1. np \in 0..(PosMod - 1)
    BY <1>c, <1>d, ScanType
  <2>2. rd' = [rd EXCEPT !.pc = "index", !.streamPos = np]
    BY <1>5, <1>c DEF ReaderScan
  <2> HIDE DEF np
  <2>3. rd' \in ClientState
    BY <1>c, <2>1, <2>2
  <2> QED BY <1>5, <1>t, <2>3 DEF ReaderScan
<1>6. CASE ReaderIndex
  <2>1. (KeyFrames /\ rd.kind = "raw") \in BOOLEAN
    OBVIOUS
  <2> DEFINE sk == KeyFrames /\ rd.kind = "raw"
  <2>2. rd' = [rd EXCEPT !.pc = "check", !.streamIndex = ch.streamIndex,
                         !.skip = sk]
    BY <1>6 DEF ReaderIndex
  <2> HIDE DEF sk
  <2>3. sk \in BOOLEAN
    BY <2>1 DEF sk
  <2>4. rd' \in ClientState
    BY <1>c, <2>2, <2>3
  <2> QED BY <1>6, <1>t, <2>4 DEF ReaderIndex
<1>7. CASE ReaderCheck
  BY <1>7, <1>c, <1>t DEF ReaderCheck
<1>8. CASE ReaderReset
  <2>1. ch.headPack.pos \in 0..(PosMod - 1)
    BY <1>c DEF Packet
  <2> QED BY <1>8, <1>c, <1>t, <2>1 DEF ReaderReset
<1>9. CASE ReaderMeta
  <2> DEFINE pack == FindPacket(ch.rawData, rd.streamPos)
             buf == IF pack.type = "DATA" THEN Append(rd.buf, pack) ELSE rd.buf
             full == Len(buf) = MetaInterval
  <2>1. pack \in Packet(Data)
    BY <1>9, <1>c, <1>d, FindPacketType DEF ReaderMeta
  <2>2. EndPos(pack) \in 0..(PosMod - 1)
    BY <2>1, EndPosType
  <2>3. buf \in Seq(Packet(Data))
    <3> HIDE DEF pack
    <3> QED BY <1>d, <2>1
  <2>4. /\ out' = IF full THEN out \o buf ELSE out
        /\ rd' = [rd EXCEPT !.streamPos = EndPos(pack),
                            !.buf = IF full THEN <<>> ELSE buf]
    BY <1>9 DEF ReaderMeta
  <2> DEFINE nb == IF full THEN <<>> ELSE buf
  <2> HIDE DEF pack, buf, full
  <2>5. nb \in Seq(Packet(Data)) /\ out \o buf \in Seq(Packet(Data))
    BY <1>c, <2>3
  <2>6. rd' = [rd EXCEPT !.streamPos = EndPos(pack), !.buf = nb]
    BY <2>4
  <2> HIDE DEF nb
  <2>7. rd' \in ClientState
    BY <1>c, <2>2, <2>5, <2>6
  <2>8. out' \in Seq(Packet(Data))
    BY <1>c, <2>4, <2>5
  <2> QED BY <1>9, <1>s, <2>7, <2>8 DEF ReaderMeta
<1>10. CASE ReaderFind
  <2> DEFINE pack == FindPacket(ch.rawData, rd.streamPos)
             send == ~(rd.skip /\ pack.cont)
             sk == rd.skip /\ ~send
  <2>1. pack \in Packet(Data)
    BY <1>10, <1>c, <1>d, FindPacketType DEF ReaderFind
  <2>2. EndPos(pack) \in 0..(PosMod - 1)
    BY <2>1, EndPosType
  <2>3. /\ out' = IF send THEN Append(out, pack) ELSE out
        /\ rd' = [rd EXCEPT !.streamPos = EndPos(pack), !.skip = sk]
    BY <1>10 DEF ReaderFind
  <2>4. sk \in BOOLEAN
    OBVIOUS
  <2> HIDE DEF pack, send, sk
  <2>5. rd' \in ClientState
    BY <1>c, <2>2, <2>3, <2>4
  <2>6. out' \in Seq(Packet(Data))
    BY <1>c, <2>1, <2>3
  <2> QED BY <1>10, <1>s, <2>5, <2>6 DEF ReaderFind
<1>11. CASE ReaderNothing
  BY <1>11, <1>c, <1>t DEF ReaderNothing
<1>12. CASE ReaderStop
  BY <1>12, <1>c, <1>t DEF ReaderStop
<1> QED BY <1>1, <1>2, <1>3, <1>4, <1>5, <1>6, <1>7, <1>8, <1>9, <1>10, <1>11,
           <1>12 DEF Reader

(* The types are invariant. *)
LEMMA TypeNext == TypeInv /\ [Next]_vars => TypeInv'
<1>1. TypeInv /\ UNCHANGED vars => TypeInv'
  BY DEF TypeInv, TypeOK, RestartOK, vars
<1> QED BY <1>1, TypeSource, TypeReader DEF Next

(* The channel, its source, the client and what it was sent keep their     *)
(* types, for streams of any length, longer than positions can count too.  *)
THEOREM TypeCorrect == Spec => []TypeOK
<1>1. TypeInv => TypeOK
  BY DEF TypeInv
<1> QED BY <1>1, TypeInit, TypeNext, PTL DEF Spec

-----------------------------------------------------------------------------
(* Where a player starts.  What has been sent follows from how far the     *)
(* client's thread has come.                                               *)

PhaseOK ==
  /\ rd.kind = "meta" =>
       /\ rd.pc \in {"wait", "meta", "done"}
       /\ rd.pc = "wait" => out = <<>> /\ rd.buf = <<>>
  /\ rd.kind # "meta" =>
       /\ rd.buf = <<>> /\ rd.pc # "meta"
       /\ rd.pc \in {"wait", "header"} => out = <<>>
       /\ rd.pc \in {"position", "keyframe", "scan", "index"} => Len(out) = 1
       /\ Serving => Len(out) >= 1
       /\ Serving /\ rd.skip => Len(out) = 1

StartOK ==
  KeyFrames /\ rd.kind = "raw" =>
    /\ Serving /\ ~rd.skip => Len(out) >= 2
    /\ Len(out) >= 2 => ~out[2].cont

StartInv == TypeInv /\ PhaseOK /\ StartOK

(* Nothing has been sent at first. *)
LEMMA StartInit == Init => StartInv
<1> SUFFICES ASSUME Init PROVE StartInv
  OBVIOUS
<1>1. rd.pc = "wait" /\ rd.buf = <<>> /\ out = <<>> /\ Len(out) = 0
  BY DEF Init
<1>2. PhaseOK
  BY <1>1 DEF PhaseOK, Serving
<1>3. StartOK
  BY <1>1 DEF StartOK, Serving
<1> QED BY <1>2, <1>3, TypeInit DEF StartInv

(* Every step of the client's thread keeps it so; the source has no part   *)
(* in it.                                                                  *)
LEMMA StartNext == StartInv /\ [Next]_vars => StartInv'
<1> SUFFICES ASSUME StartInv, [Next]_vars PROVE StartInv'
  OBVIOUS
<1>0. TypeInv /\ PhaseOK /\ StartOK
  BY DEF StartInv
<1>T. TypeInv'
  BY <1>0, TypeNext
<1>c. rd \in ClientState /\ out \in Seq(Packet(Data)) /\ Len(out) \in Nat
  BY <1>0, TypeParts DEF TypeInv
<1>d. rd.skip \in BOOLEAN
  BY <1>c DEF ClientState
<1> SUFFICES PhaseOK' /\ StartOK'
  BY <1>T DEF StartInv
<1> USE DEF ClientState
<1>1. CASE ReaderWait
  BY <1>0, <1>1, <1>c DEF ReaderWait, PhaseOK, StartOK, Serving
<1>2. CASE ReaderSendHeader
  <2>1. rd.kind # "meta" /\ out = <<>>
    BY <1>0, <1>2 DEF ReaderSendHeader, PhaseOK
  <2>2. Len(out') = 1
    BY <1>2, <2>1 DEF ReaderSendHeader
  <2>3. rd'.pc = "position" /\ rd'.kind = rd.kind /\ rd'.buf = rd.buf
    BY <1>2, <1>c DEF ReaderSendHeader
  <2> QED BY <1>0, <2>1, <2>2, <2>3 DEF PhaseOK, StartOK, Serving
<1>3. CASE ReaderPosition
  BY <1>0, <1>3, <1>c DEF ReaderPosition, PhaseOK, StartOK, Serving
<1>4. CASE ReaderKeyFrame
  BY <1>0, <1>4, <1>c DEF ReaderKeyFrame, PhaseOK, StartOK, Serving
<1>5. CASE ReaderScan
  BY <1>0, <1>5, <1>c DEF ReaderScan, PhaseOK, StartOK, Serving
<1>6. CASE ReaderIndex
  <2>1. rd.kind # "meta" /\ rd.buf = <<>> /\ Len(out) = 1
    BY <1>0, <1>6 DEF ReaderIndex, PhaseOK
  <2>2. rd'.pc = "check" /\ rd'.kind = rd.kind /\ rd'.buf = rd.buf /\ out' = out
    BY <1>6, <1>c DEF ReaderIndex
  <2>3. rd'.skip = (KeyFrames /\ rd.kind = "raw")
    BY <1>6, <1>c DEF ReaderIndex
  <2>4. PhaseOK'
    <3> HIDE DEF ClientState
    <3>1. rd'.kind # "meta" /\ rd'.buf = <<>> /\ Len(out') = 1
      BY <2>1, <2>2
    <3> QED BY <2>2, <3>1 DEF PhaseOK, Serving
  <2>5. StartOK'
    BY <1>0, <2>1, <2>2, <2>3 DEF StartOK, Serving
  <2> QED BY <2>4, <2>5
<1>7. CASE ReaderCheck
  BY <1>0, <1>7, <1>c DEF ReaderCheck, PhaseOK, StartOK, Serving
<1>8. CASE ReaderReset
  BY <1>0, <1>8, <1>c DEF ReaderReset, PhaseOK, StartOK, Serving
<1>9. CASE ReaderMeta
  <2>1. rd.kind = "meta"
    BY <1>0, <1>9 DEF ReaderMeta, PhaseOK
  <2>2. rd'.pc = "meta" /\ rd'.kind = "meta"
    BY <1>9, <1>c, <2>1 DEF ReaderMeta
  <2> QED BY <2>2 DEF PhaseOK, StartOK
<1>10. CASE ReaderFind
  <2> DEFINE pack == FindPacket(ch.rawData, rd.streamPos)
             send == ~(rd.skip /\ pack.cont)
             sk == rd.skip /\ ~send
  <2>1. rd.pc = "find" /\ rd.kind # "meta" /\ rd.buf = <<>> /\ Serving
        /\ Len(out) >= 1 /\ (rd.skip => Len(out) = 1)
    BY <1>0, <1>10 DEF ReaderFind, PhaseOK, Serving
  <2>2. /\ out' = IF send THEN Append(out, pack) ELSE out
        /\ rd' = [rd EXCEPT !.streamPos = EndPos(pack), !.skip = sk]
    BY <1>10 DEF ReaderFind
  <2>3. sk <=> rd.skip /\ pack.cont
    OBVIOUS
  <2>4. send <=> ~(rd.skip /\ pack.cont)
    OBVIOUS
  <2>5. pack \in Packet(Data)
    <3>1. ch.rawData \in Buffer(Data) /\ rd.streamPos \in Nat
      BY <1>0, TypeParts, PosModAssumption DEF ChannelState, TypeInv
    <3> QED BY <1>10, <3>1, FindPacketType DEF ReaderFind
  <2> HIDE DEF pack, send, sk
  <2>6. /\ rd'.pc = "find" /\ rd'.kind = rd.kind /\ rd'.buf = <<>>
        /\ rd'.skip = sk
    BY <1>c, <2>1, <2>2
  <2>7. CASE send
    <3>1. out' = Append(out, pack) /\ Len(out') = Len(out) + 1
      BY <1>c, <2>2, <2>5, <2>7
    <3>2. ~sk
      BY <2>3, <2>4, <2>7
    <3>3. PhaseOK'
      BY <1>c, <2>1, <2>6, <3>1, <3>2 DEF PhaseOK, Serving
    <3>4. ASSUME KeyFrames, rd.kind = "raw"
          PROVE  Len(out') >= 2 /\ ~out'[2].cont
      <4>1. CASE rd.skip
        <5>1. ~pack.cont
          BY <2>4, <2>7, <4>1
        <5>2. out'[2] = pack /\ Len(out') = 2
          <6>1. Len(out) = 1
            BY <2>1, <4>1
          <6>2. Append(out, pack)[Len(out) + 1] = pack
            BY <1>c, <2>5
          <6> QED BY <3>1, <6>1, <6>2
        <5> QED BY <5>1, <5>2
      <4>2. CASE ~rd.skip
        <5>1. Len(out) >= 2 /\ ~out[2].cont
          BY <1>0, <2>1, <3>4, <4>2 DEF StartOK
        <5>2. out'[2] = out[2]
          BY <1>c, <2>5, <3>1, <5>1
        <5> QED BY <1>c, <3>1, <5>1, <5>2
      <4> QED BY <4>1, <4>2
    <3>5. StartOK'
      BY <2>6, <3>4 DEF StartOK
    <3> QED BY <3>3, <3>5
  <2>8. CASE ~send
    <3>1. out' = out /\ sk /\ rd.skip
      BY <2>2, <2>3, <2>4, <2>8
    <3>2. PhaseOK'
      BY <2>1, <2>6, <3>1 DEF PhaseOK, Serving
    <3>3. StartOK'
      BY <1>0, <2>6, <3>1 DEF StartOK, Serving
    <3> QED BY <3>2, <3>3
  <2> QED BY <2>7, <2>8
<1>11. CASE ReaderNothing
  BY <1>0, <1>11, <1>c DEF ReaderNothing, PhaseOK, StartOK, Serving
<1>12. CASE ReaderStop
  BY <1>0, <1>12, <1>c DEF ReaderStop, PhaseOK, StartOK, Serving
<1>13. CASE Source
  <2>1. UNCHANGED <<rd, out>>
    BY <1>13 DEF Source, SourceData, SourceRestart, SourceInit, SourceIndex,
                 SourceHead, SourceWriteHead
  <2> QED BY <1>0, <2>1 DEF PhaseOK, StartOK, Serving
<1>14. CASE UNCHANGED vars
  BY <1>0, <1>14 DEF vars, PhaseOK, StartOK, Serving
<1> QED BY <1>1, <1>2, <1>3, <1>4, <1>5, <1>6, <1>7, <1>8, <1>9, <1>10, <1>11,
           <1>12, <1>13, <1>14 DEF Next, Reader

-----------------------------------------------------------------------------
(* Positions that do not wrap.  While a stream is shorter than PosMod the  *)
(* position of a packet is its place in the stream, and what the ring and  *)
(* the clients have is behind the place the source is at.                  *)

NoWrap == MaxAt < PosMod

(* p was made by a source before it got to s.                              *)
Past(s, p) ==
  \/ p.data.gen < s.gen
  \/ p.data.gen = s.gen /\ (p.data.at < s.at \/ p.data.at = 0)

Placed(s, p) ==
  /\ p.pos = p.data.at
  /\ p.len \in {0, 1} /\ p.data.at + p.len <= MaxAt
  /\ p.type # "DATA" => p.data.at = 0
  /\ Past(s, p)

(* Only data comes after the beginning of a stream.                        *)
HeadFirst(p) == p.type # "DATA" => p.data.at = 0

(* A source only goes forward, or on to the next stream.                   *)
Advance(s, t) == t.gen > s.gen \/ (t.gen = s.gen /\ t.at >= s.at)

(* The channel c while its source is at s.                                 *)
ChannelPlaced(c, s) ==
  /\ RingShape(c.rawData)
  /\ Placed(s, c.headPack) /\ c.headPack.data.at = 0
  /\ \A i \in 0..(MaxPackets - 1) : Placed(s, c.rawData.packets[i])
  /\ \A i \in Window(c.rawData) : PacketAt(c.rawData, i).len = 1

(* Everything the client took from the ring or was sent, in order.         *)
Sent == out \o rd.buf

HeadReady ==
  \/ ch.rawData.writePos > 0
  \/ rd.pc \notin {"wait", "done"}
  \/ src.pc = "write"
  \/ src.pc = "run" /\ src.gen > 0

PlaceOK ==
  /\ ChannelPlaced(ch, src)
  /\ HeadReady => ch.headPack.len = 1
  /\ src.pc # "run" => src.at = 0
  /\ \A k \in 1..Len(Sent) : Past(src, Sent[k]) /\ HeadFirst(Sent[k])

PlaceInv == StartInv /\ PlaceOK

(* The fields of a packet have their types.                                *)
LEMMA PacketFields ==
  ASSUME NEW p \in Packet(Data)
  PROVE  /\ p.data.gen \in Nat /\ p.data.at \in Nat /\ p.pos \in Nat
         /\ p.len \in Nat
<1>1. p.data \in Data /\ p.pos \in 0..(PosMod - 1) /\ p.len \in Nat
  BY DEF Packet
<1>2. p.data.gen \in 0..MaxGen /\ p.data.at \in 0..MaxAt
  BY <1>1 DEF Data
<1> QED BY <1>1, <1>2, MaxGenAssumption, MaxAtAssumption, PosModAssumption

(* What is past stays past.                                                *)
LEMMA PastAdvance ==
  ASSUME NEW s \in SourceState, NEW t \in SourceState, Advance(s, t),
         NEW p \in Packet(Data), Past(s, p)
  PROVE  Past(t, p)
<1>1. p.data.gen \in Nat /\ p.data.at \in Nat
  BY PacketFields
<1>2. s.gen \in Nat /\ s.at \in Nat /\ t.gen \in Nat /\ t.at \in Nat
  BY MaxGenAssumption, MaxAtAssumption DEF SourceState
<1> QED BY <1>1, <1>2 DEF Past, Advance

(* So does what is in its place.                                           *)
LEMMA PlacedAdvance ==
  ASSUME NEW s \in SourceState, NEW t \in SourceState, Advance(s, t),
         NEW p \in Packet(Data), Placed(s, p)
  PROVE  Placed(t, p)
<1>1. Past(t, p)
  BY PastAdvance DEF Placed
<1> QED BY <1>1 DEF Placed

(* The end of a packet that is in its place.                               *)
LEMMA EndPosPlaced ==
  ASSUME NoWrap, NEW s, NEW p \in Packet(Data), Placed(s, p)
  PROVE  EndPos(p) = p.data.at + p.len
<1>1. p.data.at \in Nat /\ p.len \in Nat
  BY PacketFields
<1>2. p.pos = p.data.at /\ p.data.at + p.len <= MaxAt
  BY DEF Placed
<1>3. p.pos + p.len \in 0..(PosMod - 1)
  BY <1>1, <1>2, PosModAssumption, MaxAtAssumption DEF NoWrap
<1> QED BY <1>2, <1>3, PosModAssumption DEF EndPos

(* What a source makes is in its place, where the source then is.          *)
LEMMA StreamPacketPlaced ==
  ASSUME NoWrap, NEW type \in PacketType, NEW gen \in 0..MaxGen,
         NEW at \in 0..MaxAt, NEW cont \in BOOLEAN, at < MaxAt,
         type # "DATA" => at = 0,
         NEW t \in SourceState, t.gen = gen, t.at > at \/ at = 0
  PROVE  LET p == StreamPacket(type, gen, at, cont)
         IN /\ Placed(t, p) /\ p.len = 1 /\ p.data.at = at /\ p.data.gen = gen
            /\ p.type = type
<1> DEFINE p == StreamPacket(type, gen, at, cont)
<1>1. /\ p.len = 1 /\ p.data.at = at /\ p.data.gen = gen /\ p.type = type
      /\ p.pos = at % PosMod
  BY DEF StreamPacket
<1> HIDE DEF p
<1>2. at \in Nat /\ at % PosMod = at
  BY PosModAssumption, MaxAtAssumption DEF NoWrap
<1>3. Past(t, p)
  BY <1>1 DEF Past
<1>4. p.data.at + p.len <= MaxAt
  BY <1>1, <1>2, MaxAtAssumption
<1>5. Placed(t, p)
  BY <1>1, <1>2, <1>3, <1>4 DEF Placed
<1> QED BY <1>1, <1>5 DEF p

(* A header is at the start of its stream.                                 *)
LEMMA HeadPlaced ==
  ASSUME MaxAt > 0, NEW gen, NEW t, t.gen = gen
  PROVE  /\ Placed(t, HeadOf(gen)) /\ HeadOf(gen).len = 1
         /\ HeadOf(gen).data.at = 0
<1>1. /\ HeadOf(gen).len = 1 /\ HeadOf(gen).data.at = 0
      /\ HeadOf(gen).data.gen = gen /\ HeadOf(gen).pos = 0 % PosMod
  BY DEF HeadOf, StreamPacket
<1>2. 0 % PosMod = 0
  BY PosModAssumption
<1>3. Past(t, HeadOf(gen))
  BY <1>1 DEF Past
<1>4. 0 + 1 <= MaxAt
  BY MaxAtAssumption
<1> QED BY <1>1, <1>2, <1>3, <1>4 DEF Placed

(* Storing a packet leaves its place alone.                                *)
LEMMA StoredPlaced ==
  ASSUME NEW b \in Buffer(Data), NEW p \in Packet(Data)
  PROVE  /\ Stored(b, p) \in Packet(Data)
         /\ \A s : Placed(s, p) => Placed(s, Stored(b, p))
         /\ Stored(b, p).len = p.len /\ Stored(b, p).data = p.data
<1>1. b.writePos \in Nat
  BY DEF Buffer
<1>2. Stored(b, p) \in Packet(Data)
  BY <1>1 DEF Stored, Packet
<1>3. /\ Stored(b, p).len = p.len /\ Stored(b, p).data = p.data
      /\ Stored(b, p).pos = p.pos /\ Stored(b, p).type = p.type
  BY DEF Stored, Packet
<1>4. \A s : Placed(s, p) => Placed(s, Stored(b, p))
  BY <1>3 DEF Placed, Past
<1> QED BY <1>2, <1>3, <1>4

(* The slots of a channel's ring, and what a client finds there.           *)
LEMMA WindowPlaced ==
  ASSUME NEW c \in ChannelState, NEW s, ChannelPlaced(c, s),
         NEW i \in Window(c.rawData)
  PROVE  /\ PacketAt(c.rawData, i) \in Packet(Data)
         /\ Placed(s, PacketAt(c.rawData, i))
         /\ PacketAt(c.rawData, i).len = 1
<1>1. c.rawData \in Buffer(Data)
  BY DEF ChannelState
<1>2. i \in Nat
  BY <1>1, WindowType
<1>3. i % MaxPackets \in 0..(MaxPackets - 1)
  BY <1>2, SlotInRange
<1> QED BY <1>1, <1>2, <1>3, PacketAtType DEF ChannelPlaced, PacketAt

(* A channel stays in order while its source advances.                     *)
LEMMA ChannelAdvance ==
  ASSUME NEW c \in ChannelState, NEW s \in SourceState, NEW t \in SourceState,
         Advance(s, t), ChannelPlaced(c, s)
  PROVE  ChannelPlaced(c, t)
<1>1. Placed(t, c.headPack)
  BY PlacedAdvance DEF ChannelState, ChannelPlaced
<1>2. ASSUME NEW i \in 0..(MaxPackets - 1)
      PROVE  Placed(t, c.rawData.packets[i])
  <2>1. c.rawData.packets[i] \in Packet(Data)
    BY DEF ChannelState, Buffer
  <2> QED BY <2>1, PlacedAdvance DEF ChannelPlaced
<1> QED BY <1>1, <1>2 DEF ChannelPlaced

(* Writing a packet that is in its place keeps the channel in order.       *)
LEMMA ChannelWrite ==
  ASSUME NEW c \in ChannelState, NEW s \in SourceState,
         ChannelPlaced(c, s), NEW pack \in Packet(Data), Placed(s, pack),
         pack.len = 1, NEW d \in ChannelState,
         d.headPack = c.headPack,
         d.rawData = WriteLocked(c.rawData, pack, TRUE)
  PROVE  ChannelPlaced(d, s)
<1> DEFINE b == c.rawData
           e == WriteLocked(b, pack, TRUE)
<1>0. b \in Buffer(Data) /\ RingShape(b)
  BY DEF ChannelState, ChannelPlaced
<1>1. /\ RingShape(e)
      /\ \A i \in 0..(MaxPackets - 1) :
           e.packets[i] = b.packets[i] \/ e.packets[i] = Stored(b, pack)
      /\ \A i \in Window(e) :
           \/ PacketAt(e, i) = Stored(b, pack)
           \/ i \in Window(b) /\ PacketAt(e, i) = PacketAt(b, i)
  BY <1>0, WriteWindow
<1>2. Placed(s, Stored(b, pack)) /\ Stored(b, pack).len = 1
  BY <1>0, StoredPlaced
<1> HIDE DEF e
<1>3. d.rawData = e
  BY DEF e
<1>4. \A i \in 0..(MaxPackets - 1) : Placed(s, e.packets[i])
  BY <1>1, <1>2 DEF ChannelPlaced
<1>5. \A i \in Window(e) : PacketAt(e, i).len = 1
  BY <1>1, <1>2 DEF ChannelPlaced
<1> QED BY <1>1, <1>3, <1>4, <1>5 DEF ChannelPlaced

(* What was sent is a sequence of packets, and starts with out.            *)
LEMMA SentType ==
  ASSUME TypeOK
  PROVE  /\ Sent \in Seq(Packet(Data)) /\ Len(Sent) \in Nat
         /\ Len(Sent) = Len(out) + Len(rd.buf)
         /\ Len(out) \in Nat /\ Len(rd.buf) \in Nat
         /\ \A k \in 1..Len(out) : Sent[k] = out[k]
<1>1. out \in Seq(Packet(Data)) /\ rd.buf \in Seq(Packet(Data))
  BY TypeParts DEF ClientState
<1> DEFINE b == rd.buf
<1> HIDE DEF b
<1>2. b \in Seq(Packet(Data)) /\ out \in Seq(Packet(Data))
  BY <1>1 DEF b
<1>3. /\ out \o b \in Seq(Packet(Data)) /\ Len(out \o b) \in Nat
      /\ Len(out \o b) = Len(out) + Len(b)
      /\ Len(out) \in Nat /\ Len(b) \in Nat
      /\ \A k \in 1..Len(out) : (out \o b)[k] = out[k]
  BY <1>2
<1> QED BY <1>3 DEF Sent, b

(* What a client takes from the ring is of the window, and no packet of    *)
(* the window is between it and the position asked for.                    *)
LEMMA TakenPlaced ==
  ASSUME TypeOK, ChannelPlaced(ch, src), Found(ch.rawData, rd.streamPos),
         NEW pack, pack = FindPacket(ch.rawData, rd.streamPos)
  PROVE  /\ pack \in Packet(Data) /\ Placed(src, pack) /\ pack.len = 1
         /\ pack.data.at \in Nat /\ pack.data.at >= rd.streamPos
         /\ \A p \in Buffered : p \in Packet(Data) /\ p.data.at \in Nat
         /\ \A p \in Buffered :
              p.data.at >= rd.streamPos => pack.data.at <= p.data.at
<1>1. ch \in ChannelState /\ ch.rawData \in Buffer(Data)
      /\ rd.streamPos \in Nat
  BY TypeParts, PosModAssumption DEF ChannelState, ClientState
<1>2. PICK i \in Window(ch.rawData) :
        /\ pack = PacketAt(ch.rawData, i)
        /\ PacketAt(ch.rawData, i).pos >= rd.streamPos
        /\ \A j \in Window(ch.rawData) :
             PacketAt(ch.rawData, j).pos >= rd.streamPos
               => PacketAt(ch.rawData, i).pos <= PacketAt(ch.rawData, j).pos
  BY <1>1, FindPacketLeast
<1>3. \A j \in Window(ch.rawData) :
        /\ PacketAt(ch.rawData, j) \in Packet(Data)
        /\ Placed(src, PacketAt(ch.rawData, j))
        /\ PacketAt(ch.rawData, j).len = 1
  BY <1>1, WindowPlaced
<1>4. \A j \in Window(ch.rawData) :
        PacketAt(ch.rawData, j).pos = PacketAt(ch.rawData, j).data.at
  BY <1>3 DEF Placed
<1>5. /\ pack \in Packet(Data) /\ Placed(src, pack) /\ pack.len = 1
      /\ pack.pos = pack.data.at /\ pack.pos >= rd.streamPos
  BY <1>2, <1>3, <1>4
<1>6. pack.data.at \in Nat
  BY <1>5, PacketFields
<1>7. \A p \in Buffered : p \in Packet(Data) /\ p.data.at \in Nat
  BY <1>3, PacketFields DEF Buffered
<1>8. \A p \in Buffered :
        p.data.at >= rd.streamPos => pack.data.at <= p.data.at
  BY <1>2, <1>4, <1>5 DEF Buffered
<1> QED BY <1>5, <1>6, <1>7, <1>8

(* How a step of the client's thread changes what was sent.                *)
LEMMA SentStep ==
  ASSUME StartInv, Reader \/ ReaderStop
  PROVE  \/ Sent' = Sent
         \/ ReaderSendHeader /\ Sent = <<>> /\ Sent' = <<ch.headPack>>
         \/ /\ ReaderFind \/ ReaderMeta
            /\ Sent' = Append(Sent, FindPacket(ch.rawData, rd.streamPos))
<1>0. TypeOK /\ PhaseOK
  BY DEF StartInv, TypeInv
<1>c. rd \in ClientState /\ out \in Seq(Packet(Data))
      /\ rd.buf \in Seq(Packet(Data)) /\ ch.headPack \in Packet(Data)
      /\ ch.rawData \in Buffer(Data) /\ rd.streamPos \in Nat
  BY <1>0, TypeParts, PosModAssumption DEF ClientState, ChannelState
<1>1. CASE ReaderSendHeader
  <2>1. out = <<>> /\ rd.buf = <<>>
    BY <1>0, <1>1 DEF ReaderSendHeader, PhaseOK
  <2>2. rd'.buf = <<>>
    BY <1>1, <1>c, <2>1 DEF ReaderSendHeader, ClientState
  <2>3. out' = <<ch.headPack>>
    BY <1>1, <2>1 DEF ReaderSendHeader
  <2>4. Sent = <<>> \o <<>> /\ Sent' = <<ch.headPack>> \o <<>>
    BY <2>1, <2>2, <2>3 DEF Sent
  <2>5. ASSUME NEW x, NEW S, x \in S
        PROVE  <<>> \o <<>> = <<>> /\ <<x>> \o <<>> = <<x>>
    <3>1. <<x>> \in Seq(S) /\ <<>> \in Seq(S)
      BY <2>5
    <3> QED BY <3>1, ConcatEmptySeq
  <2>6. Sent = <<>> /\ Sent' = <<ch.headPack>>
    BY <1>c, <2>4, <2>5
  <2> QED BY <1>1, <2>6
<1>2. CASE ReaderFind
  <2> DEFINE pack == FindPacket(ch.rawData, rd.streamPos)
             send == ~(rd.skip /\ pack.cont)
  <2>1. rd.buf = <<>>
    BY <1>0, <1>2 DEF ReaderFind, PhaseOK
  <2>2. rd'.buf = rd.buf
    BY <1>2, <1>c DEF ReaderFind, ClientState
  <2>3. out' = out \/ out' = Append(out, pack)
    BY <1>2 DEF ReaderFind
  <2>4. pack \in Packet(Data)
    BY <1>2, <1>c, FindPacketType DEF ReaderFind
  <2> HIDE DEF pack
  <2>5. ASSUME NEW q \in Seq(Packet(Data)) PROVE q \o <<>> = q
    BY ConcatEmptySeq
  <2>6. Append(out, pack) \in Seq(Packet(Data))
    BY <1>c, <2>4
  <2>7. Sent = out /\ (out' = out => Sent' = out)
        /\ (out' = Append(out, pack) => Sent' = Append(out, pack))
    BY <1>c, <2>1, <2>2, <2>5, <2>6 DEF Sent
  <2> QED BY <1>2, <2>3, <2>7 DEF pack
<1>3. CASE ReaderMeta
  <2> DEFINE pack == FindPacket(ch.rawData, rd.streamPos)
             buf == IF pack.type = "DATA" THEN Append(rd.buf, pack) ELSE rd.buf
             full == Len(buf) = MetaInterval
  <2>1. pack \in Packet(Data)
    BY <1>3, <1>c, FindPacketType DEF ReaderMeta
  <2>2. out' = (IF full THEN out \o buf ELSE out)
        /\ rd'.buf = (IF full THEN <<>> ELSE buf)
    BY <1>3, <1>c DEF ReaderMeta, ClientState
  <2> HIDE DEF pack, full
  <2>3. buf \in Seq(Packet(Data))
    BY <1>c, <2>1
  <2>4. Sent' = out \o buf
    <3> HIDE DEF buf
    <3>1. CASE full
      <4>1. Sent' = (out \o buf) \o <<>>
        BY <2>2, <3>1 DEF Sent
      <4>2. out \o buf \in Seq(Packet(Data))
        BY <1>c, <2>3
      <4> QED BY <4>1, <4>2, ConcatEmptySeq
    <3>2. CASE ~full
      BY <2>2, <3>2 DEF Sent
    <3> QED BY <3>1, <3>2
  <2>5. CASE pack.type = "DATA"
    <3>1. Sent' = out \o Append(rd.buf, pack)
      BY <2>4, <2>5
    <3> DEFINE b == rd.buf
    <3> HIDE DEF b
    <3>2. b \in Seq(Packet(Data))
      BY <1>c DEF b
    <3>3. out \o Append(b, pack) = Append(out \o b, pack)
      BY <1>c, <2>1, <3>2
    <3> QED BY <1>3, <3>1, <3>3 DEF Sent, pack, b
  <2>6. CASE pack.type # "DATA"
    BY <2>4, <2>6 DEF Sent
  <2> QED BY <2>5, <2>6
<1>4. CASE (Reader /\ ~ReaderSendHeader /\ ~ReaderFind /\ ~ReaderMeta)
           \/ ReaderStop
  <2>1. out' = out /\ rd'.buf = rd.buf
    BY <1>4, <1>c DEF Reader, ReaderStop, ReaderWait, ReaderPosition,
       ReaderKeyFrame, ReaderScan, ReaderIndex, ReaderCheck, ReaderReset,
       ReaderNothing, ClientState
  <2> QED BY <2>1 DEF Sent
<1> QED BY <1>1, <1>2, <1>3, <1>4

(* Before the first stream everything is in its place. *)
LEMMA PlaceInit == Init => PlaceInv
<1> SUFFICES ASSUME Init PROVE PlaceInv
  OBVIOUS
<1>1. StartInv /\ TypeOK
  BY StartInit DEF StartInv, TypeInv
<1>2. Placed(src, InitPacket(NoData))
  BY MaxAtAssumption DEF Init, Placed, Past, InitPacket, NoData
<1>3. ch.headPack = InitPacket(NoData) /\ ch.rawData = NewBuffer(NoData)
      /\ src.gen = 0 /\ src.pc = "run" /\ rd.pc = "wait"
  BY DEF Init
<1>4. RingShape(ch.rawData) /\ ch.rawData.writePos = 0
  BY <1>3, MaxPacketsAssumption DEF NewBuffer, RingShape
<1>5. \A i \in 0..(MaxPackets - 1) : Placed(src, ch.rawData.packets[i])
  BY <1>2, <1>3 DEF NewBuffer
<1>6. Window(ch.rawData) = {}
  BY <1>4 DEF Window
<1>7. Placed(src, ch.headPack) /\ ch.headPack.data.at = 0
  BY <1>2, <1>3 DEF InitPacket, NoData
<1>8. Len(Sent) = 0
  <2>1. Len(out) = 0 /\ Len(rd.buf) = 0
    BY DEF Init
  <2> QED BY <1>1, <2>1, SentType
<1> QED BY <1>1, <1>3, <1>4, <1>5, <1>6, <1>7, <1>8
        DEF PlaceInv, PlaceOK, ChannelPlaced, HeadReady

(* Every step of the source advances it and keeps the channel in order. *)
LEMMA PlaceSource ==
  ASSUME NoWrap, PlaceInv, Source
  PROVE  /\ ChannelPlaced(ch', src')
         /\ HeadReady' => ch'.headPack.len = 1
         /\ src'.pc # "run" => src'.at = 0
         /\ Advance(src, src')
<1>0. TypeInv /\ TypeOK /\ PlaceOK /\ RestartOK
  BY DEF PlaceInv, StartInv, TypeInv
<1>T. TypeInv' /\ TypeOK'
  BY <1>0, TypeSource DEF TypeInv
<1>c. /\ ch \in ChannelState /\ src \in SourceState
      /\ ch' \in ChannelState /\ src' \in SourceState
  <2>1. ch' \in ChannelState /\ src' \in SourceState
    BY <1>T DEF TypeOK, ChannelState, SourceState
  <2> QED BY <1>0, <2>1, TypeParts
<1>f. /\ src.gen \in Nat /\ src.at \in Nat /\ src'.gen \in Nat /\ src'.at \in Nat
      /\ src.gen \in 0..MaxGen /\ ch.headPack \in Packet(Data)
      /\ ch.rawData \in Buffer(Data) /\ src.at \in 0..MaxAt
  BY <1>c, MaxGenAssumption, MaxAtAssumption DEF SourceState, ChannelState
<1>p. /\ ChannelPlaced(ch, src) /\ RingShape(ch.rawData)
      /\ HeadReady => ch.headPack.len = 1
      /\ src.pc # "run" => src.at = 0
  BY <1>0 DEF PlaceOK, ChannelPlaced
<1>W. ASSUME NEW pack PROVE Written(pack) = WriteLocked(ch.rawData, pack, TRUE)
  <2>1. ~WillSkip(ch.rawData)
    BY <1>f, <1>p, WriteWindow
  <2> QED BY <2>1 DEF Written
<1>1. CASE SourceData
  <2>1. PICK gap \in 0..MaxGap, cont \in BOOLEAN :
       /\ src.at + gap < MaxAt
       /\ ch' = [ch EXCEPT !.rawData =
                   Written(StreamPacket("DATA", src.gen, src.at + gap, cont))]
       /\ src' = [src EXCEPT !.at = src.at + gap + 1]
    BY <1>1 DEF SourceData
  <2> DEFINE at == src.at + gap
             pack == StreamPacket("DATA", src.gen, at, cont)
  <2>2. at \in 0..MaxAt /\ at < MaxAt /\ at \in Nat /\ at >= src.at
    BY <1>f, <2>1, MaxGapAssumption, MaxAtAssumption
  <2>3. src'.gen = src.gen /\ src'.at = at + 1 /\ src'.pc = src.pc
    BY <1>c, <2>1 DEF SourceState
  <2> HIDE DEF at
  <2>4. Advance(src, src')
    BY <1>f, <2>2, <2>3 DEF Advance
  <2>5. "DATA" \in PacketType
    BY DEF PacketType
  <2>6. src'.at > at
    BY <2>2, <2>3
  <2>7. pack \in Packet(Data)
    BY <1>f, <2>2, <2>5, StreamPacketType
  <2>8. Placed(src', pack) /\ pack.len = 1
    BY <1>c, <1>f, <2>2, <2>3, <2>5, <2>6, StreamPacketPlaced
  <2> HIDE DEF pack
  <2>9. ch'.headPack = ch.headPack
        /\ ch'.rawData = WriteLocked(ch.rawData, pack, TRUE)
    <3>1. ch' = [ch EXCEPT !.rawData = WriteLocked(ch.rawData, pack, TRUE)]
      BY <1>W, <2>1 DEF pack, at
    <3> DEFINE wr == WriteLocked(ch.rawData, pack, TRUE)
    <3> HIDE DEF wr
    <3>2. ch' = [ch EXCEPT !.rawData = wr]
      BY <3>1 DEF wr
    <3>3. ch'.headPack = ch.headPack /\ ch'.rawData = wr
      BY <1>c, <3>2 DEF ChannelState
    <3> QED BY <3>3 DEF wr
  <2>10. ChannelPlaced(ch, src')
    BY <1>c, <1>p, <2>4, ChannelAdvance
  <2>11. ChannelPlaced(ch', src')
    BY <1>c, <2>7, <2>8, <2>9, <2>10, ChannelWrite
  <2>12. ch'.headPack.len = 1
    BY <1>1, <1>p, <2>9 DEF SourceData, HeadReady
  <2> QED BY <1>1, <2>3, <2>4, <2>11, <2>12 DEF SourceData
<1>2. CASE SourceRestart
  <2>1. /\ src'.gen = src.gen + 1 /\ src'.at = 0 /\ src'.pc \in {"init", "index"}
        /\ src.pc = "run" /\ rd' = rd
    BY <1>2 DEF SourceRestart
  <2>2. Advance(src, src')
    BY <1>f, <2>1 DEF Advance
  <2>3. ChannelPlaced(ch, src')
    BY <1>c, <1>p, <2>2, ChannelAdvance
  <2>4. /\ ch'.rawData = ch.rawData /\ ch'.headPack.len = ch.headPack.len
        /\ Placed(src', ch'.headPack) /\ ch'.headPack.data.at = 0
    <3>1. CASE Order = "init_first"
      <4> DEFINE nd == HeadOf(src.gen + 1).data
                 nh == [ch.headPack EXCEPT !.data = nd]
      <4>1. ch' = [ch EXCEPT !.headPack = nh]
        BY <1>2, <1>c, <3>1 DEF SourceRestart, ChannelState
      <4>2. nd.at = 0 /\ nd.gen = src.gen + 1
        BY DEF HeadOf, StreamPacket
      <4>3. /\ nh.len = ch.headPack.len /\ nh.pos = ch.headPack.pos
            /\ nh.data = nd /\ nh.type = ch.headPack.type
        BY <1>f DEF Packet
      <4> HIDE DEF nd, nh
      <4>4. ch'.rawData = ch.rawData /\ ch'.headPack = nh
        BY <1>c, <4>1 DEF ChannelState
      <4>5. Past(src', nh)
        BY <2>1, <4>2, <4>3 DEF Past
      <4>6. Placed(src', nh)
        BY <1>p, <4>2, <4>3, <4>5 DEF ChannelPlaced, Placed
      <4> QED BY <4>2, <4>3, <4>4, <4>6
    <3>2. CASE Order # "init_first"
      BY <1>2, <2>3, <3>2 DEF SourceRestart, ChannelPlaced
    <3> QED BY <3>1, <3>2
  <2>5. ChannelPlaced(ch', src')
    BY <2>3, <2>4 DEF ChannelPlaced
  <2>6. HeadReady' => ch'.headPack.len = 1
    BY <1>p, <2>1, <2>4 DEF HeadReady
  <2> QED BY <2>1, <2>2, <2>5, <2>6
<1>3. ASSUME ch'.headPack = ch.headPack, src'.gen = src.gen, src'.at = src.at,
             src.pc # "run", rd' = rd, src'.pc \in {"init", "index", "head"},
             \/ ch'.rawData = ch.rawData
             \/ ch'.rawData = InitBuffer(ch.rawData)
      PROVE  /\ ChannelPlaced(ch', src')
             /\ HeadReady' => ch'.headPack.len = 1
             /\ src'.pc # "run" => src'.at = 0
             /\ Advance(src, src')
  <2>1. Advance(src, src')
    BY <1>f, <1>3 DEF Advance
  <2>2. ChannelPlaced(ch, src')
    BY <1>c, <1>p, <2>1, ChannelAdvance
  <2>3. CASE ch'.rawData = ch.rawData
    BY <1>p, <1>3, <2>1, <2>2, <2>3 DEF ChannelPlaced, HeadReady
  <2>4. CASE ch'.rawData = InitBuffer(ch.rawData)
    <3>1. ch'.rawData.writePos = 0 /\ ch'.rawData.packets = ch.rawData.packets
          /\ ch'.rawData.readPos = 0 /\ ch'.rawData.firstPos = 0
      BY <2>4 DEF InitBuffer
    <3>2. RingShape(ch'.rawData)
      BY <3>1, MaxPacketsAssumption DEF RingShape
    <3>3. Window(ch'.rawData) = {}
      BY <3>1 DEF Window
    <3>4. ChannelPlaced(ch', src')
      BY <1>3, <2>2, <3>1, <3>2, <3>3 DEF ChannelPlaced
    <3> QED BY <1>p, <1>3, <2>1, <3>1, <3>4 DEF HeadReady
  <2> QED BY <1>3, <2>3, <2>4
<1>4. CASE SourceInit
  <2>1. ch'.headPack = ch.headPack /\ ch'.rawData = InitBuffer(ch.rawData)
    BY <1>4, <1>c DEF SourceInit, ChannelState
  <2>2. /\ src'.gen = src.gen /\ src'.at = src.at /\ src.pc # "run" /\ rd' = rd
        /\ src'.pc \in {"init", "index", "head"}
    BY <1>4, <1>c DEF SourceInit, Goto, SourceState
  <2> QED BY <1>3, <2>1, <2>2
<1>5. CASE SourceIndex
  <2>1. ch'.headPack = ch.headPack /\ ch'.rawData = ch.rawData
    BY <1>5, <1>c DEF SourceIndex, ChannelState
  <2>2. /\ src'.gen = src.gen /\ src'.at = src.at /\ src.pc # "run" /\ rd' = rd
        /\ src'.pc \in {"init", "index", "head"}
    BY <1>5, <1>c DEF SourceIndex, Goto, SourceState
  <2> QED BY <1>3, <2>1, <2>2
<1>6. CASE SourceHead
  <2>1. ch'.headPack = HeadOf(src.gen) /\ ch'.rawData = ch.rawData
    BY <1>6, <1>c DEF SourceHead, ChannelState
  <2>2. /\ src'.gen = src.gen /\ src'.at = src.at /\ src.pc # "run"
        /\ src'.pc = "write"
    BY <1>6, <1>c DEF SourceHead, Goto, SourceState
  <2>3. Advance(src, src')
    BY <1>f, <2>2 DEF Advance
  <2>4. ChannelPlaced(ch, src')
    BY <1>c, <1>p, <2>3, ChannelAdvance
  <2>5. MaxAt > 0
    BY <1>0, <2>2 DEF RestartOK
  <2>6. Placed(src', HeadOf(src.gen)) /\ HeadOf(src.gen).len = 1
        /\ HeadOf(src.gen).data.at = 0
    BY <1>f, <2>2, <2>5, HeadPlaced
  <2>7. ChannelPlaced(ch', src')
    BY <2>1, <2>4, <2>6 DEF ChannelPlaced
  <2> QED BY <1>p, <2>1, <2>2, <2>3, <2>6, <2>7
<1>7. CASE SourceWriteHead
  <2>1. src'.gen = src.gen /\ src'.at = 1 /\ src'.pc = "run" /\ src.at = 0
        /\ src.pc = "write"
    BY <1>7, <1>c, <1>p DEF SourceWriteHead, SourceState
  <2>2. Advance(src, src')
    BY <1>f, <2>1 DEF Advance
  <2>3. ChannelPlaced(ch, src')
    BY <1>c, <1>p, <2>2, ChannelAdvance
  <2>4. ch.headPack.len = 1
    BY <1>p, <2>1 DEF HeadReady
  <2>5. ch'.headPack = ch.headPack
        /\ ch'.rawData = WriteLocked(ch.rawData, ch.headPack, TRUE)
    BY <1>7, <1>c, <1>W DEF SourceWriteHead, ChannelState
  <2>6. Placed(src', ch.headPack)
    BY <2>3 DEF ChannelPlaced
  <2>7. ChannelPlaced(ch', src')
    BY <1>c, <1>f, <2>3, <2>4, <2>5, <2>6, ChannelWrite
  <2> QED BY <2>1, <2>2, <2>4, <2>5, <2>7
<1> QED BY <1>1, <1>2, <1>4, <1>5, <1>6, <1>7 DEF Source

(* Every step keeps everything in its place. *)
LEMMA PlaceNext == ASSUME NoWrap PROVE PlaceInv /\ [Next]_vars => PlaceInv'
<1> SUFFICES ASSUME PlaceInv, [Next]_vars PROVE PlaceInv'
  OBVIOUS
<1>0. StartInv /\ TypeInv /\ TypeOK /\ PlaceOK
  BY DEF PlaceInv, StartInv, TypeInv
<1>S. StartInv' /\ TypeOK'
  BY <1>0, StartNext DEF StartInv, TypeInv
<1>c. ch \in ChannelState /\ src \in SourceState /\ rd \in ClientState
      /\ ch.headPack \in Packet(Data)
  BY <1>0, TypeParts DEF ChannelState
<1>p. /\ ChannelPlaced(ch, src)
      /\ HeadReady => ch.headPack.len = 1
      /\ src.pc # "run" => src.at = 0
      /\ \A k \in 1..Len(Sent) : Past(src, Sent[k]) /\ HeadFirst(Sent[k])
  BY <1>0 DEF PlaceOK
<1>q. Sent \in Seq(Packet(Data)) /\ Len(Sent) \in Nat
  BY <1>0, SentType
<1>1. CASE Source
  <2>1. /\ ChannelPlaced(ch', src') /\ Advance(src, src')
        /\ HeadReady' => ch'.headPack.len = 1
        /\ src'.pc # "run" => src'.at = 0
    BY <1>1, PlaceSource
  <2>2. Sent' = Sent
    BY <1>1 DEF Sent, Source, SourceData, SourceRestart, SourceInit,
                SourceIndex, SourceHead, SourceWriteHead
  <2>3. src' \in SourceState
    BY <1>S DEF TypeOK, SourceState
  <2>4. ASSUME NEW k \in 1..Len(Sent) PROVE Past(src', Sent[k])
    <3>1. Sent[k] \in Packet(Data)
      BY <1>q
    <3> QED BY <1>c, <1>p, <2>1, <2>3, <3>1, PastAdvance
  <2>5. PlaceOK'
    BY <1>p, <2>1, <2>2, <2>4 DEF PlaceOK, HeadFirst
  <2> QED BY <1>S, <2>5 DEF PlaceInv
<1>2. CASE Reader \/ ReaderStop
  <2>1. ch' = ch /\ src' = src
    BY <1>2 DEF Reader, ReaderStop, ReaderWait, ReaderSendHeader,
       ReaderPosition, ReaderKeyFrame, ReaderScan, ReaderIndex, ReaderCheck,
       ReaderReset, ReaderMeta, ReaderFind, ReaderNothing
  <2>2. HeadReady' => HeadReady
    <3>1. CASE ReaderWait
      BY <3>1, <2>1 DEF ReaderWait, HeadReady
    <3>2. CASE ~ReaderWait
      <4>1. rd.pc \notin {"wait", "done"} \/ rd'.pc = "done"
        BY <1>2, <1>c, <3>2 DEF Reader, ReaderStop, ReaderSendHeader,
           ReaderPosition, ReaderKeyFrame, ReaderScan, ReaderIndex, ReaderCheck,
           ReaderReset, ReaderMeta, ReaderFind, ReaderNothing, ClientState
      <4> QED BY <2>1, <4>1 DEF HeadReady
    <3> QED BY <3>1, <3>2
  <2>3. \A k \in 1..Len(Sent') : Past(src, Sent'[k]) /\ HeadFirst(Sent'[k])
    <3>1. CASE Sent' = Sent
      BY <1>p, <3>1
    <3>2. CASE Sent' = <<ch.headPack>>
      <4>1. Past(src, ch.headPack) /\ HeadFirst(ch.headPack)
        BY <1>p DEF ChannelPlaced, HeadFirst, Placed
      <4> QED BY <3>2, <4>1
    <3>3. CASE /\ ReaderFind \/ ReaderMeta
               /\ Sent' = Append(Sent, FindPacket(ch.rawData, rd.streamPos))
      <4> DEFINE pack == FindPacket(ch.rawData, rd.streamPos)
      <4>1. pack \in Packet(Data) /\ Past(src, pack) /\ HeadFirst(pack)
        BY <1>0, <1>p, <3>3, TakenPlaced
           DEF HeadFirst, Placed, ReaderFind, ReaderMeta
      <4> HIDE DEF pack
      <4>2. Sent' = Append(Sent, pack)
        BY <3>3 DEF pack
      <4>3. /\ Len(Sent') = Len(Sent) + 1 /\ Sent'[Len(Sent) + 1] = pack
            /\ \A k \in 1..Len(Sent) : Sent'[k] = Sent[k]
        BY <1>q, <4>1, <4>2
      <4> QED BY <1>p, <1>q, <4>1, <4>3
    <3> QED BY <1>0, <1>2, <3>1, <3>2, <3>3, SentStep
  <2>4. PlaceOK'
    BY <1>p, <2>1, <2>2, <2>3 DEF HeadFirst, PlaceOK
  <2> QED BY <1>S, <2>4 DEF PlaceInv
<1>3. CASE UNCHANGED vars
  <2>1. PlaceOK'
    BY <1>0, <1>3 DEF vars, HeadFirst, PlaceOK, HeadReady, Sent
  <2> QED BY <1>S, <2>1 DEF PlaceInv
<1> QED BY <1>1, <1>2, <1>3 DEF Next

-----------------------------------------------------------------------------
(* What a client loses.  The position it asks for is never beyond the end  *)
(* of the last packet it was sent, so findPacket passes over nothing.      *)

GapFree(q, B) ==
  \A k \in 2..(Len(q) - 1), p \in B :
    ~ /\ q[k].data.gen = q[k + 1].data.gen
      /\ p.data.gen = q[k].data.gen
      /\ q[k].data.at < p.data.at /\ p.data.at < q[k + 1].data.at

AsksNext == Len(Sent) >= 2 => rd.streamPos <= Sent[Len(Sent)].data.at + 1

LossInv == PlaceInv /\ GapFree(Sent, Buffered) /\ AsksNext

(* Sending the next packet of the ring leaves no gap.                      *)
LEMMA GapFreeAppend ==
  ASSUME NEW q \in Seq(Packet(Data)), NEW B, NEW pack \in Packet(Data),
         NEW spos \in Nat, GapFree(q, B),
         Len(q) >= 2 => spos <= q[Len(q)].data.at + 1,
         \A p \in B : p \in Packet(Data),
         \A p \in B : p.data.at >= spos => pack.data.at <= p.data.at
  PROVE  GapFree(Append(q, pack), B)
<1> DEFINE r == Append(q, pack)
<1>1. /\ Len(q) \in Nat /\ Len(r) = Len(q) + 1 /\ r[Len(q) + 1] = pack
      /\ \A k \in 1..Len(q) : r[k] = q[k]
  OBVIOUS
<1> HIDE DEF r
<1> SUFFICES ASSUME NEW k \in 2..(Len(r) - 1), NEW p \in B,
                    r[k].data.gen = r[k + 1].data.gen,
                    p.data.gen = r[k].data.gen,
                    r[k].data.at < p.data.at, p.data.at < r[k + 1].data.at
             PROVE  FALSE
  BY DEF GapFree, r
<1>2. CASE k < Len(q)
  <2>1. k \in 2..(Len(q) - 1) /\ r[k] = q[k] /\ r[k + 1] = q[k + 1]
    BY <1>1, <1>2
  <2> QED BY <2>1 DEF GapFree
<1>3. CASE k = Len(q)
  <2>1. r[k] = q[k] /\ r[k + 1] = pack /\ k >= 2 /\ q[k] \in Packet(Data)
    BY <1>1, <1>3
  <2>2. /\ q[k].data.at \in Nat /\ pack.data.at \in Nat /\ p.data.at \in Nat
    BY <2>1, PacketFields
  <2>3. spos <= q[k].data.at + 1
    BY <1>3, <2>1
  <2>4. p.data.at >= spos
    BY <2>1, <2>2, <2>3
  <2>5. pack.data.at <= p.data.at
    BY <2>4
  <2> QED BY <2>1, <2>2, <2>5
<1> QED BY <1>1, <1>2, <1>3

(* A packet the source writes lies between no two that were sent.          *)
LEMMA GapFreeWrite ==
  ASSUME NEW q \in Seq(Packet(Data)), NEW B, NEW C, GapFree(q, B),
         NEW s \in SourceState, NEW new \in Packet(Data),
         \A k \in 1..Len(q) : Past(s, q[k]),
         \A p \in C : p \in B \/ p = new,
         new.data.at = 0 \/ (new.data.gen = s.gen /\ new.data.at >= s.at)
  PROVE  GapFree(q, C)
<1> SUFFICES ASSUME NEW k \in 2..(Len(q) - 1), NEW p \in C,
                    q[k].data.gen = q[k + 1].data.gen,
                    p.data.gen = q[k].data.gen,
                    q[k].data.at < p.data.at, p.data.at < q[k + 1].data.at
             PROVE  FALSE
  BY DEF GapFree
<1>1. CASE p \in B
  BY <1>1 DEF GapFree
<1>2. CASE p = new
  <2>1. k \in 1..Len(q) /\ k + 1 \in 1..Len(q)
    OBVIOUS
  <2>2. q[k] \in Packet(Data) /\ q[k + 1] \in Packet(Data)
    BY <2>1
  <2>3. /\ q[k].data.at \in Nat /\ q[k + 1].data.at \in Nat
        /\ q[k + 1].data.gen \in Nat /\ new.data.at \in Nat
    BY <2>2, PacketFields
  <2>4. s.gen \in Nat /\ s.at \in Nat
    BY MaxGenAssumption, MaxAtAssumption DEF SourceState
  <2>5. Past(s, q[k + 1])
    BY <2>1
  <2> QED BY <1>2, <2>3, <2>4, <2>5 DEF Past
<1> QED BY <1>1, <1>2

(* The window after a step of the source: empty, as before, or with one    *)
(* packet more, which is at the source's place or a header.                *)
LEMMA BufferedSource ==
  ASSUME NoWrap, PlaceInv, Source
  PROVE  \E new \in Packet(Data) :
           /\ \A p \in Buffered' : p \in Buffered \/ p = new
           /\ \/ new.data.at = 0
              \/ new.data.gen = src.gen /\ new.data.at >= src.at
<1>0. TypeInv /\ TypeOK /\ PlaceOK /\ RestartOK
  BY DEF PlaceInv, StartInv, TypeInv
<1>c. ch \in ChannelState /\ src \in SourceState
      /\ ch.headPack \in Packet(Data) /\ ch.rawData \in Buffer(Data)
      /\ src.gen \in 0..MaxGen /\ src.at \in Nat
  BY <1>0, TypeParts, MaxAtAssumption DEF ChannelState, SourceState
<1>p. RingShape(ch.rawData) /\ ch.headPack.data.at = 0
  BY <1>0 DEF PlaceOK, ChannelPlaced
<1>b. Buffered' = {PacketAt(ch'.rawData, i) : i \in Window(ch'.rawData)}
  BY DEF Buffered
<1>W. ASSUME NEW pack \in Packet(Data), ch'.rawData = Written(pack)
      PROVE  /\ Stored(ch.rawData, pack) \in Packet(Data)
             /\ Stored(ch.rawData, pack).data = pack.data
             /\ \A p \in Buffered' :
                  p \in Buffered \/ p = Stored(ch.rawData, pack)
  <2> DEFINE b == ch.rawData
             e == WriteLocked(b, pack, TRUE)
  <2>1. ~WillSkip(b) /\ \A i \in Window(e) :
                          \/ PacketAt(e, i) = Stored(b, pack)
                          \/ i \in Window(b) /\ PacketAt(e, i) = PacketAt(b, i)
    BY <1>c, <1>p, WriteWindow
  <2>2. ch'.rawData = e
    BY <1>W, <2>1 DEF Written
  <2> HIDE DEF e
  <2>3. \A p \in Buffered' : p \in Buffered \/ p = Stored(b, pack)
    BY <1>b, <2>1, <2>2 DEF Buffered
  <2> QED BY <1>c, <2>3, StoredPlaced
<1>K. ASSUME ch'.rawData = ch.rawData
      PROVE  \A p \in Buffered' : p \in Buffered
  BY <1>K, <1>b DEF Buffered
<1>1. CASE SourceData
  <2>1. PICK gap \in 0..MaxGap, cont \in BOOLEAN :
       /\ src.at + gap < MaxAt
       /\ ch' = [ch EXCEPT !.rawData =
                   Written(StreamPacket("DATA", src.gen, src.at + gap, cont))]
    BY <1>1 DEF SourceData
  <2> DEFINE at == src.at + gap
             pack == StreamPacket("DATA", src.gen, at, cont)
  <2>2. at \in 0..MaxAt /\ at >= src.at /\ "DATA" \in PacketType
    BY <1>c, <2>1, MaxGapAssumption, MaxAtAssumption DEF PacketType
  <2>3. pack \in Packet(Data)
    BY <1>c, <2>2, StreamPacketType
  <2>4. pack.data.at = at /\ pack.data.gen = src.gen
    BY DEF StreamPacket
  <2> HIDE DEF pack, at
  <2>5. ch'.rawData = Written(pack)
    <3> DEFINE wr == Written(pack)
    <3>1. ch' = [ch EXCEPT !.rawData = wr]
      BY <2>1 DEF pack, at
    <3> HIDE DEF wr
    <3>2. ch'.rawData = wr
      BY <1>c, <3>1 DEF ChannelState
    <3> QED BY <3>2 DEF wr
  <2> QED BY <1>W, <2>2, <2>3, <2>4, <2>5
<1>2. CASE SourceWriteHead
  <2>1. ch'.rawData = Written(ch.headPack)
    BY <1>2, <1>c DEF SourceWriteHead, ChannelState
  <2> QED BY <1>W, <1>c, <1>p, <2>1
<1>3. CASE SourceInit
  <2>1. ch'.rawData = InitBuffer(ch.rawData)
    BY <1>3, <1>c DEF SourceInit, ChannelState
  <2>2. ch'.rawData.writePos = 0
    BY <2>1 DEF InitBuffer
  <2>3. Buffered' = {}
    BY <1>b, <2>2 DEF Window
  <2> QED BY <1>c, <1>p, <2>3
<1>4. CASE SourceRestart \/ SourceIndex \/ SourceHead
  <2>1. CASE SourceRestart /\ Order = "init_first"
    <3> DEFINE nh == [ch.headPack EXCEPT !.data = HeadOf(src.gen + 1).data]
    <3>1. ch' = [ch EXCEPT !.headPack = nh]
      BY <1>c, <2>1 DEF SourceRestart, ChannelState
    <3> HIDE DEF nh
    <3>2. ch'.rawData = ch.rawData
      BY <1>c, <3>1 DEF ChannelState
    <3> QED BY <1>K, <1>c, <1>p, <3>2
  <2>2. CASE (SourceRestart /\ Order # "init_first") \/ SourceIndex \/ SourceHead
    <3>1. ch'.rawData = ch.rawData
      BY <1>c, <2>2 DEF SourceRestart, SourceIndex, SourceHead, ChannelState
    <3> QED BY <1>K, <1>c, <1>p, <3>1
  <2> QED BY <1>4, <2>1, <2>2
<1> QED BY <1>1, <1>2, <1>3, <1>4 DEF Source

(* Nothing has been sent at first. *)
LEMMA LossInit == Init => LossInv
<1> SUFFICES ASSUME Init PROVE LossInv
  OBVIOUS
<1>1. PlaceInv /\ TypeOK
  BY PlaceInit DEF PlaceInv, StartInv, TypeInv
<1>2. Len(Sent) = 0
  <2>1. Len(out) = 0 /\ Len(rd.buf) = 0
    BY DEF Init
  <2> QED BY <1>1, <2>1, SentType
<1> QED BY <1>1, <1>2 DEF LossInv, GapFree, AsksNext

(* Every step keeps the sequence without gaps. *)
LEMMA LossNext == ASSUME NoWrap PROVE LossInv /\ [Next]_vars => LossInv'
<1> SUFFICES ASSUME LossInv, [Next]_vars PROVE LossInv'
  OBVIOUS
<1>0. /\ PlaceInv /\ StartInv /\ TypeOK /\ PlaceOK /\ PhaseOK
      /\ GapFree(Sent, Buffered) /\ AsksNext
  BY DEF LossInv, PlaceInv, StartInv, TypeInv
<1>S. PlaceInv' /\ TypeOK'
  BY <1>0, PlaceNext DEF PlaceInv, StartInv, TypeInv
<1>c. ch \in ChannelState /\ src \in SourceState /\ rd \in ClientState
      /\ ch.headPack \in Packet(Data)
  BY <1>0, TypeParts DEF ChannelState
<1>p. /\ ChannelPlaced(ch, src)
      /\ \A k \in 1..Len(Sent) : Past(src, Sent[k]) /\ HeadFirst(Sent[k])
  BY <1>0 DEF PlaceOK
<1>q. Sent \in Seq(Packet(Data)) /\ Len(Sent) \in Nat
      /\ Len(Sent) = Len(out) + Len(rd.buf)
      /\ Len(out) \in Nat /\ Len(rd.buf) \in Nat
      /\ rd.streamPos \in Nat
  BY <1>0, <1>c, SentType, PosModAssumption DEF ClientState
<1>r. Len(Sent') = Len(out') + Len(rd'.buf)
  <2> DEFINE o == out'
             b == rd'.buf
  <2>1. o \in Seq(Packet(Data)) /\ b \in Seq(Packet(Data))
    BY <1>S DEF TypeOK
  <2>2. Sent' = o \o b
    BY DEF Sent
  <2> HIDE DEF o, b
  <2>3. Len(o \o b) = Len(o) + Len(b)
    BY <2>1
  <2> QED BY <2>2, <2>3 DEF o, b
<1>n. Len(Sent) >= 1 => Sent[Len(Sent)].data.at \in Nat
  BY <1>q, PacketFields
<1>1. CASE Source
  <2>1. Sent' = Sent /\ rd' = rd
    BY <1>1 DEF Sent, Source, SourceData, SourceRestart, SourceInit,
                SourceIndex, SourceHead, SourceWriteHead
  <2>2. GapFree(Sent, Buffered')
    <3>1. PICK new \in Packet(Data) :
            /\ \A p \in Buffered' : p \in Buffered \/ p = new
            /\ \/ new.data.at = 0
               \/ new.data.gen = src.gen /\ new.data.at >= src.at
      BY <1>0, <1>1, BufferedSource
    <3> QED BY <1>0, <1>c, <1>p, <1>q, <3>1, GapFreeWrite
  <2>3. AsksNext'
    BY <1>0, <2>1 DEF AsksNext
  <2> QED BY <1>S, <2>1, <2>2, <2>3 DEF LossInv
<1>2. CASE Reader \/ ReaderStop
  <2>1. ch' = ch /\ src' = src /\ Buffered' = Buffered
    <3>1. ch' = ch /\ src' = src
      BY <1>2 DEF Reader, ReaderStop, ReaderWait, ReaderSendHeader,
         ReaderPosition, ReaderKeyFrame, ReaderScan, ReaderIndex, ReaderCheck,
         ReaderReset, ReaderMeta, ReaderFind, ReaderNothing
    <3> QED BY <3>1 DEF Buffered
  <2> DEFINE pack == FindPacket(ch.rawData, rd.streamPos)
  <2>2. ASSUME ReaderFind \/ ReaderMeta
        PROVE  /\ pack \in Packet(Data) /\ pack.data.at \in Nat
               /\ rd'.streamPos = pack.data.at + 1
               /\ pack.type # "DATA" => pack.data.at = 0
               /\ \A p \in Buffered : p \in Packet(Data)
               /\ \A p \in Buffered :
                    p.data.at >= rd.streamPos => pack.data.at <= p.data.at
    <3>1. /\ pack \in Packet(Data) /\ Placed(src, pack) /\ pack.len = 1
          /\ pack.data.at \in Nat
          /\ \A p \in Buffered : p \in Packet(Data)
          /\ \A p \in Buffered :
               p.data.at >= rd.streamPos => pack.data.at <= p.data.at
      BY <1>0, <1>p, <2>2, TakenPlaced DEF ReaderFind, ReaderMeta
    <3>2. rd'.streamPos = EndPos(pack)
      BY <1>c, <2>2 DEF ReaderFind, ReaderMeta, ClientState
    <3>3. EndPos(pack) = pack.data.at + 1
      BY <3>1, EndPosPlaced
    <3> QED BY <3>1, <3>2, <3>3 DEF Placed
  <2>3. CASE (ReaderFind \/ ReaderMeta) /\ Sent' = Append(Sent, pack)
    <3>1. pack \in Packet(Data) /\ pack.data.at \in Nat
          /\ rd'.streamPos = pack.data.at + 1
      BY <2>2, <2>3
    <3>2. GapFree(Append(Sent, pack), Buffered)
      <4>1. \A p \in Buffered : p \in Packet(Data)
        BY <2>2, <2>3
      <4>2. \A p \in Buffered :
              p.data.at >= rd.streamPos => pack.data.at <= p.data.at
        BY <2>2, <2>3
      <4> HIDE DEF pack
      <4> QED BY <1>0, <1>q, <3>1, <4>1, <4>2, GapFreeAppend DEF AsksNext
    <3> HIDE DEF pack
    <3>3. Sent'[Len(Sent')] = pack
      BY <1>q, <2>3, <3>1
    <3>4. AsksNext'
      BY <3>1, <3>3 DEF AsksNext
    <3> QED BY <1>S, <2>1, <2>3, <3>2, <3>4 DEF LossInv
  <2>4. CASE ReaderSendHeader /\ Sent' = <<ch.headPack>>
    <3>1. Len(Sent') = 1
      BY <2>4
    <3>2. GapFree(Sent', Buffered') /\ AsksNext'
      BY <3>1 DEF GapFree, AsksNext
    <3> QED BY <1>S, <3>2 DEF LossInv
  <2>5. CASE Sent' = Sent
    <3>1. GapFree(Sent', Buffered')
      BY <1>0, <2>1, <2>5
    <3>2. AsksNext'
      <4>1. CASE ReaderMeta
        <5>1. CASE pack.type # "DATA"
          <6>1. rd'.streamPos = 1
            BY <2>2, <4>1, <5>1
          <6> QED BY <1>n, <1>q, <2>5, <6>1 DEF AsksNext
        <5>2. CASE pack.type = "DATA"
          <6> DEFINE b == Append(rd.buf, pack)
          <6>1. /\ out' = IF Len(b) = MetaInterval THEN out \o b ELSE out
                /\ rd'.buf = IF Len(b) = MetaInterval THEN <<>> ELSE b
            BY <1>c, <4>1, <5>2 DEF ReaderMeta, ClientState
          <6>2. out \in Seq(Packet(Data)) /\ b \in Seq(Packet(Data))
                /\ Len(b) = Len(rd.buf) + 1
            <7>1. pack \in Packet(Data)
              BY <2>2, <4>1
            <7>2. rd.buf \in Seq(Packet(Data)) /\ out \in Seq(Packet(Data))
              BY <1>0, <1>c, TypeParts DEF ClientState
            <7> HIDE DEF pack
            <7> QED BY <7>1, <7>2
          <6> HIDE DEF b
          <6>3. Len(out \o b) = Len(out) + Len(b) /\ Len(<<>>) = 0
            BY <6>2
          <6>4. Len(out') + Len(rd'.buf) = Len(out) + Len(b)
            BY <1>q, <6>1, <6>2, <6>3
          <6> QED BY <1>q, <1>r, <2>5, <6>2, <6>4
        <5> QED BY <5>1, <5>2
      <4>2. CASE ReaderFind
        <5>1. rd.kind # "meta" /\ rd.buf = <<>> /\ Serving
              /\ (rd.skip => Len(out) = 1)
          BY <1>0, <4>2 DEF ReaderFind, PhaseOK, Serving
        <5>2. CASE Len(out) = 1
          <6>1. Len(Sent) = 1
            BY <1>q, <5>1, <5>2
          <6> QED BY <2>5, <6>1 DEF AsksNext
        <5>3. CASE ~rd.skip
          <6>1. out' = Append(out, pack)
            BY <4>2, <5>3 DEF ReaderFind
          <6>2. rd'.buf = <<>>
            BY <1>c, <4>2, <5>1 DEF ReaderFind, ClientState
          <6>3. Len(out') = Len(out) + 1
            <7>1. pack \in Packet(Data) /\ out \in Seq(Packet(Data))
              BY <1>0, <2>2, <4>2, TypeParts
            <7> HIDE DEF pack
            <7> QED BY <6>1, <7>1
          <6> QED BY <1>q, <1>r, <2>5, <5>1, <6>2, <6>3
        <5> QED BY <1>c, <5>1, <5>2, <5>3 DEF ClientState
      <4>3. CASE ReaderReset
        <5>1. ch.headPack.pos = 0
          BY <1>p DEF ChannelPlaced, Placed
        <5>2. rd'.streamPos = 0
          BY <1>c, <4>3, <5>1 DEF ReaderReset, ClientState
        <5> QED BY <1>n, <1>q, <2>5, <5>2 DEF AsksNext
      <4>4. CASE ReaderPosition \/ ReaderScan
        <5>1. Len(out) = 1 /\ Len(rd.buf) = 0
          BY <1>0, <4>4 DEF ReaderPosition, ReaderScan, PhaseOK
        <5>2. Len(Sent) = 1
          BY <1>q, <5>1
        <5> QED BY <2>5, <5>2 DEF AsksNext
      <4>5. CASE ReaderWait \/ ReaderSendHeader \/ ReaderKeyFrame \/ ReaderIndex
                 \/ ReaderCheck \/ ReaderNothing \/ ReaderStop
        <5>1. rd'.streamPos = rd.streamPos
          BY <1>c, <4>5 DEF ReaderWait, ReaderSendHeader, ReaderKeyFrame,
             ReaderIndex, ReaderCheck, ReaderNothing, ReaderStop, ClientState
        <5> QED BY <1>0, <2>5, <5>1 DEF AsksNext
      <4> QED BY <1>2, <4>1, <4>2, <4>3, <4>4, <4>5 DEF Reader
    <3> QED BY <1>S, <3>1, <3>2 DEF LossInv
  <2> QED BY <1>0, <1>2, <2>3, <2>4, <2>5, SentStep
<1>3. CASE UNCHANGED vars
  <2>1. Sent' = Sent /\ Buffered' = Buffered /\ rd' = rd
    BY <1>3 DEF vars, Sent, Buffered
  <2> QED BY <1>0, <1>S, <2>1 DEF LossInv, AsksNext
<1> QED BY <1>1, <1>2, <1>3 DEF Next

(* A client of any kind loses a packet only to the ring's overwriting it:  *)
(* what findPacket gives it leaves no packet out that is still buffered,   *)
(* for every ring and every interleaving with the source, restarts too,    *)
(* while no stream is longer than positions can count.                     *)
THEOREM LossOnlyByOverwriting ==
  ASSUME MaxAt < PosMod PROVE Spec => []LosesOnlyOverwritten
<1>1. NoWrap
  BY DEF NoWrap
<1>2. LossInv => LosesOnlyOverwritten
  <2> SUFFICES ASSUME LossInv PROVE LosesOnlyOverwritten
    OBVIOUS
  <2>1. TypeOK /\ GapFree(Sent, Buffered)
    BY DEF LossInv, PlaceInv, StartInv, TypeInv
  <2>2. /\ Len(Sent) >= Len(out) /\ Len(out) \in Nat /\ Len(Sent) \in Nat
        /\ \A k \in 1..Len(out) : Sent[k] = out[k]
    BY <2>1, SentType
  <2>3. \A k \in 2..(Len(out) - 1) :
          k \in 2..(Len(Sent) - 1) /\ Sent[k] = out[k] /\ Sent[k + 1] = out[k + 1]
    BY <2>2
  <2> QED BY <2>1, <2>3 DEF GapFree, LosesOnlyOverwritten
<1>3. LossInv /\ [Next]_vars => LossInv'
  BY <1>1, LossNext
<1> QED BY <1>2, <1>3, LossInit, PTL DEF Spec

-----------------------------------------------------------------------------
(* Nothing is sent twice.  During the first stream no client finds the     *)
(* index changed: none gets past waitForChannelHeader before the stream's  *)
(* restart, which counts the index, is complete.                           *)

Increasing(q) ==
  \A i, j \in 1..Len(q) : i < j => q[i].data.at < q[j].data.at
Below(q, n) == \A k \in 1..Len(q) : q[k].data.at < n

Starting == src.gen = 0 \/ (src.gen = 1 /\ src.pc # "run")

OnceOK ==
  /\ Starting => /\ ch.rawData.writePos = 0 /\ rd.pc \in {"wait", "done"}
                 /\ Len(Sent) = 0
  /\ src.gen = 0 => ch.streamIndex = 0 /\ src.pc = "run"
  /\ src.gen = 1 =>
       ch.streamIndex =
         IF src.pc = "index" \/ (src.pc = "init" /\ Order = "init_first")
         THEN 0 ELSE 1
  /\ rd.pc \in {"check", "find"} => rd.streamIndex = 1
  /\ rd.pc # "reset"
  /\ rd.pc \in {"wait", "header"} => Len(Sent) = 0
  /\ rd.pc = "position" => Below(Sent, 1)
  /\ rd.pc \notin {"wait", "header", "position"} => Below(Sent, rd.streamPos)
  /\ Increasing(Sent)

OnceInv == PlaceInv /\ (src.gen <= 1 => OnceOK)

(* A packet after all that was sent continues the sequence.                *)
LEMMA IncreasingAppend ==
  ASSUME NEW q \in Seq(Packet(Data)), NEW pack \in Packet(Data),
         Increasing(q), Below(q, pack.data.at)
  PROVE  /\ Increasing(Append(q, pack))
         /\ Below(Append(q, pack), pack.data.at + 1)
<1> DEFINE r == Append(q, pack)
<1>1. /\ Len(q) \in Nat /\ Len(r) = Len(q) + 1 /\ r[Len(q) + 1] = pack
      /\ \A k \in 1..Len(q) : r[k] = q[k]
  OBVIOUS
<1>2. pack.data.at \in Nat /\ \A k \in 1..Len(q) : q[k].data.at \in Nat
  BY PacketFields
<1> HIDE DEF r
<1>3. Below(r, pack.data.at + 1)
  <2> SUFFICES ASSUME NEW k \in 1..Len(r)
               PROVE  r[k].data.at < pack.data.at + 1
    BY DEF Below
  <2>1. CASE k \in 1..Len(q)
    BY <1>1, <1>2, <2>1 DEF Below
  <2>2. CASE k = Len(q) + 1
    BY <1>1, <1>2, <2>2
  <2> QED BY <1>1, <2>1, <2>2
<1>4. Increasing(r)
  <2> SUFFICES ASSUME NEW i \in 1..Len(r), NEW j \in 1..Len(r), i < j
               PROVE  r[i].data.at < r[j].data.at
    BY DEF Increasing
  <2>1. i \in 1..Len(q) /\ r[i] = q[i]
    BY <1>1
  <2>2. CASE j \in 1..Len(q)
    BY <1>1, <2>1, <2>2 DEF Increasing
  <2>3. CASE j = Len(q) + 1
    BY <1>1, <2>1, <2>3 DEF Below
  <2> QED BY <1>1, <2>2, <2>3
<1> QED BY <1>3, <1>4 DEF r

(* Nothing has been sent at first. *)
LEMMA OnceInit == Init => OnceInv
<1> SUFFICES ASSUME Init PROVE OnceInv
  OBVIOUS
<1>1. PlaceInv /\ TypeOK
  BY PlaceInit DEF PlaceInv, StartInv, TypeInv
<1>2. Len(Sent) = 0
  <2>1. Len(out) = 0 /\ Len(rd.buf) = 0
    BY DEF Init
  <2> QED BY <1>1, <2>1, SentType
<1>3. /\ ch.rawData.writePos = 0 /\ rd.pc = "wait" /\ ch.streamIndex = 0
      /\ src.gen = 0 /\ src.pc = "run"
  BY DEF Init, NewBuffer
<1> QED BY <1>1, <1>2, <1>3 DEF OnceInv, OnceOK, Increasing, Below, Starting

(* The source counts the index once before the first stream can be read. *)
LEMMA OnceSource ==
  ASSUME OnceInv, Source, src'.gen <= 1
  PROVE  OnceOK'
<1>0. TypeOK /\ PlaceOK
  BY DEF OnceInv, PlaceInv, StartInv, TypeInv
<1>c. ch \in ChannelState /\ src \in SourceState
  BY <1>0, TypeParts
<1>f. src.gen \in Nat /\ ch.streamIndex \in Nat
  BY <1>c, MaxGenAssumption DEF SourceState, ChannelState
<1>1. rd' = rd /\ Sent' = Sent
  BY DEF Sent, Source, SourceData, SourceRestart, SourceInit,
         SourceIndex, SourceHead, SourceWriteHead
<1>2. src.gen <= 1 => OnceOK
  BY DEF OnceInv
<1>3. ASSUME OnceOK,
             Starting' => Starting /\ ch'.rawData.writePos = 0,
             src'.gen = 0 => ch'.streamIndex = 0 /\ src'.pc = "run",
             src'.gen = 1 =>
               ch'.streamIndex =
                 IF src'.pc = "index" \/ (src'.pc = "init" /\ Order = "init_first")
                 THEN 0 ELSE 1
      PROVE  OnceOK'
  BY <1>1, <1>3 DEF OnceOK
<1>4. CASE SourceData
  <2>1. src'.gen = src.gen /\ src'.pc = "run" /\ src.pc = "run" /\ src.gen > 0
    BY <1>c, <1>4 DEF SourceData, SourceState
  <2>2. ch'.streamIndex = ch.streamIndex
    BY <1>c, <1>4 DEF SourceData, ChannelState
  <2> QED BY <1>2, <1>3, <1>f, <2>1, <2>2 DEF OnceOK, Starting
<1>5. CASE SourceRestart
  <2>1. /\ src.pc = "run" /\ src'.gen = src.gen + 1
        /\ src'.pc = IF Order = "init_first" THEN "init" ELSE "index"
    BY <1>5 DEF SourceRestart
  <2>2. src.gen = 0 /\ src'.gen = 1
    BY <1>f, <2>1
  <2>3. ch'.streamIndex = ch.streamIndex /\ ch'.rawData = ch.rawData
    <3>1. CASE Order = "init_first"
      <4> DEFINE nh == [ch.headPack EXCEPT !.data = HeadOf(src.gen + 1).data]
      <4>1. ch' = [ch EXCEPT !.headPack = nh]
        BY <1>5, <1>c, <3>1 DEF SourceRestart, ChannelState
      <4> HIDE DEF nh
      <4> QED BY <1>c, <4>1 DEF ChannelState
    <3>2. CASE Order # "init_first"
      BY <1>5, <3>2 DEF SourceRestart
    <3> QED BY <3>1, <3>2
  <2>4. OnceOK
    BY <1>2, <2>2
  <2>5. ch.streamIndex = 0 /\ ch.rawData.writePos = 0 /\ Starting
    BY <2>2, <2>4 DEF OnceOK, Starting
  <2>6. src'.pc = "index" \/ (src'.pc = "init" /\ Order = "init_first")
    BY <2>1
  <2> QED BY <1>3, <2>2, <2>3, <2>4, <2>5, <2>6
<1>6. CASE SourceInit
  <2>1. /\ src.pc = "init" /\ src'.gen = src.gen
        /\ src'.pc = IF Order = "init_first" THEN "index" ELSE "head"
    BY <1>6, <1>c DEF SourceInit, Goto, SourceState
  <2>2. ch'.streamIndex = ch.streamIndex /\ ch'.rawData = InitBuffer(ch.rawData)
    BY <1>6, <1>c DEF SourceInit, ChannelState
  <2>3. ch'.rawData.writePos = 0
    BY <2>2 DEF InitBuffer
  <2>4. OnceOK
    BY <1>2, <2>1
  <2> QED BY <1>3, <2>1, <2>2, <2>3, <2>4 DEF OnceOK, Starting
<1>7. CASE SourceIndex
  <2>1. /\ src.pc = "index" /\ src'.gen = src.gen
        /\ src'.pc = IF Order = "init_first" THEN "head" ELSE "init"
    BY <1>7, <1>c DEF SourceIndex, Goto, SourceState
  <2>2. ch'.streamIndex = ch.streamIndex + 1 /\ ch'.rawData = ch.rawData
    BY <1>7, <1>c DEF SourceIndex, ChannelState
  <2>3. OnceOK
    BY <1>2, <2>1
  <2>4. src.gen = 1 => ch'.streamIndex = 1
    BY <2>1, <2>2, <2>3 DEF OnceOK
  <2>5. src.gen # 0
    BY <2>1, <2>3 DEF OnceOK
  <2>6. ~(src'.pc = "index" \/ (src'.pc = "init" /\ Order = "init_first"))
    BY <2>1
  <2>7. Starting' => Starting /\ ch'.rawData.writePos = 0
    BY <2>1, <2>2, <2>3 DEF OnceOK, Starting
  <2> QED BY <1>3, <2>1, <2>3, <2>4, <2>5, <2>6, <2>7
<1>8. CASE SourceHead
  <2>1. src.pc = "head" /\ src'.gen = src.gen /\ src'.pc = "write"
    BY <1>8, <1>c DEF SourceHead, Goto, SourceState
  <2>2. ch'.streamIndex = ch.streamIndex /\ ch'.rawData = ch.rawData
    BY <1>8, <1>c DEF SourceHead, ChannelState
  <2>3. OnceOK
    BY <1>2, <2>1
  <2> QED BY <1>3, <2>1, <2>2, <2>3 DEF OnceOK, Starting
<1>9. CASE SourceWriteHead
  <2>1. src.pc = "write" /\ src'.gen = src.gen /\ src'.pc = "run"
    BY <1>9, <1>c DEF SourceWriteHead, SourceState
  <2>2. ch'.streamIndex = ch.streamIndex
    BY <1>9, <1>c DEF SourceWriteHead, ChannelState
  <2>3. OnceOK
    BY <1>2, <2>1
  <2>4. src.gen # 0
    BY <2>1, <2>3 DEF OnceOK
  <2> QED BY <1>3, <2>1, <2>2, <2>3, <2>4 DEF OnceOK, Starting
<1> QED BY <1>4, <1>5, <1>6, <1>7, <1>8, <1>9 DEF Source

(* A client is sent what comes after all it has. *)
LEMMA OnceReader ==
  ASSUME NoWrap, OnceInv, Reader \/ ReaderStop, src.gen <= 1
  PROVE  OnceOK'
<1>0. PlaceInv /\ StartInv /\ TypeOK /\ PlaceOK /\ PhaseOK /\ OnceOK
  BY DEF OnceInv, PlaceInv, StartInv, TypeInv
<1>c. ch \in ChannelState /\ src \in SourceState /\ rd \in ClientState
      /\ ch.headPack \in Packet(Data) /\ ch.rawData \in Buffer(Data)
      /\ rd.streamPos \in Nat /\ src.gen \in Nat
  BY <1>0, TypeParts, PosModAssumption, MaxGenAssumption
     DEF ChannelState, SourceState, ClientState
<1>p. ChannelPlaced(ch, src)
  BY <1>0 DEF PlaceOK
<1>q. Sent \in Seq(Packet(Data)) /\ Len(Sent) \in Nat
      /\ \A k \in 1..Len(Sent) : Sent[k].data.at \in Nat
  <2>1. Sent \in Seq(Packet(Data)) /\ Len(Sent) \in Nat
    BY <1>0, SentType
  <2>2. \A k \in 1..Len(Sent) : Sent[k] \in Packet(Data)
    BY <2>1
  <2> QED BY <2>1, <2>2, PacketFields
<1>1. ch' = ch /\ src' = src
  BY DEF Reader, ReaderStop, ReaderWait, ReaderSendHeader,
     ReaderPosition, ReaderKeyFrame, ReaderScan, ReaderIndex, ReaderCheck,
     ReaderReset, ReaderMeta, ReaderFind, ReaderNothing
<1>2. ASSUME Starting' => rd'.pc \in {"wait", "done"} /\ Len(Sent') = 0,
             rd'.pc \in {"check", "find"} => rd'.streamIndex = 1,
             rd'.pc # "reset",
             rd'.pc \in {"wait", "header"} => Len(Sent') = 0,
             rd'.pc = "position" => Below(Sent', 1),
             rd'.pc \notin {"wait", "header", "position"}
                => Below(Sent', rd'.streamPos),
             Increasing(Sent')
      PROVE  OnceOK'
  BY <1>0, <1>1, <1>2 DEF OnceOK, Starting
<1>s. (Starting' <=> Starting) /\ (rd.pc \notin {"wait", "done"} => ~Starting)
  BY <1>0, <1>1 DEF Starting, OnceOK
<1>i. ~Starting => ch.streamIndex = 1
  BY <1>0, <1>c DEF Starting, OnceOK
<1>e. Len(Sent) = 0 => \A n : Below(Sent, n)
  BY DEF Below
<1>3. CASE ReaderWait
  <2>1. rd'.pc \in {"meta", "header"} /\ ch.rawData.writePos > 0
        /\ rd.pc = "wait"
    BY <1>3, <1>c DEF ReaderWait, ClientState
  <2>2. ~Starting
    BY <1>0, <2>1 DEF OnceOK
  <2>3. Sent' = Sent
    BY <1>3, <1>c DEF ReaderWait, Sent, ClientState
  <2>4. Len(Sent) = 0 /\ Increasing(Sent)
    BY <1>0, <2>1 DEF OnceOK
  <2> QED BY <1>2, <1>s, <1>e, <2>1, <2>2, <2>3, <2>4
<1>4. CASE ReaderSendHeader
  <2>1. rd'.pc = "position" /\ rd.pc = "header" /\ rd.kind # "meta"
    BY <1>0, <1>4, <1>c DEF ReaderSendHeader, ClientState, PhaseOK
  <2>2. Len(Sent) = 0 /\ Increasing(Sent)
    BY <1>0, <2>1 DEF OnceOK
  <2>3. Sent' = <<ch.headPack>>
    <3>1. out = <<>> /\ rd.buf = <<>>
      BY <1>0, <2>1 DEF PhaseOK
    <3>2. out' = <<ch.headPack>>
      BY <1>4, <3>1 DEF ReaderSendHeader
    <3>3. rd'.buf = <<>>
      BY <1>4, <1>c, <3>1 DEF ReaderSendHeader, ClientState
    <3>4. Sent' = <<ch.headPack>> \o <<>>
      BY <3>2, <3>3 DEF Sent
    <3>5. <<ch.headPack>> \in Seq(Packet(Data))
      BY <1>c
    <3> QED BY <3>4, <3>5, ConcatEmptySeq
  <2>4. ch.headPack.data.at = 0
    BY <1>p DEF ChannelPlaced
  <2>5. Below(Sent', 1) /\ Increasing(Sent')
    BY <2>3, <2>4 DEF Below, Increasing
  <2> QED BY <1>2, <1>s, <2>1, <2>5
<1>5. CASE ReaderPosition
  <2>1. rd.pc = "position" /\ rd'.pc \in {"keyframe", "index"} /\ Sent' = Sent
        /\ rd'.streamPos = EndPos(ch.headPack)
    BY <1>5, <1>c DEF ReaderPosition, ClientState, Sent
  <2>2. ch.headPack.len = 1
    BY <1>0, <2>1 DEF PlaceOK, HeadReady
  <2>3. EndPos(ch.headPack) = 1
    BY <1>c, <1>p, <2>2, EndPosPlaced DEF ChannelPlaced
  <2>4. Below(Sent, 1) /\ Increasing(Sent)
    BY <1>0, <2>1 DEF OnceOK
  <2> QED BY <1>2, <1>s, <2>1, <2>3, <2>4
<1>6. CASE ReaderKeyFrame
  <2>1. rd.pc = "keyframe" /\ rd'.pc \in {"scan", "index"} /\ Sent' = Sent
        /\ rd'.streamPos = rd.streamPos
    BY <1>6, <1>c DEF ReaderKeyFrame, ClientState, Sent
  <2>2. Below(Sent, rd.streamPos) /\ Increasing(Sent)
    BY <1>0, <2>1 DEF OnceOK
  <2> QED BY <1>2, <1>s, <2>1, <2>2
<1>7. CASE ReaderScan
  <2>1. rd.pc = "scan" /\ rd'.pc = "index" /\ Sent' = Sent
        /\ (rd'.streamPos = rd.streamPos
            \/ (rd'.streamPos = ScanNonContinuation(ch.rawData)
                /\ ScanNonContinuation(ch.rawData) > rd.streamPos))
    BY <1>7, <1>c DEF ReaderScan, ClientState, Sent
  <2>2. Below(Sent, rd.streamPos) /\ Increasing(Sent)
    BY <1>0, <2>1 DEF OnceOK
  <2>3. ScanNonContinuation(ch.rawData) \in Nat
    BY <1>c, ScanType, PosModAssumption
  <2>4. Below(Sent, rd'.streamPos)
    BY <1>c, <1>q, <2>1, <2>2, <2>3 DEF Below
  <2> QED BY <1>2, <1>s, <2>1, <2>2, <2>4
<1>8. CASE ReaderIndex
  <2>1. rd.pc = "index" /\ rd'.pc = "check" /\ Sent' = Sent
        /\ rd'.streamPos = rd.streamPos /\ rd'.streamIndex = ch.streamIndex
    BY <1>8, <1>c DEF ReaderIndex, ClientState, Sent
  <2>2. Below(Sent, rd.streamPos) /\ Increasing(Sent)
    BY <1>0, <2>1 DEF OnceOK
  <2> QED BY <1>2, <1>s, <1>i, <2>1, <2>2
<1>9. CASE ReaderCheck
  <2>1. rd.pc = "check" /\ rd.streamIndex = 1 /\ ch.streamIndex = 1
    <3>1. rd.pc = "check"
      BY <1>9 DEF ReaderCheck
    <3> QED BY <1>0, <1>s, <1>i, <3>1 DEF OnceOK
  <2>2. rd'.pc = "find" /\ Sent' = Sent /\ rd'.streamPos = rd.streamPos
        /\ rd'.streamIndex = 1
    BY <1>9, <1>c, <2>1 DEF ReaderCheck, ClientState, Sent
  <2>3. Below(Sent, rd.streamPos) /\ Increasing(Sent)
    BY <1>0, <2>1 DEF OnceOK
  <2> QED BY <1>2, <1>s, <2>1, <2>2, <2>3
<1>10. CASE ReaderReset
  BY <1>0, <1>10 DEF ReaderReset, OnceOK
<1>11. CASE ReaderMeta \/ ReaderFind
  <2> DEFINE pack == FindPacket(ch.rawData, rd.streamPos)
  <2>1. /\ pack \in Packet(Data) /\ Placed(src, pack) /\ pack.len = 1
        /\ pack.data.at \in Nat /\ pack.data.at >= rd.streamPos
    BY <1>0, <1>p, <1>11, TakenPlaced DEF ReaderFind, ReaderMeta
  <2>2. rd'.streamPos = EndPos(pack) /\ rd'.pc = rd.pc
        /\ rd'.streamIndex = rd.streamIndex /\ rd.pc \in {"meta", "find"}
    BY <1>11, <1>c DEF ReaderFind, ReaderMeta, ClientState
  <2>3. EndPos(pack) = pack.data.at + 1
    BY <2>1, EndPosPlaced
  <2>4. Sent' = Sent \/ Sent' = Append(Sent, pack)
    <3>1. ~ReaderSendHeader
      BY <1>11 DEF ReaderFind, ReaderMeta, ReaderSendHeader
    <3> QED BY <1>0, <1>11, <3>1, SentStep DEF Reader
  <2> HIDE DEF pack
  <2>5. Below(Sent, rd.streamPos) /\ Increasing(Sent)
    BY <1>0, <2>2 DEF OnceOK
  <2>6. Below(Sent, pack.data.at) /\ Below(Sent, pack.data.at + 1)
    BY <1>c, <1>q, <2>1, <2>5 DEF Below
  <2>7. /\ Increasing(Append(Sent, pack))
        /\ Below(Append(Sent, pack), pack.data.at + 1)
    BY <1>q, <2>1, <2>5, <2>6, IncreasingAppend
  <2>8. Increasing(Sent') /\ Below(Sent', rd'.streamPos)
    BY <2>2, <2>3, <2>4, <2>5, <2>6, <2>7
  <2>9. rd.pc = "find" => rd.streamIndex = 1
    BY <1>0 DEF OnceOK
  <2> QED BY <1>2, <1>s, <2>2, <2>8, <2>9
<1>12. CASE ReaderNothing
  <2>1. rd.pc = "find" /\ rd'.pc = "check" /\ Sent' = Sent
        /\ rd'.streamPos = rd.streamPos /\ rd'.streamIndex = rd.streamIndex
    BY <1>12, <1>c DEF ReaderNothing, ClientState, Sent
  <2>2. Below(Sent, rd.streamPos) /\ Increasing(Sent) /\ rd.streamIndex = 1
    BY <1>0, <2>1 DEF OnceOK
  <2> QED BY <1>2, <1>s, <2>1, <2>2
<1>13. CASE ReaderStop
  <2>1. rd.pc \in {"wait", "header", "meta", "check", "find"} /\ rd'.pc = "done"
        /\ Sent' = Sent /\ rd'.streamPos = rd.streamPos
    BY <1>13, <1>c DEF ReaderStop, ClientState, Sent
  <2>2. Increasing(Sent) /\ (Starting => Len(Sent) = 0)
    BY <1>0 DEF OnceOK
  <2>3. Below(Sent, rd.streamPos)
    BY <1>0, <1>e, <2>1 DEF OnceOK
  <2> QED BY <1>2, <1>s, <2>1, <2>2, <2>3
<1> QED BY <1>3, <1>4, <1>5, <1>6, <1>7, <1>8, <1>9, <1>10, <1>11, <1>12, <1>13
        DEF Reader

(* No step sends a packet of the first stream twice. *)
LEMMA OnceNext == ASSUME NoWrap PROVE OnceInv /\ [Next]_vars => OnceInv'
<1> SUFFICES ASSUME OnceInv, [Next]_vars PROVE OnceInv'
  OBVIOUS
<1>0. PlaceInv /\ TypeOK
  BY DEF OnceInv, PlaceInv, StartInv, TypeInv
<1>S. PlaceInv'
  BY <1>0, PlaceNext
<1>1. CASE Source
  BY <1>1, <1>S, OnceSource DEF OnceInv
<1>2. CASE Reader \/ ReaderStop
  <2>1. src' = src
    BY <1>2 DEF Reader, ReaderStop, ReaderWait, ReaderSendHeader,
       ReaderPosition, ReaderKeyFrame, ReaderScan, ReaderIndex, ReaderCheck,
       ReaderReset, ReaderMeta, ReaderFind, ReaderNothing
  <2> QED BY <1>2, <1>S, <2>1, OnceReader DEF OnceInv
<1>3. CASE UNCHANGED vars
  <2>1. src' = src /\ rd' = rd /\ ch' = ch /\ Sent' = Sent
    BY <1>3 DEF vars, Sent
  <2> QED BY <1>S, <2>1 DEF OnceInv, OnceOK, Starting
<1> QED BY <1>1, <1>2, <1>3 DEF Next

(* With startPlayingFromKeyFrame the first data packet that sendRawChannel *)
(* sends is no continuation, however slow the player is, while the stream  *)
(* has not been restarted and is no longer than positions can count.       *)
(* After a restart a continuation can be the first data, but only behind a *)
(* header that the player has found in the ring.                           *)
THEOREM PlayerStartsAtKeyFrame ==
  ASSUME MaxAt < PosMod PROVE Spec => []StartsAtKeyFrame
<1>1. NoWrap
  BY DEF NoWrap
<1>2. OnceInv => StartsAtKeyFrame
  <2> SUFFICES ASSUME OnceInv, KeyFrames, rd.kind = "raw",
                      NEW k \in 2..Len(out), FirstData(k), out[k].cont
               PROVE  src.gen > 1 /\ k > 2
    BY DEF StartsAtKeyFrame
  <2>1. PlaceOK /\ StartOK /\ TypeOK
    BY DEF OnceInv, PlaceInv, StartInv, TypeInv
  <2>2. /\ Len(Sent) >= Len(out) /\ Len(out) \in Nat /\ Len(Sent) \in Nat
        /\ \A j \in 1..Len(out) : Sent[j] = out[j]
    BY <2>1, SentType
  <2>3. ~out[2].cont
    BY <2>1, <2>2 DEF StartOK
  <2>4. k > 2
    BY <2>2, <2>3
  <2>5. ASSUME src.gen <= 1 PROVE FALSE
    <3>1. Increasing(Sent)
      BY <2>5 DEF OnceInv, OnceOK
    <3>2. Sent[2].data.at = 0
      BY <2>1, <2>2, <2>4 DEF FirstData, HeadFirst, PlaceOK
    <3>3. Sent[1].data.at < Sent[2].data.at
      BY <2>2, <2>4, <3>1 DEF Increasing
    <3>4. Sent[1].data.at \in Nat
      BY <2>1, <2>2, <2>4, PacketFields, SentType
    <3> QED BY <3>2, <3>3, <3>4
  <2>6. src.gen \in Nat
    BY <2>1, MaxGenAssumption DEF TypeOK
  <2> QED BY <2>4, <2>5, <2>6
<1>3. OnceInv /\ [Next]_vars => OnceInv'
  BY <1>1, OnceNext
<1> QED BY <1>2, <1>3, OnceInit, PTL DEF Spec

(* A client of any kind is sent the packets of the stream in order and     *)
(* none twice, for every ring and every interleaving with the source and   *)
(* with the start of the stream, while no stream is longer than positions  *)
(* can count.                                                              *)
THEOREM NoPacketTwice ==
  ASSUME MaxAt < PosMod PROVE Spec => []NeverRepeats
<1>1. NoWrap
  BY DEF NoWrap
<1>2. OnceInv => NeverRepeats
  <2> SUFFICES ASSUME OnceInv, src.gen <= 1,
                      NEW i \in 1..Len(out), NEW j \in 1..Len(out), i < j
               PROVE  out[i].data.at < out[j].data.at
    BY DEF NeverRepeats
  <2>1. TypeOK /\ Increasing(Sent)
    BY DEF OnceInv, OnceOK, PlaceInv, StartInv, TypeInv
  <2>2. /\ Len(Sent) >= Len(out) /\ Len(out) \in Nat /\ Len(Sent) \in Nat
        /\ \A k \in 1..Len(out) : Sent[k] = out[k]
    BY <2>1, SentType
  <2>3. i \in 1..Len(Sent) /\ j \in 1..Len(Sent)
    BY <2>2
  <2> QED BY <2>1, <2>2, <2>3 DEF Increasing
<1>3. OnceInv /\ [Next]_vars => OnceInv'
  BY <1>1, OnceNext
<1> QED BY <1>2, <1>3, OnceInit, PTL DEF Spec
=============================================================================
