--------------------------- MODULE StreamDelivery ---------------------------
(***************************************************************************)
(* How the stream of a channel reaches one client.                         *)
(*                                                                         *)
(* The channel's source thread (PCPStream::readPktAtoms for a relayed      *)
(* channel, FLVStream, MKVStream, MP4Stream for a broadcast one) writes    *)
(* packets into Channel::rawData; the thread of every client reads them    *)
(* from there at a position of its own: Servent::sendRawChannel for a      *)
(* player ("raw"), Servent::sendRawMetaChannel for a player of MP3 that    *)
(* wants titles in between ("meta"), Servent::sendPCPChannel for a         *)
(* relaying host ("pcp").                                                  *)
(* Only findPacket and writePacket take a lock both sides know, the one of *)
(* rawData: streamIndex and headPack are read while the source changes     *)
(* them, and a restart of the stream (a head packet at position 0) is a    *)
(* sequence of steps a client can see in between.  Clients do not affect   *)
(* each other or the source, so one of them is enough.                     *)
(*                                                                         *)
(* A packet's data says which stream it is of (gen) and where it really is *)
(* in it (at); pos is what the program knows of that, at modulo PosMod.    *)
(* An assignment of headPack is one step, or one for data and one for the  *)
(* rest where the code fills in data first.                                *)
(***************************************************************************)
EXTENDS ChanPacketBuffer, Sequences

CONSTANTS
  Order,       \* "index_first" (pcp.cpp, mkv.cpp), "init_first" (flv.cpp, mp4.cpp)
  KeyFrames,   \* the flag startPlayingFromKeyFrame
  Kinds,       \* the clients to consider, among "raw", "meta" and "pcp"
  MetaInterval,\* icyMetaInterval, in packets
  MaxGap,      \* bound: how much an upstream host may skip at a time
  MaxGen,      \* bound: the number of streams, one after the other
  MaxAt        \* bound: length of a stream

ASSUME OrderAssumption == Order \in {"index_first", "init_first"}
ASSUME KeyFramesAssumption == KeyFrames \in BOOLEAN
ASSUME KindsAssumption == Kinds \subseteq {"raw", "meta", "pcp"}
ASSUME MetaIntervalAssumption == MetaInterval \in Nat \ {0}
ASSUME MaxGapAssumption == MaxGap \in Nat
ASSUME MaxGenAssumption == MaxGen \in Nat
ASSUME MaxAtAssumption == MaxAt \in Nat

VARIABLES
  ch,   \* streamIndex, headPack and rawData of the channel
  src,  \* the source: its next step, the stream and the place it is at
  rd,   \* the client's thread: its next step, kind and local variables
  out   \* history: the packets sent to the client

vars == <<ch, src, rd, out>>

Data == [gen : 0..MaxGen, at : 0..MaxAt]
NoData == [gen |-> 0, at |-> 0]

StreamPacket(type, gen, at, cont) ==
  [type |-> type, len |-> 1, pos |-> at % PosMod, sync |-> 0, cont |-> cont,
   data |-> [gen |-> gen, at |-> at]]

HeadOf(gen) == StreamPacket("HEAD", gen, 0, FALSE)
EndPos(pack) == (pack.pos + pack.len) % PosMod

Init ==
  /\ ch = [streamIndex |-> 0, headPack |-> InitPacket(NoData),
           rawData |-> NewBuffer(NoData)]
  /\ src = [pc |-> "run", gen |-> 0, at |-> 0]
  /\ rd \in [pc : {"wait"}, kind : Kinds, streamIndex : {0}, streamPos : {0},
             skip : {FALSE}, buf : {<<>>}]
  /\ out = <<>>

-----------------------------------------------------------------------------
(* The source.                                                             *)

Goto(pc) == src' = [src EXCEPT !.pc = pc]

(* Mutant of Written: readPos is left behind.                              *)
Written_Queue(pack) ==
  IF WillSkip(ch.rawData) THEN ch.rawData
  ELSE WriteLocked(ch.rawData, pack, FALSE)

(* rawData.writePacket(pack, true): readPos follows writePos, so willSkip  *)
(* is never true and no packet is dropped.                                 *)
Written(pack) ==
  IF WillSkip(ch.rawData) THEN ch.rawData
  ELSE WriteLocked(ch.rawData, pack, TRUE)

(* A data packet.  A host that relays the channel may have missed some.    *)
SourceData ==
  /\ src.pc = "run" /\ src.gen > 0
  /\ \E gap \in 0..MaxGap, cont \in BOOLEAN :
       /\ src.at + gap < MaxAt
       /\ ch' = [ch EXCEPT !.rawData =
                   Written(StreamPacket("DATA", src.gen, src.at + gap, cont))]
       /\ src' = [src EXCEPT !.at = src.at + gap + 1]
  /\ UNCHANGED <<rd, out>>

(* A head packet at position 0 starts a new stream.  With "init_first" the *)
(* bytes of the header go to their place before anything else.             *)
SourceRestart ==
  /\ src.pc = "run" /\ src.gen < MaxGen /\ MaxAt > 0
  /\ src' = [pc |-> IF Order = "init_first" THEN "init" ELSE "index",
             gen |-> src.gen + 1, at |-> 0]
  /\ ch' = IF Order = "init_first"
           THEN [ch EXCEPT !.headPack.data = HeadOf(src.gen + 1).data]
           ELSE ch
  /\ UNCHANGED <<rd, out>>

SourceInit ==
  /\ src.pc = "init"
  /\ ch' = [ch EXCEPT !.rawData = InitBuffer(ch.rawData)]
  /\ Goto(IF Order = "init_first" THEN "index" ELSE "head")
  /\ UNCHANGED <<rd, out>>

(* Mutant of SourceIndex: the clients are not told.                        *)
SourceIndex_NotCounted ==
  /\ src.pc = "index"
  /\ Goto(IF Order = "init_first" THEN "head" ELSE "init")
  /\ UNCHANGED <<ch, rd, out>>

SourceIndex ==
  /\ src.pc = "index"
  /\ ch' = [ch EXCEPT !.streamIndex = ch.streamIndex + 1]
  /\ Goto(IF Order = "init_first" THEN "head" ELSE "init")
  /\ UNCHANGED <<rd, out>>

SourceHead ==
  /\ src.pc = "head"
  /\ ch' = [ch EXCEPT !.headPack = HeadOf(src.gen)]
  /\ Goto("write")
  /\ UNCHANGED <<rd, out>>

SourceWriteHead ==
  /\ src.pc = "write"
  /\ ch' = [ch EXCEPT !.rawData = Written(ch.headPack)]
  /\ src' = [src EXCEPT !.pc = "run", !.at = 1]
  /\ UNCHANGED <<rd, out>>

Source == SourceData \/ SourceRestart \/ SourceInit \/ SourceIndex
          \/ SourceHead \/ SourceWriteHead

-----------------------------------------------------------------------------
(* The client's thread.                                                    *)

(* waitForChannelHeader.                                                   *)
ReaderWait ==
  /\ rd.pc = "wait" /\ ch.rawData.writePos > 0
  /\ rd' = [rd EXCEPT !.pc = IF rd.kind = "meta" THEN "meta" ELSE "header"]
  /\ UNCHANGED <<ch, src, out>>

(* The header is sent, and then read again for its position.               *)
ReaderSendHeader ==
  /\ rd.pc = "header"
  /\ out' = Append(out, ch.headPack)
  /\ rd' = [rd EXCEPT !.pc = "position"]
  /\ UNCHANGED <<ch, src>>

ReaderPosition ==
  /\ rd.pc = "position"
  /\ rd' = [rd EXCEPT !.streamPos = EndPos(ch.headPack),
                      !.pc = IF rd.kind = "raw" THEN "keyframe" ELSE "index"]
  /\ UNCHANGED <<ch, src, out>>

(* getLatestNonContinuationPos looks at writePos before it takes the lock; *)
(* the scan does not look again, and finds an old slot after init.         *)
ReaderKeyFrame ==
  /\ rd.pc = "keyframe"
  /\ rd' = [rd EXCEPT !.pc = IF ch.rawData.writePos = 0 THEN "index" ELSE "scan"]
  /\ UNCHANGED <<ch, src, out>>

ReaderScan ==
  /\ rd.pc = "scan"
  /\ LET ncpos == ScanNonContinuation(ch.rawData)
     IN rd' = [rd EXCEPT !.pc = "index",
                         !.streamPos = IF ncpos > @ THEN ncpos ELSE @]
  /\ UNCHANGED <<ch, src, out>>

ReaderIndex ==
  /\ rd.pc = "index"
  /\ rd' = [rd EXCEPT !.pc = "check", !.streamIndex = ch.streamIndex,
                      !.skip = KeyFrames /\ rd.kind = "raw"]
  /\ UNCHANGED <<ch, src, out>>

(* The loop: has the stream been restarted?                                *)
ReaderCheck ==
  /\ rd.pc = "check"
  /\ rd' = IF rd.streamIndex = ch.streamIndex
           THEN [rd EXCEPT !.pc = "find"]
           ELSE [rd EXCEPT !.pc = "reset", !.streamIndex = ch.streamIndex]
  /\ UNCHANGED <<ch, src, out>>

ReaderReset ==
  /\ rd.pc = "reset"
  /\ rd' = [rd EXCEPT !.pc = "find", !.streamPos = ch.headPack.pos]
  /\ UNCHANGED <<ch, src, out>>

(* Mutant of ReaderFind: a player may start at any packet.                 *)
ReaderFind_AnyStart ==
  /\ rd.pc = "find" /\ Found(ch.rawData, rd.streamPos)
  /\ LET pack == FindPacket(ch.rawData, rd.streamPos)
     IN /\ out' = Append(out, pack)
        /\ rd' = [rd EXCEPT !.streamPos = EndPos(pack)]
  /\ UNCHANGED <<ch, src>>

(* Mutant of ReaderFind: the position is that of the packet, not its end.  *)
ReaderFind_SamePos ==
  /\ rd.pc = "find" /\ Found(ch.rawData, rd.streamPos)
  /\ LET pack == FindPacket(ch.rawData, rd.streamPos)
         send == ~(rd.skip /\ pack.cont)
     IN /\ Len(out) < MaxAt + 2
        /\ out' = IF send THEN Append(out, pack) ELSE out
        /\ rd' = [rd EXCEPT !.streamPos = pack.pos, !.skip = rd.skip /\ ~send]
  /\ UNCHANGED <<ch, src>>

(* Every packet there is, without another look at the index.               *)
ReaderFind ==
  /\ rd.pc = "find" /\ Found(ch.rawData, rd.streamPos)
  /\ LET pack == FindPacket(ch.rawData, rd.streamPos)
         send == ~(rd.skip /\ pack.cont)
     IN /\ out' = IF send THEN Append(out, pack) ELSE out
        /\ rd' = [rd EXCEPT !.streamPos = EndPos(pack),
                            !.skip = rd.skip /\ ~send]
  /\ UNCHANGED <<ch, src>>

(* sendRawMetaChannel: no header, from wherever the ring begins; data goes *)
(* out when there are as many bytes as the player expects between two      *)
(* titles.  The stream index is not looked at.                             *)
ReaderMeta ==
  /\ rd.pc = "meta" /\ Found(ch.rawData, rd.streamPos)
  /\ LET pack == FindPacket(ch.rawData, rd.streamPos)
         buf == IF pack.type = "DATA" THEN Append(rd.buf, pack) ELSE rd.buf
         full == Len(buf) = MetaInterval
     IN /\ out' = IF full THEN out \o buf ELSE out
        /\ rd' = [rd EXCEPT !.streamPos = EndPos(pack),
                            !.buf = IF full THEN <<>> ELSE buf]
  /\ UNCHANGED <<ch, src>>

ReaderNothing ==
  /\ rd.pc = "find" /\ ~Found(ch.rawData, rd.streamPos)
  /\ rd' = [rd EXCEPT !.pc = "check"]
  /\ UNCHANGED <<ch, src, out>>

(* The client or its thread goes away, or too long nothing was written.    *)
ReaderStop ==
  /\ rd.pc \in {"wait", "header", "meta", "check", "find"}
  /\ rd' = [rd EXCEPT !.pc = "done"]
  /\ UNCHANGED <<ch, src, out>>

Reader == ReaderWait \/ ReaderSendHeader \/ ReaderPosition \/ ReaderKeyFrame
          \/ ReaderScan \/ ReaderIndex \/ ReaderCheck \/ ReaderReset
          \/ ReaderMeta \/ ReaderFind \/ ReaderNothing

Next == Source \/ Reader \/ ReaderStop
Spec == Init /\ [][Next]_vars

(* The client's thread keeps running, and the source's finishes a restart  *)
(* it has begun.  Nothing makes the source send data or a client leave.    *)
Restarting == SourceInit \/ SourceIndex \/ SourceHead \/ SourceWriteHead
FairSpec == Spec /\ WF_vars(Reader) /\ WF_vars(Restarting)

-----------------------------------------------------------------------------
(* Properties.                                                             *)

TypeOK ==
  /\ ch \in [streamIndex : Nat, headPack : Packet(Data), rawData : Buffer(Data)]
  /\ src \in [pc : {"run", "init", "index", "head", "write"},
              gen : 0..MaxGen, at : 0..MaxAt]
  /\ rd \in [pc : {"wait", "header", "position", "keyframe", "scan", "index",
                   "meta", "check", "reset", "find", "done"},
             kind : Kinds, streamIndex : Nat, streamPos : 0..(PosMod - 1),
             skip : BOOLEAN, buf : Seq(Packet(Data))]
  /\ out \in Seq(Packet(Data))

(* A client is sent the packets of a stream in order and none twice: what  *)
(* findPacket returns is at the position asked for or newer, as the        *)
(* comment above it says.  A restart may be noticed after the new stream   *)
(* has begun to be sent; it is then sent from its header again.            *)
NeverRepeats ==
  src.gen <= 1 => \A i, j \in 1..Len(out) :
                    i < j => out[i].data.at < out[j].data.at

(* A client loses a packet only when the ring has overwritten it: nothing  *)
(* between two packets it was sent one after the other is still buffered.  *)
(* Packets before the one a player starts at are left out on purpose.      *)
Buffered == {PacketAt(ch.rawData, i) : i \in Window(ch.rawData)}
LosesOnlyOverwritten ==
  \A k \in 2..(Len(out) - 1), p \in Buffered :
    ~ /\ out[k].data.gen = out[k + 1].data.gen
      /\ p.data.gen = out[k].data.gen
      /\ out[k].data.at < p.data.at /\ p.data.at < out[k + 1].data.at

(* With the flag startPlayingFromKeyFrame, the first data packet a player  *)
(* gets is no continuation, even if the packet that                        *)
(* getLatestNonContinuationPos named was overwritten before findPacket     *)
(* looked for it.  There is one exception: when the stream has been        *)
(* restarted, the player may find the new header in the ring.  That ends   *)
(* skipping, and whatever data comes next is sent.                         *)
FirstData(k) ==
  out[k].type = "DATA" /\ \A j \in 2..(k - 1) : out[j].type # "DATA"
StartsAtKeyFrame ==
  KeyFrames /\ rd.kind = "raw" =>
    \A k \in 2..Len(out) :
      FirstData(k) /\ out[k].cont => src.gen > 1 /\ k > 2

(* docs/continuation-packets.md: data packets are sent after the head      *)
(* packet of their stream.                                                 *)
HeadBeforeData ==
  \A k \in 1..Len(out) : \E j \in 1..k :
    out[j].type = "HEAD" /\ out[j].data.gen = out[k].data.gen

(* A client that keeps up gets to the end of what the source has sent.     *)
Delivered ==
  \A n \in 1..MaxAt :
    src.gen = 1 /\ src.at >= n ~> rd.pc = "done" \/ src.gen > 1 \/ rd.streamPos >= n

(* When a stream is restarted, a client that was being served is sent the  *)
(* new header, unless it is so slow that the ring has overwritten it, or   *)
(* another restart comes.                                                  *)
Serving == rd.pc \in {"check", "reset", "find"}
NewHeaderSent ==
  \A g \in 1..MaxGen :
    src.pc = "index" /\ src.gen = g /\ Serving
      ~> \/ rd.pc = "done" \/ src.gen > g
         \/ \E k \in 1..Len(out) : out[k].data = HeadOf(g).data
         \/ src.pc = "run" /\ \A p \in Buffered : p.data # HeadOf(g).data
=============================================================================
