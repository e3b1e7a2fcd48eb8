-------------------------- MODULE ChanPacketBuffer --------------------------
(***************************************************************************)
(* The ring of packets of core/common/chanpacket.{h,cpp}.  One class serves *)
(* two purposes in the program:                                            *)
(*                                                                         *)
(*   - Channel::rawData, the window of the stream that every connected     *)
(*     client reads at its own position with findPacket (one writer);      *)
(*   - PCPStream::inData and outData, FIFO queues read with readPacket.    *)
(*                                                                         *)
(* The module holds the class's operations as operators on a buffer        *)
(* record; the state machines that use a buffer say which of them happen   *)
(* under the buffer's lock, in one step, and which do not.                 *)
(*                                                                         *)
(* Packet indices (readPos, writePos, ...) count packets and are naturals: *)
(* the users of the module bound the number of packets written.  Stream    *)
(* positions (pos) count bytes, and a stream does get longer than 2^32     *)
(* bytes, so they wrap: PosMod is 2^32 in the program.                     *)
(***************************************************************************)
EXTENDS Integers, FiniteSets

CONSTANTS
  MaxPackets,     \* MAX_PACKETS, the number of slots
  NumSafePackets, \* NUM_SAFEPACKETS
  PosMod          \* stream positions are unsigned ints: arithmetic mod PosMod

ASSUME MaxPacketsAssumption == MaxPackets \in Nat \ {0}
ASSUME NumSafePacketsAssumption == NumSafePackets \in 1..MaxPackets
ASSUME PosModAssumption == PosMod \in Nat \ {0}

PacketType == {"UNKNOWN", "HEAD", "DATA", "PCP"}

(* ChanPacket; data stands for the bytes, of which only identity matters.  *)
Packet(Data) ==
  [type : PacketType, len : Nat, pos : 0..(PosMod - 1), sync : Nat,
   cont : BOOLEAN, data : Data]

(* The value a ChanPacket is constructed with.                             *)
InitPacket(data) ==
  [type |-> "UNKNOWN", len |-> 0, pos |-> 0, sync |-> 0, cont |-> FALSE,
   data |-> data]

Buffer(Data) ==
  [packets : [0..(MaxPackets - 1) -> Packet(Data)],
   lastPos : Nat, firstPos : Nat, safePos : Nat,
   readPos : Nat, writePos : Nat]

(* A newly constructed buffer; nodata fills the slots nothing was put in.  *)
NewBuffer(nodata) ==
  [packets  |-> [s \in 0..(MaxPackets - 1) |-> InitPacket(nodata)],
   lastPos  |-> 0, firstPos |-> 0, safePos |-> 0,
   readPos  |-> 0, writePos |-> 0]

(* init(): the indices are reset, the slots keep their old contents.       *)
InitBuffer(b) ==
  [packets  |-> b.packets,
   lastPos  |-> 0, firstPos |-> 0, safePos |-> 0,
   readPos  |-> 0, writePos |-> 0]

NumPending(b) == b.writePos - b.readPos

(* Mutant of WillSkip: one packet too many is let in.                      *)
WillSkip_OffByOne(b) == NumPending(b) > MaxPackets

(* Full: the next write would overwrite a packet readPacket has not read.  *)
WillSkip(b) == NumPending(b) >= MaxPackets

(* What writePacket does once it has the lock.                             *)
WriteLocked(b, pack, updateReadPos) ==
  LET w == b.writePos + 1
  IN [packets  |-> [b.packets EXCEPT
                      ![b.writePos % MaxPackets] =
                         [pack EXCEPT !.sync = b.writePos]],
      lastPos  |-> b.writePos,
      writePos |-> w,
      firstPos |-> IF w >= MaxPackets THEN w - MaxPackets ELSE 0,
      safePos  |-> IF w >= NumSafePackets THEN w - NumSafePackets ELSE 0,
      readPos  |-> IF updateReadPos THEN w ELSE b.readPos]

(* Mutant of TooFarBehind: readPacket returns overwritten slots.           *)
TooFarBehind_Unchecked(b) == FALSE

(* readPacket: the slots that may have been overwritten are not returned.  *)
TooFarBehind(b) == b.readPos < b.firstPos
PacketAt(b, i)  == b.packets[i % MaxPackets]
ReadLocked(b)   == [b EXCEPT !.readPos = b.readPos + 1]

(* The packet indices the lookups scan: none before the first write.       *)
Window(b) == IF b.writePos = 0 THEN {} ELSE b.firstPos..b.lastPos

(* findPacket: the first of the packets with the least position among      *)
(* those at or after spos; Found says whether there is one.                *)
Candidates(b, spos) == {i \in Window(b) : PacketAt(b, i).pos >= spos}
Found(b, spos)      == Candidates(b, spos) # {}

(* Mutant of FindPacket: the newest packet instead of the next one.        *)
FindPacket_Newest(b, spos) ==
  LET C == Candidates(b, spos)
  IN PacketAt(b, CHOOSE i \in C : \A j \in C : j <= i)

FindPacket(b, spos) ==
  LET C == Candidates(b, spos)
  IN PacketAt(b, CHOOSE i \in C :
       \A j \in C : \/ PacketAt(b, i).pos < PacketAt(b, j).pos
                    \/ PacketAt(b, i).pos = PacketAt(b, j).pos /\ i <= j)

(* What getLatestNonContinuationPos finds under the lock: the newest       *)
(* packet a client may start at, 0 for none.  It trusts firstPos and       *)
(* lastPos, which name slot 0 in a buffer that has just been reset.        *)
ScanNonContinuation(b) ==
  LET N == {i \in b.firstPos..b.lastPos : ~PacketAt(b, i).cont}
  IN IF N = {} THEN 0
     ELSE PacketAt(b, CHOOSE i \in N : \A j \in N : j <= i).pos
=============================================================================
