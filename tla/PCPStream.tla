----------------------------- MODULE PCPStream ------------------------------
(***************************************************************************)
(* One PCP connection (core/common/pcp.cpp, PCPStream): the thread that    *)
(* serves it and the other threads that queue packets on it.               *)
(*                                                                         *)
(* Any thread may hand a packet to sendPacket: a broadcast is copied to    *)
(* the outData of every matching connection.  writePacket first asks       *)
(* willSkip, which takes the buffer's lock and gives it back, and then     *)
(* takes the lock again to store the packet: between the two, other        *)
(* threads run.  Servent::sendPacket holds the servent's lock around both, *)
(* and Servent::kill holds it to delete the stream: the stream of a        *)
(* servent is locked.  Channel::sendPacketUp, on the connection to the     *)
(* host a channel is relayed from, holds nothing: that one is not.         *)
(*                                                                         *)
(* The connection's own thread repeats readPacket: send one queued packet, *)
(* give up if the queue is full, queue one atom from the socket in inData  *)
(* if there is one, process one packet of inData.  When it stops it        *)
(* flushes outData and the stream is deleted.                              *)
(***************************************************************************)
EXTENDS ChanPacketBuffer, Sequences

CONSTANTS
  Writers,     \* threads that broadcast packets
  Data,        \* contents of packets, of which identity is all that counts
  NoData,      \* the contents of a slot never written
  MaxAccepted, \* bound: packets ever queued for sending
  MaxReceived  \* bound: atoms ever received

ASSUME WritersAssumption == IsFiniteSet(Writers) /\ Writers # {}
ASSUME NoDataAssumption == NoData \notin Data
ASSUME BoundsAssumption == MaxAccepted \in Nat /\ MaxReceived \in Nat

VARIABLES
  locked,    \* whose stream it is: do its writers hold a servent's lock?
  outData,   \* packets to send
  inData,    \* packets received and not yet processed
  wpc,       \* where each writer is: "idle", or "checked" past willSkip
  wpack,     \* the packet each writer is about to store
  rpc,       \* the next step of the connection's thread
  accepted,  \* history: contents sendPacket answered true for, in order
  taken,     \* history: contents taken from outData to be sent, in order
  received,  \* history: contents of the atoms read from the socket
  processed  \* history: contents handed to procAtom

vars == <<locked, outData, inData, wpc, wpack, rpc, accepted, taken,
          received, processed>>

writerVars == <<locked, wpc, wpack, accepted>>
inVars == <<inData, received, processed>>

ReaderStep == {"send", "skip", "poll", "proc", "flush", "closed"}

(* PCP packets have no position in the stream.                             *)
PCPPacket(d) ==
  [type |-> "PCP", len |-> 1, pos |-> 0, sync |-> 0, cont |-> FALSE,
   data |-> d]

Init ==
  /\ locked \in BOOLEAN
  /\ outData = NewBuffer(NoData)
  /\ inData = NewBuffer(NoData)
  /\ wpc = [w \in Writers |-> "idle"]
  /\ wpack = [w \in Writers |-> InitPacket(NoData)]
  /\ rpc = "send"
  /\ accepted = <<>> /\ taken = <<>>
  /\ received = <<>> /\ processed = <<>>

-----------------------------------------------------------------------------
(* The writers: PCPStream::sendPacket, for a packet routed to this         *)
(* connection.  A refused packet changes nothing here.                     *)

Inside == {w \in Writers : wpc[w] = "checked"}

(* With the servent's lock, one thread at a time is inside sendPacket.     *)
MayEnter == locked => Inside = {}

(* Mutant of SendPacketCheck: the queue's capacity is not asked.           *)
SendPacketCheck_NoWillSkip(w) ==
  /\ rpc # "closed"
  /\ wpc[w] = "idle" /\ MayEnter
  /\ Len(accepted) + Cardinality(Inside) < MaxAccepted
  /\ \E d \in Data : wpack' = [wpack EXCEPT ![w] = PCPPacket(d)]
  /\ wpc' = [wpc EXCEPT ![w] = "checked"]
  /\ UNCHANGED <<locked, outData, inVars, rpc, accepted, taken>>

(* sendPacket up to the answer FALSE of willSkip.                          *)
SendPacketCheck(w) ==
  /\ rpc # "closed"
  /\ wpc[w] = "idle" /\ MayEnter
  /\ ~WillSkip(outData)
  /\ Len(accepted) + Cardinality(Inside) < MaxAccepted
  /\ \E d \in Data : wpack' = [wpack EXCEPT ![w] = PCPPacket(d)]
  /\ wpc' = [wpc EXCEPT ![w] = "checked"]
  /\ UNCHANGED <<locked, outData, inVars, rpc, accepted, taken>>

(* The rest of writePacket, under the buffer's lock.                       *)
SendPacketWrite(w) ==
  /\ wpc[w] = "checked"
  /\ outData' = WriteLocked(outData, wpack[w], FALSE)
  /\ accepted' = Append(accepted, wpack[w].data)
  /\ wpc' = [wpc EXCEPT ![w] = "idle"]
  /\ UNCHANGED <<locked, wpack, inVars, rpc, taken>>

-----------------------------------------------------------------------------
(* The connection's thread.                                                *)

(* numPending, then readPacket on outData: this thread alone moves         *)
(* readPos, so a packet that was pending still is when the lock is held.   *)
TakeOut ==
  /\ NumPending(outData) > 0 /\ ~TooFarBehind(outData)
  /\ taken' = Append(taken, PacketAt(outData, outData.readPos).data)
  /\ outData' = ReadLocked(outData)

(* Mutant of ReadPacketSend: the last queued packet waits for another.     *)
ReadPacketSend_LeavesOne ==
  /\ rpc = "send"
  /\ \/ NumPending(outData) <= 1 /\ rpc' = "skip" /\ UNCHANGED <<outData, taken>>
     \/ TakeOut /\ NumPending(outData) > 1 /\ rpc' \in {"skip", "flush"}
  /\ UNCHANGED <<writerVars, inVars>>

(* Send one packet.  The write to the socket may fail, and a queue that    *)
(* was overrun is an exception too: either way the loop ends.              *)
ReadPacketSend ==
  /\ rpc = "send"
  /\ \/ NumPending(outData) = 0 /\ rpc' = "skip" /\ UNCHANGED <<outData, taken>>
     \/ TakeOut /\ rpc' \in {"skip", "flush"}
     \/ /\ NumPending(outData) > 0 /\ TooFarBehind(outData)
        /\ rpc' = "flush" /\ UNCHANGED <<outData, taken>>
  /\ UNCHANGED <<writerVars, inVars>>

(* "Send too slow": a connection whose queue is full is given up.          *)
ReadPacketSkip ==
  /\ rpc = "skip"
  /\ rpc' = IF WillSkip(outData) THEN "flush" ELSE "poll"
  /\ UNCHANGED <<outData, writerVars, inVars, taken>>

(* Read one atom if there is one; the answer of writePacket is ignored.    *)
ReadPacketPoll ==
  /\ rpc = "poll"
  /\ \/ rpc' \in {"proc", "flush"} /\ UNCHANGED <<inData, received>>
     \/ \E d \in Data :
          /\ Len(received) < MaxReceived
          /\ received' = Append(received, d)
          /\ inData' = IF WillSkip(inData) THEN inData
                       ELSE WriteLocked(inData, PCPPacket(d), FALSE)
          /\ rpc' = "proc"
  /\ UNCHANGED <<outData, writerVars, taken, processed>>

(* Mutant of ReadPacketProc: a packet may be left in inData.               *)
ReadPacketProc_MaySkip ==
  /\ rpc = "proc"
  /\ \/ UNCHANGED <<inData, processed>>
     \/ /\ NumPending(inData) > 0 /\ ~TooFarBehind(inData)
        /\ processed' = Append(processed, PacketAt(inData, inData.readPos).data)
        /\ inData' = ReadLocked(inData)
  /\ rpc' \in {"send", "flush"}
  /\ UNCHANGED <<outData, writerVars, taken, received>>

(* Process one packet.  procAtom may fail or quit, and the callers' loops  *)
(* end when the thread is shut down, the peer has closed, or the channel   *)
(* went off the air.                                                       *)
ReadPacketProc ==
  /\ rpc = "proc"
  /\ \/ NumPending(inData) = 0 /\ UNCHANGED <<inData, processed>>
     \/ /\ NumPending(inData) > 0 /\ ~TooFarBehind(inData)
        /\ processed' = Append(processed, PacketAt(inData, inData.readPos).data)
        /\ inData' = ReadLocked(inData)
  /\ rpc' \in {"send", "flush"}
  /\ UNCHANGED <<outData, writerVars, taken, received>>

(* flush: send what is queued, until a write fails or nothing is left.     *)
FlushPacket ==
  /\ rpc = "flush"
  /\ TakeOut
  /\ UNCHANGED <<rpc, writerVars, inVars>>

(* Mutant of Close: the stream is deleted without the servent's lock.      *)
Close_Unlocked ==
  /\ rpc = "flush"
  /\ rpc' = "closed"
  /\ UNCHANGED <<outData, writerVars, inVars, taken>>

(* The stream is deleted: under the servent's lock, no writer is inside.   *)
Close ==
  /\ rpc = "flush"
  /\ MayEnter
  /\ rpc' = "closed"
  /\ UNCHANGED <<outData, writerVars, inVars, taken>>

Reader == ReadPacketSend \/ ReadPacketSkip \/ ReadPacketPoll
          \/ ReadPacketProc \/ FlushPacket \/ Close

Next == Reader \/ \E w \in Writers : SendPacketCheck(w) \/ SendPacketWrite(w)

Spec == Init /\ [][Next]_vars

(* The scheduler runs every runnable thread: the connection's thread and a *)
(* writer that is past the check are not stopped forever.  Nothing makes a *)
(* thread broadcast.                                                       *)
Fairness == WF_vars(Reader) /\ \A w \in Writers : WF_vars(SendPacketWrite(w))
FairSpec == Spec /\ Fairness
-----------------------------------------------------------------------------
(* Properties.                                                             *)

TypeOK ==
  /\ locked \in BOOLEAN
  /\ outData \in Buffer(Data \cup {NoData})
  /\ inData \in Buffer(Data \cup {NoData})
  /\ wpc \in [Writers -> {"idle", "checked"}]
  /\ wpack \in [Writers -> Packet(Data \cup {NoData})]
  /\ rpc \in ReaderStep
  /\ accepted \in Seq(Data) /\ taken \in Seq(Data \cup {NoData})
  /\ received \in Seq(Data) /\ processed \in Seq(Data \cup {NoData})

(* What is sent is what was accepted, in that order, nothing missing and   *)
(* nothing twice, even when writers that all saw room have overrun the     *)
(* ring: readPacket refuses to read an overwritten slot (chanpacket.cpp,   *)
(* "Read too far behind").                                                 *)
SentInOrder ==
  /\ Len(taken) <= Len(accepted)
  /\ \A k \in 1..Len(taken) : taken[k] = accepted[k]

(* Atoms are processed in the order received and none is dropped: the      *)
(* answer of inData.writePacket, which readPacket ignores, is never FALSE, *)
(* because each turn of the loop processes what it queued.                 *)
ProcessedInOrder ==
  /\ Len(processed) \in {Len(received) - 1, Len(received)}
  /\ \A k \in 1..Len(processed) : processed[k] = received[k]

(* willSkip is asked outside the lock that protects the write, so the      *)
(* queue may hold more than MAX_PACKETS packets, one more for every writer *)
(* but the first; with the servent's lock it never does.                   *)
PossibleExcess == IF locked THEN 0 ELSE Cardinality(Writers) - 1
OverrunBounded == NumPending(outData) <= MaxPackets + PossibleExcess

(* No writer is inside a stream that Servent::kill has deleted.            *)
NoWriteAfterDelete == locked /\ rpc = "closed" => Inside = {}

(* A packet sendPacket accepted is sent, unless the connection ends.       *)
AcceptedIsSent ==
  \A k \in 1..MaxAccepted :
    Len(accepted) >= k ~> Len(taken) >= k \/ rpc = "closed"

(* With the servent's lock, the ring of slots implements a bounded FIFO.   *)
(* The stream of a source does not, and is mapped to one that is not used. *)
PendingData ==
  [k \in 1..NumPending(outData) |->
     PacketAt(outData, outData.readPos + k - 1).data]
FifoQueue == IF locked THEN PendingData ELSE <<>>
FifoDelivered == IF locked THEN taken ELSE <<>>
Fifo == INSTANCE BoundedFifo WITH
          Item <- Data, Capacity <- MaxPackets,
          queue <- FifoQueue, delivered <- FifoDelivered
ImplementsFifo == Fifo!Spec
=============================================================================
