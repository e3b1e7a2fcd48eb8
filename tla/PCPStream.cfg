SPECIFICATION FairSpec
CONSTANTS
  MaxPackets = 2
  NumSafePackets = 1
  PosMod = 8
  Writers = {w1, w2, w3}
  Data = {d1, d2}
  NoData = NoData
  MaxAccepted = 4
  MaxReceived = 2
INVARIANTS SentInOrder OverrunBounded NoWriteAfterDelete
PROPERTIES AcceptedIsSent ImplementsFifo
CHECK_DEADLOCK FALSE
