CONSTANTS
  MaxMsgs = 3
  MaxWire = 2
  MaxDrops = 1
  MaxDisconnects = 1
  NONE = NONE
SPECIFICATION FairSpec
INVARIANTS TypeOK SeqsUnique NoEntryLost QueueInv
PROPERTIES EventuallyReceived TransferSpec NoResurrection
CHECK_DEADLOCK FALSE
