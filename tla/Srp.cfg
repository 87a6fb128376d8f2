SPECIFICATION FairSpec
CONSTANTS
  A = A
  B = B
  Terminals <- Both
  SeqModulus = 8
  TxWindow = 2
  RxWindow = 2
  N400Max = 1
  N402Max = 2
  LinkCapacity = 3
  NumTxMsgs = 3
  Uses <- AllUses
INVARIANTS InOrder AckedIsReceived WindowIsPrefix
PROPERTIES PacketsAreSettled
CHECK_DEADLOCK FALSE
