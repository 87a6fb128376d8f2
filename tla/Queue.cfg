SPECIFICATION FairSpec
CONSTANTS
  Adders = {a1, a2}
  AnyThreads = {TRUE, FALSE}
  Data = {d1, d2}
  NoData = NoData
  MaxLen = 3
  tsq = tsq
  NoAO = NoAO
INVARIANTS ReadyToSignal
PROPERTIES DeliversInOrder AddReturns DataIsReceived
