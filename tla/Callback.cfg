SPECIFICATION FairSpec
CONSTANTS
  Senders = {s1, s2}
  Data = {d1, d2}
  NoData = NoData
  Depth = 3
  Batches = {TRUE, FALSE}
  cb = cb
  NoAO = NoAO
PROPERTIES DeliversInOrder CallsReturn EventsAreProcessed
