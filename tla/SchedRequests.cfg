SPECIFICATION FairSpec
CONSTANTS
  o1 = o1
  o2 = o2
  t1 = t1
  t2 = t2
  r1 = r1
  NoAO = NoAO
  Objects = {o1, o2}
  Timers = {t1}
  Remote = {r1}
  Shared = {o1, o2}
  RemoteCancel = {o2}
  RawBusy = {}
  Removable = {t1}
  Priority <- Equal
  MaxDelay = 1
  MaxLate = 1
INVARIANTS WaitsAreBacked
PROPERTIES RequestsRunOnce ReadyRuns TimersExpire CancelsEnd
CHECK_DEADLOCK FALSE
