SPECIFICATION Spec
CONSTANTS
  o1 = o1
  o2 = o2
  t1 = t1
  t2 = t2
  r1 = r1
  NoAO = NoAO
  Objects = {o1}
  Timers = {t1, t2}
  Remote = {r1}
  Shared = {o1}
  RemoteCancel = {}
  RawBusy = {o1}
  Removable = {t1, t2}
  Priority <- FirstTimerHigh
  MaxDelay = 2
  MaxLate = 1
INVARIANTS IInv TimersAreNotEarly
CHECK_DEADLOCK FALSE
