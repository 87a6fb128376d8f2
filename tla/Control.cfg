SPECIFICATION FairSpec
CONSTANTS
  self = self
  c1 = c1
  c2 = c2
  Self = self
  Caller <- Threads
  Uses <- AllUses
  MaxCredits = 3
INVARIANTS CleanStart LockIsReleased
PROPERTIES ResumeFindsSuspension StopsEnd
CHECK_DEADLOCK FALSE
