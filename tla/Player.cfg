SPECIFICATION FairSpec
CONSTANTS
  T1 = T1
  T2 = T2
  NumCalls = 4
  NumOptional = 2
  Callers <- Threads
  NoCmd = NoCmd
  Uses <- AllUses
INVARIANTS AnswersFindTheirCommand
PROPERTIES ResetIsFinal CommandsComplete ErrorsEnd SyncCallsReturn
CHECK_DEADLOCK FALSE
