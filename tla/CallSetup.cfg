SPECIFICATION FairSpec
CONSTANTS
  A = A
  B = B
  Terminals <- Both
  TWO_24 = 4
  MSD_MAX_RETRIES = 2
  N100 = 3
  SeqModulus = 256
  Uses <- AllUses
INVARIANTS RolesAgree 
PROPERTIES ConnectIsAnswered PromptCallsConnect
CHECK_DEADLOCK FALSE
