SPECIFICATION FairSpec
CONSTANTS
  c1 = c1
  c2 = c2
  c3 = c3
  Command <- MCCommand
  MaxGets <- MCMaxGets
INVARIANTS
  TypeOK
  LaunchInvariant
  EveryHelperIsOwned
  OldSessionsAreDead
PROPERTIES
  PromptIsNeeded
  EveryGetReturns
  AbandonedHelpersEnd
CHECK_DEADLOCK FALSE
