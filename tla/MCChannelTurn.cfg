CONSTANTS
  Process = {old, new}
  Old = old
  MaxMessages = 2
  MaxCalls = 2
  Scenarios <- Talk
SPECIFICATION Spec
INVARIANTS NoFork RepliesFit
PROPERTIES EveryMessageReplied OffIsObeyed
CHECK_DEADLOCK FALSE
