SPECIFICATION FairSpec
CONSTANTS
  MaxEvents = 3
  MaxConns = 2
  SendQueue = 1
  MaxPending = 1
  ReplayLimit = 1
CHECK_DEADLOCK FALSE
INVARIANTS TypeOK NoGapWhileConnected PromptOrStream
PROPERTIES MessagesAreHeard ServesReader
