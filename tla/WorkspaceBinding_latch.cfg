CONSTANTS
  Conversations <- MCConversations
  Slots = 2
  Grants = 2
  MaxAsks = 3
  MaxMoves = 2
SPECIFICATION Spec
INVARIANT LatchHasExit
\* The user may stop.
CHECK_DEADLOCK FALSE
