CONSTANTS
  Conversations <- MCConversations
  Slots = 2
  Grants = 2
  MaxAsks = 3
  MaxMoves = 2
SPECIFICATION Spec
INVARIANTS TypeOK CreatedOnce
PROPERTIES BindsTheOwner CommittedIsSaved
\* The user may stop.
CHECK_DEADLOCK FALSE
