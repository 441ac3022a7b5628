CONSTANTS
  MaxUpdates = 2
  MaxTokens = 2
  MaxChanges = 2
SPECIFICATION Spec
INVARIANT OnePoller ConfirmedWasHandled
PROPERTY FollowsSettings
CHECK_DEADLOCK FALSE
