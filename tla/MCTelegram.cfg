SPECIFICATION Spec
CONSTANTS
  Contents <- MCContents
  Chats = {"private", "group"}
  Senders = {"alice", "bob"}
  AllowFrom = {"alice"}
  AllowGroups = {"alice", "bob"}
  MentionOnly = TRUE
  Limit = 2
  None = None
  MaxUpdates = 3
  MaxStarts = 2
INVARIANTS ChatsAreTrue
PROPERTIES ImplementsIntake UpdatesAreSettled
CHECK_DEADLOCK FALSE
