SPECIFICATION Spec
CONSTANTS
  Conversations <- MCConversations
  Nobody = Nobody
  Empty = Empty
  Torn = Torn
  MaxSaves = 2
  DiskFaults = TRUE
  Channels <- MCChannels
  Internal <- MCInternal
  Prefix <- MCPrefix
  SystemChannel = "system:heartbeat"
  FallbackSession = "heartbeat:fallback"
  HeartbeatSession <- MCSession
  None = None
  Targets <- MCTargets
  Tasks = {"greet", "search"}
  Kind <- MCKind
  Elsewhere <- MCElsewhere
  InboundCapacity = 1
  MaxTicks = 2
INVARIANTS Durable OnlyUsersAreTargets 
CHECK_DEADLOCK FALSE
