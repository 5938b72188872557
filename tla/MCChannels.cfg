SPECIFICATION Spec
CONSTANTS
  Writes <- MCWrites
  Refused = {"eve"}
  MaxDelay = 3
  MaxWritten = 2
  MaxSessions = 2
  RoomUsers <- MCRoomUsers
  BotUser = "bot"
  Trusted = {}
  Window = 1
  MaxEvents = 3
  MaxRuns = 2
  Letters <- MCLetters
  Correspondents = {"ann"}
  MaxMails = 3
  Configurations <- MCConfigurations
  Secrets = {"webhook", "slack", "feishu", "dingtalk"}
  Arriving <- MCArriving
  Friends = {"ann"}
  MaxDeliveries = 2
  MsgIds = {"", "i", "j", "k"}
  Capacity = 1
  MaxTasks = 4
  Life = 12
  Slack = 8
  Timeout = 2
  MaxClock = 20
INVARIANTS  PostsAreHandledOnce TokensAreAlive
PROPERTIES PollersImplementIntake 
CHECK_DEADLOCK FALSE
