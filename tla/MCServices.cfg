SPECIFICATION Spec
CONSTANTS
  Callers = {c1, c2}
  Levels = {"ToolFreeze", "KillAll"}
  MaxLoads = 2
  From = {"ann", "ben"}
  PerUser = 1
  PerChannel = 2
  WindowWidth = 2
  DayLength = 3
  Budget = 3
  Costs = {1}
  MaxTime = 4
  MaxAttempts = 3
  MaxCosts = 2
  ToolNames = {"shell"}
  People = {"ann", "ben"}
  AutoLists = {{}, {"shell"}}
  AskLists = {{}, {"shell"}}
  RequestLife = 1
  LogCap = 1
  LogCut = 1
  MaxCalls = 2
  MaxChanges = 2
  MaxMinutes = 1
  Lifetime = 2
  MaxCodes = 3
  MaxSeconds = 4
  MemoryKeys = {k1, k2}
  Writers = {w1, w2}
  TtlDays = 1
  MaxVersions = 2
  MaxDays = 2
  EntryKeys = {"a", "b", "c"}
  Answers <- Merges
  MinEntries = 2
  BatchSize = 3
  MaxFacts = 3
  MaxRounds = 1
  EntryKinds <- Entries
  MaxMatches = 4
  Limits = {0, 1, 2}
  FetchFactor = 1
  FetchLeast = 3
  RankOffset = 60
  Documents = {"a", "b", "c"}
  MaxQueries = 2
  Messages <- Talk
  Labels <- Talk
  RollingWindow = 3
  MaxTurns = 4
  KnownTools = {"shell"}
  ModelAnswers <- Model
  OldContexts <- Contexts
  MaxIterations = 3
  MaxContextRetries = 1
  Replies <- StreamReplies
  MaxPiece = 6
  Configs <- Files
  Environments <- Settings
  KnownProviders = {"openai", "ollama"}
  NativeTools <- Builtin
  ServerTools <- Offered
  SampleMessages <- Samples
  Texts <- Paragraphs
  PartSize = 3
  Origins <- Places
  NamedSessions <- SessionNames
  ChatNumbers = {"7"}
  OutboundUrl = TRUE
  AutoReply = FALSE
  Keeps = {0, 2, 3}
  MaxEntries = 6
  MaxMishaps = 2
  Statuses = {0, 400, 402, 403, 408, 418, 429, 503}
  MostRetries = 2
  FileCalls = {"c1", "c2", "c3", "c4"}
  Does <- ToolKinds
  Pieces <- ToolPieces
  MaxPieces = 2
  MaxTroubles = 2
  ByteBits = 3
  DigitBits = 2
  BufferBits = 4
  MaxBytes = 2
  LastSecond = 6
  StepSeconds = 2
  Skew = 1
  Drifts <- Behind
  SkillNames = {1, 2}
  Title <- NamesInManifest
  Length <- TextsOfSkills
  PromptRoom = 2
  Terminals = {t1, t2}
  MaxCommands = 3
  MaxFailures = 1
  FileKeys = {"a/b", "a_b", "c"}
  FileOf <- FilesOfKeys
  Storers = {w1, w2}
  TextLengths = {1, 2}
  MaxStores = 3
  Letters = {"a", "b", "A", "B", "@", "|", "*"}
  AllowLists <- OnLists
  GroupLists <- OnGroupLists
  SenderTexts <- OfSenders
  Lower <- LowerCase
VIEW View
INVARIANTS 
      
   StreamIsLikeCall ErrorsAreSorted  RepliesArrive 
PROPERTIES StopIsKept
CHECK_DEADLOCK FALSE
