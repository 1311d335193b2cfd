CONSTANTS
  Run = {r1, r2}
  MaxConcurrency = 1
  MaxRestarts = 1
  FaceClient = {f1, f2}
  Client = {x1, x2}
  MaxFaults = 2
  MaxWake = 2
  MaxFollowUps = 1
  MaxPresses = 2
  MaxDeaths = 2
  Reader = {p1, p2}
  MinInterval = 2
  DefaultCooldown = 2
  MaxCooldown = 4
  RetryAfter = {0, 3}
  MaxTime = 9
  NoReader = NoReader
  MinChars = 2
  HardChars = 3
  MaxText = 6
  QueueSize = 2
  MaxClauses = 3
  RingSize = 3
  PreRoll = 3
  NoSpeechAfter = 2
  SilenceAfter = 1
  ShortestSpeech = 1
  LongestTurn = 4
  MaxBlocks = 6
  Check = {k1, k2}
  CheckType <- MCCheckType
  Slow = {k1}
  Interval = 2
  Threshold = 2
  Repeat = 2
  MaxChanges = 4
SPECIFICATION ServicesSpec
INVARIANTS
  GrantExcludesFace
  SpokenAsWritten
  AbortSilences
  UtteranceIsTheUsers
PROPERTIES
  ImplementsPool
  FaceIsServed
  WakeIsAnswered
  RequestsAreSpaced
  RunningIsOver
  TellsTheTruth
CHECK_DEADLOCK FALSE
