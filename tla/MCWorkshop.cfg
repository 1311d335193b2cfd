CONSTANTS
  s1 = s1
  s2 = s2
  a1 = a1
  a2 = a2
  Client = {s1, s2}
  Control = {c1}
  App <- TwoApps
  FaceClient = {f1}
  NoOne = NoOne
  MaxFaults = 1
  Prompt = TRUE
  Sitting = {s1, s2}
  Server = {c1}
  Program <- SameProgram
  NoSitting = NoSitting
SPECIFICATION PartsSpec
INVARIANTS
  EveryDetectorOwned
PROPERTIES
  ArbiterSafety
  SessionsEnd
  RecordingsEnd
CHECK_DEADLOCK FALSE
