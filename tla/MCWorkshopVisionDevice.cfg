CONSTANTS
  s1 = s1
  s2 = s2
  a1 = a1
  a2 = a2
  Client = {s1}
  Control = {c1}
  App <- OneApp
  FaceClient = {f1}
  NoOne = NoOne
  MaxFaults = 0
  Prompt = TRUE
SPECIFICATION WorkshopSpec
INVARIANTS
  DeviceExclusive
CHECK_DEADLOCK FALSE
