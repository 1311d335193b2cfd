CONSTANTS
  u1 = u1
  Conversation = {c1}
  User = {u1}
  OwnerOf <- MCOwnerOf
  Upload = {f1}
  Image = {i1, i2}
  Request = {r1, r2}
  Kind = {"image"}
  NoConversation = NoConversation
  NoFile = NoFile
  Fresh = Fresh
  Gone = Gone
  MaxTurns = 2
  MaxCrashes = 1
  MaxStops = 0
  u2 = u2
  Account = {u1, u2}
  FirstAccount = u1
  Token = {t1}
  Job = {j1, j2}
  Nobody = Nobody
  Caller = {o1, o2}
  NoCall = NoCall
  Asker = {k1, k2}
  MaxConnects = 2
  MaxSpoken = 1
  MaxLine = 1
SPECIFICATION ServerSpec
SYMMETRY MCSymmetry
INVARIANTS
  RecordsHaveFiles
  WorkerOwnsRunning
  AdministratorRemains
  CurrentCallIsWhole
  AskersAreTold
