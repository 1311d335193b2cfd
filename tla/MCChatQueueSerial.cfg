CONSTANTS
  u1 = u1
  Conversation = {c1}
  User = {u1}
  OwnerOf <- MCOwnerOf
  Upload = {f1}
  Image = {i1}
  Request = {r1}
  Kind = {"drawn", "paper"}
  NoConversation = NoConversation
  NoFile = NoFile
  Fresh = Fresh
  Gone = Gone
  MaxTurns = 2
  MaxCrashes = 1
  MaxStops = 1
SPECIFICATION QuietSpec
INVARIANTS
  AnswersOwnQuestion
PROPERTIES
  EveryReplyEnds
