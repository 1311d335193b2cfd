CONSTANTS
  u1 = u1
  Conversation = {c1}
  User = {u1}
  OwnerOf <- MCOwnerOf
  Upload = {}
  Image = {}
  Request = {r1, r2}
  Kind = {"text"}
  NoConversation = NoConversation
  NoFile = NoFile
  Fresh = Fresh
  Gone = Gone
  MaxTurns = 2
  MaxCrashes = 0
  MaxStops = 0
SPECIFICATION Spec
INVARIANTS
  OneActiveReply
