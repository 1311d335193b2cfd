CONSTANTS
  MaxProposals = 2
  App = {a1, a2}
  Caps <- MCCaps
  Request = {r1, r2}
  QueueMax = 1
  MaxCrashes = 1
  NoApp = NoApp
  NoProposal = 0
  Focus = {q1, q2}
  MaxAttempts = 2
  Windows = 1
  MaxDay = 2
  MaxEdits = 1
  NoFocus = NoFocus
SPECIFICATION StoresSpec
INVARIANTS
  EnabledWereReviewed
  OffersHaveTheirPackage
  FocusIsPublished
PROPERTIES
  QueuedIsServed
CHECK_DEADLOCK FALSE
