CONSTANTS
  MaxWake = 1
  MaxFollowUps = 1
SPECIFICATION VoiceSpec
INVARIANT SupersededIsHit
