CONSTANTS
  Face = {"busy"}
  InboxSize = 2
  MaxEvents = 3
  MaxLives = 2
  FocusTime = 2
  ShortBreak = 1
  LongBreak = 2
  LongBreakEvery = 2
  CustomTime = {3}
  MaxNow = 7
  ta = ta
  tb = tb
  Track = {ta, tb}
  Library <- Scanned
  NoTrack = NoTrack
  AppPage = {"call", "workshop"}
  MaxNodes = 4
  MaxFrames = 2
  MaxAngle = 1
  MaxSpeed = 2
  MaxVolume = 2
  MaxDamages = 1
SPECIFICATION ScreenSpec
INVARIANTS
  FocusTimeIsWorked
  OneThingInFront
  SoundFollowsStatus
  CallsAreCovered
  CountsOnlyOnsets
  PackagesAreKnown
  CallsStayWithinTheManifest
PROPERTIES
  ScreenCatchesUp
  HotspotEnds
  RebootIsDeliberate
CHECK_DEADLOCK FALSE
