CONSTANTS
  t1 = t1
  t2 = t2
  t3 = t3
  k1 = k1
  Task = {t1}
  User = {u1}
  Device = Device
  NoTask = NoTask
  NoKey = NoKey
  Illustrated <- MCIllustrated
  Key <- MCKey
  MayDie = FALSE
  MayStop = FALSE
SPECIFICATION FairSpec
PROPERTIES
  CancelTakesEffect
