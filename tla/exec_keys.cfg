SPECIFICATION Spec
CONSTANTS
  k1 = k1
  k2 = k2
  i1 = i1
  i2 = i2
  None = None
  Keys = {k1, k2}
  Ids = {i1, i2}
  IdOf <- MCIdOf
  Cooldown = 1
  MaxCancel = 1
  MaxReplace = 1
  Intents <- OneLot
  Earlier = {k2}
  ActionCap = 1
  EventCap = 1
  Lossy = FALSE
  MaxIntents = 2
  MaxTime = 2
INVARIANT
  AttributionHolds
  EndsReachTheController
