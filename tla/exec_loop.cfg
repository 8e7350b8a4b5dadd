SPECIFICATION FairSpec
CONSTANTS
  k1 = k1
  k2 = k2
  i1 = i1
  i2 = i2
  None = None
  Keys = {k1}
  Ids = {i1}
  IdOf <- MCIdOf
  Cooldown = 2
  MaxCancel = 1
  MaxReplace = 1
  Intents <- AllIntents
  Earlier = {}
  ActionCap = 1
  EventCap = 1
  Lossy = FALSE
  MaxIntents = 1
  MaxTime = 4
INVARIANT
  TypeOK
  ActionsAreSpaced
  ExitsStayWithinFills
  NeverReprices
  EndsReachTheController
PROPERTY
  TerminalEventsRetire
