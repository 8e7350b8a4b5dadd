SPECIFICATION Spec
CONSTANTS
  o1 = o1
  o2 = o2
  x1 = x1
  x2 = x2
  k1 = k1
  k2 = k2
  btc = btc
  p1 = p1
  p2 = p2
  c1 = c1
  c2 = c2
  None = None
  Orders = {o1, o2}
  ExIDs = {o1, o2}
  ExOf <- PaperExOf
  Keys = {k1, k2}
  Symbols = {btc}
  Prices = {p1, p2}
  Requests <- PaperRequests
  Calls = {c1, c2}
  ChannelCap = 2
  StreamFails = TRUE
  SizeDown = FALSE
  Async = FALSE
  MaxQty = 2
INVARIANT
  PaperOrdersSettle
  BindingConsistent
  FillConservation
  PositionIsSignedLedger
