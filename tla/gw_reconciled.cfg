SPECIFICATION Spec
CONSTANTS
  o1 = o1
  o2 = o2
  x1 = x1
  x2 = x2
  k1 = k1
  k2 = k2
  btc = btc
  p1 = p1
  p2 = p2
  c1 = c1
  c2 = c2
  None = None
  Orders = {o1}
  ExIDs = {x1}
  ExOf <- MCExOf
  Keys = {k1}
  Symbols = {btc}
  Prices = {p1, p2}
  Requests <- OneRequest
  Calls = {}
  ChannelCap = 2
  StreamFails = TRUE
  SizeDown = FALSE
  Async = TRUE
  MaxQty = 2
INVARIANT
  MatchedMeansReconciled
