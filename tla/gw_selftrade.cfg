SPECIFICATION Spec
CONSTANTS
  o1 = o1
  o2 = o2
  x1 = x1
  x2 = x2
  k1 = k1
  k2 = k2
  btc = btc
  p1 = p1
  p2 = p2
  c1 = c1
  c2 = c2
  None = None
  Orders = {o1, o2}
  ExIDs = {x1, x2}
  ExOf <- MCExOf
  Keys = {k1, k2}
  Symbols = {btc}
  Prices = {p1}
  Requests <- CrossingRequests
  Calls = {}
  ChannelCap = 2
  StreamFails = TRUE
  SizeDown = TRUE
  Async = TRUE
  MaxQty = 2
INVARIANT
  NoSelfTrade
