CONSTANTS
  None = None
  Undefined = Undefined
  o1 = o1
  o2 = o2
  o3 = o3
  o4 = o4
  o5 = o5
  ListOrder = {o1, o2, o3, o4, o5}
  OrderId <- TwoUsers
  SortValue <- MCSortValue
  ListSlot <- MCListSlot
  Descending = FALSE
  Version = {v1, v2}
  limit = limit
  atMarket = atMarket
  stop = stop
  Order = {limit, atMarket, stop}
  OrderType <- MCOrderType
  PostOnly <- NotPostOnly
  Floating <- StopFloats
  OrderSlot <- MCOrderSlot
  AuctionDuration <- MCDuration
  ProtectedUser = {limit}
  Base = 2
  MaxSlot = 3
  MaxPending = 3
  Settings <- MCSettings
  m1 = m1
  m2 = m2
  m3 = m3
  u1 = u1
  u2 = u2
  SearchOrder = {m1, m2, m3}
  User = {u1, u2}
  Book <- MCBook
  Market <- MCMarket
  Slot = 4
  minAuctionDuration = 1
  makerRebateNumerator = 1
  makerRebateDenominator = 4
  Systems = {"levels"}
  Requests <- CrossingRequests
SPECIFICATION MCSpec
INVARIANT Uncrossed
