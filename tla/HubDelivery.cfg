CONSTANTS
  c1 = c1
  c2 = c2
  ann = ann
  bob = bob
  None = None
  Clients = {c1, c2}
  Users = {ann}
  Username <- TwoTabs
  SendCap = 1
  FileCap = 1
  OnlineCap = 0
  QueueCap = 2
  HistoryLen = 0
  MaxItems = 2
SYMMETRY SameUserSymmetry
SPECIFICATION QuietTickerSpec
INVARIANTS AgreedOrder PostedOrder
PROPERTY RoomSpec
CHECK_DEADLOCK FALSE
