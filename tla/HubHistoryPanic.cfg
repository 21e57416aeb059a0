CONSTANTS
  c1 = c1
  c2 = c2
  ann = ann
  bob = bob
  None = None
  Clients = {c1, c2}
  Users = {ann, bob}
  Username <- TwoUsers
  SendCap = 1
  FileCap = 1
  OnlineCap = 1
  QueueCap = 1
  HistoryLen = 1
  MaxItems = 0
SPECIFICATION Spec
INVARIANTS HistoryNeverPanics
