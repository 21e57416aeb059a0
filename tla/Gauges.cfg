CONSTANTS
  c1 = c1
  c2 = c2
  c3 = c3
  ann = ann
  bob = bob
  Clients = {c1, c2, c3}
  Users = {ann, bob}
  Username <- TwoTabs
  MaxEvents = 4
SPECIFICATION Spec
INVARIANTS TypeOK
PROPERTIES GaugesConverge
