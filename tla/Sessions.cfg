CONSTANTS
  r1 = r1
  r2 = r2
  ann = ann
  s1 = s1
  s2 = s2
  None = None
  Requests = {r1, r2}
  Users = {ann}
  IDs = {s1, s2}
  Faults = TRUE
SPECIFICATION FairSpec
INVARIANTS TypeOK NoStraySession OneRegistration
PROPERTIES DeadStaysDead SessionsEnd
