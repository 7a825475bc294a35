SPECIFICATION DashboardSpec
CONSTANTS
  Reqs = {r1, r2}
  Users = {u1}
  MaxGrants = 2
  RefreshRouted = TRUE
  NoReq = NoReq
  NoUser = NoUser
  NoToken = NoToken
  Undefined = Undefined
  Ids = {x1, x2, x3}
  Named = {x1, x2}
  Tagged = {x1, x2}
  Routes = 2
  PAGE_SIZE = 1
  limit = 1
  MaxLogs = 2
  Invoices = {i1, i2}
  MaxLoads = 2
  None = None
  Unknown = Unknown
INVARIANTS
  SessionTypeOK OneExchange StoredTogether MemoryIsStorage
  BrowsingTypeOK LogPageExists DetailIsOfExpanded
PROPERTIES
  EveryRequestEnds LatchSafe SelectionStays PageStays
CHECK_DEADLOCK FALSE
