SPECIFICATION SessionSpec
CONSTANTS
  Reqs = {r1, r2}
  Users = {u1}
  MaxGrants = 2
  RefreshRouted = FALSE
  NoReq = NoReq
  NoUser = NoUser
  NoToken = NoToken
  Undefined = Undefined
INVARIANTS StoredIsGranted
