\* Registering, deleting and logging in, with restarts.
SPECIFICATION Spec
CONSTANTS
  MaxConn = 2
  MaxFd = 5
  MaxMesg = 0
  MaxOnline = 2
  MaxAccount = 2
  ReadBatch = 10
  u1 = u1
  u2 = u2
  Users = {u1, u2}
  InitAccounts <- OneAccount
  SndAll = SndAll
  Ops = {"REQ_MAKE_ACCOUNT", "REQ_LOG_IN", "REQ_LOG_OUT", "REQ_DELETE_ACCOUNT"}
CHECK_DEADLOCK FALSE
INVARIANTS SessionAccount
