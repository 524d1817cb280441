\* Two accounts with one name in an account db that was created empty.
SPECIFICATION Spec
CONSTANTS
  MaxConn = 1
  MaxFd = 3
  MaxMesg = 1
  MaxOnline = 2
  MaxAccount = 2
  ReadBatch = 10
  u1 = u1
  u2 = u2
  Users = {u1}
  InitAccounts <- NoAccounts
  SndAll = SndAll
  Ops = {"REQ_MAKE_ACCOUNT"}
CHECK_DEADLOCK FALSE
INVARIANT UserNamesUnique
