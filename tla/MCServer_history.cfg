\* Paging through the message history.
SPECIFICATION Spec
CONSTANTS
  MaxConn = 2
  MaxFd = 5
  MaxMesg = 4
  MaxOnline = 0
  MaxAccount = 1
  ReadBatch = 3
  u1 = u1
  u2 = u2
  Users = {u1}
  InitAccounts <- NoAccounts
  SndAll = SndAll
  Ops = {"REQ_ALL_MSG", "FIRST", "LAST", "REQ_LOG_IN_LIST", "SND_ALL"}
CHECK_DEADLOCK FALSE
INVARIANTS NoGap
PROPERTY NextPageAdvances
