\* Pending messages and hang-ups are dealt with.
SPECIFICATION FairSpec
CONSTANTS
  MaxConn = 3
  MaxFd = 3
  MaxMesg = 1
  MaxOnline = 1
  MaxAccount = 1
  ReadBatch = 10
  u1 = u1
  u2 = u2
  Users = {u1}
  InitAccounts <- OneAccount
  SndAll = SndAll
  Ops = {"REQ_LOG_IN", "SND_ONE", "SND_ALL"}
CHECK_DEADLOCK FALSE
PROPERTIES TimersExpire HangUpsHandled
