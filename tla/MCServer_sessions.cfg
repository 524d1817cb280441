\* Sessions, direct messages and broadcasts while descriptors are reused.
SPECIFICATION Spec
CONSTANTS
  MaxConn = 3
  MaxFd = 4
  MaxMesg = 2
  MaxOnline = 2
  MaxAccount = 1
  ReadBatch = 10
  u1 = u1
  u2 = u2
  Users = {u1}
  InitAccounts <- OneAccount
  SndAll = SndAll
  Ops = {"REQ_LOG_IN", "REQ_LOG_OUT", "SND_ONE", "SND_ALL"}
CHECK_DEADLOCK FALSE
INVARIANTS TypeOK ClientTable SessionOwner DirectDelivery NoEcho AtMostOnce
PROPERTIES DisconnectIsLocal DeliverySpec
CONSTRAINT MessagesOrSessions
