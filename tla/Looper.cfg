\* A server with three connections on two numbers, a client, and two timers.
SPECIFICATION FairSpec
CONSTANTS
  FirstFd = 1
  MaxFd = 3
  MaxWatcher = 4
  MaxTimer = 2
  Interval = {2, 5}
  IntMax = 3
  MaxWork = 1
CHECK_DEADLOCK FALSE
INVARIANTS TypeOK PollCovers SleepBound NoStaleCursor
PROPERTIES RoundIsExact TimersRun ConnectionsServed
