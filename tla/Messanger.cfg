\* Descriptors for three connections, an array for three, up to three messages in pages
\* of one, two clients with a request at a time.
SPECIFICATION FairSpec
CONSTANTS
  MaxConn = 3
  PollSize = 4
  PageSize = 1
  MaxMesg = 3
  MaxLoad = 4
  MaxUnread = 2
CHECK_DEADLOCK FALSE
INVARIANT NothingMissed
PROPERTIES StaysPolled PolledIsServed
