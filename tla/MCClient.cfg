\* Lines typed at a terminal, through a pipe and in a file.
SPECIFICATION FairSpec
CONSTANTS
  BufLen = 10
  MinLen = 10
  PageLen = 12
  LogInInfo = 2
  AccountInfo = 5
  Lines <- SomeLines
  RequestRoom = 1
  PieceRoom = 1
  MaxReply = 2
  MaxLines = 3
INVARIANTS OneLineOneRequest
PROPERTIES OutlivesInput CommandIsSent ReplyIsRead
CHECK_DEADLOCK FALSE
