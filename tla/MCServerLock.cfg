SPECIFICATION FairSpec
CONSTANTS
  Clients = {c1, c2}
  Sessions = {s1, s2}
  Ids = {i1}
  Names = {n1}
  None = None
  Codes = {"register", "send", "waiting"}
  Shapes = {TRUE}
  MaxMsgs = 1
  MaxMsgId = 1
  MaxVars = 1
PROPERTIES WriteLockReturned
