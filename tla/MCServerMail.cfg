SPECIFICATION FairSpec
CONSTANTS
  Clients = {c1}
  Sessions = {s1, s2}
  Ids = {i1}
  Names = {n1}
  None = None
  Codes = {"register", "send", "waiting"}
  Shapes = {TRUE, FALSE}
  MaxMsgs = 3
  MaxMsgId = 2
  MaxVars = 1
INVARIANTS TypeOK NoMessageVanishes DeliversInOrderOnce
PROPERTIES ImplementsMailbox EveryRequestAnswered
