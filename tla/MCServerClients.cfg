SPECIFICATION Spec
CONSTANTS
  Clients = {c1, c2}
  Sessions = {s1, s2}
  Ids = {i1, i2}
  Names = {n1, n2}
  None = None
  Codes = {"register", "list", "publicKey", "send", "waiting", "unknown", "version"}
  Shapes = {TRUE}
  MaxMsgs = 1
  MaxMsgId = 1
  MaxVars = 1
SYMMETRY Symmetry
INVARIANTS AcknowledgedIsCommitted OnlyToRecipient HandlersSeeCommittedState NamesUnique
PROPERTIES RegistrationsPersist
