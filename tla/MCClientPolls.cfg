SPECIFICATION Spec
CONSTANTS
  Clients = {a, b}
  Pollers = {b}
  Commands = {"list", "publicKey", "waiting", "text", "sendKey"}
  None = None
  Refusals = FALSE
  Breaks = FALSE
  Restarts = {}
  MaxSends = 3
  Slots = {}
INVARIANTS KeysAgree
PROPERTIES TextsFitKeys OneBatchInOrder UsesMailbox
