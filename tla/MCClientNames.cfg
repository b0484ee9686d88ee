SPECIFICATION Spec
CONSTANTS
  Clients = {a, b}
  Pollers = {b}
  Commands = {"list", "publicKey", "waiting", "sendKey"}
  None = None
  Refusals = FALSE
  Breaks = FALSE
  Restarts = {}
  MaxSends = 2
  Slots = {}
PROPERTIES NamesKept
