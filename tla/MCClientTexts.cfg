SPECIFICATION Spec
CONSTANTS
  Clients = {a, b}
  Pollers = {}
  Commands = {"list", "publicKey", "waiting", "text", "sendKey"}
  None = None
  Refusals = FALSE
  Breaks = FALSE
  Restarts = {}
  MaxSends = 3
  Slots = {}
PROPERTIES TextsReadable
