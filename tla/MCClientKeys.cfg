SPECIFICATION Spec
CONSTANTS
  Clients = {a, b}
  Pollers = {}
  Commands = {"list", "publicKey", "waiting", "text", "sendKey"}
  None = None
  Refusals = TRUE
  Breaks = FALSE
  Restarts = {a}
  MaxSends = 2
  Slots = {s1}
INVARIANTS TypeOK KeysAgree NoMessageDropped
PROPERTIES TextsFitKeys UsesMailbox
