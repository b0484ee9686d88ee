SPECIFICATION FairSpec
CONSTANTS
  Clients = {a, b}
  Pollers = {b}
  Commands = {"list", "waiting", "requestKey", "exit"}
  None = None
  Refusals = FALSE
  Breaks = TRUE
  Restarts = {}
  MaxSends = 2
  Slots = {}
INVARIANTS ResponseMatchesRequest NoMessageDropped
PROPERTIES ExitTerminates CommandsAnswered
CHECK_DEADLOCK FALSE
