SPECIFICATION Spec
CONSTANTS
  Clients = {c1, c2}
  Names = {n1}
  Cancel = Cancel
  None = None
  Empty = Empty
  Torn = Torn
  MaxKeys = 1
SYMMETRY Symmetry
INVARIANTS PollsWithWholeID
