SPECIFICATION FairSpec
CONSTANTS
  IdSize = 2
  NameSize = 3
  KeySize = 1
  None = None
  NaN = NaN
  Lines <- MCLines
  Typed <- MCTyped
  Texts <- MCTexts
  Key <- MCKey
  Ids <- MCIds
  Friend <- MCFriend
  Mail <- MCMail
  MaxWaiting = 2
  StoredNo = 258
  ServerFiles <- MCServerFiles
  ClientFiles <- MCClientFiles
INVARIANTS TypeOK SamePortsMeet IdKept
PROPERTIES ImplementsExchange RequestsWereTyped CallsReturn
CHECK_DEADLOCK FALSE
