CONSTANTS
  Symbol <- MCSymbol
  Word <- MCWord
  MaxWords = 4
  NoMessage = NoMessage
SPECIFICATION WireSpec
CHECK_DEADLOCK FALSE
INVARIANTS
  RelayKept
  ParsedAsMeant
