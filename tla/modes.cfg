CONSTANTS
  Flags = {"n", "t"}
  UserFlags = {"i", "o"}
  Others = {"o"}
  Param = {x, y}
  MaxChars = 4
  MaxParams = 2
  NoParam = NoParam
  NoCommand = NoCommand
SPECIFICATION Spec
CHECK_DEADLOCK FALSE
INVARIANTS
  ComposedLineReplays
  LastSignWins
PROPERTY OpOnlyByJoin
