CONSTANTS
  Plain = {"a"}
  MaxLength = 3
SPECIFICATION MaskSpec
CHECK_DEADLOCK FALSE
INVARIANT MatchesWildcards
