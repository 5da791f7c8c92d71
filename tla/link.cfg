CONSTANTS
  Link = {l1, l2}
  Name = {ours, theirs}
  Own = {ours}
  NoLink = NoLink
  Buffer = 1
  MaxLines = 2
SPECIFICATION FairSpec
CHECK_DEADLOCK FALSE
INVARIANTS
  PongsAnswerPings
  OwnServersSilent
PROPERTIES
  KeptUntilReplaced
  SquitEndsTask
