CONSTANTS
  Client = {c1, c2}
  Slow = {c1, c2}
  Nick <- MCNick
  Lower <- MCLower
  User = {u1}
  NoClient = NoClient
  NoNick = NoNick
  NoUser = NoUser
SPECIFICATION ConnFairSpec
CHECK_DEADLOCK FALSE
INVARIANTS
  LockDiscipline
  ListsAgree
PROPERTIES
  AnsweredAfterReadLoop
  FrozenForGood
  CleanupCompletes
  SendersReleased
