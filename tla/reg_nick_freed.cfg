CONSTANTS
  Client = {c1, c2}
  Nick <- MCNick
  Lower <- MCLower
  User = {u1}
  NoClient = NoClient
  NoNick = NoNick
  NoUser = NoUser
SPECIFICATION FairSpec
CHECK_DEADLOCK FALSE
PROPERTY DisconnectFreesNick
