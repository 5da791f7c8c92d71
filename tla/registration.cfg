CONSTANTS
  Client = {c1, c2, c3}
  Nick <- MCNick
  Lower <- MCLower
  User = {u1, u2}
  NoClient = NoClient
  NoNick = NoNick
  NoUser = NoUser
SYMMETRY Symmetry
SPECIFICATION Spec
CHECK_DEADLOCK FALSE
INVARIANTS
  KeysExact
  NickUnique
  RegisteredIffNamed
  TimerFollowsRegistration
PROPERTIES
  RegistrationIsFinal
  DirectorySpec
