CONSTANTS
  Client = {c1, c2}
  Channel = {ch1, ch2}
  Commands = {"JOIN", "PART", "PRIVMSG", "WHO", "MODE", "LUSERS"}
  Slow = {c1}
  NoClient = NoClient
  NoChannel = NoChannel
SPECIFICATION FairSpec
CHECK_DEADLOCK FALSE
INVARIANTS
  ChannelLocks
  JoinComesToItself
  NoMemberServed
  CleanedUp
  MapStopsByWhoModeTimer
PROPERTIES
  StoppedForGood
  FrozenByMode
  EndsOrStops
