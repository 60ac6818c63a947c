CONSTANTS
  NumItems = 2
  Commands = {"play", "stop", "pause", "seek", "rate", "next", "previous", "repeat", "exit"}
  Options <- MCOptions
  MaxSent = 2
  MaxCommands = 2

SPECIFICATION FairSpec
INVARIANTS TypeOK EosRendezvous PausedIsQuiet UriFollowsCurrent
PROPERTIES EosHandled ErrorEnds
CHECK_DEADLOCK FALSE
