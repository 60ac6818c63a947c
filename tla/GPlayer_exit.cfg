CONSTANTS
  NumItems = 1
  Commands = {"exit", "next"}
  Options <- MCOptions
  MaxSent = 1
  MaxCommands = 1

SPECIFICATION FairSpec
PROPERTY ExitCompletes
CHECK_DEADLOCK FALSE
