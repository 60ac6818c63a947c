CONSTANTS
  Clients = {p, q}
  VS_MAX = 2
  VsMax = 2
  Frames = {f, g}
  None = None
  Setups <- OnlyShared
SPECIFICATION Spec
PROPERTIES LaterPassesRefresh
