CONSTANTS
  Clients = {p, q}
  VS_MAX = 2
  VsMax = 2
  Frames = {f, g}
  None = None
  Setups <- Both
SPECIFICATION Spec
SYMMETRY Symmetry
INVARIANTS TypeOK Registry NoTearing OnePass
PROPERTIES RefreshesAll
