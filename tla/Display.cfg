SPECIFICATION Spec
CONSTANTS
  WIDTH = 3
  HEIGHT = 16
  X <- MCX
  Y <- MCY
  Mode = {0, 2}
INVARIANTS DisplayTypeOK NoStrayStore
PROPERTY PixelsExact
