\* Two processes that register, seed and administer two platforms.
SPECIFICATION Spec
CONSTANTS
  Process = {p1, p2}
  i1 = i1
  i2 = i2
  Issuer <- MCIssuer
  Client = {c1}
  Seeds <- MCSeeds
  MaxId = 2
SYMMETRY Symmetry
INVARIANTS TypeOK OwnEndpoints ClientsAreRecorded
PROPERTIES OnlyItsOwnUpdates RegisteringAgainKeeps
CHECK_DEADLOCK FALSE
