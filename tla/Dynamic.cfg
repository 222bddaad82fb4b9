\* Two tabs that register the tool at two platforms.
SPECIFICATION DynamicSpec
CONSTANTS
  Process = {p1, p2}
  i1 = i1
  i2 = i2
  e1 = e1
  e2 = e2
  e3 = e3
  Issuer <- MCIssuer
  Client = {c1}
  Seeds <- NoSeeds
  MaxId = 2
  Names = {"tool"}
  Endpoint = {e1, e2, e3}
  Owner <- EndpointOwner
  Family = {"canvas", ""}
  TokenOf <- Tokens
  Front <- ToolFronts
SYMMETRY Symmetry
INVARIANTS DynamicTypeOK RegisteredAsInvited RegisteredToolLaunches
PROPERTIES StoresAsRegistration
CHECK_DEADLOCK FALSE
