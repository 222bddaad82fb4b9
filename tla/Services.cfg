\* Two pages of two platforms, two clicks, and endpoints that move.  Liveness,
\* so no symmetry.
SPECIFICATION FairServicesSpec
CONSTANTS
  p1 = p1 p2 = p2 i1 = i1 i2 = i2 k1 = k1 k2 = k2 u1 = u1 u2 = u2 u3 = u3
  Call = {p1, p2}
  ClientId = {k1, k2}
  TokenUrl = {u1, u2, u3}
  Scopes = {nrps}
  Lifespan = 1
  MaxDelay = 1
  Size = 2
  Tries = 1
  MaxTime = 1
  Issuer = {i1, i2}
  Owner <- EndpointOwner
  Launches <- PageLaunches
  NrpsScope = nrps
  JwtLifetime = 0
  MaxClicks = 2
  Host = host
  None = none
INVARIANTS ServicesTypeOK OwnToken SubmittedOnce PageTells
PROPERTIES CallsAreServiceToken PageSettles
CHECK_DEADLOCK FALSE
