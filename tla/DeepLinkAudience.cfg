\* A deep linking launch: two platforms, one click.
SPECIFICATION ServicesSpec
CONSTANTS
  p1 = p1 p2 = p2 i1 = i1 i2 = i2 k1 = k1 k2 = k2 u1 = u1 u2 = u2 u3 = u3
  Call = {p1, p2}
  ClientId = {k1, k2}
  TokenUrl = {u1, u2, u3}
  Scopes = {nrps}
  Lifespan = 1
  MaxDelay = 1
  Size = 2
  Tries = 1
  MaxTime = 1
  Issuer = {i1, i2}
  Owner <- EndpointOwner
  Launches <- PageLaunches
  NrpsScope = nrps
  JwtLifetime = 0
  MaxClicks = 1
  Host = host
  None = none
INVARIANT ResponseAddressesPlatform
CHECK_DEADLOCK FALSE
