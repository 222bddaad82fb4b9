\* Three calls, two clients and one place in the cache; a grant is on its way
\* for no time or for a lifespan, and the clock runs to the end of both.
\* Liveness, so no symmetry.
SPECIFICATION FairSpec
CONSTANTS
  Call = {c1, c2, c3}
  ClientId = {k1, k2}
  TokenUrl = {u1}
  Scopes = {nrps}
  Lifespan = 1
  MaxDelay = 1
  Size = 1
  Tries = 2
  MaxTime = 3
INVARIANTS TypeOK NoSecondFetch
PROPERTIES ImplementsSyncCache RecentOnReturn EveryCallEnds
CHECK_DEADLOCK FALSE
