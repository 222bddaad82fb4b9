\* Two launches, two platforms with up to two keys each, answers that take as
\* long as an entry lives, and a clock that runs to the end of both.  Liveness, so no
\* symmetry.
SPECIFICATION FairSpec
CONSTANTS
  Launch = {l1, l2}
  Url = {u1, u2}
  Lifespan = 1
  MaxDelay = 1
  MaxKeys = 2
  MaxTime = 2
INVARIANTS TypeOK AcceptedIsRecent RefusedIsRecent
PROPERTIES ImplementsSyncCache NeverOlder EveryLaunchIsAnswered
CHECK_DEADLOCK FALSE
