\* Four servers start together on an empty table, stop and start again: more
\* keys than get_key looks through or /jwks publishes, stamped in any order.
SPECIFICATION Spec
CONSTANTS
  Process = {p1, p2, p3, p4}
  VerifyLimit = 2
  PublishLimit = 3
  MaxTime = 3
SYMMETRY Symmetry
INVARIANTS TypeOK OneKeyPerServer VerifiedUnlessOutraced PublishedUnlessOutraced
CHECK_DEADLOCK FALSE
