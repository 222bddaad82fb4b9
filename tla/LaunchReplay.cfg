\* atomic-decay: a launch goes on after its DELETE failed.
SPECIFICATION Spec
CONSTANTS
  State = {s1}
  Issuer = {i1}
  Browser = {b1}
  Request = {r1, r2}
  StateLifetime = 1
  CookieLifetime = 1
  MaxTime = 1
  PropagateDestroyError = FALSE
SYMMETRY Symmetry
PROPERTY NoLookupAfterConsumption
CHECK_DEADLOCK FALSE
