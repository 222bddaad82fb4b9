\* atomic-decay: one request at a time, every mix of issuers, browsers, states,
\* tokens and cookies, with a cookie that expires before its state.
SPECIFICATION Spec
CONSTANTS
  State = {s1, s2}
  Issuer = {i1, i2}
  Browser = {b1, b2}
  Request = {r1}
  StateLifetime = 2
  CookieLifetime = 1
  MaxTime = 3
  PropagateDestroyError = FALSE
SYMMETRY Symmetry
INVARIANTS TypeOK LaunchBinding
CHECK_DEADLOCK FALSE
