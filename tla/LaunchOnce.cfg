\* atomic-lti-tool and atomic-lti-tool-axum: a failed DELETE ends the launch.
\* Requests of one login race for two states.  Liveness, so no symmetry.
SPECIFICATION FairSpec
CONSTANTS
  State = {s1, s2}
  Issuer = {i1}
  Browser = {b1}
  Request = {r1, r2}
  StateLifetime = 1
  CookieLifetime = 1
  MaxTime = 1
  PropagateDestroyError = TRUE
INVARIANT ConsumedStateIsGone
PROPERTIES ImplementsTicket EveryRequestEnds
CHECK_DEADLOCK FALSE
