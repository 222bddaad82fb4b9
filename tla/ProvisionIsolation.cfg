\* Two registrations on one platform whose client ids share eight characters.
SPECIFICATION Spec
CONSTANTS
  Launch = {l1, l2}
  Domain = {d1}
  Prefix = {h1}
  Rest = {x1, x2}
  Context = {c1}
  Title = {t1}
  User = {u1}
INVARIANT TenantIsolation
CHECK_DEADLOCK FALSE
