\* Three launches with every mix of claims: registrations that agree or differ
\* in slug and in the rest, with and without a course and a title.
SPECIFICATION Spec
CONSTANTS
  Launch = {l1, l2, l3}
  Domain = {d1}
  Prefix = {h1, h2}
  Rest = {x1, x2}
  Context = {c1}
  Title = {t1, t2}
  User = {u1}
SYMMETRY Symmetry
INVARIANTS TypeOK OneTenantPerSlug DoneIsProvisioned ConflictMeansPresent
PROPERTY ImplementsDirectory
CHECK_DEADLOCK FALSE
