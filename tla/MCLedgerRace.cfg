\* Debits overlap: the allowance.
CONSTANTS
  Identities = {i1, i2}
  Keys = {k1, k2, k3}
  Amounts = {10, 20}
  Limit = 20
  Requests = {r1, r2}
  None = None
SPECIFICATION Spec
SYMMETRY Interchangeable
CHECK_DEADLOCK FALSE
INVARIANTS WithinAllowance
