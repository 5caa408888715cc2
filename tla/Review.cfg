SPECIFICATION Spec
CONSTANTS
  c1 = c1
  c2 = c2
  k1 = k1
  k2 = k2
  k3 = k3
  None = None
  Cartelas = {c1, c2}
  Claims = {k1, k2, k3}
  CartelaOf <- MCCartelaOf
INVARIANTS
  PrizePaidOnce
  OneVerdict
  RefundedOnce
CHECK_DEADLOCK FALSE
