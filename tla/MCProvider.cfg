SPECIFICATION Spec
CONSTANTS
  a1 = a1
  a2 = a2
  n1 = n1
  f1 = f1
  f2 = f2
  f3 = f3
  None = None
  Placeholder = Placeholder
  Calls = {a1, a2, n1}
  Named = {n1}
  Discoverable = TRUE
  Insecure = TRUE
  Offers <- MCOffers
  Items = {f1, f2, f3}
  Response <- MCResponse
  Pieces = 2
  ByItemId = {f3}
  Repeated = {f3}
  MaxFaults = 2
INVARIANTS CallsWhole
PROPERTIES DefaultSettles
CHECK_DEADLOCK FALSE
