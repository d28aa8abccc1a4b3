SPECIFICATION Spec
CONSTANTS
  m1 = m1
  m2 = m2
  r1 = r1
  n1 = n1
  p1 = p1
  Runs = {m1, m2, r1}
  News = {n1}
  Answered = {m1, r1}
  Past = {p1}
  CopyOf <- MCCopyOf
  Keep = 1
  MaxFaults = 1
  None = None
PROPERTY NewPreservesHistory
CHECK_DEADLOCK FALSE
