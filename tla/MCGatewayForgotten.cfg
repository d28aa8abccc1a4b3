SPECIFICATION Spec
CONSTANTS
  q1 = q1
  q2 = q2
  A = A
  B = B
  t = t
  Requests = {q1, q2}
  Scheduled = {q2}
  Names = {A, B}
  Tools = {t}
  Clams <- MCClams
  Within <- MCWithin
  MaxCommands = 1
  None = None
PROPERTIES WaitingIsResumed
CHECK_DEADLOCK FALSE
