SPECIFICATION Spec
CONSTANTS
  t1 = t1
  t2 = t2
  Turns = {t1, t2}
  Prompts = {t2}
  Directs = {d1}
  Names = {n1}
  NoSlug = NoSlug
  MaxFix = 1
  Steps <- MCSteps
  MaxFaults = 1
  Given = Given
  None = None
INVARIANT KeptAreAccepted
CHECK_DEADLOCK FALSE
