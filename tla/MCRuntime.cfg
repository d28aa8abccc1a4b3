SPECIFICATION FairSpec
CONSTANTS
  t1 = t1
  t2 = t2
  r1 = r1
  r2 = r2
  a1 = a1
  a2 = a2
  read = read
  write = write
  Turns = {t1, t2}
  Runs = {r1, r2}
  Requests = {read, write}
  Approvals = {a1, a2}
  Scripted <- MCScripted
  Inferred <- MCInferred
  Offered <- MCOffered
  Always = {}
  AllowAlways = TRUE
  None = None
INVARIANTS TypeOK UnansweredNeverRuns
PROPERTIES KeepsPolicy HumanGetsTime ExecuteReturns AskReturns
CHECK_DEADLOCK FALSE
