SPECIFICATION FairSpec
CONSTANTS
  q1 = q1
  q2 = q2
  A = A
  B = B
  t = t
  Requests = {q1, q2}
  Scheduled = {q2}
  Names = {A, B}
  Tools = {t}
  Clams <- MCClams
  Within <- MCWithin
  MaxCommands = 1
  None = None
INVARIANTS TypeOK ResumedOnce
PROPERTIES NotAskedAgain AnswerGetsThrough Settles
CHECK_DEADLOCK FALSE
