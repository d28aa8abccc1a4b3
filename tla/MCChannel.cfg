SPECIFICATION FairSpec
CONSTANTS
  m1 = m1
  n1 = n1
  d1 = d1
  q1 = q1
  Messages = {m1, n1, d1}
  Commands = {n1}
  Denied = {d1}
  WithFile = {m1}
  Misses = {m1}
  Questions = {q1}
  Asker <- MCAsker
  Chunks <- MCChunks
  Phases <- MCPhases
  MaxTaps = 2
  DoneLimit = 1
  MaxFaults = 2
  None = None
INVARIANTS TypeOK RestIsClean AnswerWhole AnsweredOnce
PROPERTIES TypingEnds
CHECK_DEADLOCK FALSE
