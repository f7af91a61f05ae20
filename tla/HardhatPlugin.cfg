SPECIFICATION FairPluginSpec
CONSTANTS
  Caller = {c1, c2}
  Socket = {1, 2}
  MaxRequest = 3
  Nil = Nil
INVARIANTS AnswersArrive ReturnedIsKnown
PROPERTIES CallsEnd
CHECK_DEADLOCK FALSE
