SPECIFICATION FairSpec
CONSTANTS
  Conn = {c1, c2}
  Req = {q1, q2}
  Protocol = {"convo"}
  MaxRound = 1
INVARIANTS Accounted AnswersRight
PROPERTY AllAnswered
CHECK_DEADLOCK FALSE
