SPECIFICATION Spec
CONSTANTS
  Conn = {c1}
  Req = {q1}
  Protocol = {"dial"}
  MaxRound = 1
INVARIANT ClientsUnderstand
CHECK_DEADLOCK FALSE
