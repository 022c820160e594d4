SPECIFICATION Spec
CONSTANTS
  MaxRound = 1
  MaxTexts <- MCTexts
  MaxSwitches <- MCSwitches
  QueueCap = 1
  SizeMessage = 2
  Lengths <- MCLengths
  None = None
  Timestamp = Timestamp
INVARIANTS ShownRight Exchanged TextAccounted LeftoverOnlyOnSwitch HandlerFollowsGui
CHECK_DEADLOCK FALSE
