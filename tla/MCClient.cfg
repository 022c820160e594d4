SPECIFICATION FairSpec
CONSTANTS
  Peer = {me, bob}
  Me = me
  DialCap = 1
  TextCap = 1
  Slots <- MCSlots
  MaxDials = 2
  MaxTexts = 2
  MaxTalks = 1
  None = None
INVARIANT CommandsAccounted
PROPERTIES CoverTraffic Responsive
CHECK_DEADLOCK FALSE
