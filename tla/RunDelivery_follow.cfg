SPECIFICATION FairSpec
CONSTANTS
  Run = Run
  Notices = {"output"}
  Outcomes = {"completed"}
  OutCap = 6
  SubCap = 2
  WireCap = 1
  MaxEvents = 5
  MaxDrops = 1
  MaxReplies = 2
INVARIANTS
  NoGapNoDuplicate
PROPERTIES
  CatchesUp
CHECK_DEADLOCK FALSE
