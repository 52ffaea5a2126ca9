SPECIFICATION FairSpec
CONSTANT Sources <- MCSources
CHECK_DEADLOCK FALSE
INVARIANTS
  ExpandsAsMeant
PROPERTIES
  Ends
