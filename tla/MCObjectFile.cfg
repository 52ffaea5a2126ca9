SPECIFICATION FairSpec
CONSTANTS
  NPages = 3
  PageStart <- MCPageStart
  NRel = 2
  Layouts <- MCLayouts
INVARIANTS
  LocalsFirst
  RelocationKeepsSymbol
  PartsApart
PROPERTIES
  IsEnded
