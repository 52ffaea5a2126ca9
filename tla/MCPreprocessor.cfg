SPECIFICATION FairSpec
CONSTANTS
  Address <- MCAddress
  LineNumbers <- MCLineNumbers
  MaxIncludes = 3
  MaxLines = 4
  MaxConditions = 3
  MaxSources = 2
INVARIANTS
  SelectsWhatIsMeant
  FirstIsOldest
  LocationIsRight
  ReadToEnd
PROPERTIES
  PopEnds
