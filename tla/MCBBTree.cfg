SPECIFICATION Spec
CONSTANTS
  Table <- SymbolsAndMacros
INVARIANTS
  SearchFinds
  RedBlack
PROPERTIES
  InsertEnds
