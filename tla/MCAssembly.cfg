SPECIFICATION Spec
CONSTANTS
  Name = {"a", "b"}
  SectionName = {"s", "t"}
  Source <- MCSource
  EntSize <- MCEntSize
  PageWords <- MCPageWords
  MaxBy = 8
INVARIANTS
  LabelFindsWord
  RelocationFindsWord
  AlignmentIsMet
  VariablesDisjoint
