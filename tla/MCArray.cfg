SPECIFICATION Spec
CONSTANTS
  Element = {"a", "b"}
  PerPage = 2
  MaxElements = 5
INVARIANTS
  AssertionsHold
  OnlyEmptyIsUndefined
PROPERTIES
  ImplementsList
