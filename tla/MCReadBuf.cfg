SPECIFICATION Spec
CONSTANTS
  Text <- MCText
  MaxSize = 5
INVARIANTS
  CommentsAreRemoved
  NumberIsTrue
