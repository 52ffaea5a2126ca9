SPECIFICATION Spec
CONSTANT Jobs <- TwiceJobs
CHECK_DEADLOCK FALSE
INVARIANTS
  FixupAssertionsHold
