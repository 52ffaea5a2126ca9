SPECIFICATION Spec
CONSTANT Jobs <- MCJobs
CHECK_DEADLOCK FALSE
INVARIANTS
  WordIsLinked
  ErrorIsTold
  ConstantIsMeant
