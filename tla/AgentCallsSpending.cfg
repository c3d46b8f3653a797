\* A thread goes on after the wall clock limit has ended its run.
SPECIFICATION Spec
CONSTANTS
  Calls <- const_Calls
  Analysis <- const_Analysis
  Budget = 2
  Batch = 2
  Skills = TRUE
PROPERTIES SpendingEnds
CHECK_DEADLOCK FALSE
