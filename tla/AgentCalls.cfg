SPECIFICATION FairSpec
CONSTANTS
  Calls <- const_Calls
  Analysis <- const_Analysis
  Budget = 2
  Batch = 2
  Skills = TRUE
INVARIANTS TypeOK BudgetExact InputsKept UsageExact NothingLeftRunning
PROPERTIES ThreadsEnd
CHECK_DEADLOCK FALSE
