\* A run deleted while it executes comes back when it ends.
SPECIFICATION Spec
CONSTANTS
  Runs = {r1}
  MaxCrashes = 0
  MaxStops = 0
PROPERTIES DeletedStaysDeleted
CHECK_DEADLOCK FALSE
