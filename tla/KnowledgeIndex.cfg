\* A run, its kb phase and two re-indexings, deletions, a crash, a removal.
SPECIFICATION Spec
CONSTANTS
  Runs = {r1}
  Reindexers = {t1, t2}
  Titles <- Names
  Contents <- Documents
  MaxCrashes = 1
  MaxRemovals = 1
INVARIANTS TypeOK IndexIsWhole OrphansExplained
PROPERTIES IndexSpec
CHECK_DEADLOCK FALSE
SYMMETRY ThreadSymmetry
