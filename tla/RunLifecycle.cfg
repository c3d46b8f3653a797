\* One run; the service may crash, and be stopped, twice.
SPECIFICATION FairSpec
CONSTANTS
  Runs = {r1}
  MaxCrashes = 2
  MaxStops = 2
INVARIANTS TypeOK AtMostOneDone DoneAgreesWithRow EarlyCancelHonoured
PROPERTIES RecordSpec PhaseSpec EveryRunSettles
CHECK_DEADLOCK FALSE
