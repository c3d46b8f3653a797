\* Three branches share two slots; cancel, timeout, shutdown, removed files.
SPECIFICATION FairSpec
CONSTANTS
  Deliverables <- Catalogue
  TextKinds <- Text
  Requests <- Usual
  Slots = 2
  MaxPurges = 1
INVARIANTS TypeOK FailuresIsolated CompletedDelivers ValidatedIsVerified ManifestIsFinal NothingLeftOpen
PROPERTIES RunEnds
CHECK_DEADLOCK FALSE
