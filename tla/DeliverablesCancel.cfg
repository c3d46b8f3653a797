\* A cancellation during generation stops branches, not the run.
SPECIFICATION Spec
CONSTANTS
  Deliverables <- Catalogue
  TextKinds <- Text
  Requests <- Usual
  Slots = 2
  MaxPurges = 1
INVARIANTS CheckpointStopsRun
CHECK_DEADLOCK FALSE
