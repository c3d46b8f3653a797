\* A connection that resumes, or just starts late, can lose the sequence.
\* A deleted run that is over has nothing left to do, hence no check for deadlock.
SPECIFICATION Spec
CONSTANTS
  Loop = loop
  Pool = {}
  Clients = {c1}
  QueueMax = 2
  MaxEvents = 4
  MaxCrashes = 0
  MaxDrops = 0
INVARIANTS NoGap
CHECK_DEADLOCK FALSE
