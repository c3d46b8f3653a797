\* The loop and a pool thread emit; crashes, broken connections, full queues.
\* A deleted run that is over has nothing left to do, hence no check for deadlock.
SPECIFICATION FairSpec
CONSTANTS
  Loop = loop
  Pool = {t1}
  Clients = {c1}
  QueueMax = 2
  MaxEvents = 4
  MaxCrashes = 1
  MaxDrops = 1
INVARIANTS TypeOK SeqContiguous
PROPERTIES OrderedDelivery EventuallyCaughtUp StreamEnds LogSpec
CHECK_DEADLOCK FALSE
