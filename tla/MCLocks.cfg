SPECIFICATION LSpec
CONSTANTS
  p1 = p1
  p2 = p2
  r1 = r1
  r2 = r2
  w1 = w1
  w2 = w2
  CPUs <- MCCPUs
  Readers <- MCReaders
  Writers <- MCWriters
INVARIANTS
  InterruptsOffWhileHeld
  NoSelfDeadlock
  RWExclusion
  ReadersCounted
PROPERTIES
  LockReleased
  WriterNotStarvedByReaders
