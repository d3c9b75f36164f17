SPECIFICATION FairSpec
CONSTANTS
  t1 = t1
  t2 = t2
  Ticks <- TwoTicks
  Days = 2
  Faults = {"crash", "db", "recycle"}
  MaxFaults = 3
INVARIANTS
  RunsExclusive
PROPERTIES
  SuccessIsFinal
  RunsAreSettled
  FailuresAreRetried
