SPECIFICATION Spec
CONSTANTS
  u1 = u1
  u2 = u2
  w1 = w1
  w2 = w2
  p1 = p1
  Uploads = {u1, u2}
  Projects = {p1}
  ProjectOf <- OneProject
  Workers = {w1}
  MaxAttempts = 3
  MaxClaims = 4
  Faults = {"crash", "beat", "stall", "db"}
  NoWorker = NoWorker
  NoUpload = NoUpload
SYMMETRY Symmetry
INVARIANTS
  CompletedNotFailed
  NeverDirty
  NoOrphanBlobs
  ProcessingHasJob
PROPERTIES
  SettledIsFinal
  QueueSpec
