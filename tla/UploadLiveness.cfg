SPECIFICATION FairSpec
CONSTANTS
  u1 = u1
  u2 = u2
  w1 = w1
  w2 = w2
  p1 = p1
  Uploads = {u1}
  Projects = {p1}
  ProjectOf <- OneProject
  Workers = {w1, w2}
  MaxAttempts = 2
  MaxClaims = 5
  Faults = {"crash", "beat", "stall", "web"}
  NoWorker = NoWorker
  NoUpload = NoUpload
PROPERTIES
  OnlyOwnerSettles
  EveryJobSettles
