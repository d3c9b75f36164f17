SPECIFICATION FairSpec
CONSTANTS
  Bookings = {1, 2, 3}
  Places = {"crane", "lift"}
  Slots <- TwoSlots
  Requests = {"first", "second"}
  Capacity = 2
  MaxBatch = 2
  Kinds = {"create", "status"}
  Roles = {"subcontractor"}
  Transitions <- OnlyApprovals
  Faults = {}
INVARIANTS
  NoDoubleBooking
PROPERTIES
  DenialsHaveAWinner
  CallsEnd
CHECK_DEADLOCK FALSE
