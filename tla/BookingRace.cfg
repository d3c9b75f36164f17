SPECIFICATION Spec
CONSTANTS
  Bookings = {1, 2}
  Places = {"crane"}
  Slots <- TwoSlots
  Requests = {"first", "second"}
  Capacity = 2
  MaxBatch = 1
  Kinds = {"create", "status"}
  Roles = {"manager", "subcontractor"}
  Transitions <- OnlyApprovals
  Faults = {}
PROPERTY ApprovalsAreRaceSafe
CHECK_DEADLOCK FALSE
