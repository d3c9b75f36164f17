SPECIFICATION Spec
CONSTANTS
  Bookings = {1, 2, 3}
  Places = {"crane"}
  Slots <- ChainedSlots
  Requests = {"call"}
  Capacity = 1
  MaxBatch = 2
  Kinds = {"create", "update", "status", "delete", "reschedule"}
  Roles = {"manager", "subcontractor"}
  Transitions <- AnyTransition
  Faults = {"db", "maintenance"}
PROPERTIES
  ChecksPreventDoubleBooking
  ChecksKeepCapacity
  OnlyUpdatesReopen
CHECK_DEADLOCK FALSE
