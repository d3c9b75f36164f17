SPECIFICATION Spec
CONSTANTS
    b1 = b1
    m1 = m1
    m2 = m2
    m3 = m3
    s1 = s1
    s2 = s2
    None = None
    Sessions = {s1, s2}
    Bookings = {b1}
    Types <- MCTypes
    Uploads = {1, 2}
    Mappings = {m1, m2, m3}
    UploadOf <- MCUploadOf
    Hours <- MCHours
    FirstType <- MCFirstType
    Activities <- MCActivities
    BookingHours <- MCBookingHours
    BookingSub <- MCBookingSub
    Assigned <- MCAssigned
    MinDemand = 8
    MinGap = 8
    PerSub = 1
    PerProject = 2
    LeadDay = 2
    DayOf <- MCDayOf
    MaxCalls = 3
SYMMETRY Symmetry
INVARIANTS
    FreshHoursAreBooked
    AlertsAreWarranted
CHECK_DEADLOCK FALSE
