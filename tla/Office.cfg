SPECIFICATION Spec
CONSTANTS
    m1 = m1
    m2 = m2
    m3 = m3
    s1 = s1
    s2 = s2
    b1 = b1
    b2 = b2
    ann = ann
    max = max
    tv = tv
    p1 = p1
    p2 = p2
    k1 = k1
    k2 = k2
    k3 = k3
    k4 = k4
    site = site
    other = other
    a1 = a1
    f1 = f1
    tower = tower
    lift = lift
    wires = wires
    pipes = pipes
    Unset = Unset
    Projects = {site, other}
    Fleet = {a1}
    Firms = {f1}
    GlobalTypes = {tower, lift}
    TypeHints <- MCTypeHints
    TradeHints <- MCTradeHints
    Slugs = {"mast", "boom"}
    MaxSuffix = 2
    Trades = {wires, pipes}
    Crew <- MCCrew
    Used <- MCUsed
    Demand = {}
    None = None
    Missing = Missing
    Sessions = {s1, s2}
    MaxCalls = 3
    Mappings = {m1, m2, m3}
    Types = {"crane", "hoist"}
    Bookings = {b1, b2}
    Slots = {1, 2}
    Imported <- MCImported
    Users = {ann, max, tv}
    Companies = {"cranes", "hoists"}
    Roles0 <- MCRoles
    Rows0 <- MCRows
    Lists <- MCLists
    Work0 <- MCWork0
    Jobs = {1}
    Labels = {"holiday", "rain"}
    Accounts = {ann, max, "cranes"}
    Owners = {ann, max}
    TokenIds = {k1, k2, k3, k4}
    Issued <- MCIssued
    Accounts0 <- MCAccounts0
    Processes = {p1, p2}
    Keep = 1
    MaxTime = 4
SYMMETRY Symmetry
INVARIANTS
    OrphansAreExplained
    ReadyMeansPlannable
PROPERTIES
    ManagersStay
    ConfirmationsStay
    WorkKeepsCompany
    RevocationsHold
CHECK_DEADLOCK FALSE
