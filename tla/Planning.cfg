SPECIFICATION MCSpec
CONSTANTS
    None = None
    Activities <- AllActivities
    Caps = {80, 98}
    BookingSets <- MCBookingSets
    Pools <- MCPools
    Weeks = {0, 1, 2}
    Bell <- MCBell
    Blank = Blank
    Slots = 1
    BatchSize = 2
    Threshold = 2
    MaxParallel = 2
    AllTypes = {"crane", "hoist", "pump"}
    Keywords <- MCKeywords
    Phrases <- MCPhrases
    Replies <- MCReplies
    Detections <- MCDetections
    Files <- MCFiles
    Sample = 2
    KnownColumns <- MCKnownColumns
    Sites <- MCSites
    Trades <- MCTrades
    Supplied <- MCSupplied
    NeedsAi <- MCNeedsAi
    MaxContexts = 2
    GroupBatch = 2
INVARIANTS
    HoursPlaced
    SharesFollowWeights
    DashboardShowsAll
    BestAnswersWin
PROPERTIES
    QuotaStops
    ImportEnds
CHECK_DEADLOCK FALSE
