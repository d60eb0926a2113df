SPECIFICATION Spec
CONSTANTS
    None = None
    Slots = {s1, s2}
    \* Sets of different kinds share these values; one permutation renames
    \* them in all of the sets.
    Pair = {x1, x2}
    Others = {y1, y2}
    SeasonNames = {q1}
    \* PluginReleases
    Versions = {x1, x2}
    Builds = {y1, y2}
    \* Accounts
    Rows = {a1, x1, x2}
    AdminRow = a1
    People = {p1, p2}
    AdminPerson = p2
    Somebody = p1
    Platforms = {w1}
    Platform = w1
    Tokens <- Presented
    Granted <- FromWebsite
    States = {o1}
    Patches = {"roles", "platform", "identity"}
    MaxEdits = 1
    \* Seasons
    Players = {x1, x2}
    RankedMatches = {y1, y2}
    StartingMmr = 2
    DefaultMmr = 1
    Results <- Computed
    Corrections <- DecidedByModerator
    MaxModerations = 2
    MaxWrites = 2
    \* Catalogue
    Pools = {x1, x2}
    Maps = {y1, y2}
    Charts = {x1, x2}
    Categories = {c1}
    Queues = {u1}
    Deals = {g1}
    DealSize = 2
    MaxWaiting = 2
    \* Sockets
    Users = {x1, x2}
    Processes = {y1, y2}
    Connections = {c1}
    Fixtures = {f1}
    MaxRound = 2
SYMMETRY Symmetry
INVARIANTS
    ReleasesTypeOK
    ListedMatchesFile
    AccountsTypeOK
    
    SeasonsTypeOK
    PlayersAreRated
    RatingMatchesHistory
    StreakOfOneColour
    CatalogueTypeOK
    DealtFromMatchPool
    NothingDangles
    SocketsTypeOK
    SubscribedToOwnMatch
    PickerSeesCards
    ResultReachesProcess
PROPERTIES
    OtherVersionsKept
