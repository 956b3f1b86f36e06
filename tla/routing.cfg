SPECIFICATION RoutingSpec
CONSTANTS
    i1 = i1
    i2 = i2
    i3 = i3
    writer = writer
    r1 = r1
    m1 = m1
    m2 = m2
    k1 = k1
    None = None
    Instance = {i1, i2, i3}
    Agent = {writer}
    ContextRange <- Ranges
    Length <- Lengths
    Offer <- ThreeOffer
    AgentId = writer
    RouteCall = {r1}
    MigrateCall = {m1, m2}
    Key = {k1}
    KeyOf <- OneKey
    Tokens <- SameTokens
    InputLength <- RouteLength
    TotalLength <- Totals
    Source <- FromShort
    BlockSize = 2
    CacheStates <- LoadStates
    Worlds <- MigrateOrRoute
INVARIANTS
    MigrationGrows
    RouteReuses
PROPERTIES
    NoMissedMigration
