SPECIFICATION SpecEither
CONSTANTS
    Order <- JustUdp
    Closed = TRUE
    OwChains = {"pre", "sub", "grd", "fwd", "cls", "unbound"}
    Interfaces = {"wg", "wan"}
    NoInterface = NoInterface
    Bits = {"a", "b"}
    NoMark = NoMark
    Tables = {"vpn", "main"}
    NoRoute = NoRoute
    MaxEdits = 2
    ReadLimit = 32
    Configurations <- EveryBinding
    Versions <- EditedRouters
INVARIANTS RevocationStopsOperations CleanupIsTrue  PathWasTaken
    SnapshotWasTrue FiltersAreTrue 
 
