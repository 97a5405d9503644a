SPECIFICATION Spec
CONSTANTS
    Chains = {"pre", "sub", "grd", "fwd", "cls", "unbound"}
    Interfaces = {"wg", "wan"}
    NoInterface = NoInterface
    Bits = {"a", "b"}
    NoMark = NoMark
    Tables = {"vpn", "main"}
    NoRoute = NoRoute
    Configurations <- Returning
    Versions <- Edited
    MaxEdits = 0
    ReadLimit = 32
CHECK_DEADLOCK FALSE
INVARIANT PolicyIsTrue
