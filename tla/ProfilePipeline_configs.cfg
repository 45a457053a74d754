SPECIFICATION Spec
CHECK_DEADLOCK FALSE
CONSTANTS
    MaxItems = 2
    Editions = {"windows", "macos", "android"}
    Bodies <- MCBodies
    Settings <- MCSettings
    Ports = {40001, 40002}
    Traffic <- MCTraffic
INVARIANTS
    DnsFollowsRoute
    UserDecides
    NothingWidened
    DialsProtected
    
