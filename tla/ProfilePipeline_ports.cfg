SPECIFICATION Spec
CHECK_DEADLOCK FALSE
CONSTANTS
    MaxItems = 2
    Editions = {"windows", "macos", "android"}
    Bodies <- MCPortBodies
    Settings <- MCSettings
    Ports = {40001, 40002}
    Traffic <- MCTraffic
INVARIANTS
    LinksImported
