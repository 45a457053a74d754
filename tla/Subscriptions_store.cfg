SPECIFICATION Spec
CONSTANTS
    Editions = {"desktop", "android"}
    Tasks = {t1, t2}
    Urls = {"u1"}
    Legacy <- MCLegacy
    Names = {"Subscription"}
    Payloads <- MCPayloads
    Texts = {"", "plain", "Subscription", "base64:plain", "u1", "u2"}
    Keys = {1, 2}
    InitialFiles <- MCInitialFiles
    InitialAutos = {0}
    Commands = {"add", "refresh", "edit", "migrate", "hwid", "check", "invalidate"}
    MaxCommands = 3
    t1 = t1
    t2 = t2
SYMMETRY Symmetry
INVARIANTS
  GoneStaysGone
  SelectionValid
  LaunchIsCurrent
PROPERTY
  OneAtATime
CHECK_DEADLOCK FALSE
