SPECIFICATION Spec
CONSTANTS
  Attempts = {a1, a2}
  Nobody = Nobody
  Missing = Missing
  Unreadable = Unreadable
  Stable = TRUE
  Current <- MCCurrent
  Here = "windows-amd64.zip"
  Releases <- MCReleases
  CoreReleases <- MCCoreReleases
  Expected <- MCExpected
  Feeds <- MCFeeds
  Installs <- MCInstalls
  OldCore = "1"
  MaxFaults = 2
  MaxTasks = 1
  MaxCrashes = 1
PROPERTIES
  AlwaysComplete
CHECK_DEADLOCK FALSE
