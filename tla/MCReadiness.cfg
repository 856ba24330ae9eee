CONSTANTS
  None = None
  MaxLag = 4
  Interval = 2
  Delay = 1
  Offsets <- MCOffsets
  MaxDrift = 1
  MaxLines = 2
  MaxRestarts = 1
  Faults = {"query"}
SPECIFICATION FairSpec
INVARIANTS ReadinessTypeOK ReadyMeansRecent RecentSyncIsSeen
PROPERTY GateReopens
