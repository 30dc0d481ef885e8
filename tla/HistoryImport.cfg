SPECIFICATION FairSpec
CONSTANTS
  Sources <- MCSources
  AppWrites <- MCAppWrites
  Existing <- MCExisting
  Modes = {"merge", "final", "copy"}
  BatchSize = 2
  MaxDeaths = 1
  None = None
INVARIANTS
  TypeOK
  EverythingRecovered
  ReferencesResolve
  PreflightSuffices
PROPERTIES
  RerunChangesNothing
  Converges
CHECK_DEADLOCK FALSE
