SPECIFICATION MigrationFairSpec
CONSTANTS
  Callers = {c1, c2}
  SourceFamilies = {"EMPTY", "MAIN_V8", "VERIFIED_UNVERSIONED", "INCOMPATIBLE"}
  MaxRows = 2
  MaxFaults = 2
INVARIANTS
  MigrationTypeOK
  NothingIsLost
  HistoryIsTrue
  CorruptIsLeftAlone
PROPERTIES
  ActiveIsForever
  EventuallyActive
