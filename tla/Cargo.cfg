SPECIFICATION CargoSpec
CONSTANTS
  Processes = {p1, p2}
  Receipts = {plan, suite}
  Suites = {suite}
  Dirs = {1, 2}
  Nobody = Nobody
  Procs = {p1, p2}
  Domains = {d1}
  Inodes = {1, 2, 3, 4, 5, 6}
  MaxBytes = 0
  MaxEntryBytes = 1
  MaxSize = 2
  Paths = {a}
  None = None
INVARIANTS
  LiveStagingSurvives
  PublicationsDoNotOverlap
  NoSecondBake
  PruneSparesLeased
  MeasuredHidesNothing
  OneWorkerServesAll
PROPERTIES
  LocksAreReleased
  CacheManagerIsReleased
