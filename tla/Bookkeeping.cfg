SPECIFICATION BookkeepingSpec
CONSTANTS
  p1 = p1
  p2 = p2
  Procs = {p1, p2}
  Ids = {1, 2, 3}
  Domains = {"app", "lib"}
  Partitions = {"app"}
  None = None
  DomainOf <- MCDomainOf
  Files <- MCFiles
  FileBytes <- MCFileBytes
  Batches = {{1, 2}}
  MaxPhysical = 3
  MaxDomainPhysical = 3
  Entries = {1, 2, 3}
  Nothing = Nothing
  FilesOf <- MCFilesOf
  SizeOf <- MCSizeOf
  StampBytes = 1
  Publications = {{1, 2}, {1}, {2}, {3}}
  Superseded = {3}
  PhysicalLimit = 5
  MaxFiles = 8
  MaxClock = 1
SYMMETRY Symmetry
INVARIANTS
  CatalogIsCurrent
  CapacityNeverUnderstates
  InspectionIsExact
  PruneIsAnnounced
PROPERTIES
  AdmissionIsSwept
  PruneReachesTarget
