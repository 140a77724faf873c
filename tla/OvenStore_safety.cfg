SPECIFICATION LiveSpec
CONSTANTS
  p1 = p1
  p2 = p2
  Procs = {p1, p2}
  Ids = {1, 2, 3, 4}
  Domains = {"r1", "r2"}
  ReleaseDomains = {"r1", "r2"}
  None = None
  DomainOf <- MCReleases
  Content <- MCContent
  Logical <- MCLogical
  Physical <- MCPhysical
  Reserve <- MCReserve
  Ops = {"publish", "execute", "published", "reserve"}
  Plans = {2, 3}
  Batches = {{1, 3}}
  MaxPhysical = 3
  MaxDomainPhysical = 2
  MaxDomainLogical = 2
  ActiveRelease = "r2"
  Floor = 2
  MaxClock = 0
INVARIANTS
  HandedOutIsLeased
  OwnStagingSurvives
PROPERTIES
  LeaseProtects
  OnlyImportsDuplicate
  KeepsPromise
  ManagerIsReleased
