SPECIFICATION Spec
CONSTANTS
  p1 = p1
  p2 = p2
  Procs = {p1, p2}
  Ids = {1, 2, 3}
  Domains = {"r1", "r2", "suite"}
  ReleaseDomains = {"r1", "r2"}
  None = None
  DomainOf <- MCSuite
  Content <- MCContent
  Logical <- MCLogical
  Physical <- MCPhysical
  Reserve <- MCReserve
  Ops = {"publish", "select", "prune", "reserve"}
  Plans = {}
  Batches = {{1, 3}}
  MaxPhysical = 3
  MaxDomainPhysical = 2
  MaxDomainLogical = 2
  ActiveRelease = "r2"
  Floor = 2
  MaxClock = 1
SYMMETRY ProcSymmetry
INVARIANTS
  SweepIsExhaustive
PROPERTIES
  EvictsOldestFirst
