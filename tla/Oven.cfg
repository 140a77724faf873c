SPECIFICATION OvenSpec
CONSTANTS
  Ids = {1, 2, 3, 4}
  Domains = {"suite", "other"}
  Authorities = {3, 4}
  Batches = {{1, 2, 3}, {1}, {1, 4}, {3, 4}}
  DomainOf <- MCDomainOf
  Suite <- MCSuiteOf
  Logical <- MCOne
  Reserve <- MCOne
  Physical <- MCLarger
  MaxPhysical = 4
  MaxDomainPhysical = 4
  MaxDomainLogical = 4
  MaxClock = 1
  Child = child
  Descendants = {d1}
  Limit <- MCLimit
  MaxWritten <- MCMaxWritten
  PipeCapacity = 2
  Unset = Unset
INVARIANTS
  NobodySurvives
  TerminationIsTruthful
  CompletedIsUndisturbed
PROPERTIES
  AuthorityAfterDurableMembers
  LeasedSurvives
  SupervisionEnds
