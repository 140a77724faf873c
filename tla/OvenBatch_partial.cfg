SPECIFICATION Spec
CONSTANTS
  Ids = {1, 2, 3, 4}
  Domains = {"suite", "other"}
  Authorities = {3}
  Batches = {{1, 2, 3}, {1}, {4}}
  DomainOf <- MCDomainOf
  Suite <- MCSuiteOf
  Logical <- MCOne
  Reserve <- MCOne
  Physical <- MCLarger
  MaxPhysical = 5
  MaxDomainPhysical = 3
  MaxDomainLogical = 3
  MaxClock = 1
PROPERTIES
  NeverExposesPartialSuite
