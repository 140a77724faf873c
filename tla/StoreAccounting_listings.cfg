SPECIFICATION AccountingSpec
CONSTANTS
  Entries = {1, 2, 3}
  Nothing = Nothing
  FilesOf <- MCFilesOf
  SizeOf <- MCSizeOf
  StampBytes = 1
  Publications = {{1, 2}, {1}, {2}, {3}}
  Superseded = {3}
  PhysicalLimit = 5
  MaxFiles = 8
  MaxClock = 1
INVARIANT ListingsStayValid
