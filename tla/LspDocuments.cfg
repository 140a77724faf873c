SPECIFICATION Spec
CONSTANTS
  Uris = {a, b}
  Handlers = {h1, h2}
  MaxVersion = 2
  MaxInbox = 2
  None = None
INVARIANTS
  DependencyUsesOpenContents
