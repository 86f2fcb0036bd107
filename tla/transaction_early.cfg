SPECIFICATION Spec
CONSTANTS
  Methods = {"GET", "POST"}
  Refusable = {}
  NumRules = 1
INVARIANTS
  GzipOrIdentity
