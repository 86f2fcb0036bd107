SPECIFICATION Spec
CONSTANTS
  Methods = {"GET"}
  Refusable = {"gzip"}
  NumRules = 1
INVARIANTS
  ClientCanDecode
