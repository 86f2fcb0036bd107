SPECIFICATION Spec
CONSTANTS
  Methods = {"GET", "POST"}
  Refusable = {}
  NumRules = 2
INVARIANTS
  TypeOK
  BodyMatchesHeaders
  ClientCanDecode
  FirstRuleGoverns
  ResumedOnce
PROPERTIES
  TransactionEnds
