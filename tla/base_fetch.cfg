SPECIFICATION FairSpec
CONSTANTS
  Fetches = {f1, f2}
INVARIANTS
  TypeOK
  NoUseAfterDelete
PROPERTIES
  DeletedInTheEnd
  ImplementsSharedObject
