SPECIFICATION FairSpec
CONSTANTS
  Null = Null
  Name = {requests, errors}
  Threads = {t1, t2}
  Stat = {s1, s2}
  Values = {1}
  MaxValue = 1
  MaxVariables = 3
INVARIANTS
  TypeOK
  InsertionExclusive
  OneStatPerName
  HolderNeverWaits
PROPERTIES
  StatNeverReplaced
  ImplementsStatRegistry
  ConstructorsReturn
