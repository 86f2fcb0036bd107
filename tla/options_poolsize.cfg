SPECIFICATION Spec
CONSTANTS
  Entries <- mcEntries
  YamlNodes <- mcYamlNodes
  Number <- mcNumber
  IntMax = 15
  Regexes = {"valid"}
  DisableKeys = {"DisablePagepseed"}
  GlobalOptions <- mcManyThreads
  RuleOptions <- mcPaths
  MaxArgs = 1
  MaxRules = 1
INVARIANTS
  FactoryAsConfigured
