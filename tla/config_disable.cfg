SPECIFICATION Spec
CONSTANTS
  Entries <- mcEntries
  YamlNodes <- mcYamlNodes
  Number <- mcNumber
  IntMax = 127
  Regexes = {"valid"}
  DisableKeys = {"DisablePagespeed", "DisablePagepseed"}
  GlobalOptions <- mcPaths
  RuleOptions <- mcPaths
  MaxArgs = 1
  MaxRules = 1
INVARIANTS
  DisableHonoured
