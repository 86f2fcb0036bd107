SPECIFICATION Spec
CONSTANTS
  Entries <- mcEntries
  YamlNodes <- mcYamlNodes
  Number <- mcNumber
  IntMax = 127
  Regexes = {"missing", "invalid", "valid"}
  DisableKeys = {"DisablePagepseed"}
  GlobalOptions <- mcGlobalOptions
  RuleOptions <- mcRuleOptions
  MaxArgs = 2
  MaxRules = 2
INVARIANTS
  TypeOK
  RulesInFileOrder
  EnabledRulesInitialized
  ServesConfigured
  GlobalPathSuffices
  OwnPathSuffices
  OptionsAsWritten
  FactoryAsConfigured
