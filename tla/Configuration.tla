--------------------------- MODULE Configuration ----------------------------
(***************************************************************************)
(* The start of the plugin: TSPluginInit (src/src/ats_pagespeed.cpp:282),  *)
(* loadConfig, readYamlConfigFile and the reading of one rule              *)
(* (src/src/ats_pagespeed_configuration.cpp:81-254), up to the point where *)
(* the global plugin registers its hook and transactions use the rules.    *)
(* RewriteOptions says what the options of the file and of a rule do.      *)
(*                                                                         *)
(* ATS calls TSPluginInit once, before it serves.  What can vary is the    *)
(* command line and the configuration file.                                *)
(***************************************************************************)
EXTENDS RewriteOptions

CONSTANTS
  Regexes,         \* what UrlRegex of a rule can be
  DisableKeys,     \* the keys that can be set to true in a rule
  GlobalOptions,   \* what GlobalPagespeedOptions can hold: maps of options
  RuleOptions,     \* the same for PagespeedOptions of a rule
  MaxArgs,         \* bound: command line arguments
  MaxRules         \* bound: entries of the Rules section

ASSUME ConfigurationAssumption ==
  /\ Regexes \subseteq {"missing", "invalid", "valid"}
  /\ DisableKeys \subseteq {"DisablePagespeed", "DisablePagepseed"}
  /\ \A node \in GlobalOptions \cup RuleOptions :
       node \in [DOMAIN node -> YamlNodes]
  /\ MaxArgs \in Nat /\ MaxRules \in Nat

(* An entry of the Rules section. *)
Nodes == [regex : Regexes, keys : SUBSET DisableKeys, options : RuleOptions]

(* Arguments: --pagespeed-config=FILE, the same without a file, or others. *)
Args == {"config", "malformed", "other"}

UpTo(n, T) == UNION {[1 .. k -> T] : k \in 0 .. n}

NoOptions == << >>

VARIABLES
  argv,            \* the command line
  file,            \* the state of the configuration file, once it is opened
  globalNode,      \* its GlobalPagespeedOptions
  nodes,           \* its Rules section
  pc,              \* where TSPluginInit is
  next,            \* the loop index of the loop it is in
  options,         \* global_config.options
  defaults,        \* the driver factory's default options
  factory,         \* the driver factory's settings
  objects,         \* the fetcher and worker pool it has made, once it has
  contexts,        \* the options of the server context of each entry read
  rules,           \* PagespeedRegexRules
  factoryReady,    \* driver_factory->Init() was called
  hook             \* the global plugin listens for HOOK_SEND_REQUEST_HEADERS

document == <<file, globalNode, nodes>>
settings == <<options, defaults, factory>>
loaded == <<objects, contexts, rules>>
vars == <<argv, document, pc, next, settings, loaded, factoryReady, hook>>

Init ==
  /\ argv \in UpTo(MaxArgs, Args)
  /\ file = "unopened" /\ globalNode = NoOptions /\ nodes = << >>
  /\ pc = "args"
  /\ next = 1
  /\ options = NewRewriteOptions /\ defaults = NewRewriteOptions
  /\ factory = NewFactory
  /\ objects = {}
  /\ contexts = << >>
  /\ rules = << >>
  /\ factoryReady = FALSE
  /\ hook = FALSE

-----------------------------------------------------------------------------
(* loadConfig: the first argument that names the option decides. *)
ScanArg ==
  /\ pc = "args"
  /\ next <= Len(argv)
  /\ CASE argv[next] = "config"    -> pc' = "open" /\ next' = 1
       [] argv[next] = "malformed" -> pc' = "failed" /\ UNCHANGED next
       [] argv[next] = "other"     -> next' = next + 1 /\ UNCHANGED pc
  /\ UNCHANGED <<argv, document, settings, loaded, factoryReady, hook>>

NoConfigArg ==
  /\ pc = "args"
  /\ next > Len(argv)
  /\ pc' = "failed"
  /\ UNCHANGED <<argv, document, next, settings, loaded, factoryReady, hook>>

(* readYamlConfigFile up to its global options. *)
OpenFile ==
  /\ pc = "open"
  /\ \/ /\ file' = "unreadable" /\ pc' = "failed"
        /\ UNCHANGED <<globalNode, nodes>>
     \/ /\ file' \in {"no rules", "complete"} /\ pc' = "globals"
        /\ globalNode' \in GlobalOptions
        /\ nodes' \in IF file' = "complete" THEN UpTo(MaxRules, Nodes)
                      ELSE {<< >>}
  /\ UNCHANGED <<argv, next, settings, loaded, factoryReady, hook>>

SetGlobals(withDefaults) ==
  /\ pc = "globals"
  /\ LET set == SetOptionsFromOptionsMap([options |-> options,
                                          factory |-> factory],
                                         TRUE, ReadOptions(globalNode))
     IN  /\ options' = set.options
         /\ factory' = set.factory
  /\ defaults' = IF withDefaults THEN Merge(defaults, options') ELSE defaults
  /\ pc' = IF file = "no rules" THEN "failed" ELSE "rules"
  /\ UNCHANGED <<argv, document, next, loaded, factoryReady, hook>>

(* Mutant: the driver factory's defaults are not merged. *)
GlobalsNotMerged == SetGlobals(FALSE)

(* The global options and the driver factory's defaults are set before it  *)
(* is known whether the file has rules at all.                             *)
ApplyGlobals == SetGlobals(TRUE)

-----------------------------------------------------------------------------
(* The reading of one rule. *)

(* The only key operator>> looks for, as it is spelled there. *)
Disables(node) == "DisablePagepseed" \in node.keys

(* operator>> returns before it reads the rule's own options when the      *)
(* regex does not compile or the rule disables PageSpeed.  Otherwise it    *)
(* merges them into the server context, and initializes that.              *)
ReadsOptions(node) == node.regex = "valid" /\ ~Disables(node)

(* rule_options is a clone of the global options; whether the rule's own   *)
(* may change the driver factory is what given says.                       *)
SetRuleOptions(node, given) ==
  IF ReadsOptions(node)
  THEN SetOptionsFromOptionsMap([options |-> Clone(options),
                                 factory |-> factory],
                                given, ReadOptions(node.options))
  ELSE [options |-> Clone(options), factory |-> factory]

(* Mutant: a rule's options reach the driver factory as the global ones do. *)
SetFactoryToo(node) == SetRuleOptions(node, TRUE)

RuleSettings(node) == SetRuleOptions(node, FALSE)

(* Mutant: the factory's defaults are merged over the rule's options.      *)
MergedUnder(node) ==
  IF ReadsOptions(node) THEN Merge(RuleSettings(node).options, defaults)
  ELSE defaults

(* The options of the rule's server context start as the factory's         *)
(* defaults.                                                               *)
RuleContext(node) ==
  IF ReadsOptions(node) THEN Merge(defaults, RuleSettings(node).options)
  ELSE defaults

(* AtsServerContext::Init has the factory make what it needs; the first    *)
(* time for all.                                                           *)
InitServerContext(f) ==
  IF objects # {} THEN objects
  ELSE {[fetcher |-> DefaultAsyncUrlFetcher(f), threads |-> CreateWorkerPool(f)]}

(* Mutant: only a rule with options of its own is initialized. *)
LoadedUninitialized(i) ==
  [entry |-> i, disabled |-> Disables(nodes[i]),
   initialized |-> ReadsOptions(nodes[i]) /\ nodes[i].options # NoOptions]

LoadedRule(i) ==
  [entry |-> i, disabled |-> Disables(nodes[i]),
   initialized |-> ReadsOptions(nodes[i])]

(* Mutant: a rule is accepted whatever its cache path is. *)
AcceptsAnyPath(node, context) == node.regex = "valid"

Accepts(node, context) ==
  node.regex = "valid" /\ context.FileCachePath = <<"directory">>

PushRule(list) ==
  /\ pc = "rules"
  /\ next <= Len(nodes)
  /\ LET node == nodes[next]
         context == RuleContext(node)
     IN  /\ factory' = RuleSettings(node).factory
         /\ objects' = IF ReadsOptions(node) THEN InitServerContext(factory')
                       ELSE objects
         /\ contexts' = [i \in 1 .. next |->
                           IF i = next THEN context ELSE contexts[i]]
         /\ rules' = IF Accepts(node, context) THEN list ELSE rules
  /\ next' = next + 1
  /\ UNCHANGED <<argv, document, pc, options, defaults, factoryReady, hook>>

(* Mutant: push_front. *)
ReadRuleFirst == PushRule(<<LoadedRule(next)>> \o rules)

(* One turn of the loop over the Rules section. *)
ReadRule == PushRule(Append(rules, LoadedRule(next)))

-----------------------------------------------------------------------------
Loaded(to) ==
  /\ pc = "rules"
  /\ next > Len(nodes)
  /\ pc' = to
  /\ UNCHANGED <<argv, document, next, settings, loaded, factoryReady, hook>>

(* Mutant: the hook is registered without driver_factory->Init(). *)
SkipsFactory == Loaded("register")

RulesRead == Loaded("factory")

(* AtsRewriteDriverFactory::Init: no server context is left to initialize. *)
FactoryInit == factoryReady' = TRUE

(* TSPluginInit after loadConfig: a failure leaves the plugin unregistered. *)
InitFactory ==
  /\ pc = "factory"
  /\ FactoryInit
  /\ pc' = "register"
  /\ UNCHANGED <<argv, document, next, settings, loaded, hook>>

RegisterHook ==
  /\ pc = "register"
  /\ hook' = TRUE
  /\ pc' = "serving"
  /\ UNCHANGED <<argv, document, next, settings, loaded, factoryReady>>

Returned == pc \in {"failed", "serving"} /\ UNCHANGED vars

Next ==
  \/ ScanArg \/ NoConfigArg \/ OpenFile \/ ApplyGlobals
  \/ ReadRule \/ RulesRead
  \/ InitFactory \/ RegisterHook
  \/ Returned

Spec == Init /\ [][Next]_vars
-----------------------------------------------------------------------------
Rule == [entry : 1 .. MaxRules, disabled : BOOLEAN, initialized : BOOLEAN]

(* What is in PagespeedRegexRules has passed the check of its cache path.  *)
TypeOK ==
  /\ pc \in {"args", "open", "globals", "rules", "factory", "register",
             "failed", "serving"}
  /\ next \in Nat
  /\ rules \in Seq(Rule)
  /\ \A i \in 1 .. Len(rules) :
       /\ rules[i].entry \in DOMAIN contexts
       /\ contexts[rules[i].entry].FileCachePath = <<"directory">>
  /\ factoryReady \in BOOLEAN
  /\ hook \in BOOLEAN

-----------------------------------------------------------------------------
(* Properties. *)

LoadedEntries == {rules[i].entry : i \in 1 .. Len(rules)}

(* Transactions take the first rule of PagespeedRegexRules that matches,   *)
(* so the rules that are loaded keep the order of the file, whichever of   *)
(* its entries are skipped.                                                *)
RulesInFileOrder ==
  \A i, j \in 1 .. Len(rules) : i < j => rules[i].entry < rules[j].entry

(* A transaction takes a rewrite driver from the server context of any     *)
(* rule that is not disabled (ats_pagespeed.cpp:86): every such rule's     *)
(* server context has been initialized, whatever way operator>> returned.  *)
EnabledRulesInitialized ==
  \A i \in 1 .. Len(rules) : ~rules[i].disabled => rules[i].initialized

(* Transactions reach the plugin only after the whole file was read and    *)
(* the driver factory initialized after it: no way out of loadConfig       *)
(* leaves a plugin behind that serves with half of its configuration.      *)
ServesConfigured ==
  hook => factoryReady /\ file = "complete" /\ next > Len(nodes)

(* A global FileCachePath serves every rule, also one that is disabled,    *)
(* unless the rule sets another (ats_pagespeed_configuration.cpp:201).     *)
GlobalPathSuffices ==
  /\ hook
  /\ Written(globalNode, "FileCachePath") = <<"directory">>
  => \A i \in 1 .. Len(nodes) :
      /\ nodes[i].regex = "valid"
      /\ IsPlain(nodes[i].options)
      /\ Written(nodes[i].options, "FileCachePath") \in {<< >>, <<"directory">>}
      => i \in LoadedEntries

(* A rule that rewrites needs no global FileCachePath: one of its own that *)
(* is a directory is enough, whatever the global one is                    *)
(* (ats_pagespeed_configuration.cpp:201).                                  *)
OwnPathSuffices ==
  hook =>
    \A i \in 1 .. Len(nodes) :
      /\ ReadsOptions(nodes[i])
      /\ Written(nodes[i].options, "FileCachePath") = <<"directory">>
      => i \in LoadedEntries

(* A rule rewrites with what the file lists globally and in the rule, and  *)
(* with nothing else, in whatever way the lists are written                *)
(* (ats_rewrite_options.cpp:101): no filter is lost when a list is         *)
(* flattened, joined, cloned or merged, and none comes from another rule.  *)
(* Lists of filters may nest; the other options are written plainly.       *)
OptionsAsWritten ==
  \A i \in 1 .. Len(rules) :
    LET node == nodes[rules[i].entry].options
        context == contexts[rules[i].entry]
    IN  ~rules[i].disabled =>
          /\ \A name \in FilterLists :
               context[name] = Listed(globalNode, name) \cup Listed(node, name)
          /\ IsPlain(globalNode) /\ IsPlain(node) =>
               /\ context.tuples =
                    WrittenTuples(globalNode) \cup WrittenTuples(node)
               /\ context.FileCachePath =
                    IF Written(node, "FileCachePath") # << >>
                    THEN Written(node, "FileCachePath")
                    ELSE Written(globalNode, "FileCachePath")

(* The fetcher and the threads that the driver factory makes for the first *)
(* rule, and keeps, are those the global options ask for                   *)
(* (ats_rewrite_driver_factory.h:53), and no rule changes the settings     *)
(* after they were used.                                                   *)
FactoryAsConfigured ==
  LET size == Written(globalNode, "DefaultThreadPoolSize")
      asked == [fetcher |-> IF Written(globalNode, "UseNativeFetcher") = <<"on">>
                            THEN "native" ELSE "serf",
                threads |-> IF size # << >> /\ Number[size[1]] > 0
                            THEN Number[size[1]] ELSE 1]
      set == [fetcher |-> DefaultAsyncUrlFetcher(factory),
              threads |-> CreateWorkerPool(factory)]
  IN  \A made \in objects : made = set /\ (IsPlain(globalNode) => made = asked)

(* What the sample configuration (pagespeed-sample-config.yaml:9) relies   *)
(* on: a loaded rule with DisablePagespeed is a disabled one.              *)
DisableHonoured ==
  \A i \in 1 .. Len(rules) :
    "DisablePagespeed" \in nodes[rules[i].entry].keys => rules[i].disabled

(* The message at ats_pagespeed_configuration.cpp:201: a FileCachePath set *)
(* on every rule will do.                                                  *)
RulePathsSuffice ==
  /\ hook
  /\ \A i \in 1 .. Len(nodes) :
       Written(nodes[i].options, "FileCachePath") = <<"directory">>
  => \A i \in 1 .. Len(nodes) : nodes[i].regex = "valid" => i \in LoadedEntries
=============================================================================
