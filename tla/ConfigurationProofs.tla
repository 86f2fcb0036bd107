------------------------ MODULE ConfigurationProofs -------------------------
(***************************************************************************)
(* Proofs about Configuration, for any options, command lines and numbers  *)
(* of rules.  First the type invariant, the order of the rules that are    *)
(* loaded, that every enabled one is initialized, and that the plugin      *)
(* serves only with the whole file read; these use nothing of the options. *)
(* Then what the options in the file come to: which rules are loaded,      *)
(* what they rewrite with and what the driver factory makes, with the      *)
(* lemmas of RewriteOptionsProofs.                                         *)
(***************************************************************************)
EXTENDS Configuration, RewriteOptionsProofs

-----------------------------------------------------------------------------
(* The inductive invariant. *)

Reading == {"rules", "factory", "register", "serving"}

(* Nothing is loaded before the loop over the rules. *)
BeforeInv ==
  /\ next # 0
  /\ pc \notin Reading => Len(rules) = 0
  /\ pc \in {"args", "open", "globals"} => DOMAIN contexts = {}
  /\ pc \in {"open", "globals"} => next = 1
  /\ pc = "globals" => file \in {"no rules", "complete"}
  /\ argv \in Seq(Args)
  /\ nodes \in Seq(Nodes) /\ Len(nodes) \in 0 .. MaxRules

(* In the loop, one server context was made for every entry passed, and    *)
(* what is loaded is one of those that compile.                            *)
LoopInv ==
  pc \in Reading =>
    /\ DOMAIN contexts = 1 .. next - 1
    /\ file = "complete"
    /\ next <= Len(nodes) + 1
    /\ \A i \in 1 .. Len(rules) : rules[i].entry < next

(* What has happened by the time the hook is registered. *)
ServeInv ==
  /\ hook => pc = "serving"
  /\ pc \in {"register", "serving"} => factoryReady
  /\ pc \in {"factory", "register", "serving"} => next > Len(nodes)

IInv ==
  /\ TypeOK /\ BeforeInv /\ LoopInv /\ ServeInv
  /\ RulesInFileOrder /\ EnabledRulesInitialized

-----------------------------------------------------------------------------
LEMMA EmptyIsSeq ==
  ASSUME NEW T
  PROVE  /\ << >> \in Seq(T) /\ Len(<< >>) \in 0 .. MaxRules
         /\ DOMAIN << >> = {} /\ Len(<< >>) = 0
  BY ConfigurationAssumption

LEMMA UpToIsSeq ==
  ASSUME NEW T, NEW n \in Nat, NEW s \in UpTo(n, T)
  PROVE  s \in Seq(T) /\ Len(s) \in 0 .. n
<1>1. PICK k \in 0 .. n : s \in [1 .. k -> T]
  BY DEF UpTo
<1>2. s \in Seq(T) /\ Len(s) = k
  BY <1>1
<1> QED
  BY <1>1, <1>2

LEMMA InitIInv == Init => IInv
<1> SUFFICES ASSUME Init PROVE IInv
  OBVIOUS
<1> USE DEF Init
<1>1. TypeOK
  <2>1. rules \in Seq(Rule) /\ next \in Nat /\ \A i \in 1 .. Len(rules) : FALSE
    OBVIOUS
  <2> QED
    BY <2>1, Zenon DEF TypeOK
<1>2. BeforeInv /\ LoopInv /\ ServeInv
  <2>1. argv \in Seq(Args)
    BY UpToIsSeq, ConfigurationAssumption
  <2>2. nodes \in Seq(Nodes) /\ Len(nodes) \in 0 .. MaxRules
    BY ConfigurationAssumption
  <2> QED
    BY <2>1, <2>2, EmptyIsSeq DEF BeforeInv, LoopInv, ServeInv, Reading
<1>3. RulesInFileOrder /\ EnabledRulesInitialized
  BY DEF RulesInFileOrder, EnabledRulesInitialized
<1> QED
  BY <1>1, <1>2, <1>3 DEF IInv

(* Steps that load no rule keep what is said of rules. *)
LEMMA RulesKept ==
  ASSUME IInv, rules' = rules, contexts' = contexts, pc' \in
           {"args", "open", "globals", "rules", "factory", "register",
            "failed", "serving"},
         next' \in Nat, factoryReady' \in BOOLEAN, hook' \in BOOLEAN
  PROVE  TypeOK' /\ RulesInFileOrder' /\ EnabledRulesInitialized'
  BY DEF IInv, TypeOK, RulesInFileOrder, EnabledRulesInitialized

(* One turn of the loop. *)
LEMMA ReadRuleIInv == IInv /\ ReadRule => IInv'
<1> SUFFICES ASSUME IInv, ReadRule PROVE IInv'
  OBVIOUS
<1> DEFINE node == nodes[next]
           context == RuleContext(node)
<1>0. TypeOK /\ BeforeInv /\ LoopInv /\ ServeInv /\ RulesInFileOrder
      /\ EnabledRulesInitialized
  BY DEF IInv
<1>1. /\ pc = "rules" /\ next <= Len(nodes)
      /\ contexts' = [i \in 1 .. next |-> IF i = next THEN context ELSE contexts[i]]
      /\ rules' = IF Accepts(node, context) THEN Append(rules, LoadedRule(next))
                  ELSE rules
      /\ next' = next + 1
      /\ UNCHANGED <<argv, file, globalNode, nodes, pc, options, defaults,
                     factoryReady, hook>>
  BY DEF ReadRule, PushRule, document
<1>2. next \in 1 .. MaxRules
  BY <1>0, <1>1, ConfigurationAssumption DEF TypeOK, BeforeInv
<1>3. /\ LoadedRule(next) \in Rule
      /\ LoadedRule(next).entry = next
      /\ LoadedRule(next).initialized = ReadsOptions(node)
      /\ LoadedRule(next).disabled = Disables(node)
  BY <1>2 DEF LoadedRule, Rule, Disables, ReadsOptions
<1>4. BeforeInv' /\ ServeInv'
  BY <1>0, <1>1 DEF BeforeInv, ServeInv, Reading, TypeOK
<1>5. /\ DOMAIN contexts' = 1 .. next
      /\ \A i \in 1 .. next - 1 : contexts'[i] = contexts[i]
      /\ contexts'[next] = context
  BY <1>1, <1>2
<1>6. CASE ~Accepts(node, context)
  <2>1. rules' = rules
    BY <1>1, <1>6
  <2>2. TypeOK'
    BY <1>0, <1>1, <1>5, <2>1 DEF TypeOK, LoopInv, Reading
  <2>3. LoopInv'
    BY <1>0, <1>1, <1>2, <1>5, <2>1 DEF LoopInv, Reading, TypeOK, Rule
  <2>4. RulesInFileOrder' /\ EnabledRulesInitialized'
    BY <1>0, <2>1 DEF RulesInFileOrder, EnabledRulesInitialized
  <2> QED
    BY <1>4, <2>2, <2>3, <2>4 DEF IInv
<1>7. CASE Accepts(node, context)
  <2>1. rules' = Append(rules, LoadedRule(next)) /\ rules \in Seq(Rule)
    BY <1>0, <1>1, <1>7 DEF TypeOK
  <2>2. /\ rules' \in Seq(Rule) /\ Len(rules') = Len(rules) + 1
        /\ \A i \in 1 .. Len(rules) : rules'[i] = rules[i]
        /\ rules'[Len(rules) + 1] = LoadedRule(next)
    BY <1>3, <2>1
  <2>3. node.regex = "valid" /\ context.FileCachePath = <<"directory">>
    BY <1>7 DEF Accepts
  <2>4. \A i \in 1 .. Len(rules) : rules[i].entry \in 1 .. next - 1
    <3> SUFFICES ASSUME NEW i \in 1 .. Len(rules)
                 PROVE  rules[i].entry \in 1 .. next - 1
      OBVIOUS
    <3>1. rules[i] \in Rule
      BY <2>1
    <3>2. rules[i].entry < next
      BY <1>0, <1>1 DEF LoopInv, Reading
    <3> QED
      BY <1>2, <3>1, <3>2 DEF Rule
  <2>5. \A i \in 1 .. Len(rules') :
          /\ rules'[i].entry \in DOMAIN contexts'
          /\ contexts'[rules'[i].entry].FileCachePath = <<"directory">>
    <3> SUFFICES ASSUME NEW i \in 1 .. Len(rules')
                 PROVE  /\ rules'[i].entry \in 1 .. next
                        /\ contexts'[rules'[i].entry].FileCachePath = <<"directory">>
      BY <1>5
    <3>1. CASE i \in 1 .. Len(rules)
      <4>1. /\ rules'[i] = rules[i] /\ rules[i].entry \in 1 .. next - 1
            /\ contexts[rules[i].entry].FileCachePath = <<"directory">>
        BY <1>0, <2>2, <2>4, <3>1 DEF TypeOK
      <4>2. contexts'[rules[i].entry] = contexts[rules[i].entry]
        BY <1>5, <4>1
      <4> QED
        BY <1>2, <4>1, <4>2
    <3>2. CASE i = Len(rules) + 1
      BY <1>2, <1>3, <1>5, <2>2, <2>3, <3>2
    <3>3. i \in 1 .. Len(rules) \/ i = Len(rules) + 1
      BY <2>1, <2>2
    <3> QED
      BY <3>1, <3>2, <3>3
  <2>6. TypeOK'
    <3>1. next' \in Nat /\ pc' = pc /\ factoryReady' = factoryReady /\ hook' = hook
      BY <1>1, <1>2
    <3> QED
      BY <1>0, <2>2, <2>5, <3>1, Zenon DEF TypeOK
  <2>7. LoopInv'
    BY <1>0, <1>1, <1>2, <1>3, <1>5, <2>1, <2>2, <2>4 DEF LoopInv, Reading
  <2>8. RulesInFileOrder'
    <3> SUFFICES ASSUME NEW i \in 1 .. Len(rules'), NEW j \in 1 .. Len(rules'),
                        i < j
                 PROVE  rules'[i].entry < rules'[j].entry
      BY DEF RulesInFileOrder
    <3>1. /\ i \in 1 .. Len(rules)
          /\ j \in 1 .. Len(rules) \/ j = Len(rules) + 1
      BY <2>1, <2>2
    <3>2. CASE j \in 1 .. Len(rules)
      BY <1>0, <2>2, <3>1, <3>2 DEF RulesInFileOrder
    <3>3. CASE j = Len(rules) + 1
      <4>1. rules'[i].entry \in 1 .. next - 1 /\ rules'[j].entry = next
        BY <1>3, <2>2, <2>4, <3>1, <3>3
      <4> QED
        BY <1>2, <4>1
    <3> QED
      BY <3>1, <3>2, <3>3
  <2>9. EnabledRulesInitialized'
    <3> SUFFICES ASSUME NEW i \in 1 .. Len(rules'), ~rules'[i].disabled
                 PROVE  rules'[i].initialized
      BY DEF EnabledRulesInitialized
    <3>1. CASE i \in 1 .. Len(rules)
      BY <1>0, <2>2, <3>1 DEF EnabledRulesInitialized
    <3>2. CASE i = Len(rules) + 1
      <4>1. ~Disables(node)
        BY <1>3, <2>2, <3>2, Zenon
      <4>2. ReadsOptions(node)
        BY <2>3, <4>1 DEF ReadsOptions
      <4> QED
        BY <1>3, <2>2, <3>2, <4>2, Zenon
    <3> QED
      BY <2>1, <2>2, <3>1, <3>2
  <2> QED
    BY <1>4, <2>6, <2>7, <2>8, <2>9 DEF IInv
<1> QED
  BY <1>6, <1>7

(* The global options are set, and the loop over the rules begins. *)
LEMMA ApplyGlobalsIInv == IInv /\ ApplyGlobals => IInv'
<1> SUFFICES ASSUME IInv, ApplyGlobals PROVE IInv'
  OBVIOUS
<1>1. /\ pc = "globals" /\ pc' = IF file = "no rules" THEN "failed" ELSE "rules"
      /\ UNCHANGED <<argv, file, globalNode, nodes, next, objects, contexts,
                     rules, factoryReady, hook>>
  BY DEF ApplyGlobals, SetGlobals, document, loaded
<1>2. TypeOK /\ BeforeInv /\ ServeInv
  BY DEF IInv
<1>3. /\ Len(rules) = 0 /\ DOMAIN contexts = {} /\ next = 1 /\ hook = FALSE
      /\ Len(nodes) \in 0 .. MaxRules /\ file \in {"no rules", "complete"}
  BY <1>1, <1>2 DEF BeforeInv, ServeInv, Reading, TypeOK
<1>4. TypeOK' /\ RulesInFileOrder' /\ EnabledRulesInitialized'
  BY <1>1, <1>2, RulesKept DEF TypeOK
<1>5. BeforeInv' /\ ServeInv'
  BY <1>1, <1>2, <1>3 DEF BeforeInv, ServeInv, Reading
<1>6. LoopInv'
  <2>0. /\ next' = 1 /\ Len(nodes') = Len(nodes) /\ Len(rules') = 0
        /\ DOMAIN contexts' = {}
    BY <1>1, <1>3
  <2>1. DOMAIN contexts' = 1 .. next' - 1
    BY <2>0
  <2>2. next' <= Len(nodes') + 1
    <3>1. MaxRules \in Nat
      BY ConfigurationAssumption
    <3>2. Len(nodes') \in 0 .. MaxRules
      BY <1>3, <2>0
    <3> QED
      BY <2>0, <3>1, <3>2
  <2>3. pc' \in Reading => file' = "complete"
    BY <1>1, <1>3 DEF Reading
  <2>4. \A i \in 1 .. Len(rules') : rules'[i].entry < next'
    BY <2>0
  <2> QED
    BY <2>1, <2>2, <2>3, <2>4 DEF LoopInv
<1> QED
  BY <1>4, <1>5, <1>6 DEF IInv

LEMMA NextIInv == IInv /\ [Next]_vars => IInv'
<1> SUFFICES ASSUME IInv, [Next]_vars PROVE IInv'
  OBVIOUS
<1>0. TypeOK /\ BeforeInv /\ LoopInv /\ ServeInv
  BY DEF IInv
<1> USE <1>0 DEF BeforeInv, LoopInv, ServeInv, Reading, TypeOK
<1> USE DEF document, settings, loaded
<1>1. CASE ScanArg
  <2>1. argv[next] \in Args
    BY <1>1 DEF ScanArg
  <2>2. pc = "args" /\ pc' \in {"args", "open", "failed"}
        /\ next' \in Nat /\ next' # 0 /\ (pc' = "open" => next' = 1)
    <3>1. pc = "args" /\ next \in Nat /\ next # 0
      BY <1>1 DEF ScanArg
    <3>2. CASE argv[next] = "config"
      BY <1>1, <3>1, <3>2 DEF ScanArg
    <3>3. CASE argv[next] = "malformed"
      BY <1>1, <3>1, <3>3 DEF ScanArg
    <3>4. CASE argv[next] = "other"
      BY <1>1, <3>1, <3>4 DEF ScanArg
    <3> QED
      BY <2>1, <3>2, <3>3, <3>4 DEF Args
  <2>3. UNCHANGED <<argv, document, settings, loaded, factoryReady, hook>>
    BY <1>1 DEF ScanArg
  <2>4. BeforeInv' /\ LoopInv' /\ ServeInv'
    BY <2>2, <2>3
  <2> QED
    BY <2>2, <2>3, <2>4, RulesKept DEF IInv
<1>2. CASE NoConfigArg
  BY <1>2, RulesKept DEF NoConfigArg, IInv
<1>3. CASE OpenFile
  <2>1. nodes' \in Seq(Nodes) /\ Len(nodes') \in 0 .. MaxRules
    <3>1. nodes' = nodes \/ nodes' \in UpTo(MaxRules, Nodes) \/ nodes' = << >>
      BY <1>3 DEF OpenFile
    <3>2. CASE nodes' \in UpTo(MaxRules, Nodes)
      BY <3>2, UpToIsSeq, ConfigurationAssumption
    <3>3. CASE nodes' = << >>
      BY <3>3, EmptyIsSeq, Zenon
    <3>4. nodes \in Seq(Nodes) /\ Len(nodes) \in 0 .. MaxRules
      BY DEF BeforeInv
    <3> QED
      BY <3>1, <3>2, <3>3, <3>4
  <2>2. BeforeInv' /\ LoopInv' /\ ServeInv'
    BY <1>3, <2>1 DEF OpenFile
  <2> QED
    BY <1>3, <2>2, RulesKept DEF OpenFile, IInv
<1>4. CASE ApplyGlobals
  BY <1>4, ApplyGlobalsIInv
<1>5. CASE ReadRule
  BY <1>5, ReadRuleIInv
<1>6. CASE RulesRead
  BY <1>6, RulesKept DEF RulesRead, Loaded, IInv
<1>7. CASE InitFactory
  BY <1>7, RulesKept DEF InitFactory, FactoryInit, IInv
<1>8. CASE RegisterHook
  BY <1>8, RulesKept DEF RegisterHook, IInv
<1>9. CASE UNCHANGED vars
  BY <1>9, RulesKept DEF vars, IInv
<1> QED
  BY <1>1, <1>2, <1>3, <1>4, <1>5, <1>6, <1>7, <1>8, <1>9 DEF Next, Returned

(* The inductive invariant holds. *)
THEOREM Invariance == Spec => []IInv
  BY InitIInv, NextIInv, PTL DEF Spec

-----------------------------------------------------------------------------
(* What follows. *)

(* The variables keep their types, and every rule that is loaded has a     *)
(* cache path that is a directory.                                         *)
THEOREM TypeCorrect == Spec => []TypeOK
<1>1. IInv => TypeOK
  BY DEF IInv
<1> QED
  BY Invariance, <1>1, PTL

(* Rules are loaded in the order of the file. *)
THEOREM FileOrderKept == Spec => []RulesInFileOrder
<1>1. IInv => RulesInFileOrder
  BY DEF IInv
<1> QED
  BY Invariance, <1>1, PTL

(* A rule that may rewrite has an initialized server context. *)
THEOREM EnabledCanRewrite == Spec => []EnabledRulesInitialized
<1>1. IInv => EnabledRulesInitialized
  BY DEF IInv
<1> QED
  BY Invariance, <1>1, PTL

(* The plugin serves with the whole file read and the factory initialized. *)
THEOREM ServesWhenConfigured == Spec => []ServesConfigured
<1>1. IInv => ServesConfigured
  BY DEF IInv, LoopInv, ServeInv, ServesConfigured, Reading
<1> QED
  BY Invariance, <1>1, PTL

-----------------------------------------------------------------------------
(* What the options come to. *)

Initially == [options |-> NewRewriteOptions, factory |-> NewFactory]

(* What the global options of the file come to.                            *)
Globally == SetOptionsFromOptionsMap(Initially, TRUE, ReadOptions(globalNode))

(* The global options are read once, and no rule changes what they set.    *)
GlobalsInv ==
  /\ pc \in {"args", "open", "globals"} =>
       options = NewRewriteOptions /\ defaults = NewRewriteOptions
       /\ factory = NewFactory
  /\ pc \in {"globals"} \cup Reading => globalNode \in GlobalOptions
  /\ pc \in Reading =>
       /\ options = Globally.options /\ factory = Globally.factory
       /\ defaults = Merge(NewRewriteOptions, options)

(* A server context has what the global options and those of its own rule  *)
(* come to, whatever rules were read before it.                            *)
ContextsInv ==
  pc \in Reading => \A i \in 1 .. next - 1 : contexts[i] = RuleContext(nodes[i])

(* Every entry passed that can be accepted was, and as what it is.         *)
LoadedInv ==
  pc \in Reading =>
    /\ \A i \in 1 .. next - 1 : Accepts(nodes[i], contexts[i]) => i \in LoadedEntries
    /\ \A k \in 1 .. Len(rules) :
         LET node == nodes[rules[k].entry]
         IN  node.regex = "valid" /\ (rules[k].disabled <=> Disables(node))

(* What the driver factory has made is of its present settings.            *)
ObjectsInv ==
  /\ pc \notin Reading => objects = {}
  /\ \A made \in objects : made = [fetcher |-> DefaultAsyncUrlFetcher(factory),
                                   threads |-> CreateWorkerPool(factory)]

OptionsInv == GlobalsInv /\ ContextsInv /\ LoadedInv /\ ObjectsInv

-----------------------------------------------------------------------------
LEMMA EntriesOfFile ==
  ASSUME BeforeInv, NEW i \in 1 .. Len(nodes)
  PROVE  /\ nodes[i] \in Nodes
         /\ nodes[i].options \in [DOMAIN nodes[i].options -> YamlNodes]
<1>1. nodes[i] \in Nodes
  <2>1. nodes \in Seq(Nodes)
    BY DEF BeforeInv
  <2> QED
    BY <2>1
<1>2. nodes[i].options \in RuleOptions
  BY <1>1 DEF Nodes
<1> QED
  BY <1>1, <1>2, ConfigurationAssumption

LEMMA InitiallySettings == IsSettings(Initially)
  BY DEF IsSettings, IsOptions, IsFactory, Initially, NewRewriteOptions, NewFactory

LEMMA MergedOptions ==
  ASSUME NEW o, NEW p
  PROVE  IsOptions(Merge(o, p)) /\ IsOptions(Clone(o))
  BY DEF IsOptions, Merge, Clone

(* The driver factory's settings are those of the global options.          *)
LEMMA GloballySettings ==
  ASSUME globalNode \in GlobalOptions
  PROVE  IsSettings(Globally)
<1>1. globalNode \in [DOMAIN globalNode -> YamlNodes] /\ TRUE \in BOOLEAN
  BY ConfigurationAssumption
<1> QED
  BY <1>1, InitiallySettings, NodeApplied DEF Globally

LEMMA ClonedSettings ==
  ASSUME GlobalsInv, pc \in Reading
  PROVE  IsSettings([options |-> Clone(options), factory |-> factory])
<1>1. IsFactory(factory)
  BY GloballySettings DEF GlobalsInv, IsSettings
<1>2. IsOptions(Clone(options))
  BY MergedOptions
<1> QED
  BY <1>1, <1>2 DEF IsSettings

(* The options of a rule leave the driver factory as it was.               *)
LEMMA RuleLeavesFactory ==
  ASSUME GlobalsInv, BeforeInv, pc \in Reading, NEW i \in 1 .. Len(nodes)
  PROVE  RuleSettings(nodes[i]).factory = factory
<1> DEFINE s == [options |-> Clone(options), factory |-> factory]
<1>1. IsSettings(s)
  BY ClonedSettings
<1>2. SetOptionsFromOptionsMap(s, FALSE, ReadOptions(nodes[i].options)).factory
        = s.factory
  <2> HIDE DEF s
  <2> QED
    BY <1>1, EntriesOfFile, FactoryUntouched
<1>3. s.factory = factory
  OBVIOUS
<1>4. RuleSettings(nodes[i])
        = IF ReadsOptions(nodes[i])
          THEN SetOptionsFromOptionsMap(s, FALSE, ReadOptions(nodes[i].options))
          ELSE s
  BY Zenon DEF RuleSettings, SetRuleOptions
<1> HIDE DEF s
<1> QED
  BY <1>2, <1>3, <1>4

LEMMA InitOptionsInv == Init => OptionsInv
  BY DEF Init, OptionsInv, GlobalsInv, ContextsInv, LoadedInv, ObjectsInv, Reading

(* A rule's context is a function of the global options and the rule.      *)
LEMMA ContextKept ==
  ASSUME UNCHANGED <<nodes, options, defaults, factory>>, NEW i
  PROVE  RuleContext(nodes[i])' = RuleContext(nodes[i])
  BY DEF RuleContext, RuleSettings, SetRuleOptions, ReadsOptions, Disables

LEMMA OptionsKept ==
  ASSUME OptionsInv, pc \in Reading, pc' \in Reading,
         UNCHANGED <<globalNode, nodes, options, defaults, factory, objects,
                     contexts, rules, next>>
  PROVE  OptionsInv'
<1>1. GlobalsInv'
  BY DEF OptionsInv, GlobalsInv, Globally, Reading
<1>2. ContextsInv'
  BY ContextKept DEF OptionsInv, ContextsInv
<1>3. LoadedInv'
  BY DEF OptionsInv, LoadedInv, LoadedEntries, Accepts, Disables
<1>4. ObjectsInv'
  BY DEF OptionsInv, ObjectsInv, DefaultAsyncUrlFetcher, CreateWorkerPool
<1> QED
  BY <1>1, <1>2, <1>3, <1>4 DEF OptionsInv

(* Before the global options are read, or without them, all is as it was.  *)
LEMMA OptionsUnset ==
  ASSUME OptionsInv, pc \notin Reading, pc' \notin Reading,
         pc \in {"args", "open", "globals"},
         pc' = "globals" => globalNode' \in GlobalOptions,
         UNCHANGED <<options, defaults, factory, objects, contexts, rules>>
  PROVE  OptionsInv'
  BY DEF OptionsInv, GlobalsInv, ContextsInv, LoadedInv, ObjectsInv, Reading

LEMMA ApplyGlobalsOptions ==
  IInv /\ OptionsInv /\ ApplyGlobals => OptionsInv'
<1> SUFFICES ASSUME IInv, OptionsInv, ApplyGlobals PROVE OptionsInv'
  OBVIOUS
<1>1. /\ pc = "globals" /\ pc' \in {"failed", "rules"}
      /\ UNCHANGED <<globalNode, nodes, next, objects, contexts, rules>>
      /\ defaults' = Merge(defaults, options')
  BY DEF ApplyGlobals, SetGlobals, document, loaded
<1>2. /\ globalNode \in GlobalOptions /\ objects = {}
      /\ options = NewRewriteOptions /\ defaults = NewRewriteOptions
      /\ factory = NewFactory /\ next = 1 /\ Len(rules) = 0
  BY <1>1 DEF OptionsInv, GlobalsInv, ObjectsInv, IInv, BeforeInv, Reading
<1>3. options' = Globally.options /\ factory' = Globally.factory
  BY <1>2, Zenon DEF ApplyGlobals, SetGlobals, Globally, Initially
<1>4. Globally' = Globally
  BY <1>1 DEF Globally, Initially
<1>5. GlobalsInv'
  BY <1>1, <1>2, <1>3, <1>4 DEF GlobalsInv, Reading
<1>6. ContextsInv' /\ LoadedInv' /\ ObjectsInv'
  BY <1>1, <1>2 DEF ContextsInv, LoadedInv, ObjectsInv
<1> QED
  BY <1>5, <1>6 DEF OptionsInv

LEMMA ReadRuleOptions ==
  IInv /\ IInv' /\ OptionsInv /\ ReadRule => OptionsInv'
<1> SUFFICES ASSUME IInv, IInv', OptionsInv, ReadRule PROVE OptionsInv'
  OBVIOUS
<1> DEFINE node == nodes[next]
           context == RuleContext(node)
<1>0. /\ TypeOK /\ BeforeInv /\ LoopInv /\ GlobalsInv /\ ContextsInv /\ LoadedInv
      /\ ObjectsInv
  BY DEF IInv, OptionsInv
<1>1. /\ pc = "rules" /\ pc' = "rules" /\ next \in 1 .. Len(nodes)
      /\ contexts' = [i \in 1 .. next |-> IF i = next THEN context ELSE contexts[i]]
      /\ rules' = IF Accepts(node, context) THEN Append(rules, LoadedRule(next))
                  ELSE rules
      /\ next' = next + 1
      /\ factory' = RuleSettings(node).factory
      /\ objects' = IF ReadsOptions(node) THEN InitServerContext(factory')
                    ELSE objects
      /\ UNCHANGED <<globalNode, nodes, options, defaults>>
  BY <1>0 DEF ReadRule, PushRule, document, TypeOK, BeforeInv
<1>2. factory' = factory
  BY <1>0, <1>1, RuleLeavesFactory DEF Reading
<1>3. GlobalsInv'
  BY <1>0, <1>1, <1>2 DEF GlobalsInv, Globally, Initially, Reading
<1>4. ObjectsInv'
  BY <1>0, <1>1, <1>2
     DEF ObjectsInv, InitServerContext, DefaultAsyncUrlFetcher, CreateWorkerPool,
         Reading
<1>5. \A i \in 1 .. next :
        contexts'[i] = IF i = next THEN context ELSE contexts[i]
  BY <1>1
<1>6. ContextsInv'
  <2>1. \A i : RuleContext(nodes[i])' = RuleContext(nodes[i])
    BY <1>1, <1>2, ContextKept
  <2>2. \A i \in 1 .. next : contexts'[i] = RuleContext(nodes[i])
    BY <1>0, <1>1, <1>5 DEF ContextsInv, Reading
  <2>3. 1 .. next' - 1 = 1 .. next
    BY <1>1
  <2> QED
    BY <2>1, <2>2, <2>3, Zenon DEF ContextsInv
<1>7. LoadedInv'
  <2>1. rules \in Seq(Rule) /\ \A k \in 1 .. Len(rules) : rules[k].entry \in 1 .. next - 1
    BY <1>0, <1>1 DEF TypeOK, LoopInv, Reading
  <2>2. /\ LoadedRule(next).entry = next
        /\ LoadedRule(next).disabled = Disables(node)
    BY DEF LoadedRule
  <2>3. Accepts(node, context) =>
          /\ Len(rules') = Len(rules) + 1
          /\ \A k \in 1 .. Len(rules) : rules'[k] = rules[k]
          /\ rules'[Len(rules) + 1] = LoadedRule(next)
    BY <1>1, <2>1
  <2>4. LoadedEntries \subseteq LoadedEntries'
    <3>1. CASE Accepts(node, context)
      BY <2>1, <2>3, <3>1 DEF LoadedEntries
    <3>2. CASE ~Accepts(node, context)
      BY <1>1, <3>2 DEF LoadedEntries
    <3> QED
      BY <3>1, <3>2
  <2>5. Accepts(node, context) => next \in LoadedEntries'
    BY <2>1, <2>2, <2>3 DEF LoadedEntries
  <2>6. \A i \in 1 .. next : Accepts(nodes[i], contexts'[i]) => i \in LoadedEntries'
    BY <1>0, <1>1, <1>5, <2>4, <2>5 DEF LoadedInv, Reading
  <2>7. \A k \in 1 .. Len(rules') :
          LET n == nodes[rules'[k].entry]
          IN  n.regex = "valid" /\ (rules'[k].disabled <=> Disables(n))
    <3> SUFFICES ASSUME NEW k \in 1 .. Len(rules')
                 PROVE  LET n == nodes[rules'[k].entry]
                        IN  n.regex = "valid" /\ (rules'[k].disabled <=> Disables(n))
      OBVIOUS
    <3>1. CASE k \in 1 .. Len(rules)
      <4>1. rules'[k] = rules[k]
        BY <1>1, <2>3, <3>1
      <4> QED
        BY <1>0, <1>1, <3>1, <4>1 DEF LoadedInv, Reading
    <3>2. CASE k \notin 1 .. Len(rules)
      <4>1. Accepts(node, context) /\ k = Len(rules) + 1
        BY <1>1, <2>1, <2>3, <3>2
      <4> QED
        BY <2>2, <2>3, <4>1 DEF Accepts
    <3> QED
      BY <3>1, <3>2
  <2>8. 1 .. next' - 1 = 1 .. next
    BY <1>1
  <2> QED
    BY <1>1, <2>6, <2>7, <2>8 DEF LoadedInv, Accepts, Disables
<1> QED
  BY <1>3, <1>4, <1>6, <1>7 DEF OptionsInv

LEMMA NextOptionsInv == IInv /\ IInv' /\ OptionsInv /\ [Next]_vars => OptionsInv'
<1> SUFFICES ASSUME IInv, IInv', OptionsInv, [Next]_vars PROVE OptionsInv'
  OBVIOUS
<1> USE DEF document, settings, loaded
<1>1. CASE ScanArg
  <2>1. /\ pc = "args" /\ pc' \in {"args", "open", "failed"}
        /\ UNCHANGED <<options, defaults, factory, objects, contexts, rules>>
    <3>1. argv \in Seq(Args) /\ next \in 1 .. Len(argv)
      <4>1. argv \in Seq(Args) /\ next \in Nat /\ next # 0
        BY DEF IInv, BeforeInv, TypeOK
      <4>2. next <= Len(argv)
        BY <1>1 DEF ScanArg
      <4> QED
        BY <4>1, <4>2
    <3>2. argv[next] \in Args
      BY <3>1
    <3> QED
      BY <1>1, <3>2 DEF ScanArg, Args
  <2> QED
    BY <2>1, OptionsUnset DEF Reading
<1>2. CASE NoConfigArg
  BY <1>2, OptionsUnset DEF NoConfigArg, Reading
<1>3. CASE OpenFile
  BY <1>3, OptionsUnset DEF OpenFile, Reading
<1>4. CASE ApplyGlobals
  BY <1>4, ApplyGlobalsOptions
<1>5. CASE ReadRule
  BY <1>5, ReadRuleOptions
<1>6. CASE RulesRead
  BY <1>6, OptionsKept DEF RulesRead, Loaded, Reading
<1>7. CASE InitFactory
  BY <1>7, OptionsKept DEF InitFactory, FactoryInit, Reading
<1>8. CASE RegisterHook
  BY <1>8, OptionsKept DEF RegisterHook, Reading
<1>9. CASE UNCHANGED vars
  <2>1. CASE pc \in Reading
    BY <1>9, <2>1, OptionsKept DEF vars
  <2>2. CASE pc \notin Reading
    BY <1>9, <2>2 DEF vars, OptionsInv, GlobalsInv, ContextsInv, LoadedInv, ObjectsInv
  <2> QED
    BY <2>1, <2>2
<1> QED
  BY <1>1, <1>2, <1>3, <1>4, <1>5, <1>6, <1>7, <1>8, <1>9 DEF Next, Returned

(* Whatever the file says, a server context depends on the global options  *)
(* and its own rule alone, the driver factory on the global options alone, *)
(* and every entry that passes the check of its cache path is loaded.      *)
THEOREM OptionsInvariance == Spec => []OptionsInv
<1>1. Init => OptionsInv
  BY InitOptionsInv
<1>2. IInv /\ IInv' /\ OptionsInv /\ [Next]_vars => OptionsInv'
  BY NextOptionsInv
<1> QED
  BY <1>1, <1>2, Invariance, PTL DEF Spec

-----------------------------------------------------------------------------
(* The context of a rule, from what the file says. *)

(* What the global options of the file set.                                *)
LEMMA GlobalsSet ==
  ASSUME OptionsInv, pc \in Reading
  PROVE  /\ \A name \in FilterLists : options[name] = Listed(globalNode, name)
         /\ IsPlain(globalNode) => options.tuples = WrittenTuples(globalNode)
         /\ NotNested(globalNode, "FileCachePath") =>
              options.FileCachePath = Written(globalNode, "FileCachePath")
<1>1. /\ globalNode \in [DOMAIN globalNode -> YamlNodes] /\ TRUE \in BOOLEAN
      /\ options = Globally.options
  BY ConfigurationAssumption DEF OptionsInv, GlobalsInv
<1>2. NodeSets(Initially.options, globalNode, Globally.options)
  BY <1>1, InitiallySettings, NodeApplied DEF Globally
<1>3. /\ \A name \in FilterLists : Initially.options[name] = {}
      /\ Initially.options.tuples = {} /\ Initially.options.FileCachePath = << >>
  BY DEF Initially, NewRewriteOptions, FilterLists
<1> QED
  BY <1>1, <1>2, <1>3 DEF NodeSets

LEMMA DefaultsAreGlobals ==
  ASSUME OptionsInv, pc \in Reading
  PROVE  /\ defaults.FileCachePath = options.FileCachePath
         /\ \A name \in FilterLists : defaults[name] = options[name]
         /\ defaults.tuples = options.tuples
<1>1. defaults = Merge(NewRewriteOptions, options)
  BY DEF OptionsInv, GlobalsInv
<1> QED
  BY <1>1 DEF Merge, NewRewriteOptions, FilterLists

(* What the context of a rule that reads its options has.                  *)
LEMMA RuleContextSet ==
  ASSUME IInv, OptionsInv, pc \in Reading, NEW i \in 1 .. Len(nodes),
         ReadsOptions(nodes[i])
  PROVE  LET node == nodes[i].options
             context == RuleContext(nodes[i])
         IN  /\ \A name \in FilterLists :
                  context[name] = options[name] \cup Listed(node, name)
             /\ IsPlain(node) =>
                  context.tuples = options.tuples \cup WrittenTuples(node)
             /\ NotNested(node, "FileCachePath") =>
                  context.FileCachePath =
                    IF Written(node, "FileCachePath") # << >>
                    THEN Written(node, "FileCachePath")
                    ELSE options.FileCachePath
<1> DEFINE node == nodes[i].options
           s == [options |-> Clone(options), factory |-> factory]
           t == SetOptionsFromOptionsMap(s, FALSE, ReadOptions(node)).options
<1>1. BeforeInv /\ GlobalsInv
  BY DEF IInv, OptionsInv
<1>2. IsSettings(s) /\ node \in [DOMAIN node -> YamlNodes] /\ FALSE \in BOOLEAN
  BY <1>1, ClonedSettings, EntriesOfFile
<1>3. RuleContext(nodes[i]) = Merge(defaults, t)
  BY Zenon DEF RuleContext, RuleSettings, SetRuleOptions
<1>4. s.options = Clone(options)
  OBVIOUS
<1> HIDE DEF s, node
<1>5. NodeSets(Clone(options), node, t)
  BY <1>2, <1>4, NodeApplied
<1> HIDE DEF t
<1>6. /\ \A name \in FilterLists : Clone(options)[name] = options[name]
      /\ Clone(options).tuples = options.tuples
      /\ Clone(options).FileCachePath = options.FileCachePath
  BY DEF Clone, Merge, NewRewriteOptions, FilterLists
<1>7. \A name \in FilterLists : Merge(defaults, t)[name] = defaults[name] \cup t[name]
  BY DEF Merge, FilterLists
<1>8. /\ Merge(defaults, t).tuples = defaults.tuples \cup t.tuples
      /\ Merge(defaults, t).FileCachePath =
           IF t.FileCachePath # << >> THEN t.FileCachePath ELSE defaults.FileCachePath
  BY DEF Merge
<1>9. /\ defaults.FileCachePath = options.FileCachePath
      /\ \A name \in FilterLists : defaults[name] = options[name]
      /\ defaults.tuples = options.tuples
  BY DefaultsAreGlobals
<1>10. \A name \in FilterLists :
         RuleContext(nodes[i])[name] = options[name] \cup Listed(node, name)
  BY <1>3, <1>5, <1>6, <1>7, <1>9 DEF NodeSets
<1>11. IsPlain(node) =>
         RuleContext(nodes[i]).tuples = options.tuples \cup WrittenTuples(node)
  BY <1>3, <1>5, <1>6, <1>8, <1>9 DEF NodeSets
<1>12. NotNested(node, "FileCachePath") =>
         RuleContext(nodes[i]).FileCachePath =
           IF Written(node, "FileCachePath") # << >>
           THEN Written(node, "FileCachePath") ELSE options.FileCachePath
  BY <1>3, <1>5, <1>6, <1>8, <1>9 DEF NodeSets
<1> QED
  BY <1>10, <1>11, <1>12 DEF node

-----------------------------------------------------------------------------
(* What follows for the rules that are loaded. *)

LEMMA EntriesCounted ==
  ASSUME IInv
  PROVE  Len(nodes) \in Nat /\ next \in Nat
<1>1. Len(nodes) \in 0 .. MaxRules /\ next \in Nat
  BY DEF IInv, BeforeInv, TypeOK
<1>2. MaxRules \in Nat
  BY ConfigurationAssumption
<1> QED
  BY <1>1, <1>2

(* Once the plugin serves, every entry was read.                           *)
LEMMA ServingReadAll ==
  ASSUME IInv, OptionsInv, hook, NEW i \in 1 .. Len(nodes)
  PROVE  /\ pc \in Reading /\ contexts[i] = RuleContext(nodes[i])
         /\ Accepts(nodes[i], contexts[i]) => i \in LoadedEntries
<1>1. pc \in Reading /\ next > Len(nodes) /\ next \in Nat
  BY DEF IInv, ServeInv, TypeOK, Reading
<1>2. i \in 1 .. next - 1
  <2>1. Len(nodes) \in Nat
    BY EntriesCounted
  <2> QED
    BY <1>1, <2>1
<1> QED
  BY <1>1, <1>2 DEF OptionsInv, ContextsInv, LoadedInv

LEMMA WrittenIsScalar ==
  ASSUME NEW node, NEW name, Written(node, name) # << >>
  PROVE  NotNested(node, name)
  BY DEF Written, NotNested

LEMMA GlobalPathHolds == IInv /\ OptionsInv => GlobalPathSuffices
<1> SUFFICES ASSUME IInv, OptionsInv, hook,
                    Written(globalNode, "FileCachePath") = <<"directory">>,
                    NEW i \in 1 .. Len(nodes),
                    nodes[i].regex = "valid", IsPlain(nodes[i].options),
                    Written(nodes[i].options, "FileCachePath")
                      \in {<< >>, <<"directory">>}
             PROVE  i \in LoadedEntries
  BY DEF GlobalPathSuffices
<1> DEFINE node == nodes[i].options
<1>0. <<"directory">> # << >>
  OBVIOUS
<1>1. /\ pc \in Reading /\ contexts[i] = RuleContext(nodes[i])
      /\ Accepts(nodes[i], contexts[i]) => i \in LoadedEntries
  BY ServingReadAll
<1>2. options.FileCachePath = <<"directory">>
  BY <1>0, <1>1, GlobalsSet, WrittenIsScalar
<1>3. CASE ReadsOptions(nodes[i])
  <2>1. NotNested(node, "FileCachePath")
    BY PlainIsNoSequence DEF NotNested
  <2>2. RuleContext(nodes[i]).FileCachePath =
          IF Written(node, "FileCachePath") # << >>
          THEN Written(node, "FileCachePath") ELSE options.FileCachePath
    BY <1>1, <1>3, <2>1, RuleContextSet
  <2> QED
    BY <1>1, <1>2, <2>2 DEF Accepts
<1>4. CASE ~ReadsOptions(nodes[i])
  <2>1. RuleContext(nodes[i]) = defaults
    BY <1>4 DEF RuleContext
  <2>2. defaults.FileCachePath = <<"directory">>
    BY <1>1, <1>2, DefaultsAreGlobals
  <2> QED
    BY <1>1, <2>1, <2>2 DEF Accepts
<1> QED
  BY <1>3, <1>4

LEMMA OwnPathHolds == IInv /\ OptionsInv => OwnPathSuffices
<1> SUFFICES ASSUME IInv, OptionsInv, hook, NEW i \in 1 .. Len(nodes),
                    ReadsOptions(nodes[i]),
                    Written(nodes[i].options, "FileCachePath") = <<"directory">>
             PROVE  i \in LoadedEntries
  BY DEF OwnPathSuffices
<1> DEFINE node == nodes[i].options
<1>0. <<"directory">> # << >>
  OBVIOUS
<1>1. /\ pc \in Reading /\ contexts[i] = RuleContext(nodes[i])
      /\ Accepts(nodes[i], contexts[i]) => i \in LoadedEntries
  BY ServingReadAll
<1>2. NotNested(node, "FileCachePath")
  BY <1>0, WrittenIsScalar
<1>3. RuleContext(nodes[i]).FileCachePath = <<"directory">>
  BY <1>0, <1>1, <1>2, RuleContextSet
<1> QED
  BY <1>1, <1>3 DEF Accepts, ReadsOptions

LEMMA OptionsAsWrittenHolds == IInv /\ OptionsInv => OptionsAsWritten
<1> SUFFICES ASSUME IInv, OptionsInv, NEW k \in 1 .. Len(rules),
                    ~rules[k].disabled
             PROVE  LET node == nodes[rules[k].entry].options
                        context == contexts[rules[k].entry]
                    IN  /\ \A name \in FilterLists :
                             context[name] = Listed(globalNode, name)
                                               \cup Listed(node, name)
                        /\ IsPlain(globalNode) /\ IsPlain(node) =>
                             /\ context.tuples = WrittenTuples(globalNode)
                                                   \cup WrittenTuples(node)
                             /\ context.FileCachePath =
                                  IF Written(node, "FileCachePath") # << >>
                                  THEN Written(node, "FileCachePath")
                                  ELSE Written(globalNode, "FileCachePath")
  BY DEF OptionsAsWritten
<1> DEFINE i == rules[k].entry
           node == nodes[i].options
<1>1. pc \in Reading
  <2>1. Len(rules) # 0
    OBVIOUS
  <2> QED
    BY <2>1 DEF IInv, BeforeInv
<1>2. i \in 1 .. next - 1 /\ i \in 1 .. Len(nodes)
  <2>1. i \in DOMAIN contexts /\ DOMAIN contexts = 1 .. next - 1
    BY <1>1 DEF IInv, TypeOK, LoopInv
  <2>2. next <= Len(nodes) + 1 /\ next \in Nat /\ Len(nodes) \in Nat
    BY <1>1, EntriesCounted DEF IInv, LoopInv
  <2> HIDE DEF i
  <2> QED
    BY <2>1, <2>2
<1>3. contexts[i] = RuleContext(nodes[i])
  BY <1>1, <1>2 DEF OptionsInv, ContextsInv
<1>4. ReadsOptions(nodes[i])
  BY <1>1 DEF OptionsInv, LoadedInv, ReadsOptions
<1> HIDE DEF i
<1>5. /\ \A name \in FilterLists :
           contexts[i][name] = options[name] \cup Listed(node, name)
      /\ IsPlain(node) =>
           contexts[i].tuples = options.tuples \cup WrittenTuples(node)
      /\ NotNested(node, "FileCachePath") =>
           contexts[i].FileCachePath =
             IF Written(node, "FileCachePath") # << >>
             THEN Written(node, "FileCachePath") ELSE options.FileCachePath
  BY <1>1, <1>2, <1>3, <1>4, RuleContextSet
<1>6. /\ \A name \in FilterLists : options[name] = Listed(globalNode, name)
      /\ IsPlain(globalNode) => options.tuples = WrittenTuples(globalNode)
      /\ NotNested(globalNode, "FileCachePath") =>
           options.FileCachePath = Written(globalNode, "FileCachePath")
  BY <1>1, GlobalsSet
<1>7. /\ IsPlain(node) => NotNested(node, "FileCachePath")
      /\ IsPlain(globalNode) => NotNested(globalNode, "FileCachePath")
  BY PlainIsNoSequence DEF NotNested
<1> HIDE DEF node
<1> QED
  BY <1>5, <1>6, <1>7 DEF node, i

(* The number that is asked for fits an int.                               *)
LEMMA FactoryAsConfiguredHolds ==
  ASSUME \A e \in Entries : Number[e] <= IntMax, IInv, OptionsInv
  PROVE  FactoryAsConfigured
<1> DEFINE size == Written(globalNode, "DefaultThreadPoolSize")
           native == Written(globalNode, "UseNativeFetcher")
           set == [fetcher |-> DefaultAsyncUrlFetcher(factory),
                   threads |-> CreateWorkerPool(factory)]
           asked == [fetcher |-> IF native = <<"on">> THEN "native" ELSE "serf",
                     threads |-> IF size # << >> /\ Number[size[1]] > 0
                                 THEN Number[size[1]] ELSE 1]
<1>1. \A made \in objects : made = set /\ pc \in Reading
  BY DEF OptionsInv, ObjectsInv
<1>2. ASSUME pc \in Reading, IsPlain(globalNode) PROVE set = asked
  <2>1. /\ globalNode \in [DOMAIN globalNode -> YamlNodes]
        /\ factory = Globally.factory
    BY <1>2, ConfigurationAssumption DEF OptionsInv, GlobalsInv
  <2>2. /\ factory.DEFAULT_THREAD_POOL_SIZE =
             IF size # << >> /\ Number[size[1]] > 0 THEN ToInt(Number[size[1]])
             ELSE Initially.factory.DEFAULT_THREAD_POOL_SIZE
        /\ factory.use_native_fetcher =
             IF native = <<"on">> THEN TRUE
             ELSE IF native = <<"off">> THEN FALSE
             ELSE Initially.factory.use_native_fetcher
    <3> HIDE DEF size, native
    <3> QED
      BY <1>2, <2>1, InitiallySettings, NodeSetsFactory DEF Globally, size, native
  <2>3. /\ Initially.factory.DEFAULT_THREAD_POOL_SIZE = 1
        /\ Initially.factory.use_native_fetcher = FALSE
    BY DEF Initially, NewFactory
  <2>4. size # << >> /\ Number[size[1]] > 0 =>
          ToInt(Number[size[1]]) = Number[size[1]]
    <3> SUFFICES ASSUME size # << >>, Number[size[1]] > 0
                 PROVE  ToInt(Number[size[1]]) = Number[size[1]]
      OBVIOUS
    <3>1. size \in Text
      BY <2>1, NodeTypes DEF Written
    <3> HIDE DEF size
    <3>2. size[1] \in Entries
      BY <3>1 DEF Text
    <3>3. Number[size[1]] \in Nat /\ Number[size[1]] <= IntMax
      BY <3>2, NodeTypes
    <3> QED
      BY <3>3, ToIntKeeps
  <2> HIDE DEF size, native
  <2>5. CreateWorkerPool(factory) =
          IF size # << >> /\ Number[size[1]] > 0 THEN Number[size[1]] ELSE 1
    BY <2>2, <2>3, <2>4 DEF CreateWorkerPool
  <2>6. DefaultAsyncUrlFetcher(factory) = IF native = <<"on">> THEN "native" ELSE "serf"
    BY <2>2, <2>3, Zenon DEF DefaultAsyncUrlFetcher
  <2> QED
    BY <2>5, <2>6
<1>3. \A made \in objects : made = set /\ (IsPlain(globalNode) => made = asked)
  BY <1>1, <1>2
<1> QED
  BY <1>3, Zenon DEF FactoryAsConfigured

(* A cache path among the global options is enough for every rule that     *)
(* sets no other, however the file is written otherwise.                   *)
THEOREM GlobalPathWorks == Spec => []GlobalPathSuffices
  BY Invariance, OptionsInvariance, GlobalPathHolds, PTL

(* A rule that rewrites is loaded with a cache path of its own.            *)
THEOREM OwnPathWorks == Spec => []OwnPathSuffices
  BY Invariance, OptionsInvariance, OwnPathHolds, PTL

(* Every loaded rule rewrites with what the file lists globally and in the *)
(* rule, and nothing else, to whatever depth the lists nest.               *)
THEOREM RulesAsWritten == Spec => []OptionsAsWritten
  BY Invariance, OptionsInvariance, OptionsAsWrittenHolds, PTL

(* The driver factory makes the fetcher and the number of threads that the *)
(* global options ask for, if no number in the file is above INT_MAX.      *)
THEOREM FactoryAsAsked ==
  ASSUME \A e \in Entries : Number[e] <= IntMax
  PROVE  Spec => []FactoryAsConfigured
<1>1. IInv /\ OptionsInv => FactoryAsConfigured
  BY FactoryAsConfiguredHolds
<1> QED
  BY Invariance, OptionsInvariance, <1>1, PTL
=============================================================================
