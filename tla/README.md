# Verification of ats_pagespeed

TLA+ models of ats_pagespeed, an Apache Traffic Server (ATS) plugin that
passes HTML responses through a PageSpeed rewrite driver; the TLC runs that
check them on small instances; and proofs, checked by TLAPS, of the
properties that matter most for every instance. File references are to the
repository (`src/src/...`).

## The system

| Component | State it keeps | Operations | Interacts with |
|---|---|---|---|
| Startup and configuration (`ats_pagespeed.cpp:282`, `ats_pagespeed_configuration.cpp`) | `global_config`, `PagespeedRegexRules` | `TSPluginInit`, `loadConfig`, `readYamlConfigFile`, `operator>>` for a rule | writes the rules that transactions read; sets options; initializes the driver factory and one server context per rule |
| Rewrite options (`ats_rewrite_options.cpp`) | PageSpeed's options; two settings of the factory | `SetOptionsFromOptionsMap`, `Clone` | called by the configuration |
| Transaction hooks (`ats_pagespeed.cpp:185-278`) | the request and response headers; the plugins of the transaction | `handleSendRequestHeaders`, `handleReadResponseHeaders` | called by ATS, which goes on at `resume()`; adds the transformations |
| Response transformation (`ats_pagespeed.cpp:58-183`) | `buffer_`, `write_mutex_`, `rewrite_driver_`, byte counts, `completed_cleanly_` | constructor, `consume`, `handleInputComplete`, destructor; `Write` on rewrite threads | called by ATS; calls the rewrite driver, which calls `Write` |
| Statistics (`ats_stats_variable.cpp`, `ats_stats.h`) | `stats_map_`, `rw_lock_` (both static) | construction by name; `Get`, `Set`, `Add` | constructed and used by PageSpeed on any thread |
| Rewrite driver factory, server context (`ats_rewrite_driver_factory.cpp`, `ats_server_context.cpp`) | caches, statistics, `DEFAULT_THREAD_POOL_SIZE`, `use_native_fetcher_`; `initialized_` | creation of PageSpeed objects; `Init` | called by the configuration and by PageSpeed |
| Native fetcher (`ats_native_fetcher.cpp`) | `shutdown_` | `Fetch`, `ShutDown`, `handleAsyncComplete` | called by PageSpeed, answered by ATS |
| Base fetch (`ats_base_fetch.cpp`; not in the build) | `buffer_`, `references_`, `done_called_` | `HandleWrite`, `HandleFlush`, `HandleDone`, `Release` | shared by a transformation and PageSpeed |
| Message handler, logging, thread system, request context | none that anything reads | | |

What is hard here, and what makes each component correct:

* **Transformation.** The ATS thread and the rewrite threads share `buffer_`;
  the driver must be finished exactly once over every order of callbacks,
  including a failed start and a client that aborts between two of them; the
  driver points into the plugin and must let go before it dies. Correct means:
  the rewritten bytes reach the client in order, each once, before the
  response is declared complete.
* **Statistics.** Threads race to create the Stat behind a name under a
  double-checked lookup. Correct means one counter per name, whoever
  constructs its variables.
* **Transaction.** What the origin is asked for at one hook decides what the
  transformations of another hook can read. Correct means: the first matching
  rule governs, PageSpeed reads plain HTML, and the client gets a coding it
  accepts and that the headers name.
* **Configuration.** The steps of reading a rule have early returns between
  them, and global state is changed before the file is known to be good.
  Correct means: what is served is the whole file, in order, and every rule
  that may rewrite can.
* **Options.** A list of filters can be written in several ways, which are
  flattened, joined, cloned and merged on their way to a server context; the
  settings of the driver factory are used once, by whichever rule is
  initialized first. Correct means: a rule rewrites with what the file lists
  for it, and the factory makes what the global options ask for.
* **Base fetch.** Two parties let go of a fetch on different threads, one of
  them from inside a call. Correct means: the last one, and only it, deletes
  the fetch.

`PROJECT.json` lists every hazard at its line, with the property that would
catch it; those of the base fetch are not among them, because the class is not
in the build.

## The modules

### Transformation, BodyStream

`Transformation` models `AtsPagespeedTransformationPlugin` and
`ProtectedStringWriter`. The variables carry the members' names
(`buffer` is `buffer_`, and so on); `pc` is where the ATS thread is, `wpc`
where each rewrite thread is in `Write`.

| Code | Actions |
|---|---|
| constructor and `Init` (78-106) | `Construct`, with or without a driver |
| `consume` (108-125) | `ConsumeNoDriver`; `Consume`, `ParseTextReturns`, then the drain |
| the drain (117-123, 133-140) | `DrainLock`, `DrainCount`, `DrainProduce`, `DrainClear` |
| `handleInputComplete` (127-153) | `InputComplete`, `FinishParseReturns`, the drain, `SetOutputComplete` |
| destructor (156-165) | `Destroy`, `DestroyFinishReturns` |
| `Write` (63-68) | `WriteLock`, `WriteAppendBegin`, `WriteAppendEnd`, `WriteUnlock` |

Two points of the model are decided by the code's C++. The
`ScopedMutexLock(...)` of lines 117 and 133 has no name, so it is a temporary
that is destroyed at the end of its own statement: `DrainLock` waits for the
mutex and does not hold it. And because nothing then orders the drain with an
append on another thread, the append is two steps, which read the buffer and
write it back.

The rewrite driver is not in this repository. The model keeps what the plugin
relies on: it writes only between `StartParse` and the return of
`FinishParse`, and is back with the server context after that return. Whether
it also writes between the plugin's calls is the constant `AsyncWriter`. The
mutex is there for that case, so both are checked.

`BodyStream` is the promise to the client: an ordered stream of what the
rewriter wrote, declared complete when nothing is missing. The refinement
mapping takes `produced` for what was delivered and `outputDone` for complete.

### StatsVariable, StatRegistry

`StatsVariable` has one action per statement of the constructor that touches
shared state (`ReaderLock`, `Lookup`, `ReaderUnlock`, `WriterLock`, `Relookup`,
`CreateStat`, `Insert`, `WriterUnlock`), and `Get`, `Set`, and `Add` in its
two steps. The lock and the Stat are external: a reader enters when there is
no writer, a writer when there is nobody. Of a Stat the repository says
(`ats_stats_variable.h:46-49`, `ats_thread_system.h:38-40`) that threads count
for themselves and that this is aggregated periodically: `pending` is what
each thread has counted with each Stat since, `value` the aggregate, which
`get` reads and `set` replaces, and `Aggregate` may add one thread's part to
it at any moment. So `Add`, which increments and then reads, may answer without
its own increment. That `set` leaves what threads have pending alone is an
assumption: the repository says nothing of it.
A data race on `stats_map_` would be a state in which one thread is about to
insert and another about to look up or insert: `InsertionExclusive`. The
constructor takes `rw_lock_` twice and leaves in three places;
`HolderNeverWaits` is the safety half of `ConstructorsReturn`: whoever has the
lock is inside the constructor and is not waiting for it.

`StatRegistry` is one counter per name, with what each thread still has due to
it. The mapping takes for the counter the aggregate of the Stat the map has
for the name, for what is due what threads have pending for that Stat, and the
answers threads get as they are. An answer may lag behind the increments, as
the repository says it may; but a variable that counts with a Stat of its own
would show in an answer the registry cannot give, or in an increment that
never becomes due.

### Transaction

One transaction: `handleSendRequestHeaders` statement by statement
(`LetOthersGo`, `MatchRule`, `RewriteAcceptEncoding`, `AddSetupPlugin`,
`ResumeSendRequest`), because a request that is not an ordinary GET is resumed
in its first statement and ATS may send it at any moment after that;
`HandleReadResponseHeaders` as one action, because nothing can come in
between; and the steps of ATS. Rules, the way they match, the method and the
headers are chosen in `Init`. An Accept-Encoding header is the set of codings
it lists and the set it lists with q=0, which is what the code's substring
search and the protocol tell apart. The regular expressions are abstracted to
the sets of rules that match the URL before and after remapping. The origin
answers with a coding the request it got lists, or with identity. HTTP lets it
use any coding when there is no Accept-Encoding header; the code's comments
(lines 209 and 253-256) count on identity then, and `BodyMatchesHeaders` and
`ClientCanDecode` rest on the same assumption.

`FirstRuleGoverns` leaves open whether answers to requests that are no
ordinary GETs should be rewritten, since line 244 reads as if they should not;
it says that nothing but the first matching rule may do it.

`IsFirstMatch(r)` is what `std::find_if` finds, with 0 for `end()`. The body
goes through one transformation a step (`PassThrough`), and one that cannot
read what it is given produces garbage.

### RewriteOptions

What becomes of a map of options: `FlattenScalarSequence`, a recursive
function over the nodes of the file; `JoinVector`; `SetOptionsFromOptionsMap`,
which is `SetOption` for one name after the other in the order of the keys of
a `std::map`; and what the driver factory makes of its two settings. A text is
the sequence of the entries it lists between commas, so that joining texts
concatenates them. Of PageSpeed's options five stand for the kinds it has: one
with one value, two lists of filters, one with two and one with three values.
`IntMax` is `INT_MAX`, and `Number` is what `strtol` makes of an entry.
PageSpeed's own merging of options is external: what is set replaces a value
or adds to a list.

The properties compare what is set with what the file says, defined without
the code's operators: `ScalarsIn` is the scalars in a node as the least set
closed under the elements of sequences, `Listed` the filters they list under a
name, `Written` and `WrittenTuples` the value of an option that is written as
a scalar or a sequence of scalars. `IsPlain` says that the options that are no
lists of filters are written that way.

### Configuration, MCConfiguration

`TSPluginInit` from the command line to the registered hook: `ScanArg`,
`NoConfigArg`, `OpenFile`, `ApplyGlobals`, `ReadRule` once for each entry,
`RulesRead`, `InitFactory`, `RegisterHook`. What the file holds is chosen in
`OpenFile`: its state, its global options and its entries, each with a regex,
the keys it sets to true and its options.

`options` is `global_config.options`, `defaults` the driver factory's default
options, `factory` its settings, `contexts` the options of the server context
of each entry that was read. `ReadRule` is one turn of the loop, with all that
`operator>>` does: clone the global options, set the rule's own, merge them
into the server context and initialize that, which the first time has the
factory make its fetcher and its worker pool (`objects`); then the check of
the cache path. `InitFactory` finds no server context to initialize, because
nothing fills `uninitialized_server_contexts_`.

`MCConfiguration` holds the option maps the runs choose from.

### BaseFetch, SharedObject

`BaseFetch` models `AtsBaseFetch`: `Construct`, `HandleWrite`, `HandleFlush`,
`HandleDone` up to its release of the fetch, the decrements of both parties
(`DoneDecref`, `Release`), and `Delete`, a step of its own after the
`__sync_add_and_fetch` that found zero. That PageSpeed calls `HandleDone` once
and the transformation `Release` once is what the header asks of them
(`ats_base_fetch.h:47`); the class is not in the build (`src/src/Makefile.am`)
and nothing in the repository constructs it. Its mutex, taken in `HandleDone`
only, orders nothing and is left out.

`SharedObject` is an object that lives until the last of its holders lets go
and is then freed once. The mapping takes for the holders of a fetch the
parties that have not decremented yet.

## The runs

| Run | What it checks | Bounds |
|---|---|---|
| `transformation_sync` | `TypeOK`, `NoByteLost`, `SanityCheck`, `ImplementsBodyStream`, for a driver that writes only inside the plugin's calls | two rewrite threads, two byte values, 3 bytes in, 4 out |
| `transformation_async` | `NoUseAfterFree`, `DriverReturnedOnce`, `CallbacksReturn`, `OutputCompletes`, for a driver that also writes in between | two rewrite threads, 3 bytes in, 3 out |
| `transformation_race` | violated: `SanityCheck`, for a driver that also writes in between | one rewrite thread |
| `stats` | `TypeOK`, `InsertionExclusive`, `OneStatPerName`, `HolderNeverWaits`, `StatNeverReplaced`, `ImplementsStatRegistry`, `ConstructorsReturn` | two threads, two names, three constructions, parts of a Stat up to 1 |
| `transaction_get` | `TypeOK`, `BodyMatchesHeaders`, `ClientCanDecode`, `FirstRuleGoverns`, `ResumedOnce`, `TransactionEnds` | two rules, all headers without q=0 |
| `transaction_early` | violated: `GzipOrIdentity`, over all methods | one rule |
| `transaction_refused` | violated: `ClientCanDecode`, with gzip;q=0 | one rule |
| `config_load` | `TypeOK`, `RulesInFileOrder`, `EnabledRulesInitialized`, `ServesConfigured`, `GlobalPathSuffices`, `OwnPathSuffices`, `OptionsAsWritten`, `FactoryAsConfigured` | two arguments, two entries, five global and five rule option maps |
| `config_disable` | violated: `DisableHonoured` | one entry |
| `config_paths` | violated: `RulePathsSuffice` | two entries |
| `options_poolsize` | violated: `FactoryAsConfigured`, with a pool size an `int` cannot hold | one entry, an `INT_MAX` of 15 |
| `base_fetch` | `TypeOK`, `NoUseAfterDelete`, `DeletedInTheEnd`, `ImplementsSharedObject` | two fetches |

The bounds are where the cases end. Two rewrite threads and two units of
output in flight make every overlap of append with append and of append with
drain; 3 bytes in chunks of 1 or 2 give no, one, two and three `consume`
calls. Two threads and three constructions give a race for a name, a late
third constructor, and a second name at the same time. As each thread
counts up to 1 in a part of its own, the second one can set the Stat, or have
its part aggregated, between the increment and the read of the first one's
`Add`. There are as many Stats as names: a constructor that made one too many
would never return. Two rules are enough
for one to shadow another, two entries for a skipped one before a loaded one
and for one rule's options to reach another. The option maps write a list of
filters as a scalar, a quoted list, a sequence, a nested sequence and a
sequence with a node that is no scalar, with two and three entries, which is
where a list could be taken for an option of two or three values. Two fetches
show that the count of one does not decide about the other. The proofs below
remove the bounds.

`CHECK_DEADLOCK` is on everywhere. A destroyed plugin, an ended transaction,
a returned `TSPluginInit` and fetches that are all deleted stutter
(`Terminated`, `Finished`, `Returned`, `AllDeleted`).

### Fairness

* `Transformation`: a callback that started and a `Write` that has the mutex
  keep running (weak fairness of each). Nothing is assumed of ATS calling
  again or of the driver writing more. Weak fairness suffices for the drain's
  wait because a driver writes finitely much (`MaxOut`).
* `StatsVariable`: a thread inside a constructor keeps running. `rw_lock_`
  may prefer readers, so a writer gets in only because finitely many
  constructors start; PageSpeed constructs its variables at startup.
* `Transaction`: handlers keep running, ATS goes on when resumed, and the
  origin answers.
* `BaseFetch`: a call that has begun returns. Nothing makes a party begin one,
  so `DeletedInTheEnd` speaks of fetches that both have let go of.
* `Configuration`: none; it has safety properties only.

### What the violated runs show

* `transformation_race`: with the lock released before the drain, an append
  that comes between the count and `produce()` makes the check at line 145
  fail. (One that is erased by `buffer_.clear()` is lost without the check
  seeing it: `NoByteLost` would fail, the totals agree.) It needs a driver that writes between the
  plugin's calls; with `AsyncWriter = FALSE` the check is proved never to fail.
* `transaction_early`: line 244 lacks a return. A POST or an internal request
  goes out with the client's Accept-Encoding, is set up for rewriting all the
  same, and PageSpeed can be given a deflated body, against the comment at
  line 209.
* `transaction_refused`: `gzip;q=0` contains `gzip`, so that client gets gzip,
  against the comment at line 253.
* `config_disable`: the code looks for `DisablePagepseed`; the sample
  configuration says `DisablePagespeed`, which is ignored.
* `config_paths`: a disabled rule's own FileCachePath is never read, so
  without a global one the rule is rejected, against the message at line 201.
  What it was to exclude may then match a later rule.
* `options_poolsize`: `DefaultThreadPoolSize` is tested as the `long` that
  `strtol` returns and stored as an `int`. Twenty threads in an `int` that
  ends at 15 stand for a size above `INT_MAX`: the worker pool is made with
  minus twelve, against the comment at `ats_rewrite_driver_factory.h:53`.

## The proofs

The modules named `...Proofs` prove, for every value of the constants that
satisfies the assumption of the module they are about:

| Theorem | Statement |
|---|---|
| `TransformationProofs!TypeCorrect` | `Spec => []TypeOK` |
| `LifecycleSafe`, `DriverOnce` | `NoUseAfterFree` and `DriverReturnedOnce`, in both modes |
| `SyncNoByteLost`, `SyncSanityCheck`, `SyncImplementsBodyStream` | `~AsyncWriter` implies each of the three |
| `StatsVariableProofs!TypeCorrect` | `Spec => []TypeOK` |
| `MapAccessExclusive`, `LockGivenBack`, `SharedStat`, `StatKept` | `InsertionExclusive`, `HolderNeverWaits`, `OneStatPerName`, `StatNeverReplaced` |
| `VariablesImplementRegistry` | `Spec => Registry!Spec` |
| `TransactionProofs!TypeCorrect` | `Spec => []TypeOK` |
| `FirstMatchGoverns`, `OrdinaryResumedOnce`, `BodyIsAsNamed` | `FirstRuleGoverns`, `ResumedOnce`, `BodyMatchesHeaders`, for any rules |
| `DecodableUnlessRefused` | `ClientCanDecode`, if no coding can be refused with q=0 |
| `ConfigurationProofs!TypeCorrect` | `Spec => []TypeOK` |
| `FileOrderKept`, `EnabledCanRewrite`, `ServesWhenConfigured` | `RulesInFileOrder`, `EnabledRulesInitialized`, `ServesConfigured`, for any options and any number of entries |
| `OptionsInvariance` | `OptionsInv`: a server context is a function of the global options and its own rule, the factory's settings of the global options alone |
| `GlobalPathWorks`, `OwnPathWorks` | `GlobalPathSuffices`, `OwnPathSuffices` |
| `RulesAsWritten` | `OptionsAsWritten`, for lists of filters of any depth |
| `FactoryAsAsked` | `FactoryAsConfigured`, if no number in the file is above `INT_MAX` |
| `RewriteOptionsProofs!FlattenLosesNothing` | flattening a node keeps what its scalars list, and adds nothing |
| `BaseFetchProofs!TypeCorrect` | `Spec => []TypeOK` |
| `FetchOutlivesItsUsers`, `CountImplementsSharing` | `NoUseAfterDelete`, `ImplementsSharedObject`, for any fetches |

Each module defines an inductive invariant `IInv`, which TLC was given as an
invariant on the runs' instances before it was proved.

For the transformation, `DriverInv` says what the driver's life is at each
position of the ATS thread: it is what makes `completed_cleanly_` and
`rewrite_driver_` together decide correctly in the destructor. `LockInv` says
that the mutex is held exactly by the thread inside `Write`. `BytesInv`, for
`~AsyncWriter`, says that outside the driver's calls nobody writes, so the
unlocked drain sees a quiet buffer, and that an append in progress still holds
the buffer's contents. `NoByteLost` alone is not inductive: it needs that an
append writes back what the buffer still holds.

For the statistics, `LockInv` ties the lock's holders to the threads'
positions, `MapInv` says the map is injective and that only Stats in the map
have been counted with (which is what makes an insertion invisible), `KnowledgeInv` what each thread knows of the map:
under the write lock, that its name is still missing. `TypeOK` is not
inductive without it: that a finished variable has a Stat at all depends on
the lookups.

For a transaction, `HookInv` says when the hooks run and how often each can
have been resumed by then, `RuleInv` that the setup plugin is added exactly
for a first match that enables PageSpeed and that only such a rule changes
what the origin is asked. `CodingInv` and `ChainInv` carry that on to the
response: what an ordinary GET asked decides its coding, and the coding the
transformations. `BodyInv` says that inside the chain the body is plain HTML
and at its ends what the headers name. The two resumes of a request that is no
ordinary GET are why these need `Ordinary` and `FirstRuleGoverns` does not.

For the configuration, `LoopInv` says that one server context was made for
every entry passed and that what is loaded is one of those; `BeforeInv` that
nothing is loaded earlier, `ServeInv` what has happened when the hook is
registered. `RulesInFileOrder` is not inductive without the bound on the
entries that `LoopInv` gives.

What the options come to is a second invariant, `OptionsInv`, inductive given
`IInv`. `GlobalsInv` fixes `options`, `defaults` and `factory` as functions of
the file's global options, `ContextsInv` the context of an entry as
`RuleContext` of the entry, `LoadedInv` which entries are loaded and as what,
`ObjectsInv` what the factory has made. Each needs that reading a rule leaves
the factory's settings as they were (`RuleLeavesFactory`): without that, a
context computed earlier would not be the one computed now. The four
properties then follow from what the operators of `RewriteOptions` return:

* `FlattenRecursion`: `FlattenScalarSequence`, which a recursive definition
  only chooses, exists and satisfies its recursion; `FlattenLosesNothing` and
  `FlattenPlain`: what it returns, for nested and for plain nodes.
* `FlattenSeqRange`, `FlattenSingletons`: what joining texts returns, and
  `ValuesOfFilters`, that joining a list leaves at most one text and loses
  nothing.
* `Turns`, `TurnFields`, `MapApplied`: what each turn of
  `SetOptionsFromOptionsMap` does to each field of the settings, and all turns
  together; `NodeApplied` and `NodeSetsFactory` the same in terms of what the
  file says.
* `ToIntKeeps`: a number up to `INT_MAX` goes through the `int` unchanged.
  Run `options_poolsize` shows why `FactoryAsAsked` needs that hypothesis.

These are inductions over the depth of nodes, the length of sequences and the
turns of a loop. The library's induction theorems take a predicate as a
parameter, which the provers here cannot instantiate, so the induction is
stated for sets: a set of numbers that contains 0 and successors contains all
(`SetInduction`, from `WFMin`), and a set of nodes that contains every node
whose elements it contains has all nodes (`NodeInduction`). The latter is the
assumption that nodes nest to a finite depth: in every set of nodes is one
without an element in the set. It holds of what a YAML parser returns unless
an anchor is an alias inside itself, and TLC evaluates it for the nodes of the
runs.

For the base fetch, `CountInv` says that `references_` counts the parties that
have not let go, and `DeleteInv` that the deletions made and about to be made
are one exactly when it has reached zero. `NoUseAfterDelete` alone says
nothing of a party between its decrement and its delete.

`EnabledRulesInitialized` is what joins the two halves of the plugin: a
transaction takes a driver from the server context of the rule that governs it
without asking whether it was initialized, and `Transaction` allows any list
of rules, those that `Configuration` loads among them.

Only model-checked: the liveness properties (`CallbacksReturn`,
`OutputCompletes`, `ConstructorsReturn`, `TransactionEnds`,
`DeletedInTheEnd`). They need fairness and `ENABLED`, which the provers here do
not reason about. Every other property of a passing run is the statement of a
theorem above.

## Not modelled

The rewrite driver, ATS, the origin, the YAML and regex libraries and
atscppapi are external and appear only as the code relies on them.

* `AtsUrlAsyncFetcher`, the native fetcher: its only state, `shutdown_`,
  decides nothing but a log line and is never set, because
  `AtsRewriteDriverFactory::ShutDown` is empty. The `AsyncFetch` it is given
  is not kept and `handleAsyncComplete` only logs, so a fetch that is handed
  to it is never reported done; what PageSpeed then does is not in this
  repository.
* The rest of the driver factory constructs PageSpeed's objects and keeps no
  state. `uninitialized_server_contexts_` is never filled and `StartThreads`
  never called.
* Message handler, logging, request contexts, the thread-start hook and the
  build files: nothing reads what they keep. That PageSpeed's threads have
  called `TSThreadInit` before they count is assumed.
* Empty scalars in the file (`RewriteOptionsAssumption`).
* `Stat::init` can fail and its result is ignored
  (`ats_stats_variable.cpp:50`); what such a Stat does is atscppapi's business.
* Aliases of YAML nodes to a node they are in, on which the code would not
  return; exceptions of the YAML library, which nothing catches; option names that
  differ only in case, and keys that a map has twice.

## Plan

Done, in this order: `Transformation`, `BodyStream` and their proofs;
`StatsVariable`, `StatRegistry` and theirs; `Transaction`; `Configuration`;
`BaseFetch`, `SharedObject` and their proofs; `RewriteOptions` and the
configuration over it; `TransactionProofs`, `ConfigurationProofs`;
`RewriteOptionsProofs` and with it the rest of the configuration's properties.

What is left: the bridge from `Configuration` to `Transaction` as a theorem,
that the rules the one loads are rules the other is proved for; and the native
fetcher, should it ever keep the fetches it is given.
