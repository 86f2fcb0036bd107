--------------------------- MODULE RewriteOptions ---------------------------
(***************************************************************************)
(* How the options of a configuration file become PageSpeed's options and  *)
(* the settings of the driver factory: FlattenScalarSequence and the       *)
(* reading of a map of options (src/src/ats_pagespeed_configuration.cpp:   *)
(* 41-78), joinVector and SetOptionsFromOptionsMap                         *)
(* (src/src/ats_rewrite_options.cpp:65-162), and what the driver factory   *)
(* makes of its settings (src/src/ats_rewrite_driver_factory.cpp).         *)
(*                                                                         *)
(* A text is the sequence of the entries it lists between commas, so that  *)
(* joining texts with commas concatenates them.  Names of options stand    *)
(* for themselves in any case; a map has at most one key for each.  Empty  *)
(* scalars are left out: a comma next to one would list nothing, and a     *)
(* list of empty scalars alone is what joinVector does not join.           *)
(***************************************************************************)
EXTENDS Integers, Sequences

S == INSTANCE SequencesExt

CONSTANTS
  Entries,         \* what texts are made of
  YamlNodes,       \* the values of options in the file, and their elements
  Number,          \* what strtol makes of an entry: zero if it is no number
  IntMax           \* INT_MAX

Text == Seq(Entries)

ASSUME RewriteOptionsAssumption ==
  /\ \A n \in YamlNodes :
       \/ n.type = "scalar" /\ n.text \in Text /\ n.text # << >>
       \/ n.type = "sequence" /\ n.items \in Seq(YamlNodes)
       \/ n.type = "other"                         \* a map, or null
  \* Nodes nest to a finite depth: in every set of them is one without an
  \* element in the set.
  /\ \A C \in SUBSET YamlNodes : C # {} =>
       \E n \in C : n.type = "sequence" => S!Range(n.items) \cap C = {}
  /\ Number \in [Entries -> Int]
  /\ IntMax \in Nat \ {0}

-----------------------------------------------------------------------------
(* From the file to an OptionsMap. *)

FlattenScalarSequence[n \in YamlNodes] ==
  IF n.type = "sequence"
  THEN S!FlattenSeq([i \in DOMAIN n.items |-> FlattenScalarSequence[n.items[i]]])
  ELSE IF n.type = "scalar" THEN <<n.text>> ELSE << >>

ReadOptions(node) == [name \in DOMAIN node |-> FlattenScalarSequence[node[name]]]

-----------------------------------------------------------------------------
(* PageSpeed's options.  Of the options it has these stand for the rest:   *)
(* one with one value, two that list filters, and one each with two and    *)
(* three values.                                                           *)

FilterLists == {"EnableFilters", "DisableFilters"}

NumValues(name) ==
  CASE name \in FilterLists \cup {"FileCachePath"} -> 1
    [] name = "CustomFetchHeader"                  -> 2
    [] name = "UrlValuedAttribute"                 -> 3
    [] OTHER                                       -> 0    \* not its option

NewRewriteOptions ==
  [FileCachePath |-> << >>, EnableFilters |-> {}, DisableFilters |-> {},
   tuples |-> {}]

(* What is set in the second replaces, or adds to, what is set in the first. *)
Merge(o, p) ==
  [FileCachePath  |-> IF p.FileCachePath # << >> THEN p.FileCachePath
                      ELSE o.FileCachePath,
   EnableFilters  |-> o.EnableFilters \cup p.EnableFilters,
   DisableFilters |-> o.DisableFilters \cup p.DisableFilters,
   tuples         |-> o.tuples \cup p.tuples]

Clone(o) == Merge(NewRewriteOptions, o)

(* ParseAndSetOptionFromName1, 2 and 3: a name that has another number of  *)
(* values, or is unknown, sets nothing.                                    *)
ParseAndSetOption(o, name, vals) ==
  IF vals = << >> \/ NumValues(name) # Len(vals) THEN o
  ELSE IF name \in FilterLists THEN [o EXCEPT ![name] = @ \cup S!Range(vals[1])]
  ELSE IF name = "FileCachePath" THEN [o EXCEPT !.FileCachePath = vals[1]]
  ELSE [o EXCEPT !.tuples = @ \cup {[name |-> name, values |-> vals]}]

-----------------------------------------------------------------------------
(* The settings of the driver factory. *)

NewFactory == [DEFAULT_THREAD_POOL_SIZE |-> 1, use_native_fetcher |-> FALSE]

(* static_cast<int> of a long. *)
ToInt(n) == ((n + IntMax + 1) % (2 * (IntMax + 1))) - (IntMax + 1)

SetNativeFetcher(f, text) ==
  CASE text = <<"on">>  -> [f EXCEPT !.use_native_fetcher = TRUE]
    [] text = <<"off">> -> [f EXCEPT !.use_native_fetcher = FALSE]
    [] OTHER            -> f

SetThreadPoolSize(f, text) ==
  LET size == Number[text[1]]                   \* strtol stops at a comma
  IN  IF size > 0 THEN [f EXCEPT !.DEFAULT_THREAD_POOL_SIZE = ToInt(size)]
      ELSE f

(* What the driver factory creates for the first server context that is    *)
(* initialized and keeps for the others.                                   *)
DefaultAsyncUrlFetcher(f) == IF f.use_native_fetcher THEN "native" ELSE "serf"
CreateWorkerPool(f) == f.DEFAULT_THREAD_POOL_SIZE

-----------------------------------------------------------------------------
(* SetOptionsFromOptionsMap *)

JoinVector(vals) == IF vals = << >> THEN << >> ELSE <<S!FlattenSeq(vals)>>

(* Mutants: filter lists are not joined; every list is. *)
NeverJoined(name, vals) == vals
AlwaysJoined(name, vals) == JoinVector(vals)

Values(name, vals) ==
  IF name \in FilterLists /\ Len(vals) > 1 THEN JoinVector(vals) ELSE vals

(* One turn of its loop: given says whether the driver_factory is not NULL. *)
SetOption(settings, given, name, vals) ==
  CASE Len(vals) = 1 /\ given /\ name = "UseNativeFetcher" ->
         [settings EXCEPT !.factory = SetNativeFetcher(@, vals[1])]
    [] Len(vals) = 1 /\ given /\ name = "DefaultThreadPoolSize" ->
         [settings EXCEPT !.factory = SetThreadPoolSize(@, vals[1])]
    [] OTHER ->
         [settings EXCEPT !.options = ParseAndSetOption(@, name, vals)]

(* The names, in the order of the keys of a std::map. *)
Names == <<"CustomFetchHeader", "DefaultThreadPoolSize", "DisableFilters",
           "EnableFilters", "FileCachePath", "UrlValuedAttribute",
           "UseNativeFetcher">>

SetOptionsFromOptionsMap(settings, given, map) ==
  LET set[n \in 0 .. Len(Names)] ==
        IF n = 0 THEN settings
        ELSE IF Names[n] \notin DOMAIN map THEN set[n - 1]
        ELSE SetOption(set[n - 1], given, Names[n],
                       Values(Names[n], map[Names[n]]))
  IN  set[Len(Names)]

-----------------------------------------------------------------------------
(* What the file says, for the properties. *)

(* The scalars in a node: those in every set of nodes that contains it and *)
(* the elements of the sequences that are in the set.                      *)
ScalarsIn ==
  [n \in YamlNodes |->
     {s \in YamlNodes :
        /\ s.type = "scalar"
        /\ \A C \in SUBSET YamlNodes :
             n \in C /\ (\A m \in C : m.type = "sequence" =>
                                        S!Range(m.items) \subseteq C)
               => s \in C}]

(* The filters listed under a name, in whatever way the list is written. *)
Listed(node, name) ==
  IF name \in DOMAIN node
  THEN UNION {S!Range(s.text) : s \in ScalarsIn[node[name]]} ELSE {}

(* The value of an option that is written as a scalar. *)
Written(node, name) ==
  IF name \in DOMAIN node /\ node[name].type = "scalar"
  THEN node[name].text ELSE << >>

(* The options of several values that are written as a sequence of as many *)
(* scalars.                                                                *)
WrittenTuples(node) ==
  {[name |-> name, values |-> [i \in DOMAIN node[name].items |->
                                 node[name].items[i].text]] :
     name \in {m \in DOMAIN node :
                 /\ NumValues(m) > 1
                 /\ node[m].type = "sequence"
                 /\ NumValues(m) = Len(node[m].items)
                 /\ \A i \in DOMAIN node[m].items :
                      node[m].items[i].type = "scalar"}}

(* What is not a list of filters is written without nesting: one value as  *)
(* a scalar, several as a sequence of scalars.                             *)
IsPlain(node) ==
  \A name \in DOMAIN node \ FilterLists :
    node[name].type = "sequence" =>
      /\ NumValues(name) > 1
      /\ \A i \in DOMAIN node[name].items : node[name].items[i].type = "scalar"
=============================================================================
