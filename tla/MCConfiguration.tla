-------------------------- MODULE MCConfiguration ---------------------------
(***************************************************************************)
(* Configuration files for TLC: every way of writing a list of filters,    *)
(* cache paths that are directories and others, settings of the driver     *)
(* factory that are and are not valid, and options with two and three      *)
(* values.                                                                 *)
(***************************************************************************)
EXTENDS Configuration

Scalar(text) == [type |-> "scalar", text |-> text]
Sequence(items) == [type |-> "sequence", items |-> items]

Directory == Scalar(<<"directory">>)
Elsewhere == Scalar(<<"elsewhere">>)
On == Scalar(<<"on">>)
Four == Scalar(<<"4">>)
Twenty == Scalar(<<"20">>)
Fa == Scalar(<<"fa">>)
Fb == Scalar(<<"fb">>)
Quoted == Scalar(<<"fa", "fb">>)
Other == [type |-> "other"]
List == Sequence(<<Fa, Fb>>)
ListOfThree == Sequence(<<Fa, Quoted, Fb>>)
Inner == Sequence(<<Fb>>)
Nested == Sequence(<<Inner, Fa>>)
WithOther == Sequence(<<Fb, Other>>)

mcEntries == {"directory", "elsewhere", "on", "4", "20", "fa", "fb"}
mcYamlNodes ==
  {Directory, Elsewhere, On, Four, Twenty, Fa, Fb, Quoted, Other,
   List, ListOfThree, Inner, Nested, WithOther}
mcNumber ==
  [e \in mcEntries |-> CASE e = "4" -> 4 [] e = "20" -> 20 [] OTHER -> 0]

mcGlobalOptions ==
  {NoOptions,
   [FileCachePath |-> Directory, EnableFilters |-> List],
   [FileCachePath |-> Directory, DisableFilters |-> Quoted,
    UseNativeFetcher |-> On, DefaultThreadPoolSize |-> Four],
   [FileCachePath |-> Elsewhere, EnableFilters |-> Nested,
    UseNativeFetcher |-> Fa, DefaultThreadPoolSize |-> Fb],
   [FileCachePath |-> Directory, CustomFetchHeader |-> List,
    DefaultThreadPoolSize |-> Quoted]}

mcRuleOptions ==
  {NoOptions,
   [FileCachePath |-> Directory, UseNativeFetcher |-> On,
    DefaultThreadPoolSize |-> Four],
   [FileCachePath |-> Elsewhere],
   [EnableFilters |-> ListOfThree, DisableFilters |-> Nested],
   [EnableFilters |-> WithOther, DisableFilters |-> Other,
    UrlValuedAttribute |-> ListOfThree]}

(* A thread pool of more threads than an int up to 15 can count. *)
mcManyThreads ==
  {[FileCachePath |-> Directory, DefaultThreadPoolSize |-> n] :
     n \in {Four, Twenty, Fa}}

mcPaths == {NoOptions, [FileCachePath |-> Directory], [FileCachePath |-> Elsewhere]}
=============================================================================
