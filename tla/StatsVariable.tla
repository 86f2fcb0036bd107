--------------------------- MODULE StatsVariable ----------------------------
(***************************************************************************)
(* AtsStatsVariable (src/src/ats_stats_variable.cpp, ats_stats_variable.h) *)
(* and its use by AtsStats (src/src/ats_stats.h): threads construct        *)
(* variables by name and use them.  The Stat behind a name is created by   *)
(* the first constructor that needs it, under a double-checked lookup in   *)
(* stats_map_ guarded by rw_lock_.                                         *)
(*                                                                         *)
(* Each statement of the constructor that touches shared state is a step.  *)
(* PthreadRWLock and atscppapi::Stat are not part of this repository.  The *)
(* lock admits readers whenever no writer holds it.  Of a Stat the comments *)
(* at ats_stats_variable.h:46-49 and ats_thread_system.h:38-40 say that    *)
(* each thread counts for itself and that this is aggregated periodically: *)
(* increment adds to the thread's own part, get reads the aggregate, set   *)
(* replaces it, and Aggregate adds what one thread has counted since.      *)
(***************************************************************************)
EXTENDS Integers, FiniteSets

CONSTANTS
  Name,            \* the names of statistics
  Threads,         \* the threads that construct and use variables
  Stat,            \* the Stat objects there can be
  Null,            \* no Stat; no thread
  Values,          \* the arguments of Set and Add
  MaxValue,        \* bound: no part of a Stat goes beyond it
  MaxVariables     \* bound: variables constructed

ASSUME StatsAssumption ==
  /\ Null \notin Stat \cup Threads
  /\ Values \subseteq Int
  /\ MaxValue \in Nat
  /\ MaxVariables \in Nat

VARIABLES
  tpc,             \* where each thread is
  name,            \* name_ of the variable each thread works on
  stat,            \* its stat_
  readers,         \* the threads that hold rw_lock_ for reading
  writer,          \* the thread that holds it for writing
  statsMap,        \* stats_map_, Null for a name that is not in it
  created,         \* the Stats created so far
  value,           \* the aggregated value of each Stat
  pending,         \* what each thread counted and is not aggregated yet
  variables,       \* the variables constructed so far
  constructions,   \* how many constructors have started
  answer           \* history: the last answer each thread got

lockVars == <<readers, writer>>
mapVars  == <<statsMap, created>>
useVars  == <<value, pending, answer>>
madeVars == <<variables, constructions>>
vars == <<tpc, name, stat, lockVars, mapVars, useVars, madeVars>>

(* The threads are in the constructor between its first and last step. *)
Constructing == {"rlock", "lookup", "runlock", "wlock", "relookup",
                 "create", "insert", "wunlock"}

NoAnswer == [names |-> {}, value |-> 0]

Init ==
  /\ tpc = [t \in Threads |-> "idle"]
  /\ name \in [Threads -> Name]
  /\ stat = [t \in Threads |-> Null]
  /\ readers = {}
  /\ writer = Null
  /\ statsMap = [n \in Name |-> Null]
  /\ created = {}
  /\ value = [s \in Stat |-> 0]
  /\ pending = [t \in Threads |-> [s \in Stat |-> 0]]
  /\ variables = {}
  /\ constructions = 0
  /\ answer = [t \in Threads |-> NoAnswer]

Goto(t, l) == tpc' = [tpc EXCEPT ![t] = l]

-----------------------------------------------------------------------------
(* The constructor. *)

(* NewVariable and FindVariable of AtsStats both construct a variable. *)
Construct(t, n) ==
  /\ tpc[t] = "idle"
  /\ constructions < MaxVariables
  /\ constructions' = constructions + 1
  /\ name' = [name EXCEPT ![t] = n]
  /\ stat' = [stat EXCEPT ![t] = Null]
  /\ Goto(t, "rlock")
  /\ UNCHANGED <<lockVars, mapVars, useVars, variables>>

ReaderLock(t) ==
  /\ tpc[t] = "rlock"
  /\ writer = Null
  /\ readers' = readers \cup {t}
  /\ Goto(t, "lookup")
  /\ UNCHANGED <<name, stat, writer, mapVars, useVars, madeVars>>

LookupStat(n) == statsMap[n]

Lookup(t) ==
  /\ tpc[t] = "lookup"
  /\ stat' = [stat EXCEPT ![t] = LookupStat(name[t])]
  /\ Goto(t, "runlock")
  /\ UNCHANGED <<name, lockVars, mapVars, useVars, madeVars>>

(* The variable is complete: its users find its name and its Stat. *)
Constructed(t) ==
  variables' = variables \cup {[name |-> name[t], stat |-> stat[t]]}

(* Mutant: the constructor returns whether or not it found a Stat. *)
ReaderUnlockReturns(t) ==
  /\ tpc[t] = "runlock"
  /\ readers' = readers \ {t}
  /\ Goto(t, "idle") /\ Constructed(t)
  /\ UNCHANGED <<name, stat, writer, mapVars, useVars, constructions>>

(* ReaderUnlock, and the return if the Stat was found. *)
ReaderUnlock(t) ==
  /\ tpc[t] = "runlock"
  /\ readers' = readers \ {t}
  /\ IF stat[t] # Null
     THEN Goto(t, "idle") /\ Constructed(t)
     ELSE Goto(t, "wlock") /\ UNCHANGED variables
  /\ UNCHANGED <<name, stat, writer, mapVars, useVars, constructions>>

(* Mutant: a lock that lets a writer in beside readers. *)
WriterLockIgnoresReaders(t) ==
  /\ tpc[t] = "wlock"
  /\ writer = Null
  /\ writer' = t
  /\ Goto(t, "relookup")
  /\ UNCHANGED <<name, stat, readers, mapVars, useVars, madeVars>>

WriterLock(t) ==
  /\ tpc[t] = "wlock"
  /\ writer = Null /\ readers = {}
  /\ writer' = t
  /\ Goto(t, "relookup")
  /\ UNCHANGED <<name, stat, readers, mapVars, useVars, madeVars>>

(* Mutant: no second lookup. *)
RelookupSkipped(t) ==
  /\ tpc[t] = "relookup"
  /\ Goto(t, "create")
  /\ UNCHANGED <<name, stat, lockVars, mapVars, useVars, madeVars>>

(* Mutant: the early return forgets Unlock. *)
RelookupKeepsLock(t) ==
  /\ tpc[t] = "relookup"
  /\ stat' = [stat EXCEPT ![t] = LookupStat(name[t])]
  /\ Goto(t, IF stat'[t] # Null THEN "idle" ELSE "create")
  /\ UNCHANGED <<name, lockVars, mapVars, useVars, madeVars>>

(* The Stat may have been added while this thread waited for the lock. *)
Relookup(t) ==
  /\ tpc[t] = "relookup"
  /\ stat' = [stat EXCEPT ![t] = LookupStat(name[t])]
  /\ Goto(t, IF stat'[t] # Null THEN "wunlock" ELSE "create")
  /\ UNCHANGED <<name, lockVars, mapVars, useVars, madeVars>>

(* new Stat() and its init(), whose result nobody looks at. *)
CreateStat(t, s) ==
  /\ tpc[t] = "create"
  /\ s \notin created
  /\ created' = created \cup {s}
  /\ stat' = [stat EXCEPT ![t] = s]
  /\ Goto(t, "insert")
  /\ UNCHANGED <<name, lockVars, statsMap, useVars, madeVars>>

(* Mutant: the new Stat is not put into the map. *)
InsertForgotten(t) ==
  /\ tpc[t] = "insert"
  /\ Goto(t, "wunlock")
  /\ UNCHANGED <<name, stat, lockVars, mapVars, useVars, madeVars>>

Insert(t) ==
  /\ tpc[t] = "insert"
  /\ statsMap' = [statsMap EXCEPT ![name[t]] = stat[t]]
  /\ Goto(t, "wunlock")
  /\ UNCHANGED <<name, stat, lockVars, created, useVars, madeVars>>

WriterUnlock(t) ==
  /\ tpc[t] = "wunlock"
  /\ writer' = Null
  /\ Goto(t, "idle")
  /\ Constructed(t)
  /\ UNCHANGED <<name, stat, readers, mapVars, useVars, constructions>>

-----------------------------------------------------------------------------
(* Using a variable. *)

(* What the parts of a Stat may be: the bound of the model. *)
Bounded == -MaxValue .. MaxValue

(* stat_->get(), the answer of Get and the end of Add: the aggregate. *)
Answers(t, n, s) ==
  answer' = [answer EXCEPT ![t] = [names |-> {n}, value |-> value[s]]]

Get(t, v) ==
  /\ tpc[t] = "idle"
  /\ Answers(t, v.name, v.stat)
  /\ UNCHANGED <<tpc, name, stat, lockVars, mapVars, value, pending,
                 madeVars>>

Set(t, v, x) ==
  /\ tpc[t] = "idle"
  /\ value' = [value EXCEPT ![v.stat] = x]
  /\ UNCHANGED <<tpc, name, stat, lockVars, mapVars, pending, answer,
                 madeVars>>

(* Add increments first and then reads the Stat for its result: the answer *)
(* may lack what it added itself and have what others did in between.      *)
AddIncrement(t, v, d) ==
  /\ tpc[t] = "idle"
  /\ pending[t][v.stat] + d \in Bounded
  /\ pending' = [pending EXCEPT ![t][v.stat] = @ + d]
  /\ name' = [name EXCEPT ![t] = v.name]
  /\ stat' = [stat EXCEPT ![t] = v.stat]
  /\ Goto(t, "added")
  /\ UNCHANGED <<lockVars, mapVars, value, answer, madeVars>>

AddGet(t) ==
  /\ tpc[t] = "added"
  /\ Answers(t, name[t], stat[t])
  /\ Goto(t, "idle")
  /\ UNCHANGED <<name, stat, lockVars, mapVars, value, pending, madeVars>>

(* What thread t has counted with s becomes visible, at any time. *)
Aggregate(t, s) ==
  /\ pending[t][s] # 0
  /\ value[s] + pending[t][s] \in Bounded
  /\ value' = [value EXCEPT ![s] = @ + pending[t][s]]
  /\ pending' = [pending EXCEPT ![t][s] = 0]
  /\ UNCHANGED <<tpc, name, stat, lockVars, mapVars, answer, madeVars>>

-----------------------------------------------------------------------------
(* The steps of a constructor that has started. *)
ConstructorStep(t) ==
  \/ ReaderLock(t) \/ Lookup(t) \/ ReaderUnlock(t)
  \/ WriterLock(t) \/ Relookup(t)
  \/ \E s \in Stat : CreateStat(t, s)
  \/ Insert(t) \/ WriterUnlock(t)

Use(t, v) ==
  \/ Get(t, v)
  \/ \E x \in Values : Set(t, v, x) \/ AddIncrement(t, v, x)

Next ==
  \E t \in Threads :
    \/ \E n \in Name : Construct(t, n)
    \/ ConstructorStep(t)
    \/ \E v \in variables : Use(t, v)
    \/ AddGet(t)
    \/ \E s \in Stat : Aggregate(t, s)

Spec == Init /\ [][Next]_vars

(* A thread that is inside a constructor keeps running.  rw_lock_ may keep *)
(* a writer waiting while readers hold it, so weak fairness only helps     *)
(* because finitely many constructors start; MaxVariables bounds them.     *)
Fairness == \A t \in Threads : WF_vars(ConstructorStep(t))

FairSpec == Spec /\ Fairness

-----------------------------------------------------------------------------
TypeOK ==
  /\ tpc \in [Threads -> Constructing \cup {"idle", "added"}]
  /\ name \in [Threads -> Name]
  /\ stat \in [Threads -> Stat \cup {Null}]
  /\ readers \subseteq Threads
  /\ writer \in Threads \cup {Null}
  /\ statsMap \in [Name -> Stat \cup {Null}]
  /\ created \subseteq Stat
  /\ value \in [Stat -> Int]
  /\ pending \in [Threads -> [Stat -> Int]]
  /\ variables \subseteq [name : Name, stat : Stat]
  /\ constructions \in Nat
  /\ answer \in [Threads -> [names : SUBSET Name, value : Int]]

-----------------------------------------------------------------------------
(* Properties. *)

(* stats_map_ is a plain map: an insertion (ats_stats_variable.cpp:52) may *)
(* overlap neither a lookup (lines 30, 42) nor another insertion.          *)
InsertionExclusive ==
  \A t, u \in Threads :
    tpc[t] = "insert" /\ t # u =>
      tpc[u] \notin {"lookup", "relookup", "insert"}

(* Threads that race to construct the first variables of a name share one  *)
(* Stat, the one stats_map_ has, and no two names share a Stat.            *)
OneStatPerName ==
  /\ \A v \in variables : v.stat = statsMap[v.name]
  /\ \A m, n \in Name :
       m # n /\ statsMap[m] # Null => statsMap[m] # statsMap[n]

(* Whoever holds rw_lock_ is inside the constructor and does not wait for  *)
(* it: none of the constructor's three ways out keeps the lock, and the    *)
(* lock for reading is given back before the one for writing is asked for, *)
(* so no two constructors wait for each other, nor one for itself.         *)
HolderNeverWaits ==
  \A t \in Threads :
    t \in readers \/ writer = t => tpc[t] \in Constructing \ {"rlock", "wlock"}

(* A name that is in stats_map_ keeps its Stat: no later constructor       *)
(* replaces the one that variables already count with.                     *)
StatNeverReplaced ==
  [][\A n \in Name : statsMap[n] # Null => statsMap'[n] = statsMap[n]]_vars

(* The counter of a name is the Stat the map has for it, and what threads  *)
(* have pending for that Stat is what they have still due to it.  Through  *)
(* whatever variable a thread counts, its increments come to the counter   *)
(* of the name, each once, and every answer it gets is that counter's.     *)
Registry ==
  INSTANCE StatRegistry
  WITH counter <- [n \in Name |-> IF statsMap[n] = Null THEN 0
                                  ELSE value[statsMap[n]]],
       due <- [t \in Threads |->
                 [n \in Name |-> IF statsMap[n] = Null THEN 0
                                 ELSE pending[t][statsMap[n]]]]
ImplementsStatRegistry == Registry!Spec

(* Every constructor that starts returns: rw_lock_ is released on each of  *)
(* the constructor's ways out.                                             *)
ConstructorsReturn ==
  \A t \in Threads : tpc[t] \in Constructing ~> tpc[t] = "idle"
=============================================================================
