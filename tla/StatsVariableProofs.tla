------------------------ MODULE StatsVariableProofs -------------------------
(***************************************************************************)
(* Proofs about StatsVariable: its type invariant, the mutual exclusion of *)
(* accesses to stats_map_, that racing constructors agree on one Stat per  *)
(* name, and that the variables implement StatRegistry.                    *)
(***************************************************************************)
EXTENDS StatsVariable, TLAPS

-----------------------------------------------------------------------------
(* The inductive invariant. *)

(* Who holds rw_lock_, told by where each thread is. *)
LockInv ==
  /\ \A t \in Threads : tpc[t] \in {"lookup", "runlock"} <=> t \in readers
  /\ \A t \in Threads :
       tpc[t] \in {"relookup", "create", "insert", "wunlock"} <=> writer = t
  /\ writer # Null => readers = {}

(* stats_map_ gives no Stat to two names, and only Stats that were created; *)
(* nobody has counted with a Stat that is not in the map.                   *)
MapInv ==
  /\ \A n \in Name : statsMap[n] # Null => statsMap[n] \in created
  /\ \A m, n \in Name :
       m # n /\ statsMap[m] # Null => statsMap[m] # statsMap[n]
  /\ \A s \in Stat : (\A n \in Name : statsMap[n] # s) =>
       value[s] = 0 /\ \A t \in Threads : pending[t][s] = 0

(* What a thread knows of the map: under the write lock that its name is    *)
(* still missing, after a successful lookup that its Stat is the map's.     *)
KnowledgeInv ==
  /\ \A v \in variables : v.stat = statsMap[v.name]
  /\ \A t \in Threads :
       /\ tpc[t] \in {"create", "insert"} => statsMap[name[t]] = Null
       /\ tpc[t] = "insert" =>
            /\ stat[t] \in created
            /\ \A n \in Name : statsMap[n] # stat[t]
       /\ tpc[t] \in {"wunlock", "added"} => stat[t] # Null
       /\ tpc[t] \in {"runlock", "wunlock", "added"} /\ stat[t] # Null =>
            stat[t] = statsMap[name[t]]

IInv == TypeOK /\ LockInv /\ MapInv /\ KnowledgeInv

LEMMA InitIInv == Init => IInv
<1> SUFFICES ASSUME Init PROVE IInv
  OBVIOUS
<1> USE StatsAssumption DEF Init
<1>1. TypeOK
  BY DEF TypeOK, NoAnswer
<1>2. LockInv /\ MapInv /\ KnowledgeInv
  BY DEF LockInv, MapInv, KnowledgeInv
<1> QED
  BY <1>1, <1>2 DEF IInv

-----------------------------------------------------------------------------
(* The steps. *)

(* A variable that is constructed has a Stat only because of what the       *)
(* constructor knows of the map, so the types depend on KnowledgeInv.       *)
LEMMA TypeStep == TypeOK /\ KnowledgeInv /\ [Next]_vars => TypeOK'
<1> SUFFICES ASSUME TypeOK, KnowledgeInv, [Next]_vars PROVE TypeOK'
  OBVIOUS
<1> USE StatsAssumption
    DEF TypeOK, Goto, Constructing, lockVars, mapVars, useVars, madeVars
<1>1. ASSUME NEW t \in Threads, \E n \in Name : Construct(t, n) PROVE TypeOK'
  BY <1>1 DEF Construct
<1>2. ASSUME NEW t \in Threads, ReaderLock(t) PROVE TypeOK'
  BY <1>2 DEF ReaderLock
<1>3. ASSUME NEW t \in Threads, Lookup(t) PROVE TypeOK'
  BY <1>3 DEF Lookup, LookupStat
<1>4. ASSUME NEW t \in Threads, ReaderUnlock(t) PROVE TypeOK'
  <2>1. /\ readers' \subseteq Threads
        /\ tpc' \in [Threads -> Constructing \cup {"idle", "added"}]
    BY <1>4 DEF ReaderUnlock
  <2>2. variables' \subseteq [name : Name, stat : Stat]
    BY <1>4 DEF ReaderUnlock, Constructed
  <2> QED
    BY <1>4, <2>1, <2>2 DEF ReaderUnlock
<1>5. ASSUME NEW t \in Threads, WriterLock(t) PROVE TypeOK'
  BY <1>5 DEF WriterLock
<1>6. ASSUME NEW t \in Threads, Relookup(t) PROVE TypeOK'
  BY <1>6 DEF Relookup, LookupStat
<1>7. ASSUME NEW t \in Threads, \E s \in Stat : CreateStat(t, s) PROVE TypeOK'
  BY <1>7 DEF CreateStat
<1>8. ASSUME NEW t \in Threads, Insert(t) PROVE TypeOK'
  BY <1>8 DEF Insert
<1>9. ASSUME NEW t \in Threads, WriterUnlock(t) PROVE TypeOK'
  BY <1>9 DEF WriterUnlock, Constructed, KnowledgeInv
<1>10. ASSUME NEW t \in Threads, \E v \in variables : Get(t, v) PROVE TypeOK'
  BY <1>10 DEF Get, Answers
<1>11. ASSUME NEW t \in Threads,
              \E v \in variables, x \in Values : Set(t, v, x)
       PROVE  TypeOK'
  BY <1>11 DEF Set
<1>12. ASSUME NEW t \in Threads,
              \E v \in variables, x \in Values : AddIncrement(t, v, x)
       PROVE  TypeOK'
  BY <1>12 DEF AddIncrement
<1>13. ASSUME NEW t \in Threads, AddGet(t) PROVE TypeOK'
  BY <1>13 DEF AddGet, Answers, KnowledgeInv
<1>14. ASSUME NEW t \in Threads, \E s \in Stat : Aggregate(t, s)
       PROVE  TypeOK'
  BY <1>14 DEF Aggregate
<1>15. CASE UNCHANGED vars
  BY <1>15 DEF vars
<1> QED
  BY <1>1, <1>2, <1>3, <1>4, <1>5, <1>6, <1>7, <1>8, <1>9, <1>10, <1>11,
     <1>12, <1>13, <1>14, <1>15
  DEF Next, ConstructorStep, Use

LEMMA LockStep == TypeOK /\ LockInv /\ [Next]_vars => LockInv'
<1> SUFFICES ASSUME TypeOK, LockInv, [Next]_vars PROVE LockInv'
  OBVIOUS
<1> USE StatsAssumption
    DEF TypeOK, LockInv, Goto, lockVars, mapVars, useVars, madeVars
<1>1. ASSUME NEW t \in Threads, \E n \in Name : Construct(t, n) PROVE LockInv'
  BY <1>1 DEF Construct
<1>2. ASSUME NEW t \in Threads, ReaderLock(t) PROVE LockInv'
  BY <1>2 DEF ReaderLock
<1>3. ASSUME NEW t \in Threads, Lookup(t) PROVE LockInv'
  BY <1>3 DEF Lookup, LookupStat
<1>4. ASSUME NEW t \in Threads, ReaderUnlock(t) PROVE LockInv'
  BY <1>4 DEF ReaderUnlock, Constructed
<1>5. ASSUME NEW t \in Threads, WriterLock(t) PROVE LockInv'
  BY <1>5 DEF WriterLock
<1>6. ASSUME NEW t \in Threads, Relookup(t) PROVE LockInv'
  BY <1>6 DEF Relookup, LookupStat
<1>7. ASSUME NEW t \in Threads, \E s \in Stat : CreateStat(t, s) PROVE LockInv'
  BY <1>7 DEF CreateStat
<1>8. ASSUME NEW t \in Threads, Insert(t) PROVE LockInv'
  BY <1>8 DEF Insert
<1>9. ASSUME NEW t \in Threads, WriterUnlock(t) PROVE LockInv'
  BY <1>9 DEF WriterUnlock, Constructed
<1>10. ASSUME NEW t \in Threads, \E v \in variables : Get(t, v) PROVE LockInv'
  BY <1>10 DEF Get, Answers
<1>11. ASSUME NEW t \in Threads,
              \E v \in variables, x \in Values : Set(t, v, x)
       PROVE  LockInv'
  BY <1>11 DEF Set
<1>12. ASSUME NEW t \in Threads,
              \E v \in variables, x \in Values : AddIncrement(t, v, x)
       PROVE  LockInv'
  BY <1>12 DEF AddIncrement
<1>13. ASSUME NEW t \in Threads, AddGet(t) PROVE LockInv'
  BY <1>13 DEF AddGet, Answers
<1>14. ASSUME NEW t \in Threads, \E s \in Stat : Aggregate(t, s)
       PROVE  LockInv'
  BY <1>14 DEF Aggregate
<1>15. CASE UNCHANGED vars
  BY <1>15 DEF vars
<1> QED
  BY <1>1, <1>2, <1>3, <1>4, <1>5, <1>6, <1>7, <1>8, <1>9, <1>10, <1>11,
     <1>12, <1>13, <1>14, <1>15
  DEF Next, ConstructorStep, Use

LEMMA MapStep == IInv /\ TypeOK' /\ [Next]_vars => (MapInv /\ KnowledgeInv)'
<1> SUFFICES ASSUME IInv, TypeOK', [Next]_vars PROVE (MapInv /\ KnowledgeInv)'
  OBVIOUS
<1> USE StatsAssumption
    DEF IInv, TypeOK, LockInv, MapInv, KnowledgeInv, Goto, lockVars, mapVars,
        useVars, madeVars
<1>1. ASSUME NEW t \in Threads, \E n \in Name : Construct(t, n)
      PROVE  (MapInv /\ KnowledgeInv)'
  BY <1>1 DEF Construct
<1>2. ASSUME NEW t \in Threads, ReaderLock(t) PROVE (MapInv /\ KnowledgeInv)'
  BY <1>2 DEF ReaderLock
<1>3. ASSUME NEW t \in Threads, Lookup(t) PROVE (MapInv /\ KnowledgeInv)'
  BY <1>3 DEF Lookup, LookupStat
<1>4. ASSUME NEW t \in Threads, ReaderUnlock(t) PROVE (MapInv /\ KnowledgeInv)'
  BY <1>4 DEF ReaderUnlock, Constructed
<1>5. ASSUME NEW t \in Threads, WriterLock(t) PROVE (MapInv /\ KnowledgeInv)'
  BY <1>5 DEF WriterLock
<1>6. ASSUME NEW t \in Threads, Relookup(t) PROVE (MapInv /\ KnowledgeInv)'
  BY <1>6 DEF Relookup, LookupStat
<1>7. ASSUME NEW t \in Threads, \E s \in Stat : CreateStat(t, s)
      PROVE  (MapInv /\ KnowledgeInv)'
  BY <1>7 DEF CreateStat
<1>8. ASSUME NEW t \in Threads, Insert(t) PROVE (MapInv /\ KnowledgeInv)'
  BY <1>8 DEF Insert
<1>9. ASSUME NEW t \in Threads, WriterUnlock(t) PROVE (MapInv /\ KnowledgeInv)'
  BY <1>9 DEF WriterUnlock, Constructed
<1>10. ASSUME NEW t \in Threads, \E v \in variables : Get(t, v)
       PROVE  (MapInv /\ KnowledgeInv)'
  BY <1>10 DEF Get, Answers
<1>11. ASSUME NEW t \in Threads,
              \E v \in variables, x \in Values : Set(t, v, x)
       PROVE  (MapInv /\ KnowledgeInv)'
  BY <1>11 DEF Set
<1>12. ASSUME NEW t \in Threads,
              \E v \in variables, x \in Values : AddIncrement(t, v, x)
       PROVE  (MapInv /\ KnowledgeInv)'
  BY <1>12 DEF AddIncrement
<1>13. ASSUME NEW t \in Threads, AddGet(t) PROVE (MapInv /\ KnowledgeInv)'
  BY <1>13 DEF AddGet, Answers
<1>14. ASSUME NEW t \in Threads, \E s \in Stat : Aggregate(t, s)
       PROVE  (MapInv /\ KnowledgeInv)'
  BY <1>14 DEF Aggregate
<1>15. CASE UNCHANGED vars
  BY <1>15 DEF vars
<1> QED
  BY <1>1, <1>2, <1>3, <1>4, <1>5, <1>6, <1>7, <1>8, <1>9, <1>10, <1>11,
     <1>12, <1>13, <1>14, <1>15
  DEF Next, ConstructorStep, Use

LEMMA IInvStep == IInv /\ [Next]_vars => IInv'
  BY TypeStep, LockStep, MapStep DEF IInv

(* IInv holds throughout every execution. *)
THEOREM Invariance == Spec => []IInv
  BY InitIInv, IInvStep, PTL DEF Spec

-----------------------------------------------------------------------------
(* The theorems. *)

(* The variables keep their types; in particular every constructed variable *)
(* has a Stat, never NULL (TypeOK).                                         *)
THEOREM TypeCorrect == Spec => []TypeOK
<1>1. IInv => TypeOK
  BY DEF IInv
<1> QED
  BY <1>1, Invariance, PTL

(* No insertion into stats_map_ overlaps a lookup or another insertion, for *)
(* any number of threads and names (InsertionExclusive).                    *)
THEOREM MapAccessExclusive == Spec => []InsertionExclusive
<1>1. IInv => InsertionExclusive
  BY StatsAssumption DEF IInv, TypeOK, LockInv, InsertionExclusive
<1> QED
  BY <1>1, Invariance, PTL

(* No thread that holds rw_lock_ waits for it or has left the constructor,  *)
(* however many threads race (HolderNeverWaits).                            *)
THEOREM LockGivenBack == Spec => []HolderNeverWaits
<1>1. IInv => HolderNeverWaits
  <2> SUFFICES ASSUME IInv, NEW t \in Threads, t \in readers \/ writer = t
               PROVE  tpc[t] \in Constructing \ {"rlock", "wlock"}
    BY DEF HolderNeverWaits
  <2> QED
    BY DEF IInv, LockInv, Constructing
<1> QED
  BY <1>1, Invariance, PTL

(* All variables of a name share the Stat that stats_map_ has for it, and   *)
(* different names have different Stats (OneStatPerName).                   *)
THEOREM SharedStat == Spec => []OneStatPerName
<1>1. IInv => OneStatPerName
  BY DEF IInv, MapInv, KnowledgeInv, OneStatPerName
<1> QED
  BY <1>1, Invariance, PTL

(* The map changes only where it has no Stat yet. *)
LEMMA MapChange ==
  ASSUME IInv, [Next]_vars, statsMap' # statsMap
  PROVE  \E t \in Threads : Insert(t)
<1> USE DEF lockVars, mapVars, useVars, madeVars
<1> QED
  BY DEF Next, ConstructorStep, Use, vars, Construct, ReaderLock, Lookup,
         ReaderUnlock, WriterLock, Relookup, CreateStat, WriterUnlock, Get,
         Set, AddIncrement, AddGet, Aggregate

(* No constructor replaces a Stat that variables already count with         *)
(* (StatNeverReplaced).                                                     *)
THEOREM StatKept == Spec => StatNeverReplaced
<1>1. IInv /\ [Next]_vars
        => [\A n \in Name :
              statsMap[n] # Null => statsMap'[n] = statsMap[n]]_vars
  <2> SUFFICES ASSUME IInv, [Next]_vars, NEW n \in Name, statsMap[n] # Null
               PROVE  statsMap'[n] = statsMap[n]
    OBVIOUS
  <2>1. CASE statsMap' = statsMap
    BY <2>1
  <2>2. CASE statsMap' # statsMap
    <3>1. PICK t \in Threads : Insert(t)
      BY <2>2, MapChange
    <3> QED
      BY <3>1 DEF Insert, IInv, TypeOK, KnowledgeInv
  <2> QED
    BY <2>1, <2>2
<1> QED
  BY <1>1, Invariance, PTL DEF Spec, StatNeverReplaced

-----------------------------------------------------------------------------
(* The refinement. *)

(* The counter of each name and what threads have due to it, as the        *)
(* refinement mapping defines them.                                        *)
Counter ==
  [n \in Name |-> IF statsMap[n] = Null THEN 0 ELSE value[statsMap[n]]]
Due ==
  [t \in Threads |->
     [n \in Name |-> IF statsMap[n] = Null THEN 0
                     ELSE pending[t][statsMap[n]]]]

(* The initial counters are zero and nothing is due to them. *)
LEMMA RegistryInit == Init => Registry!Init
  BY DEF Init, NoAnswer, Registry!Init, Registry!NoAnswer

(* A Stat that the map has is the Stat of one name only. *)
LEMMA StatOfOneName ==
  ASSUME IInv, NEW n \in Name, statsMap[n] # Null
  PROVE  /\ statsMap[n] \in Stat
         /\ \A m \in Name : m # n => statsMap[m] # statsMap[n]
  BY DEF IInv, TypeOK, MapInv

(* A variable's Stat is the one the map has for its name. *)
LEMMA StatOfVariable ==
  ASSUME IInv, NEW v \in variables
  PROVE  v.name \in Name /\ v.stat = statsMap[v.name] /\ v.stat # Null
  BY StatsAssumption DEF IInv, TypeOK, KnowledgeInv

(* What changes one Stat's aggregate changes its name's counter alone. *)
LEMMA CounterOf ==
  ASSUME IInv, NEW n \in Name, statsMap[n] # Null, NEW x \in Int,
         statsMap' = statsMap, value' = [value EXCEPT ![statsMap[n]] = x]
  PROVE  Counter' = [Counter EXCEPT ![n] = x]
<1>1. ASSUME NEW m \in Name
      PROVE  Counter'[m] = IF m = n THEN x ELSE Counter[m]
  BY StatOfOneName DEF Counter, IInv, TypeOK
<1> QED
  BY <1>1 DEF Counter

PendingBecomes(t, s, x) ==
  statsMap' = statsMap /\ pending' = [pending EXCEPT ![t][s] = x]
DueBecomes(t, n, x) == Due' = [Due EXCEPT ![t][n] = x]

(* What changes a thread's part of one Stat changes what that thread has   *)
(* due to its name alone.                                                  *)
LEMMA DueOf ==
  ASSUME IInv, NEW n \in Name, statsMap[n] # Null, NEW t \in Threads,
         NEW x \in Int, PendingBecomes(t, statsMap[n], x)
  PROVE  DueBecomes(t, n, x)
<1> USE DEF PendingBecomes, DueBecomes
<1>1. ASSUME NEW u \in Threads, NEW m \in Name
      PROVE  Due'[u][m] = IF u = t /\ m = n THEN x ELSE Due[u][m]
  BY StatOfOneName DEF Due, IInv, TypeOK
<1>2. /\ Due' = [u \in Threads |-> [m \in Name |-> Due'[u][m]]]
      /\ Due = [u \in Threads |-> [m \in Name |-> Due[u][m]]]
  BY DEF Due
<1> QED
  BY <1>1, <1>2

(* Every step of the variables is a step of the registry or leaves it      *)
(* alone.  An insertion is invisible because nobody has counted with the   *)
(* new Stat yet.                                                           *)
LEMMA RegistryStep ==
  ASSUME IInv, IInv', [Next]_vars
  PROVE  [Registry!Next]_(Registry!vars)
<1> USE StatsAssumption
    DEF lockVars, mapVars, useVars, madeVars
<1>1. ASSUME NEW t \in Threads, Insert(t)
      PROVE  UNCHANGED <<Counter, Due, answer>>
  <2>1. /\ stat[t] \in Stat /\ statsMap[name[t]] = Null
        /\ value[stat[t]] = 0 /\ \A u \in Threads : pending[u][stat[t]] = 0
    BY <1>1 DEF Insert, IInv, TypeOK, MapInv, KnowledgeInv
  <2>2. /\ statsMap' = [statsMap EXCEPT ![name[t]] = stat[t]]
        /\ UNCHANGED <<value, pending, answer>>
    BY <1>1 DEF Insert
  <2>3. \A n \in Name :
          statsMap'[n] = IF n = name[t] THEN stat[t] ELSE statsMap[n]
    BY <2>2 DEF IInv, TypeOK
  <2>4. Counter' = Counter
    BY <2>1, <2>2, <2>3 DEF Counter
  <2>5. Due' = Due
    BY <2>1, <2>2, <2>3 DEF Due
  <2> QED
    BY <2>2, <2>4, <2>5
<1>2. /\ UNCHANGED <<statsMap, value>> => Counter' = Counter
      /\ UNCHANGED <<statsMap, pending>> => Due' = Due
  BY DEF Counter, Due
<1>3. ASSUME NEW t \in Threads, NEW n \in Name, NEW s \in Stat,
             s = statsMap[n], Answers(t, n, s),
             UNCHANGED <<statsMap, value, pending>>
      PROVE  Registry!Answer(t, n)
  <2>1. Counter[n] = value[s]
    BY <1>3 DEF Counter
  <2>2. /\ answer' = [answer EXCEPT ![t] = [names |-> {n}, value |-> Counter[n]]]
        /\ UNCHANGED <<Counter, Due>>
    BY <1>2, <1>3, <2>1 DEF Answers
  <2> QED
    BY <2>2 DEF Counter, Due, Registry!Answer
<1>4. ASSUME NEW t \in Threads, NEW v \in variables, Get(t, v)
      PROVE  \E n \in Name : Registry!Answer(t, n)
  <2>1. v.name \in Name /\ v.stat = statsMap[v.name] /\ v.stat \in Stat
    BY StatOfVariable, StatOfOneName
  <2> QED
    BY <1>3, <1>4, <2>1 DEF Get
<1>5. ASSUME NEW t \in Threads, AddGet(t)
      PROVE  \E n \in Name : Registry!Answer(t, n)
  <2>1. name[t] \in Name /\ stat[t] = statsMap[name[t]] /\ stat[t] \in Stat
    BY <1>5 DEF AddGet, IInv, TypeOK, KnowledgeInv
  <2> QED
    BY <1>3, <1>5, <2>1 DEF AddGet
<1>6. ASSUME NEW t \in Threads, NEW v \in variables, NEW x \in Values,
             Set(t, v, x)
      PROVE  \E n \in Name : Registry!Set(n, x)
  <2>1. v.name \in Name /\ v.stat = statsMap[v.name] /\ v.stat # Null
    BY StatOfVariable
  <2>2. Counter' = [Counter EXCEPT ![v.name] = x]
    BY <1>6, <2>1, CounterOf DEF Set
  <2>3. UNCHANGED <<Due, answer>>
    BY <1>2, <1>6 DEF Set
  <2> QED
    BY <2>1, <2>2, <2>3 DEF Counter, Due, Registry!Set
<1>7. ASSUME NEW t \in Threads, NEW v \in variables, NEW x \in Values,
             AddIncrement(t, v, x)
      PROVE  \E n \in Name : Registry!Increment(t, n, x)
  <2>1. v.name \in Name /\ v.stat = statsMap[v.name] /\ v.stat # Null
    BY StatOfVariable
  <2>2. /\ Due[t][v.name] = pending[t][v.stat]
        /\ pending[t][v.stat] + x \in Int
    BY <2>1, StatOfOneName DEF Due, IInv, TypeOK
  <2>3. PendingBecomes(t, statsMap[v.name], pending[t][v.stat] + x)
    BY <1>7, <2>1 DEF AddIncrement, PendingBecomes
  <2>4. DueBecomes(t, v.name, pending[t][v.stat] + x)
    BY <2>1, <2>2, <2>3, DueOf
  <2>5. UNCHANGED <<Counter, answer>>
    BY <1>2, <1>7 DEF AddIncrement
  <2> QED
    BY <2>1, <2>2, <2>4, <2>5
    DEF DueBecomes, Counter, Due, Registry!Increment
<1>8. ASSUME NEW t \in Threads, NEW s \in Stat, Aggregate(t, s)
      PROVE  \E n \in Name : Registry!Aggregate(t, n)
  <2>1. PICK n \in Name : statsMap[n] = s
    BY <1>8 DEF Aggregate, IInv, MapInv
  <2>2. /\ Counter[n] = value[s] /\ Due[t][n] = pending[t][s]
        /\ value[s] + pending[t][s] \in Int
    BY <2>1 DEF Counter, Due, IInv, TypeOK
  <2>3. /\ value' = [value EXCEPT ![s] = value[s] + pending[t][s]]
        /\ PendingBecomes(t, statsMap[n], 0)
        /\ UNCHANGED <<statsMap, answer>>
    BY <1>8, <2>1 DEF Aggregate, PendingBecomes
  <2>4. Counter' = [Counter EXCEPT ![n] = Counter[n] + Due[t][n]]
    BY <2>1, <2>2, <2>3, CounterOf
  <2>5. DueBecomes(t, n, 0)
    BY <2>1, <2>3, DueOf
  <2> QED
    BY <2>1, <2>3, <2>4, <2>5
    DEF DueBecomes, Counter, Due, Registry!Aggregate
<1>9. CASE UNCHANGED <<statsMap, value, pending, answer>>
  BY <1>2, <1>9 DEF Counter, Due, Registry!vars
<1> QED
  BY <1>1, <1>4, <1>5, <1>6, <1>7, <1>8, <1>9
  DEF Next, ConstructorStep, Use, vars, Construct, ReaderLock, Lookup,
      ReaderUnlock, WriterLock, Relookup, CreateStat, WriterUnlock,
      Counter, Due, Registry!vars, Registry!Next

(* AtsStatsVariable implements one counter per name, whichever threads     *)
(* construct its variables, count with them and read them, and whenever    *)
(* what they counted is aggregated (ImplementsStatRegistry).               *)
THEOREM VariablesImplementRegistry == Spec => ImplementsStatRegistry
<1>1. IInv /\ IInv' /\ [Next]_vars => [Registry!Next]_(Registry!vars)
  BY RegistryStep
<1> QED
  BY <1>1, RegistryInit, Invariance, PTL
  DEF Spec, ImplementsStatRegistry, Registry!Spec
=============================================================================
