---------------------------- MODULE StatRegistry ----------------------------
(***************************************************************************)
(* What PageSpeed's statistics promise: one counter per name, kept in one  *)
(* part per thread and aggregated from time to time.  Every variable of a  *)
(* name, whoever constructed it, counts in that counter and is answered    *)
(* from it; an answer may lag behind the increments, but nothing that was  *)
(* counted is lost, counted twice or counted for another name.             *)
(*                                                                         *)
(* This is the abstract specification of AtsStatsVariable                  *)
(* (src/src/ats_stats_variable.cpp); module StatsVariable implements it.   *)
(***************************************************************************)
EXTENDS Integers

CONSTANTS
  Name,          \* the names of statistics
  Threads,       \* the threads that use them
  Values         \* what they set counters to and add to them

VARIABLES
  counter,       \* the aggregated value of each name
  due,           \* what each thread counted for a name and is not in it yet
  answer         \* the name and value of the last answer each thread got

vars == <<counter, due, answer>>

NoAnswer == [names |-> {}, value |-> 0]

Init ==
  /\ counter = [n \in Name |-> 0]
  /\ due = [t \in Threads |-> [n \in Name |-> 0]]
  /\ answer = [t \in Threads |-> NoAnswer]

Set(n, x) ==
  /\ counter' = [counter EXCEPT ![n] = x]
  /\ UNCHANGED <<due, answer>>

Increment(t, n, d) ==
  /\ due' = [due EXCEPT ![t][n] = @ + d]
  /\ UNCHANGED <<counter, answer>>

Aggregate(t, n) ==
  /\ counter' = [counter EXCEPT ![n] = @ + due[t][n]]
  /\ due' = [due EXCEPT ![t][n] = 0]
  /\ UNCHANGED answer

Answer(t, n) ==
  /\ answer' = [answer EXCEPT ![t] = [names |-> {n}, value |-> counter[n]]]
  /\ UNCHANGED <<counter, due>>

Next ==
  \E n \in Name :
    \/ \E x \in Values : Set(n, x)
    \/ \E t \in Threads :
         \/ \E x \in Values : Increment(t, n, x)
         \/ Aggregate(t, n)
         \/ Answer(t, n)

Spec == Init /\ [][Next]_vars
=============================================================================
