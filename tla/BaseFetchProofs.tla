-------------------------- MODULE BaseFetchProofs ---------------------------
(***************************************************************************)
(* Proofs about BaseFetch, for any set of fetches: its type invariant,     *)
(* that no party uses a fetch after it was deleted, and that the count of  *)
(* references implements SharedObject.                                     *)
(***************************************************************************)
EXTENDS BaseFetch, TLAPS

-----------------------------------------------------------------------------
(* The inductive invariant. *)

Holds(f, p) == at[f][p] \in {"using", "done"}

One(b) == IF b THEN 1 ELSE 0

(* The parties start together, and only PageSpeed is ever inside HandleDone. *)
StartInv(f) ==
  /\ at[f]["transformation"] = "before" <=> at[f]["pagespeed"] = "before"
  /\ at[f]["transformation"] # "done"

(* references_ counts the parties that have not let go. *)
CountInv(f) ==
  references[f] = One(Holds(f, "transformation")) + One(Holds(f, "pagespeed"))

(* The fetch is deleted, or about to be deleted by one party, exactly when *)
(* it was constructed and both have let go.                                *)
DeleteInv(f) ==
  deletes[f] + One(at[f]["transformation"] = "deleting")
             + One(at[f]["pagespeed"] = "deleting")
    = One(at[f]["pagespeed"] # "before" /\ references[f] = 0)

IInv ==
  /\ TypeOK
  /\ \A f \in Fetches : StartInv(f) /\ CountInv(f) /\ DeleteInv(f)

-----------------------------------------------------------------------------
(* Only one fetch changes in a step, and its new state is in its type. *)

LEMMA InitIInv == Init => IInv
  BY DEF Init, IInv, TypeOK, Parties, StartInv, CountInv, DeleteInv, Holds, One

(* An action on one fetch leaves the others as they were. *)
LEMMA OthersKeep ==
  ASSUME IInv, NEW f \in Fetches,
         \A g \in Fetches \ {f} :
           /\ at'[g] = at[g] /\ references'[g] = references[g]
           /\ deletes'[g] = deletes[g],
         TypeOK', StartInv(f)', CountInv(f)', DeleteInv(f)'
  PROVE  IInv'
  BY DEF IInv, StartInv, CountInv, DeleteInv, Holds, One

(* Every action preserves the inductive invariant. *)
LEMMA NextIInv == IInv /\ [Next]_vars => IInv'
<1> SUFFICES ASSUME IInv, [Next]_vars PROVE IInv'
  OBVIOUS
<1> USE DEF TypeOK, Parties, Goes
<1>0. TypeOK /\ \A f \in Fetches : StartInv(f) /\ CountInv(f) /\ DeleteInv(f)
  BY DEF IInv
<1>1. ASSUME NEW f \in Fetches, Construct(f) PROVE IInv'
  <2>1. TypeOK'
    BY <1>0, <1>1 DEF Construct, ConstructWith
  <2>2. StartInv(f)' /\ CountInv(f)' /\ DeleteInv(f)'
    BY <1>0, <1>1
    DEF Construct, ConstructWith, StartInv, CountInv, DeleteInv, Holds, One
  <2> QED
    BY <1>0, <1>1, <2>1, <2>2, OthersKeep DEF Construct, ConstructWith
<1>2. ASSUME NEW f \in Fetches, HandleWrite(f) \/ HandleFlush(f) PROVE IInv'
  <2>1. TypeOK'
    BY <1>0, <1>2 DEF HandleWrite, HandleFlush
  <2>2. UNCHANGED <<at, references, deletes>>
    BY <1>2 DEF HandleWrite, HandleFlush
  <2> QED
    BY <1>0, <2>1, <2>2 DEF IInv, StartInv, CountInv, DeleteInv, Holds
<1>3. ASSUME NEW f \in Fetches, HandleDone(f) PROVE IInv'
  <2>1. TypeOK'
    BY <1>0, <1>3 DEF HandleDone, MarkDone
  <2>2. StartInv(f)' /\ CountInv(f)' /\ DeleteInv(f)'
    BY <1>0, <1>3
    DEF HandleDone, MarkDone, StartInv, CountInv, DeleteInv, Holds, One
  <2> QED
    BY <1>0, <1>3, <2>1, <2>2, OthersKeep DEF HandleDone, MarkDone
<1>4. ASSUME NEW f \in Fetches, NEW p \in Parties,
             NEW from \in {"using", "done"}, Decref(f, p, from, "gone")
      PROVE  IInv'
  <2>1. references[f] \in 1 .. 2
    BY <1>0, <1>4 DEF Decref, CountInv, Holds, One
  <2>2. TypeOK'
    BY <1>0, <1>4, <2>1 DEF Decref
  <2>3. StartInv(f)' /\ CountInv(f)'
    BY <1>0, <1>4, <2>1 DEF Decref, StartInv, CountInv, Holds, One
  <2>4. DeleteInv(f)'
    <3>1. /\ deletes[f] = 0
          /\ at[f]["transformation"] # "deleting" /\ at[f]["pagespeed"] # "deleting"
      BY <1>0, <2>1 DEF DeleteInv, One
    <3>2. deletes'[f] = 0 /\ at'[f]["pagespeed"] # "before"
      BY <1>0, <1>4, <3>1 DEF Decref, StartInv
    <3>3. \A q \in Parties : at'[f][q] = "deleting" <=> q = p /\ references'[f] = 0
      BY <1>0, <1>4, <3>1 DEF Decref, IsLast
    <3> QED
      BY <3>2, <3>3 DEF DeleteInv, One
  <2> QED
    BY <1>0, <1>4, <2>2, <2>3, <2>4, OthersKeep DEF Decref
<1>5. ASSUME NEW f \in Fetches, NEW p \in Parties, Delete(f, p) PROVE IInv'
  <2>1. /\ deletes[f] = 0 /\ references[f] = 0
        /\ \A q \in Parties : at[f][q] = "deleting" <=> q = p
    BY <1>0, <1>5 DEF Delete, DeleteInv, One
  <2>2. TypeOK'
    BY <1>0, <1>5, <2>1 DEF Delete
  <2>3. StartInv(f)' /\ CountInv(f)'
    BY <1>0, <1>5 DEF Delete, StartInv, CountInv, Holds, One
  <2>4. DeleteInv(f)'
    BY <1>0, <1>5, <2>1 DEF Delete, DeleteInv, StartInv, One
  <2> QED
    BY <1>0, <1>5, <2>2, <2>3, <2>4, OthersKeep DEF Delete
<1>6. CASE UNCHANGED vars
  BY <1>6 DEF vars, IInv, StartInv, CountInv, DeleteInv, Holds
<1> QED
  BY <1>1, <1>2, <1>3, <1>4, <1>5, <1>6
  DEF Next, AllDeleted, DoneDecref, Release

(* The inductive invariant holds in every reachable state. *)
THEOREM Invariance == Spec => []IInv
<1> QED
  BY InitIInv, NextIInv, PTL DEF Spec

(* The variables keep their types: references_ never goes below zero and   *)
(* no fetch is deleted twice.                                              *)
THEOREM TypeCorrect == Spec => []TypeOK
<1>1. IInv => TypeOK
  BY DEF IInv
<1> QED
  BY <1>1, Invariance, PTL

(* A party that can still call a fetch finds it there. *)
THEOREM FetchOutlivesItsUsers == Spec => []NoUseAfterDelete
<1>1. IInv => NoUseAfterDelete
  BY DEF IInv, TypeOK, NoUseAfterDelete, CountInv, DeleteInv, Holds, One, Parties
<1> QED
  BY <1>1, Invariance, PTL

-----------------------------------------------------------------------------
(* BaseFetch implements SharedObject. *)

Holders == [f \in Fetches |-> {p \in Parties : at[f][p] \in {"using", "done"}}]
Born == {f \in Fetches : at[f]["pagespeed"] # "before"}

(* Initial states map to initial states. *)
LEMMA InitMaps == Init => Shared!Init
  BY DEF Init, Shared!Init, Parties

(* Every step maps to a step of SharedObject or to a stutter. *)
LEMMA StepMaps == IInv /\ [Next]_vars => [Shared!Next]_(Shared!vars)
<1> SUFFICES ASSUME IInv, [Next]_vars
             PROVE  [Shared!Next]_(Shared!vars)
  OBVIOUS
<1> USE DEF TypeOK, Goes
<1>0. TypeOK /\ \A f \in Fetches : StartInv(f) /\ CountInv(f) /\ DeleteInv(f)
  BY DEF IInv
<1>1. ASSUME NEW f \in Fetches, Construct(f)
      PROVE  Shared!Create(f)
  BY <1>0, <1>1 DEF Construct, ConstructWith, Shared!Create, Parties
<1>2. ASSUME NEW f \in Fetches, HandleWrite(f) \/ HandleFlush(f)
      PROVE  UNCHANGED Shared!vars
  BY <1>2 DEF HandleWrite, HandleFlush, Shared!vars
<1>3. ASSUME NEW f \in Fetches, HandleDone(f)
      PROVE  UNCHANGED Shared!vars
  <2>1. \A g \in Fetches, p \in Parties :
          /\ at'[g][p] \in {"using", "done"} <=> at[g][p] \in {"using", "done"}
          /\ at'[g][p] = "before" <=> at[g][p] = "before"
    BY <1>0, <1>3 DEF HandleDone, MarkDone, Parties
  <2> QED
    BY <1>3, <2>1 DEF HandleDone, MarkDone, Shared!vars, Parties
<1>4. ASSUME NEW f \in Fetches, NEW p \in Parties,
             NEW from \in {"using", "done"}, Decref(f, p, from, "gone")
      PROVE  Shared!LetGo(f, p)
  <2>1. at[f][p] = from
    BY <1>4 DEF Decref
  <2>2. \A g \in Fetches, q \in Parties :
          /\ at'[g][q] \in {"using", "done"} <=>
               at[g][q] \in {"using", "done"} /\ ~(g = f /\ q = p)
          /\ at'[g][q] = "before" <=> at[g][q] = "before"
    BY <1>0, <1>4 DEF Decref, Parties
  <2>3. Holders' = [Holders EXCEPT ![f] = @ \ {p}]
    BY <2>2 DEF Holders
  <2>4. Born' = Born
    BY <2>2 DEF Born, Parties
  <2> QED
    BY <1>4, <2>1, <2>3, <2>4 DEF Decref, Shared!LetGo, Holders, Born
<1>5. ASSUME NEW f \in Fetches, NEW p \in Parties, Delete(f, p)
      PROVE  Shared!Free(f)
  <2>1. /\ deletes[f] = 0 /\ references[f] = 0
        /\ at[f]["pagespeed"] # "before"
    BY <1>0, <1>5 DEF Delete, DeleteInv, One, Parties
  <2>2. \A q \in Parties : at[f][q] \notin {"using", "done"}
    BY <1>0, <2>1 DEF CountInv, Holds, One, Parties
  <2>3. \A g \in Fetches, q \in Parties :
          /\ at'[g][q] \in {"using", "done"} <=> at[g][q] \in {"using", "done"}
          /\ at'[g][q] = "before" <=> at[g][q] = "before"
    BY <1>0, <1>5 DEF Delete, Parties
  <2>4. Holders' = Holders /\ Born' = Born
    BY <2>3 DEF Holders, Born, Parties
  <2>5. Holders[f] = {} /\ f \in Born
    BY <2>1, <2>2 DEF Holders, Born
  <2> QED
    BY <1>0, <1>5, <2>1, <2>4, <2>5 DEF Delete, Shared!Free, Holders, Born
<1>6. CASE UNCHANGED vars
  BY <1>6 DEF vars, Shared!vars
<1> QED
  BY <1>1, <1>2, <1>3, <1>4, <1>5, <1>6
  DEF Next, AllDeleted, DoneDecref, Release, Shared!Next, Parties

(* The count of references keeps the promise of SharedObject. *)
THEOREM CountImplementsSharing == Spec => ImplementsSharedObject
<1> QED
  BY InitMaps, StepMaps, Invariance, PTL
  DEF Spec, ImplementsSharedObject, Shared!Spec
=============================================================================
