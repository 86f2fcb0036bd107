---------------------------- MODULE SharedObject ----------------------------
(***************************************************************************)
(* What reference counting promises: an object that several parties share  *)
(* lives until the last of them has let go of it, and is then freed once.  *)
(*                                                                         *)
(* This is the abstract specification of the life of an AtsBaseFetch       *)
(* (src/src/ats_base_fetch.h:48); module BaseFetch implements it.          *)
(***************************************************************************)
EXTENDS Naturals

CONSTANTS
  Objects,             \* the objects that are shared
  Parties              \* who shares each of them

VARIABLES
  holders,             \* the parties that have not let go of an object yet
  born,                \* the objects that were created
  frees                \* how often an object was freed

vars == <<holders, born, frees>>

Init ==
  /\ holders = [o \in Objects |-> {}]
  /\ born = {}
  /\ frees = [o \in Objects |-> 0]

Create(o) ==
  /\ o \notin born
  /\ born' = born \cup {o}
  /\ holders' = [holders EXCEPT ![o] = Parties]
  /\ UNCHANGED frees

LetGo(o, p) ==
  /\ p \in holders[o]
  /\ holders' = [holders EXCEPT ![o] = @ \ {p}]
  /\ UNCHANGED <<born, frees>>

Free(o) ==
  /\ o \in born
  /\ holders[o] = {} /\ frees[o] = 0
  /\ frees' = [frees EXCEPT ![o] = 1]
  /\ UNCHANGED <<holders, born>>

Next ==
  \E o \in Objects :
    \/ Create(o)
    \/ \E p \in Parties : LetGo(o, p)
    \/ Free(o)

Spec == Init /\ [][Next]_vars
=============================================================================
