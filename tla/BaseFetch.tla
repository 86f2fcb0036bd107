----------------------------- MODULE BaseFetch ------------------------------
(***************************************************************************)
(* The life of AtsBaseFetch (src/src/ats_base_fetch.cpp): a fetch that the *)
(* transformation of a response shares with PageSpeed.  PageSpeed fills    *)
(* the fetch and reports that it is done; the transformation releases it.  *)
(* They run on different threads and either may be the last.               *)
(*                                                                         *)
(* The class is not in the build and nothing here constructs it: that      *)
(* each party makes its last call once is what its comment asks of them    *)
(* (src/src/ats_base_fetch.h:47).  Its mutex is taken by HandleDone only   *)
(* and so orders nothing.                                                  *)
(***************************************************************************)
EXTENDS Integers

CONSTANT Fetches       \* the fetches that are constructed

Parties == {"transformation", "pagespeed"}

VARIABLES
  at,                  \* where each party is with a fetch
  references,          \* references_
  doneCalled,          \* done_called_
  buffered,            \* buffer_ is not empty
  deletes              \* history: how often the fetch was deleted

vars == <<at, references, doneCalled, buffered, deletes>>

Init ==
  /\ at = [f \in Fetches |-> [p \in Parties |-> "before"]]
  /\ references = [f \in Fetches |-> 0]
  /\ doneCalled = [f \in Fetches |-> FALSE]
  /\ buffered = [f \in Fetches |-> FALSE]
  /\ deletes = [f \in Fetches |-> 0]

Goes(f, p, to) == at' = [at EXCEPT ![f][p] = to]

-----------------------------------------------------------------------------
ConstructWith(f, count) ==
  /\ at[f]["pagespeed"] = "before"
  /\ at' = [at EXCEPT ![f] = [p \in Parties |-> "using"]]
  /\ references' = [references EXCEPT ![f] = count]
  /\ UNCHANGED <<doneCalled, buffered, deletes>>

(* Mutant: the reference of the party that constructs it is forgotten. *)
ConstructForOne(f) == ConstructWith(f, 1)

Construct(f) == ConstructWith(f, 2)

(* HandleWrite appends to the buffer, HandleFlush clears it. *)
HandleWrite(f) ==
  /\ at[f]["pagespeed"] = "using"
  /\ buffered' = [buffered EXCEPT ![f] = TRUE]
  /\ UNCHANGED <<at, references, doneCalled, deletes>>

HandleFlush(f) ==
  /\ at[f]["pagespeed"] = "using"
  /\ buffered' = [buffered EXCEPT ![f] = FALSE]
  /\ UNCHANGED <<at, references, doneCalled, deletes>>

MarkDone(f, to) ==
  /\ at[f]["pagespeed"] = "using"
  /\ doneCalled' = [doneCalled EXCEPT ![f] = TRUE]
  /\ Goes(f, "pagespeed", to)
  /\ UNCHANGED <<references, buffered, deletes>>

(* Mutant: HandleDone returns where it finds the transformation gone. *)
DoneGivesUp(f) == MarkDone(f, IF references[f] < 2 THEN "gone" ELSE "done")

(* HandleDone up to its call of DecrefAndDeleteIfUnreferenced: what it     *)
(* finds in references_ changes nothing.                                   *)
HandleDone(f) == MarkDone(f, "done")

(* Mutant: the count after the decrement is compared with one. *)
OffByOne(count) == count <= 1

IsLast(count) == count = 0

(* __sync_add_and_fetch: the decrement and the test of its result are one  *)
(* step, the delete is another.                                            *)
Decref(f, p, from, goesOn) ==
  /\ at[f][p] = from
  /\ references' = [references EXCEPT ![f] = @ - 1]
  /\ Goes(f, p, IF IsLast(references'[f]) THEN "deleting" ELSE goesOn)
  /\ UNCHANGED <<doneCalled, buffered, deletes>>

(* Mutant: the transformation goes on to use, and release, its fetch. *)
ReleaseAgain(f) == Decref(f, "transformation", "using", "using")

Release(f) == Decref(f, "transformation", "using", "gone")

DoneDecref(f) == Decref(f, "pagespeed", "done", "gone")

Delete(f, p) ==
  /\ at[f][p] = "deleting"
  /\ deletes' = [deletes EXCEPT ![f] = @ + 1]
  /\ Goes(f, p, "gone")
  /\ UNCHANGED <<references, doneCalled, buffered>>

(* Every fetch is deleted and nobody constructs another. *)
AllDeleted == (\A f \in Fetches : deletes[f] > 0) /\ UNCHANGED vars

-----------------------------------------------------------------------------
Next ==
  \/ \E f \in Fetches :
       \/ Construct(f)
       \/ HandleWrite(f) \/ HandleFlush(f) \/ HandleDone(f) \/ DoneDecref(f)
       \/ Release(f)
       \/ \E p \in Parties : Delete(f, p)
  \/ AllDeleted

Spec == Init /\ [][Next]_vars

(* A call that has begun returns.  Nothing makes a party begin one. *)
FairSpec ==
  /\ Spec
  /\ \A f \in Fetches :
       WF_vars(DoneDecref(f)) /\ \A p \in Parties : WF_vars(Delete(f, p))

-----------------------------------------------------------------------------
TypeOK ==
  /\ at \in [Fetches ->
       [Parties -> {"before", "using", "done", "deleting", "gone"}]]
  /\ references \in [Fetches -> 0 .. 2]
  /\ doneCalled \in [Fetches -> BOOLEAN]
  /\ buffered \in [Fetches -> BOOLEAN]
  /\ deletes \in [Fetches -> {0, 1}]

-----------------------------------------------------------------------------
(* Properties. *)

(* A party that can still call the fetch, or is inside a call of it, finds *)
(* it there, whichever of the two lets go first and wherever in HandleDone *)
(* the other one overtakes it.                                             *)
NoUseAfterDelete ==
  \A f \in Fetches, p \in Parties :
    at[f][p] \in {"using", "done", "deleting"} => deletes[f] = 0

(* A fetch that PageSpeed has called done and the transformation has       *)
(* released is deleted: no order of the two leaks it.                      *)
DeletedInTheEnd ==
  \A f \in Fetches :
    doneCalled[f] /\ at[f]["transformation"] \in {"deleting", "gone"}
      ~> deletes[f] = 1

(* The fetch lives until both have let go and is deleted once.             *)
Shared == INSTANCE SharedObject WITH
  Objects <- Fetches,
  holders <- [f \in Fetches |-> {p \in Parties : at[f][p] \in {"using", "done"}}],
  born <- {f \in Fetches : at[f]["pagespeed"] # "before"},
  frees <- deletes

ImplementsSharedObject == Shared!Spec
=============================================================================
