----------------------------- MODULE BodyStream -----------------------------
(***************************************************************************)
(* What a response transformation promises the client: the bytes that the  *)
(* rewriter wrote reach the client in order, each once, and the response   *)
(* is declared complete only when nothing written so far is missing.       *)
(*                                                                         *)
(* This is the abstract specification of AtsPagespeedTransformationPlugin  *)
(* (src/src/ats_pagespeed.cpp:76); module Transformation implements it     *)
(* when the rewriter writes only inside the calls the plugin makes to it.  *)
(***************************************************************************)
EXTENDS Naturals, Sequences

CONSTANT Byte          \* the values a unit of rewritten output can have

VARIABLES
  out,                 \* everything the rewriter has written so far
  delivered,           \* everything handed on towards the client so far
  complete             \* TRUE once the response has been declared complete

vars == <<out, delivered, complete>>

Init ==
  /\ out = << >>
  /\ delivered = << >>
  /\ complete = FALSE

(* The rewriter writes one more unit.  What it writes after completion is  *)
(* never delivered: the transformation is being torn down.                 *)
Write(b) ==
  /\ out' = Append(out, b)
  /\ UNCHANGED <<delivered, complete>>

(* More of what was written is passed on. *)
Deliver ==
  /\ ~complete
  /\ \E n \in Len(delivered) .. Len(out) : delivered' = SubSeq(out, 1, n)
  /\ UNCHANGED <<out, complete>>

Complete ==
  /\ ~complete
  /\ delivered = out
  /\ complete' = TRUE
  /\ UNCHANGED <<out, delivered>>

Next ==
  \/ \E b \in Byte : Write(b)
  \/ Deliver
  \/ Complete

Spec == Init /\ [][Next]_vars
=============================================================================
