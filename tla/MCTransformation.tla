-------------------------- MODULE MCTransformation --------------------------
(* Symmetry for the TLC runs of Transformation that check safety only. *)
EXTENDS Transformation, TLC

(* Rewrite threads are interchangeable: no action, invariant or refinement *)
(* mapping tells two of them apart.                                        *)
MCSymmetry == Permutations(Writers)
=============================================================================
