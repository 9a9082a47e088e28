---------------------------- MODULE MCNamespace ----------------------------
(* Symmetry of the names of module Namespace, which has no liveness. *)
EXTENDS Namespace, TLC

Symmetry == Permutations(Name)

=============================================================================
