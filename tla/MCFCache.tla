------------------------------- MODULE MCFCache -------------------------------
(***************************************************************************)
(* FCache for TLC: the values of a byte other than the padding are         *)
(* interchangeable.                                                        *)
(***************************************************************************)
EXTENDS FCache, TLC

Symmetry == Permutations(Bytes \ {Zero})

=============================================================================
